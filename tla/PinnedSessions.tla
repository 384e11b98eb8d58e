--------------------------- MODULE PinnedSessions ---------------------------
(***************************************************************************)
(* Events pinned to one durable session by a sessionKey: the `skill' target  *)
(* of packages/core/src/events/dispatcher.ts with its per-session lock, the  *)
(* turn of packages/core/src/engine/engine.ts and the SQLite transcript of   *)
(* packages/core/src/session/sqlite.ts, as up-cli.ts wires them.             *)
(*                                                                         *)
(* One action is the code between two waits.  resolveByKey and createForKey  *)
(* return at once, but their `await' lets the other dispatches run.  These   *)
(* turns have no abort signal, and their mailbox is empty (module Mailbox).  *)
(* A crash loses what is in memory; the boot dispatches what was in flight   *)
(* again (module EventDispatch).                                             *)
(***************************************************************************)
EXTENDS Naturals, Sequences

CONSTANTS
  Dispatches,      \* events on their way to a pinned session
  Keys,            \* session keys; each names at most one session
  MaxIterations,   \* effectiveMaxIterations
  MaxBlocks,       \* bound: tool_use blocks of one response
  MaxFaults,       \* bound: turns cut short by an exception or the spend cap
  MaxCrashes       \* bound: process exits

ASSUME PinnedAssumption ==
  /\ {MaxIterations, MaxBlocks} \subseteq Nat \ {0}
  /\ {MaxFaults, MaxCrashes} \subseteq Nat

VARIABLES
  key,         \* dispatch -> its target's sessionKey
  pinned,      \* keys with a row in session_keys
  stored,      \* key -> the messages of its session, in seq order
  pc,          \* dispatch -> where executeTarget or its turn waits
  handle,      \* dispatch -> `messages' of the SessionHandle it holds
  chain,       \* sessionChains: key -> its dispatches, in order of the lock
  turn,        \* dispatch -> iterations so far, blocks of the response, answers
  outcome,     \* dispatch -> what became of it
  shared,      \* dispatches in flight beside another of their key (history)
  cut,         \* <<key, seq>> of responses whose turn was cut short (history)
  faultsLeft, crashesLeft

store  == <<pinned, stored>>
memory == <<pc, handle, chain, turn>>
budget == <<faultsLeft, crashesLeft>>
vars   == <<key, store, memory, outcome, shared, cut, budget>>

NoTurn == [iteration |-> 0, blocks |-> 0, answers |-> 0]

Running  == {"asking", "tools", "ending"}   \* inside runAgent
Resolved == {"found", "missed", "created"}

Peers(d)    == {e \in Dispatches : key[e] = key[d]} \ {d}
InFlight(d) == pc[d] # "idle"

Init ==
  /\ key \in [Dispatches -> Keys]
  /\ pinned = {} /\ stored = [k \in Keys |-> <<>>]
  /\ pc = [d \in Dispatches |-> "idle"]
  /\ handle = [d \in Dispatches |-> <<>>]
  /\ chain = [k \in Keys |-> <<>>]
  /\ turn = [d \in Dispatches |-> NoTurn]
  /\ outcome = [d \in Dispatches |-> "none"]
  /\ shared = {} /\ cut = {}
  /\ faultsLeft = MaxFaults /\ crashesLeft = MaxCrashes

-----------------------------------------------------------------------------
(* The dispatcher: resolve or create the session, then wait for its lock *)

\* Faulty variants, named ...Faulty, stand before the definition they vary.
\* They are not part of the specification: each is a bug its property catches.
\* The session is opened without its messages.
OpenedFaulty(d) == <<>>

\* resolveByKey builds a handle from the stored messages; resolved later, it
\* still has these.
Opened(d) == stored[key[d]]

\* Nothing of d is left in memory.
Ends(d, o) ==
  /\ pc' = [pc EXCEPT ![d] = "idle"]
  /\ handle' = [handle EXCEPT ![d] = <<>>]
  /\ turn' = [turn EXCEPT ![d] = NoTurn]
  /\ outcome' = [outcome EXCEPT ![d] = o]

Resolve(d) ==
  /\ pc[d] = "idle" /\ outcome[d] = "none"
  /\ \/ /\ key[d] \in pinned
        /\ pc' = [pc EXCEPT ![d] = "found"]
        /\ handle' = [handle EXCEPT ![d] = Opened(d)]
     \/ /\ key[d] \notin pinned
        /\ pc' = [pc EXCEPT ![d] = "missed"]
        /\ UNCHANGED handle
  /\ shared' = LET beside == {e \in Peers(d) : InFlight(e)}
               IN shared \cup beside \cup (IF beside = {} THEN {} ELSE {d})
  /\ UNCHANGED <<key, store, chain, turn, outcome, cut, budget>>

\* createForKey: one transaction, which the primary key of session_keys refuses
\* when another dispatch has pinned the key meanwhile.
Create(d) ==
  /\ pc[d] = "missed"
  /\ \/ /\ key[d] \notin pinned
        /\ pinned' = pinned \cup {key[d]}
        /\ pc' = [pc EXCEPT ![d] = "created"]
        /\ UNCHANGED <<handle, turn, outcome>>
     \/ /\ key[d] \in pinned
        /\ Ends(d, "pin-taken")
        /\ UNCHANGED pinned
  /\ UNCHANGED <<key, stored, chain, shared, cut, budget>>

\* The breaker of the skill refuses.
Refuse(d) ==
  /\ pc[d] \in {"found", "created"}
  /\ Ends(d, "circuit-open")
  /\ UNCHANGED <<key, store, chain, shared, cut, budget>>

\* runForSession puts the turn behind the last one of the session.
Enqueue(d) ==
  /\ pc[d] \in {"found", "created"}
  /\ chain' = [chain EXCEPT ![key[d]] = Append(@, d)]
  /\ pc' = [pc EXCEPT ![d] = "queued"]
  /\ UNCHANGED <<key, store, handle, turn, outcome, shared, cut, budget>>

\* The turn of d is settled: the lock goes to the next.
Release(d) == chain' = [chain EXCEPT ![key[d]] = Tail(@)]

\* A turn starts at once, whoever holds the session.
HasLockFaulty(d) == \E i \in DOMAIN chain[key[d]] : chain[key[d]][i] = d

\* runForSession starts it when the one before it is settled.
HasLock(d) == chain[key[d]] # <<>> /\ Head(chain[key[d]]) = d

-----------------------------------------------------------------------------
(* The transcript *)

Message(d, kind, n) == [of |-> d, kind |-> kind, n |-> n]

\* appendMessage inserts at the length of its own handle; the primary key
\* (session_id, seq) refuses a seq that is taken.
Fits(d) == Len(stored[key[d]]) <= Len(handle[d])

Appends(d, m) ==
  /\ stored' = [stored EXCEPT ![key[d]] = Append(@, m)]
  /\ handle' = [handle EXCEPT ![d] = Append(@, m)]

\* The last message of d's session, whose turn stops here.
CutShort(d) == cut' = cut \cup {<<key[d], Len(stored[key[d]])>>}

-----------------------------------------------------------------------------
(* runAgent *)

\* The event becomes a user message; an append that throws here rejects
\* runAgent, and with it the dispatch.
Begin(d) ==
  /\ pc[d] = "queued" /\ HasLock(d)
  /\ \/ /\ Fits(d)
        /\ Appends(d, Message(d, "user", 0))
        /\ pc' = [pc EXCEPT ![d] = "asking"]
        /\ UNCHANGED <<chain, turn, outcome>>
     \/ /\ ~Fits(d)
        /\ Ends(d, "stale") /\ Release(d)
        /\ UNCHANGED stored
  /\ UNCHANGED <<key, pinned, shared, cut, budget>>

\* The provider throws, or its answer cannot be stored.
ProviderFails(d) ==
  /\ pc[d] = "asking"
  /\ pc' = [pc EXCEPT ![d] = "ending"]
  /\ UNCHANGED <<key, store, handle, chain, turn, outcome, shared, cut, budget>>

\* It answers in words.
Answer(d) ==
  /\ pc[d] = "asking" /\ Fits(d)
  /\ Appends(d, Message(d, "text", 0))
  /\ pc' = [pc EXCEPT ![d] = "ending"]
  /\ UNCHANGED <<key, pinned, chain, turn, outcome, shared, cut, budget>>

\* It asks for n tool calls.
Ask(d, n) ==
  /\ pc[d] = "asking" /\ Fits(d)
  /\ Appends(d, Message(d, "calls", n))
  /\ pc' = [pc EXCEPT ![d] = "tools"]
  /\ turn' = [turn EXCEPT ![d].blocks = n, ![d].answers = 0]
  /\ UNCHANGED <<key, pinned, chain, outcome, shared, cut, budget>>

\* An exception on the way of a call (a before-hook, the permission gate, the
\* prompter, the tool), the spend cap before the first, or a response cut off at
\* max_tokens: the calls stay in the transcript without their results.
CutOff(d) ==
  /\ pc[d] = "tools" /\ faultsLeft > 0
  /\ CutShort(d)
  /\ pc' = [pc EXCEPT ![d] = "ending"]
  /\ faultsLeft' = faultsLeft - 1
  /\ UNCHANGED <<key, store, handle, chain, turn, outcome, shared, crashesLeft>>

\* Escalation leaves the loop over the blocks at once.
AnsweredFaulty(d, escalates) == turn[d].answers + 1

\* Blocks with a result once this one has its own: after a denial that
\* escalates, the rest get EABORT.
Answered(d, escalates) == IF escalates THEN turn[d].blocks ELSE turn[d].answers + 1

\* One block is executed, refused or denied,
NextBlock(d) ==
  /\ pc[d] = "tools" /\ Answered(d, FALSE) < turn[d].blocks
  /\ turn' = [turn EXCEPT ![d].answers = Answered(d, FALSE)]
  /\ UNCHANGED <<key, store, pc, handle, chain, outcome, shared, cut, budget>>

\* and the last one appends the results; the loop goes round again unless it
\* escalates or the iterations are used up.
LastBlock(d, escalates) ==
  /\ pc[d] = "tools" /\ Fits(d)
  /\ escalates \/ Answered(d, escalates) >= turn[d].blocks
  /\ Appends(d, Message(d, "results", Answered(d, escalates)))
  /\ turn' = [turn EXCEPT ![d].iteration = @ + 1]
  /\ pc' = [pc EXCEPT ![d] =
              IF escalates \/ turn[d].iteration + 1 = MaxIterations THEN "ending"
              ELSE "asking"]
  /\ UNCHANGED <<key, pinned, chain, outcome, shared, cut, budget>>

\* markTurn, turn.end and the events of the turn; whatever its stopReason, the
\* event counts as dispatched.
Finish(d) ==
  /\ pc[d] = "ending"
  /\ Ends(d, "dispatched") /\ Release(d)
  /\ UNCHANGED <<key, store, shared, cut, budget>>

-----------------------------------------------------------------------------
\* The process exits; the boot dispatches what was in flight again.
Crash ==
  /\ crashesLeft > 0 /\ crashesLeft' = crashesLeft - 1
  /\ pc' = [d \in Dispatches |-> "idle"]
  /\ handle' = [d \in Dispatches |-> <<>>]
  /\ chain' = [k \in Keys |-> <<>>]
  /\ turn' = [d \in Dispatches |-> NoTurn]
  /\ cut' = cut \cup {<<key[d], Len(stored[key[d]])>> : d \in {e \in Dispatches : pc[e] = "tools"}}
  /\ UNCHANGED <<key, store, outcome, shared, faultsLeft>>

Turn(d) ==
  \/ Begin(d) \/ ProviderFails(d) \/ Answer(d)
  \/ \E n \in 1 .. MaxBlocks : Ask(d, n)
  \/ CutOff(d) \/ NextBlock(d)
  \/ \E escalates \in BOOLEAN : LastBlock(d, escalates)
  \/ Finish(d)

Next ==
  \/ \E d \in Dispatches : Resolve(d) \/ Create(d) \/ Refuse(d) \/ Enqueue(d) \/ Turn(d)
  \/ Crash

Spec == Init /\ [][Next]_vars

-----------------------------------------------------------------------------
(* Properties *)

Outcomes == {"none", "dispatched", "circuit-open", "pin-taken", "stale"}

Transcript ==
  Seq([of : Dispatches, kind : {"user", "text", "calls", "results"}, n : 0 .. MaxBlocks])

TypeOK ==
  /\ key \in [Dispatches -> Keys] /\ pinned \subseteq Keys
  /\ stored \in [Keys -> Transcript] /\ handle \in [Dispatches -> Transcript]
  /\ chain \in [Keys -> Seq(Dispatches)]
  /\ pc \in [Dispatches -> {"idle", "queued"} \cup Resolved \cup Running]
  /\ turn \in [Dispatches -> [iteration : 0 .. MaxIterations, blocks : 0 .. MaxBlocks,
                              answers : 0 .. MaxBlocks]]
  /\ outcome \in [Dispatches -> Outcomes]
  /\ shared \subseteq Dispatches /\ cut \subseteq Keys \X Nat
  /\ faultsLeft \in 0 .. MaxFaults /\ crashesLeft \in 0 .. MaxCrashes

\* A turn sends the model the whole stored conversation: nothing is appended to
\* its session, by a turn before it or beside it, that its own handle misses
\* (runForSession, and the primary key under appendMessage).
RequestSeesAll ==
  \A d \in Dispatches : pc[d] \in Running => handle[d] = stored[key[d]]

\* The lock is never held by a turn that is over: who waits for a session waits
\* for a turn that is queued or runs, also when the one before it was rejected
\* (runForSession: "so the chain survives handler errors").
LockIsLive ==
  \A k \in Keys : chain[k] # <<>> =>
    /\ pc[Head(chain[k])] \in {"queued"} \cup Running
    /\ \A i, j \in DOMAIN chain[k] : chain[k][i] = chain[k][j] => i = j

\* Every tool call the model made has its answer in the next message, also when
\* a denial escalates or the iterations run out; but for the turn that is
\* running its calls, and those cut short by an exception, the spend cap or a
\* crash.
CallsAnswered ==
  \A k \in Keys : \A i \in DOMAIN stored[k] : stored[k][i].kind = "calls" =>
    \/ i + 1 \in DOMAIN stored[k] /\ stored[k][i + 1] = [stored[k][i] EXCEPT !.kind = "results"]
    \/ <<k, i>> \in cut
    \/ i = Len(stored[k]) /\ pc[stored[k][i].of] = "tools"

\* The per-session lock does what it is for.
SessionLock == RequestSeesAll /\ LockIsLive

\* The conversations of module Conversation, of which handles, chains and places
\* in the code are the implementation: a turn is open while it is inside runAgent.
Speaking   == [k \in Keys |-> {d \in Dispatches : key[d] = k /\ pc[d] \in Running}]
Dispatched == {d \in Dispatches : outcome[d] = "dispatched"}

Talk == INSTANCE Conversation WITH
          Events <- Dispatches, Sessions <- Keys, MostCalls <- MaxBlocks,
          said <- stored, open <- Speaking, closed <- Dispatched

\* Sessions are conversations: whatever waits, is refused, fails or crashes, the
\* turns of a session are told one after the other, the store only grows, results
\* answer the calls before them, and an event that was dispatched is not told
\* again (runForSession, appendMessage, runAgent).
KeepsConversation == Talk!Spec

\* Events that share no time with another of their key are never turned away by
\* the store, and each that was dispatched is in the conversation: across events
\* and restarts the session accumulates (resolveByKey, createForKey).
Accumulates ==
  \A d \in Dispatches \ shared :
    /\ outcome[d] \notin {"stale", "pin-taken"}
    /\ outcome[d] = "dispatched" =>
         \E i \in DOMAIN stored[key[d]] : stored[key[d]][i] = Message(d, "user", 0)

\* "Two events with the same `sessionKey` run serially behind the dispatcher's
\* per-session lock" (docs/AGENT_DURABILITY.md:201): the second one runs too.
WaitingTurnRuns == \A d \in Dispatches : outcome[d] # "stale"
=============================================================================
