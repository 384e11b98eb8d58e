------------------------------ MODULE Mailbox ------------------------------
(***************************************************************************)
(* The agent mailbox (packages/core/src/events/mailbox.ts) on one SQLite    *)
(* file, with the turn that drains it (engine.ts) and the second process    *)
(* that opens the same file, `declaragent mailbox' (mailbox-cli.ts).        *)
(*                                                                         *)
(* A statement or transaction is atomic in the database, and the code       *)
(* between two awaits is atomic in its process; two processes interleave    *)
(* between statements.                                                     *)
(***************************************************************************)
EXTENDS Naturals, FiniteSets

CONSTANTS
  Processes,   \* processes with the database open
  Agents,
  Messages,    \* message ids; finitely many, so runs are bounded
  Uncached,    \* depthByAgent has no entry
  MaxRestarts, MaxFaults   \* bounds: process restarts, failing session appends

MailboxParameters ==
  /\ IsFiniteSet(Messages) /\ IsFiniteSet(Processes)
  /\ Uncached \notin Nat
  /\ {MaxRestarts, MaxFaults} \subseteq Nat

VARIABLES
  row,        \* message -> "absent", "pending", "drained" or "purged"
  to,         \* message -> to_agent
  depth,      \* process, agent -> depthByAgent entry
  selected,   \* process -> rows its running drainFor has read and not marked
  draining,   \* process -> the agent that drainFor is for, {} when none runs
  batch,      \* process -> drained messages not yet appended to a session
  delivered,  \* message -> times it reached a session (history)
  writers,    \* processes that have sent or drained (history)
  overlapped, \* a send or drain fell inside another process's drain (history)
  restarts, faults

queue == <<row, to>>
past  == <<writers, overlapped>>
vars  == <<queue, depth, selected, draining, batch, delivered, past, restarts, faults>>

Sent       == {m \in Messages : row[m] # "absent"}
Pending(a) == {m \in Sent : row[m] = "pending" /\ to[m] = a}

\* A process inside drainFor does nothing else: its two statements run
\* without an await between them.
Free(p) == draining[p] = {}

\* Book-keeping for the properties: p sends or starts to drain.
Writes(p) ==
  /\ writers' = writers \cup {p}
  /\ overlapped' = (overlapped \/ \E q \in Processes \ {p} : ~Free(q))

Init ==
  /\ row = [m \in Messages |-> "absent"]
  /\ to \in [Messages -> Agents]
  /\ depth = [p \in Processes |-> [a \in Agents |-> Uncached]]
  /\ selected = [p \in Processes |-> {}]
  /\ draining = [p \in Processes |-> {}]
  /\ batch = [p \in Processes |-> {}]
  /\ delivered = [m \in Messages |-> 0]
  /\ writers = {} /\ overlapped = FALSE
  /\ restarts = 0 /\ faults = 0

-----------------------------------------------------------------------------
\* Faulty variants, named ...Faulty, stand before the definition they vary.
\* They are not part of the specification: each is a bug its property catches.
IncDepthFaulty(p, a) == UNCHANGED depth

\* A message is counted when it is stored and again when it is published.
IncDepthTwiceFaulty(p, a) ==
  depth' = [depth EXCEPT ![p][a] = IF @ = Uncached THEN 2 ELSE @ + 2]

\* incDepth: an agent without an entry counts from zero.
IncDepth(p, a) ==
  depth' = [depth EXCEPT ![p][a] = IF @ = Uncached THEN 1 ELSE @ + 1]

Send(p, m) ==
  /\ Free(p)
  /\ row[m] = "absent"
  /\ row' = [row EXCEPT ![m] = "pending"]
  /\ IncDepth(p, to[m])
  /\ Writes(p)
  /\ UNCHANGED <<to, selected, draining, batch, delivered, restarts, faults>>

\* resolveDepth: the cached entry, or a count that is then cached.
Resolve(p, a) ==
  IF depth[p][a] = Uncached THEN Cardinality(Pending(a)) ELSE depth[p][a]

Depth(p, a) ==
  /\ Free(p)
  /\ depth' = [depth EXCEPT ![p][a] = Resolve(p, a)]
  /\ UNCHANGED <<queue, past, selected, draining, batch, delivered, restarts, faults>>

\* drainFor reads the pending rows; with none it returns at once.
DrainSelect(p, a) ==
  /\ Free(p)
  /\ Pending(a) # {}
  /\ draining' = [draining EXCEPT ![p] = {a}]
  /\ selected' = [selected EXCEPT ![p] = Pending(a)]
  /\ Writes(p)
  /\ UNCHANGED <<queue, depth, batch, delivered, restarts, faults>>

\* The rows are returned and stay pending.
DrainMarkFaulty(p, a) ==
  /\ draining[p] = {a}
  /\ depth' = [depth EXCEPT ![p][a] = 0]
  /\ batch' = [batch EXCEPT ![p] = @ \cup selected[p]]
  /\ selected' = [selected EXCEPT ![p] = {}]
  /\ draining' = [draining EXCEPT ![p] = {}]
  /\ UNCHANGED <<queue, past, delivered, restarts, faults>>

\* then tombstones whatever is pending for the agent now, resets the cached
\* depth and returns the rows it had read.
DrainMark(p, a) ==
  /\ draining[p] = {a}
  /\ row' = [m \in Messages |-> IF m \in Pending(a) THEN "drained" ELSE row[m]]
  /\ depth' = [depth EXCEPT ![p][a] = 0]
  /\ batch' = [batch EXCEPT ![p] = @ \cup selected[p]]
  /\ selected' = [selected EXCEPT ![p] = {}]
  /\ draining' = [draining EXCEPT ![p] = {}]
  /\ UNCHANGED <<to, past, delivered, restarts, faults>>

\* The turn appends a drained event to its session, or the CLI prints it.
Deliver(p, m) ==
  /\ Free(p) /\ m \in batch[p]
  /\ batch' = [batch EXCEPT ![p] = @ \ {m}]
  /\ delivered' = [delivered EXCEPT ![m] = @ + 1]
  /\ UNCHANGED <<queue, past, depth, selected, draining, restarts, faults>>

\* An append throws: the turn logs it and goes on without the rest.
DeliverThrows(p) ==
  /\ Free(p) /\ batch[p] # {} /\ faults < MaxFaults
  /\ faults' = faults + 1
  /\ batch' = [batch EXCEPT ![p] = {}]
  /\ UNCHANGED <<queue, past, depth, selected, draining, delivered, restarts>>

\* vacuum() deletes a tombstone past its time to live.
Vacuum(m) ==
  /\ row[m] = "drained"
  /\ row' = [row EXCEPT ![m] = "purged"]
  /\ UNCHANGED <<to, past, depth, selected, draining, batch, delivered, restarts,
                 faults>>

\* A process dies and comes back: the database is what is left.
Restart(p) ==
  /\ restarts < MaxRestarts
  /\ restarts' = restarts + 1
  /\ depth' = [depth EXCEPT ![p] = [a \in Agents |-> Uncached]]
  /\ selected' = [selected EXCEPT ![p] = {}]
  /\ draining' = [draining EXCEPT ![p] = {}]
  /\ batch' = [batch EXCEPT ![p] = {}]
  /\ UNCHANGED <<queue, past, delivered, faults>>

Next ==
  \/ \E p \in Processes :
       \/ \E m \in Messages : Send(p, m) \/ Deliver(p, m)
       \/ \E a \in Agents : Depth(p, a) \/ DrainSelect(p, a) \/ DrainMark(p, a)
       \/ DeliverThrows(p)
       \/ Restart(p)
  \/ \E m \in Messages : Vacuum(m)

Spec == Init /\ [][Next]_vars

-----------------------------------------------------------------------------
(* Properties *)

TypeOK ==
  /\ row \in [Messages -> {"absent", "pending", "drained", "purged"}]
  /\ to \in [Messages -> Agents]
  /\ depth \in [Processes ->
                 [Agents -> 0 .. Cardinality(Messages) \cup {Uncached}]]
  /\ selected \in [Processes -> SUBSET Messages]
  /\ draining \in [Processes -> SUBSET Agents]
  /\ batch \in [Processes -> SUBSET Messages]
  /\ delivered \in [Messages -> 0 .. Cardinality(Processes)]
  /\ writers \subseteq Processes /\ overlapped \in BOOLEAN
  /\ restarts \in 0 .. MaxRestarts /\ faults \in 0 .. MaxFaults

\* A message a turn holds or has seen is tombstoned, so no later drain returns it:
\* "A crash mid-drain can't leave callers thinking messages were delivered when
\* they were in fact still pending" (drainFor).  Unless another process sends or
\* drains in the middle of a drain, it reaches one session at most, once; and it
\* is in the queue, in the hands of a turn, or delivered, unless a process dies or
\* an append fails with drained messages in hand (send, drainFor, vacuum,
\* engine.ts).
Holders(m) == {p \in Processes : m \in batch[p]}
HandedOverOnce ==
  \A m \in Sent :
    /\ delivered[m] > 0 \/ Holders(m) # {} => row[m] \in {"drained", "purged"}
    /\ ~overlapped => delivered[m] + Cardinality(Holders(m)) <= 1
    /\ ~overlapped /\ restarts = 0 /\ faults = 0 =>
         row[m] = "pending" \/ delivered[m] > 0 \/ Holders(m) # {}

\* depth() answers the number of pending messages ("staying in sync through
\* the send/drain call sites"), as long as one process does all the sending and
\* draining and does not die.
DepthIsPending ==
  \A p \in Processes, a \in Agents :
    Free(p) /\ writers \subseteq {p} /\ restarts = 0
      => Resolve(p, a) = Cardinality(Pending(a))
=============================================================================
