--------------------------- MODULE RpcCorrelation ---------------------------
(***************************************************************************)
(* packages/plugin-agent-rpc: how one agent matches the answers of its      *)
(* RequestAgent calls (request-agent.ts) with the callers that wait for     *)
(* them (pending-registry.ts), fed by the subscription of its responses     *)
(* topic (agent-inbox.ts handleResponse; the inline handler of              *)
(* cli/src/fleet-run-llm-handler.ts does the same).                         *)
(*                                                                          *)
(* The tool takes its correlationId from ctx.correlationId, which the       *)
(* engine sets to the causedBy of the turn: all calls of one turn, and the  *)
(* calls of every turn with that cause, then carry the same id.  Cause says *)
(* which; a call without a cause draws a fresh one.                         *)
(*                                                                          *)
(* The peer, the broker and the process are external.  Left out:            *)
(* fire-and-forget (an `event' without replyTo: no answer, no entry) and    *)
(* schema validation after the wire (it rewrites an answer's wording).      *)
(***************************************************************************)
EXTENDS Naturals, FiniteSets

CONSTANTS
  Calls,      \* invocations of the RequestAgent tool
  NoCall,
  Turns,
  TurnOf,     \* call -> the turn it is made in
  NoCause,
  Cause,      \* call -> ctx.correlationId, or NoCause
  Capacity,   \* of the pending registry
  Transports, \* "memory": publish() resolves after the peer's handler; "broker"
  MaxFaults   \* bound: failing publishes, lost and duplicated messages

ASSUME RpcAssumption ==
  /\ IsFiniteSet(Calls)
  /\ NoCall \notin Calls
  /\ TurnOf \in [Calls -> Turns]
  /\ Capacity \in Nat \ {0}      \* the constructor refuses anything else
  /\ Transports \subseteq {"memory", "broker"}
  /\ MaxFaults \in Nat

VARIABLES
  transport,  \* the one in use
  phase,      \* call -> where its execute() stands
  promise,    \* call -> state of the promise register() returned
  answer,     \* call -> the call whose answer (or failure) settled the promise
  status,     \* call -> what the tool reported
  entries,    \* calls with an entry, that is with a running timer
  elders,     \* call -> the entries there were when it registered: the Map
              \* keeps its insertion order
  requests,   \* requests on the wire or being served
  responses,  \* responses on the wire
  host,       \* "up", or "down" after an unhandled rejection
  faults

registry == <<promise, answer, entries, elders>>
wire == <<transport, requests, responses>>
rpc == <<phase, status, registry, wire, host, faults>>

Rejections == {"timeout", "busy", "abandoned", "duplicate"}
Promises == {"none", "pending", "answered", "unpublished"} \cup Rejections
Phases == {"idle", "publishing", "posting", "awaiting", "done"}
Statuses == {"none", "ok", "error", "timeout", "abandoned"}

SameId(c, d) == c = d \/ (Cause[c] # NoCause /\ Cause[c] = Cause[d])
Holders(c) == {e \in entries : SameId(e, c)}     \* entries.get(correlationId)

Init ==
  /\ transport \in Transports
  /\ phase = [c \in Calls |-> "idle"]
  /\ promise = [c \in Calls |-> "none"]
  /\ answer = [c \in Calls |-> NoCall]
  /\ status = [c \in Calls |-> "none"]
  /\ entries = {}
  /\ elders = [c \in Calls |-> {}]
  /\ requests = {}
  /\ responses = {}
  /\ host = "up"
  /\ faults = 0

Fault == faults < MaxFaults /\ faults' = faults + 1

-----------------------------------------------------------------------------
(* The registry *)

\* Faulty variants, named ...Faulty, stand before the definition they vary.
\* They are not part of the specification: each is a bug its property catches.
\* Any entry is taken, whatever its id.
SettleFaulty(c, value) ==
  IF entries = {}
  THEN UNCHANGED registry
  ELSE \E e \in entries :
         /\ entries' = entries \ {e}
         /\ promise' = [promise EXCEPT ![e] = value]
         /\ answer' = [answer EXCEPT ![e] = c]
         /\ UNCHANGED elders

\* settle(correlationId of c, value): whoever holds the id gets it.
Settle(c, value) ==
  /\ entries' = entries \ Holders(c)
  /\ promise' = [e \in Calls |-> IF e \in Holders(c) THEN value ELSE promise[e]]
  /\ answer' = [e \in Calls |-> IF e \in Holders(c) THEN c ELSE answer[e]]
  /\ UNCHANGED elders

\* The entry that makes room: the oldest, when the registry is full.
Evicted ==
  IF Cardinality(entries) < Capacity THEN {}
  ELSE {e \in entries : elders[e] \cap entries = {}}

\* The victim's promise is left pending.
AdmitFaulty(c) ==
  /\ entries' = (entries \ Evicted) \cup {c}
  /\ promise' = [promise EXCEPT ![c] = "pending"]
  /\ elders' = [elders EXCEPT ![c] = entries \ Evicted]
  /\ UNCHANGED answer

Admit(c) ==
  /\ entries' = (entries \ Evicted) \cup {c}
  /\ promise' = [e \in Calls |-> IF e = c THEN "pending"
                                 ELSE IF e \in Evicted THEN "busy" ELSE promise[e]]
  /\ elders' = [elders EXCEPT ![c] = entries \ Evicted]
  /\ UNCHANGED answer

\* register(): a held id gets a rejected promise, not an exception.
Register(c) ==
  \/ /\ Holders(c) # {}
     /\ promise' = [promise EXCEPT ![c] = "duplicate"]
     /\ UNCHANGED <<answer, entries, elders>>
  \/ /\ Holders(c) = {}
     /\ Admit(c)

\* The timer of an entry.
Timeout(c) ==
  /\ host = "up"
  /\ c \in entries
  /\ entries' = entries \ {c}
  /\ promise' = [promise EXCEPT ![c] = "timeout"]
  /\ UNCHANGED <<phase, status, answer, elders, wire, host, faults>>

\* abandon(), meant for the shutdown; nothing under packages/ calls it today.
Abandon ==
  /\ host = "up"
  /\ entries # {}
  /\ entries' = {}
  /\ promise' = [c \in Calls |-> IF c \in entries THEN "abandoned" ELSE promise[c]]
  /\ UNCHANGED <<phase, status, answer, elders, wire, host, faults>>

-----------------------------------------------------------------------------
(* The tool *)

\* The engine runs the tools of a turn one after the other.
TurnIsFree(c) ==
  \A d \in Calls : TurnOf[d] = TurnOf[c] => phase[d] \in {"idle", "done"}

\* execute() up to the await of publish(): mode `sync' registers the call,
\* mode `async' only posts the request.
Start(c) ==
  /\ host = "up"
  /\ phase[c] = "idle"
  /\ TurnIsFree(c)
  /\ requests' = requests \cup {c}
  /\ \/ phase' = [phase EXCEPT ![c] = "publishing"] /\ Register(c)
     \/ phase' = [phase EXCEPT ![c] = "posting"] /\ UNCHANGED registry
  /\ UNCHANGED <<transport, status, responses, host, faults>>

\* No such peer, no such transport, a payload that breaks the schema.
Refuse(c) ==
  /\ host = "up"
  /\ phase[c] = "idle"
  /\ TurnIsFree(c)
  /\ phase' = [phase EXCEPT ![c] = "done"]
  /\ status' = [status EXCEPT ![c] = "error"]
  /\ UNCHANGED <<registry, wire, host, faults>>

\* The memory bus awaits every handler: the peer's, which publishes the
\* response, and the inbox that takes it.
BusHasRun(c) == c \notin requests \cup responses

\* publish() resolves.
PublishReturns(c) ==
  /\ host = "up"
  /\ transport = "memory" => BusHasRun(c)
  /\ \/ /\ phase[c] = "posting"
        /\ phase' = [phase EXCEPT ![c] = "done"]
        /\ status' = [status EXCEPT ![c] = "ok"]
     \/ /\ phase[c] = "publishing"
        /\ phase' = [phase EXCEPT ![c] = "awaiting"]
        /\ UNCHANGED status
  /\ UNCHANGED <<registry, wire, host, faults>>

\* The entry of a request that could not be published is left behind.
PublishFailsFaulty(c) ==
  /\ host = "up" /\ transport = "broker"
  /\ phase[c] \in {"publishing", "posting"}
  /\ Fault
  /\ requests' \in {requests, requests \ {c}}
  /\ phase' = [phase EXCEPT ![c] = "done"]
  /\ status' = [status EXCEPT ![c] = "error"]
  /\ UNCHANGED <<transport, registry, responses, host>>

\* publish() rejects, whether or not the broker has the request.
PublishFails(c) ==
  /\ host = "up" /\ transport = "broker"
  /\ Fault
  /\ requests' \in {requests, requests \ {c}}
  /\ \/ phase[c] = "posting" /\ UNCHANGED registry
     \/ phase[c] = "publishing" /\ Settle(c, "unpublished")
  /\ phase' = [phase EXCEPT ![c] = "done"]
  /\ status' = [status EXCEPT ![c] = "error"]
  /\ UNCHANGED <<transport, responses, host>>

\* Every rejection is reported under its own name.
ReportFaulty(c) == IF promise[c] = "answered" THEN "ok" ELSE promise[c]

\* An answer, with data or with the peer's error, is "ok" here.  Evicted and
\* duplicate calls get an error event: the tool never reports "busy".
Report(c) ==
  CASE promise[c] = "answered" -> "ok"
    [] promise[c] \in {"timeout", "abandoned"} -> promise[c]
    [] OTHER -> "error"

\* The await of the promise ends.
Return(c) ==
  /\ host = "up"
  /\ phase[c] = "awaiting"
  /\ promise[c] # "pending"
  /\ phase' = [phase EXCEPT ![c] = "done"]
  /\ status' = [status EXCEPT ![c] = Report(c)]
  /\ UNCHANGED <<registry, wire, host, faults>>

\* While execute() awaits publish(), nobody listens to the promise: rejected
\* then, it is an unhandled rejection, which ends the process by default.
Unhandled(c) ==
  /\ host = "up"
  /\ phase[c] = "publishing"
  /\ promise[c] \in Rejections
  /\ host' = "down"
  /\ UNCHANGED <<phase, status, registry, wire, faults>>

-----------------------------------------------------------------------------
(* The wire and the peer *)

\* The peer's handler responds; a broker may deliver the request again.
Serve(c) ==
  /\ host = "up"
  /\ c \in requests
  /\ responses' = responses \cup {c}
  /\ \/ requests' = requests \ {c} /\ UNCHANGED faults
     \/ transport = "broker" /\ Fault /\ UNCHANGED requests
  /\ UNCHANGED <<transport, phase, status, registry, host>>

\* The peer falls silent, or the inbox refuses the response (tenant,
\* signature, shape).
Lose(c) ==
  /\ host = "up"
  /\ c \in requests \cup responses
  /\ Fault
  /\ requests' = requests \ {c}
  /\ responses' = responses \ {c}
  /\ UNCHANGED <<transport, phase, status, registry, host>>

\* handleResponse(): without an entry the response is dropped.  A peer whose
\* respond() threw after the fact, or a broker, may send the response twice.
Deliver(c) ==
  /\ host = "up"
  /\ c \in responses
  /\ \/ responses' = responses \ {c} /\ UNCHANGED faults
     \/ Fault /\ UNCHANGED responses
  /\ Settle(c, "answered")
  /\ UNCHANGED <<transport, phase, status, requests, host>>

-----------------------------------------------------------------------------
Next ==
  \/ Abandon
  \/ \E c \in Calls :
       \/ Start(c) \/ Refuse(c) \/ PublishReturns(c) \/ PublishFails(c)
       \/ Return(c) \/ Unhandled(c) \/ Timeout(c)
       \/ Serve(c) \/ Lose(c) \/ Deliver(c)

Spec == Init /\ [][Next]_rpc

\* Timers fire, promises wake their awaiter and a broker client's publish()
\* ends; nothing is asked of the peer or of the wire.
FairSpec ==
  /\ Spec
  /\ \A c \in Calls :
       /\ WF_rpc(Timeout(c))
       /\ WF_rpc(Return(c))
       /\ WF_rpc(PublishReturns(c))

-----------------------------------------------------------------------------
TypeOK ==
  /\ transport \in Transports
  /\ phase \in [Calls -> Phases]
  /\ promise \in [Calls -> Promises]
  /\ answer \in [Calls -> Calls \cup {NoCall}]
  /\ status \in [Calls -> Statuses]
  /\ entries \subseteq Calls
  /\ elders \in [Calls -> SUBSET Calls]
  /\ requests \subseteq Calls
  /\ responses \subseteq Calls
  /\ host \in {"up", "down"}
  /\ faults \in 0 .. MaxFaults

\* The registry and the callers agree: a promise is pending exactly while its
\* call has an entry, hence a timer; only a call still being executed has one,
\* whatever order timers, responses, failing publishes and evictions take; and
\* an id has one entry at most.
NoLostWaiter ==
  /\ \A c \in Calls :
       /\ c \in entries <=> promise[c] = "pending"
       /\ promise[c] = "pending" => phase[c] \in {"publishing", "awaiting"}
  /\ \A c, d \in entries : SameId(c, d) => c = d

\* What settles a call is the answer to a request with its correlationId, or the
\* failure of such a request's publish, whatever is late, lost, repeated or
\* evicted (settle, handleResponse): a call with an id of its own gets its own
\* answer or none.
AnswerHasId == \A c \in Calls : answer[c] = NoCall \/ SameId(c, answer[c])

\* The tool "await[s] a response with a timeout": over a broker every call
\* returns, whatever becomes of its request, as long as the process lives.  (The
\* memory transport waits for the peer, which owes nothing.)
EveryCallReturns ==
  \A c \in Calls :
    transport = "broker" /\ phase[c] # "idle" ~> phase[c] = "done" \/ host = "down"

\* "Returns the peer's response": the answer to the call's own request.  It holds
\* where ids are fresh (FreshIdsSuffice); the engine hands all calls of a turn one
\* id, and then the answer to a call that timed out settles its retry.
OwnAnswer == \A c \in Calls : answer[c] \in {NoCall, c}
=============================================================================
