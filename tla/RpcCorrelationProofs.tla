------------------------ MODULE RpcCorrelationProofs ------------------------
(***************************************************************************)
(* Proofs about RpcCorrelation for every set of calls, every assignment of  *)
(* correlation ids, capacity, transport and number of faults.               *)
(***************************************************************************)
EXTENDS RpcCorrelation, TLAPS

Inv == TypeOK /\ NoLostWaiter

\* settle() finds nobody or the one holder of the id.
LEMMA HolderIsUnique ==
  ASSUME Inv, NEW c \in Calls, c \in entries
  PROVE  Holders(c) = {c}
BY DEF Inv, NoLostWaiter, TypeOK, Holders, SameId

LEMMA InitInv == Init => Inv
BY RpcAssumption DEF Init, Inv, TypeOK, NoLostWaiter, Promises, Rejections, Statuses, Phases

\* The part of the type invariant that is the registry's.
RegistryOK ==
  /\ promise \in [Calls -> Promises]
  /\ answer \in [Calls -> Calls \cup {NoCall}]
  /\ entries \subseteq Calls
  /\ elders \in [Calls -> SUBSET Calls]

\* An id never has two entries.
OneHolder == \A c, d \in entries : SameId(c, d) => c = d

\* An entry and a pending promise are the same thing.
EntryIsPending == \A c \in Calls : c \in entries <=> promise[c] = "pending"

\* settle() keeps them so, and no promise becomes pending.
LEMMA SettleKeeps ==
  ASSUME Inv, NEW c \in Calls, NEW v \in {"answered", "unpublished"}, Settle(c, v)
  PROVE  /\ RegistryOK' /\ OneHolder' /\ EntryIsPending'
         /\ \A e \in Calls : promise'[e] = "pending" => promise[e] = "pending" /\ e # c
<1>1. v \in Promises /\ v # "pending" BY DEF Promises
<1>2. \A e \in Calls : promise'[e] = IF e \in Holders(c) THEN v ELSE promise[e]
  BY DEF Settle
<1>3. RegistryOK' BY <1>1 DEF Inv, TypeOK, RegistryOK, Settle
<1>4. OneHolder' BY DEF Inv, NoLostWaiter, OneHolder, Settle, SameId
<1>5. EntryIsPending' BY <1>1, <1>2 DEF Inv, NoLostWaiter, EntryIsPending, Settle
<1>6. ASSUME NEW e \in Calls, promise'[e] = "pending"
      PROVE  promise[e] = "pending" /\ e # c
  <2>1. e \notin Holders(c) /\ promise[e] = "pending" BY <1>1, <1>2, <1>6
  <2>2. e \in entries BY <2>1 DEF Inv, NoLostWaiter
  <2> QED BY <2>1, <2>2, HolderIsUnique DEF Holders
<1> QED BY <1>3, <1>4, <1>5, <1>6

\* register() of a call that is not yet known to the registry.
LEMMA RegisterKeeps ==
  ASSUME Inv, NEW c \in Calls, phase[c] = "idle", Register(c)
  PROVE  /\ RegistryOK' /\ OneHolder' /\ EntryIsPending'
         /\ \A e \in Calls : promise'[e] = "pending" => promise[e] = "pending" \/ e = c
<1>1. c \notin entries /\ promise[c] # "pending" BY DEF Inv, NoLostWaiter
<1>2. CASE Holders(c) # {} /\ ~ (Holders(c) = {} /\ Admit(c))
  <2>1. /\ promise' = [promise EXCEPT ![c] = "duplicate"]
        /\ UNCHANGED <<answer, entries, elders>>
    BY <1>2 DEF Register
  <2>2. RegistryOK' BY <2>1 DEF Inv, TypeOK, RegistryOK, Promises, Rejections
  <2>3. OneHolder' BY <2>1 DEF Inv, NoLostWaiter, OneHolder, SameId
  <2>4. EntryIsPending' BY <1>1, <2>1 DEF Inv, TypeOK, NoLostWaiter, EntryIsPending
  <2> QED BY <2>1, <2>2, <2>3, <2>4 DEF Inv, TypeOK
<1>3. CASE Holders(c) = {} /\ Admit(c)
  <2>1. /\ entries' = (entries \ Evicted) \cup {c}
        /\ elders' = [elders EXCEPT ![c] = entries \ Evicted]
        /\ answer' = answer
    BY <1>3 DEF Admit
  <2>2. \A e \in Calls : promise'[e] = IF e = c THEN "pending"
                                ELSE IF e \in Evicted THEN "busy" ELSE promise[e]
    BY <1>3 DEF Admit
  <2>3. Evicted \subseteq entries BY DEF Evicted
  <2>4. RegistryOK'
    <3>1. "pending" \in Promises /\ "busy" \in Promises BY DEF Promises, Rejections
    <3>2. promise' \in [Calls -> Promises]
      <4> DEFINE value(e) == IF e = c THEN "pending"
                             ELSE IF e \in Evicted THEN "busy" ELSE promise[e]
      <4>1. \A e \in Calls : value(e) \in Promises BY <3>1 DEF Inv, TypeOK
      <4>2. promise' = [e \in Calls |-> value(e)] BY <1>3 DEF Admit
      <4> HIDE DEF value
      <4> QED BY <4>1, <4>2
    <3>3. entries' \subseteq Calls BY <2>1 DEF Inv, TypeOK
    <3>4. elders' \in [Calls -> SUBSET Calls] BY <2>1 DEF Inv, TypeOK
    <3>5. answer' \in [Calls -> Calls \cup {NoCall}] BY <2>1 DEF Inv, TypeOK
    <3> QED BY <3>2, <3>3, <3>4, <3>5 DEF RegistryOK
  <2>5. OneHolder'
    <3>1. \A e \in entries : ~ SameId(e, c) BY <1>3 DEF Holders
    <3>2. \A e \in entries : ~ SameId(c, e) BY <3>1 DEF SameId
    <3>3. \A d, e \in entries : SameId(d, e) => d = e BY DEF Inv, NoLostWaiter
    <3> QED BY <2>1, <3>1, <3>2, <3>3 DEF OneHolder, SameId
  <2>6. EntryIsPending' BY <2>1, <2>2, <2>3 DEF Inv, NoLostWaiter, EntryIsPending
  <2> QED BY <2>2, <2>4, <2>5, <2>6
<1> QED BY <1>2, <1>3 DEF Register

\* One step of the specification, action by action.
LEMMA NextInv == Inv /\ [Next]_rpc => Inv'
<1> SUFFICES ASSUME Inv, [Next]_rpc PROVE Inv' OBVIOUS
<1> DEFINE PhaseFits == \A c \in Calls : promise[c] = "pending" => phase[c] \in {"publishing", "awaiting"}
<1>a. RegistryOK /\ OneHolder /\ EntryIsPending /\ PhaseFits
  BY DEF Inv, TypeOK, RegistryOK, NoLostWaiter, OneHolder, EntryIsPending
<1>b. ASSUME RegistryOK', OneHolder', EntryIsPending', PhaseFits',
             transport' \in Transports, phase' \in [Calls -> Phases],
             status' \in [Calls -> Statuses],
             requests' \subseteq Calls, responses' \subseteq Calls,
             host' \in {"up", "down"}, faults' \in 0 .. MaxFaults
      PROVE  Inv'
  BY <1>b DEF Inv, TypeOK, RegistryOK, NoLostWaiter, OneHolder, EntryIsPending
<1>c. (UNCHANGED registry) =>
        RegistryOK' /\ OneHolder' /\ EntryIsPending' /\ promise' = promise
  BY <1>a DEF registry, RegistryOK, OneHolder, EntryIsPending, SameId
<1>d. Fault => faults' \in 0 .. MaxFaults BY RpcAssumption DEF Fault, Inv, TypeOK
<1>1. CASE UNCHANGED rpc
  <2>1. UNCHANGED <<phase, status, registry, wire, host, faults>> BY <1>1 DEF rpc
  <2> QED BY <1>a, <1>b, <1>c, <2>1 DEF wire, Inv, TypeOK
<1>2. CASE Abandon
  <2>1. RegistryOK' BY <1>2, <1>a DEF Abandon, RegistryOK, Promises, Rejections
  <2>2. OneHolder' BY <1>2 DEF Abandon, OneHolder
  <2>3. EntryIsPending' BY <1>2, <1>a DEF Abandon, EntryIsPending
  <2>4. PhaseFits' BY <1>2, <1>a DEF Abandon
  <2> QED BY <1>2, <1>b, <2>1, <2>2, <2>3, <2>4 DEF Abandon, wire, Inv, TypeOK
<1>3. ASSUME NEW c \in Calls, Start(c) PROVE Inv'
  <2>1. CASE phase' = [phase EXCEPT ![c] = "publishing"] /\ Register(c)
    <3>1. /\ RegistryOK' /\ OneHolder' /\ EntryIsPending'
          /\ \A e \in Calls : promise'[e] = "pending" => promise[e] = "pending" \/ e = c
      BY <1>3, <2>1, RegisterKeeps DEF Start
    <3>2. PhaseFits' BY <1>a, <2>1, <3>1 DEF Inv, TypeOK
    <3> QED BY <1>3, <1>b, <2>1, <3>1, <3>2 DEF Start, Inv, TypeOK, Phases
  <2>2. CASE phase' = [phase EXCEPT ![c] = "posting"] /\ UNCHANGED registry
    <3>1. promise[c] # "pending" BY <1>3, <1>a DEF Start
    <3>2. PhaseFits' BY <1>a, <1>c, <2>2, <3>1 DEF Inv, TypeOK
    <3> QED BY <1>3, <1>b, <1>c, <2>2, <3>2 DEF Start, Inv, TypeOK, Phases
  <2> QED BY <1>3, <2>1, <2>2 DEF Start
<1>4. ASSUME NEW c \in Calls, Refuse(c) PROVE Inv'
  <2>1. UNCHANGED registry /\ PhaseFits'
    BY <1>4, <1>a, <1>c DEF Refuse, Inv, TypeOK
  <2> QED BY <1>4, <1>b, <1>c, <2>1 DEF Refuse, wire, Inv, TypeOK, Statuses, Phases
<1>5. ASSUME NEW c \in Calls, PublishReturns(c) PROVE Inv'
  <2>1. UNCHANGED registry BY <1>5 DEF PublishReturns
  <2>2. PhaseFits' BY <1>5, <1>a, <1>c, <2>1 DEF PublishReturns, Inv, TypeOK
  <2> QED BY <1>5, <1>b, <1>c, <2>1, <2>2 DEF PublishReturns, wire, Inv, TypeOK, Statuses, Phases
<1>6. ASSUME NEW c \in Calls, PublishFails(c) PROVE Inv'
  <2>1. phase' = [phase EXCEPT ![c] = "done"] BY <1>6 DEF PublishFails
  <2>2. /\ RegistryOK' /\ OneHolder' /\ EntryIsPending'
        /\ \A e \in Calls : promise'[e] = "pending" => promise[e] = "pending" /\ e # c
    <3>1. CASE phase[c] = "posting" /\ UNCHANGED registry
      BY <1>a, <1>c, <3>1
    <3>2. CASE Settle(c, "unpublished") BY <3>2, SettleKeeps
    <3> QED BY <1>6, <3>1, <3>2 DEF PublishFails
  <2>3. PhaseFits' BY <1>a, <2>1, <2>2 DEF Inv, TypeOK
  <2> QED BY <1>6, <1>b, <1>d, <2>1, <2>2, <2>3 DEF PublishFails, Inv, TypeOK, Statuses, Phases
<1>7. ASSUME NEW c \in Calls, Return(c) PROVE Inv'
  <2>1. UNCHANGED registry /\ promise[c] # "pending" BY <1>7 DEF Return
  <2>2. PhaseFits' BY <1>7, <1>a, <1>c, <2>1 DEF Return, Inv, TypeOK
  <2>3. Report(c) \in Statuses BY DEF Report, Statuses
  <2> QED BY <1>7, <1>b, <1>c, <2>1, <2>2, <2>3 DEF Return, wire, Inv, TypeOK, Phases
<1>8. ASSUME NEW c \in Calls, Unhandled(c) PROVE Inv'
  <2>1. UNCHANGED registry /\ PhaseFits' BY <1>8, <1>a, <1>c DEF Unhandled
  <2> QED BY <1>8, <1>b, <1>c, <2>1 DEF Unhandled, wire, Inv, TypeOK
<1>9. ASSUME NEW c \in Calls, Timeout(c) PROVE Inv'
  <2>1. /\ entries' = entries \ {c} /\ promise' = [promise EXCEPT ![c] = "timeout"]
        /\ promise[c] = "pending"
    BY <1>9, <1>a DEF Timeout, EntryIsPending
  <2>2. RegistryOK' BY <1>9, <1>a, <2>1 DEF Timeout, RegistryOK, Promises, Rejections
  <2>3. OneHolder' BY <1>a, <2>1 DEF OneHolder, SameId
  <2>4. EntryIsPending' BY <1>a, <2>1 DEF RegistryOK, EntryIsPending
  <2>5. PhaseFits' BY <1>9, <1>a, <2>1 DEF Timeout, RegistryOK
  <2> QED BY <1>9, <1>b, <2>2, <2>3, <2>4, <2>5 DEF Timeout, wire, Inv, TypeOK
<1>10. ASSUME NEW c \in Calls, Serve(c) \/ Lose(c) PROVE Inv'
  <2>1. UNCHANGED <<transport, phase, status, registry, host>> BY <1>10 DEF Serve, Lose
  <2>2. PhaseFits' BY <1>a, <1>c, <2>1
  <2>3. faults' \in 0 .. MaxFaults BY <1>10, <1>d DEF Serve, Lose, Inv, TypeOK
  <2>4. requests' \subseteq Calls /\ responses' \subseteq Calls
    BY <1>10 DEF Serve, Lose, Inv, TypeOK
  <2> QED BY <1>b, <1>c, <2>1, <2>2, <2>3, <2>4 DEF Inv, TypeOK
<1>11. ASSUME NEW c \in Calls, Deliver(c) PROVE Inv'
  <2>1. Settle(c, "answered") BY <1>11 DEF Deliver
  <2>2. /\ RegistryOK' /\ OneHolder' /\ EntryIsPending'
        /\ \A e \in Calls : promise'[e] = "pending" => promise[e] = "pending" /\ e # c
    BY <2>1, SettleKeeps
  <2>3. PhaseFits' BY <1>11, <1>a, <2>2 DEF Deliver
  <2>4. faults' \in 0 .. MaxFaults BY <1>11, <1>d DEF Deliver, Inv, TypeOK
  <2>5. responses' \subseteq Calls
    BY <1>11 DEF Deliver, Inv, TypeOK
  <2> QED BY <1>11, <1>b, <2>2, <2>3, <2>4, <2>5 DEF Deliver, Inv, TypeOK
<1> QED BY <1>1, <1>2, <1>3, <1>4, <1>5, <1>6, <1>7, <1>8, <1>9, <1>10, <1>11 DEF Next

THEOREM Invariance == Spec => []Inv
BY InitInv, NextInv, PTL DEF Spec

\* Every variable of the tool, the registry and the wire keeps its type.
THEOREM TypeCorrect == Spec => []TypeOK
<1>1. Inv => TypeOK BY DEF Inv
<1> QED BY <1>1, Invariance, PTL

\* No caller waits on a promise that nothing will settle, and no entry outlives
\* its call, whatever ids the turns share (pending-registry.ts).
THEOREM NobodyIsForgotten == Spec => []NoLostWaiter
<1>1. Inv => NoLostWaiter BY DEF Inv
<1> QED BY <1>1, Invariance, PTL

-----------------------------------------------------------------------------
(* What the ids are for *)

LEMMA AnswerHasIdInit == Init => AnswerHasId
BY DEF Init, AnswerHasId

\* Only settle() writes an answer, and it writes to holders of the id.
LEMMA AnswerHasIdStep ==
  ASSUME TypeOK, AnswerHasId, [Next]_rpc
  PROVE  AnswerHasId'
<1>1. ASSUME NEW c \in Calls, NEW v, Settle(c, v) PROVE AnswerHasId'
  <2>1. \A e \in Calls : answer'[e] = IF e \in Holders(c) THEN c ELSE answer[e]
    BY <1>1 DEF Settle
  <2>2. \A e \in Holders(c) : SameId(e, c) BY DEF Holders
  <2> QED BY <2>1, <2>2 DEF AnswerHasId, SameId
<1>2. ASSUME answer' = answer PROVE AnswerHasId' BY <1>2 DEF AnswerHasId, SameId
<1>3. CASE UNCHANGED rpc BY <1>2, <1>3 DEF rpc, registry
<1>4. CASE Abandon BY <1>2, <1>4 DEF Abandon
<1>5. ASSUME NEW c \in Calls, Start(c) PROVE AnswerHasId'
  BY <1>2, <1>5 DEF Start, Register, Admit, registry
<1>6. ASSUME NEW c \in Calls, PublishFails(c) PROVE AnswerHasId'
  BY <1>1, <1>2, <1>6 DEF PublishFails, registry
<1>7. ASSUME NEW c \in Calls, Deliver(c) PROVE AnswerHasId' BY <1>1, <1>7 DEF Deliver
<1>8. ASSUME NEW c \in Calls,
             Refuse(c) \/ PublishReturns(c) \/ Return(c) \/ Unhandled(c) \/ Timeout(c)
               \/ Serve(c) \/ Lose(c)
      PROVE  AnswerHasId'
  BY <1>2, <1>8 DEF Refuse, PublishReturns, Return, Unhandled, Timeout, Serve, Lose, registry
<1> QED BY <1>3, <1>4, <1>5, <1>6, <1>7, <1>8 DEF Next

\* Whatever is late, lost, repeated or evicted, a call is settled by the answer to
\* a request with its correlationId or by the failure of such a publish
\* (settle, handleResponse).
THEOREM AnswersMatchIds == Spec => []AnswerHasId
<1>1. TypeOK /\ AnswerHasId /\ [Next]_rpc => AnswerHasId' BY AnswerHasIdStep
<1> QED BY <1>1, AnswerHasIdInit, TypeCorrect, PTL DEF Spec

\* If no two calls share an id, every call is settled by its own answer: the
\* registry is right, and what loses an answer to a retry is the id that
\* request-agent.ts takes from the turn.
THEOREM FreshIdsSuffice ==
  ASSUME \A c, d \in Calls : SameId(c, d) => c = d
  PROVE  Spec => []OwnAnswer
<1>1. TypeOK /\ AnswerHasId => OwnAnswer BY DEF TypeOK, AnswerHasId, OwnAnswer
<1> QED BY <1>1, AnswersMatchIds, TypeCorrect, PTL
=============================================================================
