------------------------- MODULE EventDispatchProofs -------------------------
(***************************************************************************)
(* Theorems about EventDispatch for every set of ids, keys, triggers,       *)
(* dispatches and operators, every number of agents, and every bound on     *)
(* crashes, faults and erasures.  What the rows and dead letters promise    *)
(* (RunsOnce, DlqAgrees, OutcomesStay, RequeueRuns), and that they implement *)
(* the EventLedger (LedgerKept), is proved while at most one dispatch is in *)
(* the duplicate check (~Overlap).  A row that a boot listed while a        *)
(* dispatch was working on it is in `swept`; DlqAgrees, OutcomesStay and    *)
(* LedgerKept except such rows, and SweepsNeedFleet proves that a process   *)
(* of one agent has none.  RunsOnce speaks of events in the dedup window.   *)
(***************************************************************************)
EXTENDS EventDispatch, TLAPS

-----------------------------------------------------------------------------
(* Typing *)

\* A dispatch, a requeue and the recovery loop name an event while busy.
BusyHasId ==
  /\ \A d \in Tasks : tpc[d] # "idle" => tid[d] \in Ids /\ tagent[d] \in Agents
  /\ \A o \in Operators : rpc[o] # "idle" => rid[o] \in Ids /\ ragent[o] \in Agents
  /\ recPc # "idle" => recId \in Ids

TypeInv == TypeOK /\ BusyHasId

\* The clone of a known event is a well-formed event.
LEMMA CloneIsEvent ==
  ASSUME TypeOK, NEW i \in Ids, NEW via \in Vias
  PROVE  CloneOf(i, via) \in Event
<1>1. event[i] \in Event \cup {NoEvent}
  BY DEF TypeOK
<1>2. event[i].trig \in Triggers \cup {NoTrigger}
  BY <1>1 DEF Event, NoEvent
<1> QED
  BY <1>2 DEF CloneOf, Event

\* remember() only writes event ids and idempotency keys.
LEMMA CacheNamesTyped ==
  ASSUME TypeOK, NEW a \in Agents, NEW i \in Ids
  PROVE  CacheNames(a, event[i], i) \subseteq Agents \X (Ids \cup Keys)
<1>1. event[i] \in Event \cup {NoEvent}
  BY DEF TypeOK
<1>2. event[i].key \in Keys \cup {NoKey}
  BY <1>1 DEF Event, NoEvent
<1> QED
  BY <1>2 DEF CacheNames

\* Marking an outcome keeps the outcome column typed.
LEMMA MarkedRowTyped ==
  ASSUME TypeOK, NEW i, NEW o \in Terminal
  PROVE  MarkedRow(i, o) \in [Ids -> Outcomes]
BY DEF TypeOK, MarkedRow, Outcomes

TasksTyped ==
  /\ tpc \in [Tasks -> TaskPcs] /\ tid \in [Tasks -> Ids \cup {NoId}]
  /\ tagent \in [Tasks -> Agents \cup {NoAgent}]
  /\ \A x \in Tasks : tpc[x] # "idle" => tid[x] \in Ids /\ tagent[x] \in Agents

\* Starting a dispatch keeps the task variables typed.
LEMMA EnterTyped ==
  ASSUME TypeInv, NEW d \in Tasks, NEW a \in Agents, NEW e, NEW i \in Ids,
         EnterDispatch(d, a, e, i)
  PROVE  TasksTyped'
<1> USE DEF TasksTyped
<1>1. CASE Cached(a, e, i)
  BY <1>1 DEF EnterDispatch, tasks, TypeInv, TypeOK, BusyHasId
<1>2. CASE ~Cached(a, e, i)
  BY <1>2 DEF EnterDispatch, TypeInv, TypeOK, BusyHasId, TaskPcs
<1> QED
  BY <1>1, <1>2

\* So does ending one.
LEMMA EndTyped ==
  ASSUME TypeInv, NEW d \in Tasks, EndTask(d)
  PROVE  TasksTyped'
BY DEF TasksTyped, EndTask, TypeInv, TypeOK, BusyHasId, TaskPcs

\* And a store write that works or throws keeps the fault counter a number.
LEMMA WriteTyped ==
  ASSUME TypeInv, NEW a, WriteWorks(a) \/ WriteThrows(a)
  PROVE  faults' \in Nat
BY DEF WriteWorks, WriteThrows, TypeInv, TypeOK

\* Init establishes the typing invariant.
LEMMA InitTyped == Init => TypeInv
BY DEF Init, TypeInv, TypeOK, BusyHasId, Outcomes, TaskPcs, Phases

\* What a source publishes is a well-formed event.
LEMMA PublishableIsEvent ==
  ASSUME NEW e \in Publishable PROVE e \in Event
BY DEF Publishable, Event, Vias

\* Every step keeps the typing invariant.
LEMMA StepTyped == TypeInv /\ [Next]_vars => TypeInv'
<1> SUFFICES ASSUME TypeInv, [Next]_vars PROVE TypeInv'
  OBVIOUS
<1> USE ConstantsAssumption DEF TypeInv, TypeOK, BusyHasId, TasksTyped, store, tasks, recovery,
        requeues, budget
<1>1. ASSUME NEW d \in Tasks, NEW i \in Arrivals, NEW e \in Publishable,
             NEW a \in Agents, Deliver(d, a, i, e)
      PROVE  TypeInv'
  BY <1>1, EnterTyped, PublishableIsEvent DEF Deliver
<1>2. ASSUME NEW d \in Tasks, NEW i \in Arrivals, NEW a \in Agents, Redeliver(d, a, i)
      PROVE  TypeInv'
  BY <1>2, EnterTyped DEF Redeliver
<1>3. ASSUME NEW i \in Arrivals, NEW e \in Publishable, PublishUnheard(i, e)
      PROVE  TypeInv'
  BY <1>3, PublishableIsEvent DEF PublishUnheard
<1>4. ASSUME NEW d \in Tasks, DropDuplicate(d) PROVE TypeInv'
  BY <1>4, EndTyped, CacheNamesTyped DEF DropDuplicate
<1>5. ASSUME NEW d \in Tasks, Record(d) PROVE TypeInv'
  <2>1. faults' \in Nat
    BY <1>5, WriteTyped DEF Record
  <2>2. tid[d] \in Ids /\ tagent[d] \in Agents
    BY <1>5 DEF Record
  <2>3. cache' \subseteq Agents \X (Ids \cup Keys)
    BY <1>5, <2>2, CacheNamesTyped DEF Record
  <2>4. row' \in [Ids -> Outcomes]
    BY <1>5 DEF Record, Outcomes
  <2> QED
    BY <1>5, <2>1, <2>3, <2>4 DEF Record, TaskPcs
<1>6. ASSUME NEW d \in Tasks, LoopCheckThrows(d) PROVE TypeInv'
  BY <1>6, EndTyped DEF LoopCheckThrows
<1>7. ASSUME NEW d \in Tasks, NEW o \in {"loop", "refused"}, ShortCircuit(d, o)
      PROVE  TypeInv'
  <2>1. faults' \in Nat
    BY <1>7, WriteTyped DEF ShortCircuit
  <2>2. row' \in [Ids -> Outcomes]
    BY <1>7, MarkedRowTyped DEF ShortCircuit, Terminal, Rejections
  <2> QED
    BY <1>7, <2>1, <2>2, EndTyped DEF ShortCircuit, TaskPcs
<1>8. ASSUME NEW d \in Tasks, StartTurn(d) PROVE TypeInv'
  BY <1>8 DEF StartTurn, TaskPcs
<1>9. ASSUME NEW d \in Tasks, NEW o \in {"done", "failed", "refused"}, Settle(d, o)
      PROVE  TypeInv'
  <2>1. faults' \in Nat
    BY <1>9, WriteTyped DEF Settle
  <2>2. row' \in [Ids -> Outcomes]
    BY <1>9, MarkedRowTyped DEF Settle, Terminal, Rejections
  <2> QED
    BY <1>9, <2>1, <2>2 DEF Settle, TaskPcs
<1>10. ASSUME NEW d \in Tasks, FileOutcome(d) PROVE TypeInv'
  <2>1. faults' \in Nat
    BY <1>10, WriteTyped DEF FileOutcome
  <2>2. dlq' \in [Ids -> Nat]
    BY <1>10 DEF FileOutcome
  <2> QED
    BY <1>10, <2>1, <2>2, EndTyped DEF FileOutcome
<1>11. ASSUME NEW a \in Agents, NEW x \in Ids \cup Keys, Forget(a, x) PROVE TypeInv'
  BY <1>11 DEF Forget
<1>12. ASSUME NEW o \in Operators, NEW a \in Agents, NEW i \in Ids, RequeueLookup(o, a, i)
       PROVE  TypeInv'
  BY <1>12 DEF RequeueLookup
<1>13. ASSUME NEW o \in Operators, RequeueMiss(o) PROVE TypeInv'
  BY <1>13 DEF RequeueMiss, EndRequeue
<1>14. ASSUME NEW o \in Operators, NEW d \in Tasks, NEW j \in Ids,
              RequeuePublish(o, d, j)
       PROVE  TypeInv'
  <2>1. CloneOf(rid[o], "requeue") \in Event
    BY <1>14, CloneIsEvent DEF RequeuePublish, Vias
  <2> QED
    BY <1>14, <2>1, EnterTyped DEF RequeuePublish, PublishClone
<1>15. ASSUME NEW o \in Operators, RequeueAck(o) PROVE TypeInv'
  <2>1. faults' \in Nat
    BY <1>15, WriteTyped DEF RequeueAck
  <2>2. dlq' \in [Ids -> Nat]
    BY <1>15 DEF RequeueAck
  <2> QED
    BY <1>15, <2>1, <2>2 DEF RequeueAck, EndRequeue
<1>16. ASSUME NEW a \in Agents, StartSources(a) PROVE TypeInv'
  BY <1>16 DEF StartSources, PhaseOf, Phases
<1>17. ASSUME NEW a \in Agents, Attach(a) PROVE TypeInv'
  BY <1>17 DEF Attach, PhaseOf, Phases, PendingRows
<1>18. ASSUME NEW a \in Agents, NEW i \in Ids, RecoverMark(a, i) PROVE TypeInv'
  <2>1. faults' \in Nat
    BY <1>18, WriteTyped DEF RecoverMark
  <2>2. row' \in [Ids -> Outcomes]
    BY <1>18, MarkedRowTyped DEF RecoverMark, Terminal, Rejections
  <2> QED
    BY <1>18, <2>1, <2>2 DEF RecoverMark
<1>19. ASSUME NEW d \in Tasks, NEW a \in Agents, NEW j \in Ids, RecoverPublish(d, a, j)
       PROVE  TypeInv'
  <2>1. CloneOf(recId, "recovery") \in Event
    BY <1>19, CloneIsEvent DEF RecoverPublish, Vias
  <2> QED
    BY <1>19, <2>1, EnterTyped DEF RecoverPublish, PublishClone
<1>20. CASE RecoverNext
  BY <1>20 DEF RecoverNext
<1>21. ASSUME NEW a \in Agents, GoLive(a) PROVE TypeInv'
  BY <1>21 DEF GoLive, PhaseOf, Phases
<1>22. CASE Crash
  BY <1>22 DEF Crash, LoseVolatile, TaskPcs, Phases
<1>23. ASSUME NEW a \in Agents, Stop(a) PROVE TypeInv'
  BY <1>23 DEF Stop, PhaseOf, Phases
<1>24. CASE Drained
  BY <1>24 DEF Drained, LoseVolatile, TaskPcs, Phases
<1>25. ASSUME NEW i \in Ids, Erase(i) PROVE TypeInv'
  BY <1>25 DEF Erase, Outcomes
<1>27. ASSUME NEW i \in Ids, WindowPasses(i) PROVE TypeInv'
  BY <1>27 DEF WindowPasses
<1>26. CASE UNCHANGED vars
  BY <1>26 DEF vars
<1>28. CASE Arrive
  BY <1>28, <1>1, <1>2, <1>3 DEF Arrive
<1>29. ASSUME NEW d \in Tasks, Dispatch(d) PROVE TypeInv'
  BY <1>29, <1>4, <1>5, <1>6, <1>7, <1>8, <1>9, <1>10 DEF Dispatch
<1>30. ASSUME NEW o \in Operators, Requeue(o) PROVE TypeInv'
  BY <1>30, <1>12, <1>13, <1>14, <1>15 DEF Requeue
<1>31. CASE Recover
  BY <1>31, <1>18, <1>19, <1>20 DEF Recover
<1>32. ASSUME NEW a \in Agents, Boot(a) \/ Stop(a) PROVE TypeInv'
  BY <1>32, <1>16, <1>17, <1>21, <1>23 DEF Boot
<1> QED
  BY <1>11, <1>22, <1>24, <1>25, <1>26, <1>27, <1>28, <1>29, <1>30, <1>31, <1>32
     DEF Next, Step

\* Every reachable state is well typed.
THEOREM TypeCorrect == Spec => []TypeOK
<1>1. TypeInv => TypeOK
  BY DEF TypeInv
<1> QED
  BY InitTyped, StepTyped, <1>1, PTL DEF Spec

-----------------------------------------------------------------------------
(* Pending rows have an owner *)

Owned(i) == i \in worklist \/ \E d \in Tasks : RoutedBy(d, i)

\* A dispatch that is being routed loses that state only in its own steps.
LEMMA EnterKeepsRouted ==
  ASSUME TypeInv, NEW d \in Tasks, NEW a, NEW e, NEW i, EnterDispatch(d, a, e, i),
         NEW x \in Tasks, NEW j, RoutedBy(x, j)
  PROVE  RoutedBy(x, j)'
BY DEF EnterDispatch, TypeInv, TypeOK, RoutedBy, Routing, tasks

\* Every step keeps PendingIsOwned.
LEMMA StepOwned == TypeInv /\ PendingIsOwned /\ [Next]_vars => PendingIsOwned'
<1> SUFFICES ASSUME TypeInv, PendingIsOwned, [Next]_vars,
                    Serving', faults' = 0,
                    NEW i \in Ids, row'[i] = "pending"
             PROVE  Owned(i)'
  BY DEF PendingIsOwned, Owned
<1> USE DEF store, tasks, recovery, requeues, budget
<1>a. faults \in Nat
  BY DEF TypeInv, TypeOK
<1>b. ASSUME Serving, faults = 0, row[i] = "pending" PROVE Owned(i)
  BY <1>b DEF PendingIsOwned, Owned
<1>c. ASSUME UNCHANGED <<row, worklist, tasks, faults>>, Serving
      PROVE  Owned(i)'
  BY <1>b, <1>c DEF RoutedBy, Owned
<1>d. UNCHANGED phase => Serving
  BY DEF Serving, Subscribed
<1>1. ASSUME NEW d \in Tasks, NEW a \in Agents, NEW j \in Arrivals,
             (\E e \in Publishable : Deliver(d, a, j, e)) \/ Redeliver(d, a, j)
      PROVE  Owned(i)'
  BY <1>1, <1>b, <1>d, EnterKeepsRouted DEF Deliver, Redeliver, Owned
<1>2. ASSUME NEW d \in Tasks, DropDuplicate(d) \/ LoopCheckThrows(d) \/ FileOutcome(d)
      PROVE  Owned(i)'
  <2>0. Serving
    BY <1>2, <1>d DEF DropDuplicate, LoopCheckThrows, FileOutcome
  <2>1. tpc[d] \notin Routing /\ row' = row /\ worklist' = worklist /\ faults = 0
    BY <1>2, <1>a, <2>0 DEF DropDuplicate, LoopCheckThrows, FileOutcome, Routing,
                            Serving, WriteWorks, WriteThrows, TypeInv, BusyHasId
  <2>2. ASSUME NEW x \in Tasks, RoutedBy(x, i) PROVE RoutedBy(x, i)'
    BY <2>1, <2>2, <1>2 DEF DropDuplicate, LoopCheckThrows, FileOutcome, EndTask,
                            RoutedBy, TypeInv, TypeOK
  <2> QED
    BY <2>0, <2>1, <2>2, <1>b DEF Owned
<1>3. ASSUME NEW d \in Tasks, Record(d)
      PROVE  Owned(i)'
  <2>1. Serving /\ worklist' = worklist /\ faults = 0 /\ tid' = tid
        /\ tpc' = [tpc EXCEPT ![d] = "recorded"] /\ tpc[d] = "new"
    BY <1>3, <1>a, <1>d DEF Record, WriteWorks, WriteThrows
  <2>2. CASE tid[d] = i
    BY <2>1, <2>2 DEF RoutedBy, Routing, TypeInv, TypeOK, Owned
  <2>3. CASE tid[d] # i
    <3>1. row[i] = "pending"
      BY <1>3, <2>3 DEF Record, TypeInv, TypeOK
    <3>2. ASSUME NEW x \in Tasks, RoutedBy(x, i) PROVE RoutedBy(x, i)'
      BY <2>1, <3>2 DEF RoutedBy, Routing, TypeInv, TypeOK
    <3> QED
      BY <2>1, <3>1, <3>2, <1>b DEF Owned
  <2> QED
    BY <2>2, <2>3
<1>4. ASSUME NEW d \in Tasks, NEW o \in {"loop", "refused"}, ShortCircuit(d, o)
      PROVE  Owned(i)'
  <2>1. Serving /\ worklist' = worklist /\ faults = 0 /\ tid' = tid
        /\ row' = MarkedRow(tid[d], o)
        /\ tpc' = [tpc EXCEPT ![d] = "rejecting"]
    BY <1>4, <1>a, <1>d DEF ShortCircuit, WriteWorks, WriteThrows
  <2>2. tid[d] # i /\ row[i] = "pending"
    BY <2>1 DEF MarkedRow, TypeInv, TypeOK
  <2>3. ASSUME NEW x \in Tasks, RoutedBy(x, i) PROVE RoutedBy(x, i)'
    BY <2>1, <2>2, <2>3 DEF RoutedBy, TypeInv, TypeOK
  <2> QED
    BY <2>1, <2>2, <2>3, <1>b DEF Owned
<1>5. ASSUME NEW d \in Tasks, StartTurn(d)
      PROVE  Owned(i)'
  <2>1. ASSUME NEW x \in Tasks, RoutedBy(x, i) PROVE RoutedBy(x, i)'
    BY <1>5, <2>1 DEF StartTurn, RoutedBy, Routing, TypeInv, TypeOK
  <2> QED
    BY <1>5, <2>1, <1>b, <1>d DEF StartTurn, Owned
<1>6. ASSUME NEW d \in Tasks, NEW o \in {"done", "failed", "refused"}, Settle(d, o)
      PROVE  Owned(i)'
  <2>1. Serving /\ worklist' = worklist /\ faults = 0 /\ tid' = tid
        /\ row' = MarkedRow(tid[d], o)
        /\ tpc' = [tpc EXCEPT ![d] = IF o = "done" THEN "clearing" ELSE "rejecting"]
    BY <1>6, <1>a, <1>d DEF Settle, WriteWorks, WriteThrows
  <2>2. tid[d] # i /\ row[i] = "pending"
    BY <2>1 DEF MarkedRow, TypeInv, TypeOK
  <2>3. ASSUME NEW x \in Tasks, RoutedBy(x, i) PROVE RoutedBy(x, i)'
    BY <2>1, <2>2, <2>3 DEF RoutedBy, TypeInv, TypeOK
  <2> QED
    BY <2>1, <2>2, <2>3, <1>b DEF Owned
<1>7. ASSUME NEW a \in Agents, NEW x \in Ids \cup Keys, Forget(a, x)
      PROVE  Owned(i)'
  BY <1>7, <1>c, <1>d DEF Forget
<1>8. ASSUME NEW o \in Operators,
             (\E a \in Agents, j \in Ids : RequeueLookup(o, a, j)) \/ RequeueMiss(o)
      PROVE  Owned(i)'
  BY <1>8, <1>c, <1>d DEF RequeueLookup, RequeueMiss
<1>9. ASSUME NEW o \in Operators, NEW d \in Tasks, NEW j \in Ids,
             RequeuePublish(o, d, j)
      PROVE  Owned(i)'
  BY <1>9, <1>b, <1>d, EnterKeepsRouted DEF RequeuePublish, PublishClone, Owned
<1>10. ASSUME NEW o \in Operators, RequeueAck(o)
       PROVE  Owned(i)'
  BY <1>10, <1>a, <1>c, <1>d DEF RequeueAck, WriteWorks, WriteThrows
<1>11. ASSUME NEW a \in Agents, Attach(a)
       PROVE  Owned(i)'
  BY <1>11 DEF Attach, PendingRows, Owned
<1>12. ASSUME NEW a \in Agents, NEW j \in Ids, RecoverMark(a, j)
       PROVE  Owned(i)'
  <2>1. Serving /\ faults = 0 /\ UNCHANGED tasks /\ worklist' = worklist \ {j}
        /\ row' = MarkedRow(j, "interrupted")
    BY <1>12, <1>a, <1>d DEF RecoverMark, WriteWorks, WriteThrows
  <2>2. i # j /\ row[i] = "pending"
    BY <2>1 DEF MarkedRow, TypeInv, TypeOK
  <2> QED
    BY <2>1, <2>2, <1>b DEF RoutedBy, Owned
<1>13. ASSUME NEW d \in Tasks, NEW a \in Agents, NEW j \in Ids, RecoverPublish(d, a, j)
       PROVE  Owned(i)'
  BY <1>13, <1>b, <1>d, EnterKeepsRouted DEF RecoverPublish, PublishClone, Owned
<1>14. ASSUME NEW a \in Agents, StartSources(a) \/ GoLive(a)
       PROVE  Owned(i)'
  <2>1. Serving
    BY <1>14 DEF StartSources, GoLive, PhaseOf, Serving, Subscribed,
                       TypeInv, TypeOK
  <2> QED
    BY <1>14, <1>c, <2>1 DEF StartSources, GoLive
<1>15. ASSUME NEW a \in Agents, Stop(a)
       PROVE  Owned(i)'
  BY <1>15 DEF Stop, PhaseOf, Serving, TypeInv, TypeOK
<1>16. ASSUME NEW j \in Arrivals, NEW e \in Publishable, PublishUnheard(j, e)
       PROVE  Owned(i)'
  BY <1>16, <1>c, <1>d DEF PublishUnheard
<1>17. ASSUME NEW j \in Ids, Erase(j)
       PROVE  Owned(i)'
  <2>1. row[i] = "pending"
    BY <1>17 DEF Erase, TypeInv, TypeOK
  <2> QED
    BY <1>17, <2>1, <1>b, <1>d DEF Erase, RoutedBy, Owned
<1>18. CASE UNCHANGED vars
  BY <1>18, <1>c, <1>d DEF vars
<1>19. CASE Arrive
  BY <1>19, <1>1, <1>16 DEF Arrive
<1>20. ASSUME NEW d \in Tasks, Dispatch(d)
       PROVE  Owned(i)'
  BY <1>20, <1>2, <1>3, <1>4, <1>5, <1>6 DEF Dispatch
<1>21. ASSUME NEW o \in Operators, Requeue(o)
       PROVE  Owned(i)'
  BY <1>21, <1>8, <1>9, <1>10 DEF Requeue
<1>22. CASE Recover
  <2>1. CASE RecoverNext
    BY <2>1, <1>c, <1>d DEF RecoverNext
  <2> QED
    BY <1>22, <2>1, <1>12, <1>13 DEF Recover
<1>23. ASSUME NEW a \in Agents, Boot(a) \/ Stop(a)
       PROVE  Owned(i)'
  BY <1>23, <1>11, <1>14, <1>15 DEF Boot
<1>24. CASE Crash \/ Drained
  BY <1>24 DEF Crash, Drained, LoseVolatile, Serving, Subscribed
<1>25. ASSUME NEW j \in Ids, WindowPasses(j)
       PROVE  Owned(i)'
  BY <1>25, <1>c, <1>d DEF WindowPasses
<1> QED
  BY <1>7, <1>17, <1>18, <1>19, <1>20, <1>21, <1>22, <1>23, <1>24, <1>25 DEF Next, Step

\* While an agent of the fleet is subscribed, none is stopping and no write has
\* failed, every pending row belongs to a dispatch in progress or is on the boot
\* recovery list.
THEOREM PendingAlwaysOwned == Spec => []PendingIsOwned
<1>1. Init => PendingIsOwned
  BY DEF Init, PendingIsOwned, Serving, Subscribed
<1> QED
  BY InitTyped, StepTyped, <1>1, StepOwned, PTL DEF Spec

-----------------------------------------------------------------------------
(* An interrupted event is recovered at most once *)

\* The recovery loop runs while an agent recovers, and one agent boots at a time.
LoopBelongs == worklist # {} \/ recPc # "idle" => \E a \in Agents : phase[a] = "recovering"
OneBoots    == \A a, b \in Agents : Booting(a) /\ Booting(b) => a = b

\* A listed event has a row.  A marked event waits for its clone and has left the
\* worklist; a clone exists only of an event recovery is done with.  Whatever
\* dispatches write over the mark, the row does not become pending again.
ListedHasRow  == \A i \in worklist : row[i] # "absent"
MarkedIsOver  == recPc = "marked" => row[recId] \in Terminal /\ recId \notin worklist
CloneMeansDone ==
  \A i \in Ids : ClonesOf(i, "recovery") # {} =>
    /\ row[i] \in Terminal /\ i \notin worklist
    /\ recPc = "marked" => recId # i

\* No dispatch will write the outcome of an event recovery has claimed, unless it
\* was swept up in flight: then its mark stays.
Claimed(i) == i \in worklist \/ row[i] = "interrupted"
Quiet(i)   == \A d \in Tasks : tid[d] = i => tpc[d] \in {"idle", "known"}
ClaimedIsQuiet ==
  \A i \in Ids \ swept : Claimed(i) => row[i] # "absent" /\ Quiet(i)
MarkedIsInterrupted ==
  recPc = "marked" /\ recId \notin swept => row[recId] = "interrupted"

RecoveryParts ==
  /\ LoopBelongs /\ OneBoots /\ ListedHasRow /\ MarkedIsOver /\ CloneMeansDone
  /\ ClaimedIsQuiet /\ MarkedIsInterrupted
  /\ RecoveredAtMostOnce

RecoveryInv == erasures = 0 => RecoveryParts

SameClones ==
  \A j \in Ids : (event[j].via = "recovery" \/ event'[j].via = "recovery")
                   => event'[j] = event[j]

\* A dispatch holds no claimed event, or holds it already, or one swept up.
StaysOff(d) ==
  \/ tpc'[d] \in {"idle", "known"}
  \/ tid'[d] \in Ids /\ ~Claimed(tid'[d])
  \/ tid'[d] = tid[d] /\ tpc[d] \notin {"idle", "known"}

\* No row goes, no outcome is undone, and the claimed rows not swept up stay.
RowsGoOn ==
  \A i \in Ids :
    /\ row[i] # "absent" => row'[i] # "absent"
    /\ row[i] \in Terminal => row'[i] \in Terminal
    /\ i \notin swept => /\ Claimed(i) => row'[i] = row[i]
                         /\ row'[i] = "interrupted" => row[i] = "interrupted"

LEMMA SameRowsGoOn == ASSUME row' = row PROVE RowsGoOn
BY DEF RowsGoOn

\* A step outside recovery that leaves the claimed rows, the recovery loop and
\* the recovery clones alone, and starts no routing of a claimed event, keeps
\* every part.
LEMMA Frame ==
  ASSUME TypeInv, RecoveryParts, UNCHANGED <<phase, worklist, recPc, recId, swept, erasures>>,
         RowsGoOn, SameClones, \A d \in Tasks : StaysOff(d)
  PROVE  RecoveryParts'
<1> USE DEF RecoveryParts
<1>1. ASSUME NEW i \in Ids \ swept, Claimed(i)' PROVE Claimed(i) /\ row'[i] = row[i]
  BY <1>1 DEF Claimed, RowsGoOn
<1>a. \A i \in Ids : ClonesOf(i, "recovery")' = ClonesOf(i, "recovery")
  BY DEF SameClones, ClonesOf
<1>b. worklist \subseteq Ids /\ (recPc = "marked" => recId \in Ids)
  BY DEF TypeInv, TypeOK, BusyHasId
<1>2. LoopBelongs' /\ OneBoots'
  BY DEF LoopBelongs, OneBoots, Booting
<1>3. ListedHasRow'
  BY <1>b DEF ListedHasRow, RowsGoOn
<1>4. MarkedIsOver'
  BY <1>b DEF MarkedIsOver, RowsGoOn
<1>5. CloneMeansDone'
  BY <1>a DEF CloneMeansDone, RowsGoOn
<1>6. ClaimedIsQuiet'
  <2> SUFFICES ASSUME NEW i \in Ids \ swept, Claimed(i)'
               PROVE  row'[i] # "absent" /\ Quiet(i)'
    BY DEF ClaimedIsQuiet
  <2>1. Claimed(i) /\ row'[i] = row[i]
    BY <1>1
  <2>2. Quiet(i) /\ row[i] # "absent"
    BY <2>1 DEF ClaimedIsQuiet
  <2>3. ASSUME NEW d \in Tasks, tid'[d] = i PROVE tpc'[d] \in {"idle", "known"}
    BY <2>1, <2>2, <2>3 DEF StaysOff, Quiet
  <2> QED
    BY <2>1, <2>2, <2>3 DEF Quiet
<1>7. MarkedIsInterrupted'
  BY <1>b DEF MarkedIsInterrupted, RowsGoOn, Claimed
<1>8. RecoveredAtMostOnce'
  BY <1>a DEF RecoveredAtMostOnce
<1> QED
  BY <1>2, <1>3, <1>4, <1>5, <1>6, <1>7, <1>8

\* Entering the dispatcher never starts routing a claimed event: its row is in
\* the store, so it is a duplicate.
LEMMA EnterStaysOff ==
  ASSUME TypeInv, RecoveryParts, NEW d \in Tasks, NEW a, NEW e, NEW i \in Ids,
         EnterDispatch(d, a, e, i), NEW x \in Tasks
  PROVE  StaysOff(x)
<1>1. Claimed(i) => StoredDuplicate(e, i)
  BY DEF RecoveryParts, ListedHasRow, Claimed, StoredDuplicate
<1>2. ASSUME tpc'[x] = tpc[x], tid'[x] = tid[x] PROVE StaysOff(x)
  BY <1>2 DEF StaysOff
<1>3. CASE UNCHANGED tasks
  BY <1>2, <1>3 DEF tasks
<1>4. CASE /\ tpc' = [tpc EXCEPT ![d] = IF StoredDuplicate(e, i) THEN "known" ELSE "new"]
           /\ tid' = [tid EXCEPT ![d] = i]
  BY <1>1, <1>2, <1>4 DEF TypeInv, TypeOK, StaysOff
<1> QED
  BY <1>3, <1>4 DEF EnterDispatch

\* Minting an event that is not a recovery clone leaves the clones alone.
LEMMA MintKeepsClones ==
  ASSUME TypeInv, NEW j \in FreshIds, NEW e, e.via # "recovery",
         event' = [event EXCEPT ![j] = e]
  PROVE  SameClones
<1>1. event[j].via # "recovery" /\ j \in Ids
  BY DEF FreshIds, Minted, NoEvent
<1>2. event'[j].via # "recovery"
  BY <1>1 DEF TypeInv, TypeOK
<1>3. \A k \in Ids : k # j => event'[k] = event[k]
  BY DEF TypeInv, TypeOK
<1> QED
  BY <1>1, <1>2, <1>3 DEF SameClones

\* A dispatch in its routing steps holds no claimed event but one swept up.
LEMMA RoutedUnclaimed ==
  ASSUME TypeInv, RecoveryParts, NEW d \in Tasks, tpc[d] \notin {"idle", "known"}
  PROVE  tid[d] \in Ids /\ (tid[d] \notin swept => ~Claimed(tid[d]))
BY DEF RecoveryParts, ClaimedIsQuiet, Quiet, TypeInv, BusyHasId

\* An outcome other than `interrupted`, written by a routing dispatch, lets the
\* rows go on.
LEMMA MarkGoesOn ==
  ASSUME TypeInv, RecoveryParts, NEW d \in Tasks, tpc[d] \notin {"idle", "known"},
         NEW o \in Terminal, o # "interrupted", row' = MarkedRow(tid[d], o) \/ row' = row
  PROVE  RowsGoOn
<1>1. tid[d] \in Ids /\ (tid[d] \notin swept => ~Claimed(tid[d]))
  BY RoutedUnclaimed
<1>2. CASE row' = row
  BY <1>2, SameRowsGoOn
<1>3. CASE row' = MarkedRow(tid[d], o)
  BY <1>1, <1>3 DEF MarkedRow, RowsGoOn, TypeInv, TypeOK, Terminal, Rejections
<1> QED
  BY <1>2, <1>3

\* The erasure count never goes down.
LEMMA ErasuresGrow ==
  ASSUME TypeInv, [Next]_vars PROVE erasures' = erasures \/ erasures' = erasures + 1
<1> USE DEF budget
<1>1. CASE Arrive
  BY <1>1 DEF Arrive, Deliver, Redeliver, PublishUnheard
<1>2. ASSUME NEW d \in Tasks, Dispatch(d)
      PROVE  erasures' = erasures
  BY <1>2 DEF Dispatch, DropDuplicate, Record, LoopCheckThrows, ShortCircuit,
              StartTurn, Settle, FileOutcome
<1>3. ASSUME NEW o \in Operators, Requeue(o)
      PROVE  erasures' = erasures
  BY <1>3 DEF Requeue, RequeueLookup, RequeueMiss, RequeuePublish, RequeueAck
<1>4. CASE Recover
  BY <1>4 DEF Recover, RecoverMark, RecoverPublish, RecoverNext
<1>5. ASSUME NEW a \in Agents, Boot(a) \/ Stop(a)
      PROVE  erasures' = erasures
  BY <1>5 DEF Boot, StartSources, Attach, GoLive, Stop
<1>6. CASE \/ \E a \in Agents, x \in Ids \cup Keys : Forget(a, x)
           \/ \E i \in Ids : Erase(i) \/ WindowPasses(i)
  BY <1>6 DEF Forget, Erase, WindowPasses
<1>7. CASE Crash \/ Drained \/ UNCHANGED vars
  BY <1>7 DEF Crash, Drained, LoseVolatile, vars
<1> QED
  BY <1>1, <1>2, <1>3, <1>4, <1>5, <1>6, <1>7 DEF Next, Step

\* Every step keeps the parts until something is erased.
LEMMA StepRecovery ==
  TypeInv /\ RecoveryParts /\ [Next]_vars /\ erasures' = 0 => RecoveryParts'
<1> SUFFICES ASSUME TypeInv, RecoveryParts, [Next]_vars, erasures' = 0
             PROVE  RecoveryParts'
  OBVIOUS
<1> USE DEF store, tasks, recovery, requeues, budget
<1>a. erasures \in Nat
  BY DEF TypeInv, TypeOK
<1>b. ASSUME NEW x \in Tasks,
             \/ tpc'[x] \in {"idle", "known"}
             \/ tid'[x] = tid[x] /\ tpc[x] \notin {"idle", "known"}
             \/ tid'[x] = tid[x] /\ tpc'[x] = tpc[x]
      PROVE  StaysOff(x)
  BY <1>b DEF StaysOff
<1>1. ASSUME NEW d \in Tasks, NEW a \in Agents, NEW i \in Arrivals, NEW e \in Publishable,
             Deliver(d, a, i, e)
      PROVE  RecoveryParts'
  <2>1. SameClones
    BY <1>1, MintKeepsClones DEF Deliver, Publishable
  <2>2. i \in Ids
    BY ConstantsAssumption
  <2> QED
    BY <1>1, <2>1, <2>2, EnterStaysOff, SameRowsGoOn, Frame DEF Deliver
<1>2. ASSUME NEW d \in Tasks, NEW a \in Agents, NEW i \in Arrivals, Redeliver(d, a, i)
      PROVE  RecoveryParts'
  <2>1. i \in Ids
    BY ConstantsAssumption
  <2> QED
    BY <1>2, <2>1, EnterStaysOff, SameRowsGoOn, Frame DEF Redeliver, SameClones
<1>3. ASSUME NEW i \in Arrivals, NEW e \in Publishable, PublishUnheard(i, e)
      PROVE  RecoveryParts'
  <2>1. SameClones
    BY <1>3, MintKeepsClones DEF PublishUnheard, Publishable
  <2> QED
    BY <1>3, <1>b, <2>1, SameRowsGoOn, Frame DEF PublishUnheard
<1>4. ASSUME NEW d \in Tasks, DropDuplicate(d) \/ LoopCheckThrows(d) \/ FileOutcome(d)
      PROVE  RecoveryParts'
  <2>1. \A x \in Tasks : \/ tpc'[x] = "idle"
                         \/ tpc'[x] = tpc[x] /\ tid'[x] = tid[x]
    BY <1>4 DEF DropDuplicate, LoopCheckThrows, FileOutcome, EndTask, TypeInv, TypeOK
  <2>2. SameClones /\ UNCHANGED row
    BY <1>4 DEF DropDuplicate, LoopCheckThrows, FileOutcome, SameClones
  <2> QED
    BY <1>4, <1>b, <2>1, <2>2, SameRowsGoOn, Frame DEF DropDuplicate, LoopCheckThrows, FileOutcome
<1>5. ASSUME NEW d \in Tasks, Record(d) PROVE RecoveryParts'
  <2>1. RowsGoOn
    <3>1. \A i \in Ids : row'[i] = row[i] \/ (row[i] = "absent" /\ row'[i] = "pending")
      BY <1>5 DEF Record, TypeInv, TypeOK
    <3>2. \A i \in Ids : Claimed(i) => row[i] # "absent"
      BY DEF Claimed, RecoveryParts, ListedHasRow
    <3> QED
      BY <3>1, <3>2 DEF RowsGoOn, Terminal, Rejections
  <2>2. \A x \in Tasks : \/ tid'[x] = tid[x] /\ tpc[x] \notin {"idle", "known"}
                         \/ tid'[x] = tid[x] /\ tpc'[x] = tpc[x]
    BY <1>5 DEF Record, TypeInv, TypeOK
  <2> QED
    BY <1>5, <1>b, <2>1, <2>2, Frame DEF Record, SameClones
<1>6. ASSUME NEW d \in Tasks, NEW o \in {"loop", "refused"}, ShortCircuit(d, o)
      PROVE  RecoveryParts'
  <2>1. RowsGoOn
    BY <1>6, MarkGoesOn DEF ShortCircuit, Terminal, Rejections
  <2>2. \A x \in Tasks : \/ tpc'[x] \in {"idle", "known"}
                         \/ tid'[x] = tid[x] /\ tpc[x] \notin {"idle", "known"}
                         \/ tid'[x] = tid[x] /\ tpc'[x] = tpc[x]
    BY <1>6 DEF ShortCircuit, EndTask, TypeInv, TypeOK
  <2> QED
    BY <1>6, <1>b, <2>1, <2>2, Frame DEF ShortCircuit, SameClones
<1>7. ASSUME NEW d \in Tasks, StartTurn(d) PROVE RecoveryParts'
  <2>1. \A x \in Tasks : \/ tid'[x] = tid[x] /\ tpc[x] \notin {"idle", "known"}
                         \/ tid'[x] = tid[x] /\ tpc'[x] = tpc[x]
    BY <1>7 DEF StartTurn, TypeInv, TypeOK
  <2> QED
    BY <1>7, <1>b, <2>1, SameRowsGoOn, Frame DEF StartTurn, SameClones
<1>8. ASSUME NEW d \in Tasks, NEW o \in {"done", "failed", "refused"}, Settle(d, o)
      PROVE  RecoveryParts'
  <2>1. RowsGoOn
    BY <1>8, MarkGoesOn DEF Settle, Terminal, Rejections
  <2>2. \A x \in Tasks : \/ tid'[x] = tid[x] /\ tpc[x] \notin {"idle", "known"}
                         \/ tid'[x] = tid[x] /\ tpc'[x] = tpc[x]
    BY <1>8 DEF Settle, TypeInv, TypeOK
  <2> QED
    BY <1>8, <1>b, <2>1, <2>2, Frame DEF Settle, SameClones
<1>9. ASSUME UNCHANGED <<event, row, tasks, recovery, erasures>>
      PROVE  RecoveryParts'
  BY <1>9, <1>b, SameRowsGoOn, Frame DEF SameClones
<1>10. ASSUME NEW o \in Operators, Requeue(o) PROVE RecoveryParts'
  <2>1. CASE (\E a \in Agents, i \in Ids : RequeueLookup(o, a, i)) \/ RequeueMiss(o) \/ RequeueAck(o)
    BY <1>9, <2>1 DEF RequeueLookup, RequeueMiss, RequeueAck
  <2>2. ASSUME NEW d \in Tasks, NEW j \in Ids, RequeuePublish(o, d, j) PROVE RecoveryParts'
    <3>1. SameClones
      BY <2>2, MintKeepsClones DEF RequeuePublish, PublishClone, CloneOf
    <3>2. \A x \in Tasks : StaysOff(x)
      BY <2>2, EnterStaysOff DEF RequeuePublish, PublishClone
    <3> QED
      BY <2>2, <3>1, <3>2, SameRowsGoOn, Frame DEF RequeuePublish
  <2> QED
    BY <1>10, <2>1, <2>2 DEF Requeue
<1>11. ASSUME NEW a \in Agents, Attach(a) PROVE RecoveryParts'
  <2>1. worklist = {} /\ recPc = "idle"
    <3>1. phase[a] = "binding" /\ Booting(a)
      BY <1>11 DEF Attach, Booting
    <3>2. \A b \in Agents : phase[b] # "recovering"
      BY <3>1 DEF RecoveryParts, OneBoots, Booting
    <3> QED
      BY <3>2 DEF RecoveryParts, LoopBelongs
  <2>2. phase'[a] = "recovering" /\ \A b \in Agents \ {a} : phase'[b] = phase[b]
    BY <1>11 DEF Attach, PhaseOf, TypeInv, TypeOK
  <2>3. LoopBelongs' /\ OneBoots'
    BY <1>11, <2>2 DEF Attach, LoopBelongs, RecoveryParts, OneBoots, Booting
  <2>4. \A i \in worklist' : i \in Ids /\ row[i] = "pending"
    BY <1>11 DEF Attach, PendingRows
  <2>5. ListedHasRow' /\ MarkedIsOver' /\ MarkedIsInterrupted'
    BY <1>11, <2>1, <2>4 DEF Attach, ListedHasRow, MarkedIsOver, MarkedIsInterrupted
  <2>6. \A i \in Ids : ClonesOf(i, "recovery")' = ClonesOf(i, "recovery")
    BY <1>11 DEF Attach, ClonesOf
  <2>7. CloneMeansDone' /\ RecoveredAtMostOnce'
    BY <1>11, <2>1, <2>4, <2>6 DEF Attach, RecoveryParts, CloneMeansDone, RecoveredAtMostOnce,
                                   Terminal, Rejections
  <2>8. ClaimedIsQuiet'
    <3> SUFFICES ASSUME NEW i \in Ids, i \notin swept', Claimed(i)'
                 PROVE  row[i] # "absent" /\ Quiet(i)
      BY <1>11 DEF Attach, ClaimedIsQuiet, Quiet
    <3>1. CASE row[i] = "pending"
      BY <1>11, <3>1 DEF Attach, PendingRows, Held, Quiet
    <3>2. CASE row[i] # "pending"
      BY <1>11, <2>4, <3>2 DEF Attach, Claimed, RecoveryParts, ClaimedIsQuiet
    <3> QED
      BY <3>1, <3>2
  <2> QED
    BY <2>3, <2>5, <2>7, <2>8 DEF RecoveryParts
<1>12. ASSUME NEW a \in Agents, NEW i \in Ids, RecoverMark(a, i) PROVE RecoveryParts'
  <2> USE DEF RecoveryParts
  <2>1. /\ i \in worklist /\ row[i] # "absent" /\ ClonesOf(i, "recovery") = {}
        /\ i \notin swept => Quiet(i)
        /\ worklist' = worklist \ {i} /\ recPc = "idle"
        /\ UNCHANGED <<event, tasks, phase, swept>>
    BY <1>12 DEF RecoverMark, ListedHasRow, ClaimedIsQuiet, Claimed, CloneMeansDone
  <2>2. \A k \in Ids : ClonesOf(k, "recovery")' = ClonesOf(k, "recovery")
    BY <1>12 DEF RecoverMark, ClonesOf
  <2>3. /\ \A k \in Ids : k # i => row'[k] = row[k]
        /\ row'[i] \in {row[i], "interrupted"}
        /\ recPc' # "idle" => recPc' = "marked" /\ recId' = i /\ row'[i] = "interrupted"
    BY <1>12, <2>1 DEF RecoverMark, MarkedRow, TypeInv, TypeOK
  <2>4. LoopBelongs' /\ OneBoots'
    BY <1>12 DEF RecoverMark, LoopBelongs, OneBoots, Booting
  <2>5. ListedHasRow' /\ MarkedIsOver' /\ MarkedIsInterrupted'
    BY <2>1, <2>3 DEF ListedHasRow, MarkedIsOver, MarkedIsInterrupted, Terminal, Rejections,
                      TypeInv, TypeOK
  <2>6. ClaimedIsQuiet'
    BY <2>1, <2>3 DEF ClaimedIsQuiet, Claimed, Quiet
  <2>7. CloneMeansDone'
    BY <2>1, <2>2, <2>3 DEF CloneMeansDone, Terminal, Rejections
  <2>8. RecoveredAtMostOnce'
    BY <2>2, <1>12 DEF RecoverMark, RecoveredAtMostOnce
  <2> QED
    BY <2>4, <2>5, <2>6, <2>7, <2>8
<1>13. ASSUME NEW d \in Tasks, NEW a \in Agents, NEW j \in Ids, RecoverPublish(d, a, j)
       PROVE  RecoveryParts'
  <2> USE DEF RecoveryParts
  <2>1. /\ recPc = "marked" /\ recId \in Ids /\ ClonesOf(recId, "recovery") = {}
        /\ row[recId] \in Terminal /\ recId \notin worklist
        /\ recPc' = "published" /\ UNCHANGED <<row, worklist, recId, swept, phase>>
        /\ phase[a] = "recovering"
    BY <1>13 DEF RecoverPublish, MarkedIsOver, CloneMeansDone, TypeInv, BusyHasId
  <2>2. /\ event'[j] = CloneOf(recId, "recovery") /\ event[j].via # "recovery"
        /\ \A k \in Ids : k # j => event'[k] = event[k]
    BY <1>13 DEF RecoverPublish, PublishClone, FreshIds, Minted, NoEvent, TypeInv,
                 TypeOK
  <2>3. ClonesOf(recId, "recovery")' = {j}
    <3>1. \A k \in Ids : k # j => k \notin ClonesOf(recId, "recovery")'
      BY <2>1, <2>2 DEF ClonesOf
    <3>2. j \in ClonesOf(recId, "recovery")'
      BY <2>1, <2>2 DEF ClonesOf, CloneOf
    <3> QED
      BY <3>1, <3>2 DEF ClonesOf
  <2>4. ASSUME NEW i \in Ids, i # recId
        PROVE  ClonesOf(i, "recovery")' = ClonesOf(i, "recovery")
    BY <2>2, <2>4 DEF ClonesOf, CloneOf
  <2>5. LoopBelongs' /\ OneBoots' /\ ListedHasRow' /\ MarkedIsOver' /\ MarkedIsInterrupted'
    BY <2>1 DEF LoopBelongs, OneBoots, Booting, ListedHasRow, MarkedIsOver,
                MarkedIsInterrupted
  <2>6. \A x \in Tasks : StaysOff(x)
    BY <1>13, EnterStaysOff DEF RecoverPublish, PublishClone
  <2>7. ClaimedIsQuiet'
    BY <2>1, <2>6 DEF ClaimedIsQuiet, Claimed, Quiet, StaysOff
  <2>8. CloneMeansDone'
    BY <2>1, <2>4 DEF CloneMeansDone
  <2>9. RecoveredAtMostOnce'
    BY <1>13, <2>3, <2>4 DEF RecoverPublish, RecoveredAtMostOnce
  <2> QED
    BY <2>5, <2>7, <2>8, <2>9
<1>14. ASSUME UNCHANGED <<event, row, swept, erasures>>, recPc' # "marked",
              worklist' = worklist \/ worklist' = {}, LoopBelongs', OneBoots',
              \A d \in Tasks : tpc'[d] = "idle" \/ (tpc'[d] = tpc[d] /\ tid'[d] = tid[d])
       PROVE  RecoveryParts'
  <2>1. \A i \in Ids : ClonesOf(i, "recovery")' = ClonesOf(i, "recovery")
    BY <1>14 DEF ClonesOf
  <2>2. ListedHasRow' /\ MarkedIsOver' /\ MarkedIsInterrupted'
    BY <1>14 DEF RecoveryParts, ListedHasRow, MarkedIsOver, MarkedIsInterrupted
  <2>3. ClaimedIsQuiet'
    BY <1>14 DEF RecoveryParts, ClaimedIsQuiet, Claimed, Quiet
  <2>4. CloneMeansDone' /\ RecoveredAtMostOnce'
    BY <1>14, <2>1 DEF RecoveryParts, CloneMeansDone, RecoveredAtMostOnce
  <2> QED
    BY <1>14, <2>2, <2>3, <2>4 DEF RecoveryParts
<1>15. CASE RecoverNext
  <2>1. LoopBelongs' /\ OneBoots'
    BY <1>15 DEF RecoverNext, RecoveryParts, LoopBelongs, OneBoots, Booting
  <2> QED
    BY <1>14, <1>15, <2>1 DEF RecoverNext
<1>16. ASSUME NEW a \in Agents, StartSources(a) \/ GoLive(a) \/ Stop(a) PROVE RecoveryParts'
  <2>0. \A b \in Agents \ {a} : phase'[b] = phase[b]
    BY <1>16 DEF StartSources, GoLive, Stop, PhaseOf, TypeInv, TypeOK
  <2>1. CASE StartSources(a)
    <3>1. \A b \in Agents : ~Booting(b)
      BY <2>1 DEF StartSources, Booting
    <3>2. worklist = {} /\ recPc = "idle"
      BY <3>1 DEF RecoveryParts, LoopBelongs, Booting
    <3>3. LoopBelongs' /\ OneBoots'
      BY <2>0, <2>1, <3>1, <3>2 DEF StartSources, LoopBelongs, OneBoots, Booting
    <3> QED
      BY <1>14, <2>1, <3>2, <3>3 DEF StartSources
  <2>2. CASE GoLive(a)
    <3>1. phase'[a] = "live" /\ worklist = {} /\ recPc = "idle"
      BY <2>2 DEF GoLive, PhaseOf, TypeInv, TypeOK
    <3>2. LoopBelongs' /\ OneBoots'
      BY <2>0, <2>2, <3>1 DEF GoLive, RecoveryParts, LoopBelongs, OneBoots, Booting
    <3> QED
      BY <1>14, <2>2, <3>1, <3>2 DEF GoLive
  <2>3. CASE Stop(a)
    <3>1. phase'[a] = "stopping" /\ \A b \in Agents : ~Booting(b)
      BY <2>3 DEF Stop, PhaseOf, TypeInv, TypeOK
    <3>2. worklist = {} /\ recPc = "idle"
      BY <3>1 DEF RecoveryParts, LoopBelongs, Booting
    <3>3. LoopBelongs' /\ OneBoots'
      BY <2>0, <2>3, <3>1, <3>2 DEF Stop, LoopBelongs, OneBoots, Booting
    <3> QED
      BY <1>14, <2>3, <3>2, <3>3 DEF Stop
  <2> QED
    BY <1>16, <2>1, <2>2, <2>3
<1>17. CASE Crash \/ Drained
  <2>1. LoopBelongs' /\ OneBoots'
    BY <1>17 DEF Crash, Drained, LoseVolatile, LoopBelongs, OneBoots, Booting
  <2>2. UNCHANGED <<event, row, swept, erasures>> /\ recPc' # "marked" /\ worklist' = {}
    BY <1>17 DEF Crash, Drained, LoseVolatile
  <2>3. \A d \in Tasks : tpc'[d] = "idle"
    BY <1>17 DEF Crash, Drained, LoseVolatile
  <2> QED
    BY <1>14, <2>1, <2>2, <2>3
<1>18. ASSUME NEW i \in Ids, Erase(i) PROVE FALSE
  BY <1>18, <1>a DEF Erase
<1>19. CASE \/ \E a \in Agents, x \in Ids \cup Keys : Forget(a, x)
            \/ \E i \in Ids : WindowPasses(i)
            \/ UNCHANGED vars
  BY <1>9, <1>19 DEF Forget, WindowPasses, vars
<1>20. CASE Arrive
  BY <1>20, <1>1, <1>2, <1>3 DEF Arrive
<1>21. ASSUME NEW d \in Tasks, Dispatch(d) PROVE RecoveryParts'
  BY <1>21, <1>4, <1>5, <1>6, <1>7, <1>8 DEF Dispatch
<1>22. CASE Recover
  BY <1>22, <1>12, <1>13, <1>15 DEF Recover
<1>23. ASSUME NEW a \in Agents, Boot(a) \/ Stop(a) PROVE RecoveryParts'
  BY <1>23, <1>11, <1>16 DEF Boot
<1> QED
  BY <1>10, <1>17, <1>18, <1>19, <1>20, <1>21, <1>22, <1>23 DEF Next, Step

\* So does RecoveryInv, which asks nothing once something was erased.
LEMMA RecoveryStep == TypeInv /\ RecoveryInv /\ [Next]_vars => RecoveryInv'
<1> SUFFICES ASSUME TypeInv, RecoveryInv, [Next]_vars, erasures' = 0
             PROVE  RecoveryParts'
  BY DEF RecoveryInv
<1>1. erasures = 0
  BY ErasuresGrow DEF TypeInv, TypeOK
<1>2. RecoveryParts
  BY <1>1 DEF RecoveryInv
<1> QED
  BY <1>2, StepRecovery

LEMMA InitRecovery == Init => RecoveryInv
BY DEF Init, RecoveryInv, RecoveryParts, LoopBelongs, OneBoots, Booting, ListedHasRow,
       MarkedIsOver, CloneMeansDone, ClaimedIsQuiet, Claimed, MarkedIsInterrupted,
       RecoveredAtMostOnce, ClonesOf, NoEvent

\* However often the process crashes and boots, and however many agents sweep the
\* store as they come up, an interrupted event has at most one recovery clone
\* (nothing erased meanwhile).
THEOREM RecoversOnce == Spec => []RecoveredAtMostOnce
<1>1. RecoveryInv => RecoveredAtMostOnce
  BY DEF RecoveryInv, RecoveryParts, RecoveredAtMostOnce
<1> QED
  BY InitTyped, StepTyped, InitRecovery, RecoveryStep, <1>1, PTL DEF Spec

-----------------------------------------------------------------------------
(* One run per piece of work                                                *)

\* One dispatch at a time is between its dedup read and its record, and what
\* it found new still is.
Window(d)   == tpc[d] \in {"known", "new"}
Past(d)     == tpc[d] \in Routing \cup {"rejecting", "clearing"}
OneInWindow == \A d, x \in Tasks : Window(d) /\ Window(x) => d = x
NewIsNew    == \A d \in Tasks : tpc[d] = "new" =>
                 /\ row[tid[d]] = "absent"
                 /\ \A j \in Ids \ aged : SameWork(tid[d], j) => row[j] = "absent"
MintedFirst == \A i \in Ids : ~Minted(i) =>
                 /\ row[i] = "absent" /\ \A a \in Agents : <<a, i>> \notin cache
                 /\ \A d \in Tasks : tid[d] = i => tpc[d] = "idle"

\* The store holds one row per piece of work within the dedup window, and one
\* dispatch at most is past the record of it.
RowsDiffer == \A i, j \in Ids :
                row[i] # "absent" /\ row[j] # "absent" /\ SameWork(i, j) =>
                  i = j \/ {i, j} \cap aged # {}
PastDiffer == \A d, x \in Tasks : Past(d) /\ Past(x) /\ tid[d] = tid[x] => d = x
PastHasRow == \A d \in Tasks : Past(d) => row[tid[d]] # "absent"

\* A turn leaves a row behind, and is not started before it is counted.
RunsCounted ==
  /\ \A i \in Ids : runs[i] > 0 => runs[i] = 1 /\ row[i] # "absent"
  /\ \A d \in Tasks : tpc[d] = "recorded" => runs[tid[d]] = 0
  /\ \A d \in Tasks : tpc[d] = "turn" => runs[tid[d]] = 1

\* What has a dead letter is over.
FiledIsOver == \A i \in Ids : dlq[i] > 0 =>
                 row[i] # "absent" /\ \A d \in Tasks : Past(d) => tid[d] # i

DedupParts ==
  /\ OneInWindow /\ NewIsNew /\ MintedFirst /\ RowsDiffer /\ PastDiffer /\ PastHasRow
  /\ RunsCounted /\ FiledIsOver

\* Arrivals do not overlap in the dedup check, no write failed, nothing erased.
DedupInv == ~Overlap /\ Undisturbed => DedupParts

\* A dispatch waits, ends, or goes from its routing to its settlement.
Onward(d) ==
  \/ tpc'[d] = "idle"
  \/ tid'[d] = tid[d] /\ \/ tpc'[d] = tpc[d]
                         \/ Past(d) /\ tpc'[d] \in {"rejecting", "clearing"}

\* Steps that take nothing in and start no turn: dispatches go on or end, and one
\* that ends may file its event.
LEMMA DedupFrame ==
  ASSUME TypeInv, DedupParts, UNCHANGED <<event, runs>>, aged \subseteq aged',
         \A i \in Ids : row'[i] = "absent" <=> row[i] = "absent",
         \A a \in Agents, i \in Ids : <<a, i>> \in cache' => <<a, i>> \in cache \/ Minted(i),
         \A d \in Tasks : Onward(d),
         \A i \in Ids : dlq'[i] > 0 =>
           dlq[i] > 0 \/ \E d \in Tasks : Past(d) /\ tid[d] = i /\ tpc'[d] = "idle"
  PROVE  DedupParts'
<1> USE DEF DedupParts
<1>a. \A d \in Tasks : Past(d)' => Past(d) /\ tid'[d] = tid[d]
  BY DEF Onward, Past, Routing
<1>b. \A d \in Tasks : tpc'[d] \in {"known", "new", "recorded", "turn"} =>
                         tpc'[d] = tpc[d] /\ tid'[d] = tid[d]
  BY DEF Onward
<1>c. \A d \in Tasks : Past(d) \/ tpc[d] # "idle" => tid[d] \in Ids
  BY DEF TypeInv, BusyHasId, Past, Routing
<1>1. OneInWindow'
  BY <1>b DEF OneInWindow, Window
<1>2. NewIsNew'
  <2> SUFFICES ASSUME NEW d \in Tasks, tpc'[d] = "new"
               PROVE  /\ row'[tid'[d]] = "absent"
                      /\ \A j \in Ids \ aged' : (SameWork(tid[d], j))' => row'[j] = "absent"
    BY DEF NewIsNew
  <2>1. tpc[d] = "new" /\ tid'[d] = tid[d] /\ tid[d] \in Ids
    BY <1>b, <1>c
  <2> QED BY <2>1 DEF NewIsNew, SameWork
<1>3. MintedFirst'
  <2> SUFFICES ASSUME NEW i \in Ids, ~Minted(i)
               PROVE  /\ row'[i] = "absent" /\ \A a \in Agents : <<a, i>> \notin cache'
                      /\ \A d \in Tasks : tid'[d] = i => tpc'[d] = "idle"
    BY DEF MintedFirst, Minted
  <2> QED BY DEF MintedFirst, Onward, Past, Routing
<1>4. RowsDiffer'
  BY DEF RowsDiffer, SameWork
<1>5. PastDiffer' /\ PastHasRow'
  BY <1>a, <1>c DEF PastDiffer, PastHasRow
<1>6. RunsCounted'
  BY <1>b DEF RunsCounted
<1>7. FiledIsOver'
  <2> SUFFICES ASSUME NEW i \in Ids, dlq'[i] > 0
               PROVE  row'[i] # "absent" /\ \A d \in Tasks : Past(d)' => tid'[d] # i
    BY DEF FiledIsOver
  <2>1. CASE dlq[i] > 0
    BY <1>a, <2>1 DEF FiledIsOver
  <2>2. ASSUME NEW d \in Tasks, Past(d), tid[d] = i, tpc'[d] = "idle"
        PROVE  row'[i] # "absent" /\ \A x \in Tasks : Past(x)' => tid'[x] # i
    <3>1. row'[i] # "absent"
      BY <2>2 DEF PastHasRow
    <3>2. ASSUME NEW x \in Tasks, Past(x)', tid'[x] = i PROVE FALSE
      <4>1. x = d
        BY <1>a, <2>2, <3>2 DEF PastDiffer
      <4> QED BY <2>2, <3>2, <4>1 DEF Past, Routing
    <3> QED BY <3>1, <3>2
  <2> QED BY <2>1, <2>2
<1> QED BY <1>1, <1>2, <1>3, <1>4, <1>5, <1>6, <1>7

\* An event is minted, published again or taken in by a dispatch.
LEMMA DedupEnter ==
  ASSUME TypeInv, DedupParts, ~Overlap, NEW d, NEW a, NEW e \in Event, NEW i \in Ids,
         UNCHANGED <<row, dlq, aged, cache, runs>>,
         event'[i] = e, \A j \in Ids \ {i} : event'[j] = event[j],
         event[i] = e \/ ~Minted(i),
         UNCHANGED tasks \/ (d \in Tasks /\ EnterDispatch(d, a, e, i))
  PROVE  DedupParts'
<1> USE DEF DedupParts
<1>1. Minted(i)' /\ (\A j \in Ids \ {i} : Minted(j)' <=> Minted(j))
  BY DEF Minted, NoEvent, Event, Vias
<1>2. event'[i] # event[i] => row[i] = "absent"
  BY DEF MintedFirst
\* Either no dispatch moves, or this one enters an empty window.
<1>3. \/ UNCHANGED <<tpc, tid>>
      \/ /\ tpc[d] = "idle" /\ (\A x \in Tasks : ~Window(x)) /\ tid'[d] = i
         /\ \/ tpc'[d] = "known"
            \/ tpc'[d] = "new" /\ ~StoredDuplicate(e, i)
         /\ \A x \in Tasks \ {d} : tpc'[x] = tpc[x] /\ tid'[x] = tid[x]
  BY DEF EnterDispatch, MayEnterCheck, Window, tasks, TypeInv, TypeOK
<1>4. \A x \in Tasks : \/ tpc'[x] = tpc[x] /\ tid'[x] = tid[x]
                       \/ x = d /\ tpc[d] = "idle" /\ tpc'[d] \in {"known", "new"} /\ tid'[d] = i
  BY <1>3
<1>5. OneInWindow'
  BY <1>3 DEF OneInWindow, Window
<1>6. NewIsNew'
  <2> SUFFICES ASSUME NEW x \in Tasks, tpc'[x] = "new"
               PROVE  /\ row[tid'[x]] = "absent"
                      /\ \A j \in Ids \ aged : (SameWork(tid[x], j))' => row[j] = "absent"
    BY DEF NewIsNew
  <2>1. CASE tpc'[x] = tpc[x] /\ tid'[x] = tid[x]
    <3>1. tid[x] \in Ids /\ Minted(tid[x])
      BY <2>1 DEF MintedFirst, TypeInv, BusyHasId
    <3>2. event'[tid[x]] = event[tid[x]] \/ event[i] = e
      BY <3>1
    <3>3. event'[tid[x]] = event[tid[x]]
      BY <3>1, <3>2
    <3>4. \A j \in Ids : (SameWork(tid[x], j))' => SameWork(tid[x], j) \/ row[j] = "absent"
      BY <1>2, <2>1, <3>3 DEF SameWork
    <3> QED BY <2>1, <3>4 DEF NewIsNew
  <2>2. CASE ~(tpc'[x] = tpc[x] /\ tid'[x] = tid[x])
    <3>1. x = d /\ tid'[x] = i /\ ~StoredDuplicate(e, i)
      BY <1>3, <2>2
    <3> QED BY <3>1 DEF StoredDuplicate, SameWork
  <2> QED BY <2>1, <2>2
<1>7. MintedFirst'
  BY <1>1, <1>4 DEF MintedFirst
<1>8. RowsDiffer'
  BY <1>2 DEF RowsDiffer, SameWork
<1>9. PastDiffer' /\ PastHasRow' /\ RunsCounted' /\ FiledIsOver'
  BY <1>4 DEF PastDiffer, PastHasRow, RunsCounted, FiledIsOver, Past, Routing
<1> QED BY <1>5, <1>6, <1>7, <1>8, <1>9

\* remember() writes no id but that of the event at hand.
LEMMA NamesItsEvent ==
  ASSUME TypeInv, NEW a, NEW i \in Ids, Minted(i), cache' = cache \cup CacheNames(a, event[i], i),
         NEW b, NEW j \in Ids, <<b, j>> \in cache'
  PROVE  <<b, j>> \in cache \/ j = i
<1>1. event[i].key \notin Ids
  BY ConstantsAssumption DEF Minted, TypeInv, TypeOK, Event
<1> QED BY <1>1 DEF CacheNames

\* A new event gets its row.
LEMMA DedupRecord ==
  ASSUME TypeInv, DedupParts, NEW d \in Tasks, Record(d), faults = 0, faults' = 0
  PROVE  DedupParts'
<1> USE DEF DedupParts
<1> DEFINE i == tid[d]
<1>1. /\ tpc[d] = "new" /\ i \in Ids /\ Minted(i) /\ row[i] = "absent"
      /\ \A j \in Ids \ aged : SameWork(i, j) => row[j] = "absent"
  BY DEF Record, TypeInv, BusyHasId, NewIsNew, MintedFirst
<1>3. /\ UNCHANGED <<event, dlq, aged, tid, runs>>
      /\ cache' = cache \cup CacheNames(tagent[d], event[i], i)
      /\ tpc' = [tpc EXCEPT ![d] = "recorded"]
      /\ row' = [row EXCEPT ![i] = "pending"]
  BY <1>1 DEF Record, WriteThrows
<1>4. /\ tpc'[d] = "recorded" /\ \A x \in Tasks \ {d} : tpc'[x] = tpc[x]
      /\ row'[i] = "pending" /\ \A j \in Ids \ {i} : row'[j] = row[j]
  BY <1>1, <1>3 DEF TypeInv, TypeOK
<1>5. \A x \in Tasks \ {d} : ~Window(x) /\ (Past(x) => tid[x] # i)
  <2>1. \A x \in Tasks \ {d} : ~Window(x)
    BY <1>1 DEF OneInWindow, Window
  <2> QED BY <1>1, <2>1 DEF PastHasRow
<1> HIDE DEF i
<1>6. OneInWindow' /\ NewIsNew'
  BY <1>4, <1>5 DEF OneInWindow, NewIsNew, Window
<1>7. MintedFirst'
  <2>1. \A b \in Agents, j \in Ids : <<b, j>> \in cache' => <<b, j>> \in cache \/ j = i
    BY <1>1, <1>3, NamesItsEvent
  <2>2. \A j \in Ids : Minted(j)' <=> Minted(j)
    BY <1>3 DEF Minted
  <2> QED BY <1>1, <1>3, <1>4, <2>1, <2>2 DEF MintedFirst, i
<1>8. RowsDiffer'
  <2>1. \A j, k \in Ids : (SameWork(j, k))' <=> SameWork(j, k)
    BY <1>3 DEF SameWork
  <2>2. \A j \in Ids : SameWork(j, i) => SameWork(i, j)
    BY DEF SameWork
  <2> QED BY <1>1, <1>3, <1>4, <2>1, <2>2 DEF RowsDiffer
<1>9. PastDiffer'
  BY <1>3, <1>4, <1>5 DEF PastDiffer, Past, i
<1>10. PastHasRow'
  BY <1>3, <1>4, <1>5 DEF PastHasRow, Past, Routing, TypeInv, BusyHasId, i
<1>11. RunsCounted'
  <2>1. runs[i] = 0
    BY <1>1 DEF RunsCounted, TypeInv, TypeOK
  <2> QED BY <1>3, <1>4, <2>1 DEF RunsCounted, i
<1>12. FiledIsOver'
  BY <1>1, <1>3, <1>4 DEF FiledIsOver, Past, i
<1> QED BY <1>6, <1>7, <1>8, <1>9, <1>10, <1>11, <1>12

\* The turn of an event is started once.
LEMMA DedupTurn ==
  ASSUME TypeInv, DedupParts, NEW d \in Tasks, StartTurn(d)
  PROVE  DedupParts'
<1> USE DEF DedupParts
<1> DEFINE i == tid[d]
<1>1. /\ tpc[d] = "recorded" /\ i \in Ids /\ row[i] # "absent" /\ runs[i] = 0
      /\ \A x \in Tasks \ {d} : Past(x) => tid[x] # i
  BY DEF StartTurn, TypeInv, BusyHasId, PastHasRow, Routing, RunsCounted, PastDiffer, Past
<1>2. /\ UNCHANGED <<event, row, dlq, aged, cache, tid>>
      /\ tpc' = [tpc EXCEPT ![d] = "turn"] /\ runs' = [runs EXCEPT ![i] = @ + 1]
  BY DEF StartTurn, store
<1>3. /\ tpc'[d] = "turn" /\ \A x \in Tasks \ {d} : tpc'[x] = tpc[x]
      /\ runs'[i] = 1 /\ \A j \in Ids \ {i} : runs'[j] = runs[j]
  BY <1>1, <1>2 DEF TypeInv, TypeOK
<1>4. OneInWindow' /\ PastDiffer' /\ PastHasRow' /\ FiledIsOver'
  BY <1>1, <1>2, <1>3 DEF OneInWindow, PastDiffer, PastHasRow, FiledIsOver, Window, Past, Routing
<1>5. NewIsNew' /\ RowsDiffer' /\ MintedFirst'
  BY <1>1, <1>2, <1>3 DEF NewIsNew, RowsDiffer, MintedFirst, SameWork, Minted
<1>6. RunsCounted'
  <2>1. \A x \in Tasks : tpc'[x] \in Routing => x = d \/ (tpc[x] = tpc'[x] /\ tid[x] # i)
    <3> HIDE DEF i
    <3> QED BY <1>1, <1>3 DEF Past, Routing
  <2>2. \A x \in Tasks : tpc[x] # "idle" => tid[x] \in Ids
    BY DEF TypeInv, BusyHasId
  <2>3. \A x \in Tasks : tpc'[x] \in Routing /\ x # d => runs'[tid[x]] = runs[tid[x]]
    BY <1>3, <2>1, <2>2 DEF Routing
  <2>4. /\ \A x \in Tasks : tpc'[x] = "recorded" => runs'[tid'[x]] = 0
        /\ \A x \in Tasks : tpc'[x] = "turn" => runs'[tid'[x]] = 1
    BY <1>2, <1>3, <2>1, <2>3 DEF RunsCounted, Routing
  <2> HIDE DEF i
  <2> QED BY <1>1, <1>2, <1>3, <2>4 DEF RunsCounted
<1> QED BY <1>4, <1>5, <1>6

\* The fault count never goes down.
LEMMA FaultsGrow ==
  ASSUME TypeInv, [Next]_vars PROVE faults' = faults \/ faults' = faults + 1
<1> USE DEF budget, WriteWorks, WriteThrows
<1>1. CASE Arrive
  BY <1>1 DEF Arrive, Deliver, Redeliver, PublishUnheard
<1>2. ASSUME NEW d \in Tasks, Dispatch(d)
      PROVE  faults' = faults \/ faults' = faults + 1
  BY <1>2 DEF Dispatch, DropDuplicate, Record, LoopCheckThrows, ShortCircuit,
              StartTurn, Settle, FileOutcome
<1>3. ASSUME NEW o \in Operators, Requeue(o)
      PROVE  faults' = faults \/ faults' = faults + 1
  BY <1>3 DEF Requeue, RequeueLookup, RequeueMiss, RequeuePublish, RequeueAck
<1>4. CASE Recover
  BY <1>4 DEF Recover, RecoverMark, RecoverPublish, RecoverNext
<1>5. ASSUME NEW a \in Agents, Boot(a) \/ Stop(a)
      PROVE  faults' = faults
  BY <1>5 DEF Boot, StartSources, Attach, GoLive, Stop
<1>6. CASE \/ \E a \in Agents, x \in Ids \cup Keys : Forget(a, x)
           \/ \E i \in Ids : Erase(i) \/ WindowPasses(i)
  BY <1>6 DEF Forget, Erase, WindowPasses
<1>7. CASE Crash \/ Drained \/ UNCHANGED vars
  BY <1>7 DEF Crash, Drained, LoseVolatile, vars
<1> QED
  BY <1>1, <1>2, <1>3, <1>4, <1>5, <1>6, <1>7 DEF Next, Step

\* What a clone is when it is minted.
LEMMA CloneMinted ==
  ASSUME TypeInv, NEW d, NEW a, NEW i \in Ids, NEW j \in Ids, NEW via \in Vias,
         PublishClone(d, a, i, j, via)
  PROVE  /\ CloneOf(i, via) \in Event /\ ~Minted(j) /\ event'[j] = CloneOf(i, via)
         /\ \A k \in Ids \ {j} : event'[k] = event[k]
         /\ EnterDispatch(d, a, CloneOf(i, via), j)
<1>1. CloneOf(i, via) \in Event
  BY CloneIsEvent DEF TypeInv
<1> QED BY <1>1 DEF PublishClone, FreshIds, TypeInv, TypeOK

\* Every step keeps the parts until a write fails or something is erased.
LEMMA StepDedup ==
  ASSUME TypeInv, DedupParts, ~Overlap, [Next]_vars, faults = 0, faults' = 0, erasures' = 0
  PROVE  DedupParts'
<1> USE DEF store, tasks, recovery, requeues, budget
<1>a. ASSUME NEW x \in Tasks, tpc'[x] = "idle" \/ (tpc'[x] = tpc[x] /\ tid'[x] = tid[x])
      PROVE  Onward(x)
  BY <1>a DEF Onward
<1>1. ASSUME NEW i \in Arrivals, NEW e \in Publishable, NEW d, NEW a,
             (d \in Tasks /\ Deliver(d, a, i, e)) \/ PublishUnheard(i, e)
      PROVE  DedupParts'
  <2>1. i \in Ids /\ ~Minted(i) /\ e \in Event
    BY <1>1, PublishableIsEvent DEF Deliver, PublishUnheard, FreshIds
  <2>2. event'[i] = e /\ \A j \in Ids \ {i} : event'[j] = event[j]
    BY <1>1, <2>1 DEF Deliver, PublishUnheard, TypeInv, TypeOK
  <2> QED BY <1>1, <2>1, <2>2, DedupEnter DEF Deliver, PublishUnheard
<1>2. ASSUME NEW d \in Tasks, NEW a \in Agents, NEW i \in Arrivals, Redeliver(d, a, i)
      PROVE  DedupParts'
  <2>1. i \in Ids /\ event[i] \in Event
    BY <1>2, ConstantsAssumption DEF Redeliver, Minted, TypeInv, TypeOK
  <2> QED BY <1>2, <2>1, DedupEnter DEF Redeliver
<1>3. ASSUME NEW d \in Tasks, DropDuplicate(d) \/ LoopCheckThrows(d) PROVE DedupParts'
  <2>1. \A x \in Tasks : Onward(x)
    BY <1>3, <1>a DEF DropDuplicate, LoopCheckThrows, EndTask, TypeInv, TypeOK
  <2>2. \A a \in Agents, i \in Ids : <<a, i>> \in cache' => <<a, i>> \in cache \/ Minted(i)
    <3>1. CASE DropDuplicate(d)
      <4>1. tid[d] \in Ids /\ Minted(tid[d])
        BY <3>1 DEF DropDuplicate, TypeInv, BusyHasId, DedupParts, MintedFirst
      <4> QED BY <3>1, <4>1, NamesItsEvent DEF DropDuplicate
    <3>2. CASE LoopCheckThrows(d)
      BY <3>2 DEF LoopCheckThrows
    <3> QED BY <1>3, <3>1, <3>2
  <2> QED BY <1>3, <2>1, <2>2, DedupFrame DEF DropDuplicate, LoopCheckThrows
<1>4. ASSUME NEW d \in Tasks,
             \/ \E o \in {"loop", "refused"} : ShortCircuit(d, o)
             \/ \E o \in {"done", "failed", "refused"} : Settle(d, o)
      PROVE  DedupParts'
  <2>1. /\ tpc[d] \in Routing /\ UNCHANGED <<event, dlq, aged, cache, tid, runs>>
        /\ \E o \in Terminal : row' = MarkedRow(tid[d], o)
        /\ \E p \in {"rejecting", "clearing"} : tpc' = [tpc EXCEPT ![d] = p]
    BY <1>4 DEF ShortCircuit, Settle, WriteThrows, Routing, Terminal, Rejections
  <2>2. \A x \in Tasks : Onward(x)
    BY <2>1 DEF Onward, Past, TypeInv, TypeOK
  <2>3. \A i \in Ids : row'[i] = "absent" <=> row[i] = "absent"
    BY <2>1 DEF MarkedRow, Terminal, Rejections, TypeInv, TypeOK
  <2> QED BY <2>1, <2>2, <2>3, DedupFrame
<1>5. ASSUME NEW d \in Tasks, FileOutcome(d) PROVE DedupParts'
  <2>1. \A x \in Tasks : Onward(x)
    BY <1>5, <1>a DEF FileOutcome, EndTask, TypeInv, TypeOK
  <2>2. \A i \in Ids : dlq'[i] > 0 => dlq[i] > 0 \/ (Past(d) /\ tid[d] = i /\ tpc'[d] = "idle")
    BY <1>5 DEF FileOutcome, EndTask, Past, TypeInv, TypeOK
  <2> QED BY <1>5, <2>1, <2>2, DedupFrame DEF FileOutcome
<1>6. ASSUME NEW d \in Tasks, Dispatch(d) PROVE DedupParts'
  BY <1>3, <1>4, <1>5, <1>6, DedupRecord, DedupTurn DEF Dispatch
<1>7. ASSUME UNCHANGED <<event, row, tasks, runs>>, aged \subseteq aged', cache' \subseteq cache,
             \A i \in Ids : dlq'[i] > 0 => dlq[i] > 0
      PROVE  DedupParts'
  BY <1>7, <1>a, DedupFrame
<1>8. ASSUME NEW o \in Operators, Requeue(o) PROVE DedupParts'
  <2>1. CASE (\E a \in Agents, i \in Ids : RequeueLookup(o, a, i)) \/ RequeueMiss(o)
    BY <1>7, <2>1 DEF RequeueLookup, RequeueMiss
  <2>2. CASE RequeueAck(o)
    BY <1>7, <2>2 DEF RequeueAck, TypeInv, TypeOK
  <2>3. ASSUME NEW d \in Tasks, NEW j \in Ids, RequeuePublish(o, d, j) PROVE DedupParts'
    <3>1. rid[o] \in Ids /\ PublishClone(d, ragent[o], rid[o], j, "requeue")
      BY <2>3 DEF RequeuePublish, TypeInv, BusyHasId
    <3>2. UNCHANGED <<row, dlq, aged, cache, runs>>
      BY <2>3 DEF RequeuePublish
    <3> DEFINE e == CloneOf(rid[o], "requeue")
    <3>3. /\ e \in Event /\ ~Minted(j) /\ event'[j] = e
          /\ \A k \in Ids \ {j} : event'[k] = event[k]
          /\ EnterDispatch(d, ragent[o], e, j)
      BY <3>1, CloneMinted DEF Vias
    <3> HIDE DEF e
    <3> QED BY <3>2, <3>3, DedupEnter
  <2> QED BY <1>8, <2>1, <2>2, <2>3 DEF Requeue
<1>9. CASE Recover
  <2>1. ASSUME NEW a \in Agents, NEW i \in Ids, RecoverMark(a, i) PROVE DedupParts'
    <3>1. \A j \in Ids : row'[j] = "absent" <=> row[j] = "absent"
      BY <2>1 DEF RecoverMark, MarkedRow, TypeInv, TypeOK
    <3>2. UNCHANGED <<event, dlq, aged, cache, tpc, tid, runs>>
      BY <2>1 DEF RecoverMark
    <3> QED BY <3>1, <3>2, <1>a, DedupFrame
  <2>2. ASSUME NEW d \in Tasks, NEW a \in Agents, NEW j \in Ids, RecoverPublish(d, a, j)
        PROVE  DedupParts'
    <3>1. recId \in Ids
      BY <2>2 DEF RecoverPublish, TypeInv, BusyHasId
    <3> QED BY <2>2, <3>1, CloneMinted, DedupEnter DEF RecoverPublish, Vias
  <2>3. CASE RecoverNext
    BY <1>7, <2>3 DEF RecoverNext
  <2> QED BY <1>9, <2>1, <2>2, <2>3 DEF Recover
<1>10. ASSUME NEW a \in Agents, Boot(a) \/ Stop(a) PROVE DedupParts'
  BY <1>7, <1>10 DEF Boot, StartSources, Attach, GoLive, Stop
<1>11. CASE Crash \/ Drained
  <2>1. \A x \in Tasks : Onward(x)
    BY <1>11, <1>a DEF Crash, Drained, LoseVolatile
  <2> QED BY <1>11, <2>1, DedupFrame DEF Crash, Drained, LoseVolatile
<1>12. CASE \/ \E a \in Agents, x \in Ids \cup Keys : Forget(a, x)
            \/ \E i \in Ids : WindowPasses(i)
            \/ UNCHANGED vars
  BY <1>7, <1>12 DEF Forget, WindowPasses, vars
<1>13. ASSUME NEW i \in Ids, Erase(i) PROVE FALSE
  BY <1>13 DEF Erase, TypeInv, TypeOK
<1>14. CASE Arrive
  BY <1>1, <1>2, <1>14 DEF Arrive
<1> QED BY <1>6, <1>8, <1>9, <1>10, <1>11, <1>12, <1>13, <1>14 DEF Next, Step

\* So does DedupInv, which asks nothing once a write failed or something was erased.
LEMMA DedupStep == TypeInv /\ DedupInv /\ [Next]_vars => DedupInv'
<1> SUFFICES ASSUME TypeInv, DedupInv, [Next]_vars, ~Overlap, Undisturbed'
             PROVE  DedupParts'
  BY DEF DedupInv
<1>1. faults = 0 /\ erasures = 0 /\ faults' = 0 /\ erasures' = 0
  BY FaultsGrow, ErasuresGrow DEF Undisturbed, TypeInv, TypeOK
<1> QED BY <1>1, StepDedup DEF DedupInv, Undisturbed

LEMMA InitDedup == Init => DedupInv
<1> SUFFICES ASSUME Init PROVE DedupParts
  BY DEF DedupInv
<1> QED BY DEF Init, DedupParts, OneInWindow, NewIsNew, MintedFirst, RowsDiffer, PastDiffer,
     PastHasRow, RunsCounted, FiledIsOver, Window, Past, Routing

\* Redeliveries, cache eviction, crashes, restarts and the boots of other agents
\* start no second turn for an event, or for its key within the dedup window, as
\* long as arrivals do not overlap in the dedup check (handleInternal: idempotency
\* cache and findDuplicate).
THEOREM RunsOnce == ASSUME ~Overlap PROVE Spec => []OneRunPerKey
<1>1. DedupInv => OneRunPerKey
  BY DEF DedupInv, DedupParts, RunsCounted, RowsDiffer, OneRunPerKey
<1> QED BY InitTyped, StepTyped, InitDedup, DedupStep, <1>1, PTL DEF Spec

-----------------------------------------------------------------------------
(* Final outcomes, and a DLQ that matches them                              *)

\* A dispatch knows the outcome its row holds, unless a boot swept the row up.
PastHasOutcome ==
  \A d \in Tasks : tid[d] \notin swept =>
    /\ tpc[d] \in Routing => row[tid[d]] = "pending"
    /\ tpc[d] = "rejecting" => Rejected(tid[d])
    /\ tpc[d] = "clearing" => row[tid[d]] = "done"
ListedIsPending == \A i \in worklist \ swept : row[i] = "pending"

\* A rejected row is listed, or about to be, or was requeued.
Listed(i) ==
  \/ dlq[i] > 0 \/ \E d \in Tasks : tpc[d] = "rejecting" /\ tid[d] = i
  \/ ClonesOf(i, "requeue") # {}
DlqMatches == \A i \in Ids \ swept : /\ dlq[i] > 0 => Rejected(i)
                                     /\ Rejected(i) /\ crashes = 0 => Listed(i)

\* The clone a requeue waits for has an outcome, or is on its way in a dispatch of
\* the agent whose socket the requeue came on.
Routed(d)  == tpc[d] \in Routing \cup {"new"}
Running(o) == \E d \in Tasks : Routed(d) /\ tid[d] = rclone[o] /\ tagent[d] = ragent[o]
CloneRuns(o) ==
  /\ rclone[o] \in ClonesOf(rid[o], "requeue")
  /\ phase[ragent[o]] # "stopping" => row[rclone[o]] \in Terminal \/ Running(o)
ClonesRun == \A o \in Operators : rpc[o] = "published" => CloneRuns(o)

LedgerParts == PastHasOutcome /\ ListedIsPending /\ DlqMatches /\ ClonesRun
LedgerInv   == ~Overlap /\ Undisturbed => LedgerParts

\* What a step may not do to outcomes and to DLQ rows.
Kept ==
  /\ \A i \in Ids \ swept' : row[i] \in Terminal => row'[i] = row[i]
  /\ \A i \in Ids : dlq[i] > 0 /\ dlq'[i] = 0 =>
       \E j \in ClonesOf(i, "requeue") : row[j] \in Terminal

\* What a step does to events, dispatches and requeues when it does little.
MintsOnly  == \A j \in Ids : event'[j] = event[j] \/ ~Minted(j)
Unmoved(d) == tpc'[d] = tpc[d] /\ tid'[d] = tid[d] /\ tagent'[d] = tagent[d]
Waits(d) ==
  \/ Unmoved(d)
  \/ tpc'[d] \in {"idle", "known", "new"}
  \/ tpc[d] = "recorded" /\ tpc'[d] = "turn" /\ tid'[d] = tid[d]
GoesOn(d) == Routed(d) =>
  \/ Routed(d)' /\ tid'[d] = tid[d] /\ tagent'[d] = tagent[d]
  \/ row'[tid[d]] \in Terminal
  \/ phase'[tagent[d]] = "stopping"
AsksOn(o) == rpc'[o] = "published" =>
  rpc[o] = "published" /\ rid'[o] = rid[o] /\ rclone'[o] = rclone[o] /\ ragent'[o] = ragent[o]

\* A clone stays one.
LEMMA ClonesStay ==
  ASSUME MintsOnly, NEW k, NEW via, via # "none"
  PROVE  \A j \in ClonesOf(k, via) : event'[j] = event[j] /\ j \in ClonesOf(k, via)'
BY DEF MintsOnly, ClonesOf, Minted, NoEvent

\* A requeue in progress finds its clone where it was, or settled.
LEMMA CloneGoesOn ==
  ASSUME TypeInv, ClonesRun, MintsOnly, NEW o \in Operators, rpc'[o] = "published", AsksOn(o),
         \A i \in Ids : row[i] \in Terminal => row'[i] \in Terminal,
         \A a \in Agents : phase'[a] # "stopping" => phase[a] # "stopping",
         \A d \in Tasks : GoesOn(d)
  PROVE  CloneRuns(o)'
<1>1. /\ CloneRuns(o) /\ rid'[o] = rid[o] /\ rclone'[o] = rclone[o] /\ ragent'[o] = ragent[o]
      /\ ragent[o] \in Agents
  BY DEF AsksOn, ClonesRun, TypeInv, BusyHasId
<1>2. rclone[o] \in Ids /\ (rclone[o] \in ClonesOf(rid[o], "requeue"))'
  <2>1. rclone[o] \in ClonesOf(rid[o], "requeue")
    BY <1>1 DEF CloneRuns
  <2>2. event'[rclone[o]] = event[rclone[o]]
    BY <2>1, ClonesStay
  <2> QED BY <1>1, <2>1, <2>2 DEF ClonesOf
<1>3. Running(o) /\ phase'[ragent[o]] # "stopping" =>
        (Running(o))' \/ row'[rclone[o]] \in Terminal
  BY <1>1 DEF Running, GoesOn
<1> QED BY <1>1, <1>2, <1>3 DEF CloneRuns

LEMMA ClonesGoOn ==
  ASSUME TypeInv, ClonesRun, MintsOnly, \A o \in Operators : AsksOn(o),
         \A i \in Ids : row[i] \in Terminal => row'[i] \in Terminal,
         \A a \in Agents : phase'[a] # "stopping" => phase[a] # "stopping",
         \A d \in Tasks : GoesOn(d)
  PROVE  ClonesRun'
BY CloneGoesOn DEF ClonesRun

\* Steps that write neither table.
LEMMA LedgerWaits ==
  ASSUME TypeInv, LedgerParts, UNCHANGED <<row, dlq>>, swept \subseteq swept', MintsOnly,
         \A i \in worklist' : i \in worklist \/ row[i] = "pending",
         \A d \in Tasks : Waits(d),
         crashes' = 0 => /\ crashes = 0
                         /\ \A d \in Tasks : tpc[d] = "rejecting" => Unmoved(d),
         ClonesRun'
  PROVE  LedgerParts' /\ Kept
<1> USE DEF LedgerParts
<1>1. PastHasOutcome'
  <2> SUFFICES ASSUME NEW d \in Tasks, tid'[d] \notin swept'
               PROVE  /\ tpc'[d] \in Routing => row[tid'[d]] = "pending"
                      /\ tpc'[d] = "rejecting" => row[tid'[d]] \in {"loop", "refused", "failed"}
                      /\ tpc'[d] = "clearing" => row[tid'[d]] = "done"
    BY DEF PastHasOutcome, Rejected
  <2> QED BY DEF PastHasOutcome, Rejected, Waits, Unmoved, Routing
<1>2. ListedIsPending'
  BY DEF ListedIsPending
<1>3. DlqMatches'
  <2> SUFFICES ASSUME NEW i \in Ids, i \notin swept'
               PROVE  /\ dlq[i] > 0 => Rejected(i)
                      /\ Rejected(i) /\ crashes' = 0 => Listed(i)'
    BY DEF DlqMatches, Rejected
  <2>1. /\ dlq[i] > 0 => Rejected(i)
        /\ Rejected(i) /\ crashes' = 0 => Listed(i)
    BY DEF DlqMatches
  <2>2. ClonesOf(i, "requeue") \subseteq ClonesOf(i, "requeue")'
    BY ClonesStay
  <2>3. Listed(i) /\ crashes' = 0 => Listed(i)'
    BY <2>2 DEF Listed, Unmoved
  <2> QED BY <2>1, <2>3
<1>4. Kept
  BY DEF Kept, TypeInv, TypeOK
<1> QED BY <1>1, <1>2, <1>3, <1>4

\* An event is minted, published again or taken in by a dispatch.
LEMMA LedgerEnter ==
  ASSUME TypeInv, LedgerParts, NEW d, NEW a, NEW e, NEW i,
         UNCHANGED <<row, dlq, worklist, swept, crashes, phase>>, MintsOnly,
         UNCHANGED tasks \/ (d \in Tasks /\ EnterDispatch(d, a, e, i))
  PROVE  /\ (\A o \in Operators : rpc'[o] = "published" => AsksOn(o) \/ CloneRuns(o)')
              => LedgerParts' /\ Kept
<1>1. \A x \in Tasks : Unmoved(x) \/ (tpc[x] = "idle" /\ tpc'[x] \in {"known", "new"})
  BY DEF EnterDispatch, tasks, Unmoved, TypeInv, TypeOK
<1>2. \A x \in Tasks : Waits(x) /\ GoesOn(x) /\ (tpc[x] = "rejecting" => Unmoved(x))
  BY <1>1 DEF Waits, GoesOn, Unmoved, Routed, Routing
<1>3. ASSUME \A o \in Operators : rpc'[o] = "published" => AsksOn(o) \/ CloneRuns(o)'
      PROVE  ClonesRun'
  BY <1>2, <1>3, CloneGoesOn DEF ClonesRun, LedgerParts
<1> QED BY <1>2, <1>3, LedgerWaits

\* A new event gets its row.
LEMMA LedgerRecord ==
  ASSUME TypeInv, DedupParts, LedgerParts, NEW d \in Tasks, Record(d), faults = 0, faults' = 0
  PROVE  LedgerParts' /\ Kept
<1> USE DEF LedgerParts
<1> DEFINE i == tid[d]
<1>1. tpc[d] = "new" /\ i \in Ids /\ row[i] = "absent" /\ ~(dlq[i] > 0)
  BY DEF Record, TypeInv, BusyHasId, DedupParts, NewIsNew, FiledIsOver
<1>2. /\ UNCHANGED <<event, dlq, tid, tagent, worklist, swept, crashes, phase, rpc, rid, rclone,
                     ragent>>
      /\ tpc' = [tpc EXCEPT ![d] = "recorded"] /\ row' = [row EXCEPT ![i] = "pending"]
  BY <1>1 DEF Record, WriteThrows, recovery, requeues
<1>3. /\ tpc'[d] = "recorded" /\ \A x \in Tasks \ {d} : tpc'[x] = tpc[x]
      /\ row'[i] = "pending" /\ \A j \in Ids \ {i} : row'[j] = row[j]
  BY <1>1, <1>2 DEF TypeInv, TypeOK
<1>4. \A x \in Tasks \ {d} : Past(x) => tid[x] \in Ids \ {i}
  BY <1>1 DEF DedupParts, PastHasRow, TypeInv, BusyHasId, Past, Routing
<1>5. PastHasOutcome'
  <2> SUFFICES ASSUME NEW x \in Tasks, tid[x] \notin swept
               PROVE  /\ tpc'[x] \in Routing => row'[tid[x]] = "pending"
                      /\ tpc'[x] = "rejecting" => row'[tid[x]] \in {"loop", "refused", "failed"}
                      /\ tpc'[x] = "clearing" => row'[tid[x]] = "done"
    BY <1>2 DEF PastHasOutcome, Rejected
  <2>1. CASE x = d
    BY <1>3, <2>1
  <2>2. CASE x # d
    <3>1. tpc'[x] = tpc[x] /\ (Past(x) => row'[tid[x]] = row[tid[x]])
      BY <1>3, <1>4, <2>2
    <3> QED BY <3>1 DEF PastHasOutcome, Past, Rejected
  <2> QED BY <2>1, <2>2
<1>6. ListedIsPending'
  BY <1>2, <1>3 DEF ListedIsPending, TypeInv, TypeOK
<1>7. DlqMatches'
  <2> SUFFICES ASSUME NEW k \in Ids, k \notin swept
               PROVE  /\ dlq[k] > 0 => Rejected(k)'
                      /\ Rejected(k)' /\ crashes = 0 => Listed(k)'
    BY <1>2 DEF DlqMatches
  <2>1. Rejected(k)' <=> Rejected(k)
    BY <1>1, <1>3 DEF Rejected
  <2>2. ClonesOf(k, "requeue")' = ClonesOf(k, "requeue")
    BY <1>2 DEF ClonesOf
  <2>3. Listed(k) => Listed(k)'
    BY <1>1, <1>2, <1>3, <2>2 DEF Listed
  <2> QED BY <2>1, <2>3 DEF DlqMatches
<1>8. ClonesRun'
  <2>1. \A x \in Tasks : GoesOn(x)
    BY <1>1, <1>2, <1>3 DEF GoesOn, Routed, Routing
  <2>2. \A j \in Ids : row[j] \in Terminal => row'[j] \in Terminal
    BY <1>1, <1>3 DEF Terminal, Rejections
  <2>3. MintsOnly /\ \A o \in Operators : AsksOn(o)
    BY <1>2 DEF MintsOnly, AsksOn
  <2> QED BY <1>2, <2>1, <2>2, <2>3, ClonesGoOn
<1>9. Kept
  BY <1>1, <1>2, <1>3 DEF Kept, Terminal, Rejections, TypeInv, TypeOK
<1> QED BY <1>5, <1>6, <1>7, <1>8, <1>9

\* A routed event gets its outcome.
LEMMA LedgerMark ==
  ASSUME TypeInv, RecoveryParts, DedupParts, LedgerParts, NEW d \in Tasks, tpc[d] \in Routing,
         NEW o \in {"loop", "refused", "failed", "done"}, row' = MarkedRow(tid[d], o),
         tpc' = [tpc EXCEPT ![d] = IF o = "done" THEN "clearing" ELSE "rejecting"],
         UNCHANGED <<event, dlq, tid, tagent, worklist, swept, crashes, phase, rpc, rid, rclone,
                     ragent>>
  PROVE  LedgerParts' /\ Kept
<1> USE DEF LedgerParts
<1> DEFINE i == tid[d]
<1>1. /\ i \in Ids /\ row[i] # "absent" /\ ~(dlq[i] > 0)
      /\ i \notin swept => row[i] = "pending" /\ i \notin worklist
  <2>1. Past(d) /\ i \in Ids
    BY DEF Past, Routing, TypeInv, BusyHasId
  <2>2. i \notin swept => row[i] = "pending" /\ i \notin worklist
    BY RoutedUnclaimed DEF Routing, PastHasOutcome, Claimed
  <2> QED BY <2>1, <2>2 DEF DedupParts, PastHasRow, FiledIsOver
<1>2. /\ tpc'[d] = (IF o = "done" THEN "clearing" ELSE "rejecting")
      /\ \A x \in Tasks \ {d} : tpc'[x] = tpc[x]
      /\ row'[i] = o /\ \A j \in Ids \ {i} : row'[j] = row[j]
  BY <1>1 DEF MarkedRow, TypeInv, TypeOK
<1>3. \A x \in Tasks \ {d} : Past(x) => tid[x] \in Ids \ {i}
  BY DEF DedupParts, PastDiffer, Past, TypeInv, BusyHasId, Routing
<1> HIDE DEF i
<1>4. PastHasOutcome'
  <2> SUFFICES ASSUME NEW x \in Tasks, tid[x] \notin swept
               PROVE  /\ tpc'[x] \in Routing => row'[tid[x]] = "pending"
                      /\ tpc'[x] = "rejecting" => row'[tid[x]] \in {"loop", "refused", "failed"}
                      /\ tpc'[x] = "clearing" => row'[tid[x]] = "done"
    BY DEF PastHasOutcome, Rejected
  <2>1. CASE x = d
    BY <1>2, <2>1 DEF i, Routing
  <2>2. CASE x # d
    <3>1. tpc'[x] = tpc[x] /\ (Past(x) => row'[tid[x]] = row[tid[x]])
      BY <1>2, <1>3, <2>2
    <3> QED BY <3>1 DEF PastHasOutcome, Past, Rejected
  <2> QED BY <2>1, <2>2
<1>5. ListedIsPending'
  BY <1>1, <1>2 DEF ListedIsPending, TypeInv, TypeOK
<1>6. DlqMatches'
  <2> SUFFICES ASSUME NEW k \in Ids, k \notin swept
               PROVE  /\ dlq[k] > 0 => Rejected(k)'
                      /\ Rejected(k)' /\ crashes = 0 => Listed(k)'
    BY DEF DlqMatches
  <2>1. ClonesOf(k, "requeue")' = ClonesOf(k, "requeue")
    BY DEF ClonesOf
  <2>2. CASE k = i
    BY <1>1, <1>2, <2>2 DEF Rejected, Listed, i
  <2>3. CASE k # i
    <3>1. Rejected(k)' <=> Rejected(k)
      BY <1>2, <2>3 DEF Rejected
    <3>2. Listed(k) => Listed(k)'
      BY <1>2, <2>1, <2>3 DEF Listed, Routing, i
    <3> QED BY <3>1, <3>2 DEF DlqMatches
  <2> QED BY <2>2, <2>3
<1>7. ClonesRun'
  <2>1. \A x \in Tasks : GoesOn(x)
    BY <1>2 DEF GoesOn, Routed, Terminal, Rejections, i
  <2>2. \A j \in Ids : row[j] \in Terminal => row'[j] \in Terminal
    BY <1>2 DEF Terminal, Rejections
  <2>3. MintsOnly /\ \A p \in Operators : AsksOn(p)
    BY DEF MintsOnly, AsksOn
  <2> QED BY <2>1, <2>2, <2>3, ClonesGoOn
<1>8. Kept
  BY <1>1, <1>2 DEF Kept, Terminal, Rejections, TypeInv, TypeOK
<1> QED BY <1>4, <1>5, <1>6, <1>7, <1>8

\* Recovery claims a pending row that no dispatch holds, or one swept up.
LEMMA LedgerRecoverMark ==
  ASSUME TypeInv, RecoveryParts, LedgerParts, NEW a, NEW i \in Ids, RecoverMark(a, i),
         faults = 0, faults' = 0
  PROVE  LedgerParts' /\ Kept
<1> USE DEF LedgerParts
<1>1. /\ i \in worklist /\ row[i] # "absent"
      /\ i \notin swept => row[i] = "pending" /\ Quiet(i)
  BY DEF RecoverMark, ListedIsPending, RecoveryParts, ListedHasRow, ClaimedIsQuiet, Claimed
<1>2. /\ UNCHANGED <<event, dlq, tpc, tid, tagent, swept, crashes, phase, rpc, rid, rclone, ragent>>
      /\ worklist' = worklist \ {i} /\ row' = [row EXCEPT ![i] = "interrupted"]
  BY <1>1 DEF RecoverMark, WriteThrows, MarkedRow, tasks, requeues
<1>3. row'[i] = "interrupted" /\ \A j \in Ids \ {i} : row'[j] = row[j]
  BY <1>2 DEF TypeInv, TypeOK
<1>4. PastHasOutcome'
  <2> SUFFICES ASSUME NEW x \in Tasks, tid[x] \notin swept
               PROVE  /\ tpc[x] \in Routing => row'[tid[x]] = "pending"
                      /\ tpc[x] = "rejecting" => row'[tid[x]] \in {"loop", "refused", "failed"}
                      /\ tpc[x] = "clearing" => row'[tid[x]] = "done"
    BY <1>2 DEF PastHasOutcome, Rejected
  <2>1. Past(x) => row'[tid[x]] = row[tid[x]]
    BY <1>1, <1>3 DEF TypeInv, BusyHasId, Past, Routing, Quiet
  <2> QED BY <2>1 DEF PastHasOutcome, Past, Rejected
<1>5. ListedIsPending'
  BY <1>2, <1>3 DEF ListedIsPending, TypeInv, TypeOK
<1>6. DlqMatches'
  <2> SUFFICES ASSUME NEW k \in Ids, k \notin swept
               PROVE  /\ dlq[k] > 0 => Rejected(k)'
                      /\ Rejected(k)' /\ crashes = 0 => Listed(k)'
    BY <1>2 DEF DlqMatches
  <2>1. Rejected(k)' <=> Rejected(k)
    BY <1>1, <1>3 DEF Rejected
  <2>2. Listed(k) => Listed(k)'
    BY <1>2 DEF Listed, ClonesOf
  <2> QED BY <2>1, <2>2 DEF DlqMatches
<1>7. ClonesRun'
  <2>1. \A x \in Tasks : GoesOn(x)
    BY <1>2 DEF GoesOn, Routed
  <2>2. \A j \in Ids : row[j] \in Terminal => row'[j] \in Terminal
    BY <1>3 DEF Terminal, Rejections
  <2>3. MintsOnly /\ \A p \in Operators : AsksOn(p)
    BY <1>2 DEF MintsOnly, AsksOn
  <2> QED BY <1>2, <2>1, <2>2, <2>3, ClonesGoOn
<1>8. Kept
  BY <1>1, <1>2, <1>3 DEF Kept, Terminal, Rejections, TypeInv, TypeOK
<1> QED BY <1>4, <1>5, <1>6, <1>7, <1>8

\* A dispatch files what its row says and ends.
LEMMA LedgerFile ==
  ASSUME TypeInv, DedupParts, LedgerParts, NEW d \in Tasks, FileOutcome(d), faults = 0, faults' = 0
  PROVE  LedgerParts' /\ Kept
<1> USE DEF LedgerParts
<1> DEFINE i == tid[d]
<1>1. /\ tpc[d] \in {"rejecting", "clearing"} /\ i \in Ids /\ dlq[i] = 0
      /\ tpc[d] = "rejecting" /\ i \notin swept => Rejected(i)
      /\ tpc[d] = "clearing" /\ i \notin swept => row[i] = "done"
  BY DEF FileOutcome, TypeInv, TypeOK, BusyHasId, PastHasOutcome, DedupParts, FiledIsOver, Past
<1>2. /\ UNCHANGED <<event, row, worklist, swept, crashes, phase, rpc, rid, rclone, ragent>>
      /\ dlq' = [dlq EXCEPT ![i] = IF tpc[d] = "rejecting" THEN @ + 1 ELSE 0]
      /\ EndTask(d)
  BY DEF FileOutcome, WriteThrows, recovery, requeues
<1>3. tpc'[d] = "idle" /\ \A x \in Tasks \ {d} : Unmoved(x)
  BY <1>2 DEF EndTask, Unmoved, TypeInv, TypeOK
<1>4. /\ tpc[d] = "rejecting" => dlq'[i] > 0
      /\ tpc[d] = "clearing" => dlq'[i] = 0
      /\ \A k \in Ids \ {i} : dlq'[k] = dlq[k]
  BY <1>1, <1>2 DEF TypeInv, TypeOK
<1>5. PastHasOutcome' /\ ListedIsPending'
  BY <1>2, <1>3 DEF PastHasOutcome, ListedIsPending, Routing, Rejected, Unmoved
<1> HIDE DEF i
<1>6. DlqMatches'
  <2> SUFFICES ASSUME NEW k \in Ids, k \notin swept
               PROVE  /\ dlq'[k] > 0 => Rejected(k)
                      /\ Rejected(k) /\ crashes = 0 => Listed(k)'
    BY <1>2 DEF DlqMatches, Rejected
  <2>1. CASE k = i
    BY <1>1, <1>4, <2>1 DEF Rejected, Listed
  <2>2. CASE k # i
    <3>1. Listed(k) => Listed(k)'
      BY <1>2, <1>3, <1>4, <2>2 DEF Listed, ClonesOf, Unmoved, i
    <3> QED BY <1>4, <2>2, <3>1 DEF DlqMatches
  <2> QED BY <2>1, <2>2
<1>7. ClonesRun'
  <2>1. \A x \in Tasks : GoesOn(x)
    BY <1>1, <1>3 DEF GoesOn, Routed, Routing, Unmoved
  <2>2. MintsOnly /\ \A p \in Operators : AsksOn(p)
    BY <1>2 DEF MintsOnly, AsksOn
  <2> QED BY <1>2, <2>1, <2>2, ClonesGoOn
<1>8. Kept
  BY <1>1, <1>2, <1>4 DEF Kept
<1> QED BY <1>5, <1>6, <1>7, <1>8

\* A requeue acknowledges the DLQ row when its clone has an outcome.
LEMMA LedgerAck ==
  ASSUME TypeInv, LedgerParts, NEW o \in Operators, RequeueAck(o), faults = 0, faults' = 0
  PROVE  LedgerParts' /\ Kept
<1> USE DEF LedgerParts
<1> DEFINE i == rid[o]
<1>1. /\ rpc[o] = "published" /\ ~InFlight(rclone[o]) /\ phase[ragent[o]] # "stopping" /\ i \in Ids
      /\ dlq' = [dlq EXCEPT ![i] = 0] /\ EndRequeue(o)
      /\ UNCHANGED <<event, row, tpc, tid, tagent, worklist, swept, crashes, phase>>
  BY DEF RequeueAck, WriteWorks, WriteThrows, TypeInv, BusyHasId, tasks, recovery
<1>2. rclone[o] \in ClonesOf(i, "requeue") /\ row[rclone[o]] \in Terminal
  <2>1. CloneRuns(o) /\ ~Running(o)
    BY <1>1 DEF ClonesRun, Running, Routed, InFlight, Routing
  <2> QED BY <1>1, <2>1 DEF CloneRuns
<1>3. MintsOnly /\ (\A p \in Operators : AsksOn(p)) /\ \A x \in Tasks : GoesOn(x)
  BY <1>1 DEF MintsOnly, AsksOn, EndRequeue, GoesOn, Routed, TypeInv, TypeOK
<1>4. dlq'[i] = 0 /\ \A k \in Ids \ {i} : dlq'[k] = dlq[k]
  BY <1>1 DEF TypeInv, TypeOK
<1>5. PastHasOutcome' /\ ListedIsPending'
  BY <1>1 DEF PastHasOutcome, ListedIsPending, Rejected
<1> HIDE DEF i
<1>6. DlqMatches'
  <2> SUFFICES ASSUME NEW k \in Ids, k \notin swept
               PROVE  /\ dlq'[k] > 0 => Rejected(k)
                      /\ Rejected(k) /\ crashes = 0 => Listed(k)'
    BY <1>1 DEF DlqMatches, Rejected
  <2>1. CASE k = i
    BY <1>1, <1>2, <1>4, <2>1 DEF Listed, ClonesOf
  <2>2. CASE k # i
    BY <1>1, <1>4, <2>2 DEF DlqMatches, Listed, ClonesOf
  <2> QED BY <2>1, <2>2
<1>7. ClonesRun'
  BY <1>1, <1>3, ClonesGoOn
<1>8. Kept
  BY <1>1, <1>2, <1>4 DEF Kept
<1> QED BY <1>5, <1>6, <1>7, <1>8

\* A requeue's clone is unknown to cache and store, so its dispatch routes it.
LEMMA LedgerRequeue ==
  ASSUME TypeInv, DedupParts, LedgerParts, NEW o \in Operators, NEW d \in Tasks,
         NEW j \in Ids, RequeuePublish(o, d, j)
  PROVE  LedgerParts' /\ Kept
<1> DEFINE e == CloneOf(rid[o], "requeue")
<1>1. /\ rpc[o] = "found" /\ rid[o] \in Ids /\ ragent[o] \in Agents
      /\ PublishClone(d, ragent[o], rid[o], j, "requeue")
      /\ rclone' = [rclone EXCEPT ![o] = j] /\ rpc' = [rpc EXCEPT ![o] = "published"]
      /\ UNCHANGED <<row, dlq, cache, phase, worklist, swept, rid, ragent, crashes>>
  BY DEF RequeuePublish, store, recovery, budget, TypeInv, BusyHasId
<1>2. /\ ~Minted(j) /\ event'[j] = e /\ \A k \in Ids \ {j} : event'[k] = event[k]
      /\ EnterDispatch(d, ragent[o], e, j)
  BY <1>1, CloneMinted DEF Vias
<1>3. tpc'[d] = "new" /\ tid'[d] = j /\ tagent'[d] = ragent[o]
  <2>1. e.key = NoKey
    BY DEF CloneOf
  <2>2. row[j] = "absent" /\ <<ragent[o], j>> \notin cache
    BY <1>1, <1>2 DEF DedupParts, MintedFirst
  <2>3. <<ragent[o], NoKey>> \notin cache
    BY ConstantsAssumption DEF TypeInv, TypeOK
  <2>4. ~Cached(ragent[o], e, j) /\ ~StoredDuplicate(e, j)
    BY <2>1, <2>2, <2>3 DEF Cached, StoredDuplicate
  <2> QED BY <1>2, <2>4 DEF EnterDispatch, TypeInv, TypeOK
<1>4. e.causedBy = rid[o] /\ e.via = "requeue"
  BY DEF CloneOf
<1> HIDE DEF e
<1>5. MintsOnly
  BY <1>2 DEF MintsOnly
<1>6. ASSUME NEW p \in Operators, rpc'[p] = "published" PROVE AsksOn(p) \/ CloneRuns(p)'
  <2>1. CASE p = o
    <3>1. rclone'[o] = j /\ rid'[o] = rid[o] /\ ragent'[o] = ragent[o]
      BY <1>1 DEF TypeInv, TypeOK
    <3>2. (rclone[o] \in ClonesOf(rid[o], "requeue"))'
      BY <1>2, <1>4, <3>1 DEF ClonesOf
    <3>3. (Running(o))'
      BY <1>3, <3>1 DEF Running, Routed
    <3> QED BY <2>1, <3>2, <3>3 DEF CloneRuns
  <2>2. CASE p # o
    BY <1>1, <2>2, <1>6 DEF AsksOn, TypeInv, TypeOK
  <2> QED BY <2>1, <2>2
<1> QED BY <1>1, <1>2, <1>5, <1>6, LedgerEnter

\* Only a boot sweeps rows up.
LEMMA WhoSweeps ==
  ASSUME TypeInv, [Next]_vars PROVE swept' = swept \/ \E a \in Agents : Attach(a)
<1> USE DEF recovery
<1>1. CASE Arrive
  BY <1>1 DEF Arrive, Deliver, Redeliver, PublishUnheard
<1>2. ASSUME NEW d \in Tasks, Dispatch(d)
      PROVE  swept' = swept
  BY <1>2 DEF Dispatch, DropDuplicate, Record, LoopCheckThrows, ShortCircuit,
              StartTurn, Settle, FileOutcome
<1>3. ASSUME NEW o \in Operators, Requeue(o)
      PROVE  swept' = swept
  BY <1>3 DEF Requeue, RequeueLookup, RequeueMiss, RequeuePublish, RequeueAck
<1>4. CASE Recover
  BY <1>4 DEF Recover, RecoverMark, RecoverPublish, RecoverNext
<1>5. ASSUME NEW a \in Agents, Boot(a) \/ Stop(a)
      PROVE  swept' = swept \/ Attach(a)
  BY <1>5 DEF Boot, StartSources, Attach, GoLive, Stop
<1>6. CASE \/ \E a \in Agents, x \in Ids \cup Keys : Forget(a, x)
           \/ \E i \in Ids : Erase(i) \/ WindowPasses(i)
  BY <1>6 DEF Forget, Erase, WindowPasses
<1>7. CASE Crash \/ Drained \/ UNCHANGED vars
  BY <1>7 DEF Crash, Drained, LoseVolatile, vars
<1> QED
  BY <1>1, <1>2, <1>3, <1>4, <1>5, <1>6, <1>7 DEF Next, Step

LEMMA SweptGrows ==
  ASSUME TypeInv, [Next]_vars PROVE swept \subseteq swept'
<1>1. ASSUME NEW a \in Agents, Attach(a) PROVE swept \subseteq swept'
  BY <1>1 DEF Attach
<1>2. CASE swept' = swept
  BY <1>2
<1> QED BY <1>1, <1>2, WhoSweeps

\* Every step keeps the parts until a write fails or something is erased.
LEMMA StepLedger ==
  ASSUME TypeInv, RecoveryParts, DedupParts, LedgerParts, [Next]_vars,
         faults = 0, faults' = 0, erasures' = 0
  PROVE  LedgerParts' /\ Kept
<1> USE DEF store, tasks, recovery, requeues, budget
<1>1. CASE Arrive
  <2>1. ASSUME NEW i \in Arrivals, NEW e \in Publishable, NEW d, NEW a,
               (d \in Tasks /\ Deliver(d, a, i, e)) \/ PublishUnheard(i, e)
        PROVE  LedgerParts' /\ Kept
    <3>1. i \in Ids /\ ~Minted(i)
      BY <2>1 DEF Deliver, PublishUnheard, FreshIds
    <3>2. MintsOnly
      BY <2>1, <3>1 DEF Deliver, PublishUnheard, MintsOnly, TypeInv, TypeOK
    <3> QED BY <2>1, <3>2, LedgerEnter DEF Deliver, PublishUnheard, AsksOn
  <2>2. ASSUME NEW d \in Tasks, NEW a \in Agents, NEW i \in Arrivals, Redeliver(d, a, i)
        PROVE  LedgerParts' /\ Kept
    BY <2>2, LedgerEnter DEF Redeliver, MintsOnly, AsksOn
  <2> QED BY <1>1, <2>1, <2>2 DEF Arrive
<1>2. ASSUME NEW d \in Tasks, DropDuplicate(d) \/ LoopCheckThrows(d) \/ StartTurn(d)
      PROVE  LedgerParts' /\ Kept
  <2>1. /\ UNCHANGED <<event, row, dlq, worklist, swept, crashes, phase, rpc, rid, rclone, ragent>>
        /\ \A x \in Tasks \ {d} : Unmoved(x)
        /\ \/ tpc[d] = "known" /\ tpc'[d] = "idle"
           \/ tpc[d] = "recorded" /\ phase[tagent[d]] = "stopping" /\ tpc'[d] = "idle"
           \/ tpc[d] = "recorded" /\ tpc'[d] = "turn" /\ tid' = tid /\ tagent' = tagent
    BY <1>2 DEF DropDuplicate, LoopCheckThrows, StartTurn, EndTask, Unmoved, TypeInv, TypeOK
  <2>2. \A x \in Tasks : Waits(x) /\ GoesOn(x) /\ (tpc[x] = "rejecting" => Unmoved(x))
    BY <2>1 DEF Waits, GoesOn, Unmoved, Routed, Routing
  <2>3. MintsOnly /\ \A o \in Operators : AsksOn(o)
    BY <2>1 DEF MintsOnly, AsksOn
  <2>4. ClonesRun'
    BY <2>1, <2>2, <2>3, ClonesGoOn DEF LedgerParts
  <2> QED BY <2>1, <2>2, <2>3, <2>4, LedgerWaits
<1>3. ASSUME NEW d \in Tasks, NEW o \in {"loop", "refused"}, ShortCircuit(d, o)
      PROVE  LedgerParts' /\ Kept
  <2>1. /\ tpc[d] \in Routing /\ row' = MarkedRow(tid[d], o)
        /\ tpc' = [tpc EXCEPT ![d] = IF o = "done" THEN "clearing" ELSE "rejecting"]
        /\ UNCHANGED <<event, dlq, tid, tagent, worklist, swept, crashes, phase, rpc, rid, rclone,
                       ragent>>
    BY <1>3 DEF ShortCircuit, WriteThrows, Routing
  <2>2. o \in {"loop", "refused", "failed", "done"}
    OBVIOUS
  <2> QED BY <2>1, <2>2, LedgerMark
<1>4. ASSUME NEW d \in Tasks, NEW o \in {"done", "failed", "refused"}, Settle(d, o)
      PROVE  LedgerParts' /\ Kept
  <2>1. /\ tpc[d] \in Routing /\ row' = MarkedRow(tid[d], o)
        /\ tpc' = [tpc EXCEPT ![d] = IF o = "done" THEN "clearing" ELSE "rejecting"]
        /\ UNCHANGED <<event, dlq, tid, tagent, worklist, swept, crashes, phase, rpc, rid, rclone,
                       ragent>>
    BY <1>4 DEF Settle, WriteThrows, Routing
  <2>2. o \in {"loop", "refused", "failed", "done"}
    OBVIOUS
  <2> QED BY <2>1, <2>2, LedgerMark
<1>5. ASSUME NEW d \in Tasks, Dispatch(d)
      PROVE  LedgerParts' /\ Kept
  BY <1>2, <1>3, <1>4, <1>5, LedgerRecord, LedgerFile DEF Dispatch
<1>6. ASSUME UNCHANGED <<event, row, dlq, tasks, crashes>>, swept \subseteq swept',
             \A i \in worklist' : i \in worklist \/ row[i] = "pending",
             \A o \in Operators : AsksOn(o),
             \A a \in Agents : phase'[a] # "stopping" => phase[a] # "stopping"
      PROVE  LedgerParts' /\ Kept
  <2>1. \A x \in Tasks : Waits(x) /\ GoesOn(x) /\ Unmoved(x)
    BY <1>6 DEF Waits, GoesOn, Unmoved, Routed
  <2>2. MintsOnly
    BY <1>6 DEF MintsOnly
  <2>3. ClonesRun'
    BY <1>6, <2>1, <2>2, ClonesGoOn DEF LedgerParts
  <2> QED BY <1>6, <2>1, <2>2, <2>3, LedgerWaits
<1>7. ASSUME NEW o \in Operators, Requeue(o)
      PROVE  LedgerParts' /\ Kept
  <2>1. CASE (\E a \in Agents, i \in Ids : RequeueLookup(o, a, i)) \/ RequeueMiss(o)
    <3>1. \A p \in Operators : AsksOn(p)
      BY <2>1 DEF RequeueLookup, RequeueMiss, EndRequeue, AsksOn, TypeInv, TypeOK
    <3> QED BY <1>6, <2>1, <3>1 DEF RequeueLookup, RequeueMiss
  <2> QED BY <1>7, <2>1, LedgerRequeue, LedgerAck DEF Requeue
<1>8. CASE RecoverNext
  BY <1>6, <1>8 DEF RecoverNext, AsksOn
<1>9. ASSUME NEW a \in Agents, Boot(a) \/ Stop(a)
      PROVE  LedgerParts' /\ Kept
  <2>1. CASE Boot(a)
    <3>1. \A b \in Agents : phase'[b] # "stopping" => phase[b] # "stopping"
      BY <2>1 DEF Boot, StartSources, Attach, GoLive, PhaseOf, TypeInv, TypeOK
    <3>2. \A i \in worklist' : i \in worklist \/ row[i] = "pending"
      BY <2>1 DEF Boot, StartSources, Attach, GoLive, PendingRows
    <3>3. \A o \in Operators : AsksOn(o)
      BY <2>1 DEF Boot, StartSources, Attach, GoLive, AsksOn
    <3> QED BY <1>6, <2>1, <3>1, <3>2, <3>3, SweptGrows DEF Boot, StartSources, Attach, GoLive
  <2>2. CASE Stop(a)
    <3>1. \A b \in Agents : phase'[b] # "stopping" => phase[b] # "stopping"
      BY <2>2 DEF Stop, PhaseOf, TypeInv, TypeOK
    <3>2. \A x \in Tasks : Waits(x) /\ GoesOn(x) /\ Unmoved(x)
      BY <2>2 DEF Stop, Waits, GoesOn, Unmoved, Routed
    <3>3. MintsOnly /\ \A o \in Operators : AsksOn(o)
      BY <2>2 DEF Stop, MintsOnly, AsksOn
    <3>4. ClonesRun'
      BY <2>2, <3>1, <3>2, <3>3, ClonesGoOn DEF LedgerParts, Stop
    <3>5. crashes' = 0 => crashes = 0
      BY <2>2 DEF Stop, TypeInv, TypeOK
    <3> QED BY <2>2, <3>2, <3>3, <3>4, <3>5, LedgerWaits DEF Stop
  <2> QED BY <1>9, <2>1, <2>2
<1>10. CASE Crash \/ Drained
  <2>1. (\A d \in Tasks : tpc'[d] = "idle") /\ (\A o \in Operators : rpc'[o] = "idle")
    BY <1>10 DEF Crash, Drained, LoseVolatile
  <2>2. UNCHANGED <<event, row, dlq, swept>> /\ worklist' = {}
    BY <1>10 DEF Crash, Drained, LoseVolatile
  <2>3. crashes' = 0 => crashes = 0 /\ \A d \in Tasks : tpc[d] # "rejecting"
    BY <1>10 DEF Crash, Drained, TypeInv, TypeOK
  <2>4. MintsOnly /\ ClonesRun' /\ \A d \in Tasks : Waits(d)
    BY <2>1, <2>2 DEF MintsOnly, ClonesRun, Waits
  <2> QED BY <2>2, <2>3, <2>4, LedgerWaits
<1>11. ASSUME NEW d \in Tasks, NEW a \in Agents, NEW j \in Ids, RecoverPublish(d, a, j)
       PROVE  LedgerParts' /\ Kept
  <2>1. recId \in Ids /\ PublishClone(d, a, recId, j, "recovery")
    BY <1>11 DEF RecoverPublish, TypeInv, BusyHasId
  <2>2. /\ MintsOnly
        /\ EnterDispatch(d, a, CloneOf(recId, "recovery"), j)
    BY <2>1, CloneMinted DEF Vias, MintsOnly
  <2> QED BY <1>11, <2>2, LedgerEnter DEF RecoverPublish, AsksOn
<1>12. CASE Recover
  BY <1>8, <1>11, <1>12, LedgerRecoverMark DEF Recover
<1>13. CASE \/ \E a \in Agents, x \in Ids \cup Keys : Forget(a, x)
            \/ \E i \in Ids : WindowPasses(i)
            \/ UNCHANGED vars
  BY <1>6, <1>13 DEF Forget, WindowPasses, vars, AsksOn
<1>14. ASSUME NEW i \in Ids, Erase(i) PROVE FALSE
  BY <1>14 DEF Erase, TypeInv, TypeOK
<1> QED BY <1>1, <1>5, <1>7, <1>9, <1>10, <1>12, <1>13, <1>14 DEF Next, Step

LEMMA InitLedger == Init => LedgerInv
<1> SUFFICES ASSUME Init PROVE LedgerParts
  BY DEF LedgerInv
<1> QED BY DEF Init, LedgerParts, PastHasOutcome, ListedIsPending, DlqMatches, ClonesRun, Routing,
     Rejected

\* What every step knows of the outcomes while nothing fails and nothing is erased.
LEMMA UndisturbedStep ==
  ASSUME TypeInv, RecoveryInv, DedupInv, LedgerInv, [Next]_vars, ~Overlap, Undisturbed'
  PROVE  LedgerParts' /\ Kept
<1>1. faults = 0 /\ erasures = 0 /\ faults' = 0 /\ erasures' = 0
  BY FaultsGrow, ErasuresGrow DEF Undisturbed, TypeInv, TypeOK
<1>2. RecoveryParts /\ DedupParts /\ LedgerParts
  BY <1>1 DEF RecoveryInv, DedupInv, LedgerInv, Undisturbed
<1> QED BY <1>1, <1>2, StepLedger

LedgerSound == TypeInv /\ RecoveryInv /\ DedupInv /\ LedgerInv

LEMMA LedgerSoundStep == LedgerSound /\ [Next]_vars => LedgerSound'
<1> SUFFICES ASSUME LedgerSound, [Next]_vars PROVE LedgerSound'
  OBVIOUS
<1>1. ~Overlap /\ Undisturbed' => LedgerParts'
  BY UndisturbedStep DEF LedgerSound
<1>2. LedgerInv'
  BY <1>1 DEF LedgerInv
<1> QED BY <1>2, StepTyped, RecoveryStep, DedupStep DEF LedgerSound

LEMMA LedgerAlways == Spec => []LedgerSound
<1>1. Init => LedgerSound
  BY InitTyped, InitRecovery, InitDedup, InitLedger DEF LedgerSound
<1> QED BY <1>1, LedgerSoundStep, PTL DEF Spec

\* The DLQ lists the rejected events, no others, and loses one only to a crash
\* between the two writes (dispatcher.ts step 5, dlq.ts requeue), in a fleet for
\* every row that no later agent's boot swept up in flight.
THEOREM DlqAgrees == ASSUME ~Overlap PROVE Spec => []DlqIsRejected
<1>1. LedgerSound => DlqIsRejected
  <2> SUFFICES ASSUME LedgerSound, Undisturbed, NEW i \in Ids, i \notin swept
               PROVE  /\ dlq[i] > 0 => Rejected(i)
                      /\ Rejected(i) /\ crashes = 0 =>
                           dlq[i] > 0 \/ InFlight(i) \/ ClonesOf(i, "requeue") # {}
    BY DEF DlqIsRejected
  <2>1. DlqMatches
    BY DEF LedgerSound, LedgerInv, LedgerParts
  <2>2. Listed(i) => dlq[i] > 0 \/ InFlight(i) \/ ClonesOf(i, "requeue") # {}
    BY DEF Listed, InFlight
  <2> QED BY <2>1, <2>2 DEF DlqMatches
<1> QED BY <1>1, LedgerAlways, PTL

\* No redelivery, requeue, recovery or late settlement rewrites an outcome
\* (markOutcome is an unconditional UPDATE), in a fleet for every row that no later
\* agent's boot swept up in flight.
THEOREM OutcomesStay == ASSUME ~Overlap PROVE Spec => OutcomeIsFinal
<1> DEFINE Final == Undisturbed' =>
             \A i \in Ids \ swept' : row[i] \in Terminal => row'[i] = row[i]
<1>1. ASSUME LedgerSound, [Next]_vars PROVE Final
  <2>1. Undisturbed' => Kept
    BY <1>1, UndisturbedStep DEF LedgerSound
  <2> QED BY <2>1 DEF Kept
<1> QED BY <1>1, LedgerAlways, PTL DEF Spec, OutcomeIsFinal

\* A DLQ row is acknowledged only once a clone of its event has an outcome, over
\* any number of concurrent requeues (dlq.ts: deleteRejection happens after the
\* re-dispatch).
THEOREM RequeueRuns == ASSUME ~Overlap PROVE Spec => RequeueRunsBeforeAck
<1> DEFINE Ran == Undisturbed' => \A i \in Ids : dlq[i] > 0 /\ dlq'[i] = 0 =>
       \E j \in ClonesOf(i, "requeue") : row[j] \in Terminal
<1>1. ASSUME LedgerSound, [Next]_vars PROVE Ran
  <2>1. Undisturbed' => Kept
    BY <1>1, UndisturbedStep DEF LedgerSound
  <2> QED BY <2>1 DEF Kept
<1> QED BY <1>1, LedgerAlways, PTL DEF Spec, RequeueRunsBeforeAck

-----------------------------------------------------------------------------
(* EventDispatch implements EventLedger                                     *)

\* An operator's event is rejected for as long as the requeue of it lasts.
AskedIsRejected == \A o \in Operators : rpc[o] # "idle" => Rejected(rid[o])
AskedInv        == ~Overlap /\ Undisturbed /\ Unswept => AskedIsRejected

\* An operator waits for the event it asked for, or has just found one.
LEMMA WhoIsAsked ==
  ASSUME TypeInv, [Next]_vars, NEW o \in Operators, rpc'[o] # "idle"
  PROVE  \/ rpc[o] # "idle" /\ rid'[o] = rid[o]
         \/ dlq[rid'[o]] > 0 /\ rid'[o] \in Ids /\ row' = row
<1> USE DEF TypeInv, TypeOK, requeues
<1>1. CASE UNCHANGED <<rpc, rid>>
  BY <1>1
<1>2. CASE Arrive
  BY <1>1, <1>2 DEF Arrive, Deliver, Redeliver, PublishUnheard
<1>3. ASSUME NEW d \in Tasks, Dispatch(d) PROVE UNCHANGED <<rpc, rid>>
  BY <1>3 DEF Dispatch, DropDuplicate, Record, LoopCheckThrows, ShortCircuit, StartTurn,
              Settle, FileOutcome
<1>4. ASSUME NEW p \in Operators, Requeue(p)
      PROVE  \/ rpc[o] # "idle" /\ rid'[o] = rid[o]
             \/ dlq[rid'[o]] > 0 /\ rid'[o] \in Ids /\ row' = row
  <2>1. CASE \E a \in Agents, i \in Ids : RequeueLookup(p, a, i)
    BY <2>1 DEF RequeueLookup, store
  <2>2. CASE RequeueMiss(p) \/ RequeueAck(p)
    BY <2>2 DEF RequeueMiss, RequeueAck, EndRequeue
  <2>3. CASE \E d \in Tasks, j \in Ids : RequeuePublish(p, d, j)
    BY <2>3 DEF RequeuePublish
  <2> QED BY <1>4, <2>1, <2>2, <2>3 DEF Requeue
<1>5. CASE Recover
  BY <1>1, <1>5 DEF Recover, RecoverMark, RecoverPublish, RecoverNext
<1>6. ASSUME NEW a \in Agents, Boot(a) \/ Stop(a) PROVE UNCHANGED <<rpc, rid>>
  BY <1>6 DEF Boot, StartSources, Attach, GoLive, Stop
<1>7. CASE Crash \/ Drained
  BY <1>7 DEF Crash, Drained, LoseVolatile
<1>8. CASE \/ \E a \in Agents, x \in Ids \cup Keys : Forget(a, x)
           \/ \E i \in Ids : Erase(i) \/ WindowPasses(i)
           \/ UNCHANGED vars
  BY <1>1, <1>8 DEF Forget, Erase, WindowPasses, vars
<1> QED
  BY <1>1, <1>2, <1>3, <1>4, <1>5, <1>6, <1>7, <1>8 DEF Next, Step

\* What was true before a step that leaves all well.
LEMMA WellBefore ==
  ASSUME TypeInv, [Next]_vars, Undisturbed', Unswept'
  PROVE  /\ faults = 0 /\ erasures = 0 /\ faults' = 0 /\ erasures' = 0
         /\ Undisturbed /\ Unswept
BY FaultsGrow, ErasuresGrow, SweptGrows DEF Undisturbed, Unswept, TypeInv, TypeOK

LEMMA StepAsked == ASSUME LedgerSound, AskedInv, [Next]_vars PROVE AskedInv'
<1> SUFFICES ASSUME ~Overlap, Undisturbed', Unswept' PROVE AskedIsRejected'
  BY DEF AskedInv
<1>1. TypeInv /\ Undisturbed /\ Unswept
  BY WellBefore DEF LedgerSound
<1>2. LedgerParts /\ AskedIsRejected
  BY <1>1 DEF LedgerSound, LedgerInv, AskedInv
<1>3. Kept
  BY UndisturbedStep DEF LedgerSound
<1> SUFFICES ASSUME NEW o \in Operators, rpc'[o] # "idle" PROVE Rejected(rid[o])'
  BY DEF AskedIsRejected
<1>4. CASE rpc[o] # "idle" /\ rid'[o] = rid[o]
  <2>1. Rejected(rid[o]) /\ rid[o] \in Ids
    BY <1>1, <1>2, <1>4 DEF AskedIsRejected, TypeInv, BusyHasId
  <2>2. row[rid[o]] \in Terminal
    BY <2>1 DEF Rejected, Terminal, Rejections
  <2>3. row'[rid[o]] = row[rid[o]]
    BY <1>3, <2>1, <2>2 DEF Kept, Unswept
  <2> QED BY <1>4, <2>1, <2>3 DEF Rejected
<1>5. CASE dlq[rid'[o]] > 0 /\ rid'[o] \in Ids /\ row' = row
  <2>1. Rejected(rid'[o])
    BY <1>1, <1>2, <1>5 DEF LedgerParts, DlqMatches, Unswept
  <2> QED BY <1>5, <2>1 DEF Rejected
<1> QED BY <1>1, <1>4, <1>5, WhoIsAsked

\* Steps that write none of the ledger's tables are not seen in it.
LEMMA Unseen ==
  ASSUME UNCHANGED <<event, row, dlq, aged, runs>> PROVE UNCHANGED Ledger!vars
<1> QED BY DEF Ledger!vars, DeadLetters

\* A new event, from outside or as a copy of a known one.
LEMMA MintsEvent ==
  ASSUME NEW i \in Ids, NEW e \in Event, ~Minted(i), event' = [event EXCEPT ![i] = e],
         e.via # "source" => e.key = NoKey /\ e.causedBy \in Ids,
         e.via = "requeue" => Rejected(e.causedBy),
         e.via = "recovery" => /\ row[e.causedBy] = "interrupted"
                               /\ ClonesOf(e.causedBy, "recovery") = {},
         UNCHANGED <<row, dlq, aged, runs>>
  PROVE  Ledger!Next
<1>1. Ledger!Mint(i, e)
  <2>1. ClonesOf(e.causedBy, "recovery") = Ledger!CopiesOf(e.causedBy, "recovery")
    BY DEF ClonesOf, Ledger!CopiesOf
  <2>2. Rejected(e.causedBy) <=> Ledger!Rejected(e.causedBy)
    BY DEF Rejected, Ledger!Rejected
  <2>3. event[i] = NoEvent /\ DeadLetters' = DeadLetters
    BY DEF Minted, DeadLetters
  <2> QED BY <2>1, <2>2, <2>3 DEF Ledger!Mint
<1> QED BY <1>1 DEF Ledger!Next

LEMMA ArriveRefines == ASSUME TypeInv, Arrive PROVE Ledger!Next \/ UNCHANGED Ledger!vars
<1>1. ASSUME NEW i \in Arrivals, NEW e \in Publishable, i \in FreshIds,
             event' = [event EXCEPT ![i] = e], UNCHANGED <<row, dlq, aged, runs>>
      PROVE  Ledger!Next
  <2>1. i \in Ids /\ ~Minted(i) /\ e \in Event /\ e.via = "source"
    BY <1>1, PublishableIsEvent DEF FreshIds, Publishable
  <2> QED BY <1>1, <2>1, MintsEvent
<1>2. ASSUME NEW i \in Arrivals, NEW d \in Tasks, NEW a \in Agents, Redeliver(d, a, i)
      PROVE  UNCHANGED Ledger!vars
  BY <1>2, Unseen DEF Redeliver, store
<1>3. ASSUME NEW i \in Arrivals, NEW e \in Publishable, PublishUnheard(i, e) PROVE Ledger!Next
  BY <1>1, <1>3 DEF PublishUnheard, store
<1>4. ASSUME NEW i \in Arrivals, NEW e \in Publishable, NEW d \in Tasks, NEW a \in Agents,
             Deliver(d, a, i, e)
      PROVE  Ledger!Next
  BY <1>1, <1>4 DEF Deliver, store
<1> QED BY <1>2, <1>3, <1>4 DEF Arrive

\* A dispatch takes its event in, starts the turn, settles it and files it.
LEMMA DispatchRefines ==
  ASSUME TypeInv, DedupParts, LedgerParts, Unswept, NEW d \in Tasks, Dispatch(d),
         faults = 0, faults' = 0
  PROVE  Ledger!Next \/ UNCHANGED Ledger!vars
<1> DEFINE i == tid[d]
<1>1. tpc[d] # "idle" => i \in Ids /\ Minted(i)
  BY DEF TypeInv, BusyHasId, DedupParts, MintedFirst
<1>2. CASE DropDuplicate(d) \/ LoopCheckThrows(d)
  BY <1>2, Unseen DEF DropDuplicate, LoopCheckThrows, store
<1>3. CASE Record(d)
  <2>1. /\ tpc[d] = "new" /\ row' = [row EXCEPT ![i] = IF @ = "absent" THEN "pending" ELSE @]
        /\ UNCHANGED <<event, dlq, aged, runs>>
    BY <1>3 DEF Record, WriteThrows
  <2>2. row[i] = "absent" /\ \A j \in Ids \ aged : SameWork(i, j) => row[j] = "absent"
    BY <2>1 DEF DedupParts, NewIsNew
  <2>3. row' = [row EXCEPT ![i] = "pending"]
    BY <1>1, <2>1, <2>2
  <2>4. Ledger!Take(i)
    <3>1. \A j \in Ids \ aged : Ledger!SameWork(i, j) => row[j] = "absent"
      BY <2>2 DEF SameWork, Ledger!SameWork
    <3>2. event[i] # NoEvent /\ DeadLetters' = DeadLetters
      BY <1>1, <2>1 DEF Minted, DeadLetters
    <3> QED BY <2>1, <2>2, <2>3, <3>1, <3>2 DEF Ledger!Take
  <2> QED BY <1>1, <2>1, <2>4 DEF Ledger!Next
<1>4. CASE StartTurn(d)
  <2>1. tpc[d] = "recorded" /\ runs' = [runs EXCEPT ![i] = @ + 1] /\ UNCHANGED <<event, row, dlq, aged>>
    BY <1>4 DEF StartTurn, store
  <2>2. row[i] = "pending" /\ runs[i] = 0
    BY <2>1 DEF LedgerParts, PastHasOutcome, DedupParts, RunsCounted, Routing, Unswept
  <2>3. runs' = [runs EXCEPT ![i] = 1] /\ DeadLetters' = DeadLetters
    BY <2>1, <2>2 DEF DeadLetters
  <2> HIDE DEF i
  <2>4. Ledger!Start(i)
    BY <2>1, <2>2, <2>3 DEF Ledger!Start
  <2> QED BY <1>1, <2>1, <2>4 DEF Ledger!Next
<1>5. ASSUME NEW o \in {"loop", "refused", "failed", "done"}, tpc[d] \in Routing,
             row' = MarkedRow(i, o), UNCHANGED <<event, dlq, aged, runs>>,
             o \in {"loop", "refused"} => tpc[d] = "recorded",
             o = "failed" => tpc[d] = "turn"
      PROVE  Ledger!Next
  <2>1. row[i] = "pending" /\ i \in Ids
    BY <1>1, <1>5 DEF LedgerParts, PastHasOutcome, Routing, Unswept
  <2>2. row' = [row EXCEPT ![i] = o] /\ DeadLetters' = DeadLetters
    BY <1>5, <2>1 DEF MarkedRow, DeadLetters
  <2>3. tpc[d] = "recorded" => runs[i] = 0
    BY DEF DedupParts, RunsCounted
  <2>4. tpc[d] = "turn" => runs[i] = 1
    BY DEF DedupParts, RunsCounted
  <2> HIDE DEF i
  <2>5. Ledger!Settle(i, o)
    BY <1>5, <2>1, <2>2, <2>3, <2>4 DEF Ledger!Settle
  <2> QED BY <2>1, <2>5 DEF Ledger!Next
<1>6. ASSUME NEW o \in {"loop", "refused"}, ShortCircuit(d, o) PROVE Ledger!Next
  <2>1. /\ tpc[d] = "recorded" /\ row' = MarkedRow(i, o) /\ UNCHANGED <<event, dlq, aged, runs>>
    BY <1>6 DEF ShortCircuit, WriteThrows
  <2> QED BY <1>5, <2>1 DEF Routing
<1>7. ASSUME NEW o \in {"done", "failed", "refused"}, Settle(d, o) PROVE Ledger!Next
  <2>1. /\ row' = MarkedRow(i, o) /\ UNCHANGED <<event, dlq, aged, runs>>
        /\ \/ tpc[d] = "turn" /\ o \in {"done", "failed"}
           \/ tpc[d] = "recorded" /\ o \in {"done", "refused"}
    BY <1>7 DEF Settle, WriteThrows
  <2>2. tpc[d] \in Routing
    BY <2>1 DEF Routing
  <2> QED BY <1>5, <2>1, <2>2
<1>8. CASE FileOutcome(d)
  <2>1. /\ tpc[d] \in {"rejecting", "clearing"} /\ UNCHANGED <<event, row, aged, runs>>
        /\ dlq' = [dlq EXCEPT ![i] = IF tpc[d] = "rejecting" THEN @ + 1 ELSE 0]
    BY <1>8 DEF FileOutcome, WriteThrows
  <2>2. i \in Ids /\ dlq \in [Ids -> Nat]
    BY <1>1, <2>1 DEF TypeInv, TypeOK
  <2> HIDE DEF i
  <2>3. CASE tpc[d] = "rejecting"
    <3>1. dlq'[i] = dlq[i] + 1 /\ \A j \in Ids \ {i} : dlq'[j] = dlq[j]
      BY <2>1, <2>2, <2>3
    <3>2. DeadLetters' = DeadLetters \cup {i}
      BY <2>2, <3>1 DEF DeadLetters
    <3>3. Ledger!Rejected(i)
      BY <2>3 DEF LedgerParts, PastHasOutcome, Rejected, Ledger!Rejected, Unswept, i
    <3>4. Ledger!File(i)
      BY <2>1, <3>2, <3>3 DEF Ledger!File
    <3> QED BY <2>2, <3>4 DEF Ledger!Next
  <2>4. CASE tpc[d] = "clearing"
    <3>1. ~(dlq[i] > 0)
      BY <2>2, <2>4 DEF DedupParts, FiledIsOver, Past, i
    <3>2. \A j \in Ids : dlq'[j] > 0 <=> dlq[j] > 0
      BY <2>1, <2>2, <2>4, <3>1
    <3>3. DeadLetters' = DeadLetters
      BY <3>2 DEF DeadLetters
    <3> QED BY <2>1, <3>3 DEF Ledger!vars
  <2> QED BY <2>1, <2>3, <2>4
<1> QED BY <1>2, <1>3, <1>4, <1>6, <1>7, <1>8 DEF Dispatch

\* A requeue copies what it was asked for and strikes that off.
LEMMA RequeueRefines ==
  ASSUME TypeInv, LedgerParts, AskedIsRejected, Kept, NEW o \in Operators, Requeue(o),
         faults = 0, faults' = 0
  PROVE  Ledger!Next \/ UNCHANGED Ledger!vars
<1> DEFINE i == rid[o]
<1>1. CASE (\E a \in Agents, j \in Ids : RequeueLookup(o, a, j)) \/ RequeueMiss(o)
  BY <1>1, Unseen DEF RequeueLookup, RequeueMiss, store
<1>2. ASSUME NEW d \in Tasks, NEW j \in Ids, RequeuePublish(o, d, j) PROVE Ledger!Next
  <2> DEFINE e == CloneOf(i, "requeue")
  <2>1. /\ rpc[o] = "found" /\ ~Minted(j) /\ event' = [event EXCEPT ![j] = e]
        /\ UNCHANGED <<row, dlq, aged, runs>>
    BY <1>2 DEF RequeuePublish, PublishClone, FreshIds, store
  <2>2. i \in Ids /\ Rejected(i)
    BY <2>1 DEF TypeInv, BusyHasId, AskedIsRejected
  <2>3. e \in Event
    BY <2>2, CloneIsEvent DEF TypeInv, Vias
  <2>4. e.key = NoKey /\ e.causedBy = i /\ e.via = "requeue"
    BY DEF CloneOf
  <2> HIDE DEF e, i
  <2> QED BY <2>1, <2>2, <2>3, <2>4, MintsEvent
<1>3. CASE RequeueAck(o)
  <2>1. /\ rpc[o] = "published" /\ dlq' = [dlq EXCEPT ![i] = 0]
        /\ UNCHANGED <<event, row, aged, runs>>
    BY <1>3 DEF RequeueAck, WriteThrows
  <2>2. i \in Ids /\ dlq \in [Ids -> Nat]
    BY <2>1 DEF TypeInv, TypeOK, BusyHasId
  <2> HIDE DEF i
  <2>3. dlq'[i] = 0 /\ \A j \in Ids \ {i} : dlq'[j] = dlq[j]
    BY <2>1, <2>2
  <2>4. DeadLetters' = DeadLetters \ {i}
    BY <2>2, <2>3 DEF DeadLetters
  <2>5. CASE dlq[i] > 0
    <3>1. PICK j \in ClonesOf(i, "requeue") : row[j] \in Terminal
      BY <2>2, <2>3, <2>5 DEF Kept
    <3>2. j \in Ledger!CopiesOf(i, "requeue") /\ Ledger!Settled(j)
      BY <3>1 DEF ClonesOf, Ledger!CopiesOf, Ledger!Settled, Ledger!Rejected, Terminal, Rejections
    <3>3. Ledger!StrikeOff(i)
      BY <2>1, <2>4, <3>2 DEF Ledger!StrikeOff
    <3> QED BY <2>2, <3>3 DEF Ledger!Next
  <2>6. CASE ~(dlq[i] > 0)
    <3>1. DeadLetters' = DeadLetters
      BY <2>4, <2>6 DEF DeadLetters
    <3> QED BY <2>1, <3>1 DEF Ledger!vars
  <2> QED BY <2>5, <2>6
<1> QED BY <1>1, <1>2, <1>3 DEF Requeue

\* Recovery settles what a boot found pending as interrupted, and copies it.
LEMMA RecoverRefines ==
  ASSUME TypeInv, RecoveryParts, LedgerParts, Unswept, Recover, faults = 0, faults' = 0
  PROVE  Ledger!Next \/ UNCHANGED Ledger!vars
<1>1. CASE RecoverNext
  BY <1>1, Unseen DEF RecoverNext, store
<1>2. ASSUME NEW a \in Agents, NEW i \in Ids, RecoverMark(a, i) PROVE Ledger!Next
  <2>1. /\ i \in worklist /\ row' = MarkedRow(i, "interrupted")
        /\ UNCHANGED <<event, dlq, aged, runs>>
    BY <1>2 DEF RecoverMark, WriteThrows
  <2>2. row[i] = "pending"
    BY <2>1 DEF LedgerParts, ListedIsPending, Unswept
  <2>3. row' = [row EXCEPT ![i] = "interrupted"] /\ DeadLetters' = DeadLetters
    BY <2>1, <2>2 DEF MarkedRow, DeadLetters
  <2>4. Ledger!Settle(i, "interrupted")
    BY <2>1, <2>2, <2>3 DEF Ledger!Settle
  <2> QED BY <2>4 DEF Ledger!Next
<1>3. ASSUME NEW d \in Tasks, NEW a \in Agents, NEW j \in Ids, RecoverPublish(d, a, j)
      PROVE  Ledger!Next
  <2> DEFINE i == recId
             e == CloneOf(i, "recovery")
  <2>1. /\ recPc = "marked" /\ ~Minted(j) /\ event' = [event EXCEPT ![j] = e]
        /\ UNCHANGED <<row, dlq, aged, runs>>
    BY <1>3 DEF RecoverPublish, PublishClone, FreshIds, store
  <2>2. i \in Ids
    BY <2>1 DEF TypeInv, BusyHasId
  <2>3. row[i] = "interrupted" /\ ClonesOf(i, "recovery") = {}
    BY <2>1, <2>2 DEF RecoveryParts, MarkedIsInterrupted, CloneMeansDone, Unswept
  <2>4. e \in Event
    BY <2>2, CloneIsEvent DEF TypeInv, Vias
  <2>5. e.key = NoKey /\ e.causedBy = i /\ e.via = "recovery"
    BY DEF CloneOf
  <2> HIDE DEF e, i
  <2> QED BY <2>1, <2>2, <2>3, <2>4, <2>5, MintsEvent
<1> QED BY <1>1, <1>2, <1>3 DEF Recover

\* An event grows too old for its key to count.
LEMMA AgeRefines == ASSUME NEW i \in Ids, WindowPasses(i) PROVE Ledger!Next
<1>1. Ledger!Age(i)
  BY DEF WindowPasses, Ledger!Age, DeadLetters
<1> QED BY <1>1 DEF Ledger!Next

LEMMA StepRefines ==
  ASSUME LedgerSound, AskedInv, ~Overlap, [Next]_vars, Undisturbed', Unswept'
  PROVE  Ledger!Next \/ UNCHANGED Ledger!vars
<1>1. /\ TypeInv /\ faults = 0 /\ erasures = 0 /\ faults' = 0 /\ erasures' = 0
      /\ Undisturbed /\ Unswept
  BY WellBefore DEF LedgerSound
<1>2. RecoveryParts /\ DedupParts /\ LedgerParts /\ AskedIsRejected
  BY <1>1 DEF LedgerSound, RecoveryInv, DedupInv, LedgerInv, AskedInv
<1>3. Kept
  BY UndisturbedStep DEF LedgerSound
<1>4. CASE \/ \E a \in Agents : Boot(a) \/ Stop(a)
           \/ Crash \/ Drained
  BY <1>4, Unseen DEF Boot, StartSources, Attach, GoLive, Crash, Stop, Drained, LoseVolatile, store
<1>5. CASE \E a \in Agents, x \in Ids \cup Keys : Forget(a, x)
  BY <1>5, Unseen DEF Forget, store
<1>6. CASE \E i \in Ids : Erase(i)
  BY <1>1, <1>6 DEF Erase
<1>7. CASE UNCHANGED vars
  BY <1>7, Unseen DEF vars, store
<1> QED
  BY <1>1, <1>2, <1>3, <1>4, <1>5, <1>6, <1>7, ArriveRefines, DispatchRefines, RequeueRefines,
     RecoverRefines, AgeRefines DEF Next, Step

\* The event path keeps the ledger of EventLedger: under any interleaving of
\* dispatches, requeues, recovery, evictions, redeliveries, crashes and restarts,
\* of any number of agents, every step is one the ledger allows, or none of its
\* business, until a write fails, something is erased or a later agent's boot
\* sweeps up a row in flight (dispatcher.ts, store.ts, dlq.ts, recovery.ts).
THEOREM LedgerKept == ASSUME ~Overlap PROVE Spec => KeepsLedger
<1> DEFINE Allowed == Undisturbed' /\ Unswept' => Ledger!Next \/ UNCHANGED Ledger!vars
           Sound   == LedgerSound /\ AskedInv
<1>1. Init => Ledger!Init
  BY DEF Init, Ledger!Init, DeadLetters
<1>2. Init => Sound
  <2>1. Init => AskedInv
    BY DEF Init, AskedInv, AskedIsRejected
  <2> QED BY <2>1, InitTyped, InitRecovery, InitDedup, InitLedger DEF LedgerSound
<1>3. Sound /\ [Next]_vars => Sound'
  <2>1. ASSUME Sound, [Next]_vars PROVE AskedInv'
    BY <2>1, StepAsked
  <2>2. ASSUME LedgerSound, [Next]_vars PROVE LedgerSound'
    BY <2>2, LedgerSoundStep
  <2> QED BY <2>1, <2>2
<1>4. ASSUME Sound, [Next]_vars PROVE Allowed
  BY <1>4, StepRefines
<1> QED BY <1>1, <1>2, <1>3, <1>4, PTL DEF Spec, KeepsLedger

-----------------------------------------------------------------------------
(* One agent sweeps up nothing                                              *)

\* Whoever works is an agent that is up.
WorkersAreUp ==
  /\ \A d \in Tasks : tpc[d] # "idle" =>
       phase[tagent[d]] \in {"recovering", "live", "stopping"}
  /\ \A o \in Operators : rpc[o] # "idle" => phase[ragent[o]] \in {"live", "stopping"}

WorkInv == TypeInv /\ WorkersAreUp

LEMMA EnterIsUp ==
  ASSUME WorkInv, NEW d \in Tasks, NEW a \in Agents, NEW e, NEW i, EnterDispatch(d, a, e, i),
         phase[a] \in {"recovering", "live", "stopping"}, phase' = phase
  PROVE  \A x \in Tasks : tpc'[x] # "idle" =>
           phase'[tagent'[x]] \in {"recovering", "live", "stopping"}
BY DEF EnterDispatch, tasks, WorkInv, WorkersAreUp, TypeInv, TypeOK

LEMMA StepWorks == ASSUME WorkInv, [Next]_vars PROVE WorkersAreUp'
<1> USE DEF WorkInv, TypeInv, TypeOK, recovery, requeues, tasks
<1>1. CASE Arrive
  <2>1. ASSUME NEW i \in Arrivals, NEW d \in Tasks, NEW a \in Agents, NEW e \in Publishable,
               Deliver(d, a, i, e)
        PROVE  WorkersAreUp'
    <3>1. UNCHANGED <<phase, rpc, ragent>> /\ phase[a] \in {"recovering", "live"}
      BY <2>1 DEF Deliver, Subscribed
    <3> QED BY <2>1, <3>1, EnterIsUp DEF Deliver, WorkersAreUp
  <2>2. ASSUME NEW i \in Arrivals, NEW d \in Tasks, NEW a \in Agents, Redeliver(d, a, i)
        PROVE  WorkersAreUp'
    <3>1. UNCHANGED <<phase, rpc, ragent>> /\ phase[a] \in {"recovering", "live"}
      BY <2>2 DEF Redeliver, Subscribed
    <3> QED BY <2>2, <3>1, EnterIsUp DEF Redeliver, WorkersAreUp
  <2>3. ASSUME NEW i \in Arrivals, NEW e \in Publishable, PublishUnheard(i, e)
        PROVE  WorkersAreUp'
    BY <2>3 DEF PublishUnheard, WorkersAreUp
  <2> QED BY <1>1, <2>1, <2>2, <2>3 DEF Arrive
<1>2. ASSUME NEW d \in Tasks, Dispatch(d) PROVE WorkersAreUp'
  <2>1. /\ UNCHANGED <<phase, rpc, ragent>>
        /\ \A x \in Tasks : tpc'[x] # "idle" => tpc[x] # "idle" /\ tagent'[x] = tagent[x]
    BY <1>2 DEF Dispatch, DropDuplicate, Record, LoopCheckThrows, ShortCircuit, StartTurn,
                Settle, FileOutcome, EndTask
  <2> QED BY <2>1 DEF WorkersAreUp
<1>3. ASSUME NEW o \in Operators, Requeue(o) PROVE WorkersAreUp'
  <2>1. ASSUME NEW a \in Agents, NEW i \in Ids, RequeueLookup(o, a, i) PROVE WorkersAreUp'
    BY <2>1 DEF RequeueLookup, WorkersAreUp
  <2>2. CASE RequeueMiss(o) \/ RequeueAck(o)
    BY <2>2 DEF RequeueMiss, RequeueAck, EndRequeue, WorkersAreUp
  <2>3. ASSUME NEW d \in Tasks, NEW j \in Ids, RequeuePublish(o, d, j) PROVE WorkersAreUp'
    <3>1. /\ EnterDispatch(d, ragent[o], CloneOf(rid[o], "requeue"), j)
          /\ rpc[o] = "found" /\ rpc' = [rpc EXCEPT ![o] = "published"]
          /\ UNCHANGED <<phase, ragent>>
      BY <2>3 DEF RequeuePublish, PublishClone
    <3>2. ragent[o] \in Agents /\ phase[ragent[o]] \in {"live", "stopping"}
      BY <3>1 DEF WorkersAreUp, BusyHasId
    <3> QED BY <3>1, <3>2, EnterIsUp DEF WorkersAreUp
  <2> QED BY <1>3, <2>1, <2>2, <2>3 DEF Requeue
<1>4. CASE Recover
  <2>1. CASE (\E a \in Agents, i \in Ids : RecoverMark(a, i)) \/ RecoverNext
    BY <2>1 DEF RecoverMark, RecoverNext, WorkersAreUp
  <2>2. ASSUME NEW d \in Tasks, NEW a \in Agents, NEW j \in Ids, RecoverPublish(d, a, j)
        PROVE  WorkersAreUp'
    <3>1. /\ EnterDispatch(d, a, CloneOf(recId, "recovery"), j) /\ phase[a] = "recovering"
          /\ UNCHANGED <<phase, rpc, ragent>>
      BY <2>2 DEF RecoverPublish, PublishClone
    <3> QED BY <3>1, EnterIsUp DEF WorkersAreUp
  <2> QED BY <1>4, <2>1, <2>2 DEF Recover
<1>5. ASSUME NEW a \in Agents, Boot(a) \/ Stop(a) PROVE WorkersAreUp'
  <2>1. /\ UNCHANGED <<tpc, tagent, rpc, ragent>>
        /\ \A b \in Agents : phase[b] \in {"live", "stopping"} => phase'[b] \in {"live", "stopping"}
        /\ \A b \in Agents : phase[b] = "recovering" => phase'[b] \in {"recovering", "live"}
    <3>1. ASSUME StartSources(a) PROVE phase[a] = "down"
      BY <3>1 DEF StartSources, Agents
    <3> QED BY <1>5, <3>1 DEF Boot, StartSources, Attach, GoLive, Stop, PhaseOf
  <2> QED BY <2>1 DEF WorkersAreUp, BusyHasId
<1>6. CASE Crash \/ Drained
  BY <1>6 DEF Crash, Drained, LoseVolatile, WorkersAreUp
<1>7. CASE \/ \E a \in Agents, x \in Ids \cup Keys : Forget(a, x)
           \/ \E i \in Ids : Erase(i) \/ WindowPasses(i)
           \/ UNCHANGED vars
  BY <1>7 DEF Forget, Erase, WindowPasses, vars, WorkersAreUp
<1> QED
  BY <1>1, <1>2, <1>3, <1>4, <1>5, <1>6, <1>7 DEF Next, Step

\* In a process of one agent nothing works while it boots, so that what its boot
\* lists is what an earlier process left (up-cli.ts attachDispatcherToAgent).
\* What the other theorems except for swept rows they then say of all.
THEOREM SweepsNeedFleet == ASSUME FleetSize = 1 PROVE Spec => []Unswept
<1> DEFINE Quietly == WorkInv /\ Unswept
<1>1. Init => Quietly
  <2>1. Init => WorkersAreUp /\ Unswept
    BY DEF Init, WorkersAreUp, Unswept
  <2> QED BY <2>1, InitTyped DEF WorkInv
<1>2. ASSUME Quietly, [Next]_vars PROVE Quietly'
  <2>1. WorkInv'
    BY <1>2, StepTyped, StepWorks DEF WorkInv
  <2>2. ASSUME NEW a \in Agents, Attach(a) PROVE Unswept'
    <3>1. \A b \in Agents : phase[b] = "binding"
      BY <2>2 DEF Attach, Agents
    <3>2. \A d \in Tasks : tpc[d] = "idle"
      BY <1>2, <3>1 DEF WorkInv, WorkersAreUp, TypeInv, BusyHasId
    <3> QED BY <1>2, <2>2, <3>2 DEF Attach, Held, Unswept
  <2>3. (\A a \in Agents : ~Attach(a)) => swept' = swept
    BY <1>2, WhoSweeps DEF WorkInv
  <2> QED BY <1>2, <2>1, <2>2, <2>3 DEF Unswept
<1> QED BY <1>1, <1>2, PTL DEF Spec
=============================================================================
