---------------------------- MODULE EventPartsMC ----------------------------
(* One instance for two parts of an event's way that share no state: the    *)
(* dispatcher under fairness, and the intake of one source in front of it.  *)
(* A behaviour is one of the chosen part; the other stays where it starts.  *)
EXTENDS EventDispatchMC, FiniteSets

CONSTANTS m1, m2,
  Messages, Strategies, Concurrency, MaxRetries, Breakers, Hosts, Hooks,
  FailureThreshold, SuccessThreshold, High, Low, IntakeFaults, MaxDlqFaults

VARIABLES
  part,   \* the chosen one
  kind, strategy, waits, hasBreaker, hasHooks, broker, attempt, pc, dispatching,
  pendingAcks, inflight, waiters, slot, state, failures, successes, cooled,
  reasons, over, published, dispatched, deadLettered, dlqFaults

\* Both count their crashes and faults in the same variables.
Intake == INSTANCE SourceIntake WITH MaxFaults <- IntakeFaults

ASSUME EventPartsAssumption == Intake!IntakeParameters

dispatchVars == <<event, store, cache, tasks, recovery, requeues, runs, erasures>>
intakeVars   == <<kind, strategy, waits, hasBreaker, hasHooks, broker, attempt, pc,
                  dispatching, pendingAcks, inflight, waiters, slot, state, failures,
                  successes, cooled, reasons, over, published, dispatched,
                  deadLettered, dlqFaults>>

PartsInit ==
  /\ part \in {"dispatch", "intake"}
  /\ Init /\ Intake!Init
  /\ part = "dispatch" =>
       /\ kind = [m \in Messages |-> "good"] /\ strategy = "after-publish"
       /\ waits /\ ~hasBreaker /\ ~hasHooks

PartsNext ==
  \/ part = "dispatch" /\ Step /\ UNCHANGED <<part, intakeVars>>
  \/ part = "intake" /\ Intake!Next /\ UNCHANGED <<part, dispatchVars>>

\* Fairness of EventDispatch or SourceIntake, for the chosen part, action by action:
\* TLC takes an implication between whole fairness conditions apart into many cases.
moved == Intake!vars
PartsFairness ==
  /\ \A a \in Agents :
       /\ WF_vars(part = "dispatch" /\ StartSources(a))
       /\ WF_vars(part = "dispatch" /\ Attach(a))
       /\ WF_vars(part = "dispatch" /\ GoLive(a))
  /\ \A a \in Agents \ {1} : WF_vars(part = "dispatch" /\ Stop(a))
  /\ WF_vars(part = "dispatch" /\ Recover)
  /\ WF_vars(part = "dispatch" /\ Drained)
  /\ \A d \in Tasks : WF_vars(part = "dispatch" /\ Dispatch(d))
  /\ \A o \in Operators :
       WF_vars(part = "dispatch" /\ (RequeueMiss(o) \/ RequeueAck(o)))
  /\ WF_moved(part = "intake" /\ Intake!CoolDown)
  /\ \A m \in Messages :
       /\ WF_moved(part = "intake" /\ Intake!Deliver(m))
       /\ WF_moved(part = "intake" /\ Intake!Handle(m))
       /\ WF_moved(part = "intake" /\ Intake!AfterHook(m))
       /\ WF_moved(part = "intake" /\ Intake!AckTimeout(m))
       /\ WF_moved(part = "intake" /\ Intake!Expire(m))

PartsSpec ==
  PartsInit /\ [][PartsNext]_<<part, vars, intakeVars>> /\ PartsFairness

-----------------------------------------------------------------------------
(* The parts' properties *)

IntakeSound    == Intake!TypeOK /\ Intake!SlotsSound
AckedIsHandled == Intake!AckedIsHandled
PauseHasCause  == Intake!PauseHasCause

\* Whatever came in is settled in the end: events by the dispatcher (handle,
\* recoverPendingEvents), messages by their source (handleMessage,
\* handleFailure), each in the behaviours of its part.
AllSettle ==
  /\ part = "dispatch" => EverythingSettles
  /\ part = "intake" => Intake!EveryMessageSettles
=============================================================================
