---------------------------- MODULE SourceIntake ----------------------------
(***************************************************************************)
(* One event source of the base class                                       *)
(* packages/core/src/events/base-source.ts: handleMessage with the           *)
(* concurrency limiter, the circuit breaker, the bus (bus.ts: publish        *)
(* awaits every subscriber, pressure watermarks) and the dispatcher          *)
(* subscribed to it, against a broker that redelivers what is nacked and,    *)
(* after a crash, what was never acked.  The subscriber of up-cli waits for  *)
(* the dispatch; the one of dispatcher.attach starts it and returns.         *)
(*                                                                         *)
(* One action is the code between two awaits.  Pausing is immediate here     *)
(* (SQS, Kafka); transports that pause asynchronously are in SourcePause.    *)
(***************************************************************************)
EXTENDS Naturals, FiniteSets, Sequences

CONSTANTS
  Messages,          \* broker messages
  Strategies,        \* delivery.ackStrategy values the source may have
  Concurrency,       \* limits.concurrency
  MaxRetries,        \* delivery.maxRetries
  Breakers,          \* may `circuitBreaker' be configured?
  FailureThreshold, SuccessThreshold,
  Hosts,             \* may the bus subscriber wait for the dispatch?
  Hooks,             \* may a hookRegistry be passed to the source?
  High, Low,         \* busPressure watermarks
  MaxCrashes,        \* bound: process exits
  MaxFaults,         \* bound: throwing acks and nacks
  MaxDlqFaults       \* bound: throwing DLQ writes

IntakeParameters ==
  /\ IsFiniteSet(Messages)
  /\ Strategies \subseteq {"before-publish", "after-publish", "after-dispatch"}
  /\ Concurrency \in Nat \ {0}
  /\ Hosts \subseteq BOOLEAN /\ Breakers \subseteq BOOLEAN /\ Hooks \subseteq BOOLEAN
  /\ High \in Nat \ {0} /\ Low \in 0 .. High
  /\ {MaxRetries, MaxCrashes, MaxFaults, MaxDlqFaults} \subseteq Nat

VARIABLES
  kind,       \* message -> "good", "filtered" or "poison" (normalize throws)
  strategy,   \* the source's ackStrategy
  waits,      \* the bus subscriber returns when the dispatch is over
  hasBreaker, hasHooks,   \* how the source was built
  broker,     \* message -> "queued", "out" (delivered, unsettled) or "acked"
  attempt,    \* message -> deliveryCount, saturating at MaxRetries
  pc,         \* message -> where its handler awaits
  dispatching,  \* messages whose dispatch has started, event.after not fired
  pendingAcks,
  inflight, waiters, slot,                \* ConcurrencyLimiter
  state, failures, successes, cooled,     \* CircuitBreaker
  reasons,    \* pauseReasons
  over,       \* the bus pressure listener is above its high watermark
  published, dispatched, deadLettered,    \* message sets (history)
  crashes, faults, dlqFaults

built   == <<strategy, waits, hasBreaker, hasHooks>>
limiter == <<inflight, waiters, slot>>
breaker == <<state, failures, successes, cooled>>
pausing == <<reasons, over>>
history == <<published, dispatched, deadLettered>>
budget  == <<crashes, faults, dlqFaults>>
vars == <<kind, built, broker, attempt, pc, dispatching, pendingAcks, limiter,
          breaker, pausing, history, budget>>

Slots == INSTANCE ConcurrencyLimiter WITH Handlers <- Messages, Max <- Concurrency
Fuse  == INSTANCE CircuitBreaker WITH
           Callers <- Messages, MaxOperations <- 0, operations <- 0,
           call <- [m \in Messages |-> "none"], healthy <- TRUE

Pcs == {"none", "waiting", "normalize", "filtered", "preack", "publish",
        "publishing", "postack", "failed", "dlq", "failack"}

Publishing == {m \in Messages : pc[m] = "publishing"}

Init ==
  /\ kind \in [Messages -> {"good", "filtered", "poison"}]
  /\ strategy \in Strategies /\ waits \in Hosts
  /\ hasBreaker \in Breakers /\ hasHooks \in Hooks
  /\ broker = [m \in Messages |-> "queued"]
  /\ attempt = [m \in Messages |-> 0]
  /\ pc = [m \in Messages |-> "none"]
  /\ dispatching = {} /\ pendingAcks = {}
  /\ Slots!Init
  /\ state = "closed" /\ failures = 0 /\ successes = 0 /\ cooled = FALSE
  /\ reasons = {} /\ over = FALSE
  /\ published = {} /\ dispatched = {} /\ deadLettered = {}
  /\ crashes = 0 /\ faults = 0 /\ dlqFaults = 0

-----------------------------------------------------------------------------
(* Limiter, breaker and pauses, as handleMessage uses them *)

\* A handler leaves: its slot passes to the first waiter, which goes on.
Leave(m) ==
  /\ Slots!Release(m)
  /\ pc' = [n \in Messages |->
              IF n = m THEN "none"
              ELSE IF pc[n] = "waiting" /\ slot'[n] = "held" THEN "normalize"
              ELSE pc[n]]

GoTo(m, where) == pc' = [pc EXCEPT ![m] = where] /\ UNCHANGED limiter

\* wireBreakerListener: opening pauses the source, closing resumes it.
ReasonsAfterBreaker(rs) ==
  IF state # "open" /\ state' = "open" THEN rs \cup {"breaker"}
  ELSE IF state # "closed" /\ state' = "closed" THEN rs \ {"breaker"}
  ELSE rs

\* this.breaker?.record(outcome)
Record(outcome) ==
  IF ~hasBreaker THEN UNCHANGED breaker
  ELSE IF outcome THEN Fuse!OnSuccess ELSE Fuse!OnFailure

Succeeded == Record(TRUE) /\ reasons' = ReasonsAfterBreaker(reasons)
Failed    == Record(FALSE) /\ reasons' = ReasonsAfterBreaker(reasons)

Settle(m) == broker' = [broker EXCEPT ![m] = "acked"]

\* nack(): the broker redelivers, and counts.
Requeue(ms) ==
  /\ broker' = [m \in Messages |-> IF m \in ms THEN "queued" ELSE broker[m]]
  /\ attempt' = [m \in Messages |->
                   IF m \in ms /\ attempt[m] < MaxRetries THEN attempt[m] + 1
                   ELSE attempt[m]]

\* An ack or a nack that throws.
AckThrows ==
  /\ faults < MaxFaults /\ faults' = faults + 1
  /\ UNCHANGED <<crashes, dlqFaults>>

\* nack(), whose error is logged.
Nack(m) ==
  \/ Requeue({m}) /\ UNCHANGED budget
  \/ AckThrows /\ UNCHANGED <<broker, attempt>>

-----------------------------------------------------------------------------
(* handleMessage *)

\* The transport hands a message over unless the source is paused.
Deliver(m) ==
  /\ broker[m] = "queued" /\ pc[m] = "none" /\ reasons = {}
  /\ broker' = [broker EXCEPT ![m] = "out"]
  /\ Slots!Acquire(m)
  /\ pc' = [pc EXCEPT ![m] = IF slot'[m] = "held" THEN "normalize" ELSE "waiting"]
  /\ UNCHANGED <<kind, built, attempt, dispatching, pendingAcks, breaker,
                 pausing, history, budget>>

\* normalize(): the message is dropped by the filter, turned into an event, or
\* the normalizer throws.
Normalize(m) ==
  /\ pc[m] = "normalize"
  /\ \/ kind[m] = "filtered" /\ GoTo(m, "filtered") /\ UNCHANGED <<breaker, reasons>>
     \/ /\ kind[m] = "good"
        /\ GoTo(m, IF strategy = "before-publish" THEN "preack" ELSE "publish")
        /\ UNCHANGED <<breaker, reasons>>
     \/ kind[m] = "poison" /\ GoTo(m, "failed") /\ Failed
  /\ UNCHANGED <<kind, built, broker, attempt, dispatching, pendingAcks, over,
                 history, budget>>

\* await ack.ack() before the publish, or for a filtered message.
EarlyAck(m) ==
  /\ pc[m] \in {"filtered", "preack"}
  /\ \/ /\ Settle(m)
        /\ IF pc[m] = "filtered" THEN Leave(m) ELSE GoTo(m, "publish")
        /\ UNCHANGED <<breaker, reasons, budget>>
     \/ /\ AckThrows /\ Failed /\ GoTo(m, "failed")
        /\ UNCHANGED broker
  /\ UNCHANGED <<kind, built, attempt, dispatching, pendingAcks, over, history>>

\* bus.publish: the subscribers start, and the pressure listener may fire.
Publish(m) ==
  /\ pc[m] = "publish"
  /\ GoTo(m, "publishing")
  /\ dispatching' = dispatching \cup {m}
  /\ published' = published \cup {m}
  /\ over' = (over \/ Cardinality(Publishing) + 1 >= High)
  /\ reasons' = IF over' /\ ~over THEN reasons \cup {"bus-pressure"} ELSE reasons
  /\ UNCHANGED <<kind, built, broker, attempt, pendingAcks,
                 breaker, dispatched, deadLettered, budget>>

\* The dispatcher has an outcome and fires event.after: a message that is
\* registered as pending is acked.
AfterHook(m) ==
  /\ m \in dispatching
  /\ dispatching' = dispatching \ {m}
  /\ dispatched' = dispatched \cup {m}
  /\ pendingAcks' = pendingAcks \ {m}
  /\ broker' = [broker EXCEPT ![m] = IF m \in pendingAcks THEN "acked" ELSE @]
  /\ UNCHANGED <<kind, built, attempt, pc, limiter, breaker, pausing,
                 published, deadLettered, budget>>

\* Faulty: onLow does not drop the reason.
PressureFallsFaulty ==
  over' = (over /\ Cardinality(Publishing) - 1 > Low) /\ UNCHANGED reasons

\* The pressure listener after a publish has ended.
PressureFalls ==
  /\ over' = (over /\ Cardinality(Publishing) - 1 > Low)
  /\ reasons' = IF over /\ ~over' THEN reasons \ {"bus-pressure"} ELSE reasons

\* Faulty: publish() does not wait for its subscribers.
PublishResolvesFaulty(m) ==
  /\ m \in Publishing
  /\ PressureFalls
  /\ GoTo(m, "postack")
  /\ UNCHANGED <<kind, built, broker, attempt, dispatching,
                 pendingAcks, breaker, history, budget>>

\* publish() resolves once every subscriber has.
PublishResolves(m) ==
  /\ m \in Publishing
  /\ waits => m \notin dispatching
  /\ PressureFalls
  /\ GoTo(m, "postack")
  /\ UNCHANGED <<kind, built, broker, attempt, dispatching,
                 pendingAcks, breaker, history, budget>>

\* Without a hook registry "after-dispatch" acks at once and drops the error.
AckUnheard(m) ==
  /\ ~hasHooks
  /\ \/ Settle(m) /\ UNCHANGED budget
     \/ AckThrows /\ UNCHANGED broker
  /\ UNCHANGED pendingAcks

\* registerPendingAck: wait for event.after, or the timeout.
RegisterPendingAck(m) ==
  /\ hasHooks
  /\ pendingAcks' = pendingAcks \cup {m}
  /\ UNCHANGED <<broker, budget>>

\* What follows the publish: ack, or register for event.after, then record
\* the success and leave.
AfterPublish(m) ==
  /\ pc[m] = "postack"
  /\ \/ /\ \/ strategy = "before-publish" /\ UNCHANGED <<broker, pendingAcks, budget>>
           \/ strategy = "after-publish" /\ Settle(m) /\ UNCHANGED <<pendingAcks, budget>>
           \/ strategy = "after-dispatch" /\ (AckUnheard(m) \/ RegisterPendingAck(m))
        /\ Leave(m) /\ Succeeded
     \/ /\ strategy = "after-publish" /\ AckThrows /\ Failed
        /\ GoTo(m, "failed") /\ UNCHANGED <<broker, pendingAcks>>
  /\ UNCHANGED <<kind, built, attempt, dispatching, over, history>>

\* ackDispatchTimeoutMs pass without event.after.
AckTimeout(m) ==
  /\ m \in pendingAcks
  /\ pendingAcks' = pendingAcks \ {m}
  /\ Nack(m)
  /\ UNCHANGED <<kind, built, pc, dispatching, limiter, breaker, pausing, history>>

\* Faulty: the retry path returns without release().
FailureFaulty(m) ==
  /\ pc[m] = "failed"
  /\ \/ /\ attempt[m] < MaxRetries
        /\ Nack(m)
        /\ pc' = [pc EXCEPT ![m] = "none"] /\ UNCHANGED limiter
     \/ /\ attempt[m] >= MaxRetries
        /\ GoTo(m, "dlq") /\ UNCHANGED <<broker, attempt, budget>>
  /\ UNCHANGED <<kind, built, dispatching, pendingAcks, breaker, pausing, history>>

\* handleFailure: nack while the retry budget lasts.
Failure(m) ==
  /\ pc[m] = "failed"
  /\ \/ /\ attempt[m] < MaxRetries
        /\ Nack(m) /\ Leave(m)
     \/ /\ attempt[m] >= MaxRetries
        /\ GoTo(m, "dlq") /\ UNCHANGED <<broker, attempt, budget>>
  /\ UNCHANGED <<kind, built, dispatching, pendingAcks, breaker, pausing, history>>

\* sendToDLQ: an error is logged.
DeadLetter(m) ==
  /\ pc[m] = "dlq"
  /\ \/ deadLettered' = deadLettered \cup {m} /\ UNCHANGED dlqFaults
     \/ /\ dlqFaults < MaxDlqFaults /\ dlqFaults' = dlqFaults + 1
        /\ UNCHANGED deadLettered
  /\ GoTo(m, "failack")
  /\ UNCHANGED <<kind, built, broker, attempt, dispatching, pendingAcks,
                 breaker, pausing, published, dispatched, crashes, faults>>

\* The message is acked either way.  If that throws, handleMessage rejects
\* with the slot released and the message unsettled.
FailAck(m) ==
  /\ pc[m] = "failack"
  /\ Leave(m)
  /\ \/ Settle(m) /\ UNCHANGED budget
     \/ AckThrows /\ UNCHANGED broker
  /\ UNCHANGED <<kind, built, attempt, dispatching, pendingAcks, breaker,
                 pausing, history>>

-----------------------------------------------------------------------------
(* Environment *)

CoolDown ==
  /\ hasBreaker /\ Fuse!CoolDown
  /\ UNCHANGED <<kind, built, broker, attempt, pc, dispatching, pendingAcks,
                 limiter, pausing, history, budget>>

\* The broker gives an unsettled message that nobody holds out again.
Expire(m) ==
  /\ broker[m] = "out" /\ pc[m] = "none" /\ m \notin pendingAcks
  /\ Requeue({m})
  /\ UNCHANGED <<kind, built, pc, dispatching, pendingAcks, limiter, breaker,
                 pausing, history, budget>>

\* The process dies and starts again; the broker requeues what is unsettled.
Crash ==
  /\ crashes < MaxCrashes /\ crashes' = crashes + 1
  /\ Requeue({m \in Messages : broker[m] = "out"})
  /\ pc' = [m \in Messages |-> "none"]
  /\ dispatching' = {} /\ pendingAcks' = {}
  /\ inflight' = 0 /\ waiters' = <<>>
  /\ slot' = [m \in Messages |-> "none"]
  /\ state' = "closed" /\ failures' = 0 /\ successes' = 0 /\ cooled' = FALSE
  /\ reasons' = {} /\ over' = FALSE
  /\ UNCHANGED <<kind, built, history, faults, dlqFaults>>

Handle(m) ==
  \/ Normalize(m) \/ EarlyAck(m) \/ Publish(m) \/ PublishResolves(m)
  \/ AfterPublish(m) \/ Failure(m) \/ DeadLetter(m) \/ FailAck(m)

Next ==
  \/ \E m \in Messages :
       Deliver(m) \/ Handle(m) \/ AfterHook(m) \/ AckTimeout(m) \/ Expire(m)
  \/ CoolDown
  \/ Crash

Spec == Init /\ [][Next]_vars

\* Handlers, dispatches and timers end; the broker keeps delivering.
Fairness ==
  /\ \A m \in Messages :
       /\ WF_vars(Deliver(m)) /\ WF_vars(Handle(m)) /\ WF_vars(AfterHook(m))
       /\ WF_vars(AckTimeout(m)) /\ WF_vars(Expire(m))
  /\ WF_vars(CoolDown)

FairSpec == Spec /\ Fairness

-----------------------------------------------------------------------------
(* Properties *)

TypeOK ==
  /\ broker \in [Messages -> {"queued", "out", "acked"}]
  /\ attempt \in [Messages -> 0 .. MaxRetries]
  /\ pc \in [Messages -> Pcs]
  /\ dispatching \subseteq published
  /\ pendingAcks \subseteq {m \in Messages : broker[m] = "out"}
  /\ Slots!TypeOK
  /\ reasons \subseteq {"breaker", "bus-pressure"} /\ over \in BOOLEAN

\* A handler holds a slot from its first await to its last, on every path out of
\* handleMessage, error paths and a crash among them; so the semaphore counts the
\* handlers inside, at most Concurrency turns run, nobody waits while a slot is
\* free, and the queue holds exactly those who wait (concurrency.ts).
SlotsSound ==
  /\ \A m \in Messages :
       slot[m] = CASE pc[m] = "none" -> "none"
                   [] pc[m] = "waiting" -> "waiting"
                   [] OTHER -> "held"
  /\ Slots!SlotsCounted /\ Slots!NoIdleSlot /\ Slots!QueueIsWaiters

\* An acked message was filtered, dead-lettered, or is done with: handleMessage
\* and handleFailure drop nothing silently, unless the DLQ write itself fails.
\* Done with is published, where the ack comes before the dispatch (with
\* before-publish the publish may still be ahead), and else dispatched, so that
\* after a crash during the turn the broker delivers it again.
AwaitsDispatch ==
  \/ strategy = "after-dispatch" /\ hasHooks
  \/ strategy # "before-publish" /\ waits
AckedIsHandled ==
  \A m \in Messages :
    broker[m] = "acked" /\ dlqFaults = 0 =>
      \/ kind[m] = "filtered"
      \/ m \in deadLettered
      \/ m \in IF AwaitsDispatch THEN dispatched ELSE published
      \/ strategy = "before-publish" /\ (crashes > 0 \/ pc[m] = "publish")

\* The pause set says why the source is paused: by the breaker exactly while
\* it is not closed, by the bus exactly while the listener is over its mark.
PauseHasCause ==
  /\ "breaker" \in reasons <=> state # "closed"
  /\ "bus-pressure" \in reasons <=> over
  /\ over => Publishing # {}

\* Every message is settled in the end, whatever crashes, failing acks and
\* pressure pauses come in between (handleFailure, registerPendingAck).  Two
\* settings are excluded, because there the code may never settle one: a source
\* paused by its breaker gets no message, and only a message half-opens the
\* breaker; and an outcome that lands before registerPendingAck acks nothing,
\* so the message times out and comes again, each time.
EveryMessageSettles ==
  ~hasBreaker /\ ~(hasHooks /\ strategy = "after-dispatch")
    => \A m \in Messages : <>(broker[m] = "acked")
=============================================================================
