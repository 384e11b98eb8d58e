-------------------------- MODULE EventPartsProofs --------------------------
(***************************************************************************)
(* The intake of one source, for any messages, concurrency, thresholds,      *)
(* watermarks and bounds and every way the source can be built.  IntakeInv    *)
(* is the inductive invariant: the types; that a handler's place is its      *)
(* slot's state (SlotsMatch), with the limiter's own invariant; what is known *)
(* of a message at each place of handleMessage (Settled); and that the pause  *)
(* set says why the source is paused.  What the limiter does with its slots   *)
(* is cited from ConcurrencyLimiterProofs.                                   *)
(***************************************************************************)
EXTENDS EventPartsMC, Sequences, FiniteSetTheorems, TLAPS

Limiter == INSTANCE ConcurrencyLimiterProofs WITH Handlers <- Messages, Max <- Concurrency

Types ==
  /\ kind \in [Messages -> {"good", "filtered", "poison"}]
  /\ strategy \in {"before-publish", "after-publish", "after-dispatch"}
  /\ {waits, hasBreaker, hasHooks, over} \subseteq BOOLEAN
  /\ broker \in [Messages -> {"queued", "out", "acked"}]
  /\ attempt \in [Messages -> 0 .. MaxRetries]
  /\ pc \in [Messages -> Intake!Pcs]
  /\ dispatching \subseteq published /\ published \subseteq Messages
  /\ pendingAcks \subseteq Messages
  /\ state \in {"closed", "open", "half-open"}
  /\ reasons \subseteq {"breaker", "bus-pressure"}
  /\ crashes \in Nat /\ dlqFaults \in Nat

Place(where) == IF where \in {"none", "waiting"} THEN where ELSE "held"
SlotsMatch   == \A m \in Messages : slot[m] = Place(pc[m])
SlotsKept    == SlotsMatch /\ Limiter!Inv

\* Only before-publish acks a message whose handler goes on.
EarlyAcked(m) ==
  strategy = "before-publish" /\ pc[m] \in {"publish", "publishing", "postack"}

\* What is known of a message where its handler waits, or after it.
Settled(m) ==
  /\ m \in pendingAcks => broker[m] = "out" /\ pc[m] = "none"
  /\ pc[m] # "none" => broker[m] = "out" \/ EarlyAcked(m)
  /\ pc[m] = "filtered" => kind[m] = "filtered"
  /\ pc[m] = "preack" => strategy = "before-publish"
  /\ pc[m] = "publishing" => m \in published /\ (m \in dispatching \/ m \in dispatched)
  /\ pc[m] = "postack" => m \in published /\ (waits => m \in dispatched)
  /\ pc[m] = "failack" => m \in deadLettered \/ dlqFaults > 0
  /\ broker[m] = "acked" /\ dlqFaults = 0 =>
       \/ kind[m] = "filtered"
       \/ m \in deadLettered
       \/ m \in IF Intake!AwaitsDispatch THEN dispatched ELSE published
       \/ strategy = "before-publish" /\ (crashes > 0 \/ pc[m] = "publish")

AllSettled == \A m \in Messages : Settled(m)

IntakeInv == Types /\ SlotsKept /\ AllSettled /\ Intake!PauseHasCause

-----------------------------------------------------------------------------
(* The limiter, the breaker and the broker, as handleMessage uses them       *)

\* The finite sets of the instance are those of this module.
LEMMA OneCardinality ==
  \A S : /\ Intake!IsFiniteSet(S) <=> IsFiniteSet(S)
         /\ Intake!Cardinality(S) = Cardinality(S)
         /\ Intake!Slots!Cardinality(S) = Limiter!Cardinality(S)
         /\ Limiter!IsFiniteSet(S) <=> IsFiniteSet(S)
<1>1. \A S : Intake!IsFiniteSet(S) <=> IsFiniteSet(S)
  BY DEF Intake!IsFiniteSet, IsFiniteSet
<1>2. \A S : Intake!Cardinality(S) = Cardinality(S)
  BY DEF Intake!Cardinality, Cardinality
<1>3. \A S : Intake!Slots!Cardinality(S) = Limiter!Cardinality(S)
  BY DEF Intake!Slots!Cardinality, Limiter!Cardinality
<1>4. \A S : Limiter!IsFiniteSet(S) <=> IsFiniteSet(S)
  BY DEF Limiter!IsFiniteSet, IsFiniteSet
<1> QED BY <1>1, <1>2, <1>3, <1>4

LEMMA Parameters ==
  /\ Limiter!LimiterAssumption
  /\ Low \in Nat /\ MaxRetries \in Nat
<1> QED BY EventPartsAssumption, OneCardinality
    DEF Intake!IntakeParameters, Limiter!LimiterAssumption

\* A handler that goes on keeps its slot.
LEMMA GoesOn ==
  ASSUME Types, SlotsKept, NEW m \in Messages, NEW where \in Intake!Pcs \ {"none", "waiting"},
         pc[m] \notin {"none", "waiting"}, Intake!GoTo(m, where)
  PROVE  /\ SlotsKept' /\ pc' \in [Messages -> Intake!Pcs]
         /\ pc'[m] = where /\ \A n \in Messages \ {m} : pc'[n] = pc[n]
<1>1. pc' = [pc EXCEPT ![m] = where] /\ UNCHANGED <<inflight, waiters, slot>>
  BY DEF Intake!GoTo, Intake!limiter
<1>2. pc'[m] = where /\ \A n \in Messages \ {m} : pc'[n] = pc[n]
  BY <1>1 DEF Types
<1>3. SlotsMatch'
  BY <1>1, <1>2 DEF SlotsKept, SlotsMatch, Place
<1>4. Limiter!Inv'
  BY <1>1, Parameters, Limiter!StepInv DEF SlotsKept, Limiter!limiter
<1> QED BY <1>1, <1>2, <1>3, <1>4 DEF SlotsKept, Types

\* A handler that leaves hands its slot to one that waits, if there is one.
LEMMA Leaves ==
  ASSUME Types, SlotsKept, NEW m \in Messages, Intake!Leave(m)
  PROVE  /\ SlotsKept' /\ pc' \in [Messages -> Intake!Pcs]
         /\ pc[m] \notin {"none", "waiting"} /\ pc'[m] = "none"
         /\ \A n \in Messages \ {m} :
              pc'[n] = pc[n] \/ (pc[n] = "waiting" /\ pc'[n] = "normalize")
<1>1. /\ Limiter!Release(m)
      /\ pc' = [n \in Messages |->
                  IF n = m THEN "none"
                  ELSE IF pc[n] = "waiting" /\ slot'[n] = "held" THEN "normalize"
                  ELSE pc[n]]
  BY DEF Intake!Leave, Intake!Slots!Release, Limiter!Release
<1>2. Limiter!Inv'
  BY <1>1, Parameters, Limiter!ReleaseInv DEF SlotsKept
<1>3. slot[m] = "held" /\ slot \in [Messages -> {"none", "waiting", "held"}]
  BY <1>1 DEF SlotsKept, Limiter!Inv, Limiter!TypeOK, Limiter!Release
<1>4. slot'[m] = "none" /\ \A n \in Messages \ {m} :
         slot'[n] = slot[n] \/ (slot[n] = "waiting" /\ slot'[n] = "held")
  <2>1. CASE waiters = <<>>
    BY <1>1, <1>3, <2>1 DEF Limiter!Release
  <2>2. CASE waiters # <<>>
    <3>1. /\ waiters \in Seq(Messages) /\ Len(waiters) \in Nat \ {0}
          /\ Head(waiters) = waiters[1] /\ 1 \in 1 .. Len(waiters)
      BY <2>2 DEF SlotsKept, Limiter!Inv, Limiter!TypeOK
    <3>2. Head(waiters) \in Limiter!Waiting
      BY <3>1 DEF SlotsKept, Limiter!Inv, Limiter!QueueIsWaiters
    <3>3. slot[Head(waiters)] = "waiting" /\ Head(waiters) \in Messages
      BY <3>2 DEF Limiter!Waiting
    <3>4. slot' = [slot EXCEPT ![m] = "none", ![Head(waiters)] = "held"]
      BY <1>1, <2>2 DEF Limiter!Release
    <3> QED BY <1>3, <3>3, <3>4
  <2> QED BY <2>1, <2>2
<1>5. /\ pc[m] \notin {"none", "waiting"} /\ pc'[m] = "none"
      /\ \A n \in Messages \ {m} :
           pc'[n] = IF pc[n] = "waiting" /\ slot'[n] = "held" THEN "normalize" ELSE pc[n]
  BY <1>1, <1>3 DEF SlotsKept, SlotsMatch, Place
<1>6. pc' \in [Messages -> Intake!Pcs]
  BY <1>1 DEF Types, Intake!Pcs
<1>7. SlotsMatch'
  <2> SUFFICES ASSUME NEW n \in Messages PROVE slot'[n] = Place(pc'[n])
    BY DEF SlotsMatch, Place
  <2>1. slot[n] = Place(pc[n])
    BY DEF SlotsKept, SlotsMatch
  <2> QED BY <1>3, <1>4, <1>5, <2>1 DEF Place
<1> QED BY <1>2, <1>5, <1>6, <1>7 DEF SlotsKept

\* An outcome moves a closed breaker nowhere but to open.
LEMMA Recorded ==
  ASSUME Types, NEW outcome \in BOOLEAN, Intake!Record(outcome)
  PROVE  /\ state' \in {"closed", "open", "half-open"}
         /\ state = "closed" => state' # "half-open"
<1>1. CASE ~hasBreaker
  BY <1>1 DEF Intake!Record, Intake!breaker, Types
<1>2. CASE hasBreaker /\ outcome
  <2>1. Intake!Fuse!OnSuccess
    BY <1>2 DEF Intake!Record
  <2> QED BY <2>1, Zenon DEF Intake!Fuse!OnSuccess, Intake!Fuse!Close, Intake!Fuse!Seen, Types
<1>3. CASE hasBreaker /\ ~outcome
  <2>1. Intake!Fuse!OnFailure
    BY <1>3 DEF Intake!Record
  <2> QED BY <2>1, Zenon DEF Intake!Fuse!OnFailure, Intake!Fuse!breaker, Intake!Fuse!Seen, Types
<1> QED BY <1>1, <1>2, <1>3

\* The listener on the breaker keeps the pause set true.
LEMMA BreakerPauses ==
  ASSUME Types, Intake!PauseHasCause, NEW outcome \in BOOLEAN, Intake!Record(outcome),
         reasons' = Intake!ReasonsAfterBreaker(reasons), UNCHANGED over,
         Intake!Publishing \subseteq Intake!Publishing'
  PROVE  /\ Intake!PauseHasCause'
         /\ state' \in {"closed", "open", "half-open"}
         /\ reasons' \subseteq {"breaker", "bus-pressure"}
<1>1. /\ state' \in {"closed", "open", "half-open"}
      /\ state = "closed" => state' # "half-open"
      /\ state \in {"closed", "open", "half-open"} /\ reasons \subseteq {"breaker", "bus-pressure"}
  BY Recorded DEF Types
<1>2. reasons' = IF state # "open" /\ state' = "open" THEN reasons \cup {"breaker"}
                 ELSE IF state # "closed" /\ state' = "closed" THEN reasons \ {"breaker"}
                 ELSE reasons
  BY DEF Intake!ReasonsAfterBreaker
<1>3. "breaker" \in reasons' <=> state' # "closed"
  <2>1. "breaker" \in reasons <=> state # "closed"
    BY DEF Intake!PauseHasCause
  <2> QED BY <1>1, <1>2, <2>1
<1>4. "bus-pressure" \in reasons' <=> "bus-pressure" \in reasons
  BY <1>2
<1>5. /\ over => Intake!Publishing' # {}
      /\ "bus-pressure" \in reasons <=> over
  BY DEF Intake!PauseHasCause
<1> QED BY <1>1, <1>2, <1>3, <1>4, <1>5 DEF Intake!PauseHasCause

\* A step that touches neither the pause set nor the publishes.
LEMMA PausesStay ==
  ASSUME Intake!PauseHasCause, UNCHANGED <<reasons, over, state>>,
         Intake!Publishing \subseteq Intake!Publishing'
  PROVE  Intake!PauseHasCause'
<1> QED BY DEF Intake!PauseHasCause

\* Nothing that happens to another message unsettles this one.
LEMMA StaysSettled ==
  ASSUME NEW n \in Messages, Settled(n),
         dlqFaults \in Nat, dlqFaults' \in Nat, dlqFaults' >= dlqFaults,
         crashes \in Nat, crashes' \in Nat, crashes' >= crashes,
         UNCHANGED <<kind, strategy, waits, hasHooks>>,
         pc'[n] = pc[n] \/ (pc[n] = "waiting" /\ pc'[n] = "normalize"),
         broker'[n] = broker[n],
         n \in pendingAcks' => n \in pendingAcks,
         n \in dispatching => n \in dispatching' \/ n \in dispatched',
         published \subseteq published', dispatched \subseteq dispatched',
         deadLettered \subseteq deadLettered'
  PROVE  Settled(n)'
<1>1. EarlyAcked(n) => EarlyAcked(n)'
  BY DEF EarlyAcked
<1>2. /\ n \in pendingAcks' => broker'[n] = "out" /\ pc'[n] = "none"
      /\ pc'[n] # "none" => broker'[n] = "out" \/ EarlyAcked(n)'
      /\ pc'[n] = "filtered" => kind'[n] = "filtered"
      /\ pc'[n] = "preack" => strategy' = "before-publish"
  BY <1>1 DEF Settled
<1>3. /\ pc'[n] = "publishing" => n \in published' /\ (n \in dispatching' \/ n \in dispatched')
      /\ pc'[n] = "postack" => n \in published' /\ (waits' => n \in dispatched')
      /\ pc'[n] = "failack" => n \in deadLettered' \/ dlqFaults' > 0
  BY DEF Settled
<1>4. Intake!AwaitsDispatch' <=> Intake!AwaitsDispatch
  BY DEF Intake!AwaitsDispatch
<1>5. ASSUME broker'[n] = "acked", dlqFaults' = 0
      PROVE  \/ kind'[n] = "filtered"
             \/ n \in deadLettered'
             \/ n \in IF Intake!AwaitsDispatch' THEN dispatched' ELSE published'
             \/ strategy' = "before-publish" /\ (crashes' > 0 \/ pc'[n] = "publish")
  BY <1>4, <1>5 DEF Settled, EarlyAcked
<1> QED BY <1>2, <1>3, <1>5 DEF Settled
OthersStay(m) ==
  \A n \in Messages \ {m} : pc'[n] = pc[n] \/ (pc[n] = "waiting" /\ pc'[n] = "normalize")

\* A handler's step leaves the other messages as settled as they were.
LEMMA OthersSettled ==
  ASSUME Types, Types', AllSettled, NEW m \in Messages, OthersStay(m),
         dlqFaults' >= dlqFaults, crashes' >= crashes,
         UNCHANGED <<kind, strategy, waits, hasHooks>>,
         \A n \in Messages \ {m} : broker'[n] = broker[n],
         pendingAcks' \subseteq pendingAcks \cup {m},
         dispatching \subseteq dispatching' \cup {m},
         published \subseteq published', dispatched \subseteq dispatched',
         deadLettered \subseteq deadLettered', Settled(m)'
  PROVE  AllSettled'
<1>1. ASSUME NEW n \in Messages \ {m} PROVE Settled(n)'
  <2>1. /\ Settled(n) /\ n \in Messages
        /\ pc'[n] = pc[n] \/ (pc[n] = "waiting" /\ pc'[n] = "normalize")
        /\ broker'[n] = broker[n]
        /\ n \in pendingAcks' => n \in pendingAcks
        /\ n \in dispatching => n \in dispatching' \/ n \in dispatched'
    BY DEF AllSettled, OthersStay
  <2>2. /\ dlqFaults \in Nat /\ dlqFaults' \in Nat /\ crashes \in Nat /\ crashes' \in Nat
    BY DEF Types
  <2> QED BY <2>1, <2>2, StaysSettled
<1> QED BY <1>1 DEF AllSettled

\* A step of a handler that is not publishing ends no publish.
LEMMA PublishingStays ==
  ASSUME NEW m \in Messages, OthersStay(m), pc[m] # "publishing"
  PROVE  Intake!Publishing \subseteq Intake!Publishing'
<1> QED BY DEF OthersStay, Intake!Publishing

\* A nack requeues the message or leaves it unsettled.
LEMMA Nacked ==
  ASSUME Types, NEW m \in Messages, Intake!Nack(m)
  PROVE  /\ broker' \in [Messages -> {"queued", "out", "acked"}]
         /\ broker'[m] = "queued" \/ broker'[m] = broker[m]
         /\ \A n \in Messages \ {m} : broker'[n] = broker[n]
         /\ attempt' \in [Messages -> 0 .. MaxRetries]
         /\ UNCHANGED <<crashes, dlqFaults>>
<1>1. CASE Intake!Requeue({m}) /\ UNCHANGED Intake!budget
  <2>1. /\ broker' = [n \in Messages |-> IF n \in {m} THEN "queued" ELSE broker[n]]
        /\ attempt' = [n \in Messages |->
                         IF n \in {m} /\ attempt[n] < MaxRetries THEN attempt[n] + 1
                         ELSE attempt[n]]
        /\ UNCHANGED <<crashes, dlqFaults>>
    BY <1>1 DEF Intake!Requeue, Intake!budget
  <2>2. \A n \in Messages : attempt[n] \in 0 .. MaxRetries
    BY DEF Types
  <2>3. attempt' \in [Messages -> 0 .. MaxRetries]
    BY <2>1, <2>2, Parameters
  <2> QED BY <2>1, <2>3 DEF Types
<1>2. CASE Intake!AckThrows /\ UNCHANGED <<broker, attempt>>
  BY <1>2 DEF Intake!AckThrows, Types
<1> QED BY <1>1, <1>2 DEF Intake!Nack

-----------------------------------------------------------------------------
(* Each action keeps the invariant                                           *)

LEMMA InitInv == Intake!Init => IntakeInv
<1> SUFFICES ASSUME Intake!Init PROVE IntakeInv OBVIOUS
<1>1. Types
  <2>1. 0 \in 0 .. MaxRetries /\ "none" \in Intake!Pcs
    BY Parameters DEF Intake!Pcs
  <2>2. /\ attempt \in [Messages -> 0 .. MaxRetries]
        /\ pc \in [Messages -> Intake!Pcs]
        /\ broker \in [Messages -> {"queued", "out", "acked"}]
    BY <2>1 DEF Intake!Init
  <2>3. {waits, hasBreaker, hasHooks, over} \subseteq BOOLEAN
    BY EventPartsAssumption DEF Intake!Init, Intake!IntakeParameters
  <2>4. strategy \in {"before-publish", "after-publish", "after-dispatch"}
    BY EventPartsAssumption DEF Intake!Init, Intake!IntakeParameters
  <2> QED BY <2>2, <2>3, <2>4 DEF Intake!Init, Types
<1>2. SlotsKept
  <2>1. Limiter!Init
    BY DEF Intake!Init, Intake!Slots!Init, Limiter!Init
  <2>2. Limiter!Inv
    BY <2>1, Parameters, Limiter!InitInv
  <2> QED BY <2>1, <2>2 DEF SlotsKept, SlotsMatch, Place, Intake!Init, Limiter!Init
<1>3. AllSettled
  BY DEF AllSettled, Settled, Intake!Init
<1>4. Intake!PauseHasCause
  BY DEF Intake!PauseHasCause, Intake!Init
<1> QED BY <1>1, <1>2, <1>3, <1>4 DEF IntakeInv

LEMMA DeliverInv ==
  ASSUME IntakeInv, NEW m \in Messages, Intake!Deliver(m) PROVE IntakeInv'
<1> USE DEF IntakeInv
<1>1. /\ broker[m] = "queued" /\ pc[m] = "none"
      /\ broker' = [broker EXCEPT ![m] = "out"]
      /\ Limiter!Acquire(m)
      /\ pc' = [pc EXCEPT ![m] = IF slot'[m] = "held" THEN "normalize" ELSE "waiting"]
      /\ UNCHANGED <<kind, strategy, waits, hasBreaker, hasHooks, attempt, dispatching,
                     pendingAcks, state, reasons, over, published, dispatched, deadLettered,
                     crashes, dlqFaults>>
  BY DEF Intake!Deliver, Intake!Slots!Acquire, Limiter!Acquire, Intake!built, Intake!breaker,
     Intake!pausing, Intake!history, Intake!budget
<1>2. /\ slot'[m] \in {"held", "waiting"} /\ \A n \in Messages \ {m} : slot'[n] = slot[n]
  BY <1>1 DEF SlotsKept, Limiter!Inv, Limiter!TypeOK, Limiter!Acquire
<1>3. /\ pc'[m] \in {"normalize", "waiting"} /\ Place(pc'[m]) = slot'[m]
      /\ \A n \in Messages \ {m} : pc'[n] = pc[n]
  BY <1>1, <1>2 DEF Types, Place
<1>4. SlotsKept'
  <2>1. Limiter!Inv'
    BY <1>1, Parameters, Limiter!AcquireInv DEF SlotsKept
  <2>2. SlotsMatch'
    BY <1>2, <1>3 DEF SlotsKept, SlotsMatch, Place
  <2> QED BY <2>1, <2>2 DEF SlotsKept
<1>5. Types'
  <2>1. pc' \in [Messages -> Intake!Pcs]
    BY <1>1 DEF Types, Intake!Pcs
  <2> QED BY <1>1, <2>1 DEF Types
<1>6. Settled(m)'
  <2>1. broker'[m] = "out" /\ m \notin pendingAcks'
    BY <1>1 DEF Types, AllSettled, Settled
  <2> QED BY <1>3, <2>1 DEF Settled
<1>7. OthersStay(m)
  BY <1>3 DEF OthersStay
<1>8. AllSettled'
  BY <1>1, <1>5, <1>6, <1>7, OthersSettled DEF Types
<1>9. Intake!PauseHasCause'
  BY <1>1, <1>7, PublishingStays, PausesStay
<1> QED BY <1>4, <1>5, <1>8, <1>9

LEMMA NormalizeInv ==
  ASSUME IntakeInv, NEW m \in Messages, Intake!Normalize(m) PROVE IntakeInv'
<1> USE DEF IntakeInv
<1> DEFINE where == IF kind[m] = "filtered" THEN "filtered"
                    ELSE IF kind[m] = "poison" THEN "failed"
                    ELSE IF strategy = "before-publish" THEN "preack" ELSE "publish"
<1>1. /\ pc[m] = "normalize" /\ Intake!GoTo(m, where)
      /\ UNCHANGED <<state, reasons>> \/ Intake!Failed
      /\ UNCHANGED <<kind, strategy, waits, hasBreaker, hasHooks, broker, attempt, dispatching,
                     pendingAcks, over, published, dispatched, deadLettered, crashes, dlqFaults>>
  BY DEF Intake!Normalize, Intake!built, Intake!breaker, Intake!history, Intake!budget
<1>2. /\ SlotsKept' /\ pc' \in [Messages -> Intake!Pcs]
      /\ pc'[m] = where /\ \A n \in Messages \ {m} : pc'[n] = pc[n]
  <2>1. where \in Intake!Pcs \ {"none", "waiting"} /\ pc[m] \notin {"none", "waiting"}
    BY <1>1 DEF Intake!Pcs
  <2> HIDE DEF where
  <2> QED BY <1>1, <2>1, GoesOn
<1>3. OthersStay(m) /\ Intake!Publishing \subseteq Intake!Publishing'
  BY <1>1, <1>2, PublishingStays DEF OthersStay
<1>4. /\ Intake!PauseHasCause' /\ state' \in {"closed", "open", "half-open"}
      /\ reasons' \subseteq {"breaker", "bus-pressure"}
  <2>1. CASE Intake!Failed
    BY <1>1, <1>3, <2>1, BreakerPauses DEF Intake!Failed
  <2>2. CASE UNCHANGED <<state, reasons>>
    BY <1>1, <1>3, <2>2, PausesStay DEF Types
  <2> QED BY <1>1, <2>1, <2>2
<1>5. Types'
  BY <1>1, <1>2, <1>4 DEF Types
<1>6. Settled(m)'
  <2>1. m \notin pendingAcks /\ broker[m] = "out"
    BY <1>1 DEF AllSettled, Settled, EarlyAcked
  <2>2. kind[m] \in {"good", "filtered", "poison"}
    BY DEF Types
  <2> QED BY <1>1, <1>2, <2>1, <2>2 DEF Settled
<1>7. AllSettled'
  BY <1>1, <1>3, <1>5, <1>6, OthersSettled DEF Types
<1> QED BY <1>2, <1>4, <1>5, <1>7

LEMMA EarlyAckInv ==
  ASSUME IntakeInv, NEW m \in Messages, Intake!EarlyAck(m) PROVE IntakeInv'
<1> USE DEF IntakeInv
<1>1. /\ pc[m] \in {"filtered", "preack"}
      /\ UNCHANGED <<kind, strategy, waits, hasBreaker, hasHooks, attempt, dispatching,
                     pendingAcks, over, published, dispatched, deadLettered, crashes, dlqFaults>>
      /\ \/ /\ broker' = [broker EXCEPT ![m] = "acked"]
            /\ IF pc[m] = "filtered" THEN Intake!Leave(m) ELSE Intake!GoTo(m, "publish")
            /\ UNCHANGED <<state, reasons>>
         \/ Intake!Failed /\ Intake!GoTo(m, "failed") /\ UNCHANGED broker
  BY DEF Intake!EarlyAck, Intake!Settle, Intake!AckThrows, Intake!built, Intake!breaker,
     Intake!history, Intake!budget
<1>2. /\ SlotsKept' /\ pc' \in [Messages -> Intake!Pcs] /\ OthersStay(m)
      /\ \/ pc[m] = "filtered" /\ pc'[m] = "none"
         \/ pc[m] = "preack" /\ pc'[m] = "publish"
         \/ pc'[m] = "failed" /\ UNCHANGED broker
  <2>1. CASE Intake!Leave(m) /\ pc[m] = "filtered"
    BY <2>1, Leaves DEF OthersStay
  <2>2. CASE Intake!GoTo(m, "publish") /\ pc[m] = "preack"
    <3>1. "publish" \in Intake!Pcs \ {"none", "waiting"} BY DEF Intake!Pcs
    <3> QED BY <1>1, <2>2, <3>1, GoesOn DEF OthersStay
  <2>3. CASE Intake!GoTo(m, "failed") /\ UNCHANGED broker
    <3>1. "failed" \in Intake!Pcs \ {"none", "waiting"} BY DEF Intake!Pcs
    <3> QED BY <1>1, <2>3, <3>1, GoesOn DEF OthersStay
  <2> QED BY <1>1, <2>1, <2>2, <2>3
<1>3. Intake!Publishing \subseteq Intake!Publishing'
  BY <1>1, <1>2, PublishingStays
<1>4. /\ Intake!PauseHasCause' /\ state' \in {"closed", "open", "half-open"}
      /\ reasons' \subseteq {"breaker", "bus-pressure"}
  <2>1. CASE Intake!Failed
    BY <1>1, <1>3, <2>1, BreakerPauses DEF Intake!Failed
  <2>2. CASE UNCHANGED <<state, reasons>>
    BY <1>1, <1>3, <2>2, PausesStay DEF Types
  <2> QED BY <1>1, <2>1, <2>2
<1>5. /\ broker' \in [Messages -> {"queued", "out", "acked"}]
      /\ broker'[m] \in {"acked", broker[m]}
      /\ \A n \in Messages \ {m} : broker'[n] = broker[n]
  BY <1>1 DEF Types
<1>6. Types'
  BY <1>1, <1>2, <1>4, <1>5 DEF Types
<1>7. Settled(m)'
  <2>1. /\ m \notin pendingAcks /\ broker[m] = "out"
        /\ pc[m] = "filtered" => kind[m] = "filtered"
        /\ pc[m] = "preack" => strategy = "before-publish"
    BY <1>1 DEF AllSettled, Settled, EarlyAcked
  <2> QED BY <1>1, <1>2, <1>5, <2>1 DEF Settled, EarlyAcked
<1>8. AllSettled'
  BY <1>1, <1>2, <1>5, <1>6, <1>7, OthersSettled DEF Types
<1> QED BY <1>2, <1>4, <1>6, <1>8

LEMMA PublishInv ==
  ASSUME IntakeInv, NEW m \in Messages, Intake!Publish(m) PROVE IntakeInv'
<1> USE DEF IntakeInv
<1>1. /\ pc[m] = "publish" /\ Intake!GoTo(m, "publishing")
      /\ dispatching' = dispatching \cup {m} /\ published' = published \cup {m}
      /\ over' \in BOOLEAN /\ (over => over')
      /\ reasons' = IF over' /\ ~over THEN reasons \cup {"bus-pressure"} ELSE reasons
      /\ UNCHANGED <<kind, strategy, waits, hasBreaker, hasHooks, broker, attempt, pendingAcks,
                     state, dispatched, deadLettered, crashes, dlqFaults>>
  BY DEF Intake!Publish, Intake!built, Intake!breaker, Intake!budget, Types
<1>2. /\ SlotsKept' /\ pc' \in [Messages -> Intake!Pcs] /\ OthersStay(m)
      /\ pc'[m] = "publishing"
  <2>1. "publishing" \in Intake!Pcs \ {"none", "waiting"} BY DEF Intake!Pcs
  <2> QED BY <1>1, <2>1, GoesOn DEF OthersStay
<1>3. Intake!PauseHasCause'
  <2>1. m \in Intake!Publishing'
    BY <1>2 DEF Intake!Publishing
  <2> QED BY <1>1, <2>1 DEF Intake!PauseHasCause, Types
<1>4. Types'
  BY <1>1, <1>2 DEF Types
<1>5. Settled(m)'
  <2>1. /\ m \notin pendingAcks /\ (broker[m] = "out" \/ strategy = "before-publish")
        /\ broker[m] \in {"queued", "out", "acked"}
    BY <1>1 DEF AllSettled, Settled, EarlyAcked, Types
  <2>2. strategy = "before-publish" => ~Intake!AwaitsDispatch'
    BY <1>1 DEF Intake!AwaitsDispatch
  <2> QED BY <1>1, <1>2, <2>1, <2>2 DEF Settled, EarlyAcked
<1>6. AllSettled'
  BY <1>1, <1>2, <1>4, <1>5, OthersSettled DEF Types
<1> QED BY <1>2, <1>3, <1>4, <1>6

LEMMA AfterHookInv ==
  ASSUME IntakeInv, NEW m \in Messages, Intake!AfterHook(m) PROVE IntakeInv'
<1> USE DEF IntakeInv
<1>1. /\ m \in dispatching /\ dispatching' = dispatching \ {m}
      /\ dispatched' = dispatched \cup {m} /\ pendingAcks' = pendingAcks \ {m}
      /\ broker' = [broker EXCEPT ![m] = IF m \in pendingAcks THEN "acked" ELSE @]
      /\ UNCHANGED <<kind, strategy, waits, hasBreaker, hasHooks, attempt, pc, inflight, waiters,
                     slot, state, reasons, over, published, deadLettered, crashes, dlqFaults>>
  BY DEF Intake!AfterHook, Intake!built, Intake!limiter, Intake!breaker, Intake!pausing, Intake!budget
<1>2. SlotsKept'
  BY <1>1, Parameters, Limiter!StepInv DEF SlotsKept, SlotsMatch, Place, Limiter!limiter
<1>3. Intake!PauseHasCause'
  BY <1>1, PausesStay DEF Intake!Publishing
<1>4. /\ broker'[m] = IF m \in pendingAcks THEN "acked" ELSE broker[m]
      /\ \A n \in Messages \ {m} : broker'[n] = broker[n]
      /\ broker' \in [Messages -> {"queued", "out", "acked"}]
  BY <1>1 DEF Types
<1>5. Types'
  BY <1>1, <1>4 DEF Types
<1>6. Settled(m)'
  <2>1. Settled(m) /\ m \in published
    BY <1>1 DEF AllSettled, Types
  <2>2. Intake!AwaitsDispatch' <=> Intake!AwaitsDispatch
    BY <1>1 DEF Intake!AwaitsDispatch
  <2>3. CASE m \in pendingAcks
    <3>1. pc[m] = "none"
      BY <2>1, <2>3 DEF Settled
    <3> QED BY <1>1, <1>4, <2>1, <2>2, <2>3, <3>1 DEF Settled
  <2>4. CASE m \notin pendingAcks
    BY <1>1, <1>4, <2>1, <2>2, <2>4 DEF Settled, EarlyAcked
  <2> QED BY <2>3, <2>4
<1>7. OthersStay(m)
  BY <1>1 DEF OthersStay
<1>8. AllSettled'
  BY <1>1, <1>4, <1>5, <1>6, <1>7, OthersSettled DEF Types
<1> QED BY <1>2, <1>3, <1>5, <1>8

\* The listener falls below its mark at the latest when nothing is published.
LEMMA PublishResolvesInv ==
  ASSUME IntakeInv, NEW m \in Messages, Intake!PublishResolves(m) PROVE IntakeInv'
<1> USE DEF IntakeInv
<1>1. /\ pc[m] = "publishing" /\ (waits => m \notin dispatching)
      /\ Intake!PressureFalls /\ Intake!GoTo(m, "postack")
      /\ UNCHANGED <<kind, strategy, waits, hasBreaker, hasHooks, broker, attempt, dispatching,
                     pendingAcks, state, published, dispatched, deadLettered, crashes, dlqFaults>>
  BY DEF Intake!PublishResolves, Intake!Publishing, Intake!built, Intake!breaker, Intake!history,
     Intake!budget
<1>2. /\ SlotsKept' /\ pc' \in [Messages -> Intake!Pcs] /\ OthersStay(m)
      /\ pc'[m] = "postack" /\ \A n \in Messages \ {m} : pc'[n] = pc[n]
  <2>1. "postack" \in Intake!Pcs \ {"none", "waiting"} BY DEF Intake!Pcs
  <2> QED BY <1>1, <2>1, GoesOn DEF OthersStay
<1>3. /\ over' = (over /\ Cardinality(Intake!Publishing) - 1 > Low)
      /\ reasons' = IF over /\ ~over' THEN reasons \ {"bus-pressure"} ELSE reasons
  BY <1>1, OneCardinality DEF Intake!PressureFalls
<1>4. over' => Intake!Publishing' # {}
  <2> SUFFICES ASSUME over', Intake!Publishing' = {} PROVE FALSE
    OBVIOUS
  <2>1. Intake!Publishing = {m}
    BY <1>1, <1>2 DEF Intake!Publishing
  <2>2. Cardinality(Intake!Publishing) = 1
    BY <2>1, FS_Singleton
  <2>3. ~(1 - 1 > Low)
    BY Parameters
  <2> QED BY <1>3, <2>2, <2>3
<1>5. Intake!PauseHasCause' /\ over' \in BOOLEAN /\ reasons' \subseteq {"breaker", "bus-pressure"}
  <2>1. over' \in BOOLEAN /\ over \in BOOLEAN /\ (over' => over)
    BY <1>3 DEF Types
  <2>2. /\ "breaker" \in reasons' <=> "breaker" \in reasons
        /\ "bus-pressure" \in reasons' <=> "bus-pressure" \in reasons /\ ~(over /\ ~over')
        /\ reasons' \subseteq {"breaker", "bus-pressure"}
    BY <1>3 DEF Types
  <2>3. /\ "breaker" \in reasons <=> state # "closed"
        /\ "bus-pressure" \in reasons <=> over
    BY DEF Intake!PauseHasCause
  <2>4. "bus-pressure" \in reasons' <=> over'
    BY <2>1, <2>2, <2>3
  <2> QED BY <1>1, <1>4, <2>1, <2>2, <2>3, <2>4 DEF Intake!PauseHasCause
<1>6. Types'
  BY <1>1, <1>2, <1>5 DEF Types
<1>7. Settled(m)'
  <2>1. /\ Settled(m)
        /\ m \in published /\ (waits => m \in dispatched)
    BY <1>1 DEF AllSettled, Settled
  <2>2. Intake!AwaitsDispatch' <=> Intake!AwaitsDispatch
    BY <1>1 DEF Intake!AwaitsDispatch
  <2> QED BY <1>1, <1>2, <2>1, <2>2 DEF Settled, EarlyAcked
<1>8. AllSettled'
  BY <1>1, <1>2, <1>6, <1>7, OthersSettled DEF Types
<1> QED BY <1>2, <1>5, <1>6, <1>8

LEMMA AfterPublishInv ==
  ASSUME IntakeInv, NEW m \in Messages, Intake!AfterPublish(m) PROVE IntakeInv'
<1> USE DEF IntakeInv
<1>1. /\ pc[m] = "postack"
      /\ UNCHANGED <<kind, strategy, waits, hasBreaker, hasHooks, attempt, dispatching, over,
                     published, dispatched, deadLettered, crashes, dlqFaults>>
      /\ \/ Intake!Leave(m) /\ Intake!Succeeded
         \/ Intake!GoTo(m, "failed") /\ Intake!Failed
            /\ strategy = "after-publish" /\ UNCHANGED <<broker, pendingAcks>>
  BY DEF Intake!AfterPublish, Intake!AckUnheard, Intake!RegisterPendingAck, Intake!AckThrows,
     Intake!built, Intake!history, Intake!budget
<1>2. \/ strategy = "before-publish" /\ UNCHANGED <<broker, pendingAcks>>
      \/ strategy # "before-publish" /\ broker' \in {broker, [broker EXCEPT ![m] = "acked"]}
         /\ (strategy = "after-dispatch" => ~hasHooks) /\ UNCHANGED pendingAcks
      \/ /\ strategy = "after-dispatch" /\ pendingAcks' = pendingAcks \cup {m}
         /\ UNCHANGED broker /\ Intake!Leave(m)
  BY <1>1 DEF Intake!AfterPublish, Intake!AckUnheard, Intake!RegisterPendingAck, Intake!Settle
<1>3. /\ SlotsKept' /\ pc' \in [Messages -> Intake!Pcs] /\ OthersStay(m)
      /\ \/ Intake!Leave(m) /\ pc'[m] = "none"
         \/ strategy = "after-publish" /\ pc'[m] = "failed" /\ UNCHANGED <<broker, pendingAcks>>
  <2>1. CASE Intake!Leave(m)
    BY <2>1, Leaves DEF OthersStay
  <2>2. CASE Intake!GoTo(m, "failed") /\ strategy = "after-publish" /\ UNCHANGED <<broker, pendingAcks>>
    <3>1. "failed" \in Intake!Pcs \ {"none", "waiting"} BY DEF Intake!Pcs
    <3> QED BY <1>1, <2>2, <3>1, GoesOn DEF OthersStay
  <2> QED BY <1>1, <2>1, <2>2
<1>4. /\ Intake!PauseHasCause' /\ state' \in {"closed", "open", "half-open"}
      /\ reasons' \subseteq {"breaker", "bus-pressure"}
  <2>1. Intake!Publishing \subseteq Intake!Publishing'
    BY <1>1, <1>3, PublishingStays
  <2>2. CASE Intake!Failed
    BY <1>1, <2>1, <2>2, BreakerPauses DEF Intake!Failed
  <2>3. CASE Intake!Succeeded
    BY <1>1, <2>1, <2>3, BreakerPauses DEF Intake!Succeeded
  <2> QED BY <1>1, <2>2, <2>3
<1>5. /\ broker' \in [Messages -> {"queued", "out", "acked"}]
      /\ \A n \in Messages \ {m} : broker'[n] = broker[n]
      /\ broker'[m] \in {broker[m], "acked"}
      /\ pendingAcks' \subseteq pendingAcks \cup {m}
  BY <1>2 DEF Types
<1>6. Types'
  BY <1>1, <1>3, <1>4, <1>5 DEF Types
<1>7. Settled(m)'
  <2>1. /\ m \notin pendingAcks /\ m \in published /\ (waits => m \in dispatched)
        /\ strategy # "before-publish" => broker[m] = "out"
        /\ Settled(m)
    BY <1>1 DEF AllSettled, Settled, EarlyAcked
  <2>2. CASE strategy = "before-publish" /\ UNCHANGED <<broker, pendingAcks>>
    <3>1. pc'[m] = "none" /\ ~Intake!AwaitsDispatch'
      BY <1>1, <1>3, <2>2 DEF Intake!AwaitsDispatch
    <3> QED BY <1>1, <2>1, <2>2, <3>1 DEF Settled
  <2>3. CASE /\ strategy # "before-publish" /\ (strategy = "after-dispatch" => ~hasHooks)
             /\ UNCHANGED pendingAcks
    <3>1. m \in IF Intake!AwaitsDispatch' THEN dispatched' ELSE published'
      BY <1>1, <2>1, <2>3 DEF Intake!AwaitsDispatch
    <3>2. pc'[m] = "none" \/ (pc'[m] = "failed" /\ broker'[m] = "out")
      BY <1>3, <2>1, <2>3
    <3> QED BY <1>5, <2>1, <2>3, <3>1, <3>2 DEF Settled
  <2>4. CASE /\ strategy = "after-dispatch" /\ pendingAcks' = pendingAcks \cup {m}
             /\ UNCHANGED broker
    <3>1. pc'[m] = "none" /\ broker'[m] = "out"
      BY <1>3, <2>1, <2>4
    <3> QED BY <3>1 DEF Settled
  <2> QED BY <1>2, <2>2, <2>3, <2>4
<1>8. AllSettled'
  BY <1>1, <1>3, <1>5, <1>6, <1>7, OthersSettled DEF Types
<1> QED BY <1>3, <1>4, <1>6, <1>8

LEMMA AckTimeoutInv ==
  ASSUME IntakeInv, NEW m \in Messages, Intake!AckTimeout(m) PROVE IntakeInv'
<1> USE DEF IntakeInv
<1>1. /\ m \in pendingAcks /\ pendingAcks' = pendingAcks \ {m} /\ Intake!Nack(m)
      /\ UNCHANGED <<kind, strategy, waits, hasBreaker, hasHooks, pc, dispatching, inflight,
                     waiters, slot, state, reasons, over, published, dispatched, deadLettered>>
  BY DEF Intake!AckTimeout, Intake!built, Intake!limiter, Intake!breaker, Intake!pausing,
     Intake!history
<1>2. /\ broker' \in [Messages -> {"queued", "out", "acked"}]
      /\ broker'[m] = "queued" \/ broker'[m] = broker[m]
      /\ \A n \in Messages \ {m} : broker'[n] = broker[n]
      /\ attempt' \in [Messages -> 0 .. MaxRetries]
      /\ UNCHANGED <<crashes, dlqFaults>>
  BY <1>1, Nacked
<1>3. SlotsKept'
  BY <1>1, Parameters, Limiter!StepInv DEF SlotsKept, SlotsMatch, Place, Limiter!limiter
<1>4. Intake!PauseHasCause'
  BY <1>1, PausesStay DEF Intake!Publishing
<1>5. Types'
  BY <1>1, <1>2 DEF Types
<1>6. Settled(m)'
  <2>1. broker[m] = "out" /\ pc[m] = "none"
    BY <1>1 DEF AllSettled, Settled
  <2> QED BY <1>1, <1>2, <2>1 DEF Settled
<1>7. OthersStay(m)
  BY <1>1 DEF OthersStay
<1>8. AllSettled'
  BY <1>1, <1>2, <1>5, <1>6, <1>7, OthersSettled DEF Types
<1> QED BY <1>3, <1>4, <1>5, <1>8

LEMMA FailureInv ==
  ASSUME IntakeInv, NEW m \in Messages, Intake!Failure(m) PROVE IntakeInv'
<1> USE DEF IntakeInv
<1>1. /\ pc[m] = "failed"
      /\ UNCHANGED <<kind, strategy, waits, hasBreaker, hasHooks, dispatching, pendingAcks,
                     state, reasons, over, published, dispatched, deadLettered>>
      /\ \/ Intake!Nack(m) /\ Intake!Leave(m)
         \/ Intake!GoTo(m, "dlq") /\ UNCHANGED <<broker, attempt, crashes, dlqFaults>>
  BY DEF Intake!Failure, Intake!built, Intake!breaker, Intake!pausing, Intake!history, Intake!budget
<1>2. /\ broker' \in [Messages -> {"queued", "out", "acked"}]
      /\ broker'[m] = "queued" \/ broker'[m] = broker[m]
      /\ \A n \in Messages \ {m} : broker'[n] = broker[n]
      /\ attempt' \in [Messages -> 0 .. MaxRetries]
      /\ UNCHANGED <<crashes, dlqFaults>>
  BY <1>1, Nacked DEF Types
<1>3. /\ SlotsKept' /\ pc' \in [Messages -> Intake!Pcs] /\ OthersStay(m)
      /\ pc'[m] = "none" \/ (pc'[m] = "dlq" /\ UNCHANGED broker)
  <2>1. CASE Intake!Leave(m)
    BY <2>1, Leaves DEF OthersStay
  <2>2. CASE Intake!GoTo(m, "dlq") /\ UNCHANGED broker
    <3>1. "dlq" \in Intake!Pcs \ {"none", "waiting"} BY DEF Intake!Pcs
    <3> QED BY <1>1, <2>2, <3>1, GoesOn DEF OthersStay
  <2> QED BY <1>1, <2>1, <2>2
<1>4. Intake!PauseHasCause'
  BY <1>1, <1>3, PublishingStays, PausesStay
<1>5. Types'
  BY <1>1, <1>2, <1>3 DEF Types
<1>6. Settled(m)'
  <2>1. m \notin pendingAcks /\ broker[m] = "out"
    BY <1>1 DEF AllSettled, Settled, EarlyAcked
  <2> QED BY <1>1, <1>2, <1>3, <2>1 DEF Settled
<1>7. AllSettled'
  BY <1>1, <1>2, <1>3, <1>5, <1>6, OthersSettled DEF Types
<1> QED BY <1>3, <1>4, <1>5, <1>7

LEMMA DeadLetterInv ==
  ASSUME IntakeInv, NEW m \in Messages, Intake!DeadLetter(m) PROVE IntakeInv'
<1> USE DEF IntakeInv
<1>1. /\ pc[m] = "dlq" /\ Intake!GoTo(m, "failack")
      /\ \/ deadLettered' = deadLettered \cup {m} /\ UNCHANGED dlqFaults
         \/ dlqFaults' = dlqFaults + 1 /\ UNCHANGED deadLettered
      /\ UNCHANGED <<kind, strategy, waits, hasBreaker, hasHooks, broker, attempt, dispatching,
                     pendingAcks, state, reasons, over, published, dispatched, crashes>>
  BY DEF Intake!DeadLetter, Intake!built, Intake!breaker, Intake!pausing
<1>2. /\ SlotsKept' /\ pc' \in [Messages -> Intake!Pcs] /\ OthersStay(m)
      /\ pc'[m] = "failack"
  <2>1. "failack" \in Intake!Pcs \ {"none", "waiting"} BY DEF Intake!Pcs
  <2> QED BY <1>1, <2>1, GoesOn DEF OthersStay
<1>3. Intake!PauseHasCause'
  BY <1>1, <1>2, PublishingStays, PausesStay
<1>4. Types' /\ dlqFaults' >= dlqFaults /\ deadLettered \subseteq deadLettered'
  BY <1>1, <1>2 DEF Types
<1>5. Settled(m)'
  <2>1. m \notin pendingAcks /\ broker[m] = "out" /\ dlqFaults \in Nat
    BY <1>1 DEF AllSettled, Settled, EarlyAcked, Types
  <2> QED BY <1>1, <1>2, <2>1 DEF Settled
<1>6. AllSettled'
  BY <1>1, <1>2, <1>4, <1>5, OthersSettled DEF Types
<1> QED BY <1>2, <1>3, <1>4, <1>6

LEMMA FailAckInv ==
  ASSUME IntakeInv, NEW m \in Messages, Intake!FailAck(m) PROVE IntakeInv'
<1> USE DEF IntakeInv
<1>1. /\ pc[m] = "failack" /\ Intake!Leave(m)
      /\ broker' \in {broker, [broker EXCEPT ![m] = "acked"]}
      /\ UNCHANGED <<kind, strategy, waits, hasBreaker, hasHooks, attempt, dispatching,
                     pendingAcks, state, reasons, over, published, dispatched, deadLettered,
                     crashes, dlqFaults>>
  BY DEF Intake!FailAck, Intake!Settle, Intake!AckThrows, Intake!built, Intake!breaker,
     Intake!pausing, Intake!history, Intake!budget
<1>2. SlotsKept' /\ pc' \in [Messages -> Intake!Pcs] /\ OthersStay(m) /\ pc'[m] = "none"
  BY <1>1, Leaves DEF OthersStay
<1>3. Intake!PauseHasCause'
  BY <1>1, <1>2, PublishingStays, PausesStay
<1>4. /\ broker' \in [Messages -> {"queued", "out", "acked"}]
      /\ \A n \in Messages \ {m} : broker'[n] = broker[n]
  BY <1>1 DEF Types
<1>5. Types'
  BY <1>1, <1>2, <1>4 DEF Types
<1>6. Settled(m)'
  <2>1. m \notin pendingAcks /\ (m \in deadLettered \/ dlqFaults > 0) /\ dlqFaults \in Nat
    BY <1>1 DEF AllSettled, Settled, Types
  <2> QED BY <1>1, <1>2, <2>1 DEF Settled
<1>7. AllSettled'
  BY <1>1, <1>2, <1>4, <1>5, <1>6, OthersSettled DEF Types
<1> QED BY <1>2, <1>3, <1>5, <1>7

LEMMA CoolDownInv == ASSUME IntakeInv, Intake!CoolDown PROVE IntakeInv'
<1> USE DEF IntakeInv
<1>1. UNCHANGED <<kind, strategy, waits, hasBreaker, hasHooks, broker, attempt, pc, dispatching,
                  pendingAcks, inflight, waiters, slot, state, reasons, over, published,
                  dispatched, deadLettered, crashes, dlqFaults>>
  BY DEF Intake!CoolDown, Intake!Fuse!CoolDown, Intake!built, Intake!limiter, Intake!pausing,
     Intake!history, Intake!budget
<1>2. Types'
  BY <1>1 DEF Types
<1>3. SlotsKept'
  BY <1>1, Parameters, Limiter!StepInv DEF SlotsKept, SlotsMatch, Place, Limiter!limiter
<1>4. AllSettled' /\ Intake!PauseHasCause'
  BY <1>1 DEF AllSettled, Settled, EarlyAcked, Intake!AwaitsDispatch, Intake!PauseHasCause,
     Intake!Publishing
<1> QED BY <1>2, <1>3, <1>4

LEMMA ExpireInv ==
  ASSUME IntakeInv, NEW m \in Messages, Intake!Expire(m) PROVE IntakeInv'
<1> USE DEF IntakeInv
<1>1. /\ pc[m] = "none" /\ m \notin pendingAcks
      /\ Intake!Requeue({m}) /\ UNCHANGED Intake!budget
      /\ UNCHANGED <<kind, strategy, waits, hasBreaker, hasHooks, pc, dispatching, pendingAcks,
                     inflight, waiters, slot, state, reasons, over, published, dispatched,
                     deadLettered, crashes, dlqFaults>>
  BY DEF Intake!Expire, Intake!built, Intake!limiter, Intake!breaker, Intake!pausing,
     Intake!history, Intake!budget
<1>2. /\ broker' \in [Messages -> {"queued", "out", "acked"}] /\ broker'[m] = "queued"
      /\ \A n \in Messages \ {m} : broker'[n] = broker[n]
      /\ attempt' \in [Messages -> 0 .. MaxRetries]
  <2>1. Intake!Nack(m)
    BY <1>1 DEF Intake!Nack
  <2>2. broker'[m] = "queued"
    BY <1>1 DEF Intake!Requeue
  <2> QED BY <2>1, <2>2, Nacked
<1>3. SlotsKept'
  BY <1>1, Parameters, Limiter!StepInv DEF SlotsKept, SlotsMatch, Place, Limiter!limiter
<1>4. Intake!PauseHasCause'
  BY <1>1, PausesStay DEF Intake!Publishing
<1>5. Types'
  BY <1>1, <1>2 DEF Types
<1>6. Settled(m)'
  BY <1>1, <1>2 DEF Settled
<1>7. OthersStay(m)
  BY <1>1 DEF OthersStay
<1>8. AllSettled'
  BY <1>1, <1>2, <1>5, <1>6, <1>7, OthersSettled DEF Types
<1> QED BY <1>3, <1>4, <1>5, <1>8

\* A restarted process starts with the limiter's initial state.
LEMMA FreshLimiter == Limiter!Init => Limiter!Inv
<1> QED BY Parameters, Limiter!InitInv

LEMMA CrashInv == ASSUME IntakeInv, Intake!Crash PROVE IntakeInv'
<1> USE DEF IntakeInv
<1>1. /\ crashes' = crashes + 1 /\ Intake!Requeue({m \in Messages : broker[m] = "out"})
      /\ pc' = [m \in Messages |-> "none"] /\ dispatching' = {} /\ pendingAcks' = {}
      /\ inflight' = 0 /\ waiters' = <<>> /\ slot' = [m \in Messages |-> "none"]
      /\ state' = "closed" /\ reasons' = {} /\ over' = FALSE
      /\ UNCHANGED <<kind, strategy, waits, hasBreaker, hasHooks, published, dispatched,
                     deadLettered, dlqFaults>>
  BY DEF Intake!Crash, Intake!built, Intake!history
<1>2. /\ \A m \in Messages : broker'[m] = IF broker[m] = "out" THEN "queued" ELSE broker[m]
      /\ broker' \in [Messages -> {"queued", "out", "acked"}]
      /\ attempt' \in [Messages -> 0 .. MaxRetries]
  <2>1. /\ broker' = [m \in Messages |-> IF m \in {k \in Messages : broker[k] = "out"}
                                         THEN "queued" ELSE broker[m]]
        /\ attempt' = [m \in Messages |->
                         IF m \in {k \in Messages : broker[k] = "out"} /\ attempt[m] < MaxRetries
                         THEN attempt[m] + 1 ELSE attempt[m]]
    BY <1>1 DEF Intake!Requeue
  <2>2. \A m \in Messages : attempt[m] \in 0 .. MaxRetries
    BY DEF Types
  <2>3. attempt' \in [Messages -> 0 .. MaxRetries]
    BY <2>1, <2>2, Parameters
  <2> QED BY <2>1, <2>3 DEF Types
<1>3. Types'
  <2>1. pc' \in [Messages -> Intake!Pcs]
    BY <1>1 DEF Intake!Pcs
  <2>2. crashes' \in Nat /\ dlqFaults' \in Nat
    BY <1>1 DEF Types
  <2>3. {waits', hasBreaker', hasHooks', over'} \subseteq BOOLEAN
    BY <1>1 DEF Types
  <2>4. dispatching' \subseteq published' /\ published' \subseteq Messages
    BY <1>1 DEF Types
  <2> QED BY <1>1, <1>2, <2>1, <2>2, <2>3, <2>4 DEF Types
<1>4. SlotsKept'
  <2>1. Limiter!Init'
    BY <1>1 DEF Limiter!Init
  <2>2. Limiter!Inv'
    <3>1. (Limiter!Init => Limiter!Inv)'
      BY FreshLimiter, PTL
    <3> QED BY <2>1, <3>1
  <2> QED BY <1>1, <2>2 DEF SlotsKept, SlotsMatch, Place
<1>5. AllSettled'
  <2> SUFFICES ASSUME NEW m \in Messages PROVE Settled(m)'
    BY DEF AllSettled
  <2>1. Settled(m) /\ crashes \in Nat
    BY DEF AllSettled, Types
  <2>2. Intake!AwaitsDispatch' <=> Intake!AwaitsDispatch
    BY <1>1 DEF Intake!AwaitsDispatch
  <2> QED BY <1>1, <1>2, <2>1, <2>2 DEF Settled
<1>6. Intake!PauseHasCause'
  BY <1>1 DEF Intake!PauseHasCause
<1> QED BY <1>3, <1>4, <1>5, <1>6

LEMMA StutterInv == ASSUME IntakeInv, UNCHANGED Intake!vars PROVE IntakeInv'
<1> USE DEF IntakeInv
<1>1. UNCHANGED <<kind, strategy, waits, hasBreaker, hasHooks, broker, attempt, pc, dispatching,
                  pendingAcks, inflight, waiters, slot, state, reasons, over, published,
                  dispatched, deadLettered, crashes, dlqFaults>>
  BY DEF Intake!vars, Intake!built, Intake!limiter, Intake!breaker, Intake!pausing,
     Intake!history, Intake!budget
<1>2. Types'
  BY <1>1 DEF Types
<1>3. SlotsKept'
  BY <1>1, Parameters, Limiter!StepInv DEF SlotsKept, SlotsMatch, Place, Limiter!limiter
<1>4. AllSettled' /\ Intake!PauseHasCause'
  BY <1>1 DEF AllSettled, Settled, EarlyAcked, Intake!AwaitsDispatch, Intake!PauseHasCause,
     Intake!Publishing
<1> QED BY <1>2, <1>3, <1>4

LEMMA StepInv == IntakeInv /\ [Intake!Next]_(Intake!vars) => IntakeInv'
<1> SUFFICES ASSUME IntakeInv, [Intake!Next]_(Intake!vars) PROVE IntakeInv' OBVIOUS
<1>1. ASSUME NEW m \in Messages, Intake!Handle(m) PROVE IntakeInv'
  BY <1>1, NormalizeInv, EarlyAckInv, PublishInv, PublishResolvesInv, AfterPublishInv,
     FailureInv, DeadLetterInv, FailAckInv DEF Intake!Handle
<1>2. ASSUME NEW m \in Messages,
             \/ Intake!Deliver(m) \/ Intake!AfterHook(m) \/ Intake!AckTimeout(m)
             \/ Intake!Expire(m)
      PROVE  IntakeInv'
  BY <1>2, DeliverInv, AfterHookInv, AckTimeoutInv, ExpireInv
<1>3. CASE Intake!CoolDown
  BY <1>3, CoolDownInv
<1>4. CASE Intake!Crash
  BY <1>4, CrashInv
<1>5. CASE UNCHANGED Intake!vars
  BY <1>5, StutterInv
<1> QED BY <1>1, <1>2, <1>3, <1>4, <1>5 DEF Intake!Next

LEMMA AlwaysInv == Intake!Spec => []IntakeInv
<1> QED BY InitInv, StepInv, PTL DEF Intake!Spec

-----------------------------------------------------------------------------
(* What the run checks                                                       *)

\* The semaphore counts the handlers inside on every path out of handleMessage,
\* and every variable of the source has its type (base-source.ts, concurrency.ts).
THEOREM SourceSound == Intake!Spec => []IntakeSound
<1>1. IntakeInv => IntakeSound
  <2> SUFFICES ASSUME IntakeInv PROVE Intake!TypeOK /\ Intake!SlotsSound
    BY DEF IntakeSound
  <2>1. Types /\ SlotsMatch /\ Limiter!TypeOK /\ Limiter!SlotsCounted /\ Limiter!NoIdleSlot
        /\ Limiter!QueueIsWaiters
    BY DEF IntakeInv, SlotsKept, Limiter!Inv
  <2>2. pendingAcks \subseteq {m \in Messages : broker[m] = "out"}
    BY DEF IntakeInv, AllSettled, Settled, Types
  <2>3. Intake!Slots!TypeOK
    BY <2>1 DEF Intake!Slots!TypeOK, Limiter!TypeOK
  <2>4. Intake!TypeOK
    BY <2>1, <2>2, <2>3 DEF Types, Intake!TypeOK
  <2>5. \A m \in Messages : slot[m] = CASE pc[m] = "none" -> "none"
                                        [] pc[m] = "waiting" -> "waiting"
                                        [] OTHER -> "held"
    BY <2>1 DEF SlotsMatch, Place
  <2>6. Intake!Slots!SlotsCounted
    BY <2>1, OneCardinality
    DEF Intake!Slots!SlotsCounted, Intake!Slots!Holders, Limiter!SlotsCounted, Limiter!Holders
  <2>7. Intake!Slots!NoIdleSlot /\ Intake!Slots!QueueIsWaiters
    BY <2>1 DEF Intake!Slots!NoIdleSlot, Intake!Slots!QueueIsWaiters, Intake!Slots!Waiting,
       Limiter!NoIdleSlot, Limiter!QueueIsWaiters, Limiter!Waiting
  <2> QED BY <2>4, <2>5, <2>6, <2>7 DEF Intake!SlotsSound
<1> QED BY <1>1, AlwaysInv, PTL

\* Nothing is acked that was not filtered, dead-lettered or done with, whatever
\* the acknowledgement strategy, across crashes and failing acks (handleMessage,
\* handleFailure, registerPendingAck).
THEOREM NothingDropped == Intake!Spec => []AckedIsHandled
<1>1. IntakeInv => AckedIsHandled
  BY DEF IntakeInv, AllSettled, Settled, AckedIsHandled, Intake!AckedIsHandled
<1> QED BY <1>1, AlwaysInv, PTL

\* The pause set says why the source is paused (wireBreakerListener, the bus
\* pressure listener).
THEOREM PausedForCause == Intake!Spec => []PauseHasCause
<1>1. IntakeInv => PauseHasCause
  BY DEF IntakeInv, PauseHasCause
<1> QED BY <1>1, AlwaysInv, PTL
=============================================================================
