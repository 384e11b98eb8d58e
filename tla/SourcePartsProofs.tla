------------------------- MODULE SourcePartsProofs -------------------------
(***************************************************************************)
(* The source layer for every value of the constants: the circuit breaker,   *)
(* asynchronous pausing and the Kafka source, each on its own, as the run of  *)
(* SourcePartsMC puts them side by side.                                     *)
(***************************************************************************)
EXTENDS SourcePartsMC, SequenceTheorems, TLAPS

-----------------------------------------------------------------------------
(* The breaker, for every set of callers and all thresholds.  BreakerInv is  *)
(* the inductive invariant: the type invariant (its range of successes needs *)
(* the reset at the threshold) with ClosedHasBudget.                         *)

BreakerInv == TypeOK /\ ClosedHasBudget

\* Zero is a legal value of both counters, and one below each threshold.
LEMMA ZeroFits ==
  /\ 0 \in 0 .. FailureThreshold /\ 0 < FailureThreshold
  /\ 0 \in 0 .. (SuccessThreshold - 1)
  /\ 0 \in 0 .. MaxOperations
<1> QED BY BreakerAssumption

\* The saturating counter stays in range, and counts below the threshold.
LEMMA CountsFailures ==
  ASSUME failures \in 0 .. FailureThreshold, OneMoreFailure
  PROVE  /\ failures' \in 0 .. FailureThreshold
         /\ failures < FailureThreshold => failures' = failures + 1
<1> QED BY BreakerAssumption DEF OneMoreFailure

LEMMA BreakerInit == Init => BreakerInv
<1> QED BY ZeroFits DEF Init, BreakerInv, TypeOK, ClosedHasBudget, States

\* Recording an outcome keeps the breaker coherent, in whatever state it
\* comes (onSuccess, onFailure).
LEMMA OutcomeInv ==
  ASSUME BreakerInv, OnSuccess \/ OnFailure, UNCHANGED <<healthy, operations>>,
         call' \in [Callers -> {"none", "closed", "half-open"}]
  PROVE  BreakerInv'
<1>0. TypeOK /\ ClosedHasBudget BY DEF BreakerInv
<1>1. CASE OnSuccess
  <2>1. CASE Seen = "half-open" /\ successes + 1 >= SuccessThreshold
    <3>1. Close
      BY <1>0, <1>1, <2>1, BreakerAssumption DEF OnSuccess, TypeOK
    <3> QED BY <1>0, <3>1, ZeroFits
            DEF Close, BreakerInv, TypeOK, ClosedHasBudget, States
  <2>2. CASE Seen = "half-open" /\ successes + 1 < SuccessThreshold
    <3>1. successes + 1 \in 0 .. (SuccessThreshold - 1)
      BY <1>0, <2>2, BreakerAssumption DEF TypeOK
    <3>2. /\ state' = "half-open" /\ cooled' = FALSE
          /\ successes' = successes + 1 /\ failures' = 0
      BY <1>0, <1>1, <2>2, BreakerAssumption DEF OnSuccess, TypeOK
    <3> QED BY <1>0, <3>1, <3>2, ZeroFits
            DEF BreakerInv, TypeOK, ClosedHasBudget, States
  <2>3. CASE Seen # "half-open"
    BY <1>0, <1>1, <2>3, ZeroFits
       DEF OnSuccess, Close, BreakerInv, TypeOK, ClosedHasBudget, States
  <2> QED BY <1>0, <2>1, <2>2, <2>3, BreakerAssumption DEF TypeOK
<1>2. CASE OnFailure
  <2>1. CASE Seen = "half-open"
    BY <1>0, <1>2, <2>1, ZeroFits, CountsFailures
       DEF OnFailure, BreakerInv, TypeOK, ClosedHasBudget, States
  <2>2. CASE Seen = "open"
    BY <1>0, <1>2, <2>2
       DEF OnFailure, breaker, BreakerInv, TypeOK, ClosedHasBudget, States
  <2>3. CASE Seen = "closed"
    <3>1. /\ OneMoreFailure /\ successes' = 0 /\ cooled' = FALSE
          /\ state' = IF failures + 1 >= FailureThreshold THEN "open"
                      ELSE "closed"
      BY <1>2, <2>3 DEF OnFailure
    <3>2. state = "closed" BY <2>3 DEF Seen
    <3>3. /\ failures' \in 0 .. FailureThreshold
          /\ failures' = failures + 1 /\ failures \in Nat
      BY <1>0, <3>1, <3>2, CountsFailures DEF TypeOK, ClosedHasBudget
    <3>4. state' = "closed" => failures' < FailureThreshold
      BY <3>1, <3>3, BreakerAssumption
    <3> QED BY <1>0, <3>1, <3>3, <3>4, ZeroFits
            DEF BreakerInv, TypeOK, ClosedHasBudget, States
  <2> QED BY <1>2, <2>1, <2>2, <2>3 DEF OnFailure
<1> QED BY <1>1, <1>2

LEMMA BreakerStep == BreakerInv /\ [Next]_vars => BreakerInv'
<1> SUFFICES ASSUME BreakerInv, [Next]_vars PROVE BreakerInv' OBVIOUS
<1> USE BreakerAssumption
<1>0. TypeOK /\ ClosedHasBudget BY DEF BreakerInv
<1>1. ASSUME NEW c \in Callers, Admit(c) PROVE BreakerInv'
  BY <1>0, <1>1
     DEF Admit, Allows, Read, Seen, BreakerInv, TypeOK, ClosedHasBudget, States
<1>2. ASSUME NEW c \in Callers, Finish(c) PROVE BreakerInv'
  <2>1. OnSuccess \/ OnFailure BY <1>2 DEF Finish
  <2>2. call' \in [Callers -> {"none", "closed", "half-open"}]
    BY <1>0, <1>2 DEF Finish, TypeOK
  <2> QED BY <1>2, <2>1, <2>2, OutcomeInv DEF Finish
<1>3. CASE Operator
  <2>1. operations' \in 0 .. MaxOperations
    BY <1>0, <1>3, BreakerAssumption DEF Operator, TypeOK
  <2> QED BY <1>0, <1>3, <2>1, ZeroFits
     DEF Operator, Trip, Close, BreakerInv, TypeOK, ClosedHasBudget, States
<1>4. CASE TimePasses
  BY <1>0, <1>4 DEF TimePasses, CoolDown, BreakerInv, TypeOK, ClosedHasBudget, States
<1>5. CASE HealthChanges
  BY <1>0, <1>5 DEF HealthChanges, breaker, BreakerInv, TypeOK, ClosedHasBudget
<1>6. CASE UNCHANGED vars
  BY <1>0, <1>6 DEF vars, breaker, BreakerInv, TypeOK, ClosedHasBudget
<1> QED BY <1>1, <1>2, <1>3, <1>4, <1>5, <1>6 DEF Next

\* Every reachable state of the breaker satisfies BreakerInv.
THEOREM BreakerAlways == Spec => []BreakerInv
<1> QED BY BreakerInit, BreakerStep, PTL DEF Spec

\* A closed breaker always has room for one more failure (onFailure): however
\* outcomes of overlapping calls and operator calls interleave.
THEOREM AlwaysBudget == Spec => []ClosedHasBudget
<1>1. BreakerInv => ClosedHasBudget BY DEF BreakerInv
<1> QED BY <1>1, BreakerAlways, PTL

\* No late success closes an open breaker before its cool-down (onSuccess).
THEOREM StaysOpen == Spec => OpenUntilCooled
<1>1. [Next]_vars
        => [state = "open" /\ state' # "open" /\ operations' = operations
              => cooled]_vars
  <2> SUFFICES ASSUME Next, state = "open", state' # "open",
                      operations' = operations, ~cooled
               PROVE  FALSE
    OBVIOUS
  <2>1. Seen = "open" BY DEF Seen
  <2>2. ASSUME NEW c \in Callers, Admit(c) PROVE FALSE
    BY <2>1, <2>2 DEF Admit, Allows
  <2>3. ASSUME NEW c \in Callers, Finish(c) PROVE FALSE
    BY <2>1, <2>3 DEF Finish, OnSuccess, OnFailure, breaker
  <2>4. CASE Operator
    BY <2>4, BreakerAssumption DEF Operator, Trip
  <2>5. CASE TimePasses BY <2>5 DEF TimePasses, CoolDown
  <2>6. CASE HealthChanges BY <2>6 DEF HealthChanges, breaker
  <2> QED BY <2>2, <2>3, <2>4, <2>5, <2>6 DEF Next
<1> QED BY <1>1, PTL DEF Spec, OpenUntilCooled

\* Until an operator trips or resets it, which no caller in the repository
\* does, an open breaker has no successes on the books, so every half-open
\* period starts from zero.
THEOREM ProbesStartFresh == Spec => FreshProbes
<1> DEFINE NoCredit == /\ operations \in Nat
                       /\ operations = 0 =>
                            (state = "open" => successes = 0) /\ (state = "closed" => successes = 0)
<1>1. Init => NoCredit BY DEF Init
<1>2. NoCredit /\ [Next]_vars => NoCredit'
  <2> SUFFICES ASSUME NoCredit, [Next]_vars PROVE NoCredit' OBVIOUS
  <2>1. ASSUME NEW c \in Callers, Admit(c) PROVE NoCredit'
    BY <2>1 DEF Admit, Allows, Read, Seen
  <2>2. ASSUME NEW c \in Callers, Finish(c) PROVE NoCredit'
    <3>1. CASE OnSuccess
      BY <2>2, <3>1 DEF Finish, OnSuccess, Close, Seen
    <3>2. CASE OnFailure
      BY <2>2, <3>2 DEF Finish, OnFailure, breaker, Seen
    <3> QED BY <2>2, <3>1, <3>2 DEF Finish
  <2>3. CASE Operator BY <2>3 DEF Operator
  <2>4. CASE TimePasses BY <2>4 DEF TimePasses, CoolDown
  <2>5. CASE HealthChanges BY <2>5 DEF HealthChanges, breaker
  <2>6. CASE UNCHANGED vars BY <2>6 DEF vars, breaker
  <2> QED BY <2>1, <2>2, <2>3, <2>4, <2>5, <2>6 DEF Next
<1>3. NoCredit => [state = "open" /\ state' # "open" /\ operations = 0 => successes = 0]_vars
  OBVIOUS
<1> HIDE DEF NoCredit
<1> QED BY <1>1, <1>2, <1>3, PTL DEF Spec, FreshProbes

-----------------------------------------------------------------------------
(* The Kafka source, for any partitions, any number of messages, every retry *)
(* budget and all bounds.  KafkaInv is the inductive invariant: everything    *)
(* below the offset kafkajs fetches next has a cause to be there, hence        *)
(* everything below a committed one; and a message that is still ahead was    *)
(* published once for each fault or upset at most.                           *)

KafkaSteps == {"idle", "normalize", "publish", "ack", "failed", "dlq", "failack"}

KafkaTypes ==
  /\ maxRetries \in Nat /\ kind \in [Partitions -> [Kafka!Offsets -> Kafka!Kinds]]
  /\ committed \in [Partitions -> 0 .. Length] /\ position \in [Partitions -> 0 .. Length]
  /\ attemptCounts \in [Partitions -> [Kafka!Offsets -> 0 .. maxRetries]]
  /\ published \in [Partitions -> [Kafka!Offsets -> Nat]]
  /\ step \in KafkaSteps /\ faults \in Nat /\ upsets \in Nat

\* The message under way is the next one of its partition.
UnderWay ==
  /\ step = "idle" => current = NoMessage
  /\ step # "idle" =>
       \E p \in Partitions, o \in Kafka!Offsets : current = <<p, o>> /\ position[p] = o

Caused(p, o) ==
  \/ published[p][o] > 0
  \/ <<p, o>> \in deadLettered \cup nacked \cup unlettered \cup jumped
  \/ kind[p][o] = "filtered"

\* What is behind the fetch or the committed offset, and what is about to be.
BehindIsCaused ==
  /\ \A p \in Partitions, o \in Kafka!Offsets :
       o < position[p] \/ o < committed[p] => Caused(p, o)
  /\ step \in {"ack", "failack"} => Caused(Kafka!P, Kafka!O)

\* How often a message was published that is still to be.
AheadIsFresh ==
  \A p \in Partitions, o \in Kafka!Offsets :
    /\ published[p][o] <= 1 + upsets + faults
    /\ o >= position[p] /\ ~(step = "ack" /\ current = <<p, o>>) =>
         published[p][o] <= upsets + faults

KafkaInv == KafkaTypes /\ UnderWay /\ BehindIsCaused /\ AheadIsFresh

-----------------------------------------------------------------------------
LEMMA KafkaNumbers == Kafka!KafkaParameters => Length \in Nat /\ Budgets \subseteq Nat
<1> QED BY DEF Kafka!KafkaParameters

LEMMA KafkaInit == Kafka!KafkaParameters /\ Kafka!Init => KafkaInv
<1> SUFFICES ASSUME Kafka!KafkaParameters, Kafka!Init PROVE KafkaInv OBVIOUS
<1>1. Length \in Nat /\ maxRetries \in Nat
  BY KafkaNumbers DEF Kafka!Init
<1>2. KafkaTypes
  BY <1>1 DEF Kafka!Init, KafkaTypes, Kafka!NoAttempts, KafkaSteps, Kafka!Offsets
<1>3. UnderWay /\ BehindIsCaused /\ AheadIsFresh
  BY <1>1 DEF Kafka!Init, UnderWay, BehindIsCaused, AheadIsFresh, Kafka!NoAttempts, Kafka!Offsets
<1> QED BY <1>2, <1>3 DEF KafkaInv

\* The message a handler has.
LEMMA TheMessage ==
  ASSUME KafkaInv, step # "idle"
  PROVE  Kafka!P \in Partitions /\ Kafka!O \in Kafka!Offsets /\ current = <<Kafka!P, Kafka!O>> /\ position[Kafka!P] = Kafka!O
<1> QED BY DEF KafkaInv, UnderWay, Kafka!P, Kafka!O

LEMMA NoneUnderWay == Kafka!KafkaParameters /\ KafkaInv /\ current = NoMessage => step = "idle"
<1> QED BY KafkaNumbers DEF KafkaInv, UnderWay, Kafka!KafkaParameters, Kafka!Offsets

\* Steps of a handler that leave the offsets alone: before one that acks, the
\* message has its cause.
LEMMA HandlerInv ==
  ASSUME Kafka!KafkaParameters, KafkaInv, step # "idle", NEW s \in KafkaSteps \ {"idle"}, step' = s,
         s \in {"ack", "failack"} => Caused(Kafka!P, Kafka!O)',
         deadLettered \subseteq deadLettered', unlettered \subseteq unlettered',
         UNCHANGED <<Kafka!config, committed, position, current, attemptCounts, published,
                     nacked, jumped, upsets>>,
         (step # "ack" /\ faults' = faults) \/ faults' = faults + 1
  PROVE  KafkaInv'
<1>0. UNCHANGED <<maxRetries, kind>>
  BY DEF Kafka!config
<1>1. KafkaTypes'
  BY <1>0 DEF KafkaInv, KafkaTypes
<1>2. UnderWay'
  BY DEF KafkaInv, UnderWay
<1>3. BehindIsCaused'
  <2>1. \A p \in Partitions, o \in Kafka!Offsets : Caused(p, o) => Caused(p, o)'
    BY <1>0 DEF Caused
  <2>2. \A p \in Partitions, o \in Kafka!Offsets :
          o < position[p] \/ o < committed[p] => Caused(p, o)'
    BY <2>1 DEF KafkaInv, BehindIsCaused
  <2>3. step' \in {"ack", "failack"} => Caused(Kafka!P, Kafka!O)'
    OBVIOUS
  <2> QED BY <2>2, <2>3 DEF BehindIsCaused
<1>4. AheadIsFresh'
  <2> SUFFICES ASSUME NEW p \in Partitions, NEW o \in Kafka!Offsets
               PROVE  /\ published[p][o] <= 1 + upsets + faults'
                      /\ o >= position[p] /\ ~(s = "ack" /\ current = <<p, o>>) =>
                           published[p][o] <= upsets + faults'
    BY DEF AheadIsFresh
  <2>1. published[p][o] \in Nat /\ upsets \in Nat /\ faults \in Nat
    BY DEF KafkaInv, KafkaTypes
  <2> QED BY <2>1 DEF KafkaInv, AheadIsFresh
<1> QED BY <1>1, <1>2, <1>3, <1>4 DEF KafkaInv

\* A message that has its cause is over and its partition goes on, with or
\* without a commit.
LEMMA ResolveInv ==
  ASSUME Kafka!KafkaParameters, KafkaInv, step # "idle", Kafka!Resolve,
         committed' = committed \/ committed' = [committed EXCEPT ![Kafka!P] = Kafka!O + 1],
         attemptCounts' \in [Partitions -> [Kafka!Offsets -> 0 .. maxRetries]],
         nacked \subseteq nacked', Caused(Kafka!P, Kafka!O) \/ current \in nacked',
         UNCHANGED <<Kafka!config, published, deadLettered, unlettered, jumped, faults, upsets>>
  PROVE  KafkaInv'
<1>1. PICK q \in Partitions, n \in Kafka!Offsets : Kafka!P = q /\ Kafka!O = n /\ current = <<q, n>> /\ position[q] = n
  BY TheMessage
<1>2. n \in Nat /\ Length \in Nat /\ n + 1 \in 0 .. Length
  BY KafkaNumbers DEF Kafka!Offsets
<1>3. KafkaTypes
  BY DEF KafkaInv
<1>4. /\ step' = "idle" /\ current' = NoMessage /\ position' = [position EXCEPT ![q] = n + 1]
      /\ (committed' = committed \/ committed' = [committed EXCEPT ![q] = n + 1])
      /\ Caused(q, n)'
  BY <1>1 DEF Kafka!Resolve, Caused, Kafka!config
<1>5. KafkaTypes'
  BY <1>2, <1>3, <1>4 DEF KafkaTypes, Kafka!config, KafkaSteps
<1>6. UnderWay'
  BY <1>4 DEF UnderWay
<1>7. /\ position'[q] = n + 1 /\ (committed'[q] = committed[q] \/ committed'[q] = n + 1)
      /\ \A p \in Partitions \ {q} : position'[p] = position[p] /\ committed'[p] = committed[p]
  BY <1>3, <1>4 DEF KafkaTypes
<1>8. BehindIsCaused'
  <2> SUFFICES ASSUME NEW p \in Partitions, NEW o \in Kafka!Offsets,
                      o < position'[p] \/ o < committed'[p]
               PROVE  Caused(p, o)'
    BY <1>4 DEF BehindIsCaused, Caused
  <2>1. CASE p = q /\ o = n
    BY <2>1, <1>4
  <2>2. CASE ~(p = q /\ o = n)
    <3>1. o \in Nat
      BY KafkaNumbers DEF Kafka!Offsets
    <3>2. o < position[p] \/ o < committed[p]
      BY <2>2, <3>1, <1>1, <1>2, <1>7
    <3>3. Caused(p, o)
      BY <3>2 DEF KafkaInv, BehindIsCaused
    <3> QED BY <3>3 DEF Caused, Kafka!config
  <2> QED BY <2>1, <2>2
<1>9. AheadIsFresh'
  <2> SUFFICES ASSUME NEW p \in Partitions, NEW o \in Kafka!Offsets
               PROVE  /\ published[p][o] <= 1 + upsets + faults
                      /\ o >= position'[p] => published[p][o] <= upsets + faults
    BY <1>4 DEF AheadIsFresh
  <2>1. o \in Nat
    BY KafkaNumbers DEF Kafka!Offsets
  <2>2. o >= position'[p] => o >= position[p] /\ current # <<p, o>>
    BY <2>1, <1>1, <1>2, <1>7
  <2> QED BY <2>2 DEF KafkaInv, AheadIsFresh
<1> QED BY <1>5, <1>6, <1>8, <1>9 DEF KafkaInv

LEMMA FetchInv ==
  ASSUME Kafka!KafkaParameters, KafkaInv, NEW p \in Partitions, Kafka!Fetch(p) PROVE KafkaInv'
<1>1. /\ position[p] < Length /\ current' = <<p, position[p]>> /\ step' = "normalize"
      /\ UNCHANGED <<Kafka!config, committed, position, attemptCounts, published, deadLettered,
                     Kafka!drops, faults, upsets>>
  BY DEF Kafka!Fetch
<1>2. position[p] \in Kafka!Offsets
  BY <1>1, KafkaNumbers DEF KafkaInv, KafkaTypes, Kafka!Offsets
<1>3. step = "idle"
  BY TheMessage, NoneUnderWay DEF Kafka!Fetch
<1>4. KafkaTypes'
  BY <1>1 DEF KafkaInv, KafkaTypes, Kafka!config, KafkaSteps
<1>5. UnderWay'
  BY <1>1, <1>2 DEF UnderWay
<1>6. BehindIsCaused'
  BY <1>1 DEF KafkaInv, BehindIsCaused, Caused, Kafka!drops, Kafka!config
<1>7. AheadIsFresh'
  BY <1>1, <1>3 DEF KafkaInv, AheadIsFresh
<1> QED BY <1>4, <1>5, <1>6, <1>7 DEF KafkaInv

LEMMA NormalizeInv == ASSUME Kafka!KafkaParameters, KafkaInv, Kafka!Normalize PROVE KafkaInv'
<1>1. /\ step = "normalize"
      /\ UNCHANGED <<Kafka!config, committed, position, current, attemptCounts, published,
                     deadLettered, nacked, unlettered, jumped, faults, upsets>>
  BY DEF Kafka!Normalize, Kafka!drops
<1>2. CASE kind[Kafka!P][Kafka!O] = "filtered" /\ step' = "ack"
  <2>1. Caused(Kafka!P, Kafka!O)'
    BY <1>1, <1>2 DEF Caused, Kafka!P, Kafka!O, Kafka!config
  <2> QED BY <1>1, <1>2, <2>1, HandlerInv DEF KafkaSteps
<1>3. CASE step' \in {"publish", "failed"}
  BY <1>1, <1>3, HandlerInv DEF KafkaSteps
<1> QED BY <1>2, <1>3 DEF Kafka!Normalize

LEMMA PublishInv == ASSUME Kafka!KafkaParameters, KafkaInv, Kafka!Publish PROVE KafkaInv'
<1>1. /\ step = "publish" /\ step' = "ack"
      /\ published' = [published EXCEPT ![Kafka!P][Kafka!O] = published[Kafka!P][Kafka!O] + 1]
      /\ UNCHANGED <<Kafka!config, committed, position, current, attemptCounts, producer,
                     deadLettered, Kafka!drops, faults, upsets>>
  BY DEF Kafka!Publish
<1>2. PICK q \in Partitions, n \in Kafka!Offsets : Kafka!P = q /\ Kafka!O = n /\ current = <<q, n>> /\ position[q] = n
  BY <1>1, TheMessage
<1>3. published \in [Partitions -> [Kafka!Offsets -> Nat]] /\ published[q][n] \in Nat
  BY DEF KafkaInv, KafkaTypes
<1>4. published' = [published EXCEPT ![q][n] = published[q][n] + 1] /\ Kafka!P' = q /\ Kafka!O' = n
  BY <1>1, <1>2 DEF Kafka!P, Kafka!O
<1>5. /\ published' \in [Partitions -> [Kafka!Offsets -> Nat]]
      /\ published'[q][n] = published[q][n] + 1
      /\ \A p \in Partitions, o \in Kafka!Offsets :
           ~(p = q /\ o = n) => published'[p][o] = published[p][o]
  BY <1>3, <1>4
<1>6. KafkaTypes'
  BY <1>1, <1>5 DEF KafkaInv, KafkaTypes, Kafka!config, KafkaSteps
<1>7. UnderWay'
  BY <1>1 DEF KafkaInv, UnderWay
<1>8. BehindIsCaused'
  <2>1. \A p \in Partitions, o \in Kafka!Offsets : Caused(p, o) => Caused(p, o)'
    <3> TAKE p \in Partitions, o \in Kafka!Offsets
    <3>1. CASE p = q /\ o = n
      BY <3>1, <1>3, <1>5 DEF Caused
    <3>2. CASE ~(p = q /\ o = n)
      BY <3>2, <1>1, <1>5 DEF Caused, Kafka!drops, Kafka!config
    <3> QED BY <3>1, <3>2
  <2>2. published'[q][n] > 0
    BY <1>3, <1>5
  <2> QED BY <2>1, <2>2, <1>1, <1>4 DEF KafkaInv, BehindIsCaused, Caused
<1>9. AheadIsFresh'
  <2> SUFFICES ASSUME NEW p \in Partitions, NEW o \in Kafka!Offsets
               PROVE  /\ published'[p][o] <= 1 + upsets + faults
                      /\ o >= position[p] /\ current # <<p, o>> => published'[p][o] <= upsets + faults
    BY <1>1 DEF AheadIsFresh
  <2>1. upsets \in Nat /\ faults \in Nat /\ n \in Nat
    BY KafkaNumbers DEF KafkaInv, KafkaTypes, Kafka!Offsets
  <2>2. CASE p = q /\ o = n
    <3>1. published[q][n] <= upsets + faults
      BY <1>1, <1>2, <2>1 DEF KafkaInv, AheadIsFresh
    <3> QED BY <2>1, <2>2, <3>1, <1>2, <1>3, <1>5
  <2>3. CASE ~(p = q /\ o = n)
    BY <2>3, <1>1, <1>5 DEF KafkaInv, AheadIsFresh
  <2> QED BY <2>2, <2>3
<1> QED BY <1>6, <1>7, <1>8, <1>9 DEF KafkaInv

LEMMA AckInv == ASSUME Kafka!KafkaParameters, KafkaInv, Kafka!Ack PROVE KafkaInv'
<1>1. step = "ack" /\ UNCHANGED <<Kafka!config, published, deadLettered, Kafka!drops, upsets>>
  BY DEF Kafka!Ack
<1>2. KafkaTypes /\ Kafka!P \in Partitions /\ Kafka!O \in Kafka!Offsets
  BY <1>1, TheMessage DEF KafkaInv
<1>3. CASE Kafka!Commit /\ Kafka!Resolve
  <2>1. attemptCounts' \in [Partitions -> [Kafka!Offsets -> 0 .. maxRetries]]
    BY <1>2, <1>3 DEF Kafka!Commit, KafkaTypes
  <2>2. Caused(Kafka!P, Kafka!O)
    BY <1>1 DEF KafkaInv, BehindIsCaused
  <2> QED BY <1>1, <1>3, <2>1, <2>2, ResolveInv DEF Kafka!Commit, Kafka!drops
<1>4. CASE Kafka!CommitFails /\ step' = "failed" /\ UNCHANGED <<current, position>>
  BY <1>1, <1>4, HandlerInv DEF Kafka!CommitFails, KafkaSteps, Kafka!drops
<1> QED BY <1>3, <1>4 DEF Kafka!Ack

LEMMA FailureInv == ASSUME Kafka!KafkaParameters, KafkaInv, Kafka!Failure PROVE KafkaInv'
<1>1. /\ step = "failed"
      /\ UNCHANGED <<Kafka!config, committed, published, deadLettered, unlettered, jumped, faults,
                     upsets>>
  BY DEF Kafka!Failure
<1>2. KafkaTypes /\ Kafka!P \in Partitions /\ Kafka!O \in Kafka!Offsets /\ current = <<Kafka!P, Kafka!O>>
  BY <1>1, TheMessage DEF KafkaInv
<1>3. CASE /\ attemptCounts[Kafka!P][Kafka!O] < maxRetries
           /\ attemptCounts' = [attemptCounts EXCEPT ![Kafka!P][Kafka!O] = attemptCounts[Kafka!P][Kafka!O] + 1]
           /\ nacked' = nacked \cup {current} /\ Kafka!Resolve
  <2>1. attemptCounts[Kafka!P][Kafka!O] + 1 \in 0 .. maxRetries
    BY <1>2, <1>3 DEF KafkaTypes
  <2>2. attemptCounts' \in [Partitions -> [Kafka!Offsets -> 0 .. maxRetries]]
    BY <1>2, <1>3, <2>1 DEF KafkaTypes
  <2>3. current \in nacked' /\ nacked \subseteq nacked'
    BY <1>3
  <2> HIDE DEF Kafka!P, Kafka!O
  <2> QED BY <1>1, <1>3, <2>2, <2>3, ResolveInv
<1>4. CASE step' = "dlq" /\ UNCHANGED <<attemptCounts, current, position, nacked>>
  BY <1>1, <1>4, HandlerInv DEF KafkaSteps
<1> QED BY <1>3, <1>4 DEF Kafka!Failure

LEMMA SendToDLQInv == ASSUME Kafka!KafkaParameters, KafkaInv, Kafka!SendToDLQ PROVE KafkaInv'
<1>1. /\ step = "dlq" /\ step' = "failack"
      /\ deadLettered \subseteq deadLettered' /\ unlettered \subseteq unlettered'
      /\ current \in deadLettered' \cup unlettered'
      /\ faults' = faults \/ faults' = faults + 1
      /\ UNCHANGED <<Kafka!config, committed, position, current, attemptCounts, published,
                     nacked, jumped, upsets>>
  BY DEF Kafka!SendToDLQ
<1>2. current = <<Kafka!P, Kafka!O>> /\ Kafka!P' = Kafka!P /\ Kafka!O' = Kafka!O
  BY <1>1, TheMessage DEF Kafka!P, Kafka!O
<1>3. Caused(Kafka!P, Kafka!O)'
  BY <1>1, <1>2 DEF Caused
<1> QED BY <1>1, <1>3, HandlerInv DEF KafkaSteps

LEMMA FailAckInv == ASSUME Kafka!KafkaParameters, KafkaInv, Kafka!FailAck PROVE KafkaInv'
<1>1. step = "failack" /\ UNCHANGED <<Kafka!config, published, deadLettered, Kafka!drops, upsets>>
  BY DEF Kafka!FailAck
<1>2. KafkaTypes /\ Kafka!P \in Partitions /\ Kafka!O \in Kafka!Offsets
  BY <1>1, TheMessage DEF KafkaInv
<1>3. CASE Kafka!Commit /\ Kafka!Resolve
  <2>1. attemptCounts' \in [Partitions -> [Kafka!Offsets -> 0 .. maxRetries]]
    BY <1>2, <1>3 DEF Kafka!Commit, KafkaTypes
  <2>2. Caused(Kafka!P, Kafka!O)
    BY <1>1 DEF KafkaInv, BehindIsCaused
  <2> QED BY <1>1, <1>3, <2>1, <2>2, ResolveInv DEF Kafka!Commit, Kafka!drops
<1>4. CASE Kafka!CommitFails /\ Kafka!Reject
  <2>1. /\ faults' = faults + 1 /\ step' = "idle" /\ current' = NoMessage
        /\ UNCHANGED <<committed, position, attemptCounts>>
    BY <1>4 DEF Kafka!CommitFails, Kafka!Reject
  <2>2. KafkaTypes'
    BY <1>1, <1>2, <2>1 DEF KafkaTypes, Kafka!config, KafkaSteps
  <2>3. UnderWay'
    BY <2>1 DEF UnderWay
  <2>4. BehindIsCaused'
    BY <1>1, <2>1 DEF KafkaInv, BehindIsCaused, Caused, Kafka!drops, Kafka!config
  <2>5. AheadIsFresh'
    <3> SUFFICES ASSUME NEW p \in Partitions, NEW o \in Kafka!Offsets
                 PROVE  /\ published[p][o] <= 1 + upsets + (faults + 1)
                        /\ o >= position[p] => published[p][o] <= upsets + (faults + 1)
      BY <1>1, <2>1 DEF AheadIsFresh
    <3>1. published[p][o] \in Nat /\ upsets \in Nat /\ faults \in Nat
      BY <1>2 DEF KafkaTypes
    <3> QED BY <3>1, <1>1 DEF KafkaInv, AheadIsFresh
  <2> QED BY <2>2, <2>3, <2>4, <2>5 DEF KafkaInv
<1> QED BY <1>3, <1>4 DEF Kafka!FailAck

\* An upset moves positions, over nothing but what a seek passes, and nobody is
\* under way.
LEMMA UpsetInv ==
  ASSUME Kafka!KafkaParameters, KafkaInv, upsets' = upsets + 1, step' = "idle", current' = NoMessage,
         position' \in [Partitions -> 0 .. Length],
         \A p \in Partitions, o \in Kafka!Offsets :
           o < position'[p] => o < position[p] \/ o < committed[p] \/ <<p, o>> \in jumped',
         jumped \subseteq jumped',
         attemptCounts' \in [Partitions -> [Kafka!Offsets -> 0 .. maxRetries]],
         UNCHANGED <<Kafka!config, committed, published, deadLettered, nacked, unlettered, faults>>
  PROVE  KafkaInv'
<1>1. KafkaTypes /\ Length \in Nat
  BY KafkaNumbers DEF KafkaInv
<1>2. KafkaTypes'
  BY <1>1 DEF KafkaTypes, Kafka!config, KafkaSteps
<1>3. UnderWay'
  BY DEF UnderWay
<1>4. BehindIsCaused'
  <2> SUFFICES ASSUME NEW p \in Partitions, NEW o \in Kafka!Offsets,
                      o < position'[p] \/ o < committed[p]
               PROVE  Caused(p, o)'
    BY DEF BehindIsCaused
  <2>1. CASE o < position[p] \/ o < committed[p]
    <3>1. Caused(p, o)
      BY <2>1 DEF KafkaInv, BehindIsCaused
    <3> QED BY <3>1 DEF Caused, Kafka!config
  <2>2. CASE <<p, o>> \in jumped'
    BY <2>2 DEF Caused
  <2> QED BY <2>1, <2>2
<1>5. AheadIsFresh'
  <2> SUFFICES ASSUME NEW p \in Partitions, NEW o \in Kafka!Offsets
               PROVE  /\ published[p][o] <= 1 + (upsets + 1) + faults
                      /\ published[p][o] <= (upsets + 1) + faults
    BY DEF AheadIsFresh
  <2>1. published[p][o] \in Nat /\ upsets \in Nat /\ faults \in Nat
    BY <1>1 DEF KafkaTypes
  <2> QED BY <2>1 DEF KafkaInv, AheadIsFresh
<1> QED BY <1>2, <1>3, <1>4, <1>5 DEF KafkaInv

LEMMA KafkaStep == ASSUME Kafka!KafkaParameters PROVE KafkaInv /\ [Kafka!Next]_(Kafka!vars) => KafkaInv'
<1> SUFFICES ASSUME KafkaInv, [Kafka!Next]_(Kafka!vars) PROVE KafkaInv' OBVIOUS
<1>1. KafkaTypes /\ Length \in Nat
  BY KafkaNumbers DEF KafkaInv
<1>2. Kafka!NoAttempts \in [Partitions -> [Kafka!Offsets -> 0 .. maxRetries]]
  BY <1>1 DEF KafkaTypes, Kafka!NoAttempts
<1>3. CASE Kafka!ConnectProducer \/ UNCHANGED Kafka!vars
  <2>1. UNCHANGED <<maxRetries, kind, committed, position, current, step, attemptCounts,
                    published, deadLettered, nacked, unlettered, jumped, faults, upsets>>
    BY <1>3 DEF Kafka!ConnectProducer, Kafka!vars, Kafka!config, Kafka!drops
  <2> QED BY <2>1 DEF KafkaInv, KafkaTypes, UnderWay, BehindIsCaused, Caused, AheadIsFresh, Kafka!P, Kafka!O
<1>4. CASE Kafka!Handle
  BY <1>4, NormalizeInv, PublishInv, AckInv, FailureInv, SendToDLQInv, FailAckInv DEF Kafka!Handle
<1>5. CASE Kafka!Rebalance
  <2>1. step = "idle"
    BY <1>5, NoneUnderWay DEF Kafka!Rebalance
  <2>2. /\ upsets' = upsets + 1 /\ step' = "idle" /\ current' = NoMessage
        /\ position' = committed /\ attemptCounts' = Kafka!NoAttempts
        /\ UNCHANGED <<Kafka!config, committed, published, deadLettered, nacked, unlettered,
                       jumped, faults>>
    BY <1>5, <2>1 DEF Kafka!Rebalance, Kafka!Upset, Kafka!drops
  <2> QED BY <1>1, <1>2, <2>2, UpsetInv DEF KafkaTypes
<1>6. CASE Kafka!Crash
  <2>1. /\ upsets' = upsets + 1 /\ step' = "idle" /\ current' = NoMessage
        /\ position' = committed /\ attemptCounts' = Kafka!NoAttempts
        /\ UNCHANGED <<Kafka!config, committed, published, deadLettered, nacked, unlettered,
                       jumped, faults>>
    BY <1>6 DEF Kafka!Crash, Kafka!Upset, Kafka!drops
  <2> QED BY <1>1, <1>2, <2>1, UpsetInv DEF KafkaTypes
<1>7. ASSUME NEW p \in Partitions, Kafka!Fetch(p) PROVE KafkaInv'
  BY <1>7, FetchInv
<1>8. ASSUME NEW p \in Partitions, Kafka!Seek(p) PROVE KafkaInv'
  <2>1. step = "idle"
    BY <1>8, NoneUnderWay DEF Kafka!Seek
  <2>2. PICK o \in 0 .. Length :
          /\ position' = [position EXCEPT ![p] = o]
          /\ jumped' = jumped \cup ({p} \X (position[p] .. (o - 1)))
    BY <1>8 DEF Kafka!Seek
  <2>3. /\ upsets' = upsets + 1 /\ step' = "idle" /\ current' = NoMessage
        /\ UNCHANGED <<Kafka!config, committed, attemptCounts, published, deadLettered, nacked,
                       unlettered, faults>>
    BY <1>8, <2>1 DEF Kafka!Seek, Kafka!Upset
  <2>4. position' \in [Partitions -> 0 .. Length]
    BY <1>1, <2>2 DEF KafkaTypes
  <2>5. ASSUME NEW q \in Partitions, NEW n \in Kafka!Offsets, n < position'[q]
        PROVE  n < position[q] \/ <<q, n>> \in jumped'
    <3>1. position[q] \in Nat /\ n \in Nat /\ o \in Nat
      BY <1>1 DEF KafkaTypes, Kafka!Offsets
    <3>2. position'[q] = IF q = p THEN o ELSE position[q]
      BY <1>1, <2>2 DEF KafkaTypes
    <3>3. CASE q = p /\ n >= position[p]
      <4>1. n \in position[p] .. (o - 1)
        BY <2>5, <3>1, <3>2, <3>3
      <4> QED BY <2>2, <3>3, <4>1
    <3>4. CASE ~(q = p /\ n >= position[p])
      BY <2>5, <3>1, <3>2, <3>4
    <3> QED BY <3>3, <3>4
  <2> QED BY <1>1, <2>2, <2>3, <2>4, <2>5, UpsetInv DEF KafkaTypes
<1> QED BY <1>3, <1>4, <1>5, <1>6, <1>7, <1>8 DEF Kafka!Next

-----------------------------------------------------------------------------
LEMMA KafkaCauses == KafkaInv => OffsetsHaveCause
<1> QED BY DEF KafkaInv, BehindIsCaused, Caused, AheadIsFresh, Kafka!SkipsHaveCause,
       Kafka!LetGo, Kafka!RedeliveryHasCause, Kafka!OffsetsHaveCause, OffsetsHaveCause

LEMMA KafkaTyped == KafkaInv => Kafka!TypeOK
<1> SUFFICES ASSUME KafkaInv PROVE Kafka!TypeOK
  OBVIOUS
<1>1. KafkaTypes /\ UnderWay
  BY DEF KafkaInv
<1>2. Length \in Nat /\ NoMessage \notin Partitions \X Nat
  BY PartsAssumption DEF Kafka!KafkaParameters
<1>3. CASE step = "idle"
  BY <1>1, <1>3 DEF KafkaTypes, UnderWay, Kafka!TypeOK
<1>4. CASE step # "idle"
  <2>1. PICK p \in Partitions, o \in Kafka!Offsets : current = <<p, o>> /\ position[p] = o
    BY <1>1, <1>4 DEF UnderWay
  <2>2. current \in Partitions \X Kafka!Offsets /\ current # NoMessage
    BY <1>2, <2>1 DEF Kafka!Offsets
  <2>3. Kafka!P = p /\ Kafka!O = o
    BY <2>1 DEF Kafka!P, Kafka!O
  <2> QED BY <1>1, <1>4, <2>1, <2>2, <2>3 DEF KafkaTypes, Kafka!TypeOK
<1> QED BY <1>3, <1>4

\* For all partitions, lengths, retry budgets and bounds, and whatever crashes,
\* rebalances, seeks and failing commits come in between: the committed offset of
\* the Kafka source never passes a message that was neither published nor given to
\* the DLQ, except one that a nack, a missing or failing dead-letter write, a seek
\* or the filter let go; and none is published more often than once and once for
\* each fault or upset.
THEOREM OffsetsAreCaused == Kafka!Spec => []OffsetsHaveCause
<1>1. Kafka!Init => KafkaInv
  BY KafkaInit, PartsAssumption
<1>2. KafkaInv /\ [Kafka!Next]_(Kafka!vars) => KafkaInv'
  BY KafkaStep, PartsAssumption
<1>3. KafkaInv => OffsetsHaveCause
  BY KafkaCauses
<1> QED BY <1>1, <1>2, <1>3, PTL DEF Kafka!Spec

\* Without a retry budget nothing is given back to kafkajs, and what the comment
\* of buildAckContext promises holds for all partitions, lengths and bounds: the
\* committed offset passes no message that was neither published nor dead-lettered,
\* unless its dead letter could not be written (no producer yet, or a send that
\* failed), a seek passed it or the filter dropped it.  With a budget there is one
\* more way to skip a message, the swallowed nack, and it is the only one more.
THEOREM WithoutRetriesNothingSkipped ==
  ASSUME Budgets = {0} PROVE Kafka!Spec => []Kafka!NothingSkipped
<1> DEFINE NoneGivenBack == maxRetries = 0 /\ nacked = {}
<1>1. Kafka!Init => KafkaInv /\ NoneGivenBack
  BY KafkaInit, PartsAssumption DEF Kafka!Init
<1>2. ASSUME KafkaInv, NoneGivenBack, [Kafka!Next]_(Kafka!vars) PROVE NoneGivenBack'
  <2>1. CASE Kafka!Failure
    <3>1. step # "idle"
      BY <2>1 DEF Kafka!Failure
    <3>2. attemptCounts[Kafka!P][Kafka!O] \in 0 .. maxRetries
      BY <1>2, <3>1, TheMessage DEF KafkaInv, KafkaTypes
    <3>3. ~(attemptCounts[Kafka!P][Kafka!O] < maxRetries)
      BY <1>2, <3>2
    <3> QED BY <1>2, <2>1, <3>3 DEF Kafka!Failure, Kafka!config
  <2>2. CASE Kafka!Normalize \/ Kafka!Publish \/ Kafka!Ack \/ Kafka!SendToDLQ \/ Kafka!FailAck
    BY <1>2, <2>2 DEF Kafka!Normalize, Kafka!Publish, Kafka!Ack, Kafka!SendToDLQ, Kafka!FailAck,
       Kafka!config, Kafka!drops
  <2>3. CASE Kafka!ConnectProducer \/ Kafka!Rebalance \/ Kafka!Crash \/ UNCHANGED Kafka!vars
    BY <1>2, <2>3 DEF Kafka!ConnectProducer, Kafka!Rebalance, Kafka!Crash, Kafka!vars,
       Kafka!config, Kafka!drops
  <2>4. CASE \E p \in Partitions : Kafka!Fetch(p) \/ Kafka!Seek(p)
    BY <1>2, <2>4 DEF Kafka!Fetch, Kafka!Seek, Kafka!config, Kafka!drops
  <2> QED BY <1>2, <2>1, <2>2, <2>3, <2>4 DEF Kafka!Next, Kafka!Handle
<1>3. KafkaInv /\ NoneGivenBack /\ [Kafka!Next]_(Kafka!vars) => (KafkaInv /\ NoneGivenBack)'
  BY <1>2, KafkaStep, PartsAssumption
<1>4. KafkaInv /\ NoneGivenBack => Kafka!NothingSkipped
  BY KafkaCauses DEF OffsetsHaveCause, Kafka!OffsetsHaveCause, Kafka!SkipsHaveCause,
     Kafka!LetGo, Kafka!NothingSkipped
<1> QED BY <1>1, <1>3, <1>4, PTL DEF Kafka!Spec

-----------------------------------------------------------------------------
(* Asynchronous pausing, for any reasons, transports and bounds.  PauseInv    *)
(* is the inductive invariant: a handle stands for a consumer, unless the      *)
(* transport failed; and as long as no command overtook a reply, at most one    *)
(* transport call is outstanding, and it is the one that takes the source from *)
(* the consumer it has to the one its pause reasons ask for.                  *)

\* The transport calls there can be, of consumers up to n.
TransportCalls(n) == [op : {"cancel", "stop", "consume"}, id : 1 .. n]

\* What is outstanding, and where it leaves the source.
Settled   == calls = <<>> /\ consumers \subseteq {tag} \ {NoTag}
             /\ (reasons = {} => tag # NoTag \/ failed)
             /\ (reasons # {} /\ ~sought => tag = NoTag)
Cancels   == calls = <<Pause!Call("cancel", tag)>> /\ tag # NoTag
             /\ consumers \subseteq {tag} /\ reasons # {}
Restarts  == calls = <<Pause!Call("stop", tag)>> /\ tag # NoTag
             /\ consumers \subseteq {tag} /\ (reasons = {} \/ sought)
Consumes  == calls = <<Pause!Call("consume", created)>> /\ tag = NoTag /\ consumers = {}
             /\ (reasons = {} \/ sought)

Handled == tag # NoTag => tag \in consumers \/ failed

PauseInv ==
  /\ Pause!TypeOK /\ calls \in Seq(TransportCalls(created)) /\ Handled
  /\ ~overlapped => Settled \/ Cancels \/ Restarts \/ Consumes

LEMMA PauseNumbers == MaxConsumers \in Nat /\ MaxConsumers > 0 /\ NoTag \notin Nat
<1> QED BY PartsAssumption DEF Pause!PauseParameters

LEMMA RemovedCall ==
  ASSUME NEW S, NEW s \in Seq(S), NEW i \in 1 .. Len(s)
  PROVE  /\ Pause!RemoveAt(s, i) \in Seq(S)
         /\ Len(s) = 1 => Pause!RemoveAt(s, i) = <<>>
<1>1. SubSeq(s, 1, i - 1) \in Seq(S) /\ SubSeq(s, i + 1, Len(s)) \in Seq(S)
  OBVIOUS
<1>2. Len(SubSeq(s, 1, i - 1)) = i - 1 /\ Len(SubSeq(s, i + 1, Len(s))) = Len(s) - i
  OBVIOUS
<1>3. ASSUME Len(s) = 1 PROVE Pause!RemoveAt(s, i) = <<>>
  <2>1. SubSeq(s, 1, i - 1) = <<>> /\ SubSeq(s, i + 1, Len(s)) = <<>>
    BY <1>1, <1>2, <1>3
  <2> QED BY <2>1 DEF Pause!RemoveAt
<1> QED BY <1>1, <1>3 DEF Pause!RemoveAt

LEMMA PauseInit == Pause!Init => PauseInv
<1> SUFFICES ASSUME Pause!Init PROVE PauseInv OBVIOUS
<1>1. Pause!TypeOK
  <2>1. /\ transport \in Transports /\ reasons = {} /\ tag = 1 /\ consumers = {1}
        /\ created = 1 /\ calls = <<>> /\ lost = FALSE /\ failed = FALSE
        /\ overlapped = FALSE /\ sought = FALSE
    BY DEF Pause!Init
  <2>2. created \in 1 .. MaxConsumers /\ 1 .. created = {1}
    BY <2>1, PauseNumbers
  <2>3. {lost, failed, overlapped, sought} \subseteq BOOLEAN
    BY <2>1
  <2>4. DOMAIN calls = {}
    BY <2>1
  <2> QED BY <2>1, <2>2, <2>3, <2>4 DEF Pause!TypeOK
<1>2. calls \in Seq(TransportCalls(created)) /\ Settled /\ Handled
  BY PauseNumbers DEF Pause!Init, Settled, Handled
<1> QED BY <1>1, <1>2 DEF PauseInv

\* A step keeps PauseInv if it keeps the types and leaves one of the four ways.
LEMMA PauseKept ==
  ASSUME PauseInv, transport' = transport, reasons' \subseteq Reasons,
         created' \in 1 .. MaxConsumers, tag' \in 1 .. created' \cup {NoTag},
         consumers' \subseteq 1 .. created', calls' \in Seq(TransportCalls(created')),
         lost' \in BOOLEAN, failed' \in BOOLEAN, overlapped' \in BOOLEAN, sought' \in BOOLEAN,
         tag' # NoTag => tag' \in consumers' \/ failed',
         ~overlapped' => (Settled \/ Cancels \/ Restarts \/ Consumes)'
  PROVE  PauseInv'
<1>1. \A i \in DOMAIN calls' : calls'[i] \in TransportCalls(created')
  OBVIOUS
<1>2. {lost', failed', overlapped', sought'} \subseteq BOOLEAN /\ transport' \in Transports
  BY DEF PauseInv, Pause!TypeOK
<1> QED BY <1>1, <1>2 DEF PauseInv, Pause!TypeOK, TransportCalls, Handled

\* The types of a state that satisfies PauseInv.
LEMMA PauseTypes ==
  ASSUME PauseInv
  PROVE  /\ reasons \subseteq Reasons /\ created \in 1 .. MaxConsumers
         /\ tag \in 1 .. created \cup {NoTag} /\ consumers \subseteq 1 .. created
         /\ calls \in Seq(TransportCalls(created))
         /\ lost \in BOOLEAN /\ failed \in BOOLEAN
         /\ overlapped \in BOOLEAN /\ sought \in BOOLEAN
         /\ tag # NoTag => tag \in consumers \/ failed
<1>1. {lost, failed, overlapped, sought} \subseteq BOOLEAN
  BY DEF PauseInv, Pause!TypeOK
<1> QED BY <1>1 DEF PauseInv, Pause!TypeOK, Handled

LEMMA MoreCalls == ASSUME NEW m \in Nat, NEW n \in Nat, m <= n
                   PROVE  TransportCalls(m) \subseteq TransportCalls(n)
<1> QED BY DEF TransportCalls

\* One more transport call outstanding.
LEMMA CallSent ==
  ASSUME PauseInv, NEW op \in {"cancel", "stop", "consume"}, NEW n \in Nat, created <= n,
         NEW t \in 1 .. n, NEW pending \in Seq(TransportCalls(created))
  PROVE  Append(pending, Pause!Call(op, t)) \in Seq(TransportCalls(n))
<1>1. created \in Nat
  BY PauseTypes, PauseNumbers
<1>2. pending \in Seq(TransportCalls(n))
  BY <1>1, MoreCalls
<1> QED BY <1>2 DEF Pause!Call, TransportCalls

LEMMA PauseForInv == ASSUME PauseInv, NEW r \in Reasons, Pause!PauseFor(r) PROVE PauseInv'
<1>1. /\ transport' = transport /\ tag' = tag /\ consumers' = consumers
      /\ lost' = lost /\ failed' = failed
      /\ sought' = sought /\ created' = created /\ reasons' = reasons \cup {r}
  BY DEF Pause!PauseFor, Pause!DoPause, Pause!NoEffect
<1>2. CASE reasons # {} \/ tag = NoTag
  <2>1. calls' = calls /\ overlapped' \in BOOLEAN /\ (~overlapped' => ~overlapped)
    BY <1>2, PauseTypes DEF Pause!PauseFor, Pause!DoPause, Pause!NoEffect, Pause!Reaches
  <2>2. ~overlapped' => (Settled \/ Cancels \/ Restarts \/ Consumes)'
    <3> SUFFICES ASSUME ~overlapped' PROVE (Settled \/ Cancels \/ Restarts \/ Consumes)'
      OBVIOUS
    <3>1. CASE reasons # {}
      BY <1>1, <2>1, <3>1 DEF PauseInv, Settled, Cancels, Restarts, Consumes
    <3>2. CASE reasons = {}
      <4>1. calls = <<>> /\ tag = NoTag
        BY <1>2, <3>2 DEF Pause!PauseFor, Pause!Reaches
      <4>2. Settled
        BY <2>1, <4>1 DEF PauseInv, Cancels, Restarts, Consumes
      <4> QED BY <1>1, <2>1, <4>1, <4>2 DEF Settled
    <3> QED BY <3>1, <3>2
  <2> QED BY <1>1, <2>1, <2>2, PauseTypes, PauseKept
<1>3. CASE reasons = {} /\ tag # NoTag
  <2>1. /\ calls' = Append(calls, Pause!Call("cancel", tag))
        /\ overlapped' = (overlapped \/ calls # <<>>)
    BY <1>3 DEF Pause!PauseFor, Pause!DoPause, Pause!Reaches
  <2>2. calls' \in Seq(TransportCalls(created))
    BY <1>3, <2>1, PauseTypes, PauseNumbers, CallSent
  <2>3. ~overlapped' => Cancels'
    <3> SUFFICES ASSUME ~overlapped' PROVE Cancels'
      OBVIOUS
    <3>1. calls = <<>> /\ ~overlapped
      BY <2>1
    <3>2. consumers \subseteq {tag}
      BY <1>3, <3>1 DEF PauseInv, Settled, Cancels, Restarts, Consumes
    <3>3. calls' = <<Pause!Call("cancel", tag)>>
      BY <2>1, <3>1
    <3> QED BY <1>1, <1>3, <3>2, <3>3 DEF Cancels, Pause!Call
  <2> QED BY <1>1, <2>1, <2>2, <2>3, PauseTypes, PauseKept
<1> QED BY <1>2, <1>3

\* doResume asks for a consumer unless the source has one.
LEMMA Resumed ==
  ASSUME PauseInv, NEW pending \in Seq(TransportCalls(created)), NEW t,
         Pause!DoResume(pending, t)
  PROVE  /\ created' \in 1 .. MaxConsumers /\ created <= created'
         /\ calls' \in Seq(TransportCalls(created'))
         /\ t # NoTag => calls' = pending /\ created' = created
         /\ t = NoTag => calls' = Append(pending, Pause!Call("consume", created'))
<1>1. created \in 1 .. MaxConsumers /\ created \in Nat
  BY PauseTypes, PauseNumbers
<1>2. CASE t # NoTag
  BY <1>1, <1>2 DEF Pause!DoResume
<1>3. CASE t = NoTag
  <2>1. /\ created < MaxConsumers /\ created' = created + 1
        /\ calls' = Append(pending, Pause!Call("consume", created + 1))
    BY <1>3 DEF Pause!DoResume
  <2>2. created' \in 1 .. MaxConsumers /\ created' \in Nat /\ created <= created'
        /\ created' \in 1 .. created'
    BY <1>1, <2>1, PauseNumbers
  <2>3. calls' \in Seq(TransportCalls(created'))
    BY <2>1, <2>2, CallSent
  <2> QED BY <1>3, <2>1, <2>2, <2>3
<1> QED BY <1>2, <1>3

\* What PauseKept asks of created, tag and consumers, when the latter two stay.
LEMMA StillThere ==
  ASSUME PauseInv, created' \in 1 .. MaxConsumers, created <= created',
         tag' = tag, consumers' = consumers
  PROVE  tag' \in 1 .. created' \cup {NoTag} /\ consumers' \subseteq 1 .. created'
<1>1. created \in Nat /\ created' \in Nat
  BY PauseTypes, PauseNumbers
<1> QED BY <1>1, PauseTypes

LEMMA ResumeFromInv == ASSUME PauseInv, NEW r \in Reasons, Pause!ResumeFrom(r) PROVE PauseInv'
<1>1. /\ transport' = transport /\ tag' = tag /\ consumers' = consumers
      /\ lost' = lost /\ failed' = failed
      /\ sought' = sought /\ r \in reasons /\ reasons' = reasons \ {r}
  BY DEF Pause!ResumeFrom
<1>2. CASE reasons' # {}
  <2>1. calls' = calls /\ overlapped' = overlapped /\ created' = created
    BY <1>2 DEF Pause!ResumeFrom, Pause!NoEffect
  <2>2. ~overlapped' => (Settled \/ Cancels \/ Restarts \/ Consumes)'
    BY <1>1, <1>2, <2>1 DEF PauseInv, Settled, Cancels, Restarts, Consumes
  <2> QED BY <1>1, <2>1, <2>2, PauseTypes, PauseKept
<1>3. CASE reasons' = {}
  <2>1. Pause!DoResume(calls, tag) /\ overlapped' = (overlapped \/ calls # <<>>)
    BY <1>3 DEF Pause!ResumeFrom, Pause!Reaches
  <2>2. /\ created' \in 1 .. MaxConsumers /\ created <= created'
        /\ calls' \in Seq(TransportCalls(created'))
        /\ tag # NoTag => calls' = calls /\ created' = created
        /\ tag = NoTag => calls' = Append(calls, Pause!Call("consume", created'))
    BY <2>1, PauseTypes, Resumed
  <2>3. ~overlapped' => (Settled \/ Consumes)'
    <3> SUFFICES ASSUME ~overlapped' PROVE (Settled \/ Consumes)'
      OBVIOUS
    <3>1. calls = <<>> /\ consumers \subseteq {tag} \ {NoTag}
      BY <2>1 DEF PauseInv, Settled, Cancels, Restarts, Consumes
    <3>2. CASE tag # NoTag
      BY <1>1, <1>3, <2>2, <3>1, <3>2 DEF Settled
    <3>3. CASE tag = NoTag
      <4>1. calls' = <<Pause!Call("consume", created')>>
        BY <2>2, <3>1, <3>3
      <4> QED BY <1>1, <1>3, <3>1, <3>3, <4>1 DEF Consumes, Pause!Call
    <3> QED BY <3>2, <3>3
  <2>4. overlapped' \in BOOLEAN /\ sought' \in BOOLEAN /\ reasons' \subseteq Reasons
    BY <1>1, <2>1, PauseTypes
  <2> QED BY <1>1, <2>2, <2>3, <2>4, StillThere, PauseTypes, PauseKept
<1> QED BY <1>2, <1>3

LEMMA SeekInv == ASSUME PauseInv, Pause!Seek PROVE PauseInv'
<1>1. /\ transport' = transport /\ tag' = tag /\ consumers' = consumers /\ reasons' = reasons
      /\ lost' = lost /\ failed' = failed
      /\ sought' = (sought \/ reasons # {}) /\ overlapped' = (overlapped \/ calls # <<>>)
  BY DEF Pause!Seek, Pause!Reaches
<1>2. /\ overlapped' \in BOOLEAN /\ sought' \in BOOLEAN /\ reasons' \subseteq Reasons
      /\ (reasons' = {} \/ sought')
  BY <1>1, PauseTypes
<1>3. ~overlapped' => calls = <<>> /\ consumers \subseteq {tag} \ {NoTag}
  BY <1>1 DEF PauseInv, Settled, Cancels, Restarts, Consumes
<1>4. CASE tag # NoTag
  <2>1. calls' = Append(calls, Pause!Call("stop", tag)) /\ created' = created
    BY <1>4 DEF Pause!Seek
  <2>2. calls' \in Seq(TransportCalls(created))
    BY <1>4, <2>1, PauseTypes, PauseNumbers, CallSent
  <2>3. ~overlapped' => Restarts'
    <3> SUFFICES ASSUME ~overlapped' PROVE Restarts'
      OBVIOUS
    <3>1. calls' = <<Pause!Call("stop", tag)>>
      BY <1>3, <2>1
    <3> QED BY <1>1, <1>2, <1>3, <1>4, <3>1 DEF Restarts, Pause!Call
  <2> QED BY <1>1, <1>2, <2>1, <2>2, <2>3, PauseTypes, PauseKept
<1>5. CASE tag = NoTag
  <2>1. /\ created' \in 1 .. MaxConsumers /\ created <= created'
        /\ calls' \in Seq(TransportCalls(created'))
        /\ calls' = Append(calls, Pause!Call("consume", created'))
    BY <1>5, PauseTypes, Resumed DEF Pause!Seek
  <2>2. ~overlapped' => Consumes'
    <3> SUFFICES ASSUME ~overlapped' PROVE Consumes'
      OBVIOUS
    <3>1. calls' = <<Pause!Call("consume", created')>>
      BY <1>3, <2>1
    <3> QED BY <1>1, <1>2, <1>3, <1>5, <3>1 DEF Consumes, Pause!Call
  <2> QED BY <1>1, <1>2, <2>1, <2>2, StillThere, PauseTypes, PauseKept
<1> QED BY <1>4, <1>5

\* Unless calls overlap a reply or a refusal is to the only one.
LEMMA TheCall ==
  ASSUME PauseInv, ~overlapped, NEW i \in DOMAIN calls
  PROVE  /\ Pause!RemoveAt(calls, i) = <<>>
         /\ \/ Cancels /\ calls[i].op = "cancel"
            \/ Restarts /\ calls[i].op = "stop"
            \/ Consumes /\ calls[i].op = "consume"
         /\ consumers \subseteq {calls[i].id}
<1>1. Cancels \/ Restarts \/ Consumes
  BY DEF PauseInv, Settled
<1>2. Len(calls) = 1 /\ i = 1
  BY <1>1 DEF Cancels, Restarts, Consumes
<1>3. Pause!RemoveAt(calls, i) = <<>>
  BY <1>2, PauseTypes, RemovedCall
<1> QED BY <1>1, <1>2, <1>3 DEF Cancels, Restarts, Consumes, Pause!Call

LEMMA ReplyInv == ASSUME PauseInv, NEW i \in DOMAIN calls, Pause!Reply(i) PROVE PauseInv'
<1> DEFINE rest == Pause!RemoveAt(calls, i)
<1>1. /\ transport' = transport /\ reasons' = reasons /\ lost' = lost
      /\ overlapped' = overlapped /\ sought' = sought
  BY DEF Pause!Reply, Pause!past
<1>2. /\ reasons' \subseteq Reasons /\ overlapped' \in BOOLEAN /\ sought' \in BOOLEAN
      /\ lost' \in BOOLEAN /\ failed \in BOOLEAN
      /\ created \in 1 .. MaxConsumers /\ consumers \subseteq 1 .. created
      /\ calls[i] \in TransportCalls(created)
  BY <1>1, PauseTypes
<1>3. calls[i].id \in 1 .. created /\ created \in Nat
  BY <1>2, PauseNumbers DEF TransportCalls
<1>4. rest \in Seq(TransportCalls(created))
  BY PauseTypes, RemovedCall
<1>5. ~overlapped => /\ rest = <<>>
                     /\ \/ Cancels /\ calls[i].op = "cancel"
                        \/ Restarts /\ calls[i].op = "stop"
                        \/ Consumes /\ calls[i].op = "consume"
                     /\ consumers \subseteq {calls[i].id}
  BY TheCall
<1>6. CASE calls[i].op = "cancel"
  <2>1. /\ consumers' = consumers \ {calls[i].id} /\ tag' = NoTag
        /\ calls' = rest /\ created' = created /\ failed' = failed
    BY <1>6 DEF Pause!Reply
  <2>2. ~overlapped' => Settled'
    BY <1>1, <1>5, <1>6, <2>1 DEF Settled, Cancels
  <2> QED BY <1>1, <1>2, <1>4, <2>1, <2>2, PauseKept
<1>7. CASE calls[i].op = "stop"
  <2>1. /\ consumers' = consumers \ {calls[i].id} /\ tag' = NoTag
        /\ Pause!DoResume(rest, NoTag) /\ failed' = failed
    BY <1>7 DEF Pause!Reply
  <2>2. /\ created' \in 1 .. MaxConsumers /\ created <= created'
        /\ calls' \in Seq(TransportCalls(created'))
        /\ calls' = Append(rest, Pause!Call("consume", created'))
    BY <1>4, <2>1, Resumed
  <2>3. consumers' \subseteq 1 .. created'
    <3>1. 1 .. created \subseteq 1 .. created'
      BY <1>3, <2>2, PauseNumbers
    <3>2. consumers' \subseteq consumers
      BY <2>1
    <3> QED BY <1>2, <3>1, <3>2
  <2>4. ~overlapped' => Consumes'
    <3> SUFFICES ASSUME ~overlapped' PROVE Consumes'
      OBVIOUS
    <3>1. calls' = <<Pause!Call("consume", created')>>
      BY <1>1, <1>5, <2>2
    <3> QED BY <1>1, <1>5, <1>7, <2>1, <3>1 DEF Consumes, Restarts, Pause!Call
  <2> QED BY <1>1, <1>2, <2>1, <2>2, <2>3, <2>4, PauseKept
<1>8. CASE calls[i].op = "consume"
  <2>1. /\ consumers' = consumers \cup {calls[i].id} /\ tag' = calls[i].id
        /\ calls' = rest /\ created' = created /\ failed' = FALSE
    BY <1>8 DEF Pause!Reply
  <2>2. calls[i].id # NoTag
    BY <1>3, PauseNumbers
  <2>3. ~overlapped' => Settled'
    BY <1>1, <1>5, <1>8, <2>1, <2>2 DEF Settled, Consumes
  <2> QED BY <1>1, <1>2, <1>3, <1>4, <2>1, <2>3, PauseKept
<1> QED BY <1>6, <1>7, <1>8 DEF Pause!Reply

LEMMA RefusedInv == ASSUME PauseInv, NEW i \in DOMAIN calls, Pause!Refused(i) PROVE PauseInv'
<1> DEFINE rest == Pause!RemoveAt(calls, i)
<1>1. /\ calls[i].op = "consume" /\ calls' = rest /\ failed' = TRUE
      /\ transport' = transport /\ reasons' = reasons /\ tag' = tag /\ created' = created
      /\ overlapped' = overlapped /\ sought' = sought
      /\ lost' \in BOOLEAN /\ consumers' \subseteq consumers
  BY PauseTypes DEF Pause!Refused, Pause!ChannelGone, Pause!past
<1>2. rest \in Seq(TransportCalls(created))
  BY PauseTypes, RemovedCall
<1>3. ~overlapped' => Settled'
  BY <1>1, TheCall DEF Settled, Consumes
<1> QED BY <1>1, <1>2, <1>3, PauseTypes, PauseKept

\* The transport takes consumers away: nothing else changes.
LEMMA TakenInv ==
  ASSUME PauseInv, UNCHANGED <<transport, reasons, tag, calls, created, overlapped, sought>>,
         consumers' \subseteq consumers, lost' \in BOOLEAN, failed' \in BOOLEAN,
         failed => failed', tag \in consumers => tag \in consumers' \/ failed'
  PROVE  PauseInv'
<1>1. ~overlapped' => (Settled \/ Cancels \/ Restarts \/ Consumes)'
  BY DEF PauseInv, Settled, Cancels, Restarts, Consumes
<1> QED BY <1>1, PauseTypes, PauseKept

LEMMA PauseStep == PauseInv /\ [Pause!Next]_(Pause!vars) => PauseInv'
<1> SUFFICES ASSUME PauseInv, [Pause!Next]_(Pause!vars) PROVE PauseInv' OBVIOUS
<1>1. ASSUME NEW r \in Reasons, Pause!PauseFor(r) PROVE PauseInv'
  BY <1>1, PauseForInv
<1>2. ASSUME NEW r \in Reasons, Pause!ResumeFrom(r) PROVE PauseInv'
  BY <1>2, ResumeFromInv
<1>3. CASE Pause!Seek
  BY <1>3, SeekInv
<1>4. ASSUME NEW i \in DOMAIN calls, Pause!Reply(i) PROVE PauseInv'
  BY <1>4, ReplyInv
<1>5. ASSUME NEW i \in DOMAIN calls, Pause!Refused(i) PROVE PauseInv'
  BY <1>5, RefusedInv
<1>6. CASE Pause!ChannelCloses
  BY <1>6, TakenInv DEF Pause!ChannelCloses, Pause!ChannelGone, Pause!past
<1>7. ASSUME NEW c \in consumers, Pause!ConsumerEnds(c) PROVE PauseInv'
  BY <1>7, PauseTypes, TakenInv DEF Pause!ConsumerEnds, Pause!past
<1>8. CASE UNCHANGED Pause!vars
  BY <1>8, PauseTypes, TakenInv DEF Pause!vars, Pause!past
<1> QED BY <1>1, <1>2, <1>3, <1>4, <1>5, <1>6, <1>7, <1>8 DEF Pause!Next

THEOREM PauseAlways == Pause!Spec => []PauseInv
<1> QED BY PauseInit, PauseStep, PTL DEF Pause!Spec

\* For any reasons and bounds, and both transports, which may refuse a consumer or
\* end one: once the transport has answered what doPause, doResume and seek asked
\* of it one after the other, a source has its one consumer exactly while it has
\* no pause reason (pauseFor, resumeFrom), unless the transport failed last or a
\* paused source was sought; and whatever overlaps, the handle it holds is that of
\* a consumer, unless the transport ended it.
THEOREM PausedExactly == Pause!Spec => []FlowFollowsReasons
<1>1. PauseInv => FlowFollowsReasons
  <2> SUFFICES ASSUME PauseInv PROVE Pause!FlowFollowsReasons
    BY DEF FlowFollowsReasons
  <2>1. ASSUME Pause!InTurn
        PROVE (reasons = {} => consumers # {} \/ failed) /\ (reasons # {} /\ ~sought => consumers = {})
    BY <2>1 DEF PauseInv, Pause!InTurn, Handled, Settled, Cancels, Restarts, Consumes
  <2>2. ~overlapped => \A c, d \in consumers : c = d
    BY DEF PauseInv, Settled, Cancels, Restarts, Consumes
  <2> QED BY <2>1, <2>2, PauseTypes DEF Pause!FlowFollowsReasons
<1> QED BY <1>1, PauseAlways, PTL

-----------------------------------------------------------------------------
(* The three parts side by side.                                             *)

PartsInv == BreakerInv /\ PauseInv /\ KafkaInv

LEMMA PartsInvariant == PartsSpec => []PartsInv
<1>1. PartsInit => PartsInv
  BY BreakerInit, PauseInit, KafkaInit, PartsAssumption DEF PartsInit, PartsInv
<1>2. PartsInv /\ [PartsNext]_<<part, vars, pauseVars, kafkaVars>> => PartsInv'
  <2> SUFFICES ASSUME PartsInv, [PartsNext]_<<part, vars, pauseVars, kafkaVars>>
               PROVE  PartsInv'
    OBVIOUS
  <2>1. [Next]_vars
    BY DEF PartsNext
  <2>2. [Pause!Next]_(Pause!vars)
    BY DEF PartsNext, pauseVars, Pause!vars, Pause!past
  <2>3. [Kafka!Next]_(Kafka!vars)
    BY DEF PartsNext, kafkaVars, Kafka!vars, Kafka!config, Kafka!drops
  <2> QED BY <2>1, <2>2, <2>3, BreakerStep, PauseStep, KafkaStep, PartsAssumption DEF PartsInv
<1> QED BY <1>1, <1>2, PTL DEF PartsSpec

\* Every variable of the breaker, of the pausing and of the Kafka source keeps
\* its type, whichever part moves.
THEOREM PartsTyped == PartsSpec => []PartsTypeOK
<1>1. PartsInv => PartsTypeOK
  BY KafkaTyped DEF PartsInv, BreakerInv, PauseInv, PartsTypeOK
<1> QED BY <1>1, PartsInvariant, PTL
=============================================================================
