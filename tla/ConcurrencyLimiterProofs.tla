---------------------- MODULE ConcurrencyLimiterProofs ----------------------
(***************************************************************************)
(* ConcurrencyLimiter, for every set of handlers and every Max: the type    *)
(* invariant, SlotsCounted, NoIdleSlot and QueueIsWaiters are inductive     *)
(* together (a hand-over needs the queue to hold only waiters, the counter  *)
(* needs the holders to be a finite set), and Fifo follows from them.       *)
(***************************************************************************)
EXTENDS ConcurrencyLimiter, FiniteSetTheorems, TLAPS

Inv == TypeOK /\ SlotsCounted /\ NoIdleSlot /\ QueueIsWaiters

\* Taking a slot adds one holder, giving it back removes one.
LEMMA HoldersFinite ==
  ASSUME LimiterAssumption
  PROVE  IsFiniteSet(Holders) /\ Cardinality(Holders) \in Nat
<1>1. IsFiniteSet(Holders)
  BY FS_Subset, Holders \subseteq Handlers DEF Holders, LimiterAssumption
<1> QED BY <1>1, FS_CardinalityType

LEMMA InitInv == ASSUME LimiterAssumption, Init PROVE Inv
<1> USE DEF Init, LimiterAssumption
<1>1. TypeOK BY DEF TypeOK
<1>2. SlotsCounted
  <2>1. Holders = {} BY DEF Holders
  <2> QED BY <2>1, FS_EmptySet DEF SlotsCounted
<1>3. NoIdleSlot BY DEF NoIdleSlot
<1>4. QueueIsWaiters BY DEF QueueIsWaiters, Waiting
<1> QED BY <1>1, <1>2, <1>3, <1>4 DEF Inv

LEMMA AcquireInv ==
  ASSUME LimiterAssumption, Inv, NEW h \in Handlers, Acquire(h)
  PROVE  Inv'
<1> USE DEF LimiterAssumption
<1>0. TypeOK /\ SlotsCounted /\ NoIdleSlot /\ QueueIsWaiters BY DEF Inv
<1>1. CASE inflight < Max
  <2>1. /\ slot[h] = "none" /\ inflight' = inflight + 1 /\ waiters' = waiters
        /\ slot' = [slot EXCEPT ![h] = "held"]
    BY <1>0, <1>1 DEF Acquire, TypeOK
  <2>2. TypeOK' BY <1>0, <1>1, <2>1 DEF TypeOK
  <2>3. SlotsCounted'
    <3>1. Holders' = Holders \cup {h} /\ h \notin Holders
      BY <1>0, <2>1 DEF Holders, TypeOK
    <3> QED BY <1>0, <2>1, <3>1, HoldersFinite, FS_AddElement DEF SlotsCounted
  <2>4. NoIdleSlot' BY <1>0, <1>1, <2>1 DEF NoIdleSlot, TypeOK
  <2>5. QueueIsWaiters'
    <3>1. Waiting' = Waiting BY <1>0, <2>1 DEF Waiting, TypeOK
    <3> QED BY <1>0, <2>1, <3>1 DEF QueueIsWaiters
  <2> QED BY <2>2, <2>3, <2>4, <2>5 DEF Inv
<1>2. CASE inflight >= Max
  <2>1. /\ slot[h] = "none" /\ inflight' = inflight
        /\ waiters' = Append(waiters, h)
        /\ slot' = [slot EXCEPT ![h] = "waiting"]
    BY <1>0, <1>2 DEF Acquire, TypeOK
  <2>2. TypeOK' BY <1>0, <2>1 DEF TypeOK
  <2>3. SlotsCounted'
    <3>1. Holders' = Holders BY <1>0, <2>1 DEF Holders, TypeOK
    <3> QED BY <1>0, <2>1, <3>1 DEF SlotsCounted
  <2>4. NoIdleSlot' BY <1>0, <1>2, <2>1 DEF NoIdleSlot, TypeOK
  <2>5. QueueIsWaiters'
    <3>1. Waiting' = Waiting \cup {h} /\ h \notin Waiting
      BY <1>0, <2>1 DEF Waiting, TypeOK
    <3>2. /\ Len(waiters') = Len(waiters) + 1 /\ Len(waiters) \in Nat
          /\ \A i \in 1 .. Len(waiters) : waiters'[i] = waiters[i]
          /\ waiters'[Len(waiters) + 1] = h
      BY <1>0, <2>1 DEF TypeOK
    <3>3. \A i \in 1 .. Len(waiters) : waiters[i] # h
      BY <1>0, <3>1 DEF QueueIsWaiters
    <3>4. {waiters'[i] : i \in 1 .. Len(waiters')} = Waiting'
      <4>1. {waiters'[i] : i \in 1 .. Len(waiters) + 1}
               = {waiters[i] : i \in 1 .. Len(waiters)} \cup {h}
        BY <3>2
      <4> QED BY <1>0, <3>1, <3>2, <4>1 DEF QueueIsWaiters
    <3>5. ASSUME NEW i \in 1 .. Len(waiters'), NEW j \in 1 .. Len(waiters'),
                 waiters'[i] = waiters'[j]
          PROVE  i = j
      BY <1>0, <3>2, <3>3, <3>5 DEF QueueIsWaiters
    <3> QED BY <3>4, <3>5 DEF QueueIsWaiters
  <2> QED BY <2>2, <2>3, <2>4, <2>5 DEF Inv
<1> QED BY <1>0, <1>1, <1>2 DEF Acquire, TypeOK

LEMMA ReleaseInv ==
  ASSUME LimiterAssumption, Inv, NEW h \in Handlers, Release(h)
  PROVE  Inv'
<1> USE DEF LimiterAssumption
<1>0. TypeOK /\ SlotsCounted /\ NoIdleSlot /\ QueueIsWaiters BY DEF Inv
<1>h. h \in Holders /\ slot[h] = "held" BY DEF Release, Holders
<1>1. CASE waiters = <<>>
  <2>1. /\ inflight' = inflight - 1 /\ waiters' = <<>>
        /\ slot' = [slot EXCEPT ![h] = "none"]
    BY <1>0, <1>1 DEF Release
  <2>2. Holders' = Holders \ {h} BY <1>0, <2>1 DEF Holders, TypeOK
  <2>3. inflight' = Cardinality(Holders') /\ inflight' \in Nat
    <3>1. Cardinality(Holders \ {h}) = Cardinality(Holders) - 1
      BY <1>h, HoldersFinite, FS_RemoveElement
    <3>2. IsFiniteSet(Holders \ {h})
      BY HoldersFinite, FS_Subset, Holders \ {h} \subseteq Holders
    <3>3. Cardinality(Holders \ {h}) \in Nat BY <3>2, FS_CardinalityType
    <3> QED BY <1>0, <2>1, <2>2, <3>1, <3>3 DEF SlotsCounted
  <2>4. TypeOK' BY <1>0, <2>1, <2>3 DEF TypeOK
  <2>5. SlotsCounted' BY <2>3 DEF SlotsCounted
  <2>6. NoIdleSlot' BY <2>1 DEF NoIdleSlot
  <2>7. QueueIsWaiters'
    <3>1. Waiting' = Waiting BY <1>0, <1>h, <2>1 DEF Waiting, TypeOK
    <3> QED BY <1>0, <1>1, <2>1, <3>1 DEF QueueIsWaiters
  <2> QED BY <2>4, <2>5, <2>6, <2>7 DEF Inv
<1>2. CASE waiters # <<>>
  <2> DEFINE w == Head(waiters)
  <2>1. /\ inflight' = inflight /\ waiters' = Tail(waiters)
        /\ slot' = [slot EXCEPT ![h] = "none", ![w] = "held"]
    BY <1>0, <1>2 DEF Release
  <2>2. /\ Len(waiters) \in Nat \ {0} /\ w = waiters[1] /\ w \in Handlers
        /\ Len(Tail(waiters)) = Len(waiters) - 1
        /\ \A i \in 1 .. Len(waiters) - 1 : Tail(waiters)[i] = waiters[i + 1]
        /\ Tail(waiters) \in Seq(Handlers)
    BY <1>0, <1>2 DEF TypeOK
  <2>3. w \in Waiting /\ slot[w] = "waiting" /\ w # h
    BY <1>0, <1>h, <2>2 DEF QueueIsWaiters, Waiting
  <2>4. TypeOK' BY <1>0, <2>1, <2>2 DEF TypeOK
  <2>5. SlotsCounted'
    <3>1. Holders' = (Holders \ {h}) \cup {w}
      BY <1>0, <2>1, <2>2, <2>3 DEF Holders, TypeOK
    <3>2. IsFiniteSet(Holders \ {h})
      BY HoldersFinite, FS_Subset, Holders \ {h} \subseteq Holders
    <3>3. Cardinality(Holders \ {h}) = Cardinality(Holders) - 1
      BY <1>h, HoldersFinite, FS_RemoveElement
    <3>4. w \notin Holders \ {h} BY <2>3 DEF Holders
    <3>5. Cardinality((Holders \ {h}) \cup {w}) = Cardinality(Holders \ {h}) + 1
      BY <3>2, <3>4, FS_AddElement
    <3>6. Cardinality(Holders') = Cardinality(Holders)
      BY <3>1, <3>3, <3>5, HoldersFinite
    <3> QED BY <1>0, <2>1, <3>6 DEF SlotsCounted
  <2>6. NoIdleSlot' BY <1>0, <1>2, <2>1 DEF NoIdleSlot
  <2>7. QueueIsWaiters'
    <3>1. Waiting' = Waiting \ {w}
      BY <1>0, <1>h, <2>1, <2>2, <2>3 DEF Waiting, TypeOK
    <3>2. \A i \in 2 .. Len(waiters) : waiters[i] # w
      BY <1>0, <2>2 DEF QueueIsWaiters
    <3>3. {Tail(waiters)[i] : i \in 1 .. Len(waiters) - 1}
             = {waiters[i] : i \in 1 .. Len(waiters)} \ {w}
      <4>1. ASSUME NEW i \in 1 .. Len(waiters) - 1
            PROVE  Tail(waiters)[i] \in {waiters[k] : k \in 1 .. Len(waiters)} \ {w}
        <5>1. i + 1 \in 1 .. Len(waiters) /\ i + 1 \in 2 .. Len(waiters)
          BY <2>2
        <5> QED BY <2>2, <3>2, <5>1
      <4>2. ASSUME NEW k \in 1 .. Len(waiters), waiters[k] # w
            PROVE  waiters[k] \in {Tail(waiters)[i] : i \in 1 .. Len(waiters) - 1}
        <5>1. k - 1 \in 1 .. Len(waiters) - 1 /\ (k - 1) + 1 = k
          BY <2>2, <4>2
        <5> QED BY <2>2, <5>1
      <4> QED BY <4>1, <4>2
    <3>4. ASSUME NEW i \in 1 .. Len(waiters) - 1, NEW j \in 1 .. Len(waiters) - 1,
                 Tail(waiters)[i] = Tail(waiters)[j]
          PROVE  i = j
      <4>1. i + 1 \in 1 .. Len(waiters) /\ j + 1 \in 1 .. Len(waiters)
        BY <2>2
      <4>2. waiters[i + 1] = waiters[j + 1] BY <2>2, <3>4
      <4> QED BY <1>0, <4>1, <4>2 DEF QueueIsWaiters
    <3>5. {waiters'[i] : i \in 1 .. Len(waiters')} = Waiting'
      <4>1. {waiters[i] : i \in 1 .. Len(waiters)} = Waiting
        BY <1>0 DEF QueueIsWaiters
      <4>2. Len(waiters') = Len(waiters) - 1 BY <2>1, <2>2
      <4> HIDE DEF LimiterAssumption
      <4> QED BY <2>1, <3>1, <3>3, <4>1, <4>2
    <3>6. \A i, j \in 1 .. Len(waiters') : waiters'[i] = waiters'[j] => i = j
      BY <2>1, <2>2, <3>4
    <3> QED BY <3>5, <3>6 DEF QueueIsWaiters
  <2> QED BY <2>4, <2>5, <2>6, <2>7 DEF Inv
<1> QED BY <1>1, <1>2

LEMMA StepInv == ASSUME LimiterAssumption, Inv, [Next]_limiter PROVE Inv'
<1>1. ASSUME NEW h \in Handlers, Acquire(h) PROVE Inv' BY <1>1, AcquireInv
<1>2. ASSUME NEW h \in Handlers, Release(h) PROVE Inv' BY <1>2, ReleaseInv
<1>3. CASE UNCHANGED limiter
  BY <1>3 DEF limiter, Inv, TypeOK, SlotsCounted, NoIdleSlot, QueueIsWaiters,
              Holders, Waiting
<1> QED BY <1>1, <1>2, <1>3 DEF Next

\* Every reachable state of the limiter (acquire, release) satisfies Inv.
THEOREM LimiterInv == ASSUME LimiterAssumption PROVE Spec => []Inv
<1>1. Init => Inv BY InitInv
<1>2. Inv /\ [Next]_limiter => Inv' BY StepInv
<1> QED BY <1>1, <1>2, PTL DEF Spec

\* The counter in concurrency.ts is the number of handlers inside, for every
\* Max and every number of handlers.
THEOREM SlotsAlwaysCounted == ASSUME LimiterAssumption PROVE Spec => []SlotsCounted
<1>1. Inv => SlotsCounted BY DEF Inv
<1> QED BY <1>1, LimiterInv, PTL

\* No handler waits while a slot is free, whatever the order of hand-overs.
THEOREM NeverIdleSlot == ASSUME LimiterAssumption PROVE Spec => []NoIdleSlot
<1>1. Inv => NoIdleSlot BY DEF Inv
<1> QED BY <1>1, LimiterInv, PTL

\* Waiters are served in the order they came, and newcomers only when nobody
\* waits.
THEOREM ServedInOrder == ASSUME LimiterAssumption PROVE Spec => Fifo
<1> DEFINE Served(h) == slot[h] # "held" /\ slot'[h] = "held"
           Turn(h) == IF waiters = <<>> THEN slot[h] = "none"
                      ELSE h = Head(waiters)
<1>1. Inv /\ [Next]_limiter
        => [\A h \in Handlers :
              slot[h] # "held" /\ slot'[h] = "held"
                => IF waiters = <<>> THEN slot[h] = "none"
                   ELSE h = Head(waiters)]_limiter
  <2> SUFFICES ASSUME Inv, Next, NEW k \in Handlers, Served(k) PROVE Turn(k)
    OBVIOUS
  <2>0. TypeOK /\ NoIdleSlot BY DEF Inv
  <2>1. ASSUME NEW h \in Handlers, Acquire(h) PROVE Turn(k)
    <3>1. CASE inflight < Max
      BY <2>0, <2>1, <3>1 DEF Acquire, TypeOK, NoIdleSlot, LimiterAssumption
    <3>2. CASE inflight >= Max
      BY <2>0, <2>1, <3>2 DEF Acquire, TypeOK, LimiterAssumption
    <3> QED BY <2>0, <3>1, <3>2 DEF TypeOK, LimiterAssumption
  <2>2. ASSUME NEW h \in Handlers, Release(h) PROVE Turn(k)
    BY <2>0, <2>2 DEF Release, TypeOK
  <2> QED BY <2>1, <2>2 DEF Next
<1> QED BY <1>1, LimiterInv, PTL DEF Spec, Fifo
=============================================================================
