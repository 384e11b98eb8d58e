------------------------- MODULE ConcurrencyLimiter -------------------------
(***************************************************************************)
(* packages/core/src/events/concurrency.ts: the FIFO semaphore that caps    *)
(* the message handlers of one source (base-source.ts, handleMessage).      *)
(* release() frees the slot and resumes the first waiter in one synchronous *)
(* step, so a slot that is handed over is never visible as free.            *)
(***************************************************************************)
EXTENDS Naturals, Sequences, FiniteSets

CONSTANTS
  Handlers,   \* callers of acquire()
  Max         \* `max'

\* What the theorems about the limiter assume; SourceIntake, which uses it,
\* assumes as much of its own constants.
LimiterAssumption ==
  /\ IsFiniteSet(Handlers)
  /\ Max \in Nat \ {0}     \* the constructor refuses anything else

VARIABLES
  inflight,   \* slots held
  waiters,    \* waiters, in the order they called acquire()
  slot        \* handler -> "none", "waiting" or "held"

limiter == <<inflight, waiters, slot>>

Init ==
  /\ inflight = 0
  /\ waiters = <<>>
  /\ slot = [h \in Handlers |-> "none"]

Acquire(h) ==
  /\ slot[h] = "none"
  /\ \/ /\ inflight < Max
        /\ inflight' = inflight + 1
        /\ slot' = [slot EXCEPT ![h] = "held"]
        /\ UNCHANGED waiters
     \/ /\ inflight >= Max
        /\ waiters' = Append(waiters, h)
        /\ slot' = [slot EXCEPT ![h] = "waiting"]
        /\ UNCHANGED inflight

\* The release function acquire() returned; calling it again does nothing.
Release(h) ==
  /\ slot[h] = "held"
  /\ \/ /\ waiters = <<>>
        /\ inflight' = inflight - 1
        /\ slot' = [slot EXCEPT ![h] = "none"]
        /\ UNCHANGED waiters
     \/ /\ waiters # <<>>       \* freed, then taken by the first waiter
        /\ waiters' = Tail(waiters)
        /\ slot' = [slot EXCEPT ![h] = "none", ![Head(waiters)] = "held"]
        /\ UNCHANGED inflight

Next == \E h \in Handlers : Acquire(h) \/ Release(h)

Spec == Init /\ [][Next]_limiter

-----------------------------------------------------------------------------
(* Properties *)

Holders == {h \in Handlers : slot[h] = "held"}
Waiting == {h \in Handlers : slot[h] = "waiting"}

TypeOK ==
  /\ inflight \in 0 .. Max
  /\ waiters \in Seq(Handlers)
  /\ slot \in [Handlers -> {"none", "waiting", "held"}]

\* The counter is the number of handlers inside, so at most Max handlers run
\* at once, across any interleaving of hand-overs (acquire, release).
SlotsCounted == inflight = Cardinality(Holders)

\* Nobody waits while a slot is free (acquire, release).
NoIdleSlot == waiters # <<>> => inflight = Max

\* The queue holds exactly the handlers that wait, each once: none is lost
\* and none is woken twice.
QueueIsWaiters ==
  /\ {waiters[i] : i \in 1 .. Len(waiters)} = Waiting
  /\ \A i, j \in 1 .. Len(waiters) : waiters[i] = waiters[j] => i = j

\* "Waiters are served in FIFO order": nobody who waits is overtaken, neither
\* by a later waiter nor by a newcomer.
Fifo ==
  [][\A h \in Handlers :
       slot[h] # "held" /\ slot'[h] = "held"
         => IF waiters = <<>> THEN slot[h] = "none" ELSE h = Head(waiters)]_limiter
=============================================================================
