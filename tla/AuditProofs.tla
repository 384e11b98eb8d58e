-------------------------- MODULE AuditProofs --------------------------
(***************************************************************************)
(* AuditExport for every set of loops and all bounds.  Inv is the inductive  *)
(* invariant: the type invariant, what the process's phase says of its       *)
(* loops, that every loop is awake, and what a tick knows of the cursor and   *)
(* the vendor.  The last is what makes the export a ShippedLog.             *)
(***************************************************************************)
EXTENDS AuditExport, SequenceTheorems, TLAPS

\* No loop is stopped before a shutdown, and none runs after it.
PhaseFits ==
  /\ phase = "up" => \A l \in Loops : ~stopped[l]
  /\ phase = "down" => \A l \in Loops : stopped[l] /\ pc[l] = "idle"

\* The cursor has not gone back since a tick read it, and the batch whose end is
\* about to be written is at the vendor.
BatchFits ==
  \A l \in Loops :
    /\ pc[l] # "idle" => since[l] <= cursor
    /\ pc[l] = "write" => Batch(l) \subseteq delivered

Inv == TypeOK /\ PhaseFits /\ LoopAlive /\ BatchFits

LEMMA BoundsAreNumbers ==
  /\ BatchSize \in Nat /\ BatchSize > 0
  /\ MaxFailures \in Nat /\ MaxFailures > 0
  /\ MaxRows \in Nat /\ MaxFaults \in Nat /\ MaxCommands \in Nat /\ MaxExits \in Nat
<1> QED BY ExportAssumption

\* Setting a timer keeps the timers coherent, and wakes a loop that is not
\* stopped (scheduleNext).
LEMMA Scheduled ==
  ASSUME TypeOK, NEW l \in Loops, NEW n \in Nat, Schedule(l, n),
         stopped[l] /\ named[l] => n > 0
  PROVE  /\ timers' \in [Loops -> Nat] /\ named' \in [Loops -> BOOLEAN]
         /\ \A k \in Loops : named'[k] => timers'[k] > 0
         /\ ~stopped[l] => timers'[l] > 0
         /\ \A k \in Loops \ {l} : timers'[k] = timers[k]
<1>1. timers \in [Loops -> Nat] /\ named \in [Loops -> BOOLEAN]
  BY DEF TypeOK
<1>2. \A k \in Loops : named[k] => timers[k] > 0
  BY DEF TypeOK
<1>3. CASE stopped[l]
  <2>1. timers' = [timers EXCEPT ![l] = n] /\ named' = named
    BY <1>3 DEF Schedule
  <2> QED BY <1>1, <1>2, <1>3, <2>1
<1>4. CASE ~stopped[l]
  <2>1. timers' = [timers EXCEPT ![l] = n + 1] /\ named' = [named EXCEPT ![l] = TRUE]
    BY <1>4 DEF Schedule
  <2>2. n + 1 \in Nat /\ n + 1 > 0
    OBVIOUS
  <2>3. named' \in [Loops -> BOOLEAN]
    BY <1>1, <2>1
  <2> QED BY <1>1, <1>2, <2>1, <2>2, <2>3
<1> QED BY <1>3, <1>4

-----------------------------------------------------------------------------
LEMMA InitInv == Init => Inv
<1> SUFFICES ASSUME Init PROVE Inv OBVIOUS
<1>1. TypeOK
  <2>1. /\ length \in 0 .. MaxRows /\ cursor \in 0 .. length
        /\ aged \subseteq 1 .. length /\ delivered \subseteq 1 .. length
        /\ faults \in 0 .. MaxFaults /\ commands \in 0 .. MaxCommands /\ exits \in 0 .. MaxExits
    BY BoundsAreNumbers DEF Init
  <2>2. /\ failures \in [Loops -> 0 .. MaxFailures] /\ size \in [Loops -> 0 .. BatchSize]
        /\ since \in [Loops -> Nat] /\ watched \in [Loops -> Nat]
        /\ timers \in [Loops -> Nat] /\ \A l \in Loops : timers[l] = 1
    BY BoundsAreNumbers DEF Init, Each
  <2>3. /\ stopped \in [Loops -> BOOLEAN] /\ paused \in [Loops -> BOOLEAN]
        /\ named \in [Loops -> BOOLEAN] /\ gate \in BOOLEAN
    BY DEF Init, Each
  <2>4. /\ pc \in [Loops -> Pcs] /\ \A l \in Loops : pc[l] = "idle"
        /\ watch \in [Loops -> {"armed", "reading", "off"}]
        /\ phase \in {"up", "closing", "down"}
    BY DEF Init, Each, Started, Pcs
  <2> QED BY <2>1, <2>2, <2>3, <2>4 DEF TypeOK
<1>2. PhaseFits /\ LoopAlive /\ BatchFits
  BY DEF Init, PhaseFits, LoopAlive, BatchFits, Each
<1> QED BY <1>1, <1>2 DEF Inv

\* A tick that ends leaves its loop idle and, unless it is stopped, with a timer.
LEMMA TickEnds ==
  ASSUME Inv, NEW l \in Loops, EndTick(l), UNCHANGED <<phase, stopped>>
  PROVE  /\ pc' \in [Loops -> Pcs] /\ pc'[l] = "idle"
         /\ since' \in [Loops -> Nat] /\ size' \in [Loops -> 0 .. BatchSize]
         /\ \A k \in Loops \ {l} : /\ pc'[k] = pc[k] /\ since'[k] = since[k]
                                   /\ size'[k] = size[k] /\ timers'[k] = timers[k]
         /\ timers' \in [Loops -> Nat] /\ named' \in [Loops -> BOOLEAN]
         /\ \A k \in Loops : named'[k] => timers'[k] > 0
         /\ PhaseFits' /\ LoopAlive'
<1>1. TypeOK /\ PhaseFits /\ LoopAlive BY DEF Inv
<1>2. /\ timers \in [Loops -> Nat] /\ named \in [Loops -> BOOLEAN]
      /\ stopped[l] /\ named[l] => timers[l] > 0
  BY <1>1 DEF TypeOK
<1>3. timers[l] \in Nat /\ Schedule(l, timers[l]) BY <1>2 DEF EndTick
<1>4. /\ timers' \in [Loops -> Nat] /\ named' \in [Loops -> BOOLEAN]
      /\ \A k \in Loops : named'[k] => timers'[k] > 0
      /\ ~stopped[l] => timers'[l] > 0
      /\ \A k \in Loops \ {l} : timers'[k] = timers[k]
  BY <1>1, <1>2, <1>3, Scheduled
<1>5. /\ pc \in [Loops -> Pcs] /\ since \in [Loops -> Nat]
      /\ size \in [Loops -> 0 .. BatchSize]
  BY <1>1 DEF TypeOK
<1>6. /\ pc' = [pc EXCEPT ![l] = "idle"] /\ since' = [since EXCEPT ![l] = 0]
      /\ size' = [size EXCEPT ![l] = 0]
  BY DEF EndTick
<1>7. /\ pc' \in [Loops -> Pcs] /\ pc'[l] = "idle"
      /\ since' \in [Loops -> Nat] /\ size' \in [Loops -> 0 .. BatchSize]
      /\ \A k \in Loops \ {l} : pc'[k] = pc[k] /\ since'[k] = since[k] /\ size'[k] = size[k]
  BY <1>5, <1>6, BoundsAreNumbers DEF Pcs
<1>8. PhaseFits' BY <1>1, <1>7 DEF PhaseFits
<1>9. LoopAlive' BY <1>1, <1>4, <1>7 DEF LoopAlive, PhaseFits
<1> QED BY <1>4, <1>7, <1>8, <1>9

\* What stays true of a tick's batch when rows are added, the vendor gets more
\* and the cursor moves on.
LEMMA BatchKept ==
  ASSUME Inv, cursor' \in Nat, cursor <= cursor', delivered \subseteq delivered',
         pc' \in [Loops -> Pcs],
         \A l \in Loops :
           \/ pc'[l] = "idle"
           \/ pc'[l] = pc[l] /\ since'[l] = since[l] /\ size'[l] = size[l]
  PROVE  BatchFits'
<1>1. \A l \in Loops : /\ pc[l] # "idle" => since[l] <= cursor
                       /\ pc[l] = "write" => Batch(l) \subseteq delivered
                       /\ since[l] \in Nat /\ cursor \in Nat
  BY BoundsAreNumbers DEF Inv, BatchFits, TypeOK
<1>2. SUFFICES ASSUME NEW l \in Loops, pc'[l] # "idle"
               PROVE  since'[l] <= cursor' /\ (pc'[l] = "write" => Batch(l)' \subseteq delivered')
  BY DEF BatchFits
<1>3. pc'[l] = pc[l] /\ since'[l] = since[l] /\ size'[l] = size[l] BY <1>2
<1>4. since'[l] <= cursor' BY <1>1, <1>2, <1>3
<1>5. pc'[l] = "write" => Batch(l)' \subseteq delivered' BY <1>1, <1>3 DEF Batch
<1> QED BY <1>4, <1>5

\* A tick that ends keeps the invariant, however it ends (the finally block).
LEMMA EndInv ==
  ASSUME Inv, NEW l \in Loops, EndTick(l),
         UNCHANGED <<length, aged, phase, stopped, valve, commands, exits>>,
         cursor' \in 0 .. length, cursor <= cursor',
         delivered \subseteq delivered', delivered' \subseteq 1 .. length,
         failures' \in [Loops -> 0 .. MaxFailures], paused' \in [Loops -> BOOLEAN],
         faults' \in 0 .. MaxFaults
  PROVE  Inv'
<1>1. /\ pc' \in [Loops -> Pcs] /\ pc'[l] = "idle"
      /\ since' \in [Loops -> Nat] /\ size' \in [Loops -> 0 .. BatchSize]
      /\ \A k \in Loops \ {l} : /\ pc'[k] = pc[k] /\ since'[k] = since[k]
                                /\ size'[k] = size[k]
      /\ timers' \in [Loops -> Nat] /\ named' \in [Loops -> BOOLEAN]
      /\ \A k \in Loops : named'[k] => timers'[k] > 0
      /\ PhaseFits' /\ LoopAlive'
  BY TickEnds
<1>2. TypeOK BY DEF Inv
<1>3. cursor \in Nat /\ cursor' \in Nat /\ length' = length
  BY <1>2 DEF TypeOK
<1>4. BatchFits' BY <1>1, <1>3, BatchKept
<1>5. \A k \in Loops :
        pc'[k] \in {"push", "write"} => size'[k] > 0 /\ since'[k] + size'[k] <= length'
  BY <1>1, <1>2, <1>3 DEF TypeOK
<1>6. /\ length' \in 0 .. MaxRows /\ cursor' \in 0 .. length'
      /\ aged' \subseteq 1 .. length' /\ delivered' \subseteq 1 .. length'
      /\ phase' \in {"up", "closing", "down"} /\ stopped' \in [Loops -> BOOLEAN]
      /\ gate' \in BOOLEAN /\ watch' \in [Loops -> {"armed", "reading", "off"}]
      /\ watched' \in [Loops -> Nat]
      /\ commands' \in 0 .. MaxCommands /\ exits' \in 0 .. MaxExits
  BY <1>2 DEF TypeOK, valve
<1>7. TypeOK' BY <1>1, <1>5, <1>6 DEF TypeOK
<1> QED BY <1>1, <1>4, <1>7 DEF Inv

\* The ways a tick ends.
LEMMA CalmCounts ==
  ASSUME TypeOK, NEW l \in Loops, Calm(l)
  PROVE  /\ failures' \in [Loops -> 0 .. MaxFailures] /\ paused' \in [Loops -> BOOLEAN]
         /\ stopped' = stopped
<1> QED BY BoundsAreNumbers DEF TypeOK, Calm

LEMMA FailsCounts ==
  ASSUME TypeOK, NEW l \in Loops, NEW atOnce \in BOOLEAN, Fails(l, atOnce)
  PROVE  /\ failures' \in [Loops -> 0 .. MaxFailures] /\ paused' \in [Loops -> BOOLEAN]
         /\ stopped' = stopped
<1>1. failures[l] \in 0 .. MaxFailures /\ failures \in [Loops -> 0 .. MaxFailures]
  BY DEF TypeOK
<1>2. Low(failures[l] + 1, MaxFailures) \in 0 .. MaxFailures
  BY <1>1, BoundsAreNumbers DEF Low
<1>3. failures' \in [Loops -> 0 .. MaxFailures]
  BY <1>1, <1>2 DEF Fails
<1>4. paused' \in [Loops -> BOOLEAN]
  BY DEF TypeOK, Fails
<1> QED BY <1>3, <1>4 DEF Fails

LEMMA EmptyQueryInv ==
  ASSUME Inv, NEW l \in Loops, Query(l), length <= since[l]
  PROVE  Inv'
<1>1. TypeOK BY DEF Inv
<1>2. /\ Calm(l) /\ EndTick(l) /\ UNCHANGED <<table, delivered, phase, valve, budget>>
  BY <1>1 DEF Query, TypeOK
<1>3. /\ UNCHANGED <<length, aged, phase, valve, commands, exits>>
      /\ cursor' = cursor /\ delivered' = delivered /\ faults' = faults
  BY <1>2 DEF table, budget
<1>4. /\ cursor \in 0 .. length /\ delivered \subseteq 1 .. length
      /\ faults \in 0 .. MaxFaults /\ cursor <= cursor
  BY <1>1 DEF TypeOK
<1> QED BY <1>1, <1>2, <1>3, <1>4, CalmCounts, EndInv

LEMMA PushNoneInv ==
  ASSUME Inv, NEW l \in Loops, PushNone(l)
  PROVE  Inv'
<1>1. TypeOK BY DEF Inv
<1>2. /\ Calm(l) /\ EndTick(l) /\ UNCHANGED <<table, delivered, phase, valve>>
      /\ Fault
  BY DEF PushNone
<1>3. /\ UNCHANGED <<length, aged, phase, valve, commands, exits>>
      /\ cursor' = cursor /\ delivered' = delivered
  BY <1>2 DEF table, Fault
<1>4. /\ cursor \in 0 .. length /\ delivered \subseteq 1 .. length /\ cursor <= cursor
      /\ faults' \in 0 .. MaxFaults
  BY <1>1, <1>2, BoundsAreNumbers DEF TypeOK, Fault
<1> QED BY <1>1, <1>2, <1>3, <1>4, CalmCounts, EndInv

LEMMA PushFailsInv ==
  ASSUME Inv, NEW l \in Loops, PushFails(l)
  PROVE  Inv'
<1>1. TypeOK BY DEF Inv
<1>2. /\ EndTick(l) /\ UNCHANGED <<table, phase, valve>> /\ Fault /\ pc[l] = "push"
  BY DEF PushFails
<1>3. PICK retryable \in BOOLEAN : Fails(l, ~retryable)
  BY DEF PushFails
<1>4. PICK some \in SUBSET Batch(l) : delivered' = delivered \cup some
  BY DEF PushFails
<1>5. Batch(l) \subseteq 1 .. length
  BY <1>1, <1>2 DEF TypeOK, Batch
<1>6. /\ UNCHANGED <<length, aged, phase, valve, commands, exits>> /\ cursor' = cursor
  BY <1>2 DEF table, Fault
<1>7. /\ cursor \in 0 .. length /\ cursor <= cursor
      /\ delivered \subseteq delivered' /\ delivered' \subseteq 1 .. length
      /\ faults' \in 0 .. MaxFaults
  <2>1. delivered \subseteq 1 .. length BY <1>1 DEF TypeOK
  <2>2. delivered \subseteq delivered' /\ delivered' \subseteq 1 .. length
    BY <2>1, <1>4, <1>5
  <2>3. cursor \in 0 .. length /\ cursor <= cursor BY <1>1 DEF TypeOK
  <2>4. faults' \in 0 .. MaxFaults BY <1>1, <1>2, BoundsAreNumbers DEF TypeOK, Fault
  <2> QED BY <2>2, <2>3, <2>4
<1>8. /\ failures' \in [Loops -> 0 .. MaxFailures] /\ paused' \in [Loops -> BOOLEAN]
      /\ stopped' = stopped
  BY <1>1, <1>3, FailsCounts
<1> QED BY <1>2, <1>6, <1>7, <1>8, EndInv

LEMMA ThrowsInv ==
  ASSUME Inv, NEW l \in Loops, Throws(l)
  PROVE  Inv'
<1>1. TypeOK BY DEF Inv
<1>2. /\ Fails(l, FALSE) /\ EndTick(l) /\ UNCHANGED <<table, delivered, phase, valve>>
      /\ Fault
  BY DEF Throws
<1>3. /\ UNCHANGED <<length, aged, phase, valve, commands, exits>>
      /\ cursor' = cursor /\ delivered' = delivered
  BY <1>2 DEF table, Fault
<1>4. /\ cursor \in 0 .. length /\ delivered \subseteq 1 .. length /\ cursor <= cursor
      /\ faults' \in 0 .. MaxFaults
  BY <1>1, <1>2, BoundsAreNumbers DEF TypeOK, Fault
<1>5. /\ failures' \in [Loops -> 0 .. MaxFailures] /\ paused' \in [Loops -> BOOLEAN]
      /\ stopped' = stopped
  BY <1>1, <1>2, FailsCounts
<1> QED BY <1>2, <1>3, <1>4, <1>5, EndInv

LEMMA WriteInv ==
  ASSUME Inv, NEW l \in Loops, Write(l)
  PROVE  Inv'
<1>1. TypeOK BY DEF Inv
<1>2. /\ pc[l] = "write" /\ cursor' = High(cursor, since[l] + size[l])
      /\ Calm(l) /\ EndTick(l) /\ UNCHANGED <<length, aged, delivered, phase, valve, budget>>
  BY DEF Write
<1>3. /\ UNCHANGED <<commands, exits>> /\ faults' = faults BY <1>2 DEF budget
<1>4. /\ since[l] \in Nat /\ size[l] \in Nat /\ since[l] + size[l] <= length
      /\ length \in Nat /\ cursor \in 0 .. length
  BY <1>1, <1>2, BoundsAreNumbers DEF TypeOK
<1>5. cursor' \in 0 .. length /\ cursor <= cursor'
  BY <1>2, <1>4 DEF High
<1>6. /\ delivered \subseteq 1 .. length /\ delivered' = delivered /\ faults \in 0 .. MaxFaults
  BY <1>1, <1>2 DEF TypeOK
<1> QED BY <1>1, <1>2, <1>3, <1>5, <1>6, CalmCounts, EndInv

-----------------------------------------------------------------------------
\* The other steps of a tick.
LEMMA FullQueryInv ==
  ASSUME Inv, NEW l \in Loops, Query(l), length > since[l]
  PROVE  Inv'
<1>1. TypeOK /\ PhaseFits /\ LoopAlive /\ BatchFits BY DEF Inv
<1>2. /\ pc[l] = "query" /\ pc' = [pc EXCEPT ![l] = "push"]
      /\ size' = [size EXCEPT ![l] = Low(BatchSize, length - since[l])]
      /\ UNCHANGED <<flags, since, timing, table, delivered, phase, valve, budget>>
  BY <1>1 DEF Query, TypeOK
<1>3. /\ since[l] \in Nat /\ length \in Nat BY <1>1, BoundsAreNumbers DEF TypeOK
<1>4. /\ Low(BatchSize, length - since[l]) \in 1 .. BatchSize
      /\ since[l] + Low(BatchSize, length - since[l]) <= length
  BY <1>3, BoundsAreNumbers DEF Low
<1>5. /\ pc' \in [Loops -> Pcs] /\ size' \in [Loops -> 0 .. BatchSize]
      /\ pc'[l] = "push" /\ size'[l] > 0 /\ since'[l] + size'[l] <= length'
      /\ \A k \in Loops \ {l} : pc'[k] = pc[k] /\ size'[k] = size[k]
  <2>1. size' \in [Loops -> 0 .. BatchSize] /\ size'[l] > 0 /\ since[l] + size'[l] <= length
    BY <1>1, <1>2, <1>4, BoundsAreNumbers DEF TypeOK
  <2>2. pc' \in [Loops -> Pcs] /\ pc'[l] = "push"
        /\ \A k \in Loops \ {l} : pc'[k] = pc[k] /\ size'[k] = size[k]
    BY <1>1, <1>2 DEF TypeOK, Pcs
  <2> QED BY <1>2, <2>1, <2>2 DEF table
<1>6. TypeOK' BY <1>1, <1>2, <1>5 DEF TypeOK, flags, timing, table, valve, budget
<1>7. PhaseFits' BY <1>1, <1>2, <1>5 DEF PhaseFits, flags
<1>8. LoopAlive' BY <1>1, <1>2, <1>5 DEF LoopAlive, timing
<1>9. BatchFits'
  <2>1. SUFFICES ASSUME NEW k \in Loops
                 PROVE  /\ pc'[k] # "idle" => since'[k] <= cursor'
                        /\ pc'[k] = "write" => Batch(k)' \subseteq delivered'
    BY DEF BatchFits
  <2>2. /\ since' = since /\ cursor' = cursor /\ delivered' = delivered
    BY <1>2 DEF table
  <2>3. CASE k = l BY <1>1, <1>2, <1>5, <2>2, <2>3 DEF BatchFits
  <2>4. CASE k # l BY <1>1, <1>5, <2>2, <2>4 DEF BatchFits, Batch
  <2> QED BY <2>3, <2>4
<1> QED BY <1>6, <1>7, <1>8, <1>9 DEF Inv

LEMMA PushInv ==
  ASSUME Inv, NEW l \in Loops, Push(l)
  PROVE  Inv'
<1>1. TypeOK /\ PhaseFits /\ LoopAlive /\ BatchFits BY DEF Inv
<1>2. PICK n \in 1 .. size[l], more \in SUBSET Batch(l) :
        /\ delivered' = delivered \cup (since[l] + 1 .. since[l] + n) \cup more
        /\ size' = [size EXCEPT ![l] = n]
  BY DEF Push
<1>3. /\ pc[l] = "push" /\ pc' = [pc EXCEPT ![l] = "write"]
      /\ UNCHANGED <<table, phase, flags, since, timing, valve, budget>>
  BY DEF Push
<1>4. /\ since[l] \in Nat /\ length \in Nat /\ size[l] \in 1 .. BatchSize
      /\ since[l] + size[l] <= length
  BY <1>1, <1>3, BoundsAreNumbers DEF TypeOK
<1>5. /\ n \in 1 .. BatchSize /\ since[l] + n <= length
      /\ since[l] + 1 .. since[l] + n \subseteq 1 .. length
      /\ Batch(l) \subseteq 1 .. length
  BY <1>4, BoundsAreNumbers DEF Batch
<1>6. /\ delivered \subseteq delivered' /\ delivered' \subseteq 1 .. length
      /\ since[l] + 1 .. since[l] + n \subseteq delivered'
  <2>1. delivered \subseteq 1 .. length BY <1>1 DEF TypeOK
  <2> QED BY <2>1, <1>2, <1>5
<1>7. /\ pc' \in [Loops -> Pcs] /\ pc'[l] = "write"
      /\ size' \in [Loops -> 0 .. BatchSize] /\ size'[l] = n
      /\ \A k \in Loops \ {l} : pc'[k] = pc[k] /\ size'[k] = size[k]
  <2>1. pc' \in [Loops -> Pcs] /\ pc'[l] = "write"
        /\ \A k \in Loops \ {l} : pc'[k] = pc[k]
    BY <1>1, <1>3 DEF TypeOK, Pcs
  <2>2. size' \in [Loops -> 0 .. BatchSize] /\ size'[l] = n
        /\ \A k \in Loops \ {l} : size'[k] = size[k]
    BY <1>1, <1>2, <1>5, BoundsAreNumbers DEF TypeOK
  <2> QED BY <2>1, <2>2
<1>8. /\ since' = since /\ cursor' = cursor /\ length' = length /\ aged' = aged
  BY <1>3 DEF table
<1>9. TypeOK'
  <2>1. \A k \in Loops :
          pc'[k] \in {"push", "write"} => size'[k] > 0 /\ since'[k] + size'[k] <= length'
    BY <1>1, <1>4, <1>5, <1>7, <1>8, BoundsAreNumbers DEF TypeOK
  <2> QED BY <1>1, <1>3, <1>6, <1>7, <1>8, <2>1 DEF TypeOK, flags, timing, valve, budget
<1>10. PhaseFits' BY <1>1, <1>3, <1>7 DEF PhaseFits, flags
<1>11. LoopAlive' BY <1>1, <1>3, <1>7 DEF LoopAlive, timing
<1>12. BatchFits'
  <2>1. SUFFICES ASSUME NEW k \in Loops
                 PROVE  /\ pc'[k] # "idle" => since'[k] <= cursor'
                        /\ pc'[k] = "write" => Batch(k)' \subseteq delivered'
    BY DEF BatchFits
  <2>2. CASE k = l BY <1>1, <1>3, <1>6, <1>7, <1>8, <2>2 DEF BatchFits, Batch
  <2>3. CASE k # l
    <3>1. /\ pc[k] # "idle" => since[k] <= cursor
          /\ pc[k] = "write" => Batch(k) \subseteq delivered
      BY <1>1 DEF BatchFits
    <3> QED BY <1>6, <1>7, <1>8, <2>3, <3>1 DEF Batch
  <2> QED BY <2>2, <2>3
<1> QED BY <1>9, <1>10, <1>11, <1>12 DEF Inv

\* A tick that begins (runTick): its loop was idle and not stopped.
LEMMA BeginInv ==
  ASSUME Inv, NEW l \in Loops, Begin(l), ~Busy(l),
         timers' \in [Loops -> Nat], named' \in [Loops -> BOOLEAN],
         \A k \in Loops : named'[k] => timers'[k] > 0,
         \A k \in Loops \ {l} : timers'[k] = timers[k],
         commands' \in 0 .. MaxCommands,
         UNCHANGED <<table, delivered, phase, flags, valve, faults, exits>>
  PROVE  Inv'
<1>1. TypeOK /\ PhaseFits /\ LoopAlive /\ BatchFits BY DEF Inv
<1>2. /\ pc' = [pc EXCEPT ![l] = "query"] /\ since' = [since EXCEPT ![l] = cursor]
      /\ size' = size
  BY DEF Begin
<1>3. pc[l] = "idle" /\ ~stopped[l] BY DEF Busy
<1>4. /\ cursor \in Nat /\ cursor' = cursor /\ delivered' = delivered
  BY <1>1 DEF TypeOK, table
<1>5. /\ pc' \in [Loops -> Pcs] /\ pc'[l] = "query"
      /\ since' \in [Loops -> Nat] /\ since'[l] = cursor
      /\ \A k \in Loops \ {l} : pc'[k] = pc[k] /\ since'[k] = since[k]
  BY <1>1, <1>2, <1>4 DEF TypeOK, Pcs
<1>6. TypeOK' BY <1>1, <1>2, <1>5 DEF TypeOK, flags, table, valve
<1>7. PhaseFits'
  BY <1>1, <1>3, <1>5 DEF PhaseFits, flags
<1>8. LoopAlive' BY <1>1, <1>5 DEF LoopAlive
<1>9. BatchFits'
  <2>1. SUFFICES ASSUME NEW k \in Loops
                 PROVE  /\ pc'[k] # "idle" => since'[k] <= cursor'
                        /\ pc'[k] = "write" => Batch(k)' \subseteq delivered'
    BY DEF BatchFits
  <2>2. CASE k = l BY <1>4, <1>5, <2>2
  <2>3. CASE k # l BY <1>1, <1>2, <1>4, <1>5, <2>3 DEF BatchFits, Batch
  <2> QED BY <2>2, <2>3
<1> QED BY <1>6, <1>7, <1>8, <1>9 DEF Inv

\* Steps that touch timers and flags only, and leave every loop awake.
LEMMA TimingInv ==
  ASSUME Inv, UNCHANGED <<table, delivered, phase, stopped, tick, valve, faults, exits>>,
         failures' \in [Loops -> 0 .. MaxFailures], paused' \in [Loops -> BOOLEAN],
         timers' \in [Loops -> Nat], named' \in [Loops -> BOOLEAN],
         \A k \in Loops : named'[k] => timers'[k] > 0,
         commands' \in 0 .. MaxCommands,
         phase = "up" => \A k \in Loops : pc[k] # "idle" \/ timers'[k] > 0
  PROVE  Inv'
<1>1. TypeOK /\ PhaseFits /\ LoopAlive /\ BatchFits BY DEF Inv
<1>2. /\ pc' = pc /\ since' = since /\ size' = size /\ phase' = phase
      /\ cursor' = cursor /\ delivered' = delivered
  BY DEF tick, table
<1>3. TypeOK' BY <1>1, <1>2 DEF TypeOK, table, valve
<1>4. PhaseFits' BY <1>1, <1>2 DEF PhaseFits
<1>5. LoopAlive' BY <1>2 DEF LoopAlive
<1>6. BatchFits' BY <1>1, <1>2 DEF BatchFits, Batch
<1> QED BY <1>3, <1>4, <1>5, <1>6 DEF Inv

LEMMA TimerInv ==
  ASSUME Inv, NEW l \in Loops, Timer(l)
  PROVE  Inv'
<1>1. TypeOK /\ PhaseFits /\ LoopAlive /\ BatchFits BY DEF Inv
<1>2. /\ timers[l] > 0 /\ UNCHANGED <<table, delivered, phase, flags, valve, budget>>
  BY DEF Timer
<1>3. /\ timers \in [Loops -> Nat] /\ named \in [Loops -> BOOLEAN]
      /\ \A k \in Loops : named[k] => timers[k] > 0
  BY <1>1 DEF TypeOK
<1>4. timers[l] - 1 \in Nat BY <1>2, <1>3
<1>5. /\ failures' \in [Loops -> 0 .. MaxFailures] /\ paused' \in [Loops -> BOOLEAN]
      /\ commands' \in 0 .. MaxCommands
      /\ UNCHANGED <<table, delivered, phase, stopped, valve, faults, exits>>
  BY <1>1, <1>2 DEF TypeOK, flags, budget
<1>6. Fired(l) => /\ timers' \in [Loops -> Nat] /\ named' \in [Loops -> BOOLEAN]
                  /\ \A k \in Loops : named'[k] => timers'[k] > 0
                  /\ \A k \in Loops \ {l} : timers'[k] = timers[k]
  <2>1. SUFFICES ASSUME Fired(l)
                 PROVE  /\ timers' \in [Loops -> Nat] /\ named' \in [Loops -> BOOLEAN]
                        /\ \A k \in Loops : named'[k] => timers'[k] > 0
                        /\ \A k \in Loops \ {l} : timers'[k] = timers[k]
    OBVIOUS
  <2>2. timers' = [timers EXCEPT ![l] = timers[l] - 1] /\ named' = [named EXCEPT ![l] = FALSE]
    BY <2>1 DEF Fired
  <2>3. named' \in [Loops -> BOOLEAN] BY <1>3, <2>2
  <2> QED BY <1>3, <1>4, <2>2, <2>3
<1>7. CASE Busy(l)
  <2>1. Fired(l) /\ UNCHANGED tick BY <1>7 DEF Timer
  <2>2. phase = "up" => \A k \in Loops : pc[k] # "idle" \/ timers'[k] > 0
    BY <1>1, <1>6, <1>7, <2>1 DEF PhaseFits, LoopAlive, Busy
  <2> QED BY <1>5, <1>6, <2>1, <2>2, TimingInv
<1>8. CASE ~Busy(l) /\ paused[l]
  <2>1. Schedule(l, timers[l] - 1) /\ UNCHANGED tick BY <1>8 DEF Timer
  <2>2. ~stopped[l] BY <1>8 DEF Busy
  <2>3. /\ timers' \in [Loops -> Nat] /\ named' \in [Loops -> BOOLEAN]
        /\ \A k \in Loops : named'[k] => timers'[k] > 0
        /\ timers'[l] > 0
        /\ \A k \in Loops \ {l} : timers'[k] = timers[k]
    BY <1>1, <1>4, <2>1, <2>2, Scheduled
  <2>4. phase = "up" => \A k \in Loops : pc[k] # "idle" \/ timers'[k] > 0
    BY <1>1, <2>3 DEF LoopAlive
  <2> QED BY <1>5, <2>1, <2>3, <2>4, TimingInv
<1>9. CASE ~Busy(l) /\ ~paused[l]
  <2>1. Fired(l) /\ Begin(l) BY <1>9 DEF Timer
  <2> QED BY <1>2, <1>5, <1>6, <1>9, <2>1, BeginInv
<1> QED BY <1>7, <1>8, <1>9

LEMMA ResumeInv ==
  ASSUME Inv, NEW l \in Loops, Resume(l)
  PROVE  Inv'
<1>1. TypeOK /\ PhaseFits /\ LoopAlive /\ BatchFits BY DEF Inv
<1>2. /\ Command /\ phase = "up"
      /\ failures' = [failures EXCEPT ![l] = 0] /\ paused' = [paused EXCEPT ![l] = FALSE]
      /\ Schedule(l, IF named[l] THEN timers[l] - 1 ELSE timers[l])
      /\ UNCHANGED <<table, delivered, phase, stopped, tick, valve>>
  BY DEF Resume
<1>3. ~stopped[l] BY <1>1, <1>2 DEF PhaseFits
<1>4. (IF named[l] THEN timers[l] - 1 ELSE timers[l]) \in Nat BY <1>1 DEF TypeOK
<1>5. /\ timers' \in [Loops -> Nat] /\ named' \in [Loops -> BOOLEAN]
      /\ \A k \in Loops : named'[k] => timers'[k] > 0
      /\ timers'[l] > 0
      /\ \A k \in Loops \ {l} : timers'[k] = timers[k]
  BY <1>1, <1>2, <1>3, <1>4, Scheduled
<1>6. /\ failures' \in [Loops -> 0 .. MaxFailures] /\ paused' \in [Loops -> BOOLEAN]
      /\ commands' \in 0 .. MaxCommands /\ UNCHANGED <<faults, exits>>
  BY <1>1, <1>2, BoundsAreNumbers DEF TypeOK, Command
<1>7. phase = "up" => \A k \in Loops : pc[k] # "idle" \/ timers'[k] > 0
  BY <1>1, <1>5 DEF LoopAlive
<1> QED BY <1>2, <1>5, <1>6, <1>7, TimingInv

LEMMA FlushNowInv ==
  ASSUME Inv, NEW l \in Loops, FlushNow(l)
  PROVE  Inv'
<1>1. TypeOK /\ PhaseFits /\ LoopAlive /\ BatchFits BY DEF Inv
<1>2. /\ Command /\ phase = "up" /\ ~Busy(l)
      /\ UNCHANGED <<table, delivered, phase, flags, valve>>
  BY DEF FlushNow
<1>3. /\ timers \in [Loops -> Nat] /\ named \in [Loops -> BOOLEAN]
      /\ \A k \in Loops : named[k] => timers[k] > 0
  BY <1>1 DEF TypeOK
<1>4. /\ failures' \in [Loops -> 0 .. MaxFailures] /\ paused' \in [Loops -> BOOLEAN]
      /\ commands' \in 0 .. MaxCommands
      /\ UNCHANGED <<table, delivered, phase, stopped, valve, faults, exits>>
  BY <1>1, <1>2, BoundsAreNumbers DEF TypeOK, Command, flags
<1>5. CASE paused[l]
  <2>1. Schedule(l, timers[l]) /\ UNCHANGED tick BY <1>5 DEF FlushNow
  <2>2. ~stopped[l] /\ timers[l] \in Nat BY <1>2, <1>3 DEF Busy
  <2>3. /\ timers' \in [Loops -> Nat] /\ named' \in [Loops -> BOOLEAN]
        /\ \A k \in Loops : named'[k] => timers'[k] > 0
        /\ timers'[l] > 0
        /\ \A k \in Loops \ {l} : timers'[k] = timers[k]
    BY <1>1, <2>1, <2>2, Scheduled
  <2>4. phase = "up" => \A k \in Loops : pc[k] # "idle" \/ timers'[k] > 0
    BY <1>1, <2>3 DEF LoopAlive
  <2> QED BY <1>4, <2>1, <2>3, <2>4, TimingInv
<1>6. CASE ~paused[l]
  <2>1. Begin(l) /\ UNCHANGED timing BY <1>6 DEF FlushNow
  <2>2. timers' = timers /\ named' = named BY <2>1 DEF timing
  <2> QED BY <1>2, <1>3, <1>4, <2>1, <2>2, BeginInv
<1> QED BY <1>5, <1>6

LEMMA StopInv ==
  ASSUME Inv, NEW l \in Loops, Stop(l)
  PROVE  Inv'
<1>1. TypeOK /\ PhaseFits /\ LoopAlive /\ BatchFits BY DEF Inv
<1>2. /\ phase = "closing" /\ stopped' = [stopped EXCEPT ![l] = TRUE]
      /\ timers' = [timers EXCEPT ![l] = IF named[l] THEN timers[l] - 1 ELSE timers[l]]
      /\ named' = [named EXCEPT ![l] = FALSE]
      /\ watch' = [watch EXCEPT ![l] = IF watch[l] = "armed" THEN "off" ELSE watch[l]]
      /\ UNCHANGED <<table, delivered, phase, paused, failures, tick, gate, watched, budget>>
  BY DEF Stop
<1>3. timers' \in [Loops -> Nat] /\ \A k \in Loops : named[k] /\ k # l => timers'[k] > 0
  <2>1. (IF named[l] THEN timers[l] - 1 ELSE timers[l]) \in Nat BY <1>1 DEF TypeOK
  <2> QED BY <1>1, <1>2, <2>1 DEF TypeOK
<1>4. /\ stopped' \in [Loops -> BOOLEAN] /\ named' \in [Loops -> BOOLEAN] /\ ~named'[l]
      /\ \A k \in Loops \ {l} : named'[k] = named[k]
  BY <1>1, <1>2 DEF TypeOK
<1>5. watch' \in [Loops -> {"armed", "reading", "off"}] BY <1>1, <1>2 DEF TypeOK
<1>6. \A k \in Loops : named'[k] => timers'[k] > 0 BY <1>3, <1>4
<1>7. TypeOK' BY <1>1, <1>2, <1>3, <1>4, <1>5, <1>6 DEF TypeOK, table, tick, budget
<1>8. phase' = "closing" /\ PhaseFits' /\ LoopAlive' BY <1>2 DEF PhaseFits, LoopAlive
<1>9. BatchFits' BY <1>1, <1>2 DEF BatchFits, Batch, tick, table
<1> QED BY <1>7, <1>8, <1>9 DEF Inv

\* Steps of the table, the gate and the phase, which leave the loops alone.
LEMMA OutsideInv ==
  ASSUME Inv, UNCHANGED <<delivered, cursor, flags, tick, timing, faults, commands>>,
         length' \in 0 .. MaxRows, length <= length', aged' \subseteq 1 .. length',
         gate' \in BOOLEAN, watch' \in [Loops -> {"armed", "reading", "off"}],
         watched' \in [Loops -> Nat], exits' \in 0 .. MaxExits,
         \/ phase' = phase
         \/ phase' = "closing"
         \/ phase' = "down" /\ \A l \in Loops : stopped[l] /\ pc[l] = "idle"
  PROVE  Inv'
<1>1. TypeOK /\ PhaseFits /\ LoopAlive /\ BatchFits BY DEF Inv
<1>2. /\ pc' = pc /\ since' = since /\ size' = size /\ timers' = timers /\ named' = named
      /\ stopped' = stopped /\ cursor' = cursor /\ delivered' = delivered
  BY DEF tick, timing, flags
<1>3. length \in Nat /\ length' \in Nat /\ 1 .. length \subseteq 1 .. length'
  BY <1>1, BoundsAreNumbers DEF TypeOK
<1>4. /\ cursor' \in 0 .. length' /\ delivered' \subseteq 1 .. length'
      /\ phase' \in {"up", "closing", "down"}
      /\ \A l \in Loops :
           pc'[l] \in {"push", "write"} => size'[l] > 0 /\ since'[l] + size'[l] <= length'
  <2>1. cursor' \in 0 .. length' BY <1>1, <1>2, <1>3 DEF TypeOK
  <2>2. delivered' \subseteq 1 .. length' BY <1>1, <1>2, <1>3 DEF TypeOK
  <2>3. phase' \in {"up", "closing", "down"} BY <1>1 DEF TypeOK
  <2>4. \A l \in Loops :
           pc'[l] \in {"push", "write"} => size'[l] > 0 /\ since'[l] + size'[l] <= length'
    BY <1>1, <1>2, <1>3, BoundsAreNumbers DEF TypeOK
  <2> QED BY <2>1, <2>2, <2>3, <2>4
<1>5. TypeOK' BY <1>1, <1>2, <1>4 DEF TypeOK, flags
<1>6. PhaseFits' BY <1>1, <1>2 DEF PhaseFits
<1>7. LoopAlive' BY <1>1, <1>2 DEF LoopAlive
<1>8. BatchFits' BY <1>1, <1>2 DEF BatchFits, Batch
<1> QED BY <1>5, <1>6, <1>7, <1>8 DEF Inv

LEMMA OthersInv ==
  ASSUME Inv,
         \/ Record \/ Shutdown \/ CloseSink
         \/ \E i \in 1 .. length : Age(i)
         \/ \E l \in Loops : Watch(l) \/ Watched(l)
  PROVE  Inv'
<1>1. TypeOK BY DEF Inv
<1>2. /\ length \in 0 .. MaxRows /\ length <= length /\ aged \subseteq 1 .. length
      /\ gate \in BOOLEAN /\ watch \in [Loops -> {"armed", "reading", "off"}]
      /\ watched \in [Loops -> Nat] /\ exits \in 0 .. MaxExits /\ cursor \in Nat
  BY <1>1, BoundsAreNumbers DEF TypeOK
<1>3. CASE Record
  <2>1. /\ length' \in 0 .. MaxRows /\ length <= length' /\ aged' \subseteq 1 .. length'
    BY <1>2, <1>3, BoundsAreNumbers DEF Record
  <2> QED BY <1>2, <1>3, <2>1, OutsideInv DEF Record, valve, budget
<1>4. CASE Shutdown
  <2>1. exits' \in 0 .. MaxExits /\ UNCHANGED <<faults, commands>>
    BY <1>2, <1>4, BoundsAreNumbers DEF Shutdown, Exit
  <2> QED BY <1>2, <1>4, <2>1, OutsideInv DEF Shutdown, table, valve
<1>5. CASE CloseSink
  BY <1>2, <1>5, OutsideInv DEF CloseSink, Stopped, Gone, table, valve, budget
<1>6. ASSUME NEW i \in 1 .. length, Age(i) PROVE Inv'
  BY <1>2, <1>6, OutsideInv DEF Age, valve, budget
<1>7. ASSUME NEW l \in Loops, Watch(l) PROVE Inv'
  <2>1. watch' \in [Loops -> {"armed", "reading", "off"}] /\ watched' \in [Loops -> Nat]
    BY <1>2, <1>7 DEF Watch
  <2> QED BY <1>2, <1>7, <2>1, OutsideInv DEF Watch, table, budget
<1>8. ASSUME NEW l \in Loops, Watched(l) PROVE Inv'
  <2>1. watch' \in [Loops -> {"armed", "reading", "off"}] /\ watched' \in [Loops -> Nat]
    BY <1>2, <1>8 DEF Watched
  <2>2. gate' \in BOOLEAN BY <1>8 DEF Watched, Gate
  <2> QED BY <1>2, <1>8, <2>1, <2>2, OutsideInv DEF Watched, table, budget
<1> QED BY <1>3, <1>4, <1>5, <1>6, <1>7, <1>8

\* A process that is gone, and one that starts.
LEMMA ExitInv ==
  ASSUME Inv, Crash \/ Boot
  PROVE  Inv'
<1>1. TypeOK BY DEF Inv
<1>2. /\ UNCHANGED <<table, delivered, faults, commands>>
      /\ failures' = Each(0) /\ since' = Each(0) /\ size' = Each(0) /\ watched' = Each(0)
      /\ paused' = Each(FALSE) /\ pc' = Each("idle") /\ gate' = FALSE
  BY DEF Crash, Boot, Forget, Exit, budget
<1>3. exits' \in 0 .. MaxExits
  <2>1. exits \in 0 .. MaxExits BY <1>1 DEF TypeOK
  <2>2. CASE Crash BY <2>1, <2>2, BoundsAreNumbers DEF Crash, Exit
  <2>3. CASE Boot BY <2>1, <2>3 DEF Boot, budget
  <2> QED BY <2>2, <2>3
<1>4. /\ failures' \in [Loops -> 0 .. MaxFailures] /\ size' \in [Loops -> 0 .. BatchSize]
      /\ since' \in [Loops -> Nat] /\ watched' \in [Loops -> Nat]
      /\ paused' \in [Loops -> BOOLEAN] /\ gate' \in BOOLEAN
      /\ pc' \in [Loops -> Pcs] /\ \A l \in Loops : pc'[l] = "idle"
  <2>1. /\ failures' \in [Loops -> 0 .. MaxFailures] /\ size' \in [Loops -> 0 .. BatchSize]
        /\ since' \in [Loops -> Nat] /\ watched' \in [Loops -> Nat]
    BY <1>2, BoundsAreNumbers DEF Each
  <2>2. paused' \in [Loops -> BOOLEAN] /\ gate' \in BOOLEAN BY <1>2 DEF Each
  <2>3. pc' \in [Loops -> Pcs] /\ \A l \in Loops : pc'[l] = "idle"
    BY <1>2 DEF Each, Pcs
  <2> QED BY <2>1, <2>2, <2>3
<1>5. BatchFits' BY <1>4 DEF BatchFits
<1>6. CASE Crash
  <2>1. /\ phase' = "down" /\ stopped' = Each(TRUE) /\ timers' = Each(0)
        /\ named' = Each(FALSE) /\ watch' = Each("off")
    BY <1>6 DEF Crash, Forget
  <2>2. /\ stopped' \in [Loops -> BOOLEAN] /\ \A l \in Loops : stopped'[l]
        /\ named' \in [Loops -> BOOLEAN] /\ \A l \in Loops : ~named'[l]
    BY <2>1 DEF Each
  <2>3. timers' \in [Loops -> Nat] /\ watch' \in [Loops -> {"armed", "reading", "off"}]
    BY <2>1 DEF Each
  <2>4. TypeOK' BY <1>1, <1>2, <1>3, <1>4, <2>1, <2>2, <2>3 DEF TypeOK, table
  <2> QED BY <1>4, <1>5, <2>1, <2>2, <2>4 DEF Inv, PhaseFits, LoopAlive
<1>7. CASE Boot
  <2>1. /\ phase' = "up" /\ stopped' = Each(FALSE) /\ timers' = Each(1)
        /\ named' = Each(TRUE) /\ watch' = Started
    BY <1>7 DEF Boot
  <2>2. /\ stopped' \in [Loops -> BOOLEAN] /\ \A l \in Loops : ~stopped'[l]
        /\ named' \in [Loops -> BOOLEAN]
    BY <2>1 DEF Each
  <2>3. /\ timers' \in [Loops -> Nat] /\ \A l \in Loops : timers'[l] > 0
        /\ watch' \in [Loops -> {"armed", "reading", "off"}]
    BY <2>1 DEF Each, Started
  <2>4. TypeOK' BY <1>1, <1>2, <1>3, <1>4, <2>1, <2>2, <2>3 DEF TypeOK, table
  <2> QED BY <1>4, <1>5, <2>1, <2>2, <2>3, <2>4 DEF Inv, PhaseFits, LoopAlive
<1> QED BY <1>6, <1>7

-----------------------------------------------------------------------------
LEMMA StepInv == Inv /\ [Next]_vars => Inv'
<1> SUFFICES ASSUME Inv, [Next]_vars PROVE Inv' OBVIOUS
<1>1. ASSUME NEW l \in Loops, Step(l) PROVE Inv'
  <2>1. CASE Query(l)
    <3>1. since[l] \in Nat /\ length \in Nat BY BoundsAreNumbers DEF Inv, TypeOK
    <3>2. length <= since[l] \/ length > since[l] BY <3>1
    <3> QED BY <2>1, <3>2, EmptyQueryInv, FullQueryInv
  <2> QED BY <1>1, <2>1, PushInv, PushNoneInv, PushFailsInv, ThrowsInv, WriteInv DEF Step
<1>2. ASSUME NEW l \in Loops, Timer(l) \/ Resume(l) \/ FlushNow(l) \/ Stop(l) PROVE Inv'
  BY <1>2, TimerInv, ResumeInv, FlushNowInv, StopInv
<1>3. ASSUME NEW l \in Loops, Watch(l) \/ Watched(l) PROVE Inv'
  BY <1>3, OthersInv
<1>4. CASE Record \/ Shutdown \/ CloseSink \/ \E i \in 1 .. length : Age(i)
  BY <1>4, OthersInv
<1>5. CASE Crash \/ Boot BY <1>5, ExitInv
<1>6. CASE UNCHANGED vars
  BY <1>6 DEF vars, table, flags, tick, timing, valve, budget, Inv, TypeOK, PhaseFits,
              LoopAlive, BatchFits, Batch
<1> QED BY <1>1, <1>2, <1>3, <1>4, <1>5, <1>6 DEF Next

\* The invariant in every reachable state: "the cursor has not gone back", "what
\* is about to be written is at the vendor", a loop of a process that is up has
\* a timer or ticks.
THEOREM AlwaysInv == Spec => []Inv
<1> QED BY InitInv, StepInv, PTL DEF Spec

\* Every variable of the export keeps its type (exporter-loop.ts, sqlite-sink.ts).
THEOREM TypeCorrect == Spec => []TypeOK
<1>1. Inv => TypeOK BY DEF Inv
<1> QED BY <1>1, AlwaysInv, PTL

\* Whatever timers, resume(), flushNow(), failing and overlapping ticks do, no
\* loop of a process that is up is left without a tick and a timer (scheduleNext,
\* runTick's finally block).
THEOREM NeverAsleep == Spec => []LoopAlive
<1>1. Inv => LoopAlive BY DEF Inv
<1> QED BY <1>1, AlwaysInv, PTL

\* Behind the closed sink no loop is in a tick (stop, doShutdown).
THEOREM QuietWhenClosed == Spec => []ClosedIsQuiet
<1>1. Inv => ClosedIsQuiet BY DEF Inv, PhaseFits, ClosedIsQuiet
<1> QED BY <1>1, AlwaysInv, PTL

-----------------------------------------------------------------------------
(* The export implements ShippedLog. *)

LEMMA InitShips == Init => Log!Init
<1> QED BY DEF Init, Log!Init

LEMMA StepShips == Inv /\ [Next]_vars => [Log!Next]_(Log!vars)
<1> SUFFICES ASSUME Inv, [Next]_vars PROVE [Log!Next]_(Log!vars) OBVIOUS
<1>1. TypeOK /\ BatchFits BY DEF Inv
<1>2. CASE Record
  BY <1>2 DEF Record, Log!Next, Log!Append
<1>3. ASSUME NEW l \in Loops, Push(l) PROVE Log!Next
  <2>1. PICK n \in 1 .. size[l], more \in SUBSET Batch(l) :
          delivered' = delivered \cup (since[l] + 1 .. since[l] + n) \cup more
    BY <1>3 DEF Push
  <2>2. /\ since[l] \in Nat /\ length \in Nat /\ size[l] \in Nat
        /\ since[l] + size[l] <= length
    BY <1>1, <1>3, BoundsAreNumbers DEF Push, TypeOK
  <2>3. (since[l] + 1 .. since[l] + n) \cup more \in SUBSET (1 .. length)
    <3>1. since[l] + 1 .. since[l] + n \subseteq 1 .. length BY <2>2
    <3>2. Batch(l) \subseteq 1 .. length BY <2>2 DEF Batch
    <3> QED BY <3>1, <3>2
  <2>4. length' = length /\ cursor' = cursor BY <1>3 DEF Push, table
  <2>5. delivered' = delivered \cup ((since[l] + 1 .. since[l] + n) \cup more) BY <2>1
  <2> QED BY <2>3, <2>4, <2>5 DEF Log!Next, Log!Deliver
<1>4. ASSUME NEW l \in Loops, PushFails(l) PROVE Log!Next
  <2>1. PICK some \in SUBSET Batch(l) : delivered' = delivered \cup some
    BY <1>4 DEF PushFails
  <2>2. Batch(l) \subseteq 1 .. length
    BY <1>1, <1>4, BoundsAreNumbers DEF PushFails, TypeOK, Batch
  <2>3. length' = length /\ cursor' = cursor BY <1>4 DEF PushFails, table
  <2> QED BY <2>1, <2>2, <2>3 DEF Log!Next, Log!Deliver
<1>5. ASSUME NEW l \in Loops, Write(l) PROVE Log!Next
  <2>1. /\ pc[l] = "write" /\ cursor' = High(cursor, since[l] + size[l])
        /\ length' = length /\ delivered' = delivered
    BY <1>5 DEF Write
  <2>2. /\ since[l] \in Nat /\ size[l] \in Nat /\ since[l] + size[l] <= length
        /\ since[l] <= cursor /\ cursor \in 0 .. length /\ length \in Nat
        /\ Batch(l) \subseteq delivered
    BY <1>1, <2>1, BoundsAreNumbers DEF TypeOK, BatchFits
  <2>3. cursor' \in cursor .. length BY <2>1, <2>2 DEF High
  <2>4. cursor + 1 .. cursor' \subseteq delivered
    <3>1. cursor + 1 .. cursor' \subseteq Batch(l) BY <2>1, <2>2 DEF High, Batch
    <3> QED BY <3>1, <2>2
  <2> QED BY <2>1, <2>3, <2>4 DEF Log!Next, Log!Advance
<1>6. ASSUME NEW l \in Loops,
             \/ Timer(l) \/ Query(l) \/ PushNone(l) \/ Throws(l) \/ Resume(l) \/ FlushNow(l)
             \/ Stop(l) \/ Watch(l) \/ Watched(l)
      PROVE  UNCHANGED Log!vars
  BY <1>6 DEF Timer, Query, PushNone, Throws, Resume, FlushNow, Stop, Watch, Watched,
              table, Log!vars
<1>7. CASE Shutdown \/ CloseSink \/ Crash \/ Boot \/ \E i \in 1 .. length : Age(i)
  BY <1>7 DEF Shutdown, CloseSink, Crash, Boot, Age, table, Log!vars
<1>8. CASE UNCHANGED vars
  BY <1>8 DEF vars, table, Log!vars
<1> QED BY <1>2, <1>3, <1>4, <1>5, <1>6, <1>7, <1>8 DEF Next, Step

\* Over crashes, partial acks, repeated pushes and any number of loops on one
\* cursor, the cursor only moves forward and only over rows the vendor has: every
\* row is delivered at least once and none is passed over (runTick,
\* writeExportCursor).
THEOREM ShipsTheLog == Spec => Shipping
<1> QED BY InitShips, StepShips, AlwaysInv, PTL DEF Spec, Shipping, Log!Spec

-----------------------------------------------------------------------------
(* AuditChain for any set of record() calls, erasures and prunings: while no *)
(* two calls overlap the table verifies.  What a call has read stays the      *)
(* hash of the last row until it inserts, and tombstones keep their hashes.   *)

CONSTANT Records
VARIABLES rows, hashing, prev, overlapped
Chain == INSTANCE AuditChain

Contents == {rows[i] : i \in DOMAIN rows}

\* The table is a sequence of rows, and prev is a function on the calls.
Shape ==
  /\ rows \in Seq(Contents)
  /\ \A i \in DOMAIN rows :
       DOMAIN rows[i] = {"record", "erased", "prevHash", "recordHash"}
  /\ DOMAIN prev = Records /\ hashing \subseteq Records

\* Calls in turn: one at a time, and what it read is still the tail.
InTurn ==
  ~overlapped => /\ \A q, r \in hashing : q = r
                 /\ \A r \in hashing : prev[r] = Chain!LatestHash

ChainInv == Shape /\ InTurn /\ Chain!VerifiesInTurn

\* What verify() walks, row by row.
Sound(i) ==
  /\ rows[i].prevHash = Chain!Expected(i)
  /\ rows[i].erased \/ rows[i].recordHash = Chain!Hash(rows[i].prevHash, rows[i].record)

LEMMA VerifiesRowByRow == Chain!Verifies <=> \A i \in DOMAIN rows : Sound(i)
<1> QED BY DEF Chain!Verifies, Chain!Violations, Chain!Breaks, Chain!Tampered, Sound

LEMMA ChainInit == Chain!Init => ChainInv
<1> SUFFICES ASSUME Chain!Init PROVE ChainInv OBVIOUS
<1>1. rows = <<>> /\ hashing = {} /\ DOMAIN prev = Records BY DEF Chain!Init
<1>2. DOMAIN rows = {} /\ rows \in Seq(Contents) BY <1>1
<1>3. Shape /\ InTurn BY <1>1, <1>2 DEF Shape, InTurn
<1>4. Chain!VerifiesInTurn BY <1>2, VerifiesRowByRow DEF Chain!VerifiesInTurn
<1> QED BY <1>3, <1>4 DEF ChainInv

LEMMA ReadKeeps == ASSUME ChainInv, NEW r \in Records, Chain!Read(r) PROVE ChainInv'
<1>1. Shape /\ InTurn /\ Chain!VerifiesInTurn BY DEF ChainInv
<1>2. /\ hashing' = hashing \cup {r} /\ prev' = [prev EXCEPT ![r] = Chain!LatestHash]
      /\ overlapped' = (overlapped \/ hashing # {}) /\ rows' = rows
  BY DEF Chain!Read
<1>3. Shape' BY <1>1, <1>2 DEF Shape, Contents
<1>4. Chain!LatestHash' = Chain!LatestHash BY <1>2 DEF Chain!LatestHash
<1>5. prev'[r] = Chain!LatestHash BY <1>1, <1>2 DEF Shape
<1>6. ~overlapped' => ~overlapped /\ hashing' = {r} BY <1>2
<1>7. InTurn' BY <1>4, <1>5, <1>6 DEF InTurn
<1>8. Chain!Verifies' = Chain!Verifies
  BY <1>2 DEF Chain!Verifies, Chain!Violations, Chain!Breaks, Chain!Tampered, Chain!Expected
<1>9. Chain!VerifiesInTurn' BY <1>1, <1>6, <1>8 DEF Chain!VerifiesInTurn
<1> QED BY <1>3, <1>7, <1>9 DEF ChainInv

LEMMA InsertKeeps == ASSUME ChainInv, NEW r \in Records, Chain!Insert(r) PROVE ChainInv'
<1>1. Shape /\ InTurn /\ Chain!VerifiesInTurn BY DEF ChainInv
<1> DEFINE row == Chain!Row(prev[r], r)
<1>2. /\ r \in hashing /\ hashing' = hashing \ {r} /\ rows' = Append(rows, row)
      /\ prev' = prev /\ overlapped' = overlapped
  BY DEF Chain!Insert
<1>3. rows \in Seq(Contents) BY <1>1 DEF Shape
<1>4. rows \in Seq(Contents \cup {row}) BY <1>3
<1>5. /\ Len(rows) \in Nat /\ DOMAIN rows = 1 .. Len(rows)
      /\ Len(rows') = Len(rows) + 1 /\ DOMAIN rows' = 1 .. Len(rows) + 1
      /\ \A i \in 1 .. Len(rows) : rows'[i] = rows[i]
      /\ rows'[Len(rows) + 1] = row
  BY <1>2, <1>4, AppendProperties
<1>6. /\ DOMAIN row = {"record", "erased", "prevHash", "recordHash"}
      /\ row.record = r /\ row.erased = FALSE /\ row.prevHash = prev[r]
      /\ row.recordHash = Chain!Hash(prev[r], r)
  BY DEF Chain!Row
<1>7. Shape'
  <2>1. rows' \in Seq(Contents \cup {row}) BY <1>2, <1>4
  <2>2. Contents' = Contents \cup {row} BY <1>5 DEF Contents
  <2>3. \A i \in DOMAIN rows' :
          DOMAIN rows'[i] = {"record", "erased", "prevHash", "recordHash"}
    BY <1>1, <1>5, <1>6 DEF Shape
  <2> QED BY <1>1, <1>2, <2>1, <2>2, <2>3 DEF Shape
<1>8. InTurn' BY <1>1, <1>2 DEF InTurn
<1>9. Chain!VerifiesInTurn'
  <2>1. SUFFICES ASSUME ~overlapped' PROVE \A i \in DOMAIN rows' : Sound(i)'
    BY VerifiesRowByRow DEF Chain!VerifiesInTurn, Chain!Verifies, Chain!Violations, Chain!Breaks, Chain!Tampered, Sound
  <2>2. prev[r] = Chain!LatestHash BY <1>1, <1>2, <2>1 DEF InTurn
  <2>3. \A i \in 1 .. Len(rows) : Sound(i)
    BY <1>1, <1>2, <1>5, <2>1, VerifiesRowByRow DEF Chain!VerifiesInTurn
  <2>4. \A i \in 1 .. Len(rows) : Sound(i)'
    BY <1>5, <2>3 DEF Sound, Chain!Expected
  <2>5. PICK n \in Nat : n = Len(rows) BY <1>5
  <2>6. rows = <<>> <=> n = 0 BY <1>3, <2>5, EmptySeq, SMT
  <2>7. Chain!LatestHash = IF n + 1 = 1 THEN Chain!Genesis ELSE rows'[n].recordHash
    BY <1>5, <2>5, <2>6 DEF Chain!LatestHash
  <2>8. rows'[n + 1] = row BY <1>5, <2>5
  <2>9. rows'[n + 1].prevHash = IF n + 1 = 1 THEN Chain!Genesis ELSE rows'[n].recordHash
    BY <1>6, <2>2, <2>7, <2>8
  <2>10. rows'[n + 1].recordHash = Chain!Hash(rows'[n + 1].prevHash, rows'[n + 1].record)
    BY <1>6, <2>8
  <2>11. ASSUME NEW i \in DOMAIN rows' PROVE Sound(i)'
    <3>1. CASE i \in 1 .. Len(rows) BY <2>4, <3>1
    <3>2. CASE i = n + 1
      <4>1. (n + 1) - 1 = n BY <2>5
      <4> QED BY <2>9, <2>10, <3>2, <4>1 DEF Sound, Chain!Expected
    <3> QED BY <1>5, <2>5, <2>11, <3>1, <3>2
  <2> QED BY <2>11
<1> QED BY <1>7, <1>8, <1>9 DEF ChainInv

LEMMA EraseKeeps ==
  ASSUME ChainInv, NEW matches \in SUBSET Records, Chain!Erase(matches) PROVE ChainInv'
<1>1. Shape /\ InTurn /\ Chain!VerifiesInTurn BY DEF ChainInv
<1>2. /\ rows' = [i \in DOMAIN rows |->
                   [rows[i] EXCEPT !.erased = @ \/ rows[i].record \in matches]]
      /\ hashing' = hashing /\ prev' = prev /\ overlapped' = overlapped
  BY DEF Chain!Erase
<1>3. /\ rows \in Seq(Contents) /\ Len(rows) \in Nat /\ DOMAIN rows = 1 .. Len(rows)
  BY <1>1 DEF Shape
<1>4. DOMAIN rows' = DOMAIN rows BY <1>2
<1>5. ASSUME NEW i \in DOMAIN rows
      PROVE /\ DOMAIN rows'[i] = {"record", "erased", "prevHash", "recordHash"}
            /\ rows'[i].record = rows[i].record
            /\ rows'[i].prevHash = rows[i].prevHash
            /\ rows'[i].recordHash = rows[i].recordHash
            /\ rows[i].erased => rows'[i].erased
  BY <1>1, <1>2 DEF Shape
<1>6. rows' \in Seq(Contents') /\ Len(rows') = Len(rows)
  <2>1. rows' \in [1 .. Len(rows) -> Contents'] BY <1>2, <1>3, <1>4 DEF Contents
  <2> QED BY <1>3, <2>1
<1>7. Shape' BY <1>1, <1>2, <1>4, <1>5, <1>6 DEF Shape
<1>8. Chain!LatestHash' = Chain!LatestHash
  <2>1. rows = <<>> <=> Len(rows) = 0 BY <1>3, EmptySeq, SMT
  <2>2. rows' = <<>> <=> Len(rows') = 0 BY <1>6, EmptySeq, SMT
  <2>3. rows # <<>> => Len(rows) \in DOMAIN rows BY <1>3, <2>1
  <2> QED BY <1>5, <1>6, <2>1, <2>2, <2>3 DEF Chain!LatestHash
<1>9. InTurn' BY <1>1, <1>2, <1>8 DEF InTurn
<1>10. Chain!VerifiesInTurn'
  <2>1. SUFFICES ASSUME ~overlapped' PROVE \A i \in DOMAIN rows' : Sound(i)'
    BY VerifiesRowByRow DEF Chain!VerifiesInTurn, Chain!Verifies, Chain!Violations, Chain!Breaks, Chain!Tampered, Sound
  <2>2. ASSUME NEW i \in DOMAIN rows PROVE Sound(i)'
    <3>1. Sound(i) BY <1>1, <1>2, <2>1, VerifiesRowByRow DEF Chain!VerifiesInTurn
    <3>2. i # 1 => i - 1 \in DOMAIN rows BY <1>3
    <3>3. Chain!Expected(i)' = Chain!Expected(i) BY <1>5, <3>2 DEF Chain!Expected
    <3> QED BY <1>5, <3>1, <3>3 DEF Sound
  <2> QED BY <1>4, <2>2
<1> QED BY <1>7, <1>9, <1>10 DEF ChainInv

LEMMA ChainStep == ChainInv /\ [Chain!Next]_(Chain!vars) => ChainInv'
<1> SUFFICES ASSUME ChainInv, [Chain!Next]_(Chain!vars) PROVE ChainInv' OBVIOUS
<1>1. CASE \E r \in Records : Chain!Read(r) \/ Chain!Insert(r) BY <1>1, ReadKeeps, InsertKeeps
<1>2. CASE \E matches \in SUBSET Records : Chain!Erase(matches) BY <1>2, EraseKeeps
<1>3. CASE UNCHANGED Chain!vars
  BY <1>3 DEF Chain!vars, ChainInv, Shape, Contents, InTurn, Chain!LatestHash, Chain!VerifiesInTurn, Chain!Verifies,
     Chain!Violations, Chain!Breaks, Chain!Tampered, Chain!Expected
<1> QED BY <1>1, <1>2, <1>3 DEF Chain!Next

\* While record() calls take turns, verify() finds nothing, whatever is erased
\* or pruned between them: the overlap of two calls is the only cause of the
\* break that the run of AuditChain shows.
THEOREM InTurnVerifies == Chain!Spec => []Chain!VerifiesInTurn
<1>1. Chain!Spec => []ChainInv BY ChainInit, ChainStep, PTL DEF Chain!Spec
<1>2. ChainInv => Chain!VerifiesInTurn BY DEF ChainInv
<1> QED BY <1>1, <1>2, PTL
=============================================================================
