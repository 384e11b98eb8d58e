----------------------------- MODULE AuditExport -----------------------------
(***************************************************************************)
(* The audit export of one `declaragent up` process: the export loops        *)
(* (packages/core/src/audit/exporter-loop.ts) over the audit table and the   *)
(* export cursor of the SQLite sink (sqlite-sink.ts), the back-pressure gate *)
(* (backpressure.ts) and the loops' start and stop (packages/cli/src/         *)
(* up-cli.ts).  The loops here have exporters of one name, hence one cursor: *)
(* what agents get that export to one vendor and set no name.                *)
(*                                                                         *)
(* One action is the code between two awaits.  A row is its seq.  What a row  *)
(* says, and the hash chain, are in AuditChain; erase and prune rewrite what  *)
(* a row says and neither its seq nor the cursor.                            *)
(***************************************************************************)
EXTENDS Naturals

CONSTANTS
  Loops,        \* export loops
  Gated,        \* those of them that were given the back-pressure controller
  BatchSize, MaxFailures,     \* batchSize, maxConsecutiveFailures
  MaxRows,      \* bound: rows ever written
  MaxFaults,    \* bound: pushes that fail or ack nothing, exceptions
  MaxCommands,  \* bound: resume() and flushNow() calls
  MaxExits      \* bound: shutdowns and crashes

ASSUME ExportAssumption ==
  /\ Gated \subseteq Loops
  /\ {BatchSize, MaxFailures} \subseteq Nat \ {0}
  /\ {MaxRows, MaxFaults, MaxCommands, MaxExits} \subseteq Nat

VARIABLES
  length,     \* audit_records: the last seq
  cursor,     \* audit_export_cursor: last_seq
  aged,       \* rows older than pauseAfterBacklogMs
  delivered,  \* rows the vendor has (history)
  phase,      \* "up", "closing" (doShutdown runs) or "down"
  stopped, paused, failures,  \* the loops' flags, consecutiveFailures
  pc,         \* where a loop's tick awaits; "idle": not ticking
  since,      \* the tick's sinceSeq
  size,       \* rows of its batch; once acked, the rows acked
  timers,     \* tick timers of the loop that have not fired
  named,      \* is the last of them still in `timer', for stop() to clear?
  gate,       \* the back-pressure controller's paused
  watch,      \* the evaluator: "armed" (bpTimer), "reading" or "off"
  watched,    \* the cursor it read
  faults, commands, exits

table   == <<length, cursor, aged>>
flags   == <<stopped, paused, failures>>
tick    == <<pc, since, size>>
timing  == <<timers, named>>
valve   == <<gate, watch, watched>>
budget  == <<faults, commands, exits>>
vars    == <<table, delivered, phase, flags, tick, timing, valve, budget>>

Low(a, b)  == IF a < b THEN a ELSE b
High(a, b) == IF a > b THEN a ELSE b

Each(v) == [l \in Loops |-> v]

\* The evaluators of a new process.
Started == [l \in Loops |-> IF l \in Gated THEN "armed" ELSE "off"]

Init ==
  /\ length = 0 /\ cursor = 0 /\ aged = {} /\ delivered = {}
  /\ phase = "up"
  /\ stopped = Each(FALSE) /\ paused = Each(FALSE) /\ failures = Each(0)
  /\ pc = Each("idle") /\ since = Each(0) /\ size = Each(0)
  /\ timers = Each(1) /\ named = Each(TRUE)
  /\ gate = FALSE /\ watch = Started /\ watched = Each(0)
  /\ faults = 0 /\ commands = 0 /\ exits = 0

-----------------------------------------------------------------------------
(* The sink *)

\* record(): by this process, or by a CLI process with a sink of its own.  (The
\* gate does not stop the latter, nor a call that is past it and hashes.)
Record ==
  /\ length < MaxRows /\ length' = length + 1
  /\ UNCHANGED <<cursor, aged, delivered, phase, flags, tick, timing, valve, budget>>

\* A row's age passes pauseAfterBacklogMs.
Age(i) ==
  /\ i \in 1 .. length \ aged /\ aged' = aged \cup {i}
  /\ UNCHANGED <<length, cursor, delivered, phase, flags, tick, timing, valve, budget>>

-----------------------------------------------------------------------------
(* The tick *)

\* scheduleNext(), when the loop's live timers are n.
Schedule(l, n) ==
  IF stopped[l] THEN timers' = [timers EXCEPT ![l] = n] /\ UNCHANGED named
  ELSE /\ timers' = [timers EXCEPT ![l] = n + 1]
       /\ named' = [named EXCEPT ![l] = TRUE]

\* A timer fires and takes itself out of `timer', or whichever is in there.
Fired(l) ==
  /\ timers' = [timers EXCEPT ![l] = @ - 1]
  /\ named' = [named EXCEPT ![l] = FALSE]

\* runTick() reads the cursor.
Begin(l) ==
  /\ pc' = [pc EXCEPT ![l] = "query"]
  /\ since' = [since EXCEPT ![l] = cursor]
  /\ UNCHANGED size

Busy(l) == stopped[l] \/ pc[l] # "idle"

\* Faulty variants, named ...Faulty, stand before the definition they vary.
\* They are not part of the specification: each is a bug its property catches.
\* The look at `paused' comes before the try, as the one at `stopped' does.
TimerFaulty(l) ==
  /\ timers[l] > 0
  /\ Fired(l)
  /\ IF Busy(l) \/ paused[l] THEN UNCHANGED tick ELSE Begin(l)
  /\ UNCHANGED <<table, delivered, phase, flags, valve, budget>>

\* A timer calls runTick: nothing if the loop is stopped or ticks already, and
\* only the next timer if it is paused.
Timer(l) ==
  /\ timers[l] > 0
  /\ IF Busy(l) THEN Fired(l) /\ UNCHANGED tick
     ELSE IF paused[l] THEN Schedule(l, timers[l] - 1) /\ UNCHANGED tick
     ELSE Fired(l) /\ Begin(l)
  /\ UNCHANGED <<table, delivered, phase, flags, valve, budget>>

\* The finally block of a tick.
EndTick(l) ==
  /\ pc' = [pc EXCEPT ![l] = "idle"]
  /\ since' = [since EXCEPT ![l] = 0] /\ size' = [size EXCEPT ![l] = 0]
  /\ Schedule(l, timers[l])

Calm(l) == failures' = [failures EXCEPT ![l] = 0] /\ UNCHANGED <<stopped, paused>>

\* Off by one: the batch reaches past the last row.
QueryFaulty(l) ==
  /\ pc[l] = "query"
  /\ \/ length <= since[l] /\ Calm(l) /\ EndTick(l)
     \/ /\ length > since[l]
        /\ pc' = [pc EXCEPT ![l] = "push"]
        /\ size' = [size EXCEPT ![l] = BatchSize]
        /\ UNCHANGED <<flags, since, timing>>
  /\ UNCHANGED <<table, delivered, phase, valve, budget>>

\* The batch waits until it is full.
QueryFullFaulty(l) ==
  /\ pc[l] = "query"
  /\ \/ length < since[l] + BatchSize /\ Calm(l) /\ EndTick(l)
     \/ /\ length >= since[l] + BatchSize
        /\ pc' = [pc EXCEPT ![l] = "push"]
        /\ size' = [size EXCEPT ![l] = BatchSize]
        /\ UNCHANGED <<flags, since, timing>>
  /\ UNCHANGED <<table, delivered, phase, valve, budget>>

\* sink.query: the rows after the cursor, at most batchSize.
Query(l) ==
  /\ pc[l] = "query"
  /\ \/ length <= since[l] /\ Calm(l) /\ EndTick(l)
     \/ /\ length > since[l]
        /\ pc' = [pc EXCEPT ![l] = "push"]
        /\ size' = [size EXCEPT ![l] = Low(BatchSize, length - since[l])]
        /\ UNCHANGED <<flags, since, timing>>
  /\ UNCHANGED <<table, delivered, phase, valve, budget>>

Batch(l) == since[l] + 1 .. since[l] + size[l]

Fault == faults < MaxFaults /\ faults' = faults + 1 /\ UNCHANGED <<commands, exits>>

\* The cursor will be put behind the batch, however much of it was acked.
PushFaulty(l) ==
  /\ pc[l] = "push"
  /\ \E n \in 1 .. size[l], more \in SUBSET Batch(l) :
       delivered' = delivered \cup (since[l] + 1 .. since[l] + n) \cup more
  /\ pc' = [pc EXCEPT ![l] = "write"]
  /\ UNCHANGED <<table, phase, flags, since, size, timing, valve, budget>>

\* push() answers that the first n rows are acked; the vendor may have taken
\* some of the others too.
Push(l) ==
  /\ pc[l] = "push"
  /\ \E n \in 1 .. size[l], more \in SUBSET Batch(l) :
       /\ delivered' = delivered \cup (since[l] + 1 .. since[l] + n) \cup more
       /\ size' = [size EXCEPT ![l] = n]
  /\ pc' = [pc EXCEPT ![l] = "write"]
  /\ UNCHANGED <<table, phase, flags, since, timing, valve, budget>>

\* push() answers ok and acks nothing.
PushNone(l) ==
  /\ pc[l] = "push" /\ Fault
  /\ Calm(l) /\ EndTick(l)
  /\ UNCHANGED <<table, delivered, phase, valve>>

\* A failure is counted; the loop pauses at once or after too many in a row.
Fails(l, atOnce) ==
  /\ failures' = [failures EXCEPT ![l] = Low(@ + 1, MaxFailures)]
  /\ paused' = [paused EXCEPT ![l] = @ \/ atOnce \/ failures[l] + 1 >= MaxFailures]
  /\ UNCHANGED stopped

\* push() answers with an error, retryable or not.  A request that timed out may
\* have been taken.
PushFails(l) ==
  /\ pc[l] = "push" /\ Fault
  /\ \E some \in SUBSET Batch(l) : delivered' = delivered \cup some
  /\ \E retryable \in BOOLEAN : Fails(l, ~retryable)
  /\ EndTick(l)
  /\ UNCHANGED <<table, phase, valve>>

\* The sink throws.
Throws(l) ==
  /\ pc[l] \in {"query", "write"} /\ Fault
  /\ Fails(l, FALSE) /\ EndTick(l)
  /\ UNCHANGED <<table, delivered, phase, valve>>

\* writeExportCursor: the upsert keeps the larger last_seq.
Write(l) ==
  /\ pc[l] = "write"
  /\ cursor' = High(cursor, since[l] + size[l])
  /\ Calm(l) /\ EndTick(l)
  /\ UNCHANGED <<length, aged, delivered, phase, valve, budget>>

Step(l) == Query(l) \/ Push(l) \/ PushNone(l) \/ PushFails(l) \/ Throws(l) \/ Write(l)

-----------------------------------------------------------------------------
(* The handle *)

Command == commands < MaxCommands /\ commands' = commands + 1 /\ UNCHANGED <<faults, exits>>

\* resume(): a timer for now instead of the one it knows of.
Resume(l) ==
  /\ Command /\ phase = "up"
  /\ failures' = [failures EXCEPT ![l] = 0]
  /\ paused' = [paused EXCEPT ![l] = FALSE]
  /\ Schedule(l, IF named[l] THEN timers[l] - 1 ELSE timers[l])
  /\ UNCHANGED <<table, delivered, phase, stopped, tick, valve>>

\* flushNow(): a tick the timers know nothing of.
FlushNow(l) ==
  /\ Command /\ phase = "up" /\ ~Busy(l)
  /\ IF paused[l] THEN Schedule(l, timers[l]) /\ UNCHANGED tick
     ELSE Begin(l) /\ UNCHANGED timing
  /\ UNCHANGED <<table, delivered, phase, flags, valve>>

\* stop(), up to its wait for the tick.  doShutdown stops one loop after the
\* other.
Gone(l) == stopped[l] /\ pc[l] = "idle"

Stop(l) ==
  /\ phase = "closing" /\ ~stopped[l]
  /\ \A k \in Loops : stopped[k] => Gone(k)
  /\ stopped' = [stopped EXCEPT ![l] = TRUE]
  /\ timers' = [timers EXCEPT ![l] = IF named[l] THEN @ - 1 ELSE @]
  /\ named' = [named EXCEPT ![l] = FALSE]
  /\ watch' = [watch EXCEPT ![l] = IF @ = "armed" THEN "off" ELSE @]
  /\ UNCHANGED <<table, delivered, phase, paused, failures, tick, gate, watched, budget>>

-----------------------------------------------------------------------------
(* Back-pressure *)

\* oldestUnshippedMs reads the cursor,
Watch(l) ==
  /\ watch[l] = "armed"
  /\ watch' = [watch EXCEPT ![l] = "reading"]
  /\ watched' = [watched EXCEPT ![l] = cursor]
  /\ UNCHANGED <<table, delivered, phase, flags, tick, timing, gate, budget>>

Unshipped(l) == {i \in 1 .. length : i > watched[l]}

\* The empty backlog is left for the next evaluation.
GateFaulty(l) ==
  gate' = IF Unshipped(l) = {} THEN gate ELSE Unshipped(l) \cap aged # {}

\* evaluateBackpressure: closed by an old row, open without one.
Gate(l) == gate' = (Unshipped(l) \cap aged # {})

\* then the oldest row behind it, and the timer is set again.
Watched(l) ==
  /\ watch[l] = "reading"
  /\ Gate(l)
  /\ watch' = [watch EXCEPT ![l] = IF stopped[l] THEN "off" ELSE "armed"]
  /\ watched' = [watched EXCEPT ![l] = 0]
  /\ UNCHANGED <<table, delivered, phase, flags, tick, timing, budget>>

-----------------------------------------------------------------------------
(* The process *)

Exit == exits < MaxExits /\ exits' = exits + 1 /\ UNCHANGED <<faults, commands>>

Shutdown ==
  /\ phase = "up" /\ Exit /\ phase' = "closing"
  /\ UNCHANGED <<table, delivered, flags, tick, timing, valve>>

\* stop() is not waited for.
StoppedFaulty == \A l \in Loops : stopped[l]

\* Every stop() has returned.
Stopped == \A l \in Loops : Gone(l)

\* Memory of the process that is gone.
Forget ==
  /\ stopped' = Each(TRUE) /\ paused' = Each(FALSE) /\ failures' = Each(0)
  /\ pc' = Each("idle") /\ since' = Each(0) /\ size' = Each(0)
  /\ timers' = Each(0) /\ named' = Each(FALSE)
  /\ gate' = FALSE /\ watch' = Each("off") /\ watched' = Each(0)

\* The sink is closed behind the loops, and the process exits.
CloseSink ==
  /\ phase = "closing" /\ Stopped /\ phase' = "down"
  /\ UNCHANGED <<table, delivered, flags, tick, timing, valve, budget>>

Crash ==
  /\ phase # "down" /\ Exit /\ phase' = "down"
  /\ Forget
  /\ UNCHANGED <<table, delivered>>

\* startAuditExportLoop: the first tick comes an interval later.
Boot ==
  /\ phase = "down" /\ phase' = "up"
  /\ stopped' = Each(FALSE) /\ paused' = Each(FALSE) /\ failures' = Each(0)
  /\ pc' = Each("idle") /\ since' = Each(0) /\ size' = Each(0)
  /\ timers' = Each(1) /\ named' = Each(TRUE)
  /\ gate' = FALSE /\ watch' = Started /\ watched' = Each(0)
  /\ UNCHANGED <<table, delivered, budget>>

Next ==
  \/ Record
  \/ \E i \in 1 .. length : Age(i)
  \/ \E l \in Loops :
       \/ Timer(l) \/ Step(l) \/ Resume(l) \/ FlushNow(l) \/ Stop(l)
       \/ Watch(l) \/ Watched(l)
  \/ Shutdown \/ CloseSink \/ Crash \/ Boot

Spec == Init /\ [][Next]_vars

\* Timers fire, awaits return, a shutdown gets on and an operator starts the
\* process again.  Nobody has to call resume() or flushNow().
Fairness ==
  /\ \A l \in Loops :
       /\ WF_vars(Timer(l)) /\ WF_vars(Step(l)) /\ WF_vars(Stop(l))
       /\ WF_vars(Watch(l)) /\ WF_vars(Watched(l))
  /\ WF_vars(CloseSink) /\ WF_vars(Boot)

FairSpec == Spec /\ Fairness

-----------------------------------------------------------------------------
(* Properties *)

Pcs == {"idle", "query", "push", "write"}

TypeOK ==
  /\ length \in 0 .. MaxRows /\ cursor \in 0 .. length
  /\ aged \subseteq 1 .. length /\ delivered \subseteq 1 .. length
  /\ phase \in {"up", "closing", "down"}
  /\ stopped \in [Loops -> BOOLEAN] /\ paused \in [Loops -> BOOLEAN]
  /\ failures \in [Loops -> 0 .. MaxFailures]
  /\ pc \in [Loops -> Pcs]
  /\ since \in [Loops -> Nat] /\ size \in [Loops -> 0 .. BatchSize]
  /\ \A l \in Loops :
       pc[l] \in {"push", "write"} => size[l] > 0 /\ since[l] + size[l] <= length
  /\ timers \in [Loops -> Nat] /\ named \in [Loops -> BOOLEAN]
  /\ \A l \in Loops : named[l] => timers[l] > 0
  /\ gate \in BOOLEAN
  /\ watch \in [Loops -> {"armed", "reading", "off"}] /\ watched \in [Loops -> Nat]
  /\ faults \in 0 .. MaxFaults /\ commands \in 0 .. MaxCommands /\ exits \in 0 .. MaxExits

\* At least once and in order, over crashes, partial acks and loops that share a
\* cursor: "the cursor advances only after the vendor acks", "must be monotonic
\* ... so a stale exporter can't rewind the cursor" (runTick, writeExportCursor).
Log == INSTANCE ShippedLog WITH position <- cursor
Shipping == Log!Spec

\* A loop that is not stopped ticks or has a timer that will: pausing, a failing
\* tick, resume() in the middle of one or a timer that fires during another
\* never leave it asleep (runTick's early returns and its finally block).
LoopAlive ==
  phase = "up" => \A l \in Loops : pc[l] # "idle" \/ timers[l] > 0

\* Once the sink is closed nothing is being pushed that could not be entered
\* into the cursor: stop() waits for the tick, whatever timers and calls are
\* still about (stop, doShutdown).
ClosedIsQuiet == phase = "down" => \A l \in Loops : pc[l] = "idle"

\* Every row is shipped, unless all loops are paused and wait for a resume().
RowsShip ==
  \A i \in 1 .. MaxRows :
    i <= length ~> (i <= cursor \/ \A l \in Loops : paused[l])

\* The gate does not stay closed behind an export that has caught up: "resumes
\* automatically" (evaluateBackpressure), stale readings of the cursor or not.
GateReopens == gate ~> (~gate \/ \A l \in Loops : paused[l])
=============================================================================
