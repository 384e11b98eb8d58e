---------------------------- MODULE EventDispatch ----------------------------
(***************************************************************************)
(* The event path of one `declaragent up` process: the dispatchers         *)
(* (packages/core/src/events/dispatcher.ts), the SQLite event store and     *)
(* its dispatch DLQ (store.ts), operator requeue (dlq.ts) and boot-time     *)
(* recovery (recovery.ts), as packages/cli/src/up-cli.ts wires them.        *)
(*                                                                         *)
(* The process brings its agents up one after another and stops them in the *)
(* same order.  Each has a bus, a dispatcher with its cache and a control   *)
(* socket of its own; all share one database, ~/.declaragent/sessions.db.   *)
(*                                                                         *)
(* The process is single threaded.  One action is the code that runs        *)
(* between two awaits, so actions of different dispatches interleave        *)
(* exactly where the code yields.  SQLite statements are synchronous and    *)
(* durable; everything else is lost in a crash.                            *)
(***************************************************************************)
EXTENDS Integers

CONSTANTS
  Ids,          \* event ids; finitely many, so runs are bounded
  Arrivals,     \* the ids sources mint; the rest are for clones
  NoId,         \* "no causedBy"
  Keys,         \* (idempotencyKey, source type) pairs
  NoKey,        \* an event that carries no idempotency key
  Triggers,     \* trigger ids of cron, webhook and broker sources
  NoTrigger,    \* a source tag without a triggerId (mailbox, self, user)
  FleetSize,    \* the most agents a process brings up
  Tasks,        \* concurrent dispatches
  Operators,    \* concurrent control-socket connections issuing dlq.requeue
  DepthLimit,   \* causedByDepthLimit
  Overlap,      \* may two arrivals be between dedup check and record at once?
  LinkCauses,   \* may sources stamp causedBy on the events they publish?
  MaxCrashes, MaxFaults, MaxErasures   \* bounds on the environment: process
                \* exits (crash or stop), store writes that throw while the
                \* database is open, erasures

ASSUME ConstantsAssumption ==
  /\ NoId \notin Ids
  /\ Arrivals \subseteq Ids
  /\ NoKey \notin Keys \cup Ids
  /\ Keys \cap Ids = {}
  /\ NoTrigger \notin Triggers
  /\ FleetSize \in Nat \ {0}
  /\ DepthLimit \in Nat
  /\ Overlap \in BOOLEAN
  /\ LinkCauses \in BOOLEAN
  /\ {MaxCrashes, MaxFaults, MaxErasures} \subseteq Nat

VARIABLES
  event,     \* id -> the AgentEvent minted under it (history of all events)
  row,       \* events table: id -> outcome column, "absent" when no row
  dlq,       \* rejected_events table: id -> attempt_count, 0 when no row
  aged,      \* rows whose ts has left the dedup window (dedupWindowMs)
  cache,     \* the agents' IdempotencyCaches: <<agent, id or key remembered>>
  tpc, tid, tagent,   \* dispatch tasks: where each one awaits, for which
                      \* event, and whose dispatcher it is
  phase,     \* agent -> how far it is up
  worklist,  \* pendingAtBoot rows recovery has not reached
  recPc, recId, recClone,   \* the recovery loop of the agent that boots
  swept,     \* rows a boot listed though a dispatch held them (history)
  rpc, rid, rclone, ragent, \* the requeue calls, and on whose socket they came
  runs,      \* id -> engine turns started for it (history)
  crashes, faults, erasures

store    == <<row, dlq, aged>>
tasks    == <<tpc, tid, tagent>>
recovery == <<phase, worklist, recPc, recId, recClone, swept>>
requeues == <<rpc, rid, rclone, ragent>>
budget   == <<crashes, faults, erasures>>
vars     == <<event, store, cache, tasks, recovery, requeues, runs,
              budget>>

-----------------------------------------------------------------------------
(* Data *)

Agents  == 1 .. FleetSize
NoAgent == 0
Phases  == {"down", "binding", "recovering", "live", "stopping"}

Vias     == {"source", "requeue", "recovery"}
Event    == [key : Keys \cup {NoKey}, trig : Triggers \cup {NoTrigger},
             causedBy : Ids \cup {NoId}, via : Vias]
NoEvent  == [key |-> NoKey, trig |-> NoTrigger, causedBy |-> NoId,
             via |-> "none"]

\* "refused": no-handler, circuit-open or rate-limit, no turn was started.
\* "failed":  executeTarget threw (reason "invalid").
\* "done":    dispatched, or broadcast, which the ledger treats alike.
Rejections == {"loop", "refused", "failed", "interrupted"}
Terminal   == Rejections \cup {"done"}
Outcomes   == Terminal \cup {"pending", "absent"}

\* Where a dispatch awaits: the dedup read answered ("known", "new"), the row
\* was recorded, the turn runs, or the DLQ write after markOutcome is next.
TaskPcs == {"idle", "known", "new", "recorded", "turn", "rejecting",
            "clearing"}

Minted(i)  == event[i] # NoEvent
FreshIds   == {i \in Ids : ~Minted(i)}
InFlight(i) == \E d \in Tasks : tpc[d] # "idle" /\ tid[d] = i

\* The fresh-id copy requeue() and recoverPendingEvents() publish: the source
\* tag is carried over, the idempotency key dropped, causedBy set.
CloneOf(i, via) == [key |-> NoKey, trig |-> event[i].trig, causedBy |-> i,
                    via |-> via]

\* Faulty variants, named ...Faulty, stand before the definition they vary.
\* They are not part of the specification: each is a bug its property catches.
StoredDuplicateByIdFaulty(e, i) == row[i] # "absent"
StoredDuplicateByKeyFaulty(e, i) ==
  e.key # NoKey /\ \E j \in Ids : row[j] # "absent" /\ event[j].key = e.key

\* store.findDuplicate: same id, or same (idempotencyKey, source type) and a
\* ts in the dedup window.
StoredDuplicate(e, i) ==
  \/ row[i] # "absent"
  \/ /\ e.key # NoKey
     /\ \E j \in Ids \ aged : row[j] # "absent" /\ event[j].key = e.key

\* idempotency.lookup of agent a: by event id, then by key.
Cached(a, e, i) == <<a, i>> \in cache \/ <<a, e.key>> \in cache

CacheNamesFaulty(a, e, i) == {a} \X {i, e.key}

\* The names one remember() call writes.
CacheNames(a, e, i) == {a} \X ({i} \cup ({e.key} \ {NoKey}))

\* The n-th ancestor of i along causedBy that the store can still resolve.
Ancestors(i) ==
  LET up[n \in Nat] ==
        IF n = 0 THEN event[i].causedBy
        ELSE LET a == up[n - 1]
             IN  IF a = NoId THEN NoId
                 ELSE IF row[a] = "absent" THEN NoId ELSE event[a].causedBy
  IN {up[n] : n \in 0 .. (DepthLimit - 1)} \ {NoId}

\* detectLoop: an ancestor within the depth limit has the same triggerId.
Loops(i) ==
  /\ event[i].trig # NoTrigger
  /\ \E a \in Ancestors(i) :
        row[a] # "absent" /\ event[a].trig = event[i].trig

-----------------------------------------------------------------------------
Init ==
  /\ event = [i \in Ids |-> NoEvent]
  /\ row = [i \in Ids |-> "absent"]
  /\ dlq = [i \in Ids |-> 0]
  /\ aged = {}
  /\ cache = {}
  /\ tpc = [d \in Tasks |-> "idle"]
  /\ tid = [d \in Tasks |-> NoId]
  /\ tagent = [d \in Tasks |-> NoAgent]
  /\ phase = [a \in Agents |-> "down"]
  /\ worklist = {} /\ swept = {}
  /\ recPc = "idle" /\ recId = NoId /\ recClone = NoId
  /\ rpc = [o \in Operators |-> "idle"]
  /\ rid = [o \in Operators |-> NoId]
  /\ rclone = [o \in Operators |-> NoId]
  /\ ragent = [o \in Operators |-> NoAgent]
  /\ runs = [i \in Ids |-> 0]
  /\ crashes = 0 /\ faults = 0 /\ erasures = 0

-----------------------------------------------------------------------------
(* Dispatch: handleInternal *)

\* A store write of agent a works while its handle is open.  It throws once
\* stop() has closed the handle, and it may throw at any time (disk full, locked).
WriteWorks(a) == phase[a] # "stopping" /\ UNCHANGED faults
WriteThrows(a) ==
  /\ phase[a] = "stopping" \/ faults < MaxFaults
  /\ faults' = faults + 1

\* May an arrival enter the window between its dedup check and its record?
MayEnterCheck == Overlap \/ \A d \in Tasks : tpc[d] \notin {"known", "new"}

\* The subscriber of agent a calls handle(): its cache is read, then the store,
\* in one synchronous run up to `await store.findDuplicate`.  A cache hit
\* returns the duplicate outcome at once; the store never learns of it.
EnterDispatch(d, a, e, i) ==
  /\ tpc[d] = "idle"
  /\ MayEnterCheck
  /\ IF Cached(a, e, i)
       THEN UNCHANGED tasks
       ELSE /\ tpc' = [tpc EXCEPT ![d] =
                         IF StoredDuplicate(e, i) THEN "known" ELSE "new"]
            /\ tid' = [tid EXCEPT ![d] = i]
            /\ tagent' = [tagent EXCEPT ![d] = a]

Subscribed(a) == phase[a] \in {"recovering", "live"}

\* A source, channel or peer of agent a publishes an event under a new id.
Deliver(d, a, i, e) ==
  /\ Subscribed(a)
  /\ i \in Arrivals \cap FreshIds
  /\ event' = [event EXCEPT ![i] = e]
  /\ EnterDispatch(d, a, e, i)
  /\ UNCHANGED <<store, cache, recovery, requeues, runs, budget>>

\* A broker redelivers a message whose x-event-id header fixes its event id, or
\* delivers it to the sources of two agents.
Redeliver(d, a, i) ==
  /\ Subscribed(a)
  /\ i \in Arrivals /\ Minted(i)
  /\ EnterDispatch(d, a, event[i], i)
  /\ UNCHANGED <<event, store, cache, recovery, requeues, runs,
                 budget>>

EndTask(d) == /\ tpc' = [tpc EXCEPT ![d] = "idle"]
              /\ tid' = [tid EXCEPT ![d] = NoId]
              /\ tagent' = [tagent EXCEPT ![d] = NoAgent]

\* findDuplicate found a prior row: remember it and return `duplicate`.
DropDuplicate(d) ==
  /\ tpc[d] = "known"
  /\ cache' = cache \cup CacheNames(tagent[d], event[tid[d]], tid[d])
  /\ EndTask(d)
  /\ UNCHANGED <<event, store, recovery, requeues, runs, budget>>

\* No prior row: remember, then store.record.  The INSERT fails on an id that
\* is already there; that, like any store error, is logged and ignored.
Record(d) ==
  /\ tpc[d] = "new"
  /\ cache' = cache \cup CacheNames(tagent[d], event[tid[d]], tid[d])
  /\ tpc' = [tpc EXCEPT ![d] = "recorded"]
  /\ \/ /\ WriteWorks(tagent[d])
        /\ row' = [row EXCEPT ![tid[d]] = IF @ = "absent" THEN "pending" ELSE @]
     \/ WriteThrows(tagent[d]) /\ UNCHANGED row
  /\ UNCHANGED <<event, dlq, aged, tid, tagent, recovery, requeues, runs,
                 crashes, erasures>>

\* detectLoop reads the store outside any try block: after the database is
\* closed the read throws and the dispatch ends with no outcome at all.
LoopCheckThrows(d) ==
  /\ tpc[d] = "recorded"
  /\ phase[tagent[d]] = "stopping"
  /\ event[tid[d]].trig # NoTrigger /\ event[tid[d]].causedBy # NoId
  /\ EndTask(d)
  /\ UNCHANGED <<event, store, cache, recovery, requeues, runs, budget>>

\* UPDATE events SET outcome: touches nothing when the row is gone.
MarkedRow(i, o) == [row EXCEPT ![i] = IF @ = "absent" THEN @ ELSE o]

ShortCircuitFaulty(d, o) ==      \* no DLQ row for a short-circuited event
  /\ tpc[d] = "recorded"
  /\ (o = "loop") = Loops(tid[d])
  /\ row' = MarkedRow(tid[d], o)
  /\ EndTask(d)
  /\ UNCHANGED <<event, dlq, aged, cache, recovery, requeues, runs, budget>>

\* Steps 3 and 4a: loop or rate limit.  markOutcome and upsertRejection share
\* one try block, so when the mark throws the DLQ write is skipped as well.
ShortCircuit(d, o) ==
  /\ tpc[d] = "recorded"
  /\ (o = "loop") = Loops(tid[d])
  /\ \/ /\ WriteWorks(tagent[d])
        /\ row' = MarkedRow(tid[d], o)
        /\ tpc' = [tpc EXCEPT ![d] = "rejecting"]
        /\ UNCHANGED <<tid, tagent>>
     \/ WriteThrows(tagent[d]) /\ EndTask(d) /\ UNCHANGED row
  /\ UNCHANGED <<event, dlq, aged, cache, recovery, requeues, runs, crashes,
                 erasures>>

\* Step 4b: executeTarget starts an engine turn.
StartTurn(d) ==
  /\ tpc[d] = "recorded"
  /\ ~Loops(tid[d])
  /\ runs' = [runs EXCEPT ![tid[d]] = @ + 1]
  /\ tpc' = [tpc EXCEPT ![d] = "turn"]
  /\ UNCHANGED <<event, store, cache, tid, tagent, recovery, requeues, budget>>

\* Step 5: executeTarget returned, threw, or refused before any turn (no
\* handler, open breaker), and markOutcome runs.  If markOutcome throws, the
\* DLQ steps 5a and 5b still follow.
Settle(d, o) ==
  /\ \/ tpc[d] = "turn" /\ o \in {"done", "failed"}
     \/ tpc[d] = "recorded" /\ ~Loops(tid[d]) /\ o \in {"done", "refused"}
  /\ tpc' = [tpc EXCEPT ![d] = IF o = "done" THEN "clearing" ELSE "rejecting"]
  /\ \/ WriteWorks(tagent[d]) /\ row' = MarkedRow(tid[d], o)
     \/ WriteThrows(tagent[d]) /\ UNCHANGED row
  /\ UNCHANGED <<event, dlq, aged, cache, tid, tagent, recovery, requeues, runs,
                 crashes, erasures>>

\* Steps 5a and 5b: upsertRejection or deleteRejection, then the outcome is
\* returned and whoever awaited bus.publish resumes.
FileOutcome(d) ==
  /\ tpc[d] \in {"rejecting", "clearing"}
  /\ \/ /\ WriteWorks(tagent[d])
        /\ dlq' = [dlq EXCEPT ![tid[d]] =
                      IF tpc[d] = "rejecting" THEN @ + 1 ELSE 0]
     \/ WriteThrows(tagent[d]) /\ UNCHANGED dlq
  /\ EndTask(d)
  /\ UNCHANGED <<event, row, aged, cache, recovery, requeues, runs, crashes,
                 erasures>>

\* Time passes: a row's ts falls out of the dedup window, and its key with it.
\* (The row itself stays; nothing calls vacuum().)
WindowPasses(i) ==
  /\ row[i] # "absent" /\ event[i].key # NoKey
  /\ i \notin aged
  /\ aged' = aged \cup {i}
  /\ UNCHANGED <<event, row, dlq, cache, tasks, recovery, requeues, runs, budget>>

\* The in-memory cache is an LRU with a TTL: any entry can go.
Forget(a, x) ==
  /\ <<a, x>> \in cache
  /\ cache' = cache \ {<<a, x>>}
  /\ UNCHANGED <<event, store, tasks, recovery, requeues, runs, budget>>

-----------------------------------------------------------------------------
(* Operator requeue: dlq.requeue on an agent's control socket, one per        *)
(* connection.  The socket opens when the agent is up.                       *)

\* Mint clone j of i and hand it to the bus of agent a, whose publish() enters
\* the dispatcher synchronously.
PublishClone(d, a, i, j, via) ==
  /\ j \in FreshIds \ Arrivals
  /\ event' = [event EXCEPT ![j] = CloneOf(i, via)]
  /\ EnterDispatch(d, a, CloneOf(i, via), j)

EndRequeue(o) == /\ rpc' = [rpc EXCEPT ![o] = "idle"]
                 /\ rid' = [rid EXCEPT ![o] = NoId]
                 /\ rclone' = [rclone EXCEPT ![o] = NoId]
                 /\ ragent' = [ragent EXCEPT ![o] = NoAgent]

\* getRejection found a row, whichever agent filed it; without one the answer
\* is dlq-miss.
RequeueLookup(o, a, i) ==
  /\ phase[a] = "live"
  /\ rpc[o] = "idle"
  /\ dlq[i] > 0
  /\ rpc' = [rpc EXCEPT ![o] = "found"]
  /\ rid' = [rid EXCEPT ![o] = i]
  /\ ragent' = [ragent EXCEPT ![o] = a]
  /\ UNCHANGED <<event, store, cache, tasks, recovery, rclone, runs,
                 budget>>

\* store.get found no body (event-miss), or threw on the closed database.
RequeueMiss(o) ==
  /\ rpc[o] = "found"
  /\ row[rid[o]] = "absent" \/ phase[ragent[o]] = "stopping"
  /\ EndRequeue(o)
  /\ UNCHANGED <<event, store, cache, tasks, recovery, runs, budget>>

RequeuePublish(o, d, j) ==
  /\ rpc[o] = "found"
  /\ row[rid[o]] # "absent" /\ phase[ragent[o]] # "stopping"
  /\ PublishClone(d, ragent[o], rid[o], j, "requeue")
  /\ rpc' = [rpc EXCEPT ![o] = "published"]
  /\ rclone' = [rclone EXCEPT ![o] = j]
  /\ UNCHANGED <<store, cache, recovery, rid, ragent, runs, budget>>

RequeueAckEarlyFaulty(o) ==      \* acknowledge without awaiting the dispatch
  /\ rpc[o] = "published"
  /\ dlq' = [dlq EXCEPT ![rid[o]] = 0]
  /\ EndRequeue(o)
  /\ UNCHANGED <<event, row, aged, cache, tasks, recovery, runs, budget>>

\* bus.publish resolved, so the clone's dispatch is over; deleteRejection
\* acknowledges the original DLQ row, or throws.
RequeueAck(o) ==
  /\ rpc[o] = "published"
  /\ ~InFlight(rclone[o])
  /\ \/ WriteWorks(ragent[o]) /\ dlq' = [dlq EXCEPT ![rid[o]] = 0]
     \/ WriteThrows(ragent[o]) /\ UNCHANGED dlq
  /\ EndRequeue(o)
  /\ UNCHANGED <<event, row, aged, cache, tasks, recovery, runs, crashes,
                 erasures>>

-----------------------------------------------------------------------------
(* Boot, recovery, shutdown: the agents of the process one after another *)

Booting(a)    == phase[a] \in {"binding", "recovering"}
PhaseOf(a, p) == [phase EXCEPT ![a] = p]

\* startAgentSources returns with every source bound and no dispatcher
\* subscribed; with a provider configured nothing else records events.  The
\* agents before this one are up.
StartSources(a) ==
  /\ \A b \in Agents : phase[b] = IF b < a THEN "live" ELSE "down"
  /\ phase' = PhaseOf(a, "binding")
  /\ UNCHANGED <<event, store, cache, tasks, worklist, recPc, recId, recClone,
                 swept, requeues, runs, budget>>

\* An event a source publishes in that window reaches no subscriber.
PublishUnheard(i, e) ==
  /\ \E a \in Agents : phase[a] = "binding"
  /\ i \in Arrivals \cap FreshIds
  /\ event' = [event EXCEPT ![i] = e]
  /\ UNCHANGED <<store, cache, tasks, recovery, requeues, runs, budget>>

\* A dispatch, of whichever agent, has still to write the outcome of i.
Held(i)     == \E d \in Tasks : tid[d] = i /\ tpc[d] \notin {"idle", "known"}
PendingRows == {i \in Ids : row[i] = "pending"}

AttachFaulty(a) ==               \* clones are left out of the snapshot
  /\ phase[a] = "binding"
  /\ phase' = PhaseOf(a, "recovering")
  /\ worklist' = PendingRows \cap Arrivals
  /\ swept' = swept \cup {i \in PendingRows : Held(i)}
  /\ UNCHANGED <<event, store, cache, tasks, recPc, recId, recClone, requeues,
                 runs, budget>>

\* attachDispatcherToAgent: snapshot the pending rows, then subscribe.  The
\* rows are those of the shared database, whichever agent recorded them; an
\* agent that is up may be working on some.
Attach(a) ==
  /\ phase[a] = "binding"
  /\ phase' = PhaseOf(a, "recovering")
  /\ worklist' = PendingRows
  /\ swept' = swept \cup {i \in PendingRows : Held(i)}
  /\ UNCHANGED <<event, store, cache, tasks, recPc, recId, recClone, requeues,
                 runs, budget>>

RecoverMarkFaulty(a, i) ==       \* publish without marking first
  /\ phase[a] = "recovering" /\ recPc = "idle"
  /\ i \in worklist
  /\ worklist' = worklist \ {i}
  /\ recPc' = "marked" /\ recId' = i
  /\ UNCHANGED <<event, store, cache, tasks, phase, recClone, swept, requeues,
                 runs, budget>>

\* recoverPendingEvents, one row: mark the original interrupted first,
\* whatever its row says by now.  When the mark throws the row is skipped and
\* stays as it is.
RecoverMark(a, i) ==
  /\ phase[a] = "recovering" /\ recPc = "idle"
  /\ i \in worklist
  /\ worklist' = worklist \ {i}
  /\ \/ /\ WriteWorks(a)
        /\ row' = MarkedRow(i, "interrupted")
        /\ recPc' = "marked" /\ recId' = i
     \/ WriteThrows(a) /\ UNCHANGED <<row, recPc, recId>>
  /\ UNCHANGED <<event, dlq, aged, cache, tasks, phase, recClone, swept,
                 requeues, runs, crashes, erasures>>

\* ... then publish a fresh clone on the bus of the agent that boots and await
\* its dispatch.
RecoverPublish(d, a, j) ==
  /\ phase[a] = "recovering" /\ recPc = "marked"
  /\ PublishClone(d, a, recId, j, "recovery")
  /\ recPc' = "published"
  /\ recClone' = j
  /\ UNCHANGED <<store, cache, phase, worklist, recId, swept, requeues, runs,
                 budget>>

RecoverNext ==
  /\ recPc = "published"
  /\ ~InFlight(recClone)
  /\ recPc' = "idle" /\ recId' = NoId /\ recClone' = NoId
  /\ UNCHANGED <<event, store, cache, tasks, phase, worklist, swept, requeues,
                 runs, budget>>

GoLiveFaulty(a) ==               \* the first poison row ends the sweep
  /\ phase[a] = "recovering" /\ recPc = "idle"
  /\ phase' = PhaseOf(a, "live")
  /\ UNCHANGED <<event, store, cache, tasks, worklist, recPc, recId, recClone,
                 swept, requeues, runs, budget>>

\* attachDispatcherToAgent returns; the agent is up.
GoLive(a) ==
  /\ phase[a] = "recovering" /\ recPc = "idle" /\ worklist = {}
  /\ phase' = PhaseOf(a, "live")
  /\ UNCHANGED <<event, store, cache, tasks, worklist, recPc, recId, recClone,
                 swept, requeues, runs, budget>>

\* The process is gone: everything but the database is lost.
LoseVolatile ==
  /\ phase' = [a \in Agents |-> "down"]
  /\ cache' = {}
  /\ tpc' = [d \in Tasks |-> "idle"] /\ tid' = [d \in Tasks |-> NoId]
  /\ tagent' = [d \in Tasks |-> NoAgent]
  /\ worklist' = {}
  /\ recPc' = "idle" /\ recId' = NoId /\ recClone' = NoId
  /\ rpc' = [o \in Operators |-> "idle"]
  /\ rid' = [o \in Operators |-> NoId] /\ rclone' = [o \in Operators |-> NoId]
  /\ ragent' = [o \in Operators |-> NoAgent]
  /\ UNCHANGED <<event, store, swept, runs, faults, erasures>>

\* SIGKILL or OOM, at any point; also what the last drain deadline amounts to.
Crash ==
  /\ \E a \in Agents : phase[a] # "down"
  /\ crashes < MaxCrashes
  /\ crashes' = crashes + 1
  /\ LoseVolatile

\* stopAll, one agent: sources.stop() stops every source and closes the
\* agent's handle of the database; the drain of in-flight dispatches comes
\* after, up to a deadline.  Then it is the next agent's turn.  It runs when the
\* fleet is up, or when one of its agents did not come up.
Stop(a) ==
  /\ phase[a] = "live"
  /\ \A b \in Agents : b < a => phase[b] = "stopping"
  /\ \A b \in Agents : ~Booting(b)
  /\ \/ a > 1 /\ UNCHANGED crashes
     \/ a = 1 /\ crashes < MaxCrashes /\ crashes' = crashes + 1
  /\ phase' = PhaseOf(a, "stopping")
  /\ UNCHANGED <<event, store, cache, tasks, worklist, recPc, recId, recClone,
                 swept, requeues, runs, faults, erasures>>

\* draining() of the last agent resolved with nothing in flight: the process
\* exits.
Drained ==
  /\ \E a \in Agents : phase[a] = "stopping"
  /\ \A a \in Agents : phase[a] \in {"down", "stopping"}
  /\ \A d \in Tasks : tpc[d] = "idle"
  /\ LoseVolatile
  /\ UNCHANGED crashes

\* `declaragent erase`, another process: delete a user's event and DLQ rows.
Erase(i) ==
  /\ erasures < MaxErasures
  /\ row[i] # "absent"
  /\ erasures' = erasures + 1
  /\ row' = [row EXCEPT ![i] = "absent"]
  /\ dlq' = [dlq EXCEPT ![i] = 0]
  /\ aged' = aged \ {i}
  /\ UNCHANGED <<event, cache, tasks, recovery, requeues, runs,
                 crashes, faults>>

-----------------------------------------------------------------------------
\* What a source may publish.  causedBy names an event that exists.
Publishable ==
  [key : Keys \cup {NoKey}, trig : Triggers \cup {NoTrigger},
   causedBy : {NoId} \cup (IF LinkCauses THEN Ids \ FreshIds ELSE {}),
   via : {"source"}]

Arrive == \E i \in Arrivals :
  \/ \E e \in Publishable :
       \/ PublishUnheard(i, e)
       \/ \E d \in Tasks, a \in Agents : Deliver(d, a, i, e)
  \/ \E d \in Tasks, a \in Agents : Redeliver(d, a, i)

Dispatch(d) ==
  \/ DropDuplicate(d) \/ Record(d) \/ LoopCheckThrows(d)
  \/ \E o \in {"loop", "refused"} : ShortCircuit(d, o)
  \/ StartTurn(d)
  \/ \E o \in {"done", "failed", "refused"} : Settle(d, o)
  \/ FileOutcome(d)

Requeue(o) ==
  \/ \E a \in Agents, i \in Ids : RequeueLookup(o, a, i)
  \/ RequeueMiss(o)
  \/ \E d \in Tasks, j \in Ids : RequeuePublish(o, d, j)
  \/ RequeueAck(o)

Recover ==
  \/ \E a \in Agents, i \in Ids : RecoverMark(a, i)
  \/ \E d \in Tasks, a \in Agents, j \in Ids : RecoverPublish(d, a, j)
  \/ RecoverNext

\* The steps of one agent's boot and stop.
Boot(a) == StartSources(a) \/ Attach(a) \/ GoLive(a)

Step ==
  \/ Arrive
  \/ \E d \in Tasks : Dispatch(d)
  \/ \E i \in Ids : WindowPasses(i)
  \/ \E a \in Agents, x \in Ids \cup Keys : Forget(a, x)
  \/ \E o \in Operators : Requeue(o)
  \/ \E a \in Agents : Boot(a) \/ Stop(a)
  \/ Recover
  \/ Crash \/ Drained

Next == Step \/ \E i \in Ids : Erase(i)

Spec == Init /\ [][Next]_vars

\* A supervisor restarts the process, the boot code runs to its end, stopAll goes
\* through the agents, the event loop resumes every settled promise, and engine
\* turns end.
Fairness ==
  /\ \A a \in Agents :
       WF_vars(StartSources(a)) /\ WF_vars(Attach(a)) /\ WF_vars(GoLive(a))
  /\ \A a \in Agents \ {1} : WF_vars(Stop(a))
  /\ WF_vars(Recover) /\ WF_vars(Drained)
  /\ \A d \in Tasks : WF_vars(Dispatch(d))
  /\ \A o \in Operators : WF_vars(RequeueMiss(o) \/ RequeueAck(o))

\* Nothing is erased meanwhile.
LiveSpec == Init /\ [][Step]_vars /\ Fairness

-----------------------------------------------------------------------------
(* Properties *)

\* Every variable keeps the type the code gives it.
TypeOK ==
  /\ event \in [Ids -> Event \cup {NoEvent}]
  /\ row \in [Ids -> Outcomes]
  /\ dlq \in [Ids -> Nat]
  /\ aged \subseteq Ids
  /\ cache \subseteq Agents \X (Ids \cup Keys)
  /\ tpc \in [Tasks -> TaskPcs] /\ tid \in [Tasks -> Ids \cup {NoId}]
  /\ tagent \in [Tasks -> Agents \cup {NoAgent}]
  /\ phase \in [Agents -> Phases]
  /\ worklist \subseteq Ids /\ swept \subseteq Ids
  /\ recPc \in {"idle", "marked", "published"}
  /\ recId \in Ids \cup {NoId} /\ recClone \in Ids \cup {NoId}
  /\ rpc \in [Operators -> {"idle", "found", "published"}]
  /\ rid \in [Operators -> Ids \cup {NoId}]
  /\ rclone \in [Operators -> Ids \cup {NoId}]
  /\ ragent \in [Operators -> Agents \cup {NoAgent}]
  /\ runs \in [Ids -> Nat]
  /\ {crashes, faults, erasures} \subseteq Nat

Routing == {"recorded", "turn"}
RoutedBy(d, i) == tpc[d] \in Routing /\ tid[d] = i

\* No event is forgotten mid-dispatch: while a dispatcher is subscribed, none is
\* stopping and no store write has failed, every pending row belongs to a
\* dispatch that will settle it or is still on the boot recovery list
\* (recovery.ts).
Serving == /\ \E a \in Agents : Subscribed(a)
           /\ \A a \in Agents : phase[a] # "stopping"
PendingIsOwned ==
  Serving /\ faults = 0 =>
    \A i \in Ids : row[i] = "pending" =>
      i \in worklist \/ \E d \in Tasks : RoutedBy(d, i)

\* One of a key's events at most is ever routed to a turn within the dedup
\* window, and an event once at all, across redeliveries, cache eviction, crashes
\* and restarts and the agents of a fleet, as long as writes work, nothing is
\* erased, and arrivals do not overlap in the dedup check (idempotency cache plus
\* store.findDuplicate).  Two events of a key both run only if the row of one had
\* left the window.
Undisturbed == faults = 0 /\ erasures = 0
SameWork(i, j) == i = j \/ (event[i].key # NoKey /\ event[i].key = event[j].key)
OneRunPerKey ==
  Undisturbed =>
    \A i, j \in Ids : SameWork(i, j) /\ runs[i] > 0 /\ runs[j] > 0 =>
                        IF i = j THEN runs[i] = 1 ELSE {i, j} \cap aged # {}

\* No boot has listed a row that a dispatch was still working on.  The boot of a
\* process's first agent never does; that of a later agent may.
Unswept == swept = {}

\* The ledger of EventLedger, of which caches, dispatches and restarts are the
\* implementation.
DeadLetters == {i \in Ids : dlq[i] > 0}
Ledger == INSTANCE EventLedger WITH
            Events <- Event, outcome <- row, turns <- runs, dead <- DeadLetters,
            old <- aged

\* Until a write fails, something is erased or a later agent's boot sweeps up a
\* row in flight, every step of the dispatchers, of an operator, of recovery and
\* of the process itself is a step of the ledger or leaves it alone, as long as
\* arrivals do not overlap in the dedup check.
\* Nothing is taken in twice, run twice or settled twice, whatever crashes,
\* evictions and redeliveries come between; recovery copies what it has marked
\* and once; a requeue copies what was rejected and strikes it off after the copy
\* (dispatcher.ts, store.ts, dlq.ts, recovery.ts).
KeepsLedger ==
  Ledger!Init /\
  [][Undisturbed' /\ Unswept' => Ledger!Next \/ UNCHANGED Ledger!vars]_vars

\* A recorded outcome is final: no redelivery, requeue, recovery or late
\* settlement rewrites it (markOutcome is an unconditional UPDATE), unless a later
\* agent's boot swept up the row in flight.
OutcomeIsFinal ==
  [][Undisturbed' =>
       \A i \in Ids \ swept' : row[i] \in Terminal => row'[i] = row[i]]_vars

ClonesOf(i, via) == {j \in Ids : event[j].causedBy = i /\ event[j].via = via}

\* The DLQ lists the events whose stored outcome is a dispatch rejection, no
\* others and all of them: an operator never requeues a row that is pending, done
\* or being recovered, and a rejected row is listed, about to be, or has been
\* requeued.  A crash between the two writes is the one way to lose an entry
\* (dispatcher.ts step 5a).  A row that a later agent's boot swept up in flight is
\* excepted: its outcome is written twice.
Rejected(i) == row[i] \in {"loop", "refused", "failed"}
DlqIsRejected ==
  Undisturbed => \A i \in Ids \ swept :
    /\ dlq[i] > 0 => Rejected(i)
    /\ Rejected(i) /\ crashes = 0 =>
         dlq[i] > 0 \/ InFlight(i) \/ ClonesOf(i, "requeue") # {}

\* Requeue acknowledges a DLQ row only after a clone of it was dispatched to
\* an outcome (dlq.ts: deleteRejection happens after the re-dispatch).
RequeueRunsBeforeAck ==
  [][Undisturbed' =>
       \A i \in Ids : dlq[i] > 0 /\ dlq'[i] = 0 =>
         \E j \in ClonesOf(i, "requeue") : row[j] \in Terminal]_vars

\* Boot recovery re-dispatches an interrupted event at most once, however many
\* restarts and boots of later agents follow (recovery.ts: mark the original
\* terminal first).
RecoveredAtMostOnce ==
  erasures = 0 => \A i \in Ids : \A j, k \in ClonesOf(i, "recovery") : j = k

\* Every recorded event reaches an outcome in the end, whatever crashes and
\* stops come between (boot recovery plus settlement of every turn), and every
\* requeue call that found its row is answered.
EverythingSettles ==
  /\ \A i \in Ids : row[i] = "pending" ~> row[i] # "pending"
  /\ \A o \in Operators : rpc[o] = "published" ~> rpc[o] = "idle"

\* What a comment says and the code does not do.  dlq.ts: "The fresh event
\* therefore actually routes."  Reaching `done`, `failed` or `refused` is
\* routing; `loop` is not.
RequeuedCloneRoutes ==
  \A j \in Ids : event[j].via = "requeue" => row[j] # "loop"
=============================================================================
