# Verification of declaragent

TLA+ models of the parts of declaragent where order, failure and concurrency
decide whether the program is right, TLC configurations that check them on
small instances, and theorems that TLAPS proves for every instance.  Paths are
relative to the repository; `events/` stands for `packages/core/src/events/`.

    tlc -config EventDispatch.cfg EventDispatchScopes.tla    # one run
    tlapm EventDispatchProofs.tla                            # one set of proofs

`PROJECT.json` lists the runs, which definition models which lines (`map`), the
faulty variant that each property catches (`mutants`), the hazards with the
properties aimed at them, the disagreements found (`findings`) and the theorems.

## 1. The system

A `declaragent up` process hosts agents.  *Sources* (Kafka, AMQP, NATS, SQS,
MQTT, cron, webhook, mailbox) turn outside messages into events and publish them
on an in-process *bus*; the *dispatcher* records each in SQLite, checks it and
runs an engine *turn*; *channels* carry conversations; agents call each other
over *agent RPC* or leave *mailbox* messages; a *control socket* lets operators
requeue, pause and inspect.  One process is one JavaScript thread: code between two
awaits is atomic, everything else interleaves.  `up` on a fleet brings its agents up one
after another, each with a bus, dispatcher and control socket of its own, and stops
them in the same order; as `up` passes no storePath (`up-cli.ts:1144`,
`run-agent-sources.ts:251`), all of them record in one
`~/.declaragent/sessions.db`.  SQLite is also shared with CLI commands that run as
processes of their own.

| Component | State | Operations | Interacts with | Hard behaviour | What makes it right |
|---|---|---|---|---|---|
| Dispatcher, store, DLQ, recovery (`events/dispatcher.ts`, `store.ts`, `dlq.ts`, `recovery.ts`) | event rows with outcomes, DLQ rows, idempotency cache, in-flight set | dispatch, requeue, recover at boot, drain | bus, engine, control socket, SQLite | awaits between check, record and outcome; crash between the writes; two operators; a dedup window that ends; agents that boot while others work on the same rows | one run per key and window, outcome final, DLQ agrees with outcomes, recovered once, everything settles |
| Circuit breaker (`events/circuit-breaker.ts`) | state, counters, opened-at | allow, record, trip, reset | dispatcher, sources | results that arrive after the state moved on; lazy transition on read | no early closing, counting, recovery |
| Concurrency limiter (`events/concurrency.ts`) | slots, waiters | acquire, release | sources | hand-over | no idle slot, FIFO |
| Mailbox (`events/mailbox.ts`) | rows, depth cache | enqueue, drainFor, depth | engine, CLI process | two processes; crash between drain and append | delivered once, nothing lost |
| Source base class (`events/base-source.ts`), bus (`events/bus.ts`) | handlers, pending acks, pause reasons, bus pressure | handleMessage, ack/nack/DLQ, pause, resume | adapters, bus, dispatcher, breaker | outcome before registration, ack timeout, redelivery, pause reasons | acked means handled, slots return, every message settles |
| AMQP and NATS sources | consumer tag or subscription | doPause, doResume, seek | broker | overlap of asynchronous pause and resume; a consumer refused or taken away | consuming iff no reason to pause, one consumer |
| Kafka source | offsets, retry counters, DLQ producer | eachMessage, ack, nack, rebalance, seek | consumer group | commit past a failure, restart, dead letters that are not written | nothing skipped without a cause |
| SQS, MQTT sources | visibility timers; subscriptions | renew, delete, nack; QoS ack | broker | renewal racing nack; FIFO groups | redelivery in order |
| Agent RPC (`packages/plugin-agent-rpc`) | pending registry with timers | RequestAgent, response, timeout, abandon | transports, engine | late answers, shared ids, eviction, slow publish | own answer, nobody forgotten, every call returns |
| Engine (`core/src/engine`) | turn loop over a session handle | runAgent | provider, tools, mailbox, hooks | escalation, cap on iterations, exceptions and crashes between calls and results | every tool call answered, session well formed |
| Sessions (`core/src/session/sqlite.ts`) and the dispatcher's per-session lock | sessions, session keys, messages with their seq; promise chains | resolveByKey, createForKey, appendMessage, runForSession | dispatcher, engine | handles built before the lock is had, two events that pin one key, restarts | turns of a session run one after the other, the conversation accumulates |
| Audit (`core/src/audit`) | hash chain, exporter loops and their cursor, back-pressure gate | record, export, verify, erase, prune, pause, flush, stop | up-cli, exporters | failing or partial push, timers against stop and resume, shared cursor, two writers | chain verifies, no record skipped by the cursor, no loop asleep |
| Channels (`core/src/channels`, `packages/channel-*`) | sent keys, buckets, conversation map | inbound, outbound, retry | vendors, dispatcher | retry after an ambiguous failure | sent at most once per key, order per conversation |
| Boot and shutdown (`cli/src/up-cli.ts`, `run-agent-sources.ts`), event daemon, control socket | listeners, pid file | start, reload, stop | everything | order of shutdown | drained before closed |
| MCP supervisor (`core/src/mcp/supervisor.ts`) | state, client and its generation, circuit, pending calls, timers | start, callTool, ping, restart, drain, stop | server processes, JSON-RPC client | crash or hang with calls in flight, boots that fail, two restart loops | each call settles, only a serving client is called, no stray process |
| Tenancy, rate limiter | buckets, counters | acquire, release | dispatcher | clock steps, limits | bound kept |
| Secrets | TTL cache, rotation times | resolve, rotate | sources | stale value used | no value older than its TTL |
| Fleet, skills, tools, hooks, permissions, plugins, providers, configuration, observability, terminal, testkit | mostly files | load, render, deploy | platforms | little state of their own | not modelled, see section 7 |

## 2. The modules

| Module | Models | Variables and actions in terms of the code |
|---|---|---|
| `EventDispatch` | dispatcher + store + DLQ + recovery as `up-cli.ts` wires them | `row` and `dlq` are the tables, `aged` the rows whose key the dedup query no longer finds, `cache` the agents' idempotency LRUs, `tpc`/`tid`/`tagent` the running dispatches at their awaits and whose they are, `phase` how far each agent is up, `worklist` the rows the booting agent listed, `swept` (history) those of them that a dispatch held.  `Deliver`, `DropDuplicate`, `Record`, `ShortCircuit`, `StartTurn`, `Settle`, `FileOutcome` are the stretches of `handleInternal` between awaits; `WindowPasses` is time, `Requeue*` an operator, `StartSources`, `Attach`, `Recover*`, `GoLive` the boot of an agent, `Stop`, `Drained` and `Crash` the end |
| `EventLedger` | nothing of the code: what the event path promises | `EventDispatch` implements it (`Ledger`, property `KeepsLedger`): `row` is its outcomes, `runs` its turns, the ids with a DLQ row its dead letters, `aged` its old events; caches, dispatches, agents and restarts are not seen |
| `PinnedSessions` | the `skill` target of `dispatcher.ts` with `runForSession`, the loop of `engine.ts`, the transcript of `session/sqlite.ts` | `stored` is the messages table, `handle` the `messages` array of the SessionHandle a dispatch holds, `chain` the promise chain of `sessionChains`, `turn` the counters of the loop.  `Resolve`, `Create`, `Refuse`, `Enqueue` are `executeTarget`; `Begin`, `Ask`, `Answer`, `NextBlock`, `LastBlock`, `CutOff`, `ProviderFails`, `Finish` are `runAgent`; `Crash` |
| `Conversation` | nothing of the code: what pinned sessions promise | `PinnedSessions` implements it (`Talk`, property `KeepsConversation`): `stored` is what was said, a turn is open while its dispatch is inside `runAgent` and closed by the outcome `dispatched`; handles, chains and waiting are not seen |
| `Mailbox` | `mailbox.ts` in several processes on one file | `DrainSelect` and `DrainMark` are the two statements of drainFor, `Deliver` the append of engine.ts, `Restart` a crash |
| `CircuitBreaker` | `circuit-breaker.ts` with overlapping callers | `Admit` = allow(), `Finish` = record(), `Operator` = trip()/reset(), `TimePasses` = the cool-down elapses; the transition happens in `Read`, as in the getter |
| `ConcurrencyLimiter` | `concurrency.ts` | `Acquire`, `Release` with its synchronous hand-over |
| `SourceIntake` | `base-source.ts` handleMessage + `bus.ts` pressure, composed with `ConcurrencyLimiter` (`Slots`) and `CircuitBreaker` (`Fuse`) by INSTANCE | `pc` is where each handler waits, `pendingAcks` the after-dispatch table, `reasons` the pause set, `over` the pressure flag; `waits` distinguishes the bus subscriber of up-cli.ts, which awaits the dispatch, from dispatcher.attach, which does not |
| `SourcePause` | doPause/doResume of AMQP (ordered replies) and NATS, seek | `PauseFor`, `ResumeFrom` and `Seek` run to their await, `Reply` resolves a broker call and `Refused` rejects it; `ChannelCloses` and `ConsumerEnds` are the broker's doing, which the code only logs; a command may start before the previous one resolved |
| `KafkaSource` | `source-kafka/src/instance.ts`, `client.ts` under kafkajs | `committed`, `position`, `attemptCounts`, `producer`, and `kind`, what the normaliser makes of a message; `Fetch`, `Normalize`, `Publish`, `Ack`, `Failure`, `SendToDLQ` (which may fail), `FailAck`, `Rebalance`, `Seek`, `Crash` |
| `RpcCorrelation` | `pending-registry.ts`, `request-agent.ts`, the response side of `agent-inbox.ts`, `respond.ts`, `memory-transport.ts` | `entries` is the Map, `elders` its insertion order, `promise` what register() returned, `phase` where execute() waits; `Start`, `PublishReturns`, `PublishFails`, `Return`, `Timeout`, `Abandon`, `Deliver`; `Unhandled` is a rejection before execute() listens |
| `McpSupervisor` | `mcp/supervisor.ts` over `stdio-client.ts`, composed with `CircuitBreaker` (`Fuse`) by INSTANCE | `status` is the state machine, `client` the installed client, `server` what runs behind each client and whether it is of the current generation, `loop` the running restart pipelines, `call` the tool calls; `InitFails` is an initialize() that rejects (its connection is closed), `InitMalformed` an answer that cannot be parsed (it is not); one action per timer, per reply of a server, per exit and per operation |
| `AuditExport` | `audit/exporter-loop.ts`, the cursor of `sqlite-sink.ts`, `backpressure.ts`, their start and stop in `up-cli.ts` | per loop `pc` is where its tick awaits, `timers` its unfired timers (`named`: one of them is the timer `stop` can clear), `paused`, `failures`; `cursor` is the shared row of the table; `gate` and `watch` are the back-pressure poller |
| `ShippedLog` | nothing of the code: what an export promises | `AuditExport` implements it (`Log`, property `Shipping`), with `cursor` as the position |
| `AuditChain` | record, erase, prune of `sqlite-sink.ts` and the walk of `chain-verify.ts` | `Read` and `Insert` are record() before and after its await; a hash is the pair it digests |

`EventDispatchScopes`, `EventPartsMC`, `SourcePartsMC` and `TurnPartsMC` put several
instances into one run: an event of the initial state chooses the part, and a
behaviour is one of that part while the others stand still, so the state space
is the sum of the parts' and not their product.  The parts share no state in the
code either, but for the calls that the single modules model.  The other
`...MC` modules hold what TLC needs beyond a cfg (symmetry sets, constant
functions, bounds).  `...Proofs` modules hold theorems.  Definitions named
`...Faulty` are the mutants and are no part of a specification.

## 3. What the runs check

Where the code has several configurations (ack strategy, with or without a
breaker, AMQP or NATS, retry budget, transport, resubmission, exit hooks) Init
chooses one, so a run covers all.

| Run | Bounds and why | Shows |
|---|---|---|
| `EventDispatch` | scope *dedup*: 2 arrivals that may share a key or be redelivered, 1 clone, 1 crash or stop (a duplicate needs two arrivals, a stale cache one restart), rows that leave the window; scope *recovery*: 1 arrival and 2 clones, 2 crashes, 1 failing write, 1 erasure (a second recovery of an event needs two boots); scope *operators*: 1 arrival, 2 clones, 2 operators, who can then have the same dead letter in hand; scope *fleet*: 2 agents (one that works and one that boots), 1 arrival, 1 operator, 2 clones or 1 clone and a crash or stop | no key runs twice in its window, every step keeps the `EventLedger` (also with two operators, and with two agents until a boot sweeps up a row in flight), every pending row has an owner, an event is recovered at most once |
| `EventParts` | *dispatch*: 1 agent, 1 arrival, 2 clones so that a clone can itself be requeued, 1 operator, 1 crash, fair; *intake*: 2 messages for 1 slot, thresholds 2/1, water marks 1/0, 1 retry, 1 crash, 1 failing ack, 1 failing DLQ write, fair: one message waits while the other runs | DLQ and outcomes agree in both directions (`DlqIsRejected`), the `EventLedger` is kept with operators at work: a dead letter is struck off after a copy has been settled; slots return on every path and the semaphore's own invariants survive (`IntakeSound`), acked messages were handled, pause reasons have a cause; every event, requeue and message settles (`AllSettle`) |
| `SourceParts` | *breaker*: 3 callers, thresholds 3 and 2, 2 operator calls, fair: two late outcomes beside a current one; *pause*: 3 reasons, 2 broker calls in flight, 8 consumers ever opened (a tag is only compared with the present one), any number of refusals, lost consumers and closed channels; *kafka*: 2 partitions of 2 messages, of which only the first mixes kinds (`FewKinds`: offsets of one partition interact, partitions only through the one handler), budgets 0 and 1, at most two (`MaxMishaps`) of a failing commit or dead-letter send, rebalances, seeks and crashes, fair | no opening is cut short, probes are counted afresh, a healthy target ends in closed; with each command awaited the transport consumes iff no reason is left, with one consumer, unless the transport refused or took it, and in any case a handle stands for a consumer (`FlowFollowsReasons`); a message below the committed offset was published, dead-lettered, filtered, nacked, passed by a seek, or its dead letter was not written, a redelivery has a cause (`OffsetsHaveCause`), the offsets reach the end |
| `TurnParts` | *session*: 3 events on 2 keys, 2 iterations of up to 2 calls, at most 2 responses with calls (`MaxRounds`) and 1 turn cut short or crash (`MaxMishaps`): one turn runs, one waits, one comes late; *mailbox*: 2 processes, 2 agents, 3 messages, 1 restart, 1 failing append.  Events and messages, keys, agents and processes are the same model values, so that one permutation is a symmetry of both | a turn has the whole conversation and a lock is always with a live turn (`SessionLock`), the sessions implement `Conversation`: turns never interleave, results answer the calls before them, what was dispatched is not put again; the session accumulates; what a turn has seen is never pending again, and with drains of one process at a time it is delivered once and nothing is lost (`HandedOverOnce`), depth right |
| `RpcCorrelation` | 3 turns, 2 of one cause (hence one id), capacity 1, 1 fault, sync and async, broker and memory, fair: one call waits, one shares its id, one evicts | a promise is pending iff it has an entry, answers follow ids, every call over a broker returns |
| `McpSupervisor` | 2 calls, 3 clients at once, 2 restart pipelines, thresholds 2, 1 boot that leaves its server behind (`MaxBootFaults`: at tools/list or at a malformed answer to initialize), 1 hang, any number of crashes while servers are unhealthy, fair; `Tame`: once two pipelines overlap, one call and no further kind of fault | only a serving client of the current generation is called, no process is left behind but by the boots and overlaps that `NoStrayServer` names, stop() leaves no call, a call is sent twice only by a supervisor that resubmits, and once servers work a caller is served |
| `AuditExport` | 2 loops on one cursor, one of them gated, batches of 2, 2 failures to pause, 2 rows, 2 mishaps or commands of any kind (`Tame`), fair: one loop is stale while the other moves the cursor | the loops implement `ShippedLog`; a loop that is not stopped never falls asleep, nothing runs behind a closed sink, rows are shipped and the gate reopens |
| `EventDispatchRequeueRoutes` | refuted | a requeued clone of a triggered event is rejected as a loop |
| `KafkaSourceSwallowed` | refuted | with a retry budget, the base class catches the error that was to make kafkajs redeliver, and the next success commits past the message |
| `PinnedWaits` | refuted | the event that waited for a session's lock runs on a handle built before it waited, and its first append is refused |
| `McpSupervisorOrphan` | refuted | a first boot that fails starts a second restart pipeline; the one left over tears down a healthy client and a tool call stays pending for ever |
| `AuditChain` | refuted | two record() calls whose digests overlap break the chain |

"Refuted" runs find the disagreement that `findings` quotes; the finding says
which line of the repository claims the property.  Deadlock is not checked where
every message, clone or restart may be used up; the supervisor and the export
loops never stop by themselves, and there it is.

History variables record that an excused thing happened (`overlapped`, `sought`,
`nacked`, `unlettered`, `jumped`, `failed`, `swept`, `writers`, `shared`, `cut`, the counters of crashes and faults).
No guard of an action reads one except to keep a bound; a property that names
one says: but for this, it holds.  Section 4 says why each excuse is needed.

## 4. What the excuses stand for

The properties hold with the conditions they state.  Without them the code
disagrees with its own documents; each item names the condition and the line that
says otherwise.

*Event path* (`EventDispatch`)
- `swept` in `KeepsLedger`, `OutcomeIsFinal` and `DlqIsRejected`: the boot of a fleet's later agent
  lists the pending rows of the shared store, those of running agents among them.  Recovery
  marks each `interrupted` whatever it has become and dispatches a copy, so an event whose
  turn is running, or done, runs again, and its outcome is written over, by either.  No crash is needed:
  it takes an event in flight at one agent while the next boots.
  `up-cli.ts:1411-1414` takes the snapshot for "events left pending (outcome=NULL) by a prior
  crash/SIGKILL" and puts it before the subscription "so a freshly-arrived event can't be
  momentarily-pending and double-dispatched".  `OneRunPerKey` holds all the same, because a copy is
  an event of its own and has no key; so do `RecoveredAtMostOnce` and `PendingIsOwned`.
- `aged` in `OneRunPerKey` and `old` in the `EventLedger`: `findDuplicate` asks for a key only among rows
  with `ts >= Date.now() - dedupWindowMs` (`store.ts:350-352`, 24 hours unless configured).  A key that
  comes again later, with its cache entry gone, runs again, which is what a window is for;
  an id is never taken twice.
- Constant `Overlap`: the dedup check awaits `store.findDuplicate` before the event is
  remembered or recorded, so two same-key arrivals whose checks overlap both run.
  `docs-site/docs/cookbook/oncall-escalator.mdx:59`: duplicates in the window
  "are dropped at ingress".
- `OneRunPerKey` counts runs of one key, and a recovery clone has no key: `stopAll` closes
  the database before it drains, so the outcome of a turn that ends in the drain is
  not stored (a failing write, for `Undisturbed`) and the next boot runs the event again.
  `docs/PRODUCTION_READINESS_PLAN.md:93`: "drains with no orphan NULL rows".
- Two agents whose sources get the same message are redelivery to the model (`Redeliver`): one
  store means that one of them handles it.
- Recovery clones keep their source and causedBy, so one of a triggered event is
  rejected as a loop, like the requeued one.  `events/recovery.ts:18-20`: the dispatcher
  "actually routes it".
- `StrikeOff` of the `EventLedger` wants at least one settled copy, and `Mint` allows any number
  of copies of a rejected event: the row is deleted after the turn, so two operators both run it.
  `docs/ENTERPRISE_PRODUCTION_PLAN.md:165`: "requeuing the same id twice is a no-op".
- `PendingIsOwned` starts at `Subscribed`: sources publish before the dispatcher
  subscribes.  `events/recovery.ts:12`: recovery runs "BEFORE sources start binding".

*Pinned sessions*
- `Accumulates` is about events outside `shared`: of two that are in flight together,
  both may miss the key, and the second createForKey violates the primary key of
  session_keys (outcome `pin-taken`; `session/sqlite.ts` takes that for "a programming-error
  guard" because "the dispatcher always resolves first"), or one waits with an old
  handle (outcome `stale`, run `PinnedWaits`).
- `cut` in `Conversation`: a throwing hook or prompter, the spend cap, a response cut off at max_tokens
  and a crash leave tool calls without results in a transcript that later events
  send again.  `hooks/registry.ts:75-76` has the engine treat a hook's error "as a tool error
  so the model still sees a response"; the engine's outer catch ends the turn.

*Circuit breaker*
- `OpenUntilCooled` does not say that a probe closes the breaker, nor that there is one
  probe: every call is admitted while half-open, and a success of a call admitted
  before the outage counts.  `docs/archive/PHASE_4_PLAN.md:517`: "a single probe fires";
  `circuit-breaker.ts:137`: a success while open is "unreachable".
- `operations = 0` in `FreshProbes`: trip() of a half-open breaker keeps the successes
  (nothing calls trip() yet).

*Mailbox*
- `overlapped` in `HandedOverOnce`: drainFor selects and tombstones in two
  statements, so two processes can both take a message, or one tombstone what it
  never read.  `mailbox.test.ts:65`: "tombstones prevent re-delivery".
- `restarts` and `faults` in `HandedOverOnce`: messages are tombstoned before they are appended to
  the session.  `mailbox.ts:8-9`: "survives daemon restarts".
- `writers` and `restarts` in `DepthIsPending`: a send of an uncached agent starts the cache at 1
  whatever is queued, and no process sees another's changes.  `mailbox.ts:86-88`: "staying in sync".

*Sources* (`SourceIntake`, `SourcePause`, `KafkaSource`)
- `~hasBreaker` in `EveryMessageSettles`: only a message half-opens the breaker, and the
  source it paused gets none.  `docs/archive/PHASE_4_PLAN.md:517`: "on success, `resume()`".
- `~(hasHooks /\ after-dispatch)` there: an outcome that lands before
  `registerPendingAck` acks nothing, and the message is redelivered after a timeout.
  `events/types.ts:397`: "acks pending messages when the dispatcher's outcome lands".
- `dlqFaults = 0` in `AckedIsHandled`: a failing DLQ write is logged and the message acked.
  `docs/SPEC_AND_PLAN.md:100`: "At-least-once delivery is default for every source".
- `overlapped` of `SourcePause`: a command that starts before the previous reply acts on a stale
  consumerTag; the source can stay deaf, consume while paused, or leak a consumer.
  `base-source.ts:126-127`: overlapping signals do not "pause/resume twice".  What holds there
  too is that a handle stands for a consumer, so the next resume of a deaf source opens one.
- `failed` of `SourcePause`: a consume that is refused rejects resumeFrom(), after the reason has gone;
  its listeners log that (`base-source.ts:443-448`, `475-480`) and nobody tries again.  A consumer the
  broker cancels, a NATS consume loop that ends and an AMQP channel that closes leave a handle
  without a consumer.  Either way the source is deaf without a reason, until it is paused and resumed, or
  for good once the AMQP channel has closed, as nothing opens another.
- `sought`: seek() on a paused NATS source ends in doResume().
- `unlettered` of `KafkaSource`: the consumer runs before the DLQ producer is connected, and a
  producer.send that rejects is logged by `base-source.ts:404-414`; the ack follows in either case.
  `source-kafka/src/config.ts:28-29`: only an unset dlq is "log-and-drop".
- `jumped` of `KafkaSource`: seek() forward (an offset, the end, a time stamp) passes messages because it was
  asked to.  A filtered message is acked without being published, which is what a filter is for.

*Agent RPC*
- `NoLostWaiter` allows an eviction: the registry makes room by failing the oldest live call.  `pending-registry.ts:109-110`: "Reject eagerly on overflow rather than
  silently evicting a live request."
- `transport = "broker"` in `EveryCallReturns`: the memory transport's publish lasts as long as
  the peer's handler, and a timer that fires meanwhile rejects a promise nobody
  listens to yet (action `Unhandled`, which ends the process).
  `docs/AGENT_RPC_PLAN.md:26`: "returns `ok | error | timeout`".
- `AnswerHasId` says that an answer carries the call's id, not that it answers the call:
  the id is derived from the turn's cause, so the late answer to a call that
  timed out settles the retry of it in the same turn.  `request-agent.ts:166`: "Returns the
  peer's response".
- Async calls register nothing, so their response is dropped as stale;
  `docs/AGENT_RPC_PLAN.md:27` has it land on the bus.

*MCP supervisor*
- `overlapped` in `ReadyIsServing`, `NoStrayServer`, `ResentAfterLoss` and `Served`: two restart pipelines
  at once (run `McpSupervisorOrphan`).
- `bootFaults` in `NoStrayServer`: a tools/list that fails leaves the fresh client
  (`supervisor.ts:964`); an answer to initialize that cannot be parsed, or a notification that cannot be
  sent, throws outside the try that closes the connection and before anybody watches it
  (`stdio-client.ts:174-188`).  Nobody owns the server process after either.
- `stopped` in `NoStrayServer`: stop() during a boot sets `stopped`, and the boot then goes on to spawn
  and calls setState once more.  `supervisor.ts:158`: "Terminal".
- `hangs = 0` in `Served`: the ping is a cached initialize(), so a server that stops answering is
  never found out; its calls wait for their own time-outs.
- `mcp-runtime.ts:397` gives up on a slow first boot and leaves that supervisor running, unregistered.

*Audit*
- `RowsShip` and `GateReopens` except paused loops.  A permanent failure pauses a loop at
  once.  `audit/exporters/exporter.ts:72`: "permanent failure; loop pauses" after 5 consecutive ones.
- The cursor is named by the exporter; two exporters of one kind and no name share it.
  Each row then reaches one of the vendors, which `delivered` does not tell apart.
- verify(tenantId) filters one tenant's rows out of a chain that is global
  (`audit/types.ts:363`): `Verifies` is about the whole table.
- `erase` between the query and the push of a tick exports what was to be erased.

*Hazards without a property of their own*, because of what the modules leave out or
because the code has no answer to them to state: sources that publish before the
dispatcher subscribes (`up-cli.ts:1144`, `PendingIsOwned` starts there); the duplicate window
between `findDuplicate` and the record (`dispatcher.ts:419`, constant `Overlap`); an outcome that lands before
the message is registered (`base-source.ts:355`); the source its breaker paused
(`base-source.ts:432`); a resume that overtakes a cancel (`source-amqp/src/instance.ts:193`); the ping of a hung
server (`supervisor.ts:686`); messages that arrive while doStart connects the Kafka producer (`unlettered`);
tool calls that a cut turn leaves unanswered (`engine.ts:688`, `cut`).  The sweep of rows in flight
(`up-cli.ts:1415`, `swept`) has properties that hold in spite of it, and none that it breaks.

## 5. Fairness

Only weak fairness, and only of what the runtime runs by itself: settled promises
resume their awaiter, timers fire, started handlers and boot code go on, a supervisor
restarts the process and stopAll goes on to the next agent (`EventDispatch`), the broker keeps delivering (`SourceIntake`,
`KafkaSource`), events keep arriving (`CircuitBreaker`, whose transition needs a reader),
a server that works answers and callers keep coming (`McpSupervisor`), a push
returns (`AuditExport`: fetch has a time-out).  `EventPartsMC` states the fairness of its parts action
by action; it is that of `EventDispatch` (in behaviours in which nobody erases an
event meanwhile) and of `SourceIntake`.
Nothing is assumed of operators, peers or faults, except that an engine turn ends (it
has an iteration cap and provider timeouts) and that a broker client's publish ends.
Crashes and faults are bounded by constants because a system that crashes for
ever promises nothing.

## 6. What is proved

Every safety property and every action property that a passing run checks is also a
theorem, for every value of the constants that the named assumption of its module
allows.  Each follows the same argument: an inductive invariant, one lemma per action
or group of actions, then PTL.  A proof module extends the module that the run
instantiates, so that both speak of the same definition; where a run puts several
parts side by side, each part is proved of its own specification (`Kafka!Spec`,
`Pause!Spec`, `Mail!Spec`, `Intake!Spec`), and `PartsTyped` of the run's.  The
assumptions say what the constructors of the code enforce (positive thresholds and
limits), that sentinels are no values, and that the sets counted are finite.

- `EventDispatchProofs`, for any number of agents: `TypeCorrect`; `PendingAlwaysOwned` (the invariant is inductive with
  "a busy dispatch has an id"); `RecoversOnce`, from `RecoveryParts`: one agent boots at a time, the
  recovery loop is that agent's, a marked row is terminal and off the worklist, a recovery clone means its original is
  terminal and recovery is done with it, and of the rows recovery has claimed a dispatch holds only those
  that were swept up.  Without the clause on clones a second boot could clone again.  `LedgerKept` is the refinement of `EventLedger`: initial states map to initial
  states and every step to a step of the ledger or a stutter, until a write fails or something is
  erased.  Its invariant adds that a turn under way was counted and that an event an operator
  has in hand stays rejected.  That outcomes are final and that a requeue is acknowledged after its
  run (`OutcomesStay`, `RequeueRuns`) follow from it and are also proved directly.  With
  `RunsOnce` and `DlqAgrees` they share one invariant, `LedgerParts`: one dispatch at a time is in the duplicate check and what it found
  new still is; two recorded events are never the same work; a dispatch past the
  check has the only pending row of its event; a dead letter belongs to a
  rejected row; and the clone a requeue waits for is on its way or done.  Their
  hypothesis `~Overlap`, which the runs share, excludes the overlap of section 4: two arrivals
  that are both between `findDuplicate` and the record are both new.  `Undisturbed` (in the properties) leaves out
  failing writes and erasures, after which a row says less than what happened.  Each part of
  `LedgerParts` that speaks of outcomes speaks of rows outside `swept`, and `SweepsNeedFleet` shows that `swept` is empty in a
  process of one agent, since whoever works is an agent that is up, and there is no other when it boots: the hazard belongs to fleets.
- `EventPartsProofs`: `SourceSound`, `NothingDropped`, `PausedForCause` of the source base class, for every
  strategy and wiring.  `IntakeInv` has the state of a slot determined by the
  handler's place, with the limiter's invariant cited from `ConcurrencyLimiterProofs` by
  INSTANCE; and, per message, what is known at each place: only before-publish acks a message
  whose handler goes on, a registered message has no handler, and a handler past
  a publish that waits has its dispatch behind it.  Without these an ack could be
  early at `postack` or come twice.
- `SourcePartsProofs`: of the breaker `AlwaysBudget`, `StaysOpen`, `ProbesStartFresh` (the last until the
  first operator call).  Of AMQP and NATS `PausedExactly`: while commands do not
  overlap, a source is in one of four phases (settled, cancelling, restarting, consuming), each of which says
  which calls are under way, whose tag is held and which consumers exist, unless the transport took
  them.  Whatever overlaps, a held tag names a consumer that exists or was taken.  Of Kafka
  `OffsetsAreCaused`, from the invariant that everything below the offset kafkajs fetches
  next has a cause (filtered, nacked, jumped and unlettered among them), and that a message still ahead was published at most once per
  fault or upset.  `WithoutRetriesNothingSkipped`: with a budget of 0 nothing is skipped but for
  the filter, a seek or a dead letter that was not written, which
  puts the fault of run `KafkaSourceSwallowed` on the swallowed nack.
- `ConcurrencyLimiterProofs`: `SlotsAlwaysCounted`, `NeverIdleSlot`, `ServedInOrder`, from
  the invariant that the queue lists exactly the waiting handlers, once each.
- `TurnPartsProofs`: of the pinned session `LockSerializes`, inductive with "the chain of a key lists
  exactly the dispatches that are queued or run, each once, the running one in
  front" and "a handle is a prefix of its session": whoever runs then has all of
  it, because the first append fits only a whole prefix and nobody beside it
  appends.  `EveryCallAnswered` adds that who runs tools has its calls at the end of its
  session.  `ConversationKept` is the refinement of `Conversation`, with both and what the last word
  of a session is at each place of a turn, that the calls being run are not cut, and that who is in
  flight has no outcome; `SessionAccumulates` that an event which met no peer is alone, so that its handle is
  up to date and its key unpinned if it missed it.  Of the mailbox `HandedOver` and `DepthInSync`: an
  undisturbed drain returns what it tombstones, what is held is tombstoned, so no later drain
  reads it, and the only sender has an entry for every agent it has sent to.  That a cached depth
  and a number of deliveries have bounds at all (`TypeOK`) needs counting: a message is
  sent once, and each process has it in hand once.
- `McpSupervisorProofs`: `ReadyServes`, `NothingStray`, `StoppedLeavesNoCall`, `ResentAfterTeardown`.  The invariant says, as
  long as no two restart pipelines have run at once (`overlapped`, a finding about the code): the running
  pipeline is the only one, the breaker is not open meanwhile, after its drain there is no
  installed client and hence no open call, and no server is stray that a failed boot did not leave.  `StopLeavesNoCall` holds
  with overlapping pipelines too.  `OrphansNeedOverlap`: until pipelines overlap no call is orphaned, because
  a drain covers every call in flight (it began with them, and none is let through meanwhile) and
  rejects those it did not see settle; run `McpSupervisorOrphan` needs the overlap.
- `RpcCorrelationProofs`: `TypeCorrect`; `NobodyIsForgotten`, inductive as it stands
  with typing; `AnswersMatchIds` for every assignment of ids; and its corollary
  `FreshIdsSuffice`: if no two calls share an id, every call gets its own answer.
  It locates the late answers of section 4 in the choice of the id, not in the
  registry.
- `AuditProofs`: `TypeCorrect`; `NeverAsleep` and `QuietWhenClosed`, about timers against ticks, resume() and stop();
  and `ShipsTheLog`, the refinement of `ShippedLog`: initial states map to initial states and
  every step to a step or a stutter, because a row up to a tick's `since` plus its acked
  size was delivered, and the cursor only takes the larger value.  Of the chain `InTurnVerifies`: while record() calls
  take turns, verify() finds nothing, whatever is erased or pruned.  It locates the fault of run
  `AuditChain` in the overlap alone.

Model-checked only: all liveness (`AllSettle`, `BreakerRecovers`, `EndCommitted`,
`EveryCallReturns`, `Served`, `RowsShip`, `GateReopens`): fairness and ENABLED are out of the prover's
reach.  The properties of the runs that expect a violation are false of the code
and stay with TLC's counterexample; for three of them a theorem says under which condition
they hold (`WithoutRetriesNothingSkipped`, `OrphansNeedOverlap`, `InTurnVerifies`), and for `WaitingTurnRuns`
`SessionAccumulates` does, of events that share no time with another of their key.

## 7. Not modelled

`PROJECT.json` gives the reason per component.  In the modelled ones: the
before-dispatch hook of the dispatcher; vacuum of the store, which nothing calls (rows stay); the boot of an agent
that fails, after which `up` stops the others (an agent's drain deadline is modelled: `Stop` of the next agent does not
wait for the dispatches of the one before, and that of the last is a `Crash`); abort signals,
sub-agents, permission rules and quotas of the engine; ledgers and tenants of
sessions; stop() and health of sources; redriveDLQ of Kafka; matching of bus
patterns; fire-and-forget and schema checks of RPC; the rate bucket and the pending
table of the MCP clients; the vendors' wire formats and the adaptive interval of the
exporter.  Payloads are data no property tells apart.  Three facts about the
present wiring matter when reading results: no shipped adapter passes
circuitBreaker or busPressure options, the sources of up-cli.ts get no hook
registry, so their `after-dispatch` strategy acknowledges at once (SourceIntake checks
the base class with each of them on and off), and the back-pressure controller
is exported but nothing in the repository creates one (`Gated` may be empty).

## 8. Plan

1. *Extension.*  `ChannelOutbound` (send-idempotency, rate limiter, retries, refining an
   at-most-once send; the bridge is exported and not yet wired by the CLI);
   `TenantQuota` and `RateLimiter` with integer tokens; `SqsSource` (visibility renewal) and MQTT's QoS;
   abort and sub-agents in the turn; the secrets cache against a rotation.  Bounds as above: two of
   each actor, one or two faults.
2. *Proof.*  The theorems of each new module.
