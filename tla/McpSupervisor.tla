--------------------------- MODULE McpSupervisor ---------------------------
(***************************************************************************)
(* packages/core/src/mcp/supervisor.ts over the client of                    *)
(* packages/core/src/mcp/stdio-client.ts: one MCP server kept alive by       *)
(* restarts with backoff, a circuit breaker (module CircuitBreaker), pings,  *)
(* and a drain of the tool calls in flight before a client is replaced.      *)
(*                                                                         *)
(* One action is the code between two waits for a timer or for the server;   *)
(* microtasks run before either (queueMicrotask in onExit and scheduleProbe, *)
(* the hop from setState('ready') to resubmitStashedCalls).  The generation  *)
(* counter is only compared for equality, so each client carries one bit:    *)
(* was it built in the current generation?                                   *)
(***************************************************************************)
EXTENDS Naturals, FiniteSets

CONSTANTS
  Calls,
  MaxServers,        \* bound: clients that exist at the same time
  MaxLoops,          \* bound: restart pipelines that run at the same time
  CircuitThreshold,  \* circuitThreshold: boots per give-up, give-ups to open
  PingThreshold,     \* pingFailureThreshold
  Resubmits,         \* values resubmitOnRespawn may have
  Hooks,             \* values of: the clients report their exits (stdio does,
                     \* the HTTP and SSE clients of mcp-runtime.ts do not)
  MaxBootFaults,     \* bound: boots that leave their server behind
  MaxHangs           \* bound: servers that stop answering

ASSUME SupervisorAssumption ==
  /\ {MaxServers, MaxLoops, CircuitThreshold, PingThreshold} \subseteq Nat \ {0}
  /\ {MaxBootFaults, MaxHangs} \subseteq Nat
  /\ Resubmits \subseteq BOOLEAN /\ Hooks \subseteq BOOLEAN

VARIABLES
  resubmit,    \* resubmitOnRespawn of this supervisor
  hooks,       \* its factory's clients call the lifecycle hooks
  status,      \* state
  stopped,
  state, failures, successes, cooled,   \* CircuitBreaker, successThreshold 1
  client,      \* the installed client, or None
  server,      \* the clients: what runs behind each, and of which generation
  loop,        \* the restart pipelines: drainThenRespawn and runRestartLoop
  call,        \* call -> where it is, the client it was sent to, times sent
  pings,       \* pingFailures
  healthy,     \* does a server that is asked now work?
  bootFaults, hangs,
  overlapped   \* two restart pipelines have been running at once (history)

built   == <<resubmit, hooks>>
breaker == <<state, failures, successes, cooled>>
budget  == <<bootFaults, hangs>>
vars    == <<built, status, stopped, breaker, client, server, loop, call, pings,
             healthy, budget, overlapped>>

Fuse == INSTANCE CircuitBreaker WITH
  Callers <- {}, FailureThreshold <- CircuitThreshold, SuccessThreshold <- 1,
  MaxOperations <- 0, operations <- 0, call <- <<>>

Servers == 1 .. MaxServers
Loops   == 1 .. MaxLoops
None    == 0

NoServer == [life |-> "none", current |-> FALSE]
NoLoop   == [pc |-> "none", first |-> FALSE, attempt |-> 0, server |-> None,
             active |-> {}, cut |-> FALSE]

Registered == {c \in Calls : call[c].at \in {"open", "deferred"}}   \* inFlight
\* A call sent again was registered by an earlier generation.
InFlight   == {c \in Calls : call[c].at = "open" /\ call[c].sent = 1}
OpenOn(s)  == {c \in Calls : call[c].at = "open" /\ call[c].on = s}
Out(c, at) == [call[c] EXCEPT !.at = at, !.on = None]     \* no request of it runs
Running    == {l \in Loops : loop[l].pc # "none"}
FreeLoop   == {l \in Loops \ Running : \A m \in Loops \ Running : l <= m}
Booting(s) == \E l \in Loops : loop[l].server = s
FreeServer == LET free == {s \in Servers \ {client} : server[s].life = "none" /\ ~Booting(s)}
              IN {s \in free : \A t \in free : s <= t}

\* No microtask is left: those of a drain with nothing to wait for, and of the
\* catch of a failed boot, run before the next timer or message.
Due(l) == loop[l].pc = "drain" /\ (loop[l].cut \/ loop[l].active \cap Registered = {})
Quiet  == \A l \in Loops : loop[l].pc # "caught" /\ ~Due(l)

\* start(): the initial connect is the first attempt of a restart loop.
Init ==
  /\ resubmit \in Resubmits /\ hooks \in Hooks
  /\ status = "starting" /\ stopped = FALSE
  /\ state = "closed" /\ failures = 0 /\ successes = 0 /\ cooled = FALSE
  /\ client = None
  /\ server = [s \in Servers |-> NoServer]
  /\ loop = [l \in Loops |-> IF l = 1 THEN [NoLoop EXCEPT !.pc = "sleep", !.first = TRUE]
                                ELSE NoLoop]
  /\ call = [c \in Calls |-> [at |-> "idle", on |-> None, sent |-> 0]]
  /\ pings = 0
  /\ healthy \in BOOLEAN
  /\ bootFaults = 0 /\ hangs = 0
  /\ overlapped = FALSE

-----------------------------------------------------------------------------
(* Restart triggers *)

NoteOverlap == overlapped' = (overlapped \/ \E l, m \in Loops :
                 l # m /\ loop'[l].pc # "none" /\ loop'[m].pc # "none")

\* triggerRestart, the loops being `base' when it is called; `cut' says that
\* the probe its own look at the breaker schedules finds it draining.
Trigger(base, cut) ==
  \/ /\ stopped \/ status = "reconnecting"
     /\ loop' = base /\ UNCHANGED <<status, breaker>>
  \/ /\ ~stopped /\ status = "draining"      \* cancelActiveDrain
     /\ loop' = [l \in Loops |-> [base[l] EXCEPT !.cut = @ \/ base[l].pc = "drain"]]
     /\ UNCHANGED <<status, breaker>>
  \/ /\ ~stopped /\ status \notin {"reconnecting", "draining"} /\ ~Fuse!Allows
     /\ status' = "circuit-open"
     /\ loop' = base /\ UNCHANGED breaker
  \/ /\ ~stopped /\ status \notin {"reconnecting", "draining"} /\ Fuse!Allows
     /\ Fuse!Read
     /\ status' = "draining"
     /\ \E l \in FreeLoop : loop' = [base EXCEPT ![l] =
          [NoLoop EXCEPT !.pc = "drain", !.active = InFlight, !.cut = cut]]

\* Faulty variants, named ...Faulty, stand before the definition they vary.
\* They are not part of the specification: each is a bug its property catches.
\* The lifecycle hooks are not wired.
ExitFaulty(s, base) == loop' = base /\ UNCHANGED <<status, breaker>>

\* The onExit hook of client s, its loops being `base': a client of an earlier
\* generation is not listened to any more.
Exit(s, base) ==
  \/ hooks /\ server[s].current /\ Trigger(base, state # Fuse!Seen)
  \/ ~(hooks /\ server[s].current) /\ loop' = base /\ UNCHANGED <<status, breaker>>

-----------------------------------------------------------------------------
(* The restart pipeline *)

\* The dying client is not shut down.
NextGenerationFaulty == [s \in Servers |-> [server[s] EXCEPT !.current = FALSE]]

\* generation += 1, and the installed client is torn down.
NextGeneration == [s \in Servers |->
  IF s = client THEN NoServer ELSE [server[s] EXCEPT !.current = FALSE]]

\* The end of the generation is not signalled to the calls.
HandoverFaulty(c, overflow) ==
  IF c \in overflow /\ ~resubmit THEN Out(c, "failed") ELSE call[c]

\* What the end of a generation does to a call: what the drain did not see
\* settle is rejected, or kept for the next client; a call sent again dies with
\* the connection it was sent on.
Handover(c, overflow) ==
  IF c \in overflow /\ ~resubmit THEN Out(c, "failed")
  ELSE IF c \in InFlight THEN Out(c, "deferred")
  ELSE IF c \in OpenOn(client) THEN Out(c, "failed")
  ELSE call[c]

\* drainThenRespawn once the calls it waits for are settled, the window is over
\* or the drain is cut short.
Respawn(l) ==
  /\ (Quiet \/ Due(l)) /\ loop[l].pc = "drain"
  /\ client' = None
  /\ server' = NextGeneration
  /\ call' = [c \in Calls |-> Handover(c, loop[l].active \cap Registered)]
  /\ status' = "reconnecting"
  /\ loop' = [loop EXCEPT ![l] = [NoLoop EXCEPT !.pc = "sleep"]]
  /\ UNCHANGED <<built, stopped, breaker, pings, healthy, budget, overlapped>>

\* The backoff is over: a fresh client begins its handshake.
Wake(l) ==
  /\ Quiet /\ loop[l].pc = "sleep"
  /\ \/ /\ stopped
        /\ loop' = [loop EXCEPT ![l] = NoLoop]
        /\ UNCHANGED server
     \/ /\ ~stopped
        /\ \E s \in FreeServer :
             /\ server' = [server EXCEPT ![s] = [life |-> "booting", current |-> TRUE]]
             /\ loop' = [loop EXCEPT ![l].pc = "init", ![l].server = s]
  /\ UNCHANGED <<built, status, stopped, breaker, client, call, pings, healthy,
                 budget, overlapped>>

\* initialize() answers.
Initialized(l) ==
  /\ Quiet /\ loop[l].pc = "init" /\ healthy /\ server[loop[l].server].life = "booting"
  /\ server' = [server EXCEPT ![loop[l].server].life = "up"]
  /\ loop' = [loop EXCEPT ![l].pc = "list"]
  /\ UNCHANGED <<built, status, stopped, breaker, client, call, pings, healthy,
                 budget, overlapped>>

\* initialize() fails: the client closes its connection, reports init-failed
\* and is out of attempts.
InitFails(l) ==
  LET s == loop[l].server
  IN
  /\ Quiet /\ loop[l].pc = "init" /\ ~healthy
  /\ server' = [server EXCEPT ![s] = NoServer]
  /\ Exit(s, [loop EXCEPT ![l].pc = "caught", ![l].server = None])
  /\ NoteOverlap
  /\ UNCHANGED <<built, stopped, client, call, pings, healthy, budget>>

\* The server's answer to initialize() is malformed: the client throws outside the
\* try that closes the connection, before it watches it.  It reports init-failed,
\* and nobody knows of the server any more.
InitMalformed(l) ==
  LET s == loop[l].server
  IN
  /\ Quiet /\ loop[l].pc = "init" /\ ~healthy /\ server[s].life = "booting"
  /\ bootFaults < MaxBootFaults /\ bootFaults' = bootFaults + 1
  /\ server' = [server EXCEPT ![s].life = "orphan"]
  /\ Exit(s, [loop EXCEPT ![l].pc = "caught", ![l].server = None])
  /\ NoteOverlap
  /\ UNCHANGED <<built, stopped, client, call, pings, healthy, hangs>>

\* listTools() answers and the client is installed: ready, and the calls kept
\* from the generation before are sent again.
Boots(l) ==
  LET s == loop[l].server
      kept == {c \in Registered : resubmit /\ ~loop[l].first}
  IN
  /\ Quiet /\ loop[l].pc = "list" /\ healthy /\ server[s].life = "up" /\ server[s].current
  /\ client' = s
  /\ Fuse!OnSuccess
  /\ status' = "ready"
  /\ loop' = [loop EXCEPT ![l] = NoLoop]
  /\ call' = [c \in Calls |-> IF c \in kept
       THEN [at |-> "open", on |-> s, sent |-> IF call[c].sent < 3 THEN call[c].sent + 1 ELSE 3]
       ELSE call[c]]
  /\ UNCHANGED <<built, stopped, server, pings, healthy, budget, overlapped>>

\* The generation changed during the boot: the fresh client is torn down.
BootIsStale(l) ==
  LET s == loop[l].server
  IN
  /\ Quiet /\ loop[l].pc = "list" /\ healthy /\ server[s].life = "up" /\ ~server[s].current
  /\ server' = [server EXCEPT ![s] = NoServer]
  /\ loop' = [loop EXCEPT ![l].pc = "caught", ![l].server = None]
  /\ UNCHANGED <<built, status, stopped, breaker, client, call, pings, healthy,
                 budget, overlapped>>

\* listTools() fails, by an error of the server or because its transport
\* closed: nobody tears this client down.
ListFails(l) ==
  LET s == loop[l].server
  IN
  /\ Quiet /\ loop[l].pc = "list"
  /\ \/ server[s].life \notin {"up", "hung"} /\ UNCHANGED bootFaults
     \/ /\ server[s].life = "up" /\ ~healthy /\ bootFaults < MaxBootFaults
        /\ bootFaults' = bootFaults + 1
  /\ loop' = [loop EXCEPT ![l].pc = "caught", ![l].server = None]
  /\ UNCHANGED <<built, status, stopped, breaker, client, server, call, pings,
                 healthy, hangs, overlapped>>

\* CircuitThreshold attempts failed: one failure for the circuit, and the end
\* of this loop when that opens it.
GiveUp(l) ==
  /\ Fuse!OnFailure
  /\ IF state' = "open"
     THEN status' = "circuit-open" /\ loop' = [loop EXCEPT ![l] = NoLoop]
     ELSE /\ loop' = [loop EXCEPT ![l].pc = "sleep", ![l].attempt = 0]
          /\ UNCHANGED status

\* The catch of the restart loop.
Catch(l) ==
  /\ loop[l].pc = "caught"
  /\ \/ /\ loop[l].attempt + 1 < CircuitThreshold
        /\ loop' = [loop EXCEPT ![l].pc = "sleep", ![l].attempt = @ + 1]
        /\ UNCHANGED <<status, breaker>>
     \/ loop[l].attempt + 1 >= CircuitThreshold /\ GiveUp(l)
  /\ UNCHANGED <<built, stopped, client, server, call, pings, healthy, budget, overlapped>>

-----------------------------------------------------------------------------
(* The servers behind the clients *)

\* A server dies.  Its connection rejects what is pending; the client reports
\* transport-closed and will restart it, unless it is torn down first.
Crash(s) ==
  /\ Quiet /\ ~healthy /\ server[s].life \in {"up", "hung"}
  /\ ~\E l \in Loops : loop[l].pc = "init" /\ loop[l].server = s
  /\ IF Booting(s) THEN bootFaults < MaxBootFaults /\ bootFaults' = bootFaults + 1
                   ELSE UNCHANGED bootFaults
  /\ server' = [server EXCEPT ![s].life = "lost"]
  /\ call' = [c \in Calls |->
       IF c \in OpenOn(s) THEN Out(c, "failed") ELSE call[c]]
  /\ Exit(s, loop)
  /\ NoteOverlap
  /\ UNCHANGED <<built, stopped, client, pings, healthy, hangs>>

\* A server nobody knows of dies, and nobody hears of it.
OrphanDies(s) ==
  /\ Quiet /\ ~healthy /\ server[s].life = "orphan"
  /\ server' = [server EXCEPT ![s].life = "none"]
  /\ UNCHANGED <<built, status, stopped, breaker, client, loop, call, pings, healthy,
                 budget, overlapped>>

\* The client's own restart of a server it lost: one attempt, which a drain
\* with nothing left to wait for forestalls.
InnerRestart(s) ==
  /\ Quiet /\ server[s].life = "lost" /\ ~Booting(s)
  /\ \/ /\ healthy
        /\ server' = [server EXCEPT ![s].life = "up"]
        /\ UNCHANGED <<status, breaker, loop>>
     \/ /\ ~healthy
        /\ server' = [server EXCEPT ![s].life = "none"]
        /\ Exit(s, loop)
  /\ NoteOverlap
  /\ UNCHANGED <<built, stopped, client, call, pings, healthy, budget>>

\* A server stops answering.
Hang(s) ==
  /\ Quiet /\ ~healthy /\ hangs < MaxHangs /\ server[s].life \in {"booting", "up"}
  /\ server' = [server EXCEPT ![s].life = "hung"]
  /\ hangs' = hangs + 1
  /\ UNCHANGED <<built, status, stopped, breaker, client, loop, call, pings,
                 healthy, bootFaults, overlapped>>

\* Off by one: one failure more than the threshold.
FailedPingFaulty ==
  IF pings >= PingThreshold THEN pings' = 0 /\ Trigger(loop, state # Fuse!Seen)
  ELSE pings' = pings + 1 /\ UNCHANGED <<status, breaker, loop>>

\* PingThreshold failures in a row are a restart trigger.
FailedPing ==
  IF pings + 1 >= PingThreshold THEN pings' = 0 /\ Trigger(loop, state # Fuse!Seen)
  ELSE pings' = pings + 1 /\ UNCHANGED <<status, breaker, loop>>

\* runPing.  initialize() of a connected client answers from its session, so
\* the ping succeeds whether the server hangs or not; it fails when the client
\* has given up.
Ping ==
  /\ Quiet /\ status = "ready" /\ ~stopped /\ client # None
  /\ \/ /\ server[client].life \in {"up", "hung"}
        /\ pings' = 0
        /\ UNCHANGED <<status, breaker, loop>>
     \/ server[client].life = "none" /\ FailedPing
  /\ NoteOverlap
  /\ UNCHANGED <<built, stopped, client, server, call, healthy, budget>>

-----------------------------------------------------------------------------
(* Tool calls *)

\* callTool is let through: registered, and sent to the installed client.
Call(c) ==
  /\ Quiet /\ call[c].at = "idle" /\ ~stopped /\ Fuse!Allows /\ status = "ready" /\ client # None
  /\ Fuse!Seen = state
  /\ call' = [call EXCEPT ![c] = [at |-> "open", on |-> client, sent |-> 1]]
  /\ UNCHANGED <<built, status, stopped, breaker, client, server, loop, pings,
                 healthy, budget, overlapped>>

\* No probe is scheduled when the circuit turns half-open.
LookFaulty ==
  /\ Quiet /\ ~stopped /\ Fuse!Seen # state
  /\ Fuse!Read
  /\ UNCHANGED <<built, status, stopped, client, server, loop, call, pings, healthy,
                 budget, overlapped>>

\* A refused callTool, of these callers or of others, or a snapshot(), reads the
\* breaker: this may flip it to half-open, which schedules a probe.
Look ==
  /\ Quiet /\ ~stopped /\ Fuse!Seen # state
  /\ Trigger(loop, FALSE)
  /\ NoteOverlap
  /\ UNCHANGED <<built, stopped, client, server, call, pings, healthy, budget>>

\* A call ends: the server answers it, its caller aborts it, or it was sent to a
\* client that has given up.
Settle(c) ==
  /\ Quiet /\ call[c].at = "open"
  /\ \/ /\ server[call[c].on].life = "up"
        /\ call' = [call EXCEPT ![c] = Out(c, "answered")]
     \/ /\ server[call[c].on].life = "none"
        /\ call' = [call EXCEPT ![c] = Out(c, "failed")]
  /\ UNCHANGED <<built, status, stopped, breaker, client, server, loop, pings,
                 healthy, budget, overlapped>>

-----------------------------------------------------------------------------
(* The operator and the environment *)

\* Only the calls of the current generation are rejected.
RejectedFaulty == [c \in Calls |-> IF c \in InFlight THEN Out(c, "failed") ELSE call[c]]
Rejected == [c \in Calls |-> IF c \in Registered THEN Out(c, "failed") ELSE call[c]]

\* stop(): not waited for are the restart loops, which see `stopped' later.
Stop ==
  /\ Quiet /\ ~stopped
  /\ stopped' = TRUE
  /\ status' = "stopped"
  /\ client' = None
  /\ server' = [s \in Servers |-> IF s = client THEN NoServer ELSE server[s]]
  /\ loop' = [l \in Loops |-> [loop[l] EXCEPT !.cut = loop[l].pc = "drain"]]
  /\ call' = Rejected
  /\ UNCHANGED <<built, breaker, pings, healthy, budget, overlapped>>

\* circuitResetMs pass.
CoolDown ==
  /\ Quiet /\ Fuse!CoolDown
  /\ UNCHANGED <<built, status, stopped, client, server, loop, call, pings, healthy,
                 budget, overlapped>>

HealthChanges ==
  /\ Quiet /\ healthy' = ~healthy
  /\ UNCHANGED <<built, status, stopped, breaker, client, server, loop, call, pings,
                 budget, overlapped>>

Pipeline(l) ==
  \/ Respawn(l) \/ Wake(l) \/ Initialized(l) \/ InitFails(l) \/ InitMalformed(l)
  \/ Boots(l) \/ BootIsStale(l) \/ ListFails(l) \/ Catch(l)

Next ==
  \/ \E l \in Loops : Pipeline(l)
  \/ \E s \in Servers : Crash(s) \/ OrphanDies(s) \/ InnerRestart(s) \/ Hang(s)
  \/ \E c \in Calls : Call(c) \/ Settle(c)
  \/ Look \/ Ping \/ Stop \/ CoolDown \/ HealthChanges

Spec == Init /\ [][Next]_vars

\* Timers fire, a server that works answers, callers keep coming.
Fairness ==
  /\ \A l \in Loops : WF_vars(Pipeline(l))
  /\ \A s \in Servers : WF_vars(InnerRestart(s))
  /\ \A c \in Calls : WF_vars(Call(c)) /\ WF_vars(Settle(c))
  /\ WF_vars(Look) /\ WF_vars(Ping) /\ WF_vars(CoolDown)

FairSpec == Spec /\ Fairness

-----------------------------------------------------------------------------
(* Properties *)

TypeOK ==
  /\ {resubmit, hooks, stopped, healthy, overlapped} \subseteq BOOLEAN
  /\ status \in {"starting", "ready", "draining", "reconnecting", "circuit-open", "stopped"}
  /\ state \in Fuse!States /\ cooled \in BOOLEAN
  /\ failures \in 0 .. CircuitThreshold /\ successes = 0
  /\ client \in Servers \cup {None}
  /\ server \in [Servers -> [life : {"none", "booting", "up", "hung", "lost", "orphan"},
                            current : BOOLEAN]]
  /\ loop \in [Loops -> [pc : {"none", "drain", "sleep", "init", "list", "caught"},
                         first : BOOLEAN, attempt : 0 .. CircuitThreshold - 1,
                         server : Servers \cup {None}, active : SUBSET Calls, cut : BOOLEAN]]
  /\ call \in [Calls -> [at : {"idle", "open", "deferred", "answered", "failed"},
                         on : Servers \cup {None}, sent : 0 .. 3]]
  /\ pings \in 0 .. PingThreshold - 1
  /\ bootFaults \in 0 .. MaxBootFaults /\ hangs \in 0 .. MaxHangs

\* Calls are let through only while the installed client belongs to the current
\* generation, its server is there and the circuit is closed.
ReadyIsServing ==
  status = "ready" /\ ~stopped /\ ~overlapped =>
    /\ client # None /\ server[client].current /\ state = "closed"
    /\ hooks => server[client].life \in {"up", "hung"}

\* A server process that is neither the installed client's nor being booted
\* came from a failed tools/list, from a malformed answer to initialize, from two
\* loops at once or from a stop during a boot (startSession, bootFreshClient, stop): in
\* every other course of crashes and restarts none is left behind.
Stray == {s \in Servers \ {client} : server[s].life # "none" /\ ~Booting(s)}
NoStrayServer == Stray # {} => bootFaults > 0 \/ overlapped \/ stopped

\* A call is sent a second time only by a supervisor built to resubmit, and
\* only when the client it was sent to has been torn down.
ResentAfterLoss ==
  [][\A c \in Calls : ~overlapped /\ call[c].sent > 0 /\ call'[c].sent # call[c].sent
       => resubmit /\ call[c].at = "deferred"]_vars

\* Once the operator has stopped it no call is pending, whatever pipeline was
\* draining, booting or about to resubmit.
StopLeavesNoCall == stopped => Registered = {}

\* Once servers work for good, a caller that keeps trying gets an answer, or
\* the error of the drain or of the crash: no call hangs and no state of
\* circuit, loops and generations locks the callers out.
Served ==
  (<>[]healthy /\ [](hangs = 0 /\ ~stopped /\ ~overlapped))
    => \A c \in Calls : <>(call[c].at \in {"answered", "failed"})

\* "In-flight calls that race a crash resolve with the same error"
\* (supervisor.ts:323): a call left to the drain path is one it sends again.
NoOrphanCall == \A c \in Calls : call[c].at = "deferred" => resubmit

=============================================================================
