------------------------ MODULE McpSupervisorProofs ------------------------
(***************************************************************************)
(* McpSupervisor for any set of calls, any thresholds and all bounds.  Inv   *)
(* is the inductive invariant: the type invariant, that stop() leaves no     *)
(* call, and, as long as no two restart pipelines have run at once, what a    *)
(* pipeline knows: it is the only one, the breaker is not open, and once its  *)
(* drain is over there is no installed client, hence no call under way.       *)
(***************************************************************************)
EXTENDS McpSupervisor, TLAPS

LoopStates == [pc : {"none", "drain", "sleep", "init", "list", "caught"},
               first : BOOLEAN, attempt : 0 .. CircuitThreshold - 1,
               server : Servers \cup {None}, active : SUBSET Calls, cut : BOOLEAN]
ServerStates == [life : {"none", "booting", "up", "hung", "lost", "orphan"},
                 current : BOOLEAN]
CallStates == [at : {"idle", "open", "deferred", "answered", "failed"},
               on : Servers \cup {None}, sent : 0 .. 3]

Statuses == {"starting", "ready", "draining", "reconnecting", "circuit-open", "stopped"}

\* TypeOK, one conjunct per variable.
Typed ==
  /\ resubmit \in BOOLEAN /\ hooks \in BOOLEAN /\ stopped \in BOOLEAN
  /\ healthy \in BOOLEAN /\ overlapped \in BOOLEAN /\ cooled \in BOOLEAN
  /\ status \in Statuses /\ state \in Fuse!States
  /\ failures \in 0 .. CircuitThreshold /\ successes = 0
  /\ client \in Servers \cup {None} /\ server \in [Servers -> ServerStates]
  /\ loop \in [Loops -> LoopStates] /\ call \in [Calls -> CallStates]
  /\ pings \in 0 .. PingThreshold - 1
  /\ bootFaults \in 0 .. MaxBootFaults /\ hangs \in 0 .. MaxHangs

\* A pipeline has a client of its own exactly while it boots one; a call is
\* counted when it is first sent.
Shape ==
  /\ \A l \in Loops : loop[l].server # None <=> loop[l].pc \in {"init", "list"}
  /\ \A c \in Calls : /\ call[c].at = "idle" => call[c].sent = 0
                      /\ call[c].at = "open" => call[c].sent > 0

\* What a pipeline that is alone can rely on.
OnePipeline  == \A l, m \in Running : l = m
FuseHolds    == Running # {} => state # "open"
ClientIsDown == \A l \in Running : loop[l].pc # "drain" => client = None
OpenIsServed == \A c \in Calls : call[c].at = "open" => call[c].on = client /\ client # None
ReadyIsIdle  == status = "ready" => Running = {}
Serving      == status = "ready" /\ ~stopped =>
                  /\ client # None /\ server[client].current /\ state = "closed"
                  /\ hooks => server[client].life \in {"up", "hung"}
Listing      == bootFaults = 0 =>
                  \A l \in Loops : loop[l].pc = "list" =>
                                     server[loop[l].server].life \in {"up", "hung"}
Tidy         == bootFaults = 0 /\ ~stopped =>
                  \A s \in Servers : server[s].life # "none" => s = client \/ Booting(s)

Alone ==
  ~overlapped => /\ OnePipeline /\ FuseHolds /\ ClientIsDown /\ OpenIsServed
                 /\ ReadyIsIdle /\ Serving /\ Listing /\ Tidy

Inv == Typed /\ Shape /\ StopLeavesNoCall /\ Alone

LEMMA Bounds ==
  /\ MaxServers \in Nat /\ MaxLoops \in Nat /\ MaxBootFaults \in Nat /\ MaxHangs \in Nat
  /\ CircuitThreshold \in Nat /\ CircuitThreshold > 0
  /\ PingThreshold \in Nat /\ PingThreshold > 0
  /\ None \notin Servers
<1> QED BY SupervisorAssumption DEF None, Servers

LEMMA TypedIsTypeOK == Typed => TypeOK
<1> SUFFICES ASSUME Typed PROVE TypeOK
  OBVIOUS
<1>1. {resubmit, hooks, stopped, healthy, overlapped} \subseteq BOOLEAN
  BY DEF Typed
<1> QED BY <1>1 DEF Typed, TypeOK, Statuses, ServerStates, LoopStates, CallStates

-----------------------------------------------------------------------------
(* What restart triggers do to the loops `base' and to the breaker          *)

\* Loops that a trigger may be given: one of them has left its boot at most.
BaseFits(base) ==
  /\ base \in [Loops -> LoopStates]
  /\ \A l \in Loops :
       /\ base[l].server # None <=> base[l].pc \in {"init", "list"}
       /\ base[l].pc # "none" => loop[l].pc # "none"
       /\ base[l].pc \notin {"none", "drain"} => loop[l].pc \notin {"none", "drain"}

\* At most one more pipeline runs, and it drains behind a breaker that allows it.
Restarted(base) ==
  /\ loop' \in [Loops -> LoopStates]
  /\ status' \in Statuses /\ state' \in Fuse!States /\ cooled' \in BOOLEAN
  /\ failures' = failures /\ successes' = successes
  /\ state' = "open" => state = "open"
  /\ \A l \in Loops :
       \/ loop'[l].pc = base[l].pc /\ loop'[l].server = base[l].server
       \/ /\ loop[l].pc = "none" /\ loop'[l].pc = "drain"
          /\ loop'[l].server = None /\ state' # "open"
  /\ status' = "ready" => status = "ready" /\ loop' = base /\ state' = state

LEMMA NotTriggered ==
  ASSUME Typed, NEW base, BaseFits(base), loop' = base, UNCHANGED <<status, breaker>>
  PROVE  Restarted(base)
<1> QED BY DEF Typed, BaseFits, Restarted, breaker

LEMMA EmptyLoop ==
  /\ NoLoop \in LoopStates /\ NoLoop.pc = "none" /\ NoLoop.server = None
  /\ NoLoop.first = FALSE /\ NoLoop.active = {}
<1>1. 0 \in 0 .. CircuitThreshold - 1
  BY Bounds
<1> QED BY <1>1 DEF NoLoop, LoopStates

\* A pipeline moves on: its place and its server change, and nothing else.
Moved(l, at, sv) == [loop EXCEPT ![l].pc = at, ![l].server = sv]

LEMMA MovesOn ==
  ASSUME Typed, NEW l \in Loops, NEW sv \in Servers \cup {None},
         NEW at \in {"none", "drain", "sleep", "init", "list", "caught"}
  PROVE  /\ Moved(l, at, sv) \in [Loops -> LoopStates]
         /\ Moved(l, at, sv)[l].pc = at /\ Moved(l, at, sv)[l].server = sv
         /\ Moved(l, at, sv)[l].attempt = loop[l].attempt
         /\ \A m \in Loops \ {l} : Moved(l, at, sv)[m] = loop[m]
<1> DEFINE next == [loop[l] EXCEPT !.pc = at, !.server = sv]
<1>1. loop \in [Loops -> LoopStates] /\ loop[l] \in LoopStates
  BY DEF Typed
<1>2. Moved(l, at, sv) = [loop EXCEPT ![l] = next]
  BY <1>1 DEF Moved
<1>3. next \in LoopStates /\ next.pc = at /\ next.server = sv /\ next.attempt = loop[l].attempt
  BY <1>1 DEF LoopStates
<1> HIDE DEF next
<1> QED BY <1>1, <1>2, <1>3

LEMMA NewDrain ==
  ASSUME NEW cut \in BOOLEAN
  PROVE  LET new == [NoLoop EXCEPT !.pc = "drain", !.active = InFlight, !.cut = cut]
         IN  new \in LoopStates /\ new.pc = "drain" /\ new.server = None
<1>1. InFlight \subseteq Calls
  BY DEF InFlight
<1> QED BY <1>1, EmptyLoop DEF LoopStates

LEMMA Triggered ==
  ASSUME Typed, NEW base, BaseFits(base), NEW cut \in BOOLEAN, Trigger(base, cut)
  PROVE  Restarted(base) /\ (status' = "ready" => stopped)
<1>1. CASE stopped \/ status = "reconnecting"
  <2>1. CASE loop' = base /\ UNCHANGED <<status, breaker>>
    BY <1>1, <2>1, NotTriggered
  <2> QED BY <1>1, <2>1 DEF Trigger
<1>2. CASE ~stopped /\ status = "draining"
  <2>1. /\ loop' = [l \in Loops |-> [base[l] EXCEPT !.cut = @ \/ base[l].pc = "drain"]]
        /\ UNCHANGED <<status, breaker>>
    BY <1>2 DEF Trigger
  <2>2. ASSUME NEW l \in Loops
        PROVE  /\ loop'[l] \in LoopStates
               /\ loop'[l].pc = base[l].pc /\ loop'[l].server = base[l].server
    BY <2>1 DEF BaseFits, LoopStates
  <2> QED BY <1>2, <2>1, <2>2 DEF Typed, Restarted, breaker
<1>3. CASE ~stopped /\ status \notin {"reconnecting", "draining"} /\ ~Fuse!Allows
  <2>1. loop' = base /\ status' = "circuit-open" /\ UNCHANGED breaker
    BY <1>3 DEF Trigger
  <2> QED BY <2>1 DEF Typed, BaseFits, Restarted, breaker, Statuses
<1>4. CASE ~stopped /\ status \notin {"reconnecting", "draining"} /\ Fuse!Allows
  <2>1. Fuse!Read /\ status' = "draining"
    BY <1>4 DEF Trigger
  <2>2. PICK l \in FreeLoop : loop' = [base EXCEPT ![l] =
          [NoLoop EXCEPT !.pc = "drain", !.active = InFlight, !.cut = cut]]
    BY <1>4 DEF Trigger
  <2>3. l \in Loops /\ loop[l].pc = "none"
    BY DEF FreeLoop, Running
  <2>4. /\ state' # "open" /\ state' \in Fuse!States /\ cooled' \in BOOLEAN
        /\ failures' = failures /\ successes' = successes
    BY <1>4, <2>1 DEF Fuse!Allows, Fuse!Read, Fuse!Seen, Fuse!States, Typed
  <2>5. loop' \in [Loops -> LoopStates]
    BY <2>2, NewDrain DEF BaseFits
  <2>6. /\ loop'[l].pc = "drain" /\ loop'[l].server = None
        /\ \A m \in Loops \ {l} : loop'[m] = base[m]
    BY <2>2, <2>3, NewDrain DEF BaseFits
  <2> QED BY <2>1, <2>3, <2>4, <2>5, <2>6 DEF Restarted, Statuses
<1> QED BY <1>1, <1>2, <1>3, <1>4 DEF Typed

LEMMA Exited ==
  ASSUME Typed, NEW base, BaseFits(base), NEW s, Exit(s, base)
  PROVE  Restarted(base) /\ (status' = "ready" => stopped \/ ~(hooks /\ server[s].current))
<1>1. (state # Fuse!Seen) \in BOOLEAN
  OBVIOUS
<1> QED BY <1>1, Triggered, NotTriggered DEF Exit

\* What holds of a pipeline that is alone survives a trigger.
LEMMA RestartedKeeps ==
  ASSUME Typed, Shape, Alone, NEW base, BaseFits(base), Restarted(base), NoteOverlap,
         client' = client,
         \A c \in Calls : call'[c].at = "open" => call'[c] = call[c]
  PROVE  /\ overlapped' \in BOOLEAN
         /\ \A l \in Loops : loop'[l].server # None <=> loop'[l].pc \in {"init", "list"}
         /\ ~overlapped' => /\ ~overlapped /\ OnePipeline' /\ FuseHolds' /\ ClientIsDown'
                            /\ OpenIsServed' /\ ReadyIsIdle'
<1>1. \A l \in Loops : loop'[l].server # None <=> loop'[l].pc \in {"init", "list"}
  BY DEF BaseFits, Restarted
<1>2. overlapped' \in BOOLEAN
  BY DEF NoteOverlap, Typed
<1>3. ASSUME ~overlapped'
      PROVE  /\ ~overlapped /\ OnePipeline' /\ FuseHolds' /\ ClientIsDown'
             /\ OpenIsServed' /\ ReadyIsIdle'
  <2>1. ~overlapped /\ OnePipeline'
    BY <1>3 DEF NoteOverlap, OnePipeline, Running
  <2>2. FuseHolds /\ ClientIsDown /\ OpenIsServed /\ ReadyIsIdle
    BY <2>1 DEF Alone
  <2>3. FuseHolds'
    BY <2>2 DEF FuseHolds, Running, BaseFits, Restarted
  <2>4. ClientIsDown'
    BY <2>2 DEF ClientIsDown, Running, BaseFits, Restarted
  <2>5. OpenIsServed'
    BY <2>2 DEF OpenIsServed
  <2>6. ReadyIsIdle'
    BY <2>2 DEF ReadyIsIdle, Running, BaseFits, Restarted
  <2> QED BY <2>1, <2>3, <2>4, <2>5, <2>6
<1> QED BY <1>1, <1>2, <1>3

-----------------------------------------------------------------------------
(* Calls *)

\* Calls end, or are put off: none is sent and none appears.
Ending ==
  /\ call' \in [Calls -> CallStates]
  /\ \A c \in Calls :
       /\ call'[c].sent = call[c].sent
       /\ call'[c].at = "idle" => call[c].at = "idle"
       /\ call'[c].at = "open" => call'[c] = call[c]
       /\ call'[c].at \in {"open", "deferred"} => call[c].at \in {"open", "deferred"}

LEMMA NoneEnds == ASSUME Typed, call' = call PROVE Ending
<1> QED BY DEF Typed, Ending

LEMMA EndingKeeps ==
  ASSUME Shape, StopLeavesNoCall, Ending, stopped' = stopped
  PROVE  /\ \A c \in Calls : /\ call'[c].at = "idle" => call'[c].sent = 0
                             /\ call'[c].at = "open" => call'[c].sent > 0
         /\ StopLeavesNoCall'
<1> QED BY DEF Shape, StopLeavesNoCall, Registered, Ending

LEMMA OutIs ==
  ASSUME Typed, NEW c \in Calls, NEW at \in {"deferred", "answered", "failed"}
  PROVE  Out(c, at) \in CallStates /\ Out(c, at).at = at /\ Out(c, at).sent = call[c].sent
<1> QED BY DEF Out, Typed, CallStates

\* At the end of a generation no call stays with its client.
LEMMA HandoverEnds ==
  ASSUME Typed, Shape, NEW overflow \in SUBSET Registered,
         call' = [c \in Calls |-> Handover(c, overflow)]
  PROVE  Ending /\ \A c \in Calls : call'[c].at = "open" => call[c].on # client
<1>1. ASSUME NEW c \in Calls
      PROVE  /\ call'[c] \in CallStates /\ call'[c].sent = call[c].sent
             /\ call'[c].at = "idle" => call[c].at = "idle"
             /\ call'[c].at = "open" => call'[c] = call[c] /\ call[c].on # client
             /\ call'[c].at \in {"open", "deferred"} => call[c].at \in {"open", "deferred"}
  <2>1. call'[c] = Handover(c, overflow) /\ call[c] \in CallStates
    BY DEF Typed
  <2>2. CASE c \in overflow /\ ~resubmit
    BY <2>1, <2>2, OutIs DEF Handover
  <2>3. CASE ~(c \in overflow /\ ~resubmit) /\ c \in InFlight
    <3>1. call'[c] = Out(c, "deferred") /\ call[c].at = "open"
      BY <2>1, <2>3 DEF Handover, InFlight
    <3> QED BY <3>1, OutIs
  <2>4. CASE ~(c \in overflow /\ ~resubmit) /\ c \notin InFlight /\ c \in OpenOn(client)
    <3>1. call'[c] = Out(c, "failed")
      BY <2>1, <2>4 DEF Handover
    <3> QED BY <3>1, OutIs
  <2>5. CASE ~(c \in overflow /\ ~resubmit) /\ c \notin InFlight /\ c \notin OpenOn(client)
    <3>1. call'[c] = call[c]
      BY <2>1, <2>5 DEF Handover
    <3> QED BY <2>1, <2>5, <3>1 DEF OpenOn
  <2> QED BY <2>2, <2>3, <2>4, <2>5
<1> QED BY <1>1 DEF Ending

-----------------------------------------------------------------------------
(* The restart pipeline *)

\* What a pipeline knows when it is the only one.
LEMMA Lone ==
  ASSUME Shape, Alone, NEW l \in Loops, loop[l].pc # "none", ~overlapped
  PROVE  /\ \A m \in Loops \ {l} : loop[m].pc = "none" /\ loop[m].server = None
         /\ status # "ready" /\ state # "open" /\ (loop[l].pc # "drain" => client = None)
<1> QED BY DEF Shape, Alone, OnePipeline, FuseHolds, ClientIsDown, ReadyIsIdle, Running

\* It stays the only one.
LEMMA LoneStep ==
  ASSUME Shape, Alone, NEW l \in Loops, loop[l].pc # "none", ~overlapped,
         \A m \in Loops \ {l} : loop'[m] = loop[m],
         loop'[l].pc # "none" => state' # "open" /\ status' # "ready",
         loop'[l].pc \notin {"none", "drain"} => client' = None
  PROVE  /\ OnePipeline' /\ FuseHolds' /\ ClientIsDown' /\ ReadyIsIdle'
         /\ \A s \in Servers : Booting(s)' <=> loop'[l].server = s
<1>1. \A m \in Loops \ {l} : loop'[m].pc = "none" /\ loop'[m].server = None
  BY Lone
<1>2. OnePipeline' /\ FuseHolds' /\ ClientIsDown' /\ ReadyIsIdle'
  <2>1. \A m \in Running' : m = l /\ loop'[l].pc # "none"
    BY <1>1 DEF Running
  <2> QED BY <2>1 DEF OnePipeline, FuseHolds, ClientIsDown, ReadyIsIdle
<1> QED BY <1>1, <1>2, Bounds DEF Booting

LEMMA InitInv == Init => Inv
<1> SUFFICES ASSUME Init PROVE Inv
  OBVIOUS
<1> USE DEF Init
<1>1. /\ 0 \in 0 .. CircuitThreshold /\ 0 \in 0 .. PingThreshold - 1 /\ 0 \in 0 .. 3
      /\ 0 \in 0 .. MaxBootFaults /\ 0 \in 0 .. MaxHangs
  BY Bounds
<1>2. resubmit \in BOOLEAN /\ hooks \in BOOLEAN
  BY SupervisorAssumption
<1>3. server \in [Servers -> ServerStates]
  BY DEF NoServer, ServerStates
<1>4. loop \in [Loops -> LoopStates]
  BY EmptyLoop DEF LoopStates
<1>5. call \in [Calls -> CallStates]
  BY <1>1 DEF CallStates
<1>6. Typed
  BY <1>1, <1>2, <1>3, <1>4, <1>5 DEF Typed, Statuses, Fuse!States
<1>7. \A l \in Loops : /\ loop[l].server = None
                       /\ loop[l].pc = IF l = 1 THEN "sleep" ELSE "none"
  BY EmptyLoop DEF LoopStates
<1>8. Shape
  BY <1>7 DEF Shape
<1>9. StopLeavesNoCall
  BY DEF StopLeavesNoCall
<1>10. Alone
  BY <1>7 DEF Alone, OnePipeline, FuseHolds, ClientIsDown, OpenIsServed, ReadyIsIdle, Serving,
     Listing, Tidy, Running, NoServer
<1> QED BY <1>6, <1>8, <1>9, <1>10 DEF Inv

LEMMA RespawnInv == ASSUME Inv, NEW l \in Loops, Respawn(l) PROVE Inv'
<1>0. Typed /\ Shape /\ StopLeavesNoCall /\ Alone
  BY DEF Inv
<1>1. /\ loop[l].pc = "drain" /\ client' = None /\ server' = NextGeneration
      /\ call' = [c \in Calls |-> Handover(c, loop[l].active \cap Registered)]
      /\ status' = "reconnecting" /\ loop' = [loop EXCEPT ![l] = [NoLoop EXCEPT !.pc = "sleep"]]
      /\ UNCHANGED <<resubmit, hooks, stopped, state, failures, successes, cooled, pings,
                     healthy, bootFaults, hangs, overlapped>>
  BY DEF Respawn, built, breaker, budget
<1>2. Ending /\ \A c \in Calls : call'[c].at = "open" => call[c].on # client
  BY <1>0, <1>1, HandoverEnds
<1>3. /\ server' \in [Servers -> ServerStates]
      /\ \A s \in Servers : server'[s].life # "none" => s # client /\ server'[s].life = server[s].life
  BY <1>0, <1>1 DEF NextGeneration, NoServer, ServerStates, Typed
<1>4. /\ loop' \in [Loops -> LoopStates] /\ loop'[l].pc = "sleep" /\ loop'[l].server = None
      /\ \A m \in Loops \ {l} : loop'[m] = loop[m]
  BY <1>0, <1>1, EmptyLoop DEF Typed, LoopStates
<1>5. Typed'
  BY <1>0, <1>1, <1>2, <1>3, <1>4 DEF Typed, Ending, Statuses
<1>6. Shape' /\ StopLeavesNoCall'
  BY <1>0, <1>1, <1>2, <1>4, EndingKeeps DEF Shape
<1>7. Alone'
  <2> SUFFICES ASSUME ~overlapped
               PROVE  (/\ OnePipeline /\ FuseHolds /\ ClientIsDown /\ OpenIsServed
                       /\ ReadyIsIdle /\ Serving /\ Listing /\ Tidy)'
    BY <1>1 DEF Alone
  <2>1. OnePipeline' /\ FuseHolds' /\ ClientIsDown' /\ ReadyIsIdle'
    BY <1>0, <1>1, <1>4, Lone, LoneStep
  <2>2. OpenIsServed'
    BY <1>0, <1>2 DEF Alone, OpenIsServed, Ending
  <2>3. Serving'
    BY <1>1 DEF Serving
  <2>4. Listing'
    BY <1>0, <1>1, <1>4, Lone DEF Listing
  <2>5. Tidy'
    <3> SUFFICES ASSUME bootFaults = 0, ~stopped, NEW s \in Servers, server'[s].life # "none"
                 PROVE  Booting(s)'
      BY <1>1 DEF Tidy
    <3>1. s # client /\ server[s].life # "none"
      BY <1>3
    <3>2. Booting(s)
      BY <1>0, <3>1 DEF Alone, Tidy
    <3>3. loop[l].server = None /\ None # s
      BY <1>0, <1>1, Bounds DEF Shape
    <3> QED BY <1>4, <3>2, <3>3 DEF Booting
  <2> QED BY <2>1, <2>2, <2>3, <2>4, <2>5
<1> QED BY <1>5, <1>6, <1>7 DEF Inv

LEMMA WakeInv == ASSUME Inv, NEW l \in Loops, Wake(l) PROVE Inv'
<1>0. Typed /\ Shape /\ StopLeavesNoCall /\ Alone
  BY DEF Inv
<1>1. /\ loop[l].pc = "sleep" /\ loop[l].server = None
      /\ UNCHANGED <<resubmit, hooks, status, stopped, state, failures, successes, cooled, client,
                     call, pings, healthy, bootFaults, hangs, overlapped>>
  BY <1>0 DEF Wake, Shape, built, breaker, budget
<1>2. Ending
  BY <1>0, <1>1, NoneEnds
<1>3. CASE stopped
  <2>1. server' = server /\ loop' = [loop EXCEPT ![l] = NoLoop]
    BY <1>3 DEF Wake
  <2>2. /\ loop' \in [Loops -> LoopStates] /\ loop'[l].pc = "none" /\ loop'[l].server = None
        /\ \A m \in Loops \ {l} : loop'[m] = loop[m]
    BY <1>0, <2>1, EmptyLoop DEF Typed
  <2>3. Typed'
    BY <1>0, <1>1, <2>1, <2>2 DEF Typed
  <2>4. Shape' /\ StopLeavesNoCall'
    BY <1>0, <1>1, <1>2, <2>2, EndingKeeps DEF Shape
  <2>5. ASSUME ~overlapped PROVE OnePipeline' /\ FuseHolds' /\ ClientIsDown' /\ ReadyIsIdle'
    BY <1>0, <1>1, <2>2, <2>5, LoneStep
  <2>6. Alone'
    BY <1>0, <1>1, <1>3, <2>1, <2>2, <2>5 DEF Alone, OpenIsServed, Serving, Listing, Tidy
  <2> QED BY <2>3, <2>4, <2>6 DEF Inv
<1>4. CASE ~stopped
  <2>1. PICK s \in FreeServer :
          /\ server' = [server EXCEPT ![s] = [life |-> "booting", current |-> TRUE]]
          /\ loop' = Moved(l, "init", s)
    BY <1>4 DEF Wake, Moved
  <2>2. s \in Servers /\ s # client /\ ~Booting(s) /\ s # None
    BY Bounds DEF FreeServer
  <2>3. /\ loop' \in [Loops -> LoopStates] /\ loop'[l].pc = "init" /\ loop'[l].server = s
        /\ \A m \in Loops \ {l} : loop'[m] = loop[m]
    BY <1>0, <2>1, <2>2, MovesOn
  <2>4. /\ server' \in [Servers -> ServerStates]
        /\ \A t \in Servers \ {s} : server'[t] = server[t]
    BY <1>0, <2>1, <2>2 DEF Typed, ServerStates
  <2>5. Typed'
    BY <1>0, <1>1, <2>3, <2>4 DEF Typed
  <2>6. Shape' /\ StopLeavesNoCall'
    BY <1>0, <1>1, <1>2, <2>2, <2>3, EndingKeeps DEF Shape
  <2>7. Alone'
    <3> SUFFICES ASSUME ~overlapped
                 PROVE  (/\ OnePipeline /\ FuseHolds /\ ClientIsDown /\ OpenIsServed
                         /\ ReadyIsIdle /\ Serving /\ Listing /\ Tidy)'
      BY <1>1 DEF Alone
    <3>1. /\ status # "ready" /\ state # "open" /\ client = None
          /\ \A m \in Loops \ {l} : loop[m].pc = "none" /\ loop[m].server = None
      BY <1>0, <1>1, Lone
    <3>2. /\ OnePipeline' /\ FuseHolds' /\ ClientIsDown' /\ ReadyIsIdle'
          /\ \A t \in Servers : Booting(t)' <=> loop'[l].server = t
      BY <1>0, <1>1, <2>3, <3>1, LoneStep
    <3>3. OpenIsServed'
      BY <1>0, <1>1 DEF Alone, OpenIsServed
    <3>4. Serving'
      BY <1>1, <3>1 DEF Serving
    <3>5. Listing'
      BY <2>3, <3>1 DEF Listing
    <3>6. Tidy'
      <4> SUFFICES ASSUME bootFaults = 0, ~stopped, NEW t \in Servers, server'[t].life # "none"
                   PROVE  t = client \/ t = s
        BY <1>1, <2>3, <3>2 DEF Tidy
      <4>1. ~Booting(t)
        BY <1>1, <3>1, Bounds DEF Booting
      <4> QED BY <1>0, <2>4, <4>1 DEF Alone, Tidy
    <3> QED BY <3>2, <3>3, <3>4, <3>5, <3>6
  <2> QED BY <2>5, <2>6, <2>7 DEF Inv
<1> QED BY <1>3, <1>4

LEMMA InitializedInv == ASSUME Inv, NEW l \in Loops, Initialized(l) PROVE Inv'
<1> DEFINE s == loop[l].server
<1>0. Typed /\ Shape /\ StopLeavesNoCall /\ Alone
  BY DEF Inv
<1>1. /\ loop[l].pc = "init" /\ server[s].life = "booting"
      /\ server' = [server EXCEPT ![s].life = "up"] /\ loop' = [loop EXCEPT ![l].pc = "list"]
      /\ UNCHANGED <<resubmit, hooks, status, stopped, state, failures, successes, cooled, client,
                     call, pings, healthy, bootFaults, hangs, overlapped>>
  BY DEF Initialized, built, breaker, budget
<1>2. Ending
  BY <1>0, <1>1, NoneEnds
<1>3. s \in Servers
  BY <1>0, <1>1 DEF Typed, Shape, LoopStates
<1>4. /\ loop' \in [Loops -> LoopStates] /\ loop'[l].pc = "list" /\ loop'[l].server = s
      /\ \A m \in Loops \ {l} : loop'[m] = loop[m]
  BY <1>0, <1>1 DEF Typed, LoopStates
<1>5. /\ server' \in [Servers -> ServerStates] /\ server'[s].life = "up"
      /\ \A t \in Servers \ {s} : server'[t] = server[t]
  BY <1>0, <1>1, <1>3 DEF Typed, ServerStates
<1>6. Typed'
  BY <1>0, <1>1, <1>4, <1>5 DEF Typed
<1>7. Shape' /\ StopLeavesNoCall'
  BY <1>0, <1>1, <1>2, <1>3, <1>4, EndingKeeps DEF Shape
<1>8. Alone'
  <2> SUFFICES ASSUME ~overlapped
               PROVE  (/\ OnePipeline /\ FuseHolds /\ ClientIsDown /\ OpenIsServed
                       /\ ReadyIsIdle /\ Serving /\ Listing /\ Tidy)'
    BY <1>1 DEF Alone
  <2>1. /\ status # "ready" /\ state # "open" /\ client = None
        /\ \A m \in Loops \ {l} : loop[m].pc = "none" /\ loop[m].server = None
    BY <1>0, <1>1, Lone
  <2>2. /\ OnePipeline' /\ FuseHolds' /\ ClientIsDown' /\ ReadyIsIdle'
        /\ \A t \in Servers : Booting(t)' <=> loop'[l].server = t
    BY <1>0, <1>1, <1>4, <2>1, LoneStep
  <2>3. OpenIsServed'
    BY <1>0, <1>1 DEF Alone, OpenIsServed
  <2>4. Serving'
    BY <1>1, <2>1 DEF Serving
  <2>5. Listing'
    BY <1>4, <1>5, <2>1 DEF Listing
  <2>6. Tidy'
    <3> SUFFICES ASSUME bootFaults = 0, ~stopped, NEW t \in Servers, t # s, server[t].life # "none"
                 PROVE  t = client
      BY <1>1, <1>4, <1>5, <2>2 DEF Tidy
    <3>1. ~Booting(t)
      BY <2>1, Bounds DEF Booting
    <3> QED BY <1>0, <3>1 DEF Alone, Tidy
  <2> QED BY <2>2, <2>3, <2>4, <2>5, <2>6
<1> QED BY <1>6, <1>7, <1>8 DEF Inv

\* A pipeline whose boot failed is in its catch, without a client.
LEMMA CaughtIs ==
  ASSUME Typed, Shape, NEW l \in Loops, loop[l].pc \in {"init", "list"},
         NEW base, base = Moved(l, "caught", None)
  PROVE  /\ BaseFits(base) /\ base[l].pc = "caught" /\ base[l].server = None
         /\ base[l].attempt = loop[l].attempt
         /\ \A m \in Loops \ {l} : base[m] = loop[m]
<1>1. /\ base \in [Loops -> LoopStates] /\ base[l].pc = "caught" /\ base[l].server = None
      /\ base[l].attempt = loop[l].attempt
      /\ \A m \in Loops \ {l} : base[m] = loop[m]
  BY MovesOn
<1> QED BY <1>1 DEF BaseFits, Shape

LEMMA InitFailsInv ==
  ASSUME Inv, NEW l \in Loops, InitFails(l) \/ InitMalformed(l) PROVE Inv'
<1> DEFINE s == loop[l].server
           base == Moved(l, "caught", None)
<1>0. Typed /\ Shape /\ StopLeavesNoCall /\ Alone
  BY DEF Inv
<1>1. /\ loop[l].pc = "init" /\ Exit(s, base) /\ NoteOverlap
      /\ \/ server' = [server EXCEPT ![s] = NoServer] /\ bootFaults' = bootFaults
         \/ /\ server' = [server EXCEPT ![s].life = "orphan"]
            /\ bootFaults < MaxBootFaults /\ bootFaults' = bootFaults + 1
      /\ UNCHANGED <<resubmit, hooks, stopped, client, call, pings, healthy, hangs>>
  BY DEF InitFails, InitMalformed, Moved, built, budget
<1>2. /\ BaseFits(base) /\ base[l].pc = "caught" /\ base[l].server = None
      /\ \A m \in Loops \ {l} : base[m] = loop[m]
  BY <1>0, <1>1, CaughtIs
<1>3. Restarted(base)
  BY <1>0, <1>1, <1>2, Exited
<1>4. /\ overlapped' \in BOOLEAN
      /\ \A m \in Loops : loop'[m].server # None <=> loop'[m].pc \in {"init", "list"}
      /\ ~overlapped' => /\ ~overlapped /\ OnePipeline' /\ FuseHolds' /\ ClientIsDown'
                         /\ OpenIsServed' /\ ReadyIsIdle'
  <2> HIDE DEF base
  <2> QED BY <1>0, <1>1, <1>2, <1>3, RestartedKeeps
<1>5. Ending
  BY <1>0, <1>1, NoneEnds
<1>6. /\ server' \in [Servers -> ServerStates] /\ s \in Servers
      /\ \A t \in Servers \ {s} : server'[t] = server[t]
      /\ server'[s].life = "none" \/ bootFaults' # 0
      /\ bootFaults' \in 0 .. MaxBootFaults /\ (bootFaults' = 0 => bootFaults = 0)
  <2>1. bootFaults \in Nat /\ bootFaults <= MaxBootFaults /\ MaxBootFaults \in Nat
    BY <1>0, Bounds DEF Typed
  <2>2. /\ bootFaults' \in 0 .. MaxBootFaults /\ (bootFaults' = 0 => bootFaults = 0)
        /\ bootFaults' = bootFaults \/ bootFaults' # 0
    BY <1>1, <2>1
  <2>3. s \in Servers
    BY <1>0, <1>1 DEF Typed, Shape, LoopStates
  <2>4. CASE server' = [server EXCEPT ![s] = NoServer]
    BY <1>0, <2>2, <2>3, <2>4 DEF Typed, NoServer, ServerStates
  <2>5. CASE server' = [server EXCEPT ![s].life = "orphan"] /\ bootFaults' = bootFaults + 1
    <3>1. bootFaults' # 0
      BY <2>1, <2>5
    <3> QED BY <1>0, <2>2, <2>3, <2>5, <3>1 DEF Typed, ServerStates
  <2> QED BY <1>1, <2>4, <2>5
<1>7. Typed'
  BY <1>0, <1>1, <1>3, <1>4, <1>6 DEF Typed, Restarted
<1>8. Shape' /\ StopLeavesNoCall'
  BY <1>0, <1>1, <1>4, <1>5, EndingKeeps DEF Shape
<1>9. Alone'
  <2> SUFFICES ASSUME ~overlapped'
               PROVE  Serving' /\ Listing' /\ Tidy'
    BY <1>4 DEF Alone
  <2>1. /\ status # "ready"
        /\ \A m \in Loops \ {l} : loop[m].pc = "none" /\ loop[m].server = None
    BY <1>0, <1>1, <1>4, Lone
  <2>2. \A m \in Loops : loop'[m].pc # "list" /\ loop'[m].server = None
    BY <1>2, <1>3, <2>1 DEF Restarted
  <2>3. Serving'
    BY <1>3, <2>1 DEF Serving, Restarted
  <2>4. Listing'
    BY <2>2 DEF Listing
  <2>5. Tidy'
    <3> SUFFICES ASSUME bootFaults = 0, ~stopped, NEW t \in Servers, t # s, server[t].life # "none"
                 PROVE  t = client
      BY <1>1, <1>6 DEF Tidy
    <3>1. ~Booting(t)
      BY <2>1, Bounds DEF Booting
    <3> QED BY <1>0, <1>4, <3>1 DEF Alone, Tidy
  <2> QED BY <2>3, <2>4, <2>5
<1> QED BY <1>7, <1>8, <1>9 DEF Inv

LEMMA FirstSuccess ==
  ASSUME Typed, Fuse!OnSuccess
  PROVE  /\ state' \in Fuse!States /\ cooled' \in BOOLEAN /\ successes' = 0
         /\ failures' \in 0 .. CircuitThreshold /\ (state # "open" => state' = "closed")
<1>1. 0 \in 0 .. CircuitThreshold
  BY Bounds
<1>2. ~(successes + 1 < 1)
  BY DEF Typed
<1> QED BY <1>1, <1>2 DEF Typed, Fuse!OnSuccess, Fuse!Close, Fuse!Seen, Fuse!States

LEMMA BootsInv == ASSUME Inv, NEW l \in Loops, Boots(l) PROVE Inv'
<1> DEFINE s == loop[l].server
           kept == {c \in Registered : resubmit /\ ~loop[l].first}
<1>0. Typed /\ Shape /\ StopLeavesNoCall /\ Alone
  BY DEF Inv
<1>1. /\ loop[l].pc = "list" /\ server[s].life = "up" /\ server[s].current /\ client' = s
      /\ Fuse!OnSuccess /\ status' = "ready" /\ loop' = [loop EXCEPT ![l] = NoLoop]
      /\ call' = [c \in Calls |-> IF c \in kept
           THEN [at |-> "open", on |-> s, sent |-> IF call[c].sent < 3 THEN call[c].sent + 1 ELSE 3]
           ELSE call[c]]
      /\ UNCHANGED <<resubmit, hooks, stopped, server, pings, healthy, bootFaults, hangs, overlapped>>
  BY DEF Boots, built, budget
<1>2. s \in Servers /\ s # None
  BY <1>0, <1>1, Bounds DEF Typed, Shape, LoopStates
<1>3. /\ state' \in Fuse!States /\ cooled' \in BOOLEAN /\ successes' = 0
      /\ failures' \in 0 .. CircuitThreshold /\ (state # "open" => state' = "closed")
  BY <1>0, <1>1, FirstSuccess
<1>4. /\ loop' \in [Loops -> LoopStates] /\ loop'[l].pc = "none" /\ loop'[l].server = None
      /\ \A m \in Loops \ {l} : loop'[m] = loop[m]
  BY <1>0, <1>1, EmptyLoop DEF Typed
<1>5. ASSUME NEW c \in Calls
      PROVE  /\ call'[c] \in CallStates
             /\ \/ c \notin kept /\ call'[c] = call[c]
                \/ /\ c \in Registered /\ call'[c].at = "open" /\ call'[c].on = s
                   /\ call'[c].sent > 0
  <2>1. CASE c \notin kept
    BY <1>0, <1>1, <2>1 DEF Typed
  <2>2. CASE c \in kept
    <3>1. call[c].sent \in 0 .. 3
      BY <1>0 DEF Typed, CallStates
    <3> DEFINE sent == IF call[c].sent < 3 THEN call[c].sent + 1 ELSE 3
    <3>2. sent \in 0 .. 3 /\ sent > 0
      BY <3>1
    <3>3. call'[c] = [at |-> "open", on |-> s, sent |-> sent]
      BY <1>1, <2>2
    <3> HIDE DEF sent
    <3> QED BY <1>2, <2>2, <3>2, <3>3 DEF CallStates
  <2> QED BY <2>1, <2>2
<1>6. call' \in [Calls -> CallStates]
  BY <1>1, <1>5
<1>7. Typed'
  BY <1>0, <1>1, <1>2, <1>3, <1>4, <1>6 DEF Typed, Statuses
<1>8. Shape'
  BY <1>0, <1>4, <1>5 DEF Shape
<1>9. StopLeavesNoCall'
  <2> SUFFICES ASSUME stopped, NEW c \in Calls PROVE call'[c].at \notin {"open", "deferred"}
    BY <1>1 DEF StopLeavesNoCall, Registered
  <2>1. c \notin Registered
    BY <1>0 DEF StopLeavesNoCall
  <2> QED BY <1>5, <2>1 DEF Registered
<1>10. Alone'
  <2> SUFFICES ASSUME ~overlapped
               PROVE  (/\ OnePipeline /\ FuseHolds /\ ClientIsDown /\ OpenIsServed
                       /\ ReadyIsIdle /\ Serving /\ Listing /\ Tidy)'
    BY <1>1 DEF Alone
  <2>1. /\ state # "open" /\ client = None
        /\ \A m \in Loops \ {l} : loop[m].pc = "none" /\ loop[m].server = None
    BY <1>0, <1>1, Lone
  <2>2. /\ OnePipeline' /\ FuseHolds' /\ ClientIsDown' /\ ReadyIsIdle'
        /\ \A t \in Servers : Booting(t)' <=> loop'[l].server = t
    BY <1>0, <1>1, <1>4, LoneStep
  <2>3. OpenIsServed'
    BY <1>0, <1>1, <1>2, <1>5, <2>1 DEF Alone, OpenIsServed
  <2>4. Serving'
    BY <1>1, <1>2, <1>3, <2>1 DEF Serving
  <2>5. Listing'
    BY <1>4, <2>1 DEF Listing
  <2>6. Tidy'
    <3> SUFFICES ASSUME bootFaults = 0, ~stopped, NEW t \in Servers, t # s, server[t].life # "none"
                 PROVE  FALSE
      BY <1>1 DEF Tidy
    <3>1. ~Booting(t) /\ t # None
      BY <2>1, Bounds DEF Booting
    <3> QED BY <1>0, <2>1, <3>1 DEF Alone, Tidy
  <2> QED BY <2>2, <2>3, <2>4, <2>5, <2>6
<1> QED BY <1>7, <1>8, <1>9, <1>10 DEF Inv

LEMMA BootIsStaleInv == ASSUME Inv, NEW l \in Loops, BootIsStale(l) PROVE Inv'
<1> DEFINE s == loop[l].server
<1>0. Typed /\ Shape /\ StopLeavesNoCall /\ Alone
  BY DEF Inv
<1>1. /\ loop[l].pc = "list" /\ server' = [server EXCEPT ![s] = NoServer]
      /\ loop' = Moved(l, "caught", None)
      /\ UNCHANGED <<resubmit, hooks, status, stopped, state, failures, successes, cooled, client,
                     call, pings, healthy, bootFaults, hangs, overlapped>>
  BY DEF BootIsStale, Moved, built, breaker, budget
<1>2. /\ BaseFits(loop') /\ loop'[l].pc = "caught" /\ loop'[l].server = None
      /\ \A m \in Loops \ {l} : loop'[m] = loop[m]
  BY <1>0, <1>1, CaughtIs
<1>3. Ending
  BY <1>0, <1>1, NoneEnds
<1>4. /\ server' \in [Servers -> ServerStates] /\ s \in Servers /\ server'[s].life = "none"
      /\ \A t \in Servers \ {s} : server'[t] = server[t]
  BY <1>0, <1>1 DEF Typed, Shape, LoopStates, NoServer, ServerStates
<1>5. Typed'
  BY <1>0, <1>1, <1>2, <1>4 DEF Typed, BaseFits
<1>6. Shape' /\ StopLeavesNoCall'
  BY <1>0, <1>1, <1>2, <1>3, EndingKeeps DEF Shape, BaseFits
<1>7. Alone'
  <2> SUFFICES ASSUME ~overlapped
               PROVE  (/\ OnePipeline /\ FuseHolds /\ ClientIsDown /\ OpenIsServed
                       /\ ReadyIsIdle /\ Serving /\ Listing /\ Tidy)'
    BY <1>1 DEF Alone
  <2>1. /\ status # "ready" /\ state # "open" /\ client = None
        /\ \A m \in Loops \ {l} : loop[m].pc = "none" /\ loop[m].server = None
    BY <1>0, <1>1, Lone
  <2>2. OnePipeline' /\ FuseHolds' /\ ClientIsDown' /\ ReadyIsIdle'
    BY <1>0, <1>1, <1>2, <2>1, LoneStep
  <2>3. OpenIsServed' /\ Serving'
    BY <1>0, <1>1, <2>1 DEF Alone, OpenIsServed, Serving
  <2>4. Listing'
    BY <1>2, <2>1 DEF Listing
  <2>5. Tidy'
    <3> SUFFICES ASSUME bootFaults = 0, ~stopped, NEW t \in Servers, t # s, server[t].life # "none"
                 PROVE  t = client
      BY <1>1, <1>4 DEF Tidy
    <3>1. ~Booting(t)
      BY <2>1, Bounds DEF Booting
    <3> QED BY <1>0, <3>1 DEF Alone, Tidy
  <2> QED BY <2>2, <2>3, <2>4, <2>5
<1> QED BY <1>5, <1>6, <1>7 DEF Inv

LEMMA ListFailsInv == ASSUME Inv, NEW l \in Loops, ListFails(l) PROVE Inv'
<1> DEFINE s == loop[l].server
<1>0. Typed /\ Shape /\ StopLeavesNoCall /\ Alone
  BY DEF Inv
<1>1. /\ loop[l].pc = "list"
      /\ loop' = Moved(l, "caught", None)
      /\ UNCHANGED <<resubmit, hooks, status, stopped, state, failures, successes, cooled, client,
                     server, call, pings, healthy, hangs, overlapped>>
  BY DEF ListFails, Moved, built, breaker
<1>2. \/ server[s].life \notin {"up", "hung"} /\ bootFaults' = bootFaults
      \/ bootFaults < MaxBootFaults /\ bootFaults' = bootFaults + 1
  BY DEF ListFails
<1>3. /\ BaseFits(loop') /\ loop'[l].pc = "caught" /\ loop'[l].server = None
      /\ \A m \in Loops \ {l} : loop'[m] = loop[m]
  BY <1>0, <1>1, CaughtIs
<1>4. Ending
  BY <1>0, <1>1, NoneEnds
<1>5. bootFaults' \in 0 .. MaxBootFaults /\ (bootFaults' = 0 => bootFaults' = bootFaults)
  BY <1>0, <1>2, Bounds DEF Typed
<1>6. Typed'
  BY <1>0, <1>1, <1>3, <1>5 DEF Typed, BaseFits
<1>7. Shape' /\ StopLeavesNoCall'
  BY <1>0, <1>1, <1>3, <1>4, EndingKeeps DEF Shape, BaseFits
<1>8. Alone'
  <2> SUFFICES ASSUME ~overlapped
               PROVE  (/\ OnePipeline /\ FuseHolds /\ ClientIsDown /\ OpenIsServed
                       /\ ReadyIsIdle /\ Serving /\ Listing /\ Tidy)'
    BY <1>1 DEF Alone
  <2>1. /\ status # "ready" /\ state # "open" /\ client = None
        /\ \A m \in Loops \ {l} : loop[m].pc = "none" /\ loop[m].server = None
    BY <1>0, <1>1, Lone
  <2>2. OnePipeline' /\ FuseHolds' /\ ClientIsDown' /\ ReadyIsIdle'
    BY <1>0, <1>1, <1>3, <2>1, LoneStep
  <2>3. OpenIsServed' /\ Serving'
    BY <1>0, <1>1, <2>1 DEF Alone, OpenIsServed, Serving
  <2>4. Listing'
    BY <1>3, <2>1 DEF Listing
\* Without a fault the server that was asked had an answer to give.
  <2>5. bootFaults' # 0
    BY <1>0, <1>1, <1>2, <1>5 DEF Alone, Listing
  <2> QED BY <2>2, <2>3, <2>4, <2>5 DEF Tidy
<1> QED BY <1>6, <1>7, <1>8 DEF Inv

LEMMA OneFailure ==
  ASSUME Typed, Fuse!OnFailure
  PROVE  /\ state' \in Fuse!States /\ cooled' \in BOOLEAN /\ successes' = 0
         /\ failures' \in 0 .. CircuitThreshold
<1>1. failures \in Nat /\ failures <= CircuitThreshold /\ CircuitThreshold \in Nat
  BY Bounds DEF Typed
<1>2. Fuse!OneMoreFailure => failures' \in 0 .. CircuitThreshold
  BY <1>1 DEF Fuse!OneMoreFailure
<1>3. CASE Fuse!Seen = "half-open"
  BY <1>2, <1>3 DEF Fuse!OnFailure, Fuse!States
<1>4. CASE Fuse!Seen = "open"
  BY <1>4 DEF Fuse!OnFailure, Fuse!breaker, Typed
<1>5. CASE Fuse!Seen = "closed"
  BY <1>2, <1>5 DEF Fuse!OnFailure, Fuse!States
<1> QED BY <1>3, <1>4, <1>5 DEF Fuse!OnFailure

LEMMA CatchInv == ASSUME Inv, NEW l \in Loops, Catch(l) PROVE Inv'
<1>0. Typed /\ Shape /\ StopLeavesNoCall /\ Alone
  BY DEF Inv
<1>1. /\ loop[l].pc = "caught" /\ loop[l].server = None /\ loop[l].attempt \in 0 .. CircuitThreshold - 1
      /\ UNCHANGED <<resubmit, hooks, stopped, client, server, call, pings, healthy, bootFaults,
                     hangs, overlapped>>
  BY <1>0 DEF Catch, Shape, Typed, LoopStates, built, budget
<1>2. Ending
  BY <1>0, <1>1, NoneEnds
\* The pipeline sleeps again, or ends with the breaker open.
<1>3. /\ state' \in Fuse!States /\ cooled' \in BOOLEAN /\ successes' = 0
      /\ failures' \in 0 .. CircuitThreshold /\ status' \in Statuses
      /\ status' = "ready" => status = "ready"
      /\ loop' \in [Loops -> LoopStates] /\ loop'[l].server = None
      /\ \/ loop'[l].pc = "none"
         \/ loop'[l].pc = "sleep" /\ status' = status /\ (state' = "open" => state = "open")
      /\ \A m \in Loops \ {l} : loop'[m] = loop[m]
  <2>1. CASE loop[l].attempt + 1 < CircuitThreshold /\ UNCHANGED <<status, breaker>>
             /\ loop' = [loop EXCEPT ![l].pc = "sleep", ![l].attempt = @ + 1]
    <3>1. loop[l].attempt + 1 \in 0 .. CircuitThreshold - 1
      BY <1>1, <2>1, Bounds
    <3> QED BY <1>0, <1>1, <2>1, <3>1 DEF Typed, LoopStates, breaker
  <2>2. CASE GiveUp(l)
    <3>1. /\ state' \in Fuse!States /\ cooled' \in BOOLEAN /\ successes' = 0
          /\ failures' \in 0 .. CircuitThreshold
      BY <1>0, <2>2, OneFailure DEF GiveUp
    <3>2. CASE state' = "open"
      <4>1. status' = "circuit-open" /\ loop' = [loop EXCEPT ![l] = NoLoop]
        BY <2>2, <3>2 DEF GiveUp
      <4> QED BY <1>0, <3>1, <4>1, EmptyLoop DEF Typed, Statuses
    <3>3. CASE state' # "open"
      <4>1. status' = status /\ loop' = [loop EXCEPT ![l].pc = "sleep", ![l].attempt = 0]
        BY <2>2, <3>3 DEF GiveUp
      <4>2. 0 \in 0 .. CircuitThreshold - 1
        BY Bounds
      <4>3. loop' \in [Loops -> LoopStates]
        <5> DEFINE next == [loop[l] EXCEPT !.pc = "sleep", !.attempt = 0]
        <5>1. loop \in [Loops -> LoopStates] /\ loop[l] \in LoopStates
          BY <1>0 DEF Typed
        <5>2. loop' = [loop EXCEPT ![l] = next]
          BY <4>1, <5>1
        <5>3. next \in LoopStates
          BY <4>2, <5>1 DEF LoopStates
        <5> HIDE DEF next
        <5> QED BY <5>1, <5>2, <5>3
      <4> QED BY <1>0, <1>1, <3>1, <3>3, <4>1, <4>3 DEF Typed
    <3> QED BY <3>2, <3>3
  <2> QED BY <2>1, <2>2 DEF Catch
<1>4. Typed'
  BY <1>0, <1>1, <1>3 DEF Typed
<1>5. Shape' /\ StopLeavesNoCall'
  BY <1>0, <1>1, <1>2, <1>3, EndingKeeps DEF Shape
<1>6. Alone'
  <2> SUFFICES ASSUME ~overlapped
               PROVE  (/\ OnePipeline /\ FuseHolds /\ ClientIsDown /\ OpenIsServed
                       /\ ReadyIsIdle /\ Serving /\ Listing /\ Tidy)'
    BY <1>1 DEF Alone
  <2>1. /\ status # "ready" /\ state # "open" /\ client = None
        /\ \A m \in Loops \ {l} : loop[m].pc = "none" /\ loop[m].server = None
    BY <1>0, <1>1, Lone
  <2>2. OnePipeline' /\ FuseHolds' /\ ClientIsDown' /\ ReadyIsIdle'
    BY <1>0, <1>1, <1>3, <2>1, LoneStep
  <2>3. OpenIsServed' /\ Serving'
    BY <1>0, <1>1, <1>3, <2>1 DEF Alone, OpenIsServed, Serving
  <2>4. Listing'
    BY <1>3, <2>1 DEF Listing
  <2>5. Tidy'
    <3> SUFFICES ASSUME bootFaults = 0, ~stopped, NEW t \in Servers, server[t].life # "none"
                 PROVE  t = client
      BY <1>1 DEF Tidy
    <3>1. ~Booting(t)
      BY <1>1, <2>1, Bounds DEF Booting
    <3> QED BY <1>0, <3>1 DEF Alone, Tidy
  <2> QED BY <2>2, <2>3, <2>4, <2>5
<1> QED BY <1>4, <1>5, <1>6 DEF Inv

-----------------------------------------------------------------------------
(* The servers, the pings and the breaker's clock                            *)

BootingKept == \A t \in Servers : Booting(t) <=> Booting(t)'

LEMMA RestartKeepsBoots == ASSUME Shape, Restarted(loop) PROVE BootingKept
<1> SUFFICES ASSUME NEW t \in Servers PROVE Booting(t) <=> Booting(t)'
  BY DEF BootingKept
<1>1. \A l \in Loops : loop[l].server = t <=> loop'[l].server = t
  BY Bounds DEF Shape, Restarted
<1> QED BY <1>1 DEF Booting

LEMMA LoopsFit == Typed /\ Shape => BaseFits(loop)
<1> QED BY DEF Typed, Shape, BaseFits

\* No pipeline begins.
LEMMA NoNewOverlap ==
  ASSUME Typed, Alone, loop' = loop, overlapped' = overlapped
  PROVE  NoteOverlap
<1> QED BY DEF Typed, Alone, OnePipeline, Running, NoteOverlap

\* A server may only lose what it has, and one that loses its answers is not
\* left behind a supervisor that lets calls through.
Worsens ==
  /\ server' \in [Servers -> ServerStates]
  /\ \A t \in Servers :
       /\ server'[t].current = server[t].current
       /\ server'[t].life # "none" => server[t].life # "none"
       /\ \/ server[t].life \in {"up", "hung"} => server'[t].life \in {"up", "hung"}
          \/ /\ Booting(t) => bootFaults' # 0
             /\ status' = "ready" => stopped \/ ~(hooks /\ server[t].current)

LEMMA NoneWorsens == ASSUME Typed, server' = server PROVE Worsens
<1> QED BY DEF Typed, Worsens

LEMMA WorseningInv ==
  ASSUME Inv, Restarted(loop), NoteOverlap, Ending, Worsens,
         UNCHANGED <<resubmit, hooks, stopped, client>>, healthy' \in BOOLEAN,
         pings' \in 0 .. PingThreshold - 1, hangs' \in 0 .. MaxHangs,
         bootFaults' \in 0 .. MaxBootFaults, bootFaults' = 0 => bootFaults = 0
  PROVE  Inv'
<1>0. Typed /\ Shape /\ StopLeavesNoCall /\ Alone
  BY DEF Inv
<1>1. /\ overlapped' \in BOOLEAN
      /\ \A m \in Loops : loop'[m].server # None <=> loop'[m].pc \in {"init", "list"}
      /\ ~overlapped' => /\ ~overlapped /\ OnePipeline' /\ FuseHolds' /\ ClientIsDown'
                         /\ OpenIsServed' /\ ReadyIsIdle'
  <2>1. \A c \in Calls : call'[c].at = "open" => call'[c] = call[c]
    BY DEF Ending
  <2> QED BY <1>0, <2>1, LoopsFit, RestartedKeeps
<1>2. BootingKept
  BY <1>0, RestartKeepsBoots
<1>3. Typed'
  BY <1>0, <1>1 DEF Typed, Restarted, Ending, Worsens
<1>4. Shape' /\ StopLeavesNoCall'
  BY <1>0, <1>1, EndingKeeps DEF Shape
<1>5. Alone'
  <2> SUFFICES ASSUME ~overlapped'
               PROVE  Serving' /\ Listing' /\ Tidy'
    BY <1>1 DEF Alone
  <2>1. Serving /\ Listing /\ Tidy
    BY <1>0, <1>1 DEF Alone
  <2>2. Serving'
    <3> SUFFICES ASSUME status' = "ready", ~stopped
                 PROVE  /\ client # None /\ server'[client].current /\ state' = "closed"
                        /\ hooks => server'[client].life \in {"up", "hung"}
      BY DEF Serving
    <3>1. status = "ready" /\ state' = state
      BY DEF Restarted
    <3>2. /\ client # None /\ server[client].current /\ state = "closed"
          /\ hooks => server[client].life \in {"up", "hung"}
      BY <2>1, <3>1 DEF Serving
    <3>3. client \in Servers
      BY <1>0, <3>2 DEF Typed
    <3> QED BY <3>1, <3>2, <3>3 DEF Worsens
  <2>3. Listing'
    <3> SUFFICES ASSUME bootFaults' = 0, NEW m \in Loops, loop'[m].pc = "list"
                 PROVE  server'[loop'[m].server].life \in {"up", "hung"}
      BY DEF Listing
    <3>1. loop[m].pc = "list" /\ loop'[m].server = loop[m].server
      BY DEF Restarted
    <3>2. loop[m].server \in Servers /\ Booting(loop[m].server)
      BY <1>0, <3>1 DEF Typed, Shape, LoopStates, Booting
    <3> QED BY <2>1, <3>1, <3>2 DEF Listing, Worsens
  <2>4. Tidy'
    <3> SUFFICES ASSUME bootFaults' = 0, ~stopped, NEW t \in Servers, server'[t].life # "none"
                 PROVE  t = client \/ Booting(t)'
      BY DEF Tidy
    <3>1. server[t].life # "none"
      BY DEF Worsens
    <3> QED BY <1>2, <2>1, <3>1 DEF Tidy, BootingKept
  <2> QED BY <2>2, <2>3, <2>4
<1> QED BY <1>3, <1>4, <1>5 DEF Inv

LEMMA CrashInv == ASSUME Inv, NEW s \in Servers, Crash(s) PROVE Inv'
<1>0. Typed /\ Shape /\ StopLeavesNoCall /\ Alone
  BY DEF Inv
<1>1. /\ server[s].life \in {"up", "hung"} /\ server' = [server EXCEPT ![s].life = "lost"]
      /\ call' = [c \in Calls |-> IF c \in OpenOn(s) THEN Out(c, "failed") ELSE call[c]]
      /\ Exit(s, loop) /\ NoteOverlap
      /\ UNCHANGED <<resubmit, hooks, stopped, client, pings, healthy, hangs>>
  BY DEF Crash, built
<1>2. /\ \/ bootFaults < MaxBootFaults /\ bootFaults' = bootFaults + 1
         \/ ~Booting(s) /\ bootFaults' = bootFaults
  BY DEF Crash
<1>3. /\ bootFaults' \in 0 .. MaxBootFaults /\ (bootFaults' = 0 => bootFaults = 0)
      /\ Booting(s) => bootFaults' # 0
  BY <1>0, <1>2, Bounds DEF Typed
<1>4. Restarted(loop) /\ (status' = "ready" => stopped \/ ~(hooks /\ server[s].current))
  BY <1>0, <1>1, LoopsFit, Exited
<1>5. Ending
  <2> SUFFICES ASSUME NEW c \in Calls
               PROVE  /\ call'[c] \in CallStates /\ call'[c].sent = call[c].sent
                      /\ call'[c] = call[c] \/ call'[c].at = "failed"
    BY <1>1 DEF Ending
  <2> QED BY <1>0, <1>1, OutIs DEF Typed
<1>6. Worsens
  <2>1. /\ server' \in [Servers -> ServerStates] /\ server'[s].current = server[s].current
        /\ \A t \in Servers \ {s} : server'[t] = server[t]
    BY <1>0, <1>1 DEF Typed, ServerStates
  <2> QED BY <1>1, <1>3, <1>4, <2>1 DEF Worsens
<1> QED BY <1>0, <1>1, <1>3, <1>4, <1>5, <1>6, WorseningInv DEF Typed

LEMMA InnerRestartInv == ASSUME Inv, NEW s \in Servers, InnerRestart(s) PROVE Inv'
<1>0. Typed /\ Shape /\ StopLeavesNoCall /\ Alone
  BY DEF Inv
<1>1. /\ server[s].life = "lost" /\ ~Booting(s) /\ NoteOverlap
      /\ UNCHANGED <<resubmit, hooks, stopped, client, call, pings, healthy, bootFaults, hangs>>
  BY DEF InnerRestart, built, budget
<1>2. \/ /\ server' = [server EXCEPT ![s].life = "up"]
         /\ UNCHANGED <<status, breaker, loop>>
      \/ /\ server' = [server EXCEPT ![s].life = "none"]
         /\ Exit(s, loop)
  BY DEF InnerRestart
<1>3. Restarted(loop)
  BY <1>0, <1>2, LoopsFit, NotTriggered, Exited
<1>4. Ending
  BY <1>0, <1>1, NoneEnds
<1>5. Worsens
  <2>1. /\ server' \in [Servers -> ServerStates] /\ server'[s].current = server[s].current
        /\ \A t \in Servers \ {s} : server'[t] = server[t]
    BY <1>0, <1>2 DEF Typed, ServerStates
  <2> QED BY <1>1, <2>1 DEF Worsens
<1> QED BY <1>0, <1>1, <1>3, <1>4, <1>5, WorseningInv DEF Typed

LEMMA OrphanDiesInv == ASSUME Inv, NEW s \in Servers, OrphanDies(s) PROVE Inv'
<1>0. Typed /\ Shape /\ StopLeavesNoCall /\ Alone
  BY DEF Inv
<1>1. /\ server[s].life = "orphan" /\ server' = [server EXCEPT ![s].life = "none"]
      /\ UNCHANGED <<resubmit, hooks, status, stopped, breaker, client, loop, call, pings,
                     healthy, bootFaults, hangs, overlapped>>
  BY DEF OrphanDies, built, budget
<1>2. Restarted(loop) /\ NoteOverlap /\ Ending
  BY <1>0, <1>1, LoopsFit, NotTriggered, NoNewOverlap, NoneEnds
<1>3. Worsens
  <2>1. /\ server' \in [Servers -> ServerStates] /\ server'[s].current = server[s].current
        /\ server'[s].life = "none" /\ \A t \in Servers \ {s} : server'[t] = server[t]
    BY <1>0, <1>1 DEF Typed, ServerStates
  <2> QED BY <1>1, <2>1 DEF Worsens
<1> QED BY <1>0, <1>1, <1>2, <1>3, WorseningInv DEF Typed

LEMMA HangInv == ASSUME Inv, NEW s \in Servers, Hang(s) PROVE Inv'
<1>0. Typed /\ Shape /\ StopLeavesNoCall /\ Alone
  BY DEF Inv
<1>1. /\ hangs < MaxHangs /\ server[s].life \in {"booting", "up"}
      /\ server' = [server EXCEPT ![s].life = "hung"] /\ hangs' = hangs + 1
      /\ UNCHANGED <<resubmit, hooks, status, stopped, breaker, client, loop, call, pings,
                     healthy, bootFaults, overlapped>>
  BY DEF Hang, built
<1>2. hangs' \in 0 .. MaxHangs
  BY <1>0, <1>1, Bounds DEF Typed
<1>3. Restarted(loop) /\ NoteOverlap /\ Ending
  BY <1>0, <1>1, LoopsFit, NotTriggered, NoNewOverlap, NoneEnds
<1>4. Worsens
  <2>1. /\ server' \in [Servers -> ServerStates] /\ server'[s].current = server[s].current
        /\ server'[s].life = "hung" /\ \A t \in Servers \ {s} : server'[t] = server[t]
    BY <1>0, <1>1 DEF Typed, ServerStates
  <2> QED BY <1>1, <2>1 DEF Worsens
<1> QED BY <1>0, <1>1, <1>2, <1>3, <1>4, WorseningInv DEF Typed

LEMMA PingInv == ASSUME Inv, Ping PROVE Inv'
<1>0. Typed /\ Shape /\ StopLeavesNoCall /\ Alone
  BY DEF Inv
<1>1. /\ NoteOverlap
      /\ UNCHANGED <<resubmit, hooks, stopped, client, server, call, healthy, bootFaults, hangs>>
  BY DEF Ping, built, budget
<1>2. \/ pings' = 0 /\ UNCHANGED <<status, breaker, loop>>
      \/ pings' = 0 /\ Trigger(loop, state # Fuse!Seen)
      \/ /\ ~(pings + 1 >= PingThreshold) /\ pings' = pings + 1
         /\ UNCHANGED <<status, breaker, loop>>
  BY DEF Ping, FailedPing
<1>3. pings' \in 0 .. PingThreshold - 1
  BY <1>0, <1>2, Bounds DEF Typed
<1>4. (state # Fuse!Seen) \in BOOLEAN
  OBVIOUS
<1>5. Restarted(loop)
  BY <1>0, <1>2, <1>4, LoopsFit, NotTriggered, Triggered
<1> QED BY <1>0, <1>1, <1>3, <1>5, NoneEnds, NoneWorsens, WorseningInv DEF Typed

LEMMA LookInv == ASSUME Inv, Look PROVE Inv'
<1>0. Typed /\ Shape /\ StopLeavesNoCall /\ Alone
  BY DEF Inv
<1>1. /\ Trigger(loop, FALSE) /\ NoteOverlap
      /\ UNCHANGED <<resubmit, hooks, stopped, client, server, call, pings, healthy,
                     bootFaults, hangs>>
  BY DEF Look, built, budget
<1>2. Restarted(loop)
  BY <1>0, <1>1, LoopsFit, Triggered
<1> QED BY <1>0, <1>1, <1>2, NoneEnds, NoneWorsens, WorseningInv DEF Typed

LEMMA CoolDownInv == ASSUME Inv, CoolDown PROVE Inv'
<1>0. Typed /\ Shape /\ StopLeavesNoCall /\ Alone
  BY DEF Inv
<1>1. /\ cooled' = TRUE
      /\ UNCHANGED <<resubmit, hooks, status, stopped, state, failures, successes, client,
                     server, loop, call, pings, healthy, bootFaults, hangs, overlapped>>
  BY DEF CoolDown, Fuse!CoolDown, built, budget
<1>2. Restarted(loop)
  BY <1>0, <1>1 DEF Restarted, Typed
<1> QED BY <1>0, <1>1, <1>2, NoNewOverlap, NoneEnds, NoneWorsens, WorseningInv DEF Typed

LEMMA HealthChangesInv == ASSUME Inv, HealthChanges PROVE Inv'
<1>0. Typed /\ Shape /\ StopLeavesNoCall /\ Alone
  BY DEF Inv
<1>1. /\ healthy' \in BOOLEAN
      /\ UNCHANGED <<resubmit, hooks, status, stopped, breaker, client, server, loop, call,
                     pings, bootFaults, hangs, overlapped>>
  BY DEF HealthChanges, built, budget
<1>2. Restarted(loop)
  BY <1>0, <1>1, LoopsFit, NotTriggered
<1> QED BY <1>0, <1>1, <1>2, NoNewOverlap, NoneEnds, NoneWorsens, WorseningInv DEF Typed

LEMMA StutterInv == ASSUME Inv, UNCHANGED vars PROVE Inv'
<1>0. Typed /\ Shape /\ StopLeavesNoCall /\ Alone
  BY DEF Inv
<1>1. UNCHANGED <<resubmit, hooks, status, stopped, breaker, client, server, loop, call,
                  pings, healthy, bootFaults, hangs, overlapped>>
  BY DEF vars, built, budget
<1>2. Restarted(loop)
  BY <1>0, <1>1, LoopsFit, NotTriggered
<1> QED BY <1>0, <1>1, <1>2, NoNewOverlap, NoneEnds, NoneWorsens, WorseningInv DEF Typed

-----------------------------------------------------------------------------
(* Tool calls and the operator                                               *)

LEMMA CallInv == ASSUME Inv, NEW c \in Calls, Call(c) PROVE Inv'
<1>0. Typed /\ Shape /\ StopLeavesNoCall /\ Alone
  BY DEF Inv
<1>1. /\ ~stopped /\ client # None /\ call[c].at = "idle"
      /\ call' = [call EXCEPT ![c] = [at |-> "open", on |-> client, sent |-> 1]]
      /\ UNCHANGED <<resubmit, hooks, status, stopped, state, failures, successes, cooled,
                     client, server, loop, pings, healthy, bootFaults, hangs, overlapped>>
  BY DEF Call, built, breaker, budget
<1>2. [at |-> "open", on |-> client, sent |-> 1] \in CallStates
  BY <1>0 DEF Typed, CallStates
<1>3. /\ call' \in [Calls -> CallStates]
      /\ call'[c].at = "open" /\ call'[c].on = client /\ call'[c].sent = 1
      /\ \A d \in Calls \ {c} : call'[d] = call[d]
  BY <1>0, <1>1, <1>2 DEF Typed
<1>4. Typed'
  BY <1>0, <1>1, <1>3 DEF Typed
<1>5. Shape'
  BY <1>0, <1>1, <1>3 DEF Shape
<1>6. StopLeavesNoCall'
  BY <1>1 DEF StopLeavesNoCall
<1>7. Alone'
  <2> SUFFICES ASSUME ~overlapped
               PROVE  (/\ OnePipeline /\ FuseHolds /\ ClientIsDown /\ OpenIsServed
                       /\ ReadyIsIdle /\ Serving /\ Listing /\ Tidy)'
    BY <1>1 DEF Alone
  <2>1. /\ OnePipeline /\ FuseHolds /\ ClientIsDown /\ OpenIsServed
        /\ ReadyIsIdle /\ Serving /\ Listing /\ Tidy
    BY <1>0 DEF Alone
  <2>2. OnePipeline' /\ FuseHolds' /\ ClientIsDown' /\ ReadyIsIdle'
    BY <1>1, <2>1 DEF OnePipeline, FuseHolds, ClientIsDown, ReadyIsIdle, Running
  <2>3. OpenIsServed'
    BY <1>1, <1>3, <2>1 DEF OpenIsServed
  <2>4. Serving' /\ Listing' /\ Tidy'
    BY <1>1, <2>1 DEF Serving, Listing, Tidy, Booting
  <2> QED BY <2>2, <2>3, <2>4
<1> QED BY <1>4, <1>5, <1>6, <1>7 DEF Inv

LEMMA SettleInv == ASSUME Inv, NEW c \in Calls, Settle(c) PROVE Inv'
<1>0. Typed /\ Shape /\ StopLeavesNoCall /\ Alone
  BY DEF Inv
<1>1. /\ \E at \in {"answered", "failed"} : call' = [call EXCEPT ![c] = Out(c, at)]
      /\ UNCHANGED <<resubmit, hooks, status, stopped, breaker, client, server, loop,
                     pings, healthy, bootFaults, hangs, overlapped>>
  BY DEF Settle, built, budget
<1>2. Ending
  <2>1. PICK at \in {"answered", "failed"} : call' = [call EXCEPT ![c] = Out(c, at)]
    BY <1>1
  <2>2. Out(c, at) \in CallStates /\ Out(c, at).at = at /\ Out(c, at).sent = call[c].sent
    BY <1>0, OutIs
  <2> QED BY <1>0, <2>1, <2>2 DEF Typed, Ending
<1>3. Restarted(loop)
  BY <1>0, <1>1, LoopsFit, NotTriggered
<1> QED BY <1>0, <1>1, <1>2, <1>3, NoNewOverlap, NoneWorsens, WorseningInv DEF Typed

LEMMA StopInv == ASSUME Inv, Stop PROVE Inv'
<1>0. Typed /\ Shape /\ StopLeavesNoCall /\ Alone
  BY DEF Inv
<1>1. /\ stopped' = TRUE /\ status' = "stopped" /\ client' = None
      /\ server' = [s \in Servers |-> IF s = client THEN NoServer ELSE server[s]]
      /\ loop' = [l \in Loops |-> [loop[l] EXCEPT !.cut = loop[l].pc = "drain"]]
      /\ call' = Rejected
      /\ UNCHANGED <<resubmit, hooks, state, failures, successes, cooled, pings, healthy,
                     bootFaults, hangs, overlapped>>
  BY DEF Stop, built, breaker, budget
<1>2. ASSUME NEW c \in Calls
      PROVE  /\ call'[c] \in CallStates /\ call'[c].at \notin {"open", "deferred"}
             /\ call'[c].sent = call[c].sent /\ (call'[c].at = "idle" => call[c].at = "idle")
  BY <1>0, <1>1, OutIs DEF Rejected, Registered, Typed
<1>3. \A l \in Loops : /\ loop'[l] \in LoopStates /\ loop'[l].pc = loop[l].pc
                       /\ loop'[l].server = loop[l].server
  <2> SUFFICES ASSUME NEW l \in Loops
               PROVE  /\ loop'[l] \in LoopStates /\ loop'[l].pc = loop[l].pc
                      /\ loop'[l].server = loop[l].server
    OBVIOUS
  <2>1. loop[l] \in LoopStates
    BY <1>0 DEF Typed
  <2>2. loop'[l] = [loop[l] EXCEPT !.cut = loop[l].pc = "drain"]
    BY <1>1
  <2> QED BY <2>1, <2>2 DEF LoopStates
<1>4. /\ server' \in [Servers -> ServerStates]
      /\ \A s \in Servers \ {client} : server'[s] = server[s]
  BY <1>0, <1>1 DEF Typed, NoServer, ServerStates
<1>5. loop' \in [Loops -> LoopStates] /\ call' \in [Calls -> CallStates]
  BY <1>1, <1>2, <1>3 DEF Rejected
<1>6. Typed'
  BY <1>0, <1>1, <1>4, <1>5 DEF Typed, Statuses
<1>7. Shape' /\ StopLeavesNoCall'
  BY <1>0, <1>2, <1>3 DEF Shape, StopLeavesNoCall, Registered
<1>8. Alone'
  <2> SUFFICES ASSUME ~overlapped
               PROVE  (/\ OnePipeline /\ FuseHolds /\ ClientIsDown /\ OpenIsServed
                       /\ ReadyIsIdle /\ Serving /\ Listing /\ Tidy)'
    BY <1>1 DEF Alone
  <2>1. OnePipeline /\ FuseHolds /\ ClientIsDown /\ Listing
    BY <1>0 DEF Alone
  <2>2. OnePipeline' /\ FuseHolds' /\ ClientIsDown'
    BY <1>1, <1>3, <2>1 DEF OnePipeline, FuseHolds, ClientIsDown, Running
  <2>3. OpenIsServed' /\ ReadyIsIdle' /\ Serving' /\ Tidy'
    BY <1>1, <1>2 DEF OpenIsServed, ReadyIsIdle, Serving, Tidy
\* The client that stop() takes down is not the one a pipeline boots.
  <2>4. Listing'
    <3> SUFFICES ASSUME bootFaults = 0, NEW m \in Loops, loop[m].pc = "list"
                 PROVE  server'[loop[m].server].life \in {"up", "hung"}
      BY <1>1, <1>3 DEF Listing
    <3>1. client = None /\ loop[m].server \in Servers
      BY <1>0, <2>1 DEF ClientIsDown, Running, Typed, Shape, LoopStates
    <3> QED BY <1>4, <2>1, <3>1, Bounds DEF Listing
  <2> QED BY <2>2, <2>3, <2>4
<1> QED BY <1>6, <1>7, <1>8 DEF Inv

-----------------------------------------------------------------------------
(* Theorems                                                                  *)

LEMMA StepInv == Inv /\ [Next]_vars => Inv'
<1> SUFFICES ASSUME Inv, [Next]_vars PROVE Inv'
  OBVIOUS
<1>1. ASSUME NEW l \in Loops, Pipeline(l) PROVE Inv'
  BY <1>1, RespawnInv, WakeInv, InitializedInv, InitFailsInv, BootsInv, BootIsStaleInv,
     ListFailsInv, CatchInv DEF Pipeline
<1>2. ASSUME NEW s \in Servers, Crash(s) \/ OrphanDies(s) \/ InnerRestart(s) \/ Hang(s)
      PROVE  Inv'
  BY <1>2, CrashInv, OrphanDiesInv, InnerRestartInv, HangInv
<1>3. ASSUME NEW c \in Calls, Call(c) \/ Settle(c) PROVE Inv'
  BY <1>3, CallInv, SettleInv
<1>4. CASE Look \/ Ping \/ Stop \/ CoolDown \/ HealthChanges
  BY <1>4, LookInv, PingInv, StopInv, CoolDownInv, HealthChangesInv
<1>5. CASE UNCHANGED vars
  BY <1>5, StutterInv
<1> QED BY <1>1, <1>2, <1>3, <1>4, <1>5 DEF Next

\* The invariant holds for any calls, thresholds and bounds.
THEOREM AlwaysInv == Spec => []Inv
<1> QED BY InitInv, StepInv, PTL DEF Spec

\* Type correctness (supervisor.ts, the fields of ReconnectingMcpClient).
THEOREM TypeCorrect == Spec => []TypeOK
<1>1. Inv => TypeOK
  BY TypedIsTypeOK DEF Inv
<1> QED BY <1>1, AlwaysInv, PTL

\* callTool lets a call through only to a client of the current generation, its
\* server there and the circuit closed (callTool, triggerRestart, onExit).
THEOREM ReadyServes == Spec => []ReadyIsServing
<1>1. Inv => ReadyIsServing
  BY DEF Inv, Alone, Serving, ReadyIsServing
<1> QED BY <1>1, AlwaysInv, PTL

\* drainThenRespawn and runRestartLoop tear down every client they replace but
\* for a failed tools/list, a malformed answer to initialize, two pipelines at once
\* and a stop during a boot: no other course leaves a server process behind.
THEOREM NothingStray == Spec => []NoStrayServer
<1>1. Inv => NoStrayServer
  BY DEF Inv, Typed, Alone, Tidy, Stray, NoStrayServer
<1> QED BY <1>1, AlwaysInv, PTL

\* stop() leaves no call pending, and no pipeline that outlives it sends one
\* again (stop, resubmitStashedCalls).
THEOREM StoppedLeavesNoCall == Spec => []StopLeavesNoCall
<1>1. Inv => StopLeavesNoCall
  BY DEF Inv
<1> QED BY <1>1, AlwaysInv, PTL

\* How often a call was sent: only a new call and a boot change it.
LEMMA WhoSends ==
  ASSUME Typed, Shape, [Next]_vars
  PROVE  \/ \E l \in Loops : Boots(l)
         \/ \E d \in Calls : Call(d)
         \/ \A c \in Calls : call'[c].sent = call[c].sent
<1>1. ASSUME NEW l \in Loops, Pipeline(l), ~Boots(l)
      PROVE  \A c \in Calls : call'[c].sent = call[c].sent
  <2>1. CASE Respawn(l)
    <3>1. call' = [c \in Calls |-> Handover(c, loop[l].active \cap Registered)]
      BY <2>1 DEF Respawn
    <3> QED BY <3>1, HandoverEnds DEF Ending
  <2>2. CASE Wake(l) \/ Initialized(l) \/ InitFails(l) \/ InitMalformed(l)
    BY <2>2 DEF Wake, Initialized, InitFails, InitMalformed
  <2>3. CASE BootIsStale(l) \/ ListFails(l) \/ Catch(l)
    BY <2>3 DEF BootIsStale, ListFails, Catch
  <2> QED BY <1>1, <2>1, <2>2, <2>3 DEF Pipeline
<1>2. ASSUME NEW s \in Servers, Crash(s) \/ OrphanDies(s) \/ InnerRestart(s) \/ Hang(s)
      PROVE  \A c \in Calls : call'[c].sent = call[c].sent
  <2>1. CASE Crash(s)
    <3>1. call' = [c \in Calls |-> IF c \in OpenOn(s) THEN Out(c, "failed") ELSE call[c]]
      BY <2>1 DEF Crash
    <3> QED BY <3>1, OutIs
  <2>2. CASE OrphanDies(s) \/ InnerRestart(s) \/ Hang(s)
    BY <2>2 DEF OrphanDies, InnerRestart, Hang
  <2> QED BY <1>2, <2>1, <2>2
<1>3. ASSUME NEW d \in Calls, Settle(d)
      PROVE  \A c \in Calls : call'[c].sent = call[c].sent
  <2>1. PICK at \in {"answered", "failed"} : call' = [call EXCEPT ![d] = Out(d, at)]
    BY <1>3 DEF Settle
  <2> QED BY <2>1, OutIs DEF Typed
<1>4. CASE Stop
  <2>1. call' = Rejected
    BY <1>4 DEF Stop
  <2> QED BY <2>1, OutIs DEF Rejected
<1>5. CASE Look \/ Ping \/ CoolDown \/ HealthChanges \/ UNCHANGED vars
  BY <1>5 DEF Look, Ping, CoolDown, HealthChanges, vars
<1> QED BY <1>1, <1>2, <1>3, <1>4, <1>5 DEF Next

\* resubmitStashedCalls sends a call again only on a supervisor built to, and
\* only after the drain has taken it from the client it was sent to.
THEOREM ResentAfterTeardown == Spec => ResentAfterLoss
<1> DEFINE Loss == \A c \in Calls :
      ~overlapped /\ call[c].sent > 0 /\ call'[c].sent # call[c].sent
        => resubmit /\ call[c].at = "deferred"
<1>1. ASSUME Inv, [Next]_vars PROVE Loss
  <2> SUFFICES ASSUME NEW c \in Calls, ~overlapped, call[c].sent > 0,
                      call'[c].sent # call[c].sent
               PROVE  resubmit /\ call[c].at = "deferred"
    OBVIOUS
  <2>0. Typed /\ Shape /\ Alone
    BY <1>1 DEF Inv
  <2>1. CASE \E l \in Loops : Boots(l)
    <3>1. PICK l \in Loops : Boots(l)
      BY <2>1
    <3>2. loop[l].pc = "list" /\ c \in Registered /\ resubmit
      BY <2>0, <3>1 DEF Boots, Typed
    <3>3. client = None
      BY <2>0, <3>2, Lone
    <3> QED BY <2>0, <3>2, <3>3 DEF Alone, OpenIsServed, Registered
  <2>2. CASE \E d \in Calls : Call(d)
    <3>1. PICK d \in Calls : Call(d)
      BY <2>2
    <3>2. call[d].at = "idle" /\ (c # d => call'[c] = call[c])
      BY <2>0, <3>1 DEF Call, Typed
    <3> QED BY <2>0, <3>2 DEF Shape
  <2> QED BY <1>1, <2>0, <2>1, <2>2, WhoSends
<1> QED BY <1>1, AlwaysInv, PTL DEF Spec, ResentAfterLoss
-----------------------------------------------------------------------------
(* Calls that nobody will settle.  The drain of a pipeline that is alone waits *)
(* for all calls in flight: it began with them, and none is let through while  *)
(* it lasts.  What it did not see settle is therefore rejected at its end.     *)

DrainCovers == \A l \in Loops : loop[l].pc = "drain" => InFlight \subseteq loop[l].active

OrphanInv == ~overlapped => DrainCovers /\ NoOrphanCall

\* A drain goes on with its calls, or begins with those in flight.
Drains(base) ==
  \A l \in Loops : loop'[l].pc = "drain" =>
    \/ base[l].pc = "drain" /\ loop'[l].active = base[l].active
    \/ loop'[l].active = InFlight

LEMMA TriggeredDrains ==
  ASSUME NEW base \in [Loops -> LoopStates], NEW cut, Trigger(base, cut)
  PROVE  Drains(base)
<1>1. CASE loop' = base
  BY <1>1 DEF Drains
<1>2. CASE loop' = [l \in Loops |-> [base[l] EXCEPT !.cut = @ \/ base[l].pc = "drain"]]
  <2>1. ASSUME NEW l \in Loops
        PROVE  loop'[l].pc = base[l].pc /\ loop'[l].active = base[l].active
    BY <1>2 DEF LoopStates
  <2> QED BY <2>1 DEF Drains
<1>3. ASSUME NEW l \in FreeLoop, loop' = [base EXCEPT ![l] =
               [NoLoop EXCEPT !.pc = "drain", !.active = InFlight, !.cut = cut]]
      PROVE  Drains(base)
  <2>1. l \in Loops
    BY DEF FreeLoop
  <2>2. loop'[l].active = InFlight /\ \A m \in Loops \ {l} : loop'[m] = base[m]
    BY <1>3, <2>1 DEF NoLoop
  <2> QED BY <2>2 DEF Drains
<1> QED BY <1>1, <1>2, <1>3 DEF Trigger

LEMMA ExitedDrains ==
  ASSUME NEW base \in [Loops -> LoopStates], NEW s, Exit(s, base)
  PROVE  Drains(base)
<1>1. CASE Trigger(base, state # Fuse!Seen)
  BY <1>1, TriggeredDrains
<1>2. CASE loop' = base
  BY <1>2 DEF Drains
<1> QED BY <1>1, <1>2 DEF Exit

\* Calls may end meanwhile.
LEMMA OrphanKeeps ==
  ASSUME OrphanInv, overlapped => overlapped', resubmit' = resubmit,
         \A c \in Calls : call'[c] = call[c] \/ call'[c].at \notin {"open", "deferred"},
         Drains(loop)
  PROVE  OrphanInv'
<1> SUFFICES ASSUME ~overlapped' PROVE DrainCovers' /\ NoOrphanCall'
  BY DEF OrphanInv
<1>1. DrainCovers /\ NoOrphanCall
  BY DEF OrphanInv
<1>2. InFlight' \subseteq InFlight
  BY DEF InFlight
<1>3. DrainCovers'
  BY <1>1, <1>2 DEF DrainCovers, Drains
<1>4. NoOrphanCall'
  BY <1>1 DEF NoOrphanCall
<1> QED BY <1>3, <1>4

\* The same for a pipeline that is not draining any more when it moves on.
LEMMA OrphanMoves ==
  ASSUME Typed, OrphanInv, overlapped => overlapped', UNCHANGED <<resubmit, call>>,
         NEW base \in [Loops -> LoopStates], Drains(base),
         \A m \in Loops : base[m].pc = "drain" => base[m] = loop[m]
  PROVE  OrphanInv'
<1>1. Drains(loop)
  BY DEF Drains
<1> QED BY <1>1, OrphanKeeps

LEMMA PipelineOrphans ==
  ASSUME Inv, OrphanInv, NEW l \in Loops, Pipeline(l)
  PROVE  OrphanInv'
<1>0. Typed /\ Shape /\ Alone
  BY DEF Inv
<1>1. loop \in [Loops -> LoopStates] /\ call \in [Calls -> CallStates]
  BY <1>0 DEF Typed
<1>2. CASE Respawn(l)
  <2>1. /\ loop[l].pc = "drain" /\ loop' = [loop EXCEPT ![l] = [NoLoop EXCEPT !.pc = "sleep"]]
        /\ call' = [c \in Calls |-> Handover(c, loop[l].active \cap Registered)]
        /\ UNCHANGED <<resubmit, overlapped>>
    BY <1>2 DEF Respawn, built
  <2> SUFFICES ASSUME ~overlapped PROVE DrainCovers' /\ NoOrphanCall'
    BY <2>1 DEF OrphanInv
  <2>2. InFlight \subseteq loop[l].active \cap Registered
    BY <2>1 DEF OrphanInv, DrainCovers, InFlight, Registered
  <2>3. DrainCovers'
    <3>1. loop'[l].pc = "sleep" /\ \A m \in Loops \ {l} : loop'[m] = loop[m]
      BY <1>1, <2>1 DEF NoLoop
    <3>2. \A m \in Loops \ {l} : loop[m].pc = "none"
      BY <1>0, <2>1, Lone
    <3> QED BY <3>1, <3>2 DEF DrainCovers
  <2>4. NoOrphanCall'
    <3> SUFFICES ASSUME NEW c \in Calls, call'[c].at = "deferred" PROVE resubmit
      BY <2>1 DEF NoOrphanCall
    <3>1. call'[c] = Handover(c, loop[l].active \cap Registered)
      BY <2>1
    <3>2. CASE c \in InFlight
      <4> SUFFICES ASSUME ~resubmit PROVE FALSE
        OBVIOUS
      <4>1. call'[c] = Out(c, "failed")
        BY <2>2, <3>1, <3>2 DEF Handover
      <4> QED BY <1>0, <4>1, OutIs
    <3>3. CASE c \notin InFlight
      <4>1. call'[c] = Out(c, "failed") \/ call'[c] = call[c]
        BY <3>1, <3>3 DEF Handover
      <4> QED BY <1>0, <4>1, OutIs DEF OrphanInv, NoOrphanCall
    <3> QED BY <3>2, <3>3
  <2> QED BY <2>3, <2>4
<1>3. CASE Wake(l)
  <2>1. UNCHANGED <<resubmit, overlapped, call>>
    BY <1>3 DEF Wake, built
  <2>2. CASE loop' = [loop EXCEPT ![l] = NoLoop]
    <3>1. loop'[l].pc = "none" /\ \A m \in Loops \ {l} : loop'[m] = loop[m]
      BY <1>1, <2>2, EmptyLoop
    <3> QED BY <2>1, <3>1, OrphanKeeps DEF Drains
  <2>3. ASSUME NEW s \in Servers, loop' = Moved(l, "init", s) PROVE OrphanInv'
    <3>1. loop'[l].pc = "init" /\ \A m \in Loops \ {l} : loop'[m] = loop[m]
      BY <1>0, <2>3, MovesOn
    <3> QED BY <2>1, <3>1, OrphanKeeps DEF Drains
  <2>4. ASSUME NEW s \in FreeServer, loop' = [loop EXCEPT ![l].pc = "init", ![l].server = s]
        PROVE  OrphanInv'
    BY <2>3, <2>4 DEF FreeServer, Moved
  <2> QED BY <1>3, <2>2, <2>4 DEF Wake
<1>4. CASE Initialized(l)
  <2>1. UNCHANGED <<resubmit, overlapped, call>> /\ loop' = [loop EXCEPT ![l].pc = "list"]
    BY <1>4 DEF Initialized, built
  <2>2. loop'[l].pc = "list" /\ \A m \in Loops \ {l} : loop'[m] = loop[m]
    BY <1>1, <2>1 DEF LoopStates
  <2> QED BY <2>1, <2>2, OrphanKeeps DEF Drains
<1>5. CASE InitFails(l) \/ InitMalformed(l)
  <2>1. /\ UNCHANGED <<resubmit, call>> /\ NoteOverlap
        /\ Exit(loop[l].server, Moved(l, "caught", None))
    BY <1>5 DEF InitFails, InitMalformed, built, Moved
  <2>2. /\ Moved(l, "caught", None) \in [Loops -> LoopStates]
        /\ Moved(l, "caught", None)[l].pc = "caught"
        /\ \A m \in Loops \ {l} : Moved(l, "caught", None)[m] = loop[m]
    BY <1>0, MovesOn
  <2>3. Drains(Moved(l, "caught", None))
    BY <2>1, <2>2, ExitedDrains
  <2>4. overlapped => overlapped'
    BY <2>1 DEF NoteOverlap
  <2> QED BY <1>0, <2>1, <2>2, <2>3, <2>4, OrphanMoves
<1>6. CASE Boots(l)
  <2>1. /\ loop[l].pc = "list" /\ loop' = [loop EXCEPT ![l] = NoLoop] /\ UNCHANGED <<resubmit, overlapped>>
        /\ \A c \in Calls : call'[c] = call[c] \/ call'[c].at = "open"
    BY <1>6 DEF Boots, built
  <2> SUFFICES ASSUME ~overlapped PROVE DrainCovers' /\ NoOrphanCall'
    BY <2>1 DEF OrphanInv
  <2>2. \A m \in Loops \ {l} : loop[m].pc = "none"
    BY <1>0, <2>1, Lone
  <2>3. loop'[l].pc = "none" /\ \A m \in Loops \ {l} : loop'[m] = loop[m]
    BY <1>1, <2>1, EmptyLoop
  <2> QED BY <2>1, <2>2, <2>3 DEF OrphanInv, DrainCovers, NoOrphanCall
<1>7. CASE BootIsStale(l) \/ ListFails(l)
  <2>1. UNCHANGED <<resubmit, overlapped, call>> /\ loop' = Moved(l, "caught", None)
    BY <1>7 DEF BootIsStale, ListFails, built, Moved
  <2>2. loop'[l].pc = "caught" /\ \A m \in Loops \ {l} : loop'[m] = loop[m]
    BY <1>0, <2>1, MovesOn
  <2> QED BY <2>1, <2>2, OrphanKeeps DEF Drains
<1>8. CASE Catch(l)
  <2>1. UNCHANGED <<resubmit, overlapped, call>>
    BY <1>8 DEF Catch, built
  <2>2. \A m \in Loops : loop'[m].pc = "drain" => loop'[m] = loop[m]
    <3>1. CASE loop' = [loop EXCEPT ![l].pc = "sleep", ![l].attempt = @ + 1]
      BY <1>1, <3>1 DEF LoopStates
    <3>2. CASE loop' = [loop EXCEPT ![l] = NoLoop]
      BY <1>1, <3>2, EmptyLoop
    <3>3. CASE loop' = [loop EXCEPT ![l].pc = "sleep", ![l].attempt = 0]
      BY <1>1, <3>3 DEF LoopStates
    <3> QED BY <1>8, <3>1, <3>2, <3>3 DEF Catch, GiveUp
  <2> QED BY <2>1, <2>2, OrphanKeeps DEF Drains
<1> QED BY <1>2, <1>3, <1>4, <1>5, <1>6, <1>7, <1>8 DEF Pipeline

LEMMA OrphanStep == Inv /\ OrphanInv /\ [Next]_vars => OrphanInv'
<1> SUFFICES ASSUME Inv, OrphanInv, [Next]_vars PROVE OrphanInv'
  OBVIOUS
<1>0. Typed /\ Shape /\ Alone
  BY DEF Inv
<1>1. loop \in [Loops -> LoopStates] /\ call \in [Calls -> CallStates]
  BY <1>0 DEF Typed
<1>2. NoteOverlap => (overlapped => overlapped')
  BY DEF NoteOverlap
<1>3. loop' = loop => Drains(loop)
  BY DEF Drains
<1>4. ASSUME NEW s \in Servers, Crash(s) PROVE OrphanInv'
  <2>1. /\ NoteOverlap /\ resubmit' = resubmit /\ Exit(s, loop)
        /\ call' = [c \in Calls |-> IF c \in OpenOn(s) THEN Out(c, "failed") ELSE call[c]]
    BY <1>4 DEF Crash, built
  <2>2. \A c \in Calls : call'[c] = call[c] \/ call'[c].at = "failed"
    BY <1>0, <2>1, OutIs
  <2> QED BY <1>1, <1>2, <2>1, <2>2, ExitedDrains, OrphanKeeps
<1>5. ASSUME NEW s \in Servers, InnerRestart(s) PROVE OrphanInv'
  <2>1. NoteOverlap /\ UNCHANGED <<resubmit, call>> /\ (loop' = loop \/ Exit(s, loop))
    BY <1>5 DEF InnerRestart, built
  <2> QED BY <1>1, <1>2, <1>3, <2>1, ExitedDrains, OrphanKeeps
<1>6. ASSUME NEW s \in Servers, OrphanDies(s) \/ Hang(s) PROVE OrphanInv'
  BY <1>3, <1>6, OrphanKeeps DEF OrphanDies, Hang, built
<1>7. ASSUME NEW c \in Calls, Call(c) PROVE OrphanInv'
  <2>1. /\ status = "ready" /\ UNCHANGED <<resubmit, overlapped, loop>>
        /\ call' = [call EXCEPT ![c] = [at |-> "open", on |-> client, sent |-> 1]]
    BY <1>7 DEF Call, built
  <2> SUFFICES ASSUME ~overlapped PROVE DrainCovers' /\ NoOrphanCall'
    BY <2>1 DEF OrphanInv
  <2>2. \A l \in Loops : loop'[l].pc = "none"
    BY <1>0, <2>1 DEF Alone, ReadyIsIdle, Running
  <2>3. \A d \in Calls : call'[d] = call[d] \/ call'[d].at = "open"
    BY <1>1, <2>1
  <2> QED BY <2>1, <2>2, <2>3 DEF OrphanInv, DrainCovers, NoOrphanCall
<1>8. ASSUME NEW c \in Calls, Settle(c) PROVE OrphanInv'
  <2>1. UNCHANGED <<resubmit, overlapped, loop>>
    BY <1>8 DEF Settle, built
  <2>2. PICK at \in {"answered", "failed"} : call' = [call EXCEPT ![c] = Out(c, at)]
    BY <1>8 DEF Settle
  <2>3. \A d \in Calls : call'[d] = call[d] \/ call'[d].at = at
    BY <1>0, <1>1, <2>2, OutIs
  <2> QED BY <1>3, <2>1, <2>3, OrphanKeeps
<1>9. CASE Look
  <2>1. NoteOverlap /\ UNCHANGED <<resubmit, call>> /\ Trigger(loop, FALSE)
    BY <1>9 DEF Look, built
  <2> QED BY <1>1, <1>2, <2>1, TriggeredDrains, OrphanKeeps
<1>10. CASE Ping
  <2>1. /\ NoteOverlap /\ UNCHANGED <<resubmit, call>>
        /\ loop' = loop \/ Trigger(loop, state # Fuse!Seen)
    BY <1>10 DEF Ping, FailedPing, built
  <2> QED BY <1>1, <1>2, <1>3, <2>1, TriggeredDrains, OrphanKeeps
<1>11. CASE Stop
  <2>1. /\ UNCHANGED <<resubmit, overlapped>> /\ call' = Rejected
        /\ loop' = [l \in Loops |-> [loop[l] EXCEPT !.cut = loop[l].pc = "drain"]]
    BY <1>11 DEF Stop, built
  <2>2. \A c \in Calls : call'[c] = call[c] \/ call'[c].at = "failed"
    BY <1>0, <2>1, OutIs DEF Rejected
  <2>3. ASSUME NEW l \in Loops
        PROVE  loop'[l].pc = loop[l].pc /\ loop'[l].active = loop[l].active
    BY <1>1, <2>1 DEF LoopStates
  <2> QED BY <2>1, <2>2, <2>3, OrphanKeeps DEF Drains
<1>12. CASE CoolDown \/ HealthChanges \/ UNCHANGED vars
  BY <1>3, <1>12, OrphanKeeps DEF CoolDown, HealthChanges, vars, built
<1> QED BY <1>4, <1>5, <1>6, <1>7, <1>8, <1>9, <1>10, <1>11, <1>12, PipelineOrphans DEF Next

\* As long as no two restart pipelines have run at once, a call that a crash or
\* a restart interrupts is rejected, or kept by a supervisor that sends it again:
\* what callTool's comment promises is broken by the overlap alone
\* (drainThenRespawn, triggerRestart).
THEOREM OrphansNeedOverlap == Spec => [](overlapped \/ NoOrphanCall)
<1>1. Init => Inv /\ OrphanInv
  <2>1. Init => OrphanInv
    <3> SUFFICES ASSUME Init PROVE DrainCovers /\ NoOrphanCall
      BY DEF OrphanInv
    <3>1. \A l \in Loops : loop[l].pc # "drain"
      BY EmptyLoop DEF Init, LoopStates
    <3>2. \A c \in Calls : call[c].at = "idle"
      BY DEF Init
    <3> QED BY <3>1, <3>2 DEF DrainCovers, NoOrphanCall
  <2> QED BY <2>1, InitInv
<1>2. (Inv /\ OrphanInv) /\ [Next]_vars => (Inv /\ OrphanInv)'
  BY StepInv, OrphanStep
<1>3. OrphanInv => overlapped \/ NoOrphanCall
  BY DEF OrphanInv
<1> QED BY <1>1, <1>2, <1>3, PTL DEF Spec
=============================================================================
