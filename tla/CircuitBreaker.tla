--------------------------- MODULE CircuitBreaker ---------------------------
(***************************************************************************)
(* packages/core/src/events/circuit-breaker.ts, driven as the dispatcher    *)
(* drives it (dispatcher.ts): allow() before the protected call, an await,  *)
(* record(outcome) after it.  Calls overlap, so an outcome may be recorded  *)
(* in another state than the one that admitted the call.                    *)
(*                                                                         *)
(* Time is one bit: `cooled' says that resetTimeoutMs have passed since     *)
(* openedAt.  The flip to half-open is lazy, as in the code: it happens     *)
(* when somebody reads the state, not when the time is up.                  *)
(***************************************************************************)
EXTENDS Naturals

CONSTANTS
  Callers,            \* concurrent protected calls
  FailureThreshold,
  SuccessThreshold,
  MaxOperations       \* bound on trip() and reset() calls

ASSUME BreakerAssumption ==
  /\ FailureThreshold \in Nat \ {0}
  /\ SuccessThreshold \in Nat \ {0}
  /\ MaxOperations \in Nat

VARIABLES
  state,       \* _state
  failures,    \* consecutiveFailures, saturating at FailureThreshold: the
               \* code only compares it with that threshold
  successes,   \* consecutiveSuccesses
  cooled,      \* now() - openedAt >= resetTimeoutMs
  call,        \* caller -> "none", or the state that admitted its call
  healthy,     \* does a call that ends now succeed?
  operations   \* operator calls so far

breaker == <<state, failures, successes, cooled>>
vars    == <<breaker, call, healthy, operations>>

States == {"closed", "open", "half-open"}

\* What the `state' getter answers, and leaves behind in _state.
Seen == IF state = "open" /\ cooled THEN "half-open" ELSE state

\* allow()
Allows == Seen # "open"

Init ==
  /\ state = "closed" /\ failures = 0 /\ successes = 0 /\ cooled = FALSE
  /\ call = [c \in Callers |-> "none"]
  /\ healthy \in BOOLEAN
  /\ operations = 0

-----------------------------------------------------------------------------
(* The breaker's own transitions *)

Close == state' = "closed" /\ failures' = 0 /\ successes' = 0 /\ cooled' = FALSE

\* Reading the state may flip it; openedAt is cleared with it.
Read == /\ state' = Seen
        /\ cooled' = (cooled /\ Seen = "open")
        /\ UNCHANGED <<failures, successes>>

\* Faulty variants, named ...Faulty, stand before the definition they vary.
\* They are not part of the specification: each is a bug its property catches.
\* A success while open is taken for a probe.
OnSuccessFaulty ==
  IF Seen = "closed" THEN failures' = 0 /\ successes' = 0 /\ UNCHANGED <<state, cooled>>
  ELSE Close

\* Probe successes are not counted.
OnSuccessForgetfulFaulty ==
  \/ /\ Seen = "half-open"
     /\ successes' = 0 /\ failures' = 0 /\ state' = Seen /\ cooled' = FALSE
  \/ /\ Seen # "half-open"
     /\ failures' = 0 /\ successes' = 0
     /\ UNCHANGED <<state, cooled>>

\* Off by one: the success that reaches the threshold does not close.
OnSuccessLateFaulty ==
  \/ /\ Seen = "half-open" /\ successes + 1 > SuccessThreshold
     /\ Close
  \/ /\ Seen = "half-open" /\ successes + 1 <= SuccessThreshold
     /\ state' = "half-open" /\ cooled' = FALSE
     /\ successes' = successes + 1 /\ failures' = 0
  \/ /\ Seen # "half-open"
     /\ failures' = 0 /\ successes' = 0
     /\ UNCHANGED <<state, cooled>>

OnSuccess ==
  \/ /\ Seen = "half-open" /\ successes + 1 >= SuccessThreshold
     /\ Close
  \/ /\ Seen = "half-open" /\ successes + 1 < SuccessThreshold
     /\ state' = "half-open" /\ cooled' = FALSE
     /\ successes' = successes + 1 /\ failures' = 0
  \/ /\ Seen # "half-open"      \* closed, or open: the counters are cleared
     /\ failures' = 0 /\ successes' = 0
     /\ UNCHANGED <<state, cooled>>

OneMoreFailure ==
  failures' = IF failures < FailureThreshold THEN failures + 1 ELSE failures

\* A failed probe leaves the successes of its period on the books.
OnFailureKeepsCreditFaulty ==
  \/ /\ Seen = "half-open"
     /\ state' = "open" /\ cooled' = FALSE
     /\ UNCHANGED successes /\ OneMoreFailure
  \/ /\ Seen = "open" /\ UNCHANGED breaker
  \/ /\ Seen = "closed"
     /\ OneMoreFailure /\ successes' = 0 /\ cooled' = FALSE
     /\ state' = IF failures + 1 >= FailureThreshold THEN "open" ELSE "closed"

OnFailure ==
  \/ /\ Seen = "half-open"      \* a failed probe reopens
     /\ state' = "open" /\ cooled' = FALSE
     /\ successes' = 0 /\ OneMoreFailure
  \/ /\ Seen = "open"
     /\ UNCHANGED breaker
  \/ /\ Seen = "closed"
     /\ OneMoreFailure /\ successes' = 0 /\ cooled' = FALSE
     /\ state' = IF failures + 1 >= FailureThreshold THEN "open" ELSE "closed"

\* trip(): an operator forces it open; the counters stay.
Trip ==
  /\ state # "open" /\ state' = "open" /\ cooled' = FALSE
  /\ UNCHANGED <<failures, successes>>

\* resetTimeoutMs pass.
CoolDown ==
  /\ state = "open" /\ ~cooled /\ cooled' = TRUE
  /\ UNCHANGED <<state, failures, successes>>

-----------------------------------------------------------------------------
(* Callers and environment *)

Admit(c) ==
  /\ call[c] = "none" /\ Allows
  /\ call' = [call EXCEPT ![c] = Seen]
  /\ Read
  /\ UNCHANGED <<healthy, operations>>

\* record(true) or record(false) when the protected call ends.
Finish(c) ==
  /\ call[c] # "none"
  /\ call' = [call EXCEPT ![c] = "none"]
  /\ IF healthy THEN OnSuccess ELSE OnFailure
  /\ UNCHANGED <<healthy, operations>>

Operator ==
  /\ operations < MaxOperations
  /\ operations' = operations + 1
  /\ Trip \/ Close
  /\ UNCHANGED <<call, healthy>>

TimePasses == CoolDown /\ UNCHANGED <<call, healthy, operations>>

HealthChanges == healthy' = ~healthy /\ UNCHANGED <<breaker, call, operations>>

Next ==
  \/ \E c \in Callers : Admit(c) \/ Finish(c)
  \/ Operator
  \/ TimePasses
  \/ HealthChanges

Spec == Init /\ [][Next]_vars

\* Events keep arriving (Admit), calls end, and time passes.
Fairness ==
  /\ \A c \in Callers : WF_vars(Admit(c)) /\ WF_vars(Finish(c))
  /\ WF_vars(TimePasses)

FairSpec == Spec /\ Fairness

-----------------------------------------------------------------------------
(* Properties *)

TypeOK ==
  /\ state \in States
  /\ failures \in 0 .. FailureThreshold
  /\ successes \in 0 .. SuccessThreshold - 1
  /\ cooled \in BOOLEAN
  /\ call \in [Callers -> {"none", "closed", "half-open"}]
  /\ healthy \in BOOLEAN
  /\ operations \in 0 .. MaxOperations

\* A closed breaker has room for another failure: the failure that reaches
\* failureThreshold opens it, whoever recorded it (onFailure, transitionTo).
ClosedHasBudget == state = "closed" => failures < FailureThreshold

\* Every half-open period starts with no successes on the books, so that
\* successThreshold counts consecutive probes of that period: whatever late
\* outcomes arrive while it is open (onSuccess, onFailure).  An operator's trip()
\* would break it: it reopens a half-open breaker and keeps consecutiveSuccesses.
FreshProbes ==
  [][state = "open" /\ state' # "open" /\ operations = 0 => successes = 0]_vars

\* Unless an operator resets it, an open breaker stays open until its
\* cool-down has elapsed: a success of a call admitted before it opened does
\* not close it (onSuccess).
OpenUntilCooled ==
  [][state = "open" /\ state' # "open" /\ operations' = operations => cooled]_vars

\* Once the protected target is healthy for good and calls keep coming, the
\* breaker closes for good: no combination of late outcomes, lazy flips and
\* counters leaves it open or half-open for ever.
Recovers == <>[]healthy => <>[](state = "closed")
=============================================================================
