-------------------------- MODULE RpcCorrelationMC --------------------------
(* Instances of RpcCorrelation for TLC: which turn makes which call, and    *)
(* what the turns were caused by.                                           *)
EXTENDS RpcCorrelation

CONSTANTS c1, c2, c3

\* Three turns; `skill:review' causes the first two, the third has no cause.
ThreeTurns == [c \in Calls |-> CASE c = c1 -> 1 [] c = c2 -> 2 [] c = c3 -> 3]
OneSkill   == [c \in Calls |-> IF c = c3 THEN NoCause ELSE "skill"]
=============================================================================
