-------------------------- MODULE McpSupervisorMC --------------------------
(* Model-checking instance of McpSupervisor: two concurrent tool calls.     *)
EXTENDS McpSupervisor
CONSTANTS c1, c2

\* Bound: once two pipelines overlap, one call and no further kind of fault.
Tame == overlapped => bootFaults = 0 /\ hangs = 0 /\ call[c2].at = "idle"

TameSpec == Init /\ [][Next /\ Tame']_vars /\ Fairness
=============================================================================
