---------------------------- MODULE AuditExportMC ----------------------------
(* Model-checking instance of AuditExport: two loops that share a cursor.   *)
EXTENDS AuditExport
CONSTANTS x1, x2

\* Two mishaps or commands in a run, of whatever kind.
Tame == faults + commands + exits <= 2

TameSpec == Init /\ [][Next /\ Tame']_vars /\ Fairness
=============================================================================
