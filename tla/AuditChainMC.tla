----------------------------- MODULE AuditChainMC -----------------------------
(* Model-checking instance of AuditChain: two record() calls.               *)
EXTENDS AuditChain
CONSTANTS r1, r2
=============================================================================
