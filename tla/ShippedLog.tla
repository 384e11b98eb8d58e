----------------------------- MODULE ShippedLog -----------------------------
(***************************************************************************)
(* What an audit export promises: an append-only log, the set of its rows   *)
(* the vendor has, and a position that only moves forward and only over     *)
(* rows the vendor has.  So a row is delivered at least once, and never      *)
(* passed over.                                                            *)
(***************************************************************************)
EXTENDS Naturals

VARIABLES
  length,     \* rows in the log
  delivered,  \* their sequence numbers, as far as the vendor has them
  position    \* everything up to here is done with

vars == <<length, delivered, position>>

Init == length = 0 /\ delivered = {} /\ position = 0

Append == length' = length + 1 /\ UNCHANGED <<delivered, position>>

\* A push, the first or a repeated one, of any rows of the log.
Deliver ==
  /\ \E batch \in SUBSET (1 .. length) : delivered' = delivered \cup batch
  /\ UNCHANGED <<length, position>>

Advance ==
  /\ \E n \in position .. length :
       /\ position + 1 .. n \subseteq delivered
       /\ position' = n
  /\ UNCHANGED <<length, delivered>>

Next == Append \/ Deliver \/ Advance

Spec == Init /\ [][Next]_vars
=============================================================================
