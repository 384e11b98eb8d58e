--------------------------- MODULE EventDispatchMC ---------------------------
(***************************************************************************)
(* Small instances of EventDispatch for TLC.                               *)
(***************************************************************************)
EXTENDS EventDispatch, TLC

CONSTANTS a1, a2, c1, c2, d1, d2, o1, o2

\* Two source ids are interchangeable, so are two clone ids, two dispatches
\* and two operators.  Used by safety runs only.
Symmetry == Permutations({a1, a2}) \cup Permutations({c1, c2})
              \cup Permutations({d1, d2}) \cup Permutations({o1, o2})
=============================================================================
