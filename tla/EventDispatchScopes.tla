------------------------- MODULE EventDispatchScopes -------------------------
(***************************************************************************)
(* Four instances of EventDispatch in one:                                  *)
(*   dedup      one agent, two arrivals with a key, one clone;              *)
(*   recovery   one agent, one arrival without a key, two clones, and more   *)
(*              going wrong;                                                *)
(*   operators  one agent, one arrival without a key, two clones, and two    *)
(*              operators, with nothing going wrong;                        *)
(*   fleet      two agents, one arrival without a key, one operator; two     *)
(*              clones, or one clone and a crash or a stop.                 *)
(***************************************************************************)
EXTENDS EventDispatchMC, FiniteSets

VARIABLE scope   \* the instance a behaviour is in

Arrived == {i \in Arrivals : Minted(i)}
Cloned  == {i \in Ids \ Arrivals : Minted(i)}
Asking  == {o \in Operators : rpc[o] # "idle"}
OneAgent   == \A a \in Agents \ {1} : phase[a] = "down"
OneKeyless == Cardinality(Arrived) <= 1 /\ \A i \in Ids : event[i].key = NoKey

\* Steps that stay in the scope.  (A write to the closed database throws in all.)
FewFaults ==
  /\ erasures' = 0
  /\ faults' # faults => \E a \in Agents : phase[a] = "stopping"
WithinScope ==
  \/ /\ scope = "dedup" /\ OneAgent' /\ Asking' = {}
     /\ Cardinality(Cloned') <= 1 /\ crashes' <= 1 /\ FewFaults
  \/ /\ scope = "recovery" /\ OneAgent' /\ Asking' = {} /\ OneKeyless'
  \/ /\ scope = "operators" /\ OneAgent' /\ OneKeyless'
     /\ crashes' = 0 /\ FewFaults
  \/ /\ scope = "fleet" /\ OneKeyless' /\ Cardinality(Asking') <= 1
     /\ Cardinality(Cloned') + crashes' <= 2 /\ crashes' <= 1 /\ FewFaults

ScopedInit == Init /\ scope \in {"dedup", "recovery", "operators", "fleet"}

ScopedSpec ==
  /\ ScopedInit
  /\ [][Next /\ UNCHANGED scope /\ WithinScope]_<<vars, scope>>
=============================================================================
