---------------------------- MODULE EventLedger ----------------------------
(***************************************************************************)
(* What the event path promises: a ledger of events and of their outcomes,  *)
(* with a list of dead letters.  Each piece of work is taken in once, run   *)
(* once at most and settled once; an event of the same key is the same work *)
(* until the first one has grown old.  A dead letter belongs to a rejected  *)
(* event and is struck off after a copy of the event has been settled.      *)
(* Copies are made of rejected events, any number, and of interrupted ones, *)
(* one each.  Caches, dispatches, crashes and restarts are not seen here.    *)
(***************************************************************************)
EXTENDS Naturals

CONSTANTS Ids, Events, NoEvent, NoKey

VARIABLES
  event,     \* id -> the event, NoEvent until there is one
  outcome,   \* id -> "absent", "pending" or how it ended
  turns,     \* id -> turns started for it
  dead,      \* ids with a dead letter
  old        \* ids too long ago for their key to count

vars == <<event, outcome, turns, dead, old>>

Rejected(i) == outcome[i] \in {"loop", "refused", "failed"}
Settled(i)  == Rejected(i) \/ outcome[i] \in {"interrupted", "done"}

SameWork(i, j) == i = j \/ (event[i].key # NoKey /\ event[i].key = event[j].key)
CopiesOf(i, via) == {j \in Ids : event[j].causedBy = i /\ event[j].via = via}

Init ==
  /\ event = [i \in Ids |-> NoEvent]
  /\ outcome = [i \in Ids |-> "absent"]
  /\ turns = [i \in Ids |-> 0]
  /\ dead = {} /\ old = {}

\* An event from outside, or a copy of an earlier one, which has no key.
Mint(i, e) ==
  /\ event[i] = NoEvent
  /\ e.via # "source" => e.key = NoKey /\ e.causedBy \in Ids
  /\ e.via = "requeue" => Rejected(e.causedBy)
  /\ e.via = "recovery" => /\ outcome[e.causedBy] = "interrupted"
                           /\ CopiesOf(e.causedBy, "recovery") = {}
  /\ event' = [event EXCEPT ![i] = e]
  /\ UNCHANGED <<outcome, turns, dead, old>>

\* The first event of a piece of work is taken in; the others are not until it
\* has grown old.
Take(i) ==
  /\ event[i] # NoEvent
  /\ outcome[i] = "absent"
  /\ \A j \in Ids \ old : SameWork(i, j) => outcome[j] = "absent"
  /\ outcome' = [outcome EXCEPT ![i] = "pending"]
  /\ UNCHANGED <<event, turns, dead, old>>

Start(i) ==
  /\ outcome[i] = "pending" /\ turns[i] = 0
  /\ turns' = [turns EXCEPT ![i] = 1]
  /\ UNCHANGED <<event, outcome, dead, old>>

\* Only a turn can fail, and only an event without one is turned away.
Settle(i, o) ==
  /\ outcome[i] = "pending"
  /\ o \in {"loop", "refused"} => turns[i] = 0
  /\ o = "failed" => turns[i] = 1
  /\ outcome' = [outcome EXCEPT ![i] = o]
  /\ UNCHANGED <<event, turns, dead, old>>

File(i) ==
  /\ Rejected(i)
  /\ dead' = dead \cup {i}
  /\ UNCHANGED <<event, outcome, turns, old>>

StrikeOff(i) ==
  /\ \E j \in CopiesOf(i, "requeue") : Settled(j)
  /\ dead' = dead \ {i}
  /\ UNCHANGED <<event, outcome, turns, old>>

Age(i) ==
  /\ outcome[i] # "absent"
  /\ old' = old \cup {i}
  /\ UNCHANGED <<event, outcome, turns, dead>>

Next == \E i \in Ids :
  \/ \E e \in Events : Mint(i, e)
  \/ Take(i) \/ Age(i) \/ Start(i) \/ File(i) \/ StrikeOff(i)
  \/ \E o \in {"loop", "refused", "failed", "interrupted", "done"} : Settle(i, o)

Spec == Init /\ [][Next]_vars
=============================================================================
