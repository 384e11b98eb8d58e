---------------------------- MODULE Conversation ----------------------------
(***************************************************************************)
(* What pinned sessions promise: conversations, turn after turn.  A turn    *)
(* opens with the message of its event and nobody else speaks until it is   *)
(* closed.  Calls are followed by their results, or they are the last word  *)
(* of a turn that was cut short.  What has been said stays, and an event    *)
(* whose turn was closed opens no other.  Handles, locks and queues are not *)
(* seen here; a crash is: every open turn is over and may be opened again.  *)
(***************************************************************************)
EXTENDS Naturals, Sequences

CONSTANTS
  Events,
  Sessions,
  MostCalls    \* calls of one response

VARIABLES
  said,     \* session -> its messages
  open,     \* session -> the event whose turn is open, as a set; {} for none
  closed,   \* events whose turn was closed
  cut       \* <<session, position>> of calls that get no results

vars == <<said, open, closed, cut>>

LastWord(k) == said[k][Len(said[k])]
Calling(k)  == open[k] # {} /\ LastWord(k).kind = "calls"
Place(k)    == <<k, Len(said[k])>>

Init ==
  /\ said = [k \in Sessions |-> <<>>]
  /\ open = [k \in Sessions |-> {}]
  /\ closed = {} /\ cut = {}

Say(k, m) == said' = [said EXCEPT ![k] = Append(@, m)]

Open(k, e) ==
  /\ open[k] = {} /\ e \notin closed
  /\ Say(k, [of |-> e, kind |-> "user", n |-> 0])
  /\ open' = [open EXCEPT ![k] = {e}]
  /\ UNCHANGED <<closed, cut>>

\* The model answers the event or the results it has been given.
Respond(k, e, kind, n) ==
  /\ open[k] = {e} /\ LastWord(k).kind \in {"user", "results"}
  /\ Say(k, [of |-> e, kind |-> kind, n |-> n])
  /\ UNCHANGED <<open, closed, cut>>

\* All results of the calls just made, and of no others.
Results(k) ==
  /\ Calling(k) /\ Place(k) \notin cut
  /\ Say(k, [LastWord(k) EXCEPT !.kind = "results"])
  /\ UNCHANGED <<open, closed, cut>>

CutShort(k) ==
  /\ Calling(k)
  /\ cut' = cut \cup {Place(k)}
  /\ UNCHANGED <<said, open, closed>>

Close(k) ==
  /\ open[k] # {} /\ (Calling(k) => Place(k) \in cut)
  /\ open' = [open EXCEPT ![k] = {}]
  /\ closed' = closed \cup open[k]
  /\ UNCHANGED <<said, cut>>

Crash ==
  /\ open' = [k \in Sessions |-> {}]
  /\ cut' = cut \cup {Place(k) : k \in {s \in Sessions : Calling(s)}}
  /\ UNCHANGED <<said, closed>>

Next ==
  \/ Crash
  \/ \E k \in Sessions :
       \/ \E e \in Events : \/ Open(k, e) \/ Respond(k, e, "text", 0)
                            \/ \E n \in 1 .. MostCalls : Respond(k, e, "calls", n)
       \/ Results(k) \/ CutShort(k) \/ Close(k)

Spec == Init /\ [][Next]_vars
=============================================================================
