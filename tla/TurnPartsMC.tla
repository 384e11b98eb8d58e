---------------------------- MODULE TurnPartsMC ----------------------------
(* One instance for two parts of a turn that share no state: the mailbox it *)
(* drains and the pinned session it appends to.  A behaviour is one of the   *)
(* chosen part; the other stays where it starts.                             *)
EXTENDS PinnedSessions, FiniteSets, TLC

CONSTANTS x1, x2, x3, k1, k2, y1, y2,
  MaxRounds,   \* bound: responses with tool calls in one behaviour
  MaxMishaps,  \* bound: its turns cut short and its crashes together
  Processes, Agents, Messages, Uncached, MaxRestarts

VARIABLES
  part,   \* the chosen one
  row, to, depth, selected, draining, batch, delivered, writers, overlapped,
  restarts, faults

Mail == INSTANCE Mailbox

mailVars == <<row, to, depth, selected, draining, batch, delivered, writers,
              overlapped, restarts, faults>>

ASSUME TurnPartsAssumption == Mail!MailboxParameters

PartsInit ==
  /\ part \in {"session", "mailbox"}
  /\ Init /\ Mail!Init
  /\ part # "session" => \A d, e \in Dispatches : key[d] = key[e]
  /\ part # "mailbox" => \A m, n \in Messages : to[m] = to[n]

Rounds ==
  {r \in Keys \X (1 .. Cardinality(Dispatches) * (2 * MaxRounds + 3)) :
     r[2] \in DOMAIN stored[r[1]] /\ stored[r[1]][r[2]].kind = "calls"}
Mishaps == (MaxFaults - faultsLeft) + (MaxCrashes - crashesLeft)

PartsNext ==
  \/ /\ part = "session" /\ Next /\ UNCHANGED <<part, mailVars>>
     /\ Cardinality(Rounds') <= MaxRounds /\ Mishaps' <= MaxMishaps
  \/ part = "mailbox" /\ Mail!Next /\ UNCHANGED <<part, vars>>

PartsSpec == PartsInit /\ [][PartsNext]_<<part, vars, mailVars>>

\* Dispatches and messages are the same model values here, and so are agents and
\* processes: one permutation renames them in both parts.
Symmetry ==
  Permutations({x1, x2, x3}) \cup Permutations({k1, k2}) \cup Permutations({y1, y2})

-----------------------------------------------------------------------------
(* The parts' properties *)

PartsTypeOK == TypeOK /\ Mail!TypeOK

HandedOverOnce == Mail!HandedOverOnce
DepthIsPending == Mail!DepthIsPending
=============================================================================
