----------------------------- MODULE AuditChain -----------------------------
(***************************************************************************)
(* The hash chain of the audit table: record, erase and prune of             *)
(* packages/core/src/audit/sqlite-sink.ts and the walk of chain-verify.ts.   *)
(* record() reads the last row's hash, awaits the digest of its own record    *)
(* behind it and inserts; other calls, of this process or of a CLI process    *)
(* on the same file, run meanwhile.  erase and prune are one transaction.     *)
(***************************************************************************)
EXTENDS Naturals, Sequences

CONSTANT Records   \* what record() calls write; each is made once

VARIABLES
  rows,        \* audit_records in seq order
  hashing,     \* records whose record() call awaits its digest
  prev,        \* record -> the hash its call read before
  overlapped   \* a call read that hash while another one awaited (history)

vars == <<rows, hashing, prev, overlapped>>

\* SHA-256 of the previous hash and the record: no two arguments collide.
Hash(p, r) == <<p, r>>
Genesis == <<>>

\* A row; once it is erased, what it says is a tombstone.
Row(p, r) == [record |-> r, erased |-> FALSE, prevHash |-> p, recordHash |-> Hash(p, r)]

LatestHash == IF rows = <<>> THEN Genesis ELSE rows[Len(rows)].recordHash

Written(r) == \E i \in DOMAIN rows : rows[i].record = r

Init ==
  /\ rows = <<>> /\ hashing = {} /\ prev = [r \in Records |-> Genesis]
  /\ overlapped = FALSE

\* record(), up to the await of computeRecordHash,
Read(r) ==
  /\ r \notin hashing /\ ~Written(r)
  /\ hashing' = hashing \cup {r}
  /\ prev' = [prev EXCEPT ![r] = LatestHash]
  /\ overlapped' = (overlapped \/ hashing # {})
  /\ UNCHANGED rows

\* and after it.
Insert(r) ==
  /\ r \in hashing /\ hashing' = hashing \ {r}
  /\ rows' = Append(rows, Row(prev[r], r))
  /\ UNCHANGED <<prev, overlapped>>

\* erase() or prune(): the rows that match become tombstones and keep both
\* hashes.
Erase(matches) ==
  /\ rows' = [i \in DOMAIN rows |->
                [rows[i] EXCEPT !.erased = @ \/ rows[i].record \in matches]]
  /\ UNCHANGED <<hashing, prev, overlapped>>

Next ==
  \/ \E r \in Records : Read(r) \/ Insert(r)
  \/ \E matches \in SUBSET Records : Erase(matches)

Spec == Init /\ [][Next]_vars

-----------------------------------------------------------------------------
(* verify() *)

\* The hash the walk expects before row i.
Expected(i) == IF i = 1 THEN Genesis ELSE rows[i - 1].recordHash

Breaks == {i \in DOMAIN rows : rows[i].prevHash # Expected(i)}

Tampered ==
  {i \in DOMAIN rows :
     /\ ~rows[i].erased
     /\ rows[i].recordHash # Hash(rows[i].prevHash, rows[i].record)}

Violations == Breaks \cup Tampered

\* What the sink says of record(): "Assigns seq + chain hash atomically", so
\* what was only ever written, erased and pruned through the sink verifies.
Verifies == Violations = {}

\* Calls that wait for one another keep it so, whatever is erased or pruned in
\* between (record, erase, prune).
VerifiesInTurn == ~overlapped => Verifies
=============================================================================
