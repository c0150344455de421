----------------------------- MODULE AuditChain -----------------------------
(***************************************************************************)
(* The audit log of the PostgreSQL store: every process that records a row *)
(* chains it to the newest one under an advisory lock, and verification    *)
(* recomputes the hashes of the whole table.                               *)
(*                                                                         *)
(* The hash is modelled by what it is computed from (SHA-256 is taken to   *)
(* be injective).  What a payload says is the number of its row; how it is *)
(* written matters: RecordAuditLog hashes the payload it is handed, whose  *)
(* structs are written in field order, and verification hashes what jsonb  *)
(* gives back, a map, written in key order.                                *)
(*                                                                         *)
(* A row is stamped with the wall clock of the process that records it.    *)
(* The clocks of the hosts differ and are set back, so a stamp may be any, *)
(* but for those there are: rows are not stamped in the same microsecond.  *)
(***************************************************************************)
EXTENDS Integers, Sequences, FiniteSets, SequencesExt

CONSTANTS
  Writer,      \* threads, of any process, that record audit rows
  Org,         \* the organisations rows belong to
  MaxRows,     \* bound: rows recorded, and their stamps
  MaxChanges   \* bound: rows somebody changes in the table

VARIABLES
  table,     \* audit_logs
  lock,      \* who holds the advisory lock 7108001001, or Free
  pending,   \* the row each writer is about to insert
  log,       \* history: each row as it was recorded, and the stamps and hashes
             \* of the organisation's rows there were when it was chained
  changes,   \* history: how many rows were changed behind the store's back
  allow      \* AllowLegacyHashMismatch, as verification runs with

chainVars == <<table, lock, pending, log, changes, allow>>

Free   == "free"
NoRow  == [row |-> "none"]
NoHash == <<>>
Forms  == {"flat", "struct"}    \* a payload of plain values, or with a struct in it
Changed == -1                   \* what a payload says after a change

ASSUME AuditChainAssumption ==
  /\ Free \notin Writer
  /\ MaxRows \in Nat /\ MaxChanges \in Nat

-----------------------------------------------------------------------------
(* Hashing and verification. *)

\* How a payload is written when the row is recorded, and when it is read back.
Written(form) == IF form = "struct" THEN "field order" ELSE "key order"

\* auditEntryHash: neither the id nor the organisation is hashed.
Hash(row, order) == <<row.says, row.at, row.prev, order>>

\* prepareAuditEntry: the hash of the row as it is handed over.
Prepared(row) == [row EXCEPT !.hash = Hash(row, Written(row.form))]

\* One row of the loop of VerifyAuditHashChainWithOptions.
CheckUnlinked(mayMismatch, seen, row) ==                             \* without the prev_hash test
  IF row.hash = NoHash
  THEN [seen EXCEPT !.valid = @ /\ ~seen.started]
  ELSE LET matches == row.hash = Hash(row, "key order")
           excused == mayMismatch /\ ~seen.strict
       IN  [valid   |-> seen.valid /\ (matches \/ excused),
            prev    |-> row.hash,
            started |-> TRUE,
            strict  |-> seen.strict \/ matches \/ ~excused]
Check(mayMismatch, seen, row) ==
  IF row.hash = NoHash
  THEN [seen EXCEPT !.valid = @ /\ ~seen.started]
  ELSE LET matches == row.hash = Hash(row, "key order")
           excused == mayMismatch /\ ~seen.strict
       IN  [valid   |-> seen.valid /\ row.prev = seen.prev /\ (matches \/ excused),
            prev    |-> row.hash,
            started |-> TRUE,
            strict  |-> seen.strict \/ matches \/ ~excused]

\* SliceStable: by the stamp, then by the id, for which the place in the table
\* stands.
Precedes(rows, i, j) ==
  rows[i].at < rows[j].at \/ (rows[i].at = rows[j].at /\ i < j)
InOrder(rows) ==
  [k \in DOMAIN rows |-> rows[CHOOSE i \in DOMAIN rows :
     Cardinality({j \in DOMAIN rows : Precedes(rows, j, i)}) = k - 1]]

NothingSeen == [valid |-> TRUE, prev |-> NoHash, started |-> FALSE, strict |-> FALSE]

VerifyAuditHashChain(rows, mayMismatch) ==
  LET ordered == InOrder(rows)
      seen[n \in 0 .. Len(rows)] ==
        IF n = 0 THEN NothingSeen ELSE Check(mayMismatch, seen[n - 1], ordered[n])
  IN  seen[Len(rows)].valid

\* The hashed rows of a table, and those of an organisation; the hash of the
\* newest of them.
Hashed(rows) == {i \in DOMAIN rows : rows[i].hash # NoHash}
HashedOf(org) == {i \in Hashed(table) : table[i].org = org}
Newest(org) ==
  IF HashedOf(org) = {} THEN NoHash
  ELSE table[CHOOSE i \in HashedOf(org) :
         \A j \in HashedOf(org) : table[j].at <= table[i].at].hash

\* The stamps of rows, which order them, with their hashes.
Links(rows, S) == {<<rows[i].at, rows[i].hash>> : i \in S}

-----------------------------------------------------------------------------
\* Rows of older releases: one from before rows were hashed, and one hashed
\* before timestamps were truncated.
Unhashed(org) ==
  [org |-> org, says |-> 0, form |-> "flat", at |-> 0, prev |-> NoHash, hash |-> NoHash]
OldHash(org)  == [Unhashed(org) EXCEPT !.hash = <<"old">>]

ChainInit ==
  /\ table \in {<<>>} \cup {<<Unhashed(o)>> : o \in Org} \cup {<<OldHash(o)>> : o \in Org}
  /\ lock = Free
  /\ pending = [w \in Writer |-> NoRow]
  /\ log = <<>>
  /\ changes = 0
  /\ allow \in BOOLEAN

\* A transaction takes the lock, reads the newest hash and stamps the row.
LockTaken(w) == TRUE                                                 \* a lost lock
LockFree(w) == lock = Free

Stamps == {log[n].row.at : n \in DOMAIN log}

BeginRecord(w, org, form) ==
  /\ pending[w] = NoRow
  /\ LockFree(w)
  /\ Len(log) < MaxRows
  /\ lock' = w
  /\ \E at \in 1 .. MaxRows \ Stamps :
       LET row == [org |-> org, says |-> Len(log) + 1, form |-> form, at |-> at,
                   prev |-> Newest(org), hash |-> NoHash]
       IN  pending' = [pending EXCEPT ![w] =
             [row |-> Prepared(row), before |-> Links(table, HashedOf(org))]]
  /\ UNCHANGED <<table, log, changes, allow>>

\* The row is inserted, and the commit releases the lock.
CommitRecord(w) ==
  /\ pending[w] # NoRow
  /\ table' = Append(table, pending[w].row)
  /\ log' = Append(log, pending[w])
  /\ pending' = [pending EXCEPT ![w] = NoRow]
  /\ lock' = Free
  /\ UNCHANGED <<changes, allow>>

\* A statement, the commit or the process fails: the transaction is rolled
\* back, and the caller goes on without its row.
FailRecord(w) ==
  /\ pending[w] # NoRow
  /\ pending' = [pending EXCEPT ![w] = NoRow]
  /\ lock' = Free
  /\ UNCHANGED <<table, log, changes, allow>>

\* Somebody alters what a row says, clears its hash or deletes it.
ChangeTable ==
  /\ changes < MaxChanges
  /\ \E i \in DOMAIN table :
       table' \in {ReplaceAt(table, i, [table[i] EXCEPT !.says = Changed]),
                   ReplaceAt(table, i, [table[i] EXCEPT !.hash = NoHash]),
                   RemoveAt(table, i)}
  /\ changes' = changes + 1
  /\ UNCHANGED <<lock, pending, log, allow>>

-----------------------------------------------------------------------------
(* Audit rows and the hashes they hold. *)
IsRow(r) ==
  /\ r.org \in Org /\ r.form \in Forms
  /\ r.says \in Changed .. MaxRows /\ r.at \in 0 .. MaxRows
  /\ Len(r.prev) \in {0, 1, 4} /\ Len(r.hash) \in {0, 1, 4}

(* The table and the log hold audit rows, and the row on its way is that of *)
(* the writer with the lock.                                                *)
ChainTypeOK ==
  /\ \A i \in DOMAIN table : IsRow(table[i])
  /\ \A i \in DOMAIN log : IsRow(log[i].row)
  /\ lock \in Writer \cup {Free}
  /\ \A w \in Writer : pending[w] # NoRow => lock = w /\ IsRow(pending[w].row)
  /\ changes \in 0 .. MaxChanges
  /\ allow \in BOOLEAN

OneOrg(rows) == \A i, j \in DOMAIN rows : rows[i].org = rows[j].org
Flat(rows)   == \A i \in DOMAIN rows : rows[i].form = "flat"
OldRows(rows) == \E i \in DOMAIN rows : rows[i].hash = <<"old">>

\* The clocks the rows were stamped with have gone on: each row that was recorded
\* is stamped later than the rows before it.
Rising(entries) ==
  \A m, n \in DOMAIN entries : m < n => entries[m].row.at < entries[n].row.at
InStep == Rising(log)

(* While the rows are stamped in the order they are recorded in: whatever   *)
(* processes record them at the same time and whichever of their            *)
(* transactions are rolled back, a table nobody has changed verifies, when  *)
(* its rows are of one organisation, their payloads hold no struct, and     *)
(* rows with a hash of an older release are allowed for (RecordAuditLog,    *)
(* VerifyAuditHashChainWithOptions).  With a row whose stamp is below one   *)
(* before it, such a table may be refused.                                  *)
HonestChainVerifies ==
  InStep /\ changes = 0 /\ OneOrg(table) /\ Flat(table) /\ (OldRows(table) => allow) =>
    VerifyAuditHashChain(table, allow)

(* A table nobody has changed, with rows stamped in the order they were     *)
(* recorded in, verifies.                                                   *)
UntouchedChainVerifies ==
  InStep /\ changes = 0 /\ (OldRows(table) => allow) => VerifyAuditHashChain(table, allow)

(* While the rows are stamped in the order they are recorded in, a row that *)
(* verifies vouches for all the rows that were there when it was recorded:  *)
(* it says what it said then, and before it come exactly those rows, none   *)
(* of them changed, reordered or gone, except that rows in front whose      *)
(* hashes are of an older release may have been altered, if allowed; and    *)
(* the rows after it verify.  So only rows at the end can go unnoticed      *)
(* (VerifyAuditHashChainWithOptions; one organisation).  Without that order *)
(* more can: of rows stamped 10, 5 and 11, the third is chained to the      *)
(* first, and nothing is chained to the second.                             *)
Vouched(rows, mayMismatch) ==
  LET good == {i \in Hashed(rows) : rows[i].hash = Hash(rows[i], "key order")}
  IN  InStep /\ OneOrg(rows) /\ VerifyAuditHashChain(rows, mayMismatch) =>
        /\ ~mayMismatch => good = Hashed(rows)
        /\ \A i \in good :
             /\ \E n \in DOMAIN log :
                  /\ rows[i] = log[n].row
                  /\ Links(rows, {j \in Hashed(rows) : rows[j].at < rows[i].at}) = log[n].before
             /\ \A j \in DOMAIN rows : rows[i].at < rows[j].at => j \in good

ChangesAreFound == Vouched(table, allow)
=============================================================================
