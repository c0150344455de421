---------------------------- MODULE AuditProofs ----------------------------
(***************************************************************************)
(* Proofs about AuditChain and AuditShip, for any writers, organisations,  *)
(* bundles and any number of rows and changes.                             *)
(*                                                                         *)
(* Verification is a loop over the rows in the order of their stamps: what *)
(* it accepts is first stated as a property of neighbouring rows           *)
(* (Accepted).  The invariant of the chain (ChainInv) relates every row of *)
(* the table to the entry of the log it comes from, whoever changes the    *)
(* table and whatever the clocks say; the part of it that is about the     *)
(* order of rows (Chained) holds while stamps go up (InStep).  With it,    *)
(* accepted rows go back to what was there when each was recorded, by      *)
(* induction over the rows.  The invariant of the shippers (ShipInv)       *)
(* follows a bundle from the verification of its rows to its receipt.      *)
(***************************************************************************)
EXTENDS AuditShip, FiniteSetTheorems, SequenceTheorems, WellFoundedInduction, TLAPS

-----------------------------------------------------------------------------
(* Numbers and sequences. *)

\* What holds at 0 and passes to the next number up to N holds up to N.
LEMMA UpTo ==
  ASSUME NEW N \in Nat, NEW S, 0 \in S, \A n \in Nat : n < N /\ n \in S => n + 1 \in S
  PROVE  \A n \in 0 .. N : n \in S
<1> DEFINE R == {p \in Nat \X Nat : p[1] < p[2]}
           T == {n \in 0 .. N : n \notin S}
<1>1. OpToRel(<, Nat) = R
  BY Zenon DEF OpToRel
<1>2. \A n, m \in Nat : <<n, m>> \in R <=> n < m
  BY DEF R
<1> HIDE DEF R
<1>3. SUFFICES ASSUME T # {} PROVE FALSE
  BY <1>3
<1>4. T \in SUBSET Nat
  OBVIOUS
<1>5. PICK x \in T : \A y \in T : ~(<<y, x>> \in R)
  BY <1>1, <1>3, <1>4, NatLessThanWellFounded, WFMin
<1>6. x \in Nat /\ x <= N /\ x # 0 /\ x \notin S
  OBVIOUS
<1>7. x - 1 \in Nat /\ x - 1 < N /\ <<x - 1, x>> \in R
  BY <1>2, <1>6
<1>8. x - 1 \notin T
  BY <1>5, <1>7
<1>9. x - 1 \in S
  BY <1>7, <1>8
<1> QED
  BY <1>6, <1>7, <1>9

\* A sequence, whatever its rows are.
IsList(rows) == rows \in Seq({rows[i] : i \in DOMAIN rows})

\* A list has a length, and its indexes go up to it.
LEMMA ListFacts ==
  ASSUME NEW rows, IsList(rows)
  PROVE  Len(rows) \in Nat /\ DOMAIN rows = 1 .. Len(rows)
  BY DEF IsList

\* A sequence over any set is a list.
LEMMA ListOf ==
  ASSUME NEW S, NEW rows \in Seq(S)
  PROVE  IsList(rows)
<1>1. DOMAIN rows = 1 .. Len(rows) /\ Len(rows) \in Nat
  OBVIOUS
<1> QED
  BY <1>1, SeqOfRange, Zenon DEF IsList, Range

\* What a row more at the end, a prefix, a row replaced and a row removed make
\* of a list.
LEMMA AppendList ==
  ASSUME NEW rows, IsList(rows), NEW e
  PROVE  /\ IsList(Append(rows, e))
         /\ Len(Append(rows, e)) = Len(rows) + 1
         /\ \A i \in 1 .. Len(rows) : Append(rows, e)[i] = rows[i]
         /\ Append(rows, e)[Len(rows) + 1] = e
<1> DEFINE S == {rows[i] : i \in DOMAIN rows} \cup {e}
<1>1. rows \in Seq(S)
  BY DEF IsList
<1>2. e \in S
  OBVIOUS
<1> HIDE DEF S
<1>3. /\ Append(rows, e) \in Seq(S)
      /\ Len(Append(rows, e)) = Len(rows) + 1
      /\ \A i \in 1 .. Len(rows) : Append(rows, e)[i] = rows[i]
      /\ Append(rows, e)[Len(rows) + 1] = e
  BY <1>1, <1>2, AppendProperties
<1>4. IsList(Append(rows, e))
  BY <1>3, ListOf
<1> QED
  BY <1>3, <1>4

LEMMA PrefixList ==
  ASSUME NEW rows, IsList(rows), NEW k \in 0 .. Len(rows)
  PROVE  /\ IsList(SubSeq(rows, 1, k))
         /\ Len(SubSeq(rows, 1, k)) = k
         /\ \A i \in 1 .. k : SubSeq(rows, 1, k)[i] = rows[i]
<1> DEFINE S == {rows[i] : i \in DOMAIN rows}
<1>1. rows \in Seq(S)
  BY DEF IsList
<1>2. Len(rows) \in Nat
  BY ListFacts
<1> HIDE DEF S
<1>3. \A i \in 1 .. k : rows[i] \in S
  BY <1>1, <1>2
<1>4. /\ SubSeq(rows, 1, k) \in Seq(S)
      /\ Len(SubSeq(rows, 1, k)) = k
      /\ \A i \in 1 .. k : SubSeq(rows, 1, k)[i] = rows[i]
  BY <1>1, <1>2, <1>3, SubSeqProperties
<1> QED
  BY <1>4, ListOf

LEMMA ReplaceList ==
  ASSUME NEW rows, IsList(rows), NEW i \in DOMAIN rows, NEW e
  PROVE  /\ IsList(ReplaceAt(rows, i, e))
         /\ Len(ReplaceAt(rows, i, e)) = Len(rows)
         /\ \A k \in 1 .. Len(rows) : ReplaceAt(rows, i, e)[k] = IF k = i THEN e ELSE rows[k]
<1> DEFINE S == {rows[k] : k \in DOMAIN rows} \cup {e}
<1>1. rows \in Seq(S)
  BY DEF IsList
<1>2. e \in S /\ i \in 1 .. Len(rows)
  BY <1>1
<1> HIDE DEF S
<1>3. [rows EXCEPT ![i] = e] \in Seq(S)
  BY <1>1, <1>2, ExceptSeq
<1>4. ReplaceAt(rows, i, e) = [rows EXCEPT ![i] = e]
  BY DEF ReplaceAt
<1>5. /\ Len([rows EXCEPT ![i] = e]) = Len(rows)
      /\ \A k \in 1 .. Len(rows) : [rows EXCEPT ![i] = e][k] = IF k = i THEN e ELSE rows[k]
  BY <1>1, <1>2, ExceptSeq
<1>6. IsList([rows EXCEPT ![i] = e])
  BY <1>3, ListOf
<1> QED
  BY <1>4, <1>5, <1>6

LEMMA RemoveList ==
  ASSUME NEW rows, IsList(rows), NEW i \in DOMAIN rows
  PROVE  /\ IsList(RemoveAt(rows, i))
         /\ Len(RemoveAt(rows, i)) = Len(rows) - 1
         /\ \A k \in 1 .. Len(rows) - 1 :
              RemoveAt(rows, i)[k] = IF k < i THEN rows[k] ELSE rows[k + 1]
<1> DEFINE S == {rows[k] : k \in DOMAIN rows}
           a == SubSeq(rows, 1, i - 1)
           b == SubSeq(rows, i + 1, Len(rows))
<1>1. rows \in Seq(S) /\ Len(rows) \in Nat /\ i \in 1 .. Len(rows)
  BY ListFacts DEF IsList
<1> HIDE DEF S
<1>2. a \in Seq(S) /\ Len(a) = i - 1 /\ \A k \in 1 .. i - 1 : a[k] = rows[k]
  BY <1>1, SubSeqProperties
<1>3. b \in Seq(S) /\ Len(b) = Len(rows) - i /\ \A k \in 1 .. Len(rows) - i : b[k] = rows[i + k]
  BY <1>1, SubSeqProperties
<1>4. RemoveAt(rows, i) = a \o b
  BY DEF RemoveAt
<1> HIDE DEF a, b
<1>5. a \o b \in Seq(S) /\ Len(a \o b) = Len(rows) - 1
  BY <1>1, <1>2, <1>3, ConcatProperties
<1>6. ASSUME NEW k \in 1 .. Len(rows) - 1
      PROVE  (a \o b)[k] = IF k < i THEN rows[k] ELSE rows[k + 1]
  <2>1. CASE k < i
    BY <1>1, <1>2, <1>3, <2>1, ConcatProperties
  <2>2. CASE ~(k < i)
    <3>1. (a \o b)[k] = b[k - (i - 1)]
      <4>1. k \in 1 .. Len(a) + Len(b) /\ ~(k <= Len(a)) /\ Len(a) = i - 1
        BY <1>1, <1>2, <1>3, <2>2
      <4>2. a \in Seq(S) /\ b \in Seq(S)
        BY <1>2, <1>3
      <4>3. (a \o b)[k] = b[k - Len(a)]
        BY ONLY <4>1, <4>2, ConcatProperties
      <4> QED
        BY <4>1, <4>3
    <3>2. b[k - (i - 1)] = rows[i + (k - (i - 1))]
      BY <1>1, <1>3, <2>2
    <3>3. i + (k - (i - 1)) = k + 1
      BY <1>1
    <3> QED
      BY <1>1, <2>2, <3>1, <3>2, <3>3
  <2> QED
    BY <2>1, <2>2
<1> QED
  BY <1>4, <1>5, <1>6, ListOf

-----------------------------------------------------------------------------
(* Rows in the order of their stamps, and the loop of verification. *)

\* Rows whose stamps go up.
Ordered(rows) ==
  /\ IsList(rows)
  /\ \A i \in DOMAIN rows : rows[i].at \in Nat
  /\ \A i, j \in DOMAIN rows : i < j => rows[i].at < rows[j].at

\* Rows in order: the stamps compare as the indexes do.
LEMMA OrderIs ==
  ASSUME NEW rows, Ordered(rows), NEW i \in DOMAIN rows, NEW j \in DOMAIN rows
  PROVE  /\ rows[i].at < rows[j].at <=> i < j
         /\ rows[i].at = rows[j].at => i = j
<1>1. i \in Nat /\ j \in Nat
  BY ListFacts DEF Ordered
<1> QED
  BY <1>1 DEF Ordered

\* Rows in order stay as they are.
LEMMA InOrderIs ==
  ASSUME NEW rows, Ordered(rows), NEW n \in 1 .. Len(rows)
  PROVE  InOrder(rows)[n] = rows[n]
<1> DEFINE Ahead(i) == {j \in DOMAIN rows : Precedes(rows, j, i)}
<1>1. Len(rows) \in Nat /\ DOMAIN rows = 1 .. Len(rows)
  BY ListFacts DEF Ordered
<1>2. ASSUME NEW i \in DOMAIN rows
      PROVE  Cardinality(Ahead(i)) = i - 1
  <2>1. \A j \in DOMAIN rows : Precedes(rows, j, i) <=> j < i
    BY OrderIs DEF Precedes, Ordered
  <2>2. Ahead(i) = 1 .. i - 1
    BY <1>1, <2>1
  <2>3. Cardinality(1 .. i - 1) = i - 1
    <3>1. 1 \in Int /\ i - 1 \in Int /\ (1 > i - 1 <=> i = 1)
      BY <1>1
    <3> QED
      BY <1>1, <3>1, FS_Interval
  <2> QED
    BY <2>2, <2>3
<1>3. \A i \in DOMAIN rows : Cardinality(Ahead(i)) = n - 1 <=> i = n
  BY <1>1, <1>2
<1>4. n = CHOOSE i \in DOMAIN rows : Cardinality(Ahead(i)) = n - 1
  BY <1>1, <1>3
<1>5. InOrder(rows)[n] = rows[CHOOSE i \in DOMAIN rows : Cardinality(Ahead(i)) = n - 1]
  BY <1>1 DEF InOrder
<1> QED
  BY <1>4, <1>5

\* What the loop has seen after each row.
IsSeen(rows, may, f) ==
  f = [n \in 0 .. Len(rows) |->
        IF n = 0 THEN NothingSeen ELSE Check(may, f[n - 1], InOrder(rows)[n])]

\* The loop reaches its end, and its verdict is what it has seen there.
LEMMA LoopEnds ==
  ASSUME NEW rows, Len(rows) \in Nat, NEW may
  PROVE  \E f : IsSeen(rows, may, f) /\ VerifyAuditHashChain(rows, may) = f[Len(rows)].valid
<1> DEFINE N == Len(rows)
           ordered == InOrder(rows)
           Upto(k, g) ==
             g = [n \in 0 .. k |->
                   IF n = 0 THEN NothingSeen ELSE Check(may, g[n - 1], ordered[n])]
           S == {k \in Nat : \E g : Upto(k, g)}
<1> HIDE DEF ordered
<1>1. 0 \in S
  <2>1. Upto(0, [n \in 0 .. 0 |-> NothingSeen])
    OBVIOUS
  <2> QED
    BY <2>1
<1>2. ASSUME NEW k \in Nat, k \in S PROVE k + 1 \in S
  <2>1. PICK g : Upto(k, g)
    BY <1>2
  <2> DEFINE h == [n \in 0 .. k + 1 |-> IF n <= k THEN g[n] ELSE Check(may, g[k], ordered[n])]
  <2>2. \A n \in 0 .. k + 1 :
          h[n] = IF n = 0 THEN NothingSeen ELSE Check(may, h[n - 1], ordered[n])
    <3> SUFFICES ASSUME NEW n \in 0 .. k + 1
                 PROVE  h[n] = IF n = 0 THEN NothingSeen ELSE Check(may, h[n - 1], ordered[n])
      OBVIOUS
    <3>1. CASE n = 0
      <4>1. h[n] = g[0] /\ g[0] = NothingSeen
        BY <2>1, <3>1
      <4> QED
        BY <3>1, <4>1
    <3>2. CASE n # 0 /\ n <= k
      <4>1. h[n] = g[n] /\ h[n - 1] = g[n - 1] /\ g[n] = Check(may, g[n - 1], ordered[n])
        BY <2>1, <3>2
      <4> QED
        BY <3>2, <4>1
    <3>3. CASE n = k + 1
      <4>1. n # 0 /\ n - 1 = k /\ h[k] = g[k] /\ h[n] = Check(may, g[k], ordered[n])
        BY <3>3
      <4> QED
        BY <4>1
    <3> QED
      BY <3>1, <3>2, <3>3
  <2>3. Upto(k + 1, h)
    BY <2>2
  <2>4. \E g_1 : Upto(k + 1, g_1)
    BY ONLY <2>3
  <2> QED
    BY <2>4
<1> HIDE DEF S
<1>3. N \in S
  <2>1. N \in Nat /\ N \in 0 .. N
    OBVIOUS
  <2> QED
    BY <1>1, <1>2, <2>1, UpTo
<1>4. PICK g : IsSeen(rows, may, g)
  BY <1>3 DEF S, IsSeen, ordered
<1>5. VerifyAuditHashChain(rows, may) = (CHOOSE f : IsSeen(rows, may, f))[Len(rows)].valid
  BY DEF VerifyAuditHashChain, IsSeen
<1> QED
  BY <1>4, <1>5

\* One row of the loop.
IsRecord(seen) ==
  /\ seen = [valid |-> seen.valid, prev |-> seen.prev, started |-> seen.started,
             strict |-> seen.strict]
  /\ seen.valid \in BOOLEAN /\ seen.started \in BOOLEAN /\ seen.strict \in BOOLEAN

\* A row whose hash verifies.
Matches(row) == row.hash = Hash(row, "key order")

\* What the loop has seen after a row, given what it had seen before.
GoesOn(may, seen, row, next) ==
  /\ row.hash = NoHash =>
       /\ next.valid <=> (seen.valid /\ ~seen.started)
       /\ next.prev = seen.prev
       /\ next.started = seen.started
       /\ next.strict = seen.strict
  /\ row.hash # NoHash =>
       /\ next.valid <=>
            (seen.valid /\ row.prev = seen.prev /\ (Matches(row) \/ (may /\ ~seen.strict)))
       /\ next.prev = row.hash
       /\ next.started = TRUE
       /\ next.strict <=> (seen.strict \/ Matches(row) \/ ~(may /\ ~seen.strict))

\* What Check makes of what the loop has seen.
LEMMA CheckIs ==
  ASSUME NEW may \in BOOLEAN, NEW seen, IsRecord(seen), NEW row,
         NEW next, next = Check(may, seen, row)
  PROVE  IsRecord(next) /\ GoesOn(may, seen, row, next)
<1>1. CASE row.hash = NoHash
  <2> DEFINE v == seen.valid /\ ~seen.started
  <2>1. next = [seen EXCEPT !.valid = v]
    BY <1>1 DEF Check
  <2>2. v \in BOOLEAN
    OBVIOUS
  <2>3. next.valid <=> v
    <3> HIDE DEF v
    <3> QED
      BY <2>1, <2>2 DEF IsRecord
  <2>4. /\ IsRecord(next)
        /\ next.prev = seen.prev /\ next.started = seen.started /\ next.strict = seen.strict
    <3> HIDE DEF v
    <3> QED
      BY <2>1, <2>2 DEF IsRecord
  <2> QED
    BY <1>1, <2>3, <2>4 DEF GoesOn
<1>2. CASE row.hash # NoHash
  <2> DEFINE m == Matches(row)
             x == may /\ ~seen.strict
             v == seen.valid /\ row.prev = seen.prev /\ (m \/ x)
             t == seen.strict \/ m \/ ~x
  <2>1. next = [valid |-> v, prev |-> row.hash, started |-> TRUE, strict |-> t]
    BY <1>2 DEF Check, Matches
  <2>2. v \in BOOLEAN /\ t \in BOOLEAN
    OBVIOUS
  <2>3. (next.valid <=> v) /\ (next.strict <=> t)
    <3> HIDE DEF v, t
    <3> QED
      BY <2>1, <2>2
  <2>4. IsRecord(next) /\ next.prev = row.hash /\ next.started = TRUE
    <3> HIDE DEF v, t
    <3> QED
      BY <2>1, <2>2 DEF IsRecord
  <2> QED
    BY <1>2, <2>3, <2>4 DEF GoesOn
<1> QED
  BY <1>1, <1>2
\* What the loop has seen after each row, over rows in order.
IsLoop(rows, may, f) ==
  /\ f[0] = NothingSeen
  /\ \A n \in 0 .. Len(rows) : IsRecord(f[n])
  /\ \A n \in 1 .. Len(rows) : GoesOn(may, f[n - 1], rows[n], f[n])

\* The loop over rows in order goes from each row to the next.
LEMMA LoopIs ==
  ASSUME NEW rows, Ordered(rows), NEW may \in BOOLEAN
  PROVE  \E f : IsLoop(rows, may, f) /\ VerifyAuditHashChain(rows, may) = f[Len(rows)].valid
<1>1. Len(rows) \in Nat
  BY ListFacts DEF Ordered
<1>2. PICK f : IsSeen(rows, may, f) /\ VerifyAuditHashChain(rows, may) = f[Len(rows)].valid
  BY <1>1, LoopEnds
<1>3. f[0] = NothingSeen
  BY <1>1, <1>2 DEF IsSeen
<1>4. ASSUME NEW n \in 1 .. Len(rows)
      PROVE  f[n] = Check(may, f[n - 1], rows[n])
  <2>1. n \in 0 .. Len(rows) /\ n # 0
    BY <1>1
  <2>2. f[n] = Check(may, f[n - 1], InOrder(rows)[n])
    BY <1>2, <2>1 DEF IsSeen
  <2> QED
    BY <2>2, InOrderIs
<1> DEFINE S == {n \in Nat : n <= Len(rows) => IsRecord(f[n])}
<1>5. 0 \in S
  <2>1. IsRecord(f[0])
    BY <1>3 DEF IsRecord, NothingSeen
  <2> QED
    BY <2>1
<1>6. ASSUME NEW n \in Nat, n < Len(rows), n \in S
      PROVE  n + 1 \in S
  <2>1. n + 1 \in 1 .. Len(rows) /\ (n + 1) - 1 = n
    BY <1>1, <1>6
  <2>2. f[n + 1] = Check(may, f[n], rows[n + 1])
    BY <1>4, <2>1
  <2>3. IsRecord(f[n])
    BY <1>1, <1>6
  <2>4. IsRecord(f[n + 1])
    BY <2>2, <2>3, CheckIs
  <2> QED
    BY <2>4
<1> HIDE DEF S
<1>7. \A n \in 0 .. Len(rows) : n \in S
  BY <1>1, <1>5, <1>6, UpTo
<1>8. ASSUME NEW n \in 0 .. Len(rows) PROVE IsRecord(f[n])
  BY <1>1, <1>7 DEF S
<1>9. ASSUME NEW n \in 1 .. Len(rows)
      PROVE  GoesOn(may, f[n - 1], rows[n], f[n])
  <2>1. n - 1 \in 0 .. Len(rows)
    BY <1>1
  <2> QED
    BY <1>4, <1>8, <2>1, CheckIs
<1> QED
  BY <1>2, <1>3, <1>8, <1>9 DEF IsLoop

\* What verification has found out about rows it accepts.
Accepted(rows, may) ==
  /\ \A i \in Hashed(rows) :
       \/ i - 1 \in Hashed(rows) /\ rows[i].prev = rows[i - 1].hash
       \/ (\A j \in Hashed(rows) : i <= j) /\ rows[i].prev = NoHash
  /\ \A i \in Hashed(rows), j \in DOMAIN rows : i < j => j \in Hashed(rows)
  /\ ~may => \A i \in Hashed(rows) : Matches(rows[i])
  /\ \A i, j \in Hashed(rows) : Matches(rows[i]) /\ i < j => Matches(rows[j])

\* Rows in order that verify are accepted.
LEMMA VerifiedIsAccepted ==
  ASSUME NEW rows, Ordered(rows), NEW may \in BOOLEAN, VerifyAuditHashChain(rows, may)
  PROVE  Accepted(rows, may)
<1> DEFINE N == Len(rows)
<1>1. N \in Nat /\ DOMAIN rows = 1 .. N
  BY ListFacts DEF Ordered
<1>2. PICK f : IsLoop(rows, may, f) /\ VerifyAuditHashChain(rows, may) = f[N].valid
  BY LoopIs
<1> HIDE DEF N
<1>3. /\ f[0] = NothingSeen
      /\ \A n \in 0 .. N : IsRecord(f[n])
      /\ \A n \in 1 .. N : GoesOn(may, f[n - 1], rows[n], f[n])
  BY <1>2 DEF IsLoop, N
<1>4. ASSUME NEW n \in 1 .. N
      PROVE  f[n].valid => f[n - 1].valid
  <2>1. GoesOn(may, f[n - 1], rows[n], f[n])
    BY <1>3
  <2> QED
    BY <2>1 DEF GoesOn
<1>5. \A n \in 0 .. N : f[n].valid
  <2> DEFINE S == {m \in Nat : m <= N => f[N - m].valid}
  <2>1. 0 \in S
    <3>1. f[N].valid
      BY <1>2, Zenon
    <3>2. N - 0 = N
      BY <1>1
    <3> QED
      BY <3>1, <3>2
  <2>2. ASSUME NEW m \in Nat, m < N, m \in S
        PROVE  m + 1 \in S
    <3>1. N - m \in 1 .. N /\ (N - m) - 1 = N - (m + 1) /\ f[N - m].valid
      BY <1>1, <2>2
    <3>2. f[N - (m + 1)].valid
      BY <1>4, <3>1
    <3> QED
      BY <3>2
  <2> HIDE DEF S
  <2>3. \A m \in 0 .. N : m \in S
    BY <1>1, <2>1, <2>2, UpTo
  <2> TAKE n \in 0 .. N
  <2>4. N - n \in 0 .. N /\ N - (N - n) = n /\ N - n \in Nat /\ N - n <= N
    BY <1>1
  <2>5. N - n \in S
    BY <2>3, <2>4
  <2> QED
    BY <2>4, <2>5 DEF S
<1> DEFINE Hash1(n) == n >= 1 /\ rows[n].hash # NoHash
           Where(n) ==
             /\ Hash1(n) => f[n].started /\ f[n].prev = rows[n].hash
             /\ ~Hash1(n) => /\ ~f[n].started /\ f[n].prev = NoHash
                             /\ \A j \in 1 .. n : rows[j].hash = NoHash
<1>6. \A n \in 0 .. N : Where(n)
  <2> DEFINE S == {n \in Nat : n <= N => Where(n)}
  <2>1. 0 \in S
    BY <1>3 DEF NothingSeen
  <2>2. ASSUME NEW n \in Nat, n < N, n \in S
        PROVE  n + 1 \in S
    <3>1. n + 1 \in 1 .. N /\ (n + 1) - 1 = n /\ n \in 0 .. N /\ n + 1 \in 0 .. N /\ Where(n)
      BY <1>1, <2>2
    <3>2. GoesOn(may, f[n], rows[n + 1], f[n + 1])
      BY <1>3, <3>1
    <3>3. f[n + 1].valid
      BY <1>5, <3>1
    <3>4. CASE rows[n + 1].hash = NoHash
      <4>1. ~f[n].started /\ f[n + 1].prev = f[n].prev /\ f[n + 1].started = f[n].started
        BY <3>2, <3>3, <3>4 DEF GoesOn
      <4>2. ~Hash1(n)
        BY <3>1, <4>1
      <4>3. f[n].prev = NoHash /\ \A j \in 1 .. n : rows[j].hash = NoHash
        BY <3>1, <4>2
      <4>4. \A j \in 1 .. n + 1 : rows[j].hash = NoHash
        BY <3>4, <4>3
      <4> QED
        BY <3>4, <4>1, <4>3, <4>4
    <3>5. CASE rows[n + 1].hash # NoHash
      <4>1. f[n + 1].started = TRUE /\ f[n + 1].prev = rows[n + 1].hash
        BY <3>2, <3>5 DEF GoesOn
      <4> QED
        BY <3>5, <4>1
    <3> QED
      BY <3>4, <3>5
  <2> HIDE DEF S
  <2>3. \A n \in 0 .. N : n \in S
    BY <1>1, <2>1, <2>2, UpTo
  <2> TAKE n \in 0 .. N
  <2> QED
    BY <1>1, <2>3 DEF S
<1>7. ASSUME NEW i \in Hashed(rows)
      PROVE  /\ i \in 1 .. N /\ rows[i].hash # NoHash
             /\ rows[i].prev = f[i - 1].prev
             /\ Matches(rows[i]) \/ (may /\ ~f[i - 1].strict)
  <2>1. i \in 1 .. N /\ i \in 0 .. N /\ rows[i].hash # NoHash
    BY <1>1 DEF Hashed
  <2>2. GoesOn(may, f[i - 1], rows[i], f[i]) /\ f[i].valid
    BY <1>3, <1>5, <2>1
  <2> QED
    BY <2>1, <2>2 DEF GoesOn
<1>8. \A i \in Hashed(rows) :
        \/ i - 1 \in Hashed(rows) /\ rows[i].prev = rows[i - 1].hash
        \/ (\A j \in Hashed(rows) : i <= j) /\ rows[i].prev = NoHash
  <2> TAKE i \in Hashed(rows)
  <2>1. i \in 1 .. N /\ i - 1 \in 0 .. N /\ rows[i].prev = f[i - 1].prev
    BY <1>1, <1>7
  <2>2. Where(i - 1)
    BY <1>6, <2>1
  <2>3. CASE Hash1(i - 1)
    <3>1. i - 1 \in Hashed(rows)
      BY <1>1, <2>1, <2>3 DEF Hashed
    <3> QED
      BY <2>1, <2>2, <2>3, <3>1
  <2>4. CASE ~Hash1(i - 1)
    <3>1. f[i - 1].prev = NoHash /\ \A j \in 1 .. i - 1 : rows[j].hash = NoHash
      BY <2>2, <2>4
    <3>2. \A j \in Hashed(rows) : j \in 1 .. N /\ rows[j].hash # NoHash
      BY <1>7
    <3>3. \A j \in Hashed(rows) : i <= j
      <4> SUFFICES ASSUME NEW j \in Hashed(rows), ~(i <= j) PROVE FALSE
        OBVIOUS
      <4>1. i \in 1 .. N /\ j \in 1 .. N /\ rows[j].hash # NoHash
        BY <2>1, <3>2
      <4>2. N \in Nat
        BY <1>1
      <4>3. j \in 1 .. i - 1
        BY <4>1, <4>2
      <4> QED
        BY <3>1, <4>1, <4>3
    <3> QED
      BY <2>1, <3>1, <3>3
  <2> QED
    BY <2>3, <2>4
<1>9. \A i \in Hashed(rows), j \in DOMAIN rows : i < j => j \in Hashed(rows)
  <2> SUFFICES ASSUME NEW i \in Hashed(rows), NEW j \in DOMAIN rows, i < j, j \notin Hashed(rows)
               PROVE  FALSE
    OBVIOUS
  <2>1. i \in 1 .. N /\ rows[i].hash # NoHash /\ j \in 1 .. N /\ j \in 0 .. N /\ i \in 1 .. j
    BY <1>1, <1>7
  <2>2. ~Hash1(j)
    BY <2>1 DEF Hashed
  <2> QED
    BY <1>6, <2>1, <2>2
<1>10. ~may => \A i \in Hashed(rows) : Matches(rows[i])
  BY <1>7
<1>11. ASSUME NEW n \in 1 .. N, f[n - 1].strict \/ (rows[n].hash # NoHash /\ Matches(rows[n]))
       PROVE  f[n].strict
  <2>1. GoesOn(may, f[n - 1], rows[n], f[n])
    BY <1>3
  <2> QED
    BY <1>11, <2>1 DEF GoesOn
<1>12. \A i, j \in Hashed(rows) : Matches(rows[i]) /\ i < j => Matches(rows[j])
  <2> SUFFICES ASSUME NEW i \in Hashed(rows), NEW j \in Hashed(rows), Matches(rows[i]), i < j
               PROVE  Matches(rows[j])
    OBVIOUS
  <2>1. i \in 1 .. N /\ rows[i].hash # NoHash /\ j \in 1 .. N
    BY <1>7
  <2> DEFINE S == {m \in Nat : i + m <= N => f[i + m].strict}
  <2>2. 0 \in S
    BY <1>1, <1>11, <2>1
  <2>3. ASSUME NEW m \in Nat, m < N - i, m \in S
        PROVE  m + 1 \in S
    <3>1. i + (m + 1) \in 1 .. N /\ (i + (m + 1)) - 1 = i + m /\ f[i + m].strict
      BY <1>1, <2>1, <2>3
    <3>2. f[i + (m + 1)].strict
      BY <1>11, <3>1
    <3> QED
      BY <3>2
  <2> HIDE DEF S
  <2>4. N - i \in Nat
    BY <1>1, <2>1
  <2>5. \A m \in 0 .. N - i : m \in S
    BY <2>2, <2>3, <2>4, UpTo
  <2>6. (j - 1) - i \in 0 .. N - i /\ i + ((j - 1) - i) = j - 1 /\ j - 1 <= N
    BY <1>1, <2>1
  <2>7. f[j - 1].strict
    BY <2>5, <2>6 DEF S
  <2> QED
    BY <1>7, <2>7
<1> QED
  BY <1>8, <1>9, <1>10, <1>12 DEF Accepted

-----------------------------------------------------------------------------
(* The inductive invariant of the chain. *)

\* The fields of a row.
RowForm(r) ==
  /\ r = [org |-> r.org, says |-> r.says, form |-> r.form, at |-> r.at,
          prev |-> r.prev, hash |-> r.hash]
  /\ r.org \in Org /\ r.form \in Forms

\* A stamp and the hash of a row with that stamp.
IsLink(at, hash) == (at = 0 /\ hash = <<"old">>) \/ hash = <<hash[1], at, hash[3], hash[4]>>

\* The lengths of hashes.
Lengths == {0, 1, 4}

\* What is recorded about a row, whatever its stamp.
Stamped(e) ==
  /\ e = [row |-> e.row, before |-> e.before]
  /\ RowForm(e.row)
  /\ e.row.at \in 1 .. MaxRows /\ e.row.says \in 1 .. MaxRows
  /\ e.row.hash = Hash(e.row, Written(e.row.form))
  /\ Len(e.row.prev) \in Lengths

\* In step, it is chained to the newest of the rows before it, which have
\* different stamps.
EntryIs(e) ==
  /\ Stamped(e)
  /\ \A x \in e.before :
       x = <<x[1], x[2]>> /\ x[1] \in 0 .. e.row.at - 1 /\ IsLink(x[1], x[2])
  /\ \A x, y \in e.before : x[1] = y[1] => x = y
  /\ \/ e.before = {} /\ e.row.prev = NoHash
     \/ \E x \in e.before : e.row.prev = x[2] /\ \A y \in e.before : y[1] <= x[1]

\* Who records a row that is newer than those of the log, and what has been or is
\* being recorded.
Newer(at) == \A n \in DOMAIN log : log[n].row.at < at
Recording == {w \in Writer : pending[w] # NoRow /\ Newer(pending[w].row.at)}
Entries == {log[n] : n \in DOMAIN log} \cup {pending[w] : w \in Recording}

\* A row of the table is one of an older release or comes from an entry of the log.
ComesFrom(r, s) ==
  /\ r.org = s.org /\ r.form = s.form /\ r.at = s.at /\ r.prev = s.prev
  /\ r.says \in {s.says, Changed} /\ r.hash \in {s.hash, NoHash}
TableRow(r) ==
  /\ RowForm(r)
  /\ \/ /\ r.at = 0 /\ r.says \in {0, Changed} /\ r.form = "flat"
        /\ r.prev = NoHash /\ r.hash \in {NoHash, <<"old">>}
     \/ \E n \in DOMAIN log : ComesFrom(r, log[n].row)

\* Types that the other parts rest on.
ChainTypes ==
  /\ IsList(log) /\ IsList(table)
  /\ lock \in Writer \cup {Free}
  /\ pending = [w \in Writer |-> pending[w]]
  /\ changes \in 0 .. MaxChanges /\ allow \in BOOLEAN

\* Rows of the log and of the table; one writer at a time has one on its way.
RowsAre ==
  /\ \A n \in DOMAIN log : Stamped(log[n])
  /\ \A w \in Writer : pending[w] # NoRow => lock = w /\ Stamped(pending[w])
  /\ \A i \in DOMAIN table : TableRow(table[i])

\* Different entries have different stamps; of the rows that were there for one
\* entry, those older than another were there for that one too.
EntriesAgree ==
  /\ \A e \in Entries : EntryIs(e)
  /\ \A e, f \in Entries :
       /\ e.row.at = f.row.at => e = f
       /\ e.row.org = f.row.org /\ e.row.at < f.row.at =>
            \A x \in f.before : x[1] < e.row.at => x \in e.before

\* What is there now and is older than an entry was there for the entry.
NothingAppears ==
  \A e \in Entries : \A i \in HashedOf(e.row.org) :
    table[i].at < e.row.at => <<table[i].at, table[i].hash>> \in e.before

\* Before anybody changes the table, it is what was recorded, and each row
\* holds the hash of the newest row before it.
NewestIs(hash, S) ==
  \/ S = {} /\ hash = NoHash
  \/ \E j \in S : hash = table[j].hash /\ \A k \in S : k <= j
Honest ==
  changes = 0 =>
    /\ \A i \in DOMAIN table : table[i].at # 0 =>
         /\ \E n \in DOMAIN log : table[i] = log[n].row
         /\ NewestIs(table[i].prev, {j \in HashedOf(table[i].org) : j < i})
    /\ \A w \in Recording : NewestIs(pending[w].row.prev, HashedOf(pending[w].row.org))

\* What holds while the rows are stamped in the order they are recorded in.
Chained == EntriesAgree /\ Ordered(table) /\ NothingAppears /\ Honest

ChainInv == ChainTypes /\ RowsAre /\ (InStep => Chained)

\* A set of indexes has a greatest one.
LEMMA Greatest ==
  ASSUME NEW N \in Nat, NEW S \in SUBSET (1 .. N), S # {}
  PROVE  \E j \in S : \A k \in S : k <= j
<1> SUFFICES ASSUME \A j \in S : \E k \in S : ~(k <= j)
             PROVE  FALSE
  OBVIOUS
<1> DEFINE T == {n \in Nat : \A k \in S : k <= N - n}
<1>1. 0 \in T
  OBVIOUS
<1>2. ASSUME NEW n \in Nat, n < N, n \in T
      PROVE  n + 1 \in T
  <2>1. \A k \in S : k \in 1 .. N /\ k <= N - n
    BY <1>2
  <2>2. ASSUME NEW k \in S PROVE k # N - n
    BY <2>1
  <2>3. \A k \in S : k <= N - (n + 1)
    BY <2>1, <2>2
  <2> QED
    BY <2>3
<1> HIDE DEF T
<1>3. \A n \in 0 .. N : n \in T
  BY <1>1, <1>2, UpTo
<1>4. N \in 0 .. N
  OBVIOUS
<1>5. \A k \in S : k <= N - N
  BY <1>3, <1>4 DEF T
<1>6. PICK k \in S : TRUE
  OBVIOUS
<1>7. k \in 1 .. N /\ k <= N - N
  BY <1>5
<1> QED
  BY <1>7

\* The hash that the next row of an organisation is chained to.
LEMMA NewestOf ==
  ASSUME Ordered(table), NEW org
  PROVE  \/ HashedOf(org) = {} /\ Newest(org) = NoHash
         \/ \E j \in HashedOf(org) :
              /\ Newest(org) = table[j].hash
              /\ \A k \in HashedOf(org) : k <= j /\ table[k].at <= table[j].at
<1> DEFINE S == HashedOf(org)
           IsNew(i) == \A j \in S : table[j].at <= table[i].at
<1>1. Len(table) \in Nat /\ DOMAIN table = 1 .. Len(table)
  BY ListFacts DEF Ordered
<1>2. S \in SUBSET (1 .. Len(table)) /\ S \subseteq DOMAIN table
  BY <1>1 DEF HashedOf, Hashed
<1>3. Newest(org) = IF S = {} THEN NoHash ELSE table[CHOOSE i \in S : IsNew(i)].hash
  BY DEF Newest
<1>4. \A i \in S : table[i].at \in Nat
  BY <1>1, <1>2 DEF Ordered
<1>5. ASSUME S # {}
      PROVE  \E j \in S : /\ Newest(org) = table[j].hash
                          /\ \A k \in S : k <= j /\ table[k].at <= table[j].at
  <2> HIDE DEF S
  <2>1. PICK m \in S : \A k \in S : k <= m
    BY <1>1, <1>2, <1>5, Greatest
  <2>2. ASSUME NEW i \in S, NEW j \in S
        PROVE  table[i].at <= table[j].at <=> i <= j
    <3>1. i \in Nat /\ j \in Nat /\ i \in DOMAIN table /\ j \in DOMAIN table
      BY <1>1, <1>2
    <3> QED
      BY <1>1, <1>4, <3>1, OrderIs
  <2>3. IsNew(m)
    BY <2>1, <2>2
  <2> DEFINE j == CHOOSE i \in S : IsNew(i)
  <2>4. j \in S /\ IsNew(j)
    BY <2>3
  <2>5. Newest(org) = table[j].hash
    BY <1>3, <1>5
  <2> HIDE DEF j
  <2>6. \A k \in S : k <= j /\ table[k].at <= table[j].at
    BY <2>2, <2>4
  <2> QED
    BY <2>4, <2>5, <2>6
<1> QED
  BY <1>3, <1>5

\* A row of the table has a stamp, which is one of the log's, and a hash.
LEMMA RowStamp ==
  ASSUME RowsAre, NEW i \in DOMAIN table
  PROVE  /\ RowForm(table[i])
         /\ table[i].at \in 0 .. MaxRows
         /\ table[i].at # 0 => \E n \in DOMAIN log : table[i].at = log[n].row.at
         /\ Len(table[i].hash) \in Lengths /\ Len(table[i].prev) \in Lengths
<1> DEFINE r == table[i]
<1>1. TableRow(r) /\ Len(NoHash) = 0 /\ Len(<<"old">>) = 1
  BY DEF RowsAre, NoHash
<1>2. CASE \E n \in DOMAIN log : ComesFrom(r, log[n].row)
  <2>1. PICK n \in DOMAIN log : ComesFrom(r, log[n].row)
    BY <1>2
  <2> DEFINE s == log[n].row
             a == Written(s.form)
  <2>2. Stamped(log[n])
    BY DEF RowsAre
  <2>3. s.at \in 1 .. MaxRows /\ s.hash = <<s.says, s.at, s.prev, a>> /\ Len(s.prev) \in Lengths
    BY <2>2 DEF Stamped, Hash
  <2>4. ComesFrom(r, s) /\ RowForm(r)
    BY <1>1, <2>1 DEF TableRow
  <2> HIDE DEF r, s, a
  <2>5. Len(s.hash) = 4
    BY <2>3
  <2>6. r.at \in 0 .. MaxRows /\ Len(r.hash) \in Lengths /\ Len(r.prev) \in Lengths /\ r.at = s.at
    BY <1>1, <2>3, <2>4, <2>5, AuditChainAssumption DEF ComesFrom, Lengths
  <2> QED
    BY <2>4, <2>6 DEF r, s
<1>3. CASE ~\E n \in DOMAIN log : ComesFrom(r, log[n].row)
  <2>1. /\ RowForm(r) /\ r.at = 0 /\ r.prev = NoHash /\ r.hash \in {NoHash, <<"old">>}
    BY <1>1, <1>3 DEF TableRow
  <2>2. 0 \in 0 .. MaxRows
    BY AuditChainAssumption
  <2> HIDE DEF r
  <2>3. Len(r.hash) \in Lengths /\ Len(r.prev) \in Lengths
    BY <1>1, <2>1 DEF Lengths
  <2> QED
    BY <2>1, <2>2, <2>3 DEF r
<1> QED
  BY <1>2, <1>3

\* The hash the next row is chained to is missing or that of a row.
LEMMA NewestLength ==
  ASSUME IsList(table), RowsAre, NEW org
  PROVE  Len(Newest(org)) \in Lengths
<1> DEFINE S == HashedOf(org)
           IsNew(i) == \A j \in S : table[j].at <= table[i].at
           T == {table[i].at + 1 : i \in S}
<1>1. \A i \in S : i \in DOMAIN table /\ table[i].at \in 0 .. MaxRows
  BY RowStamp DEF HashedOf, Hashed
<1>2. Newest(org) = IF S = {} THEN NoHash ELSE table[CHOOSE i \in S : IsNew(i)].hash
  BY DEF Newest
<1>3. CASE S = {}
  BY <1>2, <1>3 DEF NoHash, Lengths
<1>4. CASE S # {}
  <2>1. T \in SUBSET (1 .. MaxRows + 1) /\ T # {} /\ MaxRows + 1 \in Nat
    BY <1>1, <1>4, AuditChainAssumption
  <2>2. PICK t \in T : \A u \in T : u <= t
    <3> HIDE DEF T
    <3> QED
      BY <2>1, Greatest
  <2>3. PICK m \in S : t = table[m].at + 1
    BY <2>2
  <2>4. IsNew(m)
    <3> SUFFICES ASSUME NEW j \in S PROVE table[j].at <= table[m].at
      OBVIOUS
    <3>1. table[j].at + 1 \in T
      OBVIOUS
    <3>2. table[j].at + 1 <= table[m].at + 1
      BY <2>2, <2>3, <3>1
    <3> QED
      BY <1>1, <3>2
  <2>5. PICK j \in S : Newest(org) = table[j].hash
    BY <1>2, <1>4, <2>4
  <2> QED
    BY <1>1, <2>5, RowStamp
<1> QED
  BY <1>3, <1>4

\* The chain begins with its invariant.
LEMMA ChainInvInit == ChainInit => ChainInv
<1> SUFFICES ASSUME ChainInit PROVE ChainInv
  OBVIOUS
<1>1. log = <<>> /\ lock = Free /\ pending = [w \in Writer |-> NoRow] /\ changes = 0
      /\ allow \in BOOLEAN
  BY DEF ChainInit
<1>2. Entries = {} /\ Recording = {}
  BY <1>1 DEF Entries, Recording
<1>3. EntriesAgree /\ NothingAppears
  BY <1>2 DEF EntriesAgree, NothingAppears
<1>4. /\ Ordered(table)
      /\ \A i \in DOMAIN table : TableRow(table[i]) /\ table[i].at = 0
  <2>1. CASE table = <<>>
    <3>1. table \in Seq({})
      BY <2>1, EmptySeq
    <3>2. IsList(table)
      BY <3>1, ListOf
    <3>3. DOMAIN table = {}
      BY <2>1
    <3> QED
      BY <3>2, <3>3 DEF Ordered
  <2>2. CASE table # <<>>
    <3>1. PICK o \in Org, h \in {NoHash, <<"old">>} :
            table = <<[org |-> o, says |-> 0, form |-> "flat", at |-> 0, prev |-> NoHash, hash |-> h]>>
      <4>1. CASE \E o \in Org : table = <<Unhashed(o)>>
        BY <4>1 DEF Unhashed
      <4>2. CASE \E o \in Org : table = <<OldHash(o)>>
        <5>1. \A o \in Org : OldHash(o) = [org |-> o, says |-> 0, form |-> "flat", at |-> 0,
                                          prev |-> NoHash, hash |-> <<"old">>]
          BY DEF OldHash, Unhashed
        <5> QED
          BY <4>2, <5>1
      <4> QED
        BY <2>2, <4>1, <4>2 DEF ChainInit
    <3> DEFINE r == [org |-> o, says |-> 0, form |-> "flat", at |-> 0, prev |-> NoHash, hash |-> h]
    <3>2. TableRow(r) /\ r.at = 0
      BY DEF TableRow, RowForm, Forms
    <3>3. table = <<r>>
      BY <3>1
    <3> HIDE DEF r
    <3>4. table \in Seq({r}) /\ DOMAIN table = {1} /\ table[1] = r
      BY <3>3
    <3>5. IsList(table)
      BY <3>4, ListOf
    <3>6. Ordered(table)
      BY <3>2, <3>4, <3>5 DEF Ordered
    <3> QED
      BY <3>2, <3>4, <3>6
  <2> QED
    BY <2>1, <2>2
<1>5. ChainTypes
  <2>1. IsList(log)
    BY <1>1, EmptySeq, ListOf
  <2> QED
    BY <1>1, <1>4, <2>1, AuditChainAssumption DEF ChainTypes, Ordered
<1>6. RowsAre
  BY <1>1, <1>4 DEF RowsAre
<1>7. Honest
  BY <1>2, <1>4 DEF Honest
<1> QED
  BY <1>3, <1>4, <1>5, <1>6, <1>7 DEF ChainInv, Chained

\* A hashed row of the table has a stamp and a hash that go together.
LEMMA TableLink ==
  ASSUME RowsAre, NEW i \in Hashed(table)
  PROVE  /\ i \in DOMAIN table /\ RowForm(table[i])
         /\ IsLink(table[i].at, table[i].hash)
<1> DEFINE r == table[i]
<1>1. i \in DOMAIN table /\ r.hash # NoHash /\ TableRow(r)
  BY DEF Hashed, RowsAre
<1> HIDE DEF r
<1>2. ASSUME r.at = 0, r.hash \in {NoHash, <<"old">>}
      PROVE  IsLink(r.at, r.hash)
  BY <1>1, <1>2 DEF IsLink
<1>3. ASSUME \E n \in DOMAIN log : ComesFrom(r, log[n].row)
      PROVE  IsLink(r.at, r.hash)
  <2>1. PICK n \in DOMAIN log : ComesFrom(r, log[n].row)
    BY <1>3
  <2>2. log[n].row.hash = Hash(log[n].row, Written(log[n].row.form))
    BY DEF RowsAre, Stamped
  <2>3. r.hash = log[n].row.hash /\ r.at = log[n].row.at
    BY <1>1, <2>1 DEF ComesFrom
  <2> DEFINE s == log[n].row
             a == Written(s.form)
  <2>4. r.hash = <<s.says, s.at, s.prev, a>>
    BY <2>2, <2>3 DEF Hash
  <2>5. r.at = s.at
    BY <2>3
  <2> HIDE DEF s, a
  <2>6. IsLink(r.at, r.hash)
    BY <2>4, <2>5 DEF IsLink
  <2> QED
    BY <2>6
<1>4. IsLink(r.at, r.hash) /\ RowForm(r)
  BY <1>1, <1>2, <1>3 DEF TableRow
<1> QED
  BY <1>1, <1>4 DEF r

\* A row that is to be recorded, and what is recorded about it.
Entry(org, form, at) ==
  [row    |-> Prepared([org |-> org, says |-> Len(log) + 1, form |-> form, at |-> at,
                        prev |-> Newest(org), hash |-> NoHash]),
   before |-> Links(table, HashedOf(org))]

LEMMA NewRow ==
  ASSUME ChainInv, Len(log) < MaxRows, NEW org \in Org, NEW form \in Forms,
         NEW at \in 1 .. MaxRows, NEW e, e = Entry(org, form, at)
  PROVE  /\ Stamped(e)
         /\ e.row.org = org /\ e.row.at = at /\ e.row.prev = Newest(org)
         /\ e.before = Links(table, HashedOf(org))
<1> DEFINE c == Len(log) + 1
           p == Newest(org)
           r == [org |-> org, says |-> c, form |-> form, at |-> at, prev |-> p, hash |-> NoHash]
           h == <<c, at, p, Written(form)>>
           s == [org |-> org, says |-> c, form |-> form, at |-> at, prev |-> p, hash |-> h]
           B == Links(table, HashedOf(org))
<1>1. Prepared(r) = s
  <2>1. Hash(r, Written(r.form)) = h
    BY DEF Hash
  <2>2. Prepared(r) = [r EXCEPT !.hash = h]
    BY <2>1 DEF Prepared
  <2> HIDE DEF h
  <2> QED
    BY <2>2
<1>2. e = [row |-> s, before |-> B]
  BY <1>1 DEF Entry
<1>3. Hash(s, Written(s.form)) = h
  BY DEF Hash
<1>4. c \in 1 .. MaxRows
  <2>1. Len(log) \in Nat
    BY ListFacts DEF ChainInv, ChainTypes
  <2> QED
    BY <2>1, AuditChainAssumption
<1>5. Len(p) \in Lengths
  BY NewestLength DEF ChainInv, ChainTypes
<1> HIDE DEF B, p, h, c
<1>6. RowForm(s)
  BY DEF RowForm
<1>7. s.at = at /\ s.says = c /\ s.org = org /\ s.prev = p /\ s.hash = h
  OBVIOUS
<1> HIDE DEF s
<1>8. e = [row |-> e.row, before |-> e.before] /\ e.row = s /\ e.before = B
  BY <1>2
<1>9. e.row.hash = Hash(e.row, Written(e.row.form))
  BY <1>3, <1>7, <1>8
<1>10. Stamped(e)
  BY <1>4, <1>5, <1>6, <1>7, <1>8, <1>9 DEF Stamped
<1> QED
  BY <1>7, <1>8, <1>10 DEF B, p

\* In step, the rows of the table are older than one that is newer than the log's.
LEMMA OlderRows ==
  ASSUME RowsAre, NEW at \in 1 .. MaxRows, Newer(at), NEW i \in DOMAIN table
  PROVE  table[i].at \in 0 .. at - 1
<1>1. table[i].at \in 0 .. MaxRows
  BY RowStamp
<1>2. CASE table[i].at = 0
  BY <1>2
<1>3. CASE table[i].at # 0
  <2>1. PICK n \in DOMAIN log : table[i].at = log[n].row.at
    BY <1>3, RowStamp
  <2>2. log[n].row.at < at
    BY DEF Newer
  <2> QED
    BY <1>1, <2>1, <2>2
<1> QED
  BY <1>2, <1>3

\* A newer row is chained to the newest of those before it.
LEMMA NewEntry ==
  ASSUME ChainInv, InStep, NEW org, NEW e, Stamped(e), Newer(e.row.at),
         e.row.prev = Newest(org), e.before = Links(table, HashedOf(org))
  PROVE  EntryIs(e)
<1> DEFINE at == e.row.at
           p == e.row.prev
           B == e.before
<1>1. Ordered(table) /\ RowsAre
  BY DEF ChainInv, Chained
<1>2. at \in 1 .. MaxRows
  BY DEF Stamped
<1> HIDE DEF at
<1>3. ASSUME NEW x \in B
      PROVE  \E i \in HashedOf(org) :
               /\ x = <<table[i].at, table[i].hash>>
               /\ table[i].at \in 0 .. at - 1 /\ IsLink(table[i].at, table[i].hash)
  <2>1. PICK i \in HashedOf(org) : x = <<table[i].at, table[i].hash>>
    BY DEF Links
  <2>2. i \in Hashed(table) /\ i \in DOMAIN table
    BY DEF HashedOf, Hashed
  <2>3. table[i].at \in 0 .. at - 1
    BY <1>1, <1>2, <2>2, OlderRows DEF at
  <2> QED
    BY <1>1, <2>1, <2>2, <2>3, TableLink
<1>4. \A x \in B : x = <<x[1], x[2]>> /\ x[1] \in 0 .. at - 1 /\ IsLink(x[1], x[2])
  <2> TAKE x \in B
  <2>1. PICK i \in HashedOf(org) :
               /\ x = <<table[i].at, table[i].hash>>
               /\ table[i].at \in 0 .. at - 1 /\ IsLink(table[i].at, table[i].hash)
    BY <1>3
  <2>2. x[1] = table[i].at /\ x[2] = table[i].hash
    BY <2>1
  <2> QED
    BY <2>1, <2>2
<1>5. \A x, y \in B : x[1] = y[1] => x = y
  <2> TAKE x \in B, y \in B
  <2>1. PICK i \in HashedOf(org) : x = <<table[i].at, table[i].hash>>
    BY <1>3
  <2>2. PICK j \in HashedOf(org) : y = <<table[j].at, table[j].hash>>
    BY <1>3
  <2>3. i \in DOMAIN table /\ j \in DOMAIN table
    BY DEF HashedOf, Hashed
  <2>4. table[i].at = table[j].at => i = j
    BY <1>1, <2>3, OrderIs
  <2> QED
    BY <2>1, <2>2, <2>4
<1>6. \/ B = {} /\ p = NoHash
      \/ \E x \in B : p = x[2] /\ \A y \in B : y[1] <= x[1]
  <2>1. CASE HashedOf(org) = {} /\ Newest(org) = NoHash
    BY <2>1 DEF Links
  <2>2. CASE \E j \in HashedOf(org) :
               /\ Newest(org) = table[j].hash
               /\ \A k \in HashedOf(org) : k <= j /\ table[k].at <= table[j].at
    <3>1. PICK j \in HashedOf(org) :
               /\ Newest(org) = table[j].hash
               /\ \A k \in HashedOf(org) : table[k].at <= table[j].at
      BY <2>2
    <3> DEFINE x == <<table[j].at, table[j].hash>>
    <3>2. x \in B
      BY DEF Links
    <3>3. p = x[2]
      BY <3>1
    <3>4. \A y \in B : y[1] <= x[1]
      <4> TAKE y \in B
      <4>1. PICK i \in HashedOf(org) : y = <<table[i].at, table[i].hash>>
        BY <1>3
      <4> QED
        BY <3>1, <4>1
    <3> QED
      BY <3>2, <3>3, <3>4
  <2> QED
    BY <1>1, <2>1, <2>2, NewestOf
<1> QED
  BY <1>4, <1>5, <1>6 DEF EntryIs, at

\* While the lock is free, nobody has a row on its way.
LEMMA NoneRecording ==
  ASSUME ChainInv, lock = Free
  PROVE  /\ \A w \in Writer : pending[w] = NoRow
         /\ Recording = {} /\ Entries = {log[n] : n \in DOMAIN log}
<1>1. \A w \in Writer : pending[w] = NoRow
  BY AuditChainAssumption DEF ChainInv, RowsAre
<1> QED
  BY <1>1 DEF Entries, Recording

\* The invariant survives the stamping of a row: if it is newer than all others,
\* what is there now was there for it.
LEMMA BeginRecordKeeps ==
  ASSUME ChainInv, NEW w \in Writer, NEW org \in Org, NEW form \in Forms, BeginRecord(w, org, form)
  PROVE  ChainInv'
<1>1. /\ lock = Free /\ Len(log) < MaxRows /\ lock' = w
      /\ table' = table /\ log' = log /\ changes' = changes /\ allow' = allow
  BY DEF BeginRecord, LockFree
<1>2. PICK at \in 1 .. MaxRows \ Stamps : pending' = [pending EXCEPT ![w] = Entry(org, form, at)]
  BY DEF BeginRecord, Entry
<1>3. PICK e : e = Entry(org, form, at)
  OBVIOUS
<1>4. /\ Stamped(e)
      /\ e.row.org = org /\ e.row.at = at /\ e.row.prev = Newest(org)
      /\ e.before = Links(table, HashedOf(org))
  BY <1>1, <1>3, NewRow
<1>5. /\ \A v \in Writer : pending[v] = NoRow
      /\ Recording = {} /\ Entries = {log[n] : n \in DOMAIN log}
  BY <1>1, NoneRecording
<1>6. /\ pending' = [v \in Writer |-> pending'[v]]
      /\ pending'[w] = e
      /\ \A v \in Writer : v # w => pending'[v] = NoRow
  <2>1. pending = [v \in Writer |-> pending[v]]
    BY DEF ChainInv, ChainTypes
  <2>2. pending' = [pending EXCEPT ![w] = e]
    BY <1>2, <1>3
  <2> QED
    BY <1>5, <2>1, <2>2
<1>7. e # NoRow
  <2>1. e = [row |-> e.row, before |-> e.before]
    BY <1>4 DEF Stamped
  <2> QED
    BY <2>1 DEF NoRow
<1>8. ChainTypes'
  BY <1>1, <1>6 DEF ChainInv, ChainTypes
<1>9. RowsAre'
  <2>1. \A n \in DOMAIN log : Stamped(log[n])'
    BY <1>1 DEF ChainInv, RowsAre, Stamped, RowForm
  <2>2. \A v \in Writer : pending'[v] # NoRow => lock' = v /\ Stamped(pending[v])'
    <3>1. \A v \in Writer : pending'[v] # NoRow => v = w
      BY <1>6
    <3>2. Stamped(pending[w])'
      BY <1>4, <1>6 DEF Stamped, RowForm
    <3> QED
      BY <1>1, <3>1, <3>2
  <2>3. \A i \in DOMAIN table : TableRow(table[i])'
    BY <1>1 DEF ChainInv, RowsAre, TableRow
  <2> QED
    BY <1>1, <2>1, <2>2, <2>3 DEF RowsAre
<1>10. \A o : HashedOf(o)' = HashedOf(o)
  BY <1>1 DEF HashedOf
<1>11. Newer(at)' <=> Newer(at)
  BY <1>1 DEF Newer
<1>12. ASSUME InStep PROVE Chained'
  <2>1. EntriesAgree /\ Ordered(table) /\ NothingAppears /\ Honest
    BY <1>12 DEF ChainInv, Chained
  <2>2. CASE ~Newer(at)
    <3>1. Recording' = {}
      BY <1>1, <1>4, <1>6, <2>2 DEF Recording, Newer
    <3>2. Entries' = Entries
      BY <1>1, <1>5, <3>1 DEF Entries
    <3>3. EntriesAgree'
      BY <2>1, <3>2 DEF EntriesAgree
    <3>4. NothingAppears'
      BY <1>1, <2>1, <3>2 DEF NothingAppears, HashedOf
    <3>5. Honest'
      BY <1>1, <2>1, <3>1 DEF Honest, NewestIs, HashedOf
    <3> QED
      BY <1>1, <2>1, <3>3, <3>4, <3>5 DEF Chained
  <2>3. CASE Newer(at)
    <3>1. Recording' = {w}
      BY <1>1, <1>4, <1>6, <1>7, <2>3 DEF Recording, Newer
    <3>2. Entries' = Entries \cup {e}
      BY <1>1, <1>5, <1>6, <3>1 DEF Entries
    <3>3. EntryIs(e)
      BY <1>4, <1>12, <2>3, NewEntry
    <3>4. \A f \in Entries : EntryIs(f) /\ f.row.at < at /\ f.row.at \in Nat
      <4> TAKE f \in Entries
      <4>1. PICK n \in DOMAIN log : f = log[n]
        BY <1>5
      <4>2. EntryIs(f) /\ Stamped(f)
        BY <2>1 DEF EntriesAgree, EntryIs
      <4> QED
        BY <2>3, <4>1, <4>2 DEF Newer, Stamped
    <3>5. EntriesAgree'
      <4>1. \A f \in Entries \cup {e} : EntryIs(f)
        BY <3>3, <3>4
      <4>2. ASSUME NEW f \in Entries \cup {e}, NEW g \in Entries \cup {e}
            PROVE  /\ f.row.at = g.row.at => f = g
                   /\ f.row.org = g.row.org /\ f.row.at < g.row.at =>
                        \A x \in g.before : x[1] < f.row.at => x \in f.before
        <5>1. CASE f \in Entries /\ g \in Entries
          BY <2>1, <5>1 DEF EntriesAgree
        <5>2. CASE f = e
          BY <1>4, <3>4, <5>2
        <5>3. CASE f \in Entries /\ g = e
          <6>1. ~(f.row.at = g.row.at)
            BY <1>4, <3>4, <5>3
          <6>2. ASSUME f.row.org = org, NEW x \in e.before, x[1] < f.row.at
                PROVE  x \in f.before
            <7>1. PICK i \in HashedOf(org) : x = <<table[i].at, table[i].hash>>
              BY <1>4 DEF Links
            <7>2. table[i].at < f.row.at
              BY <6>2, <7>1
            <7> QED
              BY <2>1, <5>3, <6>2, <7>1, <7>2 DEF NothingAppears
          <6> QED
            BY <1>4, <5>3, <6>1, <6>2
        <5> QED
          BY <5>1, <5>2, <5>3
      <4> QED
        BY <3>2, <4>1, <4>2 DEF EntriesAgree
    <3>6. NothingAppears'
      <4> SUFFICES ASSUME NEW f \in Entries \cup {e}, NEW i \in HashedOf(f.row.org),
                          table[i].at < f.row.at
                   PROVE  <<table[i].at, table[i].hash>> \in f.before
        BY <1>1, <1>10, <3>2 DEF NothingAppears
      <4>1. CASE f \in Entries
        BY <2>1, <4>1 DEF NothingAppears
      <4>2. CASE f = e
        BY <1>4, <4>2 DEF Links
      <4> QED
        BY <4>1, <4>2
    <3>7. Honest'
      <4> SUFFICES ASSUME changes = 0 PROVE Honest'
        BY <1>1 DEF Honest
      <4>1. ASSUME NEW i \in DOMAIN table, table[i].at # 0
            PROVE  /\ \E n \in DOMAIN log : table[i] = log[n].row
                   /\ NewestIs(table[i].prev, {j \in HashedOf(table[i].org) : j < i})
        BY <2>1, <4>1 DEF Honest
      <4>2. NewestIs(e.row.prev, HashedOf(e.row.org))
        BY <1>4, <2>1, NewestOf DEF NewestIs
      <4>3. ASSUME NEW i \in DOMAIN table, table[i].at # 0
            PROVE  NewestIs(table[i].prev, {j \in HashedOf(table[i].org) : j < i})'
        BY <1>1, <4>1, <4>3 DEF NewestIs, HashedOf
      <4>4. ASSUME NEW v \in Recording'
            PROVE  NewestIs(pending[v].row.prev, HashedOf(pending[v].row.org))'
        BY <1>1, <1>6, <3>1, <4>2 DEF NewestIs, HashedOf
      <4> QED
        BY <1>1, <4>1, <4>3, <4>4 DEF Honest
    <3> QED
      BY <1>1, <2>1, <3>5, <3>6, <3>7 DEF Chained
  <2> QED
    BY <2>2, <2>3
<1>13. InStep' => InStep
  BY <1>1 DEF InStep, Rising
<1> QED
  BY <1>8, <1>9, <1>12, <1>13 DEF ChainInv

\* The invariant survives the commit of a row: if the log is still in step, the row
\* was newer than those before it.
LEMMA CommitRecordKeeps ==
  ASSUME ChainInv, NEW w \in Writer, CommitRecord(w)
  PROVE  ChainInv'
<1> DEFINE e == pending[w]
           N == Len(table)
           M == Len(log)
<1>1. /\ e # NoRow /\ lock' = Free /\ changes' = changes /\ allow' = allow
      /\ table' = Append(table, e.row) /\ log' = Append(log, e)
      /\ pending' = [pending EXCEPT ![w] = NoRow]
  BY DEF CommitRecord
<1>2. /\ Stamped(e) /\ \A v \in Writer : pending[v] # NoRow => v = w
  BY <1>1 DEF ChainInv, RowsAre
<1> HIDE DEF e
<1>3. /\ IsList(table) /\ N \in Nat /\ DOMAIN table = 1 .. N
      /\ IsList(log) /\ M \in Nat /\ DOMAIN log = 1 .. M
  BY ListFacts DEF ChainInv, ChainTypes
<1> HIDE DEF N, M
<1>4. /\ IsList(table') /\ DOMAIN table' = 1 .. N + 1 /\ table'[N + 1] = e.row
      /\ \A i \in 1 .. N : table'[i] = table[i]
  BY <1>1, <1>3, AppendList, ListFacts DEF N
<1>5. /\ IsList(log') /\ DOMAIN log' = 1 .. M + 1 /\ log'[M + 1] = e
      /\ \A n \in 1 .. M : log'[n] = log[n]
  BY <1>1, <1>3, AppendList, ListFacts DEF M
<1>6. /\ pending' = [v \in Writer |-> pending'[v]]
      /\ \A v \in Writer : pending'[v] = IF v = w THEN NoRow ELSE pending[v]
  BY <1>1 DEF ChainInv, ChainTypes
<1>7. \A v \in Writer : pending'[v] = NoRow
  BY <1>2, <1>6
<1>8. Recording' = {}
  BY <1>7 DEF Recording
<1>9. ChainTypes'
  BY <1>1, <1>4, <1>5, <1>6 DEF ChainInv, ChainTypes
<1>10. e.row.at \in Nat /\ RowForm(e.row)
  BY <1>2 DEF Stamped
<1>11. ASSUME NEW i \in DOMAIN table'
       PROVE  TableRow(table[i])'
  <2>1. CASE i \in 1 .. N
    <3>1. ASSUME NEW n \in DOMAIN log, ComesFrom(table[i], log[n].row)
          PROVE  \E m \in DOMAIN log' : ComesFrom(table[i], log'[m].row)
      <4>1. n \in DOMAIN log' /\ log'[n] = log[n]
        BY <1>3, <1>5
      <4> QED
        BY <3>1, <4>1
    <3>2. TableRow(table[i]) /\ table'[i] = table[i]
      BY <1>3, <1>4, <2>1 DEF ChainInv, RowsAre
    <3> QED
      BY <3>1, <3>2 DEF TableRow
  <2>2. CASE i = N + 1
    <3>1. table'[i] = e.row /\ M + 1 \in DOMAIN log' /\ log'[M + 1].row = e.row
      BY <1>3, <1>4, <1>5, <2>2
    <3>2. ComesFrom(e.row, e.row)
      BY DEF ComesFrom
    <3> QED
      BY <1>10, <3>1, <3>2 DEF TableRow
  <2>3. i \in 1 .. N \/ i = N + 1
    BY <1>3, <1>4
  <2> QED
    BY <2>1, <2>2, <2>3
<1>12. RowsAre'
  <2>1. ASSUME NEW n \in DOMAIN log' PROVE Stamped(log[n])'
    <3>1. log'[n] = e \/ (n \in DOMAIN log /\ log'[n] = log[n])
      BY <1>3, <1>5
    <3>2. Stamped(log'[n])
      BY <1>2, <3>1 DEF ChainInv, RowsAre
    <3> QED
      BY <3>2 DEF Stamped, RowForm
  <2> QED
    BY <1>7, <1>11, <2>1 DEF RowsAre
\* In step: the row is the newest.
<1>13. ASSUME InStep' PROVE InStep /\ w \in Recording
  <2>1. \A m, n \in 1 .. M + 1 : m < n => log'[m].row.at < log'[n].row.at
    BY <1>5, <1>13 DEF InStep, Rising
  <2>2. \A n \in 1 .. M : log[n].row.at < e.row.at
    <3> TAKE n \in 1 .. M
    <3>1. n \in 1 .. M + 1 /\ M + 1 \in 1 .. M + 1 /\ n < M + 1
      BY <1>3
    <3> QED
      BY <1>5, <2>1, <3>1
  <2>3. \A m, n \in 1 .. M : m < n => log[m].row.at < log[n].row.at
    <3> TAKE m \in 1 .. M, n \in 1 .. M
    <3>1. m \in 1 .. M + 1 /\ n \in 1 .. M + 1
      BY <1>3
    <3> QED
      BY <1>5, <2>1, <3>1
  <2> QED
    BY <1>1, <1>3, <2>2, <2>3 DEF InStep, Rising, Recording, Newer, e
<1>14. ASSUME InStep' PROVE Chained'
  <2>1. w \in Recording /\ Newer(e.row.at)
    BY <1>13, <1>14 DEF Recording, e
  <2>2. EntriesAgree /\ Ordered(table) /\ NothingAppears /\ Honest
    BY <1>13, <1>14 DEF ChainInv, Chained
  <2>3. \A i \in DOMAIN table : table[i].at \in 0 .. e.row.at - 1
    BY <1>2, <2>1, OlderRows DEF ChainInv, Stamped
  <2>4. Entries' = Entries
    <3>1. Entries = {log[n] : n \in 1 .. M} \cup {e}
      <4>1. Recording = {w}
        BY <1>2, <2>1 DEF Recording
      <4> QED
        BY <1>3, <4>1 DEF Entries, e
    <3>2. Entries' = {log'[n] : n \in 1 .. M + 1}
      BY <1>5, <1>8 DEF Entries
    <3>3. 1 .. M + 1 = (1 .. M) \cup {M + 1}
      BY <1>3
    <3>4. {log'[n] : n \in 1 .. M + 1} = {log'[n] : n \in 1 .. M} \cup {log'[M + 1]}
      BY <3>3
    <3>5. {log'[n] : n \in 1 .. M} = {log[n] : n \in 1 .. M}
      BY <1>5
    <3> QED
      BY <1>5, <3>1, <3>2, <3>4, <3>5
  <2>5. EntriesAgree'
    BY <2>2, <2>4 DEF EntriesAgree
  <2>6. Ordered(table')
    <3>1. \A i \in DOMAIN table' : table'[i].at \in Nat
      <4> TAKE i \in DOMAIN table'
      <4>1. i \in 1 .. N \/ i = N + 1
        BY <1>3, <1>4
      <4> QED
        BY <1>3, <1>4, <1>10, <2>2, <4>1 DEF Ordered
    <3>2. \A i, j \in DOMAIN table' : i < j => table'[i].at < table'[j].at
      <4> SUFFICES ASSUME NEW i \in DOMAIN table', NEW j \in DOMAIN table', i < j
                   PROVE  table'[i].at < table'[j].at
        OBVIOUS
      <4>1. CASE j = N + 1
        <5>1. i \in 1 .. N
          BY <1>3, <1>4, <4>1
        <5>2. table[i].at < e.row.at
          BY <1>3, <1>10, <2>3, <5>1
        <5> QED
          BY <1>4, <4>1, <5>1, <5>2
      <4>2. CASE j # N + 1
        <5>1. i \in 1 .. N /\ j \in 1 .. N
          BY <1>3, <1>4, <4>2
        <5> QED
          BY <1>3, <1>4, <2>2, <5>1 DEF Ordered
      <4> QED
        BY <4>1, <4>2
    <3> QED
      BY <1>4, <3>1, <3>2 DEF Ordered
  <2>7. NothingAppears'
    <3> SUFFICES ASSUME NEW f \in Entries, NEW i \in HashedOf(f.row.org)',
                        table'[i].at < f.row.at
                 PROVE  <<table'[i].at, table'[i].hash>> \in f.before
      BY <2>4 DEF NothingAppears
    <3>1. f.row.at \in Nat /\ f.row.at <= e.row.at
      <4>1. f = e \/ \E n \in DOMAIN log : f = log[n]
        BY <1>2 DEF Entries, Recording, e
      <4>2. EntryIs(f)
        BY <2>2 DEF EntriesAgree
      <4> QED
        BY <1>10, <2>1, <4>1, <4>2 DEF Newer, EntryIs, Stamped
    <3>2. i \in DOMAIN table' /\ i # N + 1
      BY <1>4, <1>10, <3>1 DEF HashedOf, Hashed
    <3>3. i \in 1 .. N /\ table'[i] = table[i]
      BY <1>3, <1>4, <3>2
    <3>4. i \in HashedOf(f.row.org)
      BY <1>3, <3>3 DEF HashedOf, Hashed
    <3> QED
      BY <2>2, <3>3, <3>4 DEF NothingAppears
  <2>8. Honest'
    <3> SUFFICES ASSUME changes = 0, NEW i \in DOMAIN table', table'[i].at # 0
                 PROVE  /\ \E n \in DOMAIN log' : table'[i] = log'[n].row
                        /\ NewestIs(table[i].prev, {j \in HashedOf(table[i].org) : j < i})'
      BY <1>1, <1>8 DEF Honest
    <3>1. \A o : \A j \in HashedOf(o) : j \in 1 .. N /\ table'[j] = table[j] /\ j \in HashedOf(o)'
      BY <1>3, <1>4 DEF HashedOf, Hashed
    <3>2. \A o : \A j \in HashedOf(o)' : j \in 1 .. N => j \in HashedOf(o)
      BY <1>3, <1>4 DEF HashedOf, Hashed
    <3>3. \A o : \A j \in HashedOf(o)' : j \in 1 .. N + 1
      BY <1>4 DEF HashedOf, Hashed
    <3>4. CASE i \in 1 .. N
      <4>1. table'[i] = table[i]
        BY <1>4, <3>4
      <4> DEFINE o == table[i].org
                 S == {j \in HashedOf(o) : j < i}
                 T == {j \in HashedOf(o)' : j < i}
      <4>2. PICK n \in DOMAIN log : table[i] = log[n].row
        BY <1>3, <2>2, <3>4, <4>1 DEF Honest
      <4>3. NewestIs(table[i].prev, S)
        BY <1>3, <2>2, <3>4, <4>1 DEF Honest
      <4>4. n \in DOMAIN log' /\ table'[i] = log'[n].row
        BY <1>3, <1>5, <4>1, <4>2
      <4>5. T = S
        <5>1. ASSUME NEW j \in HashedOf(o)', j < i PROVE j \in HashedOf(o)
          <6>1. j \in 1 .. N
            BY <1>3, <3>3, <3>4, <4>1, <5>1
          <6> QED
            BY <3>2, <4>1, <5>1, <6>1
        <5>2. ASSUME NEW j \in HashedOf(o) PROVE j \in HashedOf(o)'
          BY <3>1, <4>1
        <5> QED
          BY <5>1, <5>2
      <4>6. \A j \in S : table'[j] = table[j]
        BY <3>1
      <4>7. {j \in HashedOf(table[i].org) : j < i}' = T
        BY <4>1
      <4> HIDE DEF S, T, o
      <4>8. NewestIs(table[i].prev, {j \in HashedOf(table[i].org) : j < i})'
        BY <4>1, <4>3, <4>5, <4>6, <4>7 DEF NewestIs
      <4> QED
        BY <4>4, <4>8
    <3>5. CASE i = N + 1
      <4>1. table'[i] = e.row /\ M + 1 \in DOMAIN log' /\ log'[M + 1].row = e.row
        BY <1>3, <1>4, <1>5, <3>5
      <4>2. PICK o : o = e.row.org
        OBVIOUS
      <4> DEFINE S == HashedOf(o)
                 T == {j \in HashedOf(o)' : j < i}
      <4>3. NewestIs(e.row.prev, S)
        BY <2>1, <2>2, <4>2 DEF Honest, e
      <4>5. T = S
        <5>1. ASSUME NEW j \in HashedOf(o)', j < i PROVE j \in HashedOf(o)
          <6>1. j \in 1 .. N
            BY <1>3, <3>3, <3>5, <5>1
          <6> QED
            BY <3>2, <5>1, <6>1
        <5>2. ASSUME NEW j \in HashedOf(o) PROVE j \in HashedOf(o)' /\ j < i
          BY <1>3, <3>1, <3>5
        <5> QED
          BY <5>1, <5>2
      <4>6. \A j \in S : table'[j] = table[j]
        BY <3>1
      <4>7. {j \in HashedOf(table[i].org) : j < i}' = T
        BY <4>1, <4>2
      <4> HIDE DEF S, T
      <4>8. NewestIs(table[i].prev, {j \in HashedOf(table[i].org) : j < i})'
        BY <4>1, <4>3, <4>5, <4>6, <4>7 DEF NewestIs
      <4> QED
        BY <4>1, <4>8
    <3>6. i \in 1 .. N \/ i = N + 1
      BY <1>3, <1>4
    <3> QED
      BY <3>4, <3>5, <3>6
  <2> QED
    BY <2>5, <2>6, <2>7, <2>8 DEF Chained
<1> QED
  BY <1>9, <1>12, <1>14 DEF ChainInv

\* The invariant survives a transaction that is rolled back.
LEMMA FailRecordKeeps ==
  ASSUME ChainInv, NEW w \in Writer, FailRecord(w)
  PROVE  ChainInv'
<1>1. /\ pending[w] # NoRow /\ lock' = Free
      /\ table' = table /\ log' = log /\ changes' = changes /\ allow' = allow
      /\ pending' = [pending EXCEPT ![w] = NoRow]
  BY DEF FailRecord
<1>2. /\ pending' = [v \in Writer |-> pending'[v]]
      /\ \A v \in Writer : pending'[v] = IF v = w THEN NoRow ELSE pending[v]
  BY <1>1 DEF ChainInv, ChainTypes
<1>3. \A v \in Writer : pending'[v] = NoRow
  BY <1>1, <1>2 DEF ChainInv, RowsAre
<1>4. Recording' = {}
  BY <1>3 DEF Recording
<1>5. Entries' \subseteq Entries
  BY <1>1, <1>4 DEF Entries
<1>6. ChainTypes'
  BY <1>1, <1>2 DEF ChainInv, ChainTypes
<1>7. RowsAre'
  BY <1>1, <1>3 DEF ChainInv, RowsAre, TableRow, Stamped, RowForm
<1>8. ASSUME InStep' PROVE Chained'
  <2>1. InStep
    BY <1>1, <1>8 DEF InStep, Rising
  <2>2. EntriesAgree'
    BY <1>1, <1>5, <2>1 DEF ChainInv, Chained, EntriesAgree
  <2>3. NothingAppears'
    BY <1>1, <1>5, <2>1 DEF ChainInv, Chained, NothingAppears, HashedOf
  <2>4. Honest'
    BY <1>1, <1>4, <2>1 DEF ChainInv, Chained, Honest, NewestIs, HashedOf
  <2> QED
    BY <1>1, <2>1, <2>2, <2>3, <2>4 DEF ChainInv, Chained
<1> QED
  BY <1>6, <1>7, <1>8 DEF ChainInv

\* Whatever leaves the chain alone keeps its invariant.
LEMMA ChainStays ==
  ASSUME ChainInv, UNCHANGED chainVars
  PROVE  ChainInv'
<1>1. /\ table' = table /\ lock' = lock /\ pending' = pending
      /\ log' = log /\ changes' = changes /\ allow' = allow
  BY DEF chainVars
<1>2. Recording' = Recording
  BY <1>1 DEF Recording, Newer
<1>3. Entries' = Entries
  BY <1>1, <1>2 DEF Entries
<1>4. ChainTypes'
  BY <1>1 DEF ChainInv, ChainTypes
<1>5. RowsAre'
  BY <1>1 DEF ChainInv, RowsAre, TableRow, Stamped, RowForm
<1>6. ASSUME InStep' PROVE Chained'
  <2>1. InStep
    BY <1>1, <1>6 DEF InStep, Rising
  <2>2. EntriesAgree'
    BY <1>1, <1>3, <2>1 DEF ChainInv, Chained, EntriesAgree
  <2>3. NothingAppears'
    BY <1>1, <1>3, <2>1 DEF ChainInv, Chained, NothingAppears, HashedOf
  <2>4. Honest'
    BY <1>1, <1>2, <2>1 DEF ChainInv, Chained, Honest, NewestIs, HashedOf
  <2> QED
    BY <1>1, <2>1, <2>2, <2>3, <2>4 DEF ChainInv, Chained
<1> QED
  BY <1>4, <1>5, <1>6 DEF ChainInv

\* A row somebody has changed still comes from where it came from.
Altered(r, s) ==
  /\ RowForm(r) /\ r.org = s.org /\ r.form = s.form /\ r.at = s.at /\ r.prev = s.prev
  /\ r.says \in {s.says, Changed} /\ r.hash \in {s.hash, NoHash}

\* A row that comes from a row of the table is one the table may hold.
LEMMA AlteredRow ==
  ASSUME NEW s, TableRow(s), NEW r, Altered(r, s)
  PROVE  TableRow(r)
<1>1. CASE \E n \in DOMAIN log : ComesFrom(s, log[n].row)
  <2>1. PICK n \in DOMAIN log : ComesFrom(s, log[n].row)
    BY <1>1
  <2>2. ComesFrom(r, log[n].row)
    BY <2>1 DEF ComesFrom, Altered
  <2> QED
    BY <2>2 DEF TableRow, Altered
<1>2. CASE ~\E n \in DOMAIN log : ComesFrom(s, log[n].row)
  BY <1>2 DEF TableRow, Altered
<1> QED
  BY <1>1, <1>2

\* The invariant survives a change behind the back of the store: each row that is
\* left comes from a row there was, in the same order.
LEMMA ChangeTableKeeps ==
  ASSUME ChainInv, ChangeTable
  PROVE  ChainInv'
<1> DEFINE N == Len(table)
           K == Len(table')
<1>1. /\ changes < MaxChanges /\ changes' = changes + 1
      /\ lock' = lock /\ pending' = pending /\ log' = log /\ allow' = allow
  BY DEF ChangeTable
<1>2. IsList(table) /\ N \in Nat /\ DOMAIN table = 1 .. N
  BY ListFacts DEF ChainInv, ChainTypes
<1>3. PICK i \in DOMAIN table :
        \/ table' = ReplaceAt(table, i, [table[i] EXCEPT !.says = Changed])
        \/ table' = ReplaceAt(table, i, [table[i] EXCEPT !.hash = NoHash])
        \/ table' = RemoveAt(table, i)
  BY DEF ChangeTable
<1>4. \A k \in DOMAIN table : TableRow(table[k]) /\ RowForm(table[k]) /\ Altered(table[k], table[k])
  BY DEF ChainInv, RowsAre, TableRow, Altered
<1> HIDE DEF N, K
\* Where each row of the table comes from.
<1>5. /\ IsList(table') /\ K \in Nat /\ DOMAIN table' = 1 .. K
      /\ \E src \in [1 .. K -> 1 .. N] :
           /\ \A k, l \in 1 .. K : k < l => src[k] < src[l]
           /\ \A k \in 1 .. K : Altered(table'[k], table[src[k]])
  <2>1. ASSUME NEW e, Altered(e, table[i]), table' = ReplaceAt(table, i, e)
        PROVE  /\ IsList(table') /\ K \in Nat /\ DOMAIN table' = 1 .. K
               /\ \E src \in [1 .. K -> 1 .. N] :
                    /\ \A k, l \in 1 .. K : k < l => src[k] < src[l]
                    /\ \A k \in 1 .. K : Altered(table'[k], table[src[k]])
    <3>1. /\ IsList(table') /\ K = N
          /\ \A k \in 1 .. N : table'[k] = IF k = i THEN e ELSE table[k]
      <4> DEFINE rows == ReplaceAt(table, i, e)
      <4>1. /\ IsList(rows) /\ Len(rows) = Len(table)
            /\ \A k \in 1 .. Len(table) : rows[k] = IF k = i THEN e ELSE table[k]
        <5>1. IsList(table) /\ i \in DOMAIN table
          BY <1>2
        <5> QED
          BY ONLY <5>1, ReplaceList
      <4>2. table' = rows
        BY <2>1
      <4> HIDE DEF rows
      <4> QED
        BY <4>1, <4>2 DEF N, K
    <3>2. DOMAIN table' = 1 .. K
      BY <3>1, ListFacts DEF K
    <3> DEFINE src == [k \in 1 .. K |-> k]
    <3>3. src \in [1 .. K -> 1 .. N] /\ \A k, l \in 1 .. K : k < l => src[k] < src[l]
      BY <3>1
    <3>4. \A k \in 1 .. K : Altered(table'[k], table[src[k]])
      BY <1>2, <1>4, <2>1, <3>1
    <3> HIDE DEF src
    <3> QED
      BY <1>2, <3>1, <3>2, <3>3, <3>4
  <2>2. CASE table' = ReplaceAt(table, i, [table[i] EXCEPT !.says = Changed])
    <3> DEFINE s == table[i]
               e == [s EXCEPT !.says = Changed]
    <3>1. RowForm(s)
      BY <1>4
    <3> HIDE DEF s
    <3>2. /\ e = [org |-> s.org, says |-> Changed, form |-> s.form, at |-> s.at,
                  prev |-> s.prev, hash |-> s.hash]
          /\ s.org \in Org /\ s.form \in Forms
      BY <3>1 DEF RowForm
    <3>3. Altered(e, s)
      BY <3>2 DEF Altered, RowForm
    <3>4. table' = ReplaceAt(table, i, e)
      BY <2>2 DEF s
    <3> HIDE DEF e
    <3> QED
      BY <2>1, <3>3, <3>4 DEF s
  <2>3. CASE table' = ReplaceAt(table, i, [table[i] EXCEPT !.hash = NoHash])
    <3> DEFINE s == table[i]
               e == [s EXCEPT !.hash = NoHash]
    <3>1. RowForm(s)
      BY <1>4
    <3> HIDE DEF s
    <3>2. /\ e = [org |-> s.org, says |-> s.says, form |-> s.form, at |-> s.at,
                  prev |-> s.prev, hash |-> NoHash]
          /\ s.org \in Org /\ s.form \in Forms
      BY <3>1 DEF RowForm
    <3>3. Altered(e, s)
      BY <3>2 DEF Altered, RowForm
    <3>4. table' = ReplaceAt(table, i, e)
      BY <2>3 DEF s
    <3> HIDE DEF e
    <3> QED
      BY <2>1, <3>3, <3>4 DEF s
  <2>4. CASE table' = RemoveAt(table, i)
    <3>1. /\ IsList(table') /\ K = N - 1
          /\ \A k \in 1 .. N - 1 : table'[k] = IF k < i THEN table[k] ELSE table[k + 1]
      BY <1>2, <2>4, RemoveList DEF N, K
    <3>2. DOMAIN table' = 1 .. K /\ K \in Nat
      BY <3>1, ListFacts DEF K
    <3> DEFINE src == [k \in 1 .. K |-> IF k < i THEN k ELSE k + 1]
    <3>3. src \in [1 .. K -> 1 .. N] /\ \A k, l \in 1 .. K : k < l => src[k] < src[l]
      BY <1>2, <3>1, <3>2
    <3>4. \A k \in 1 .. K : Altered(table'[k], table[src[k]])
      <4> TAKE k \in 1 .. K
      <4>1. src[k] \in DOMAIN table /\ table'[k] = table[src[k]]
        BY <1>2, <3>1, <3>3
      <4> QED
        BY <1>4, <4>1
    <3> HIDE DEF src
    <3> QED
      BY <3>1, <3>2, <3>3, <3>4
  <2> QED
    BY <1>3, <2>2, <2>3, <2>4
<1>6. PICK src \in [1 .. K -> 1 .. N] :
        /\ \A k, l \in 1 .. K : k < l => src[k] < src[l]
        /\ \A k \in 1 .. K : Altered(table'[k], table[src[k]])
  BY <1>5
<1>7. ASSUME NEW k \in DOMAIN table'
      PROVE  /\ src[k] \in DOMAIN table /\ Altered(table'[k], table[src[k]])
             /\ table'[k].at = table[src[k]].at
  BY <1>2, <1>5, <1>6 DEF Altered
<1>8. Recording' = Recording /\ Entries' = Entries
  BY <1>1 DEF Recording, Newer, Entries
<1>9. ChainTypes'
  BY <1>1, <1>5, AuditChainAssumption DEF ChainInv, ChainTypes
<1>10. RowsAre'
  <2>1. ASSUME NEW k \in DOMAIN table'
        PROVE  TableRow(table[k])'
    <3>1. TableRow(table'[k])
      BY <1>4, <1>7, AlteredRow
    <3> QED
      BY <1>1, <3>1 DEF TableRow
  <2>2. \A n \in DOMAIN log' : Stamped(log[n])'
    BY <1>1 DEF ChainInv, RowsAre, Stamped, RowForm
  <2>3. \A w \in Writer : pending'[w] # NoRow => lock' = w /\ Stamped(pending[w])'
    BY <1>1 DEF ChainInv, RowsAre, Stamped, RowForm
  <2> QED
    BY <2>1, <2>2, <2>3 DEF RowsAre
<1>11. ASSUME InStep' PROVE Chained'
  <2>1. EntriesAgree /\ Ordered(table) /\ NothingAppears /\ Honest
    BY <1>1, <1>11 DEF ChainInv, Chained, InStep, Rising
  <2>2. EntriesAgree'
    BY <1>8, <2>1 DEF EntriesAgree
  <2>3. Ordered(table')
    <3>1. \A k \in DOMAIN table' : table'[k].at \in Nat
      BY <1>7, <2>1 DEF Ordered
    <3>2. \A k, l \in DOMAIN table' : k < l => table'[k].at < table'[l].at
      <4> SUFFICES ASSUME NEW k \in DOMAIN table', NEW l \in DOMAIN table', k < l
                   PROVE  table'[k].at < table'[l].at
        OBVIOUS
      <4>1. src[k] \in DOMAIN table /\ src[l] \in DOMAIN table /\ src[k] < src[l]
        BY <1>5, <1>6, <1>7
      <4>2. table[src[k]].at < table[src[l]].at
        BY <2>1, <4>1 DEF Ordered
      <4> QED
        BY <1>7, <4>2
    <3> QED
      BY <1>5, <3>1, <3>2 DEF Ordered
  <2>4. NothingAppears'
    <3> SUFFICES ASSUME NEW f \in Entries, NEW k \in HashedOf(f.row.org)', table'[k].at < f.row.at
                 PROVE  <<table'[k].at, table'[k].hash>> \in f.before
      BY <1>8 DEF NothingAppears
    <3>1. k \in DOMAIN table' /\ table'[k].hash # NoHash /\ table'[k].org = f.row.org
      BY DEF HashedOf, Hashed
    <3>2. /\ src[k] \in DOMAIN table /\ table[src[k]].org = f.row.org
          /\ table[src[k]].at = table'[k].at /\ table[src[k]].hash = table'[k].hash
      BY <1>7, <3>1 DEF Altered
    <3>3. src[k] \in HashedOf(f.row.org)
      BY <3>1, <3>2 DEF HashedOf, Hashed
    <3> QED
      BY <2>1, <3>2, <3>3 DEF NothingAppears
  <2>5. Honest'
    BY <1>1 DEF ChainInv, ChainTypes, Honest
  <2> QED
    BY <2>2, <2>3, <2>4, <2>5 DEF Chained
<1> QED
  BY <1>9, <1>10, <1>11 DEF ChainInv

-----------------------------------------------------------------------------
(* What follows from the invariant of the chain. *)

\* Rows each of which is chained to the one before it are accepted.
LEMMA ChainedIsVerified ==
  ASSUME NEW rows, Ordered(rows), NEW may \in BOOLEAN,
         \A i \in DOMAIN rows :
           \/ i = 1 /\ rows[i].hash = NoHash
           \/ /\ rows[i].hash # NoHash
              /\ rows[i].prev = IF i = 1 THEN NoHash ELSE rows[i - 1].hash
              /\ Matches(rows[i]) \/ (may /\ i = 1)
  PROVE  VerifyAuditHashChain(rows, may)
<1> DEFINE N == Len(rows)
<1>1. N \in Nat /\ DOMAIN rows = 1 .. N
  BY ListFacts DEF Ordered
<1>2. PICK f : IsLoop(rows, may, f) /\ VerifyAuditHashChain(rows, may) = f[N].valid
  BY LoopIs
<1> HIDE DEF N
<1>3. /\ f[0] = NothingSeen
      /\ \A n \in 0 .. N : IsRecord(f[n])
      /\ \A n \in 1 .. N : GoesOn(may, f[n - 1], rows[n], f[n])
  BY <1>2 DEF IsLoop, N
<1> DEFINE Good(n) == f[n].valid /\ f[n].prev = (IF n = 0 THEN NoHash ELSE rows[n].hash)
           S == {n \in Nat : n <= N => Good(n)}
<1>4. /\ f[0].valid /\ f[0].prev = NoHash /\ ~f[0].started /\ ~f[0].strict
  BY <1>3 DEF NothingSeen
<1>5. 0 \in S
  BY <1>4
<1>6. ASSUME NEW n \in Nat, n < N, n \in S
      PROVE  n + 1 \in S
  <2> DEFINE r == rows[n + 1]
  <2>1. n + 1 \in 1 .. N /\ n + 1 \in DOMAIN rows /\ (n + 1) - 1 = n /\ Good(n)
    BY <1>1, <1>6
  <2>2. GoesOn(may, f[n], r, f[n + 1])
    BY <1>3, <2>1
  <2>3. \/ n = 0 /\ r.hash = NoHash
        \/ /\ r.hash # NoHash
           /\ r.prev = IF n = 0 THEN NoHash ELSE rows[n].hash
           /\ Matches(r) \/ (may /\ n = 0)
    BY <2>1
  <2> HIDE DEF r
  <2>4. CASE r.hash = NoHash
    <3>1. f[n + 1].valid /\ f[n + 1].prev = r.hash
      BY <1>4, <2>2, <2>3, <2>4 DEF GoesOn
    <3> QED
      BY <2>1, <3>1 DEF r
  <2>5. CASE r.hash # NoHash
    <3>1. r.prev = f[n].prev /\ f[n].valid
      BY <2>1, <2>3, <2>5
    <3>2. Matches(r) \/ (may /\ ~f[n].strict)
      BY <1>4, <2>3, <2>5
    <3>3. f[n + 1].valid /\ f[n + 1].prev = r.hash
      BY <2>2, <2>5, <3>1, <3>2 DEF GoesOn
    <3> QED
      BY <2>1, <3>3 DEF r
  <2> QED
    BY <2>4, <2>5
<1> HIDE DEF S
<1>7. N \in S
  <2>1. N \in 0 .. N
    BY <1>1
  <2> QED
    BY <1>1, <1>5, <1>6, <2>1, UpTo
<1>8. f[N].valid
  BY <1>1, <1>7 DEF S
<1> QED
  BY <1>2, <1>8, Zenon

\* A row with a stamp comes from its entry; one without is of an older release.
LEMMA EntryOf ==
  ASSUME ChainInv, InStep, NEW i \in DOMAIN table, table[i].at # 0
  PROVE  \E n \in DOMAIN log :
           /\ log[n] \in Entries /\ EntryIs(log[n])
           /\ log[n].row.at = table[i].at /\ ComesFrom(table[i], log[n].row)
<1>1. PICK n \in DOMAIN log : ComesFrom(table[i], log[n].row)
  BY DEF ChainInv, RowsAre, TableRow
<1>2. log[n] \in Entries
  BY DEF Entries
<1>3. EntryIs(log[n])
  BY <1>2 DEF ChainInv, Chained, EntriesAgree
<1> QED
  BY <1>1, <1>2, <1>3 DEF ComesFrom

\* A row without a stamp is the first, and hashed with the old hash or not at all.
LEMMA OldRow ==
  ASSUME ChainInv, InStep, NEW i \in DOMAIN table, table[i].at = 0
  PROVE  i = 1 /\ table[i].prev = NoHash /\ table[i].hash \in {NoHash, <<"old">>}
<1>1. DOMAIN table = 1 .. Len(table) /\ Len(table) \in Nat /\ Ordered(table)
  BY ListFacts DEF ChainInv, Chained, Ordered
<1>2. ASSUME i # 1 PROVE FALSE
  <2>1. 1 \in DOMAIN table /\ 1 < i
    BY <1>1, <1>2
  <2>2. table[1].at < table[i].at /\ table[1].at \in Nat
    BY <1>1, <2>1 DEF Ordered
  <2> QED
    BY <2>2
<1>3. TableRow(table[i])
  BY DEF ChainInv, RowsAre
<1>4. ASSUME NEW n \in DOMAIN log, ComesFrom(table[i], log[n].row) PROVE FALSE
  <2>1. log[n].row.at \in 1 .. MaxRows
    BY DEF ChainInv, RowsAre, Stamped
  <2>2. log[n].row.at = 0
    BY <1>4 DEF ComesFrom
  <2> QED
    BY <2>1, <2>2
<1> QED
  BY <1>2, <1>3, <1>4 DEF TableRow

\* A hash is not the missing one.
LEMMA HashIsSome ==
  ASSUME NEW row, NEW order
  PROVE  Hash(row, order) # NoHash
  BY DEF Hash, NoHash

\* Before anybody changes the table, its rows are chained to one another.
LEMMA HonestVerifies ==
  ASSUME ChainInv
  PROVE  HonestChainVerifies
<1> SUFFICES ASSUME InStep, changes = 0, OneOrg(table), Flat(table), OldRows(table) => allow
             PROVE  VerifyAuditHashChain(table, allow)
  BY DEF HonestChainVerifies
<1>1. /\ Ordered(table) /\ allow \in BOOLEAN
      /\ Len(table) \in Nat /\ DOMAIN table = 1 .. Len(table)
  BY ListFacts DEF ChainInv, ChainTypes, Chained, Ordered
<1>2. ASSUME NEW i \in DOMAIN table, table[i].at = 0
      PROVE  \/ i = 1 /\ table[i].hash = NoHash
             \/ /\ table[i].hash # NoHash
                /\ table[i].prev = IF i = 1 THEN NoHash ELSE table[i - 1].hash
                /\ Matches(table[i]) \/ (allow /\ i = 1)
  <2>1. i = 1 /\ table[i].prev = NoHash /\ table[i].hash \in {NoHash, <<"old">>}
    BY <1>2, OldRow
  <2>2. table[i].hash = <<"old">> => allow
    BY DEF OldRows
  <2>3. <<"old">> # NoHash
    BY DEF NoHash
  <2> QED
    BY <2>1, <2>2, <2>3
<1>3. ASSUME NEW i \in DOMAIN table, table[i].at # 0
      PROVE  /\ table[i].hash # NoHash
             /\ table[i].prev = IF i = 1 THEN NoHash ELSE table[i - 1].hash
             /\ Matches(table[i])
  <2> DEFINE r == table[i]
             B == {j \in HashedOf(r.org) : j < i}
  <2>1. /\ \E n \in DOMAIN log : r = log[n].row
        /\ NewestIs(r.prev, B)
    BY <1>3 DEF ChainInv, Chained, Honest
  <2>2. PICK n \in DOMAIN log : r = log[n].row
    BY <2>1
  <2>3. r.hash = Hash(r, Written(r.form)) /\ r.form = "flat"
    BY <2>2 DEF ChainInv, RowsAre, Stamped, Flat
  <2>4. r.hash = Hash(r, "key order")
    BY <2>3 DEF Written
  <2>5. r.hash # NoHash
    BY <2>4, HashIsSome
  <2>6. \A j \in DOMAIN table : table[j].org = r.org
    BY DEF OneOrg
  <2>7. r.prev = IF i = 1 THEN NoHash ELSE table[i - 1].hash
    <3>1. CASE B = {}
      <4>1. r.prev = NoHash
        BY <2>1, <3>1 DEF NewestIs
      <4>2. ASSUME i # 1 PROVE table[i - 1].hash = NoHash
        <5>1. i - 1 \in DOMAIN table /\ i - 1 < i
          BY <1>1, <4>2
        <5>2. i - 1 \notin HashedOf(r.org)
          BY <3>1, <5>1
        <5> QED
          BY <2>6, <5>1, <5>2 DEF HashedOf, Hashed
      <4> QED
        BY <4>1, <4>2
    <3>2. CASE B # {}
      <4>1. PICK j \in B : r.prev = table[j].hash /\ \A k \in B : k <= j
        BY <2>1, <3>2 DEF NewestIs
      <4>2. j \in DOMAIN table /\ j < i /\ table[j].hash # NoHash
        BY DEF HashedOf, Hashed
      <4>3. i # 1 /\ i - 1 \in DOMAIN table /\ i - 1 < i /\ j <= i - 1
        BY <1>1, <4>2
      <4>4. CASE table[i - 1].hash # NoHash
        <5>1. i - 1 \in B
          BY <2>6, <4>3, <4>4 DEF HashedOf, Hashed
        <5>2. i - 1 = j
          BY <1>1, <4>1, <4>2, <4>3, <5>1
        <5> QED
          BY <4>1, <4>3, <5>2
      <4>5. CASE table[i - 1].hash = NoHash
        <5>1. table[i - 1].at = 0
          <6> SUFFICES ASSUME table[i - 1].at # 0 PROVE FALSE
            OBVIOUS
          <6>1. PICK m \in DOMAIN log : table[i - 1] = log[m].row
            BY <4>3 DEF ChainInv, Chained, Honest
          <6>2. log[m].row.hash = Hash(log[m].row, Written(log[m].row.form))
            BY DEF ChainInv, RowsAre, Stamped
          <6> QED
            BY <4>5, <6>1, <6>2, HashIsSome
        <5>2. i - 1 = 1
          BY <4>3, <5>1, OldRow
        <5>3. j = i - 1
          BY <1>1, <4>2, <4>3, <5>2
        <5> QED
          BY <4>2, <4>5, <5>3
      <4> QED
        BY <4>4, <4>5
    <3> QED
      BY <3>1, <3>2
  <2> QED
    BY <2>4, <2>5, <2>7 DEF Matches
<1> QED
  BY <1>1, <1>2, <1>3, ChainedIsVerified

\* A hash has one stamp.
LEMMA OneStamp ==
  ASSUME NEW h, NEW a, NEW b, IsLink(a, h), IsLink(b, h)
  PROVE  a = b
  BY DEF IsLink

\* A linked hash is not the missing one.
LEMMA LinkIsSome ==
  ASSUME NEW h, NEW a, IsLink(a, h)
  PROVE  h # NoHash
<1>1. <<"old">> # NoHash /\ <<h[1], a, h[3], h[4]>> # NoHash
  BY DEF NoHash
<1> QED
  BY <1>1 DEF IsLink

\* Which entries of a log a list of rows is compared with.
VouchedBy(entries, rows, mayMismatch) ==
  LET good == {i \in Hashed(rows) : rows[i].hash = Hash(rows[i], "key order")}
  IN  Rising(entries) /\ OneOrg(rows) /\ VerifyAuditHashChain(rows, mayMismatch) =>
        /\ ~mayMismatch => good = Hashed(rows)
        /\ \A i \in good :
             /\ \E n \in DOMAIN entries :
                  /\ rows[i] = entries[n].row
                  /\ Links(rows, {j \in Hashed(rows) : rows[j].at < rows[i].at}) = entries[n].before
             /\ \A j \in DOMAIN rows : rows[i].at < rows[j].at => j \in good

\* The first rows of the table that verify go back, one by one, to entries that
\* agree on what was there before them.
LEMMA FirstRowsVouched ==
  ASSUME ChainInv, InStep, NEW k \in 0 .. Len(table), NEW rows, rows = SubSeq(table, 1, k),
         NEW may \in BOOLEAN
  PROVE  VouchedBy(log, rows, may)
<1>1. /\ Ordered(table) /\ Len(table) \in Nat /\ DOMAIN table = 1 .. Len(table)
  BY ListFacts DEF ChainInv, Chained, Ordered
<1>2. /\ IsList(rows) /\ DOMAIN rows = 1 .. k /\ DOMAIN rows \subseteq DOMAIN table /\ k \in Nat
      /\ \A i \in DOMAIN rows : rows[i] = table[i]
  <2>1. IsList(SubSeq(table, 1, k)) /\ Len(SubSeq(table, 1, k)) = k
        /\ \A i \in 1 .. k : SubSeq(table, 1, k)[i] = table[i]
    BY <1>1, PrefixList DEF Ordered
  <2>2. IsList(rows) /\ Len(rows) = k /\ \A i \in 1 .. k : rows[i] = table[i]
    BY <2>1
  <2> QED
    BY <1>1, <2>2, ListFacts
<1>3. Ordered(rows)
  BY <1>1, <1>2 DEF Ordered
<1> DEFINE Below(i) == {j \in Hashed(rows) : rows[j].at < rows[i].at}
           good == {i \in Hashed(rows) : rows[i].hash = Hash(rows[i], "key order")}
<1> SUFFICES ASSUME OneOrg(rows), VerifyAuditHashChain(rows, may)
             PROVE  /\ ~may => good = Hashed(rows)
                    /\ \A i \in good :
                         /\ \E n \in DOMAIN log :
                              rows[i] = log[n].row /\ Links(rows, Below(i)) = log[n].before
                         /\ \A j \in DOMAIN rows : rows[i].at < rows[j].at => j \in good
  BY DEF VouchedBy
<1>4. Accepted(rows, may)
  BY <1>3, VerifiedIsAccepted
<1>5. \A i, j \in DOMAIN rows : rows[i].at < rows[j].at <=> i < j
  BY <1>3, OrderIs
<1>6. ASSUME NEW i \in Hashed(rows)
      PROVE  /\ i \in DOMAIN rows /\ i \in Hashed(table) /\ rows[i].hash # NoHash
             /\ rows[i].at \in Nat /\ IsLink(rows[i].at, rows[i].hash)
  <2>1. i \in DOMAIN rows /\ rows[i].hash # NoHash
    BY DEF Hashed
  <2>2. i \in Hashed(table) /\ rows[i] = table[i]
    BY <1>2, <2>1 DEF Hashed
  <2>3. IsLink(table[i].at, table[i].hash)
    BY <2>2, TableLink DEF ChainInv
  <2> QED
    BY <1>3, <2>1, <2>2, <2>3 DEF Ordered
\* The entry of a hashed row with a stamp.
<1>7. ASSUME NEW i \in Hashed(rows), rows[i].at # 0
      PROVE  \E n \in DOMAIN log :
               /\ log[n] \in Entries /\ EntryIs(log[n])
               /\ log[n].row.at = rows[i].at /\ log[n].row.org = rows[i].org
               /\ log[n].row.hash = rows[i].hash /\ log[n].row.prev = rows[i].prev
               /\ log[n].row.form = rows[i].form
  <2>1. i \in DOMAIN table /\ table[i] = rows[i] /\ rows[i].hash # NoHash
    BY <1>2, <1>6
  <2>2. PICK n \in DOMAIN log :
          /\ log[n] \in Entries /\ EntryIs(log[n])
          /\ log[n].row.at = rows[i].at /\ ComesFrom(rows[i], log[n].row)
    BY <1>7, <2>1, EntryOf
  <2> QED
    BY <2>1, <2>2 DEF ComesFrom
\* By induction: below a row come the rows that were there for its entry.
<1> DEFINE P(i) ==
             i \in Hashed(rows) =>
               \A n \in DOMAIN log : log[n].row.at = rows[i].at =>
                 Links(rows, Below(i)) = log[n].before
           S == {i \in Nat : i <= k => P(i)}
<1>8. 0 \in S
  <2>1. 0 \notin Hashed(rows)
    BY <1>2, <1>6
  <2>2. P(0)
    BY <2>1
  <2> HIDE DEF P
  <2> QED
    BY <2>2
<1>9. ASSUME NEW m \in Nat, m < k, m \in S
      PROVE  m + 1 \in S
  <2> DEFINE i == m + 1
             L == Links(rows, Below(i))
  <2> HIDE DEF P
  <2>0. SUFFICES P(i)
    BY <1>9, <2>0
  <2>1. P(m) /\ i - 1 = m
    BY <1>9
  <2> USE DEF P
  <2> SUFFICES ASSUME i \in Hashed(rows), NEW n \in DOMAIN log, log[n].row.at = rows[i].at
               PROVE  L = log[n].before
    OBVIOUS
  <2>2. log[n] \in Entries /\ EntryIs(log[n]) /\ rows[i].at # 0
    <3>1. log[n] \in Entries
      BY DEF Entries
    <3>2. EntryIs(log[n])
      BY <3>1 DEF ChainInv, Chained, EntriesAgree
    <3>3. log[n].row.at \in 1 .. MaxRows
      BY <3>2 DEF EntryIs, Stamped
    <3> DEFINE a == log[n].row.at
    <3>4. a # 0
      <4> HIDE DEF a
      <4>1. a \in 1 .. MaxRows
        BY <3>3 DEF a
      <4> QED
        BY ONLY <4>1, AuditChainAssumption
    <3>5. rows[i].at # 0
      BY <3>4
    <3> QED
      BY <3>1, <3>2, <3>5
  <2> DEFINE e == log[n]
  <2>3. e.row.org = rows[i].org /\ e.row.prev = rows[i].prev
    <3>1. PICK o \in DOMAIN log :
            /\ log[o] \in Entries /\ log[o].row.at = rows[i].at /\ log[o].row.org = rows[i].org
            /\ log[o].row.prev = rows[i].prev
      BY <1>7, <2>2
    <3>2. log[o] = log[n]
      BY <2>2, <3>1 DEF ChainInv, Chained, EntriesAgree
    <3> QED
      BY <3>1, <3>2
  <2>4. \A x \in e.before :
          /\ x = <<x[1], x[2]>> /\ x[1] \in Nat /\ IsLink(x[1], x[2])
          /\ \A y \in e.before : x[1] = y[1] => x = y
    BY <2>2 DEF EntryIs, Stamped
  <2>5. L \subseteq e.before
    <3> SUFFICES ASSUME NEW j \in Below(i)
                 PROVE  <<rows[j].at, rows[j].hash>> \in e.before
      BY DEF Links
    <3>1. j \in Hashed(rows) /\ rows[j].at < rows[i].at
      OBVIOUS
    <3>2. j \in DOMAIN rows /\ i \in DOMAIN rows /\ j \in Hashed(table)
      BY <1>6, <3>1
    <3>3. rows[j].org = rows[i].org
      BY <3>2 DEF OneOrg
    <3>4. j \in HashedOf(e.row.org) /\ table[j].at < e.row.at /\ table[j] = rows[j]
      BY <1>2, <2>3, <3>1, <3>2, <3>3 DEF HashedOf
    <3>5. <<table[j].at, table[j].hash>> \in e.before
      BY <2>2, <3>4 DEF ChainInv, Chained, NothingAppears
    <3> QED
      BY <3>4, <3>5
  <2>6. e.before \subseteq L
    <3> SUFFICES ASSUME NEW x \in e.before PROVE x \in L
      OBVIOUS
    <3>1. PICK y \in e.before : e.row.prev = y[2] /\ \A z \in e.before : z[1] <= y[1]
      BY <2>2 DEF EntryIs
    <3>2. y[2] # NoHash
      <4>1. IsLink(y[1], y[2])
        BY <2>4
      <4> QED
        BY <4>1, LinkIsSome
    <3>3. m \in Hashed(rows) /\ rows[m].hash = y[2]
      BY <1>4, <2>1, <2>3, <3>1, <3>2 DEF Accepted
    <3>4. m \in DOMAIN rows /\ i \in DOMAIN rows /\ rows[m].at \in Nat /\ IsLink(rows[m].at, y[2])
      BY <1>6, <3>3
    <3>5. y[1] = rows[m].at
      BY <2>4, <3>4, OneStamp
    <3>6. rows[m].at < rows[i].at
      BY <1>5, <3>4
    <3>7. m \in Below(i)
      BY <3>3, <3>6
    <3>8. CASE x[1] = y[1]
      <4>1. x = y /\ y = <<rows[m].at, rows[m].hash>>
        BY <2>4, <3>3, <3>5, <3>8
      <4> QED
        BY <3>7, <4>1 DEF Links
    <3>9. CASE x[1] # y[1]
      <4>1. x[1] < rows[m].at /\ rows[m].at # 0
        BY <2>4, <3>1, <3>4, <3>5, <3>9
      <4>2. PICK o \in DOMAIN log :
              /\ log[o] \in Entries /\ log[o].row.at = rows[m].at /\ log[o].row.org = rows[m].org
        BY <1>7, <3>3, <4>1
      <4>3. rows[m].org = rows[i].org
        BY <3>4 DEF OneOrg
      <4>4. x \in log[o].before
        BY <2>2, <2>3, <3>6, <4>1, <4>2, <4>3 DEF ChainInv, Chained, EntriesAgree
      <4>5. x \in Links(rows, Below(m))
        BY <2>1, <3>3, <4>2, <4>4
      <4>6. PICK j \in Below(m) : x = <<rows[j].at, rows[j].hash>>
        BY <4>5 DEF Links
      <4>7. j \in Hashed(rows) /\ rows[j].at < rows[m].at
        OBVIOUS
      <4>8. rows[j].at \in Nat /\ rows[i].at \in Nat
        BY <1>6, <4>7
      <4>9. rows[j].at < rows[i].at
        <5> DEFINE a == rows[j].at
                   b == rows[m].at
                   c == rows[i].at
        <5>1. a \in Nat /\ b \in Nat /\ c \in Nat /\ a < b /\ b < c
          BY <3>4, <3>6, <4>7, <4>8
        <5> HIDE DEF a, b, c
        <5>2. a < c
          BY <5>1
        <5> QED
          BY <5>2 DEF a, c
      <4>10. j \in Below(i)
        BY <4>7, <4>9
      <4> QED
        BY <4>6, <4>10 DEF Links
    <3> QED
      BY <3>8, <3>9
  <2> QED
    BY <2>5, <2>6
<1> HIDE DEF S
<1>10. \A i \in 0 .. k : i \in S
  BY <1>2, <1>8, <1>9, UpTo
<1>11. ASSUME NEW i \in Hashed(rows), NEW n \in DOMAIN log, log[n].row.at = rows[i].at
       PROVE  Links(rows, Below(i)) = log[n].before
  <2>1. i \in 1 .. k /\ i \in 0 .. k /\ i \in Nat /\ i <= k
    BY <1>2, <1>6
  <2>2. i \in S
    BY <1>10, <2>1
  <2> QED
    BY <1>11, <2>1, <2>2 DEF S
<1>12. \A i \in good : i \in Hashed(rows) /\ Matches(rows[i])
  BY DEF Matches
<1>13. ~may => good = Hashed(rows)
  BY <1>4 DEF Accepted, Matches
<1>14. ASSUME NEW i \in good
       PROVE  \E n \in DOMAIN log :
                rows[i] = log[n].row /\ Links(rows, Below(i)) = log[n].before
  <2> DEFINE r == rows[i]
  <2>1. i \in Hashed(rows) /\ i \in DOMAIN rows /\ r.hash = Hash(r, "key order")
    BY <1>6, <1>12 DEF Matches
  <2>2. RowForm(r)
    BY <1>2, <2>1 DEF ChainInv, RowsAre, TableRow
  <2>3. r.at # 0
    <3>1. ASSUME r.at = 0 PROVE r.hash \in {NoHash, <<"old">>}
      BY <1>2, <2>1, <3>1, OldRow
    <3>2. Hash(r, "key order") \notin {NoHash, <<"old">>}
      BY DEF Hash, NoHash
    <3> QED
      BY <2>1, <3>1, <3>2
  <2>4. PICK n \in DOMAIN log :
          /\ EntryIs(log[n])
          /\ log[n].row.at = r.at /\ log[n].row.org = r.org
          /\ log[n].row.hash = r.hash /\ log[n].row.prev = r.prev /\ log[n].row.form = r.form
    BY <1>7, <2>1, <2>3
  <2>5. log[n].row.says = r.says
    <3> DEFINE s == log[n].row
               a == Written(s.form)
    <3>1. s.hash = Hash(s, a) /\ s.hash = Hash(r, "key order")
      BY <2>1, <2>4 DEF EntryIs, Stamped
    <3> HIDE DEF r, s, a
    <3>2. <<s.says, s.at, s.prev, a>> = <<r.says, r.at, r.prev, "key order">>
      BY <3>1 DEF Hash
    <3>3. s.says = r.says
      BY <3>2
    <3> QED
      BY <3>3 DEF s
  <2>6. r = log[n].row
    BY <2>2, <2>4, <2>5 DEF EntryIs, Stamped, RowForm
  <2> QED
    BY <1>11, <2>1, <2>4, <2>6
<1>15. ASSUME NEW i \in good, NEW j \in DOMAIN rows, rows[i].at < rows[j].at
       PROVE  j \in good
  <2>1. i \in Hashed(rows) /\ i \in DOMAIN rows /\ Matches(rows[i]) /\ i < j
    BY <1>5, <1>6, <1>12, <1>15
  <2>2. j \in Hashed(rows)
    BY <1>4, <2>1 DEF Accepted
  <2>3. Matches(rows[j])
    BY <1>4, <2>1, <2>2 DEF Accepted
  <2> QED
    BY <2>2, <2>3 DEF Matches
<1> QED
  BY <1>13, <1>14, <1>15

\* What holds of the first rows holds of all.
LEMMA TableVouched ==
  ASSUME ChainInv
  PROVE  ChangesAreFound
<1> SUFFICES ASSUME InStep PROVE ChangesAreFound
  BY DEF ChangesAreFound, Vouched
<1>1. IsList(table) /\ allow \in BOOLEAN
  BY DEF ChainInv, ChainTypes
<1>2. Len(table) \in 0 .. Len(table)
  BY <1>1, ListFacts
<1>3. table = SubSeq(table, 1, Len(table))
  BY <1>1, SubSeqFull DEF IsList
<1>4. VouchedBy(log, table, allow)
  BY <1>1, <1>2, <1>3, FirstRowsVouched
<1> QED
  BY <1>4 DEF VouchedBy, ChangesAreFound, Vouched, InStep

\* In step, the listing of the rows in the order of their stamps is the table.
LEMMA ListingIs ==
  ASSUME ChainInv, InStep
  PROVE  InOrder(table) = table
<1>1. Ordered(table) /\ IsList(table) /\ DOMAIN table = 1 .. Len(table)
  BY ListFacts DEF ChainInv, Chained, Ordered
<1>2. \A n \in DOMAIN table : InOrder(table)[n] = table[n]
  BY <1>1, InOrderIs
<1>3. InOrder(table) = [n \in DOMAIN table |-> InOrder(table)[n]]
  BY DEF InOrder
<1>4. table = [n \in DOMAIN table |-> table[n]]
  BY <1>1 DEF IsList
<1> QED
  BY <1>2, <1>3, <1>4

-----------------------------------------------------------------------------
(* The inductive invariant of the shippers. *)

\* Rows that were sealed, or are about to be.
SealedRows(rows) ==
  VerifyAuditHashChain(rows, allow) /\ VouchedBy(log, rows, allow)

\* What a shipper may be doing.
IsWork(w) ==
  \/ w.step = "rest" /\ w = AtRest
  \/ w.step = "audit" /\ w = [step |-> "audit"]
  \/ /\ w.step = "seal" /\ w = [step |-> "seal", bundle |-> w.bundle, rows |-> w.rows]
     /\ w.bundle \in Bundle
  \/ w.step = "ship" /\ w = [step |-> "ship", bundle |-> w.bundle] /\ w.bundle \in Bundle
  \/ /\ w.step = "send" /\ w = [step |-> "send", bundle |-> w.bundle, file |-> w.file]
     /\ w.bundle \in Bundle /\ w.file \in 1 .. 3
  \/ w.step = "receipt" /\ w = [step |-> "receipt", bundle |-> w.bundle] /\ w.bundle \in Bundle

\* What a bundle at the target looks like.
IsTarget(t) ==
  /\ t = [dir |-> t.dir, files |-> t.files, receipt |-> t.receipt]
  /\ t.files \in [1 .. 3 -> {"none", "torn", "whole"}]
  /\ t.dir \in BOOLEAN /\ t.receipt \in BOOLEAN

\* Types that the other parts rest on.
ShipTypes ==
  /\ scheme \in {"file", "s3", "http"}
  /\ shipper = [p \in Shipper |-> shipper[p]] /\ \A p \in Shipper : IsWork(shipper[p])
  /\ seal = [b \in Bundle |-> seal[b]]
  /\ target = [b \in Bundle |-> target[b]] /\ \A b \in Bundle : IsTarget(target[b])

\* A bundle holds the rows of whoever writes it, and there is one who does.
Seals ==
  /\ \A b \in Bundle :
       \/ seal[b] = NoSeal
       \/ /\ seal[b] = [files |-> seal[b].files, rows |-> seal[b].rows]
          /\ seal[b].files \in 1 .. 3 /\ SealedRows(seal[b].rows)
  /\ \A p \in Shipper : shipper[p].step = "seal" =>
       /\ SealedRows(shipper[p].rows)
       /\ seal[shipper[p].bundle].files < 3
       /\ seal[shipper[p].bundle] = NoSeal \/ seal[shipper[p].bundle].rows = shipper[p].rows
  /\ \A p, q \in Shipper :
       shipper[p].step = "seal" /\ shipper[q].step = "seal" /\ shipper[p].bundle = shipper[q].bundle =>
         p = q

\* A shipment has sent the files up to the one it is at.
Whole(b) == \A f \in 1 .. 3 : target[b].files[f] = "whole"
Shipments ==
  \A p \in Shipper :
    /\ shipper[p].step \in {"send", "receipt"} => seal[shipper[p].bundle].files = 3
    /\ shipper[p].step = "send" =>
         \A f \in 1 .. 3 : f < shipper[p].file => target[shipper[p].bundle].files[f] = "whole"
    /\ shipper[p].step = "receipt" => Whole(shipper[p].bundle)
\* A receipt comes after the three files, of a bundle that is complete.
Receipts == \A b \in Bundle : target[b].receipt => Whole(b) /\ seal[b].files = 3

\* No two shipments of a bundle get past its first file.
IsPast(w, b) ==
  (w.step = "receipt" \/ (w.step = "send" /\ w.file > 1)) /\ w.bundle = b
OnePast ==
  scheme # "http" => \A b \in Bundle :
    /\ \A p, q \in Shipper : IsPast(shipper[p], b) /\ IsPast(shipper[q], b) => p = q
    /\ target[b].receipt => \A p \in Shipper : ~IsPast(shipper[p], b)

ShipInv == ShipTypes /\ Seals /\ Shipments /\ Receipts /\ OnePast

-----------------------------------------------------------------------------
(* The chain's types. *)

\* What is recorded about a row is one.
LEMMA EntryIsRow ==
  ASSUME NEW e, Stamped(e)
  PROVE  IsRow(e.row)
<1> DEFINE r == e.row
           o == Written(r.form)
<1>1. r.org \in Org /\ r.form \in Forms /\ r.at \in 1 .. MaxRows /\ r.says \in 1 .. MaxRows
  BY DEF Stamped, RowForm
<1>2. r.says \in Changed .. MaxRows /\ r.at \in 0 .. MaxRows
  <2> HIDE DEF r
  <2> QED
    BY <1>1, AuditChainAssumption DEF Changed
<1>3. Len(r.hash) = 4
  <2>1. r.hash = <<r.says, r.at, r.prev, o>>
    BY DEF Stamped, Hash
  <2> HIDE DEF r, o
  <2> QED
    BY <2>1
<1>4. Len(r.prev) \in {0, 1, 4}
  BY DEF Stamped, Lengths
<1> QED
  BY <1>1, <1>2, <1>3, <1>4 DEF IsRow

LEMMA TableIsRows ==
  ASSUME ChainInv, NEW i \in DOMAIN table
  PROVE  IsRow(table[i])
<1> DEFINE r == table[i]
<1>1. RowForm(r) /\ TableRow(r)
      /\ r.at \in 0 .. MaxRows /\ Len(r.hash) \in Lengths /\ Len(r.prev) \in Lengths
  BY RowStamp DEF ChainInv, RowsAre
<1>2. 0 \in Changed .. MaxRows /\ Changed \in Changed .. MaxRows
  BY AuditChainAssumption DEF Changed
<1>3. r.says \in Changed .. MaxRows
  <2>1. CASE \E n \in DOMAIN log : ComesFrom(r, log[n].row)
    <3>1. PICK n \in DOMAIN log : ComesFrom(r, log[n].row)
      BY <2>1
    <3>2. Stamped(log[n])
      BY DEF ChainInv, RowsAre
    <3>3. IsRow(log[n].row)
      BY <3>2, EntryIsRow
    <3> QED
      BY <1>2, <3>1, <3>3 DEF ComesFrom, IsRow
  <2>2. CASE ~\E n \in DOMAIN log : ComesFrom(r, log[n].row)
    BY <1>1, <1>2, <2>2 DEF TableRow
  <2> QED
    BY <2>1, <2>2
<1> QED
  BY <1>1, <1>3 DEF RowForm, IsRow, Lengths

\* The invariant of the chain gives its types.
LEMMA ChainTyped ==
  ASSUME ChainInv
  PROVE  ChainTypeOK
<1>1. \A i \in DOMAIN table : IsRow(table[i])
  BY TableIsRows
<1>2. \A n \in DOMAIN log : IsRow(log[n].row)
  BY EntryIsRow DEF ChainInv, RowsAre
<1>3. \A w \in Writer : pending[w] # NoRow => lock = w /\ IsRow(pending[w].row)
  BY EntryIsRow DEF ChainInv, RowsAre
<1> QED
  BY <1>1, <1>2, <1>3 DEF ChainTypeOK, ChainInv, ChainTypes

-----------------------------------------------------------------------------
(* What is sealed stays sealed. *)

\* Entries added to the log take no voucher away.
LEMMA VouchedStays ==
  ASSUME NEW rows, NEW may, NEW entries, IsList(entries), VouchedBy(entries, rows, may), NEW more,
         more = entries \/ \E e : more = Append(entries, e)
  PROVE  VouchedBy(more, rows, may)
<1>1. \A n \in DOMAIN entries : n \in DOMAIN more /\ more[n] = entries[n]
  <2>1. CASE more = entries
    BY <2>1
  <2>2. CASE \E e : more = Append(entries, e)
    <3>1. PICK e : more = Append(entries, e)
      BY <2>2
    <3> DEFINE a == Append(entries, e)
    <3>2. /\ IsList(a) /\ Len(a) = Len(entries) + 1
          /\ \A i \in 1 .. Len(entries) : a[i] = entries[i]
      BY AppendList
    <3> HIDE DEF a
    <3>3. /\ DOMAIN a = 1 .. Len(a) /\ DOMAIN entries = 1 .. Len(entries) /\ Len(entries) \in Nat
      BY <3>2, ListFacts
    <3>4. more = a
      BY <3>1 DEF a
    <3> QED
      BY <3>2, <3>3, <3>4
  <2> QED
    BY <2>1, <2>2
<1> DEFINE good == {i \in Hashed(rows) : rows[i].hash = Hash(rows[i], "key order")}
           Below(i) == Links(rows, {j \in Hashed(rows) : rows[j].at < rows[i].at})
<1> SUFFICES ASSUME Rising(more), OneOrg(rows), VerifyAuditHashChain(rows, may)
             PROVE  /\ ~may => good = Hashed(rows)
                    /\ \A i \in good :
                         /\ \E n \in DOMAIN more :
                              rows[i] = more[n].row /\ Below(i) = more[n].before
                         /\ \A j \in DOMAIN rows : rows[i].at < rows[j].at => j \in good
  BY DEF VouchedBy
<1>2. Rising(entries)
  BY <1>1 DEF Rising
<1>3. /\ ~may => good = Hashed(rows)
      /\ \A i \in good :
           /\ \E n \in DOMAIN entries :
                rows[i] = entries[n].row /\ Below(i) = entries[n].before
           /\ \A j \in DOMAIN rows : rows[i].at < rows[j].at => j \in good
  BY <1>2 DEF VouchedBy
<1> HIDE DEF good, Below
<1> QED
  BY <1>1, <1>3

\* The log is left alone or gets one entry more.
Grows == /\ allow' = allow
         /\ log' = log \/ \E e : log' = Append(log, e)

\* Rows that are sealed stay so whatever the chain does.
LEMMA SealedStays ==
  ASSUME NEW rows, SealedRows(rows), IsList(log), allow \in BOOLEAN, Grows
  PROVE  SealedRows(rows)'
<1>1. VouchedBy(log, rows, allow) /\ VerifyAuditHashChain(rows, allow)
  BY DEF SealedRows
<1>2. VouchedBy(log', rows, allow)
  BY <1>1, VouchedStays DEF Grows
<1>3. allow' = allow
  BY DEF Grows
<1>4. VouchedBy(log', rows, allow') /\ VerifyAuditHashChain(rows, allow')
  BY <1>1, <1>2, <1>3
<1> QED
  BY <1>4 DEF SealedRows

\* Every step of the chain keeps its invariant and leaves the log or adds to it.
LEMMA ChainKeeps ==
  ASSUME ChainInv, ChainNext
  PROVE  ChainInv' /\ Grows
<1>1. ASSUME NEW w \in Writer, NEW org \in Org, NEW form \in Forms, BeginRecord(w, org, form)
      PROVE  ChainInv' /\ Grows
  BY <1>1, BeginRecordKeeps DEF Grows, BeginRecord
<1>2. ASSUME NEW w \in Writer, CommitRecord(w)
      PROVE  ChainInv' /\ Grows
  BY <1>2, CommitRecordKeeps DEF Grows, CommitRecord
<1>3. ASSUME NEW w \in Writer, FailRecord(w)
      PROVE  ChainInv' /\ Grows
  BY <1>3, FailRecordKeeps DEF Grows, FailRecord
<1>4. CASE ChangeTable
  BY <1>4, ChangeTableKeeps DEF Grows, ChangeTable
<1>5. "flat" \in Forms
  BY DEF Forms
<1> QED
  BY <1>1, <1>2, <1>3, <1>4, <1>5 DEF ChainNext

-----------------------------------------------------------------------------
(* One step of a shipper. *)

\* A bundle has three files.
LEMMA FilesAre == Len(Files) = 3 /\ DOMAIN Files = 1 .. 3
  BY DEF Files

\* One shipper goes on, the others stay where they are.
LEMMA SetIs ==
  ASSUME ShipTypes, NEW p \in Shipper, NEW w, IsWork(w), Set(p, w)
  PROVE  /\ shipper' = [q \in Shipper |-> shipper'[q]]
         /\ shipper'[p] = w
         /\ \A q \in Shipper : q # p => shipper'[q] = shipper[q]
         /\ \A q \in Shipper : IsWork(shipper'[q])
<1>1. shipper' = [shipper EXCEPT ![p] = w]
  BY DEF Set
<1>2. /\ shipper' = [q \in Shipper |-> shipper'[q]]
      /\ shipper'[p] = w
      /\ \A q \in Shipper : q # p => shipper'[q] = shipper[q]
  BY <1>1 DEF ShipTypes
<1>3. \A q \in Shipper : IsWork(shipper[q])
  BY DEF ShipTypes
<1> QED
  BY <1>2, <1>3

\* The bundles on the disk stay what they are.
LEMMA SealsStay ==
  ASSUME ShipInv, ChainInv, Grows, seal' = seal, NEW b \in Bundle
  PROVE  \/ seal'[b] = NoSeal
         \/ /\ seal'[b] = [files |-> seal'[b].files, rows |-> seal'[b].rows]
            /\ seal'[b].files \in 1 .. 3 /\ SealedRows(seal[b].rows)'
<1>1. CASE seal[b] = NoSeal
  BY <1>1
<1>2. CASE seal[b] # NoSeal
  <2>1. PICK rows : rows = seal[b].rows
    OBVIOUS
  <2>2. SealedRows(rows)
    BY <1>2, <2>1 DEF ShipInv, Seals
  <2>3. SealedRows(rows)'
    BY <2>2, SealedStays DEF ChainInv, ChainTypes
  <2>4. rows = seal'[b].rows
    BY <2>1
  <2>5. SealedRows(seal[b].rows)'
    BY <2>3, <2>4 DEF SealedRows
  <2> QED
    BY <1>2, <2>5 DEF ShipInv, Seals
<1> QED
  BY <1>1, <1>2

\* A shipper does not begin to seal, and what was delivered stays there.
LEMMA ShipStep ==
  ASSUME ShipInv, ChainInv, Grows, scheme' = scheme, seal' = seal,
         NEW p \in Shipper, NEW w, IsWork(w), w.step # "seal", Set(p, w),
         target' = [b \in Bundle |-> target'[b]],
         \A b \in Bundle :
           /\ IsTarget(target'[b])
           /\ \A f \in 1 .. 3 : target[b].files[f] = "whole" => target'[b].files[f] = "whole"
           /\ target'[b].receipt => target[b].receipt \/ (Whole(b)' /\ seal[b].files = 3),
         w.step \in {"send", "receipt"} => seal[w.bundle].files = 3,
         w.step = "send" =>
           \A f \in 1 .. 3 : f < w.file => target'[w.bundle].files[f] = "whole",
         w.step = "receipt" => \A f \in 1 .. 3 : target'[w.bundle].files[f] = "whole",
         scheme # "http" => \A b \in Bundle :
           /\ IsPast(w, b) =>
                ~target'[b].receipt /\ \A q \in Shipper : q # p => ~IsPast(shipper[q], b)
           /\ target'[b].receipt =>
                target[b].receipt \/ \A q \in Shipper : q # p => ~IsPast(shipper[q], b)
  PROVE  ShipInv'
<1>1. /\ shipper' = [q \in Shipper |-> shipper'[q]]
      /\ shipper'[p] = w
      /\ \A q \in Shipper : q # p => shipper'[q] = shipper[q]
      /\ \A q \in Shipper : IsWork(shipper'[q])
  BY SetIs DEF ShipInv
<1>2. ShipTypes'
  <2>1. \A q \in Shipper : IsWork(shipper[q])'
    BY <1>1 DEF IsWork
  <2>2. \A b \in Bundle : IsTarget(target[b])'
    BY DEF IsTarget
  <2> QED
    BY <1>1, <2>1, <2>2 DEF ShipInv, ShipTypes
<1>3. Seals'
  <2>1. \A b \in Bundle :
          \/ seal'[b] = NoSeal
          \/ /\ seal'[b] = [files |-> seal'[b].files, rows |-> seal'[b].rows]
             /\ seal'[b].files \in 1 .. 3 /\ SealedRows(seal[b].rows)'
    BY SealsStay
  <2>2. ASSUME NEW q \in Shipper, shipper'[q].step = "seal"
        PROVE  /\ q # p /\ shipper'[q] = shipper[q]
               /\ SealedRows(shipper[q].rows)'
               /\ seal'[shipper'[q].bundle].files < 3
               /\ \/ seal'[shipper'[q].bundle] = NoSeal
                  \/ seal'[shipper'[q].bundle].rows = shipper'[q].rows
    <3>1. q # p /\ shipper'[q] = shipper[q]
      BY <1>1, <2>2
    <3>2. PICK rows : rows = shipper[q].rows
      OBVIOUS
    <3>3. SealedRows(rows)
      BY <2>2, <3>1, <3>2 DEF ShipInv, Seals
    <3>4. SealedRows(rows)'
      BY <3>3, SealedStays DEF ChainInv, ChainTypes
    <3>5. SealedRows(shipper[q].rows)'
      BY <3>1, <3>2, <3>4 DEF SealedRows
    <3> QED
      BY <2>2, <3>1, <3>5 DEF ShipInv, Seals
  <2>3. \A q, r \in Shipper :
          shipper'[q].step = "seal" /\ shipper'[r].step = "seal"
          /\ shipper'[q].bundle = shipper'[r].bundle => q = r
    BY <2>2 DEF ShipInv, Seals
  <2> QED
    BY <2>1, <2>2, <2>3 DEF Seals
<1>4. Shipments'
  <2> SUFFICES ASSUME NEW q \in Shipper
               PROVE  /\ shipper'[q].step \in {"send", "receipt"} =>
                           seal'[shipper'[q].bundle].files = 3
                      /\ shipper'[q].step = "send" =>
                           \A f \in 1 .. 3 : f < shipper'[q].file =>
                             target'[shipper'[q].bundle].files[f] = "whole"
                      /\ shipper'[q].step = "receipt" =>
                           \A f \in 1 .. 3 : target'[shipper'[q].bundle].files[f] = "whole"
    BY DEF Shipments, Whole
  <2>1. CASE q = p
    BY <1>1, <2>1
  <2>2. CASE q # p
    <3>1. shipper'[q] = shipper[q] /\ IsWork(shipper[q])
      BY <1>1, <2>2 DEF ShipInv, ShipTypes
    <3>2. shipper[q].step \in {"send", "receipt"} =>
            shipper[q].bundle \in Bundle /\ seal[shipper[q].bundle].files = 3
      BY <3>1 DEF ShipInv, Shipments, IsWork
    <3>3. /\ shipper[q].step = "send" =>
               \A f \in 1 .. 3 : f < shipper[q].file =>
                 target[shipper[q].bundle].files[f] = "whole"
          /\ shipper[q].step = "receipt" =>
               \A f \in 1 .. 3 : target[shipper[q].bundle].files[f] = "whole"
      BY DEF ShipInv, Shipments, Whole
    <3> QED
      BY <3>1, <3>2, <3>3
  <2> QED
    BY <2>1, <2>2
<1>5. Receipts'
  BY DEF ShipInv, Receipts, Whole
<1>6. OnePast'
  <2> SUFFICES ASSUME scheme # "http", NEW b \in Bundle
               PROVE  /\ \A q, r \in Shipper :
                           IsPast(shipper'[q], b) /\ IsPast(shipper'[r], b) => q = r
                      /\ target'[b].receipt => \A q \in Shipper : ~IsPast(shipper'[q], b)
    BY DEF OnePast, IsPast
  <2> DEFINE Past(v) == IsPast(v, b)
  <2>1. /\ \A q, r \in Shipper : Past(shipper[q]) /\ Past(shipper[r]) => q = r
        /\ target[b].receipt => \A q \in Shipper : ~Past(shipper[q])
    BY DEF ShipInv, OnePast
  <2>2. /\ Past(w) => ~target'[b].receipt /\ \A q \in Shipper : q # p => ~Past(shipper[q])
        /\ target'[b].receipt =>
             target[b].receipt \/ \A q \in Shipper : q # p => ~Past(shipper[q])
    OBVIOUS
  <2> HIDE DEF Past
  <2>3. \A q, r \in Shipper : Past(shipper'[q]) /\ Past(shipper'[r]) => q = r
    BY <1>1, <2>1, <2>2
  <2>4. target'[b].receipt => \A q \in Shipper : ~Past(shipper'[q])
    BY <1>1, <2>1, <2>2
  <2> QED
    BY <2>3, <2>4 DEF Past
<1> QED
  BY <1>2, <1>3, <1>4, <1>5, <1>6 DEF ShipInv

\* A shipper that stops, rests or is about to ship sends nothing.
LEMMA QuietWork ==
  ASSUME ShipInv, ChainInv, Grows, scheme' = scheme, seal' = seal, target' = target,
         NEW p \in Shipper, NEW w, IsWork(w), w.step \in {"rest", "audit", "ship"}, Set(p, w)
  PROVE  ShipInv'
<1>1. \A b \in Bundle : ~IsPast(w, b)
  BY DEF IsPast
<1>2. target' = [b \in Bundle |-> target'[b]]
  BY DEF ShipInv, ShipTypes
<1>3. \A b \in Bundle :
        /\ IsTarget(target'[b])
        /\ \A f \in 1 .. 3 : target[b].files[f] = "whole" => target'[b].files[f] = "whole"
        /\ target'[b].receipt => target[b].receipt \/ (Whole(b)' /\ seal[b].files = 3)
  BY DEF ShipInv, ShipTypes
<1> QED
  BY <1>1, <1>2, <1>3, ShipStep

\* A run that is over leaves its shipper at rest or before its audit row.
LEMMA OverIs ==
  ASSUME NEW p \in Shipper
  PROVE  /\ IsWork(Over(p)) /\ Over(p).step \in {"rest", "audit", "ship"}
         /\ IsWork(AtRest) /\ AtRest.step \in {"rest", "audit", "ship"}
  BY DEF Over, AtRest, IsWork

\* The invariant of the chain while a shipper works.
LEMMA ChainSame ==
  ASSUME ChainInv, UNCHANGED chainVars
  PROVE  ChainInv' /\ Grows
  BY ChainStays DEF chainVars, Grows

\* A shipper begins with rows that verify, and nobody else with the bundle.
LEMMA SealKeeps ==
  ASSUME ShipInv, ChainInv, NEW p \in Shipper, NEW b \in Bundle,
         NEW listed,
         \A rows \in listed :
           rows = InOrder(table) \/ \E k \in 0 .. Len(table) : rows = SubSeq(InOrder(table), 1, k),
         Seal(p, b, listed)
  PROVE  ShipInv'
<1>1. /\ shipper[p] = AtRest /\ Empty(b) /\ UNCHANGED chainVars
      /\ scheme' = scheme /\ seal' = seal /\ target' = target
  BY DEF Seal
<1>2. PICK rows \in listed :
        Set(p, IF VerifyAuditHashChain(rows, allow)
               THEN [step |-> "seal", bundle |-> b, rows |-> rows]
               ELSE Over(p))
  BY DEF Seal
<1>3. Grows
  BY <1>1, ChainSame
<1>4. CASE ~VerifyAuditHashChain(rows, allow)
  <2>1. Set(p, Over(p))
    BY <1>2, <1>4
  <2> QED
    BY <1>1, <1>3, <2>1, OverIs, QuietWork
<1>5. CASE VerifyAuditHashChain(rows, allow)
  <2> DEFINE w == [step |-> "seal", bundle |-> b, rows |-> rows]
  <2>1. Set(p, w)
    BY <1>2, <1>5
  <2>2. IsWork(w) /\ w.step = "seal" /\ w.bundle = b /\ w.rows = rows
    BY DEF IsWork
  <2> HIDE DEF w
  <2>3. /\ shipper' = [q \in Shipper |-> shipper'[q]]
        /\ shipper'[p] = w
        /\ \A q \in Shipper : q # p => shipper'[q] = shipper[q]
        /\ \A q \in Shipper : IsWork(shipper'[q])
    BY <2>1, <2>2, SetIs DEF ShipInv
  <2>4. SealedRows(rows)
    <3>1. VouchedBy(log, rows, allow)
      <4> SUFFICES ASSUME InStep PROVE VouchedBy(log, rows, allow)
        BY DEF VouchedBy, InStep
      <4>1. /\ IsList(table) /\ Len(table) \in 0 .. Len(table)
            /\ table = SubSeq(table, 1, Len(table))
        BY ListFacts, SubSeqFull DEF ChainInv, ChainTypes, IsList
      <4>2. InOrder(table) = table
        BY ListingIs
      <4>3. PICK k \in 0 .. Len(table) : rows = SubSeq(table, 1, k)
        BY <4>1, <4>2
      <4> QED
        BY <4>3, FirstRowsVouched DEF ChainInv, ChainTypes
    <3> QED
      BY <1>5, <3>1 DEF SealedRows
  <2>5. SealedRows(rows)'
    BY <1>3, <2>4, SealedStays DEF ChainInv, ChainTypes
  <2>6. seal[b] = NoSeal /\ seal[b].files = 0
        /\ \A q \in Shipper : shipper[q].step = "seal" => shipper[q].bundle # b
    BY <1>1 DEF Empty, NoSeal
  <2>7. ShipTypes'
    <3>1. \A q \in Shipper : IsWork(shipper[q])'
      BY <2>3 DEF IsWork
    <3> QED
      BY <1>1, <2>3, <3>1 DEF ShipInv, ShipTypes, IsTarget
  <2>8. Seals'
    <3>1. \A c \in Bundle :
            \/ seal'[c] = NoSeal
            \/ /\ seal'[c] = [files |-> seal'[c].files, rows |-> seal'[c].rows]
               /\ seal'[c].files \in 1 .. 3 /\ SealedRows(seal[c].rows)'
      BY <1>1, <1>3, SealsStay
    <3>2. ASSUME NEW q \in Shipper, shipper'[q].step = "seal"
          PROVE  /\ SealedRows(shipper[q].rows)'
                 /\ seal'[shipper'[q].bundle].files < 3
                 /\ \/ seal'[shipper'[q].bundle] = NoSeal
                    \/ seal'[shipper'[q].bundle].rows = shipper'[q].rows
      <4>1. CASE q = p
        <5>1. shipper'[q].rows = rows /\ shipper'[q].bundle = b
          BY <2>2, <2>3, <4>1
        <5>2. SealedRows(shipper[q].rows)'
          BY <2>5, <5>1 DEF SealedRows
        <5> QED
          BY <1>1, <2>6, <5>1, <5>2
      <4>2. CASE q # p
        <5>1. shipper'[q] = shipper[q]
          BY <2>3, <4>2
        <5>2. PICK o : o = shipper[q].rows
          OBVIOUS
        <5>3. SealedRows(o)
          BY <3>2, <5>1, <5>2 DEF ShipInv, Seals
        <5>4. SealedRows(o)'
          BY <1>3, <5>3, SealedStays DEF ChainInv, ChainTypes
        <5>5. SealedRows(shipper[q].rows)'
          BY <5>1, <5>2, <5>4 DEF SealedRows
        <5> QED
          BY <1>1, <3>2, <5>1, <5>5 DEF ShipInv, Seals
      <4> QED
        BY <4>1, <4>2
    <3>3. ASSUME NEW q \in Shipper, NEW r \in Shipper,
                 shipper'[q].step = "seal", shipper'[r].step = "seal",
                 shipper'[q].bundle = shipper'[r].bundle
          PROVE  q = r
      <4>1. q = p \/ shipper'[q] = shipper[q]
        BY <2>3
      <4>2. r = p \/ shipper'[r] = shipper[r]
        BY <2>3
      <4> QED
        BY <2>2, <2>3, <2>6, <3>3, <4>1, <4>2 DEF ShipInv, Seals
    <3> QED
      BY <3>1, <3>2, <3>3 DEF Seals
  <2>9. Shipments'
    <3> SUFFICES ASSUME NEW q \in Shipper
                 PROVE  /\ shipper'[q].step \in {"send", "receipt"} =>
                             seal'[shipper'[q].bundle].files = 3
                        /\ shipper'[q].step = "send" =>
                             \A f \in 1 .. 3 : f < shipper'[q].file =>
                               target'[shipper'[q].bundle].files[f] = "whole"
                        /\ shipper'[q].step = "receipt" =>
                             \A f \in 1 .. 3 : target'[shipper'[q].bundle].files[f] = "whole"
      BY DEF Shipments, Whole
    <3>1. q = p \/ shipper'[q] = shipper[q]
      BY <2>3
    <3> QED
      BY <1>1, <2>2, <2>3, <3>1 DEF ShipInv, Shipments, Whole
  <2>10. Receipts'
    BY <1>1 DEF ShipInv, Receipts, Whole
  <2>11. OnePast'
    <3>1. ASSUME NEW q \in Shipper, NEW c \in Bundle, IsPast(shipper'[q], c)
          PROVE  IsPast(shipper[q], c)
      <4>1. q # p
        BY <2>2, <2>3, <3>1 DEF IsPast
      <4> QED
        BY <2>3, <3>1, <4>1
    <3>2. scheme' # "http" => \A c \in Bundle :
            /\ \A q, r \in Shipper :
                 IsPast(shipper'[q], c) /\ IsPast(shipper'[r], c) => q = r
            /\ target'[c].receipt => \A q \in Shipper : ~IsPast(shipper'[q], c)
      BY <1>1, <3>1 DEF ShipInv, OnePast
    <3> QED
      BY <3>2 DEF OnePast, IsPast
  <2> QED
    BY <2>7, <2>8, <2>9, <2>10, <2>11 DEF ShipInv
<1> QED
  BY <1>4, <1>5

\* One file more, with the rows of the one who writes the bundle.
LEMMA WriteBundleKeeps ==
  ASSUME ShipInv, ChainInv, NEW p \in Shipper, WriteBundle(p)
  PROVE  ShipInv'
<1> DEFINE b == shipper[p].bundle
           rows == shipper[p].rows
           m == seal[b].files + 1
<1>1. /\ shipper[p].step = "seal" /\ UNCHANGED chainVars
      /\ scheme' = scheme /\ target' = target
      /\ seal' = [seal EXCEPT ![b] = [files |-> m, rows |-> rows]]
  BY DEF WriteBundle
<1>2. b \in Bundle /\ IsWork(shipper[p]) /\ seal = [c \in Bundle |-> seal[c]]
  BY <1>1 DEF ShipInv, ShipTypes, IsWork
<1>3. /\ seal' = [c \in Bundle |-> seal'[c]]
      /\ seal'[b] = [files |-> m, rows |-> rows]
      /\ \A c \in Bundle : c # b => seal'[c] = seal[c]
  BY <1>1, <1>2
<1>4. m \in 1 .. 3 /\ seal[b].files # 3
  <2>1. seal[b].files < 3
    BY <1>1 DEF ShipInv, Seals
  <2>2. seal[b].files = 0 \/ seal[b].files \in 1 .. 3
    BY <1>2 DEF ShipInv, Seals, NoSeal
  <2> QED
    BY <2>1, <2>2
<1>5. PICK w : /\ Set(p, w)
               /\ w = IF m < 3 THEN shipper[p]
                      ELSE IF p = "worker" THEN [step |-> "ship", bundle |-> b]
                      ELSE AtRest
  <2>1. seal'[b].files = m
    BY <1>3
  <2>2. Set(p, IF seal'[b].files < Len(Files) THEN shipper[p]
               ELSE IF p = "worker" THEN [step |-> "ship", bundle |-> b]
               ELSE AtRest)
    BY DEF WriteBundle
  <2> QED
    BY <2>1, <2>2, FilesAre
<1>6. /\ IsWork(w) /\ w.step \in {"rest", "ship", "seal"}
      /\ w.step = "seal" => w = shipper[p] /\ m < 3
  <2>1. CASE m < 3
    BY <1>1, <1>2, <1>5, <2>1
  <2>2. CASE ~(m < 3)
    BY <1>2, <1>5, <2>2 DEF IsWork, AtRest
  <2> QED
    BY <2>1, <2>2
<1>7. Grows
  BY <1>1, ChainSame
<1>8. PICK o : o = rows
  OBVIOUS
<1>9. SealedRows(o)'
  <2>1. SealedRows(o)
    BY <1>1, <1>8 DEF ShipInv, Seals
  <2> QED
    BY <1>7, <2>1, SealedStays DEF ChainInv, ChainTypes
<1>10. /\ shipper' = [q \in Shipper |-> shipper'[q]]
       /\ shipper'[p] = w
       /\ \A q \in Shipper : q # p => shipper'[q] = shipper[q]
       /\ \A q \in Shipper : IsWork(shipper'[q])
  BY <1>5, <1>6, SetIs DEF ShipInv
<1>11. PICK c0 : c0 = b
  OBVIOUS
<1>12. PICK n : n = m
  OBVIOUS
<1>13. seal'[c0].files = n /\ seal'[c0].rows = o /\ seal'[c0] = [files |-> n, rows |-> o]
       /\ \A c \in Bundle : c # c0 => seal'[c] = seal[c]
  BY <1>3, <1>8, <1>11, <1>12
<1>14. c0 \in Bundle /\ n \in 1 .. 3 /\ seal[c0].files # 3 /\ shipper[p].bundle = c0
       /\ shipper[p].rows = o /\ (w.step = "seal" => w = shipper[p] /\ n < 3)
  BY <1>2, <1>4, <1>6, <1>8, <1>11, <1>12
<1> HIDE DEF b, rows, m
<1>15. ShipTypes'
  <2>1. \A q \in Shipper : IsWork(shipper[q])'
    BY <1>10 DEF IsWork
  <2> QED
    BY <1>1, <1>3, <1>10, <2>1 DEF ShipInv, ShipTypes, IsTarget
<1>16. ASSUME NEW q \in Shipper, shipper'[q].step = "seal"
       PROVE  shipper'[q] = shipper[q]
  BY <1>6, <1>10, <1>16
<1>17. Seals'
  <2>1. ASSUME NEW c \in Bundle
        PROVE  \/ seal'[c] = NoSeal
               \/ /\ seal'[c] = [files |-> seal'[c].files, rows |-> seal'[c].rows]
                  /\ seal'[c].files \in 1 .. 3 /\ SealedRows(seal[c].rows)'
    <3>1. CASE c = c0
      <4>1. seal'[c].rows = o
        BY <1>13, <3>1
      <4>2. SealedRows(seal[c].rows)'
        BY <1>9, <4>1 DEF SealedRows
      <4>3. seal'[c] = [files |-> seal'[c].files, rows |-> seal'[c].rows] /\ seal'[c].files \in 1 .. 3
        BY <1>13, <1>14, <3>1
      <4> QED
        BY <4>2, <4>3
    <3>2. CASE c # c0
      <4>1. seal'[c] = seal[c]
        BY <1>13, <3>2
      <4>2. CASE seal[c] = NoSeal
        BY <4>1, <4>2
      <4>3. CASE seal[c] # NoSeal
        <5>1. PICK r : r = seal[c].rows
          OBVIOUS
        <5>2. SealedRows(r) /\ seal[c].files \in 1 .. 3
              /\ seal[c] = [files |-> seal[c].files, rows |-> seal[c].rows]
          BY <4>3, <5>1 DEF ShipInv, Seals
        <5>3. SealedRows(r)'
          BY <1>7, <5>2, SealedStays DEF ChainInv, ChainTypes
        <5>4. seal'[c].rows = r
          BY <4>1, <5>1
        <5>5. SealedRows(seal[c].rows)'
          BY <5>3, <5>4 DEF SealedRows
        <5> QED
          BY <4>1, <5>2, <5>5
      <4> QED
        BY <4>2, <4>3
    <3> QED
      BY <3>1, <3>2
  <2>2. ASSUME NEW q \in Shipper, shipper'[q].step = "seal"
        PROVE  /\ SealedRows(shipper[q].rows)'
               /\ seal'[shipper'[q].bundle].files < 3
               /\ \/ seal'[shipper'[q].bundle] = NoSeal
                  \/ seal'[shipper'[q].bundle].rows = shipper'[q].rows
    <3>1. shipper'[q] = shipper[q]
      BY <1>16, <2>2
    <3>2. PICK r : r = shipper[q].rows
      OBVIOUS
    <3>3. SealedRows(r)
      BY <2>2, <3>1, <3>2 DEF ShipInv, Seals
    <3>4. SealedRows(r)'
      BY <1>7, <3>3, SealedStays DEF ChainInv, ChainTypes
    <3>5. SealedRows(shipper[q].rows)'
      BY <3>1, <3>2, <3>4 DEF SealedRows
    <3>6. CASE q = p
      BY <1>10, <1>13, <1>14, <2>2, <3>1, <3>5, <3>6
    <3>7. CASE q # p
      <4>1. shipper[q].bundle # c0 /\ shipper[q].bundle \in Bundle
        BY <1>1, <1>14, <2>2, <3>1, <3>7 DEF ShipInv, ShipTypes, Seals, IsWork
      <4>2. seal'[shipper[q].bundle] = seal[shipper[q].bundle]
        BY <1>13, <4>1
      <4> QED
        BY <2>2, <3>1, <3>5, <4>2 DEF ShipInv, Seals
    <3> QED
      BY <3>6, <3>7
  <2>3. \A q, r \in Shipper :
          shipper'[q].step = "seal" /\ shipper'[r].step = "seal"
          /\ shipper'[q].bundle = shipper'[r].bundle => q = r
    BY <1>16 DEF ShipInv, Seals
  <2> QED
    BY <2>1, <2>2, <2>3 DEF Seals
<1>18. ASSUME NEW q \in Shipper, shipper'[q].step \in {"send", "receipt"}
       PROVE  q # p /\ shipper'[q] = shipper[q]
  BY <1>6, <1>10, <1>18
<1>19. Shipments'
  <2> SUFFICES ASSUME NEW q \in Shipper, shipper'[q].step \in {"send", "receipt"}
               PROVE  /\ seal'[shipper'[q].bundle].files = 3
                      /\ shipper'[q].step = "send" =>
                           \A f \in 1 .. 3 : f < shipper'[q].file =>
                             target'[shipper'[q].bundle].files[f] = "whole"
                      /\ shipper'[q].step = "receipt" =>
                           \A f \in 1 .. 3 : target'[shipper'[q].bundle].files[f] = "whole"
    BY DEF Shipments, Whole
  <2>1. shipper'[q] = shipper[q]
    BY <1>18
  <2>2. /\ seal[shipper[q].bundle].files = 3 /\ shipper[q].bundle \in Bundle
        /\ shipper[q].bundle # c0
    BY <1>14, <2>1 DEF ShipInv, Shipments, ShipTypes, IsWork
  <2>3. seal'[shipper[q].bundle].files = 3
    BY <1>13, <2>2
  <2> QED
    BY <1>1, <2>1, <2>3 DEF ShipInv, Shipments, Whole
<1>20. Receipts'
  <2> SUFFICES ASSUME NEW c \in Bundle, target'[c].receipt
               PROVE  (\A f \in 1 .. 3 : target'[c].files[f] = "whole") /\ seal'[c].files = 3
    BY DEF Receipts, Whole
  <2>1. target[c].receipt
    BY <1>1
  <2>2. (\A f \in 1 .. 3 : target[c].files[f] = "whole") /\ seal[c].files = 3
    BY <2>1 DEF ShipInv, Receipts, Whole
  <2> QED
    BY <1>1, <1>13, <1>14, <2>2
<1>21. OnePast'
  <2>1. ASSUME NEW q \in Shipper, NEW c \in Bundle, IsPast(shipper'[q], c)
        PROVE  IsPast(shipper[q], c)
    BY <1>18, <2>1 DEF IsPast
  <2>2. scheme' # "http" => \A c \in Bundle :
          /\ \A q, r \in Shipper :
               IsPast(shipper'[q], c) /\ IsPast(shipper'[r], c) => q = r
          /\ target'[c].receipt => \A q \in Shipper : ~IsPast(shipper'[q], c)
    BY <1>1, <2>1 DEF ShipInv, OnePast
  <2> QED
    BY <2>2 DEF OnePast, IsPast
<1> QED
  BY <1>15, <1>17, <1>19, <1>20, <1>21 DEF ShipInv

\* A shipment begins with a bundle that is complete.
LEMMA ShipKeeps ==
  ASSUME ShipInv, ChainInv, NEW p \in Shipper, Ship(p)
  PROVE  ShipInv'
<1> DEFINE b == shipper[p].bundle
<1>1. /\ shipper[p].step = "ship" /\ UNCHANGED chainVars
      /\ scheme' = scheme /\ seal' = seal /\ b \in Bundle
  BY DEF Ship, ShipInv, ShipTypes, IsWork
<1>2. Grows
  BY <1>1, ChainSame
<1>3. CASE ~(BundleVerifies(b) /\ DestinationFree(b))
  <2>1. Set(p, Over(p)) /\ target' = target
    BY <1>3 DEF Ship
  <2> QED
    BY <1>1, <1>2, <2>1, OverIs, QuietWork
<1>4. CASE BundleVerifies(b) /\ DestinationFree(b)
  <2> DEFINE w == [step |-> "send", bundle |-> b, file |-> 1]
             t == target[b]
             d == (scheme = "file")
             u == [t EXCEPT !.dir = d]
  <2>1. Set(p, w) /\ target' = [target EXCEPT ![b] = u]
    BY <1>4 DEF Ship
  <2>2. IsWork(w) /\ w.step = "send" /\ w.bundle = b /\ w.file = 1
    BY <1>1 DEF IsWork
  <2>3. seal[b].files = 3
    BY <1>4, FilesAre DEF BundleVerifies
  <2>4. IsTarget(u) /\ u.files = t.files /\ u.receipt = t.receipt
    <3>1. IsTarget(t) /\ d \in BOOLEAN
      BY <1>1 DEF ShipInv, ShipTypes
    <3> HIDE DEF t, d
    <3>2. u = [dir |-> d, files |-> t.files, receipt |-> t.receipt]
      BY <3>1 DEF IsTarget
    <3> HIDE DEF u
    <3> QED
      BY <3>1, <3>2 DEF IsTarget
  <2>5. /\ target' = [c \in Bundle |-> target'[c]] /\ target'[b] = u
        /\ \A c \in Bundle : c # b => target'[c] = target[c]
    BY <1>1, <2>1 DEF ShipInv, ShipTypes
  <2>6. \A c \in Bundle :
          /\ IsTarget(target'[c])
          /\ \A f \in 1 .. 3 : target[c].files[f] = "whole" => target'[c].files[f] = "whole"
          /\ target'[c].receipt => target[c].receipt \/ (Whole(c)' /\ seal[c].files = 3)
    BY <2>4, <2>5 DEF ShipInv, ShipTypes
  <2>7. \A c \in Bundle : ~IsPast(w, c) /\ (target'[c].receipt => target[c].receipt)
    <3> HIDE DEF w, u, t, b
    <3>1. \A c \in Bundle : ~IsPast(w, c)
      BY <2>2 DEF IsPast
    <3>2. \A c \in Bundle : target'[c].receipt => target[c].receipt
      BY <2>4, <2>5 DEF t
    <3> QED
      BY <3>1, <3>2
  <2>8. \A f \in 1 .. 3 : ~(f < 1)
    OBVIOUS
  <2> HIDE DEF w, b, u, t
  <2> QED
    BY <1>1, <1>2, <2>1, <2>2, <2>3, <2>5, <2>6, <2>7, <2>8, ShipStep
<1> QED
  BY <1>3, <1>4

\* A file that is not there is created, by one of the shippers of the bundle.
LEMMA FileSent ==
  ASSUME ShipInv, ChainInv, NEW p \in Shipper, NEW v \in {"torn", "whole"}, NEW w,
         UNCHANGED chainVars, scheme' = scheme, seal' = seal, shipper[p].step = "send",
         target[shipper[p].bundle].files[shipper[p].file] = "none",
         target' = [target EXCEPT ![shipper[p].bundle].files[shipper[p].file] = v],
         Set(p, w),
         w \in {Over(p), AtRest} \/ (v = "whole" /\ w = AfterFile(p))
  PROVE  ShipInv'
<1> DEFINE b == shipper[p].bundle
           f == shipper[p].file
           t == target[b]
           fs == [t.files EXCEPT ![f] = v]
           u == [t EXCEPT !.files = fs]
<1>1. /\ b \in Bundle /\ f \in 1 .. 3 /\ IsTarget(t) /\ t.files[f] = "none"
      /\ shipper[p] = [step |-> "send", bundle |-> b, file |-> f]
  BY DEF ShipInv, ShipTypes, IsWork
<1>2. target' = [target EXCEPT ![b] = u]
  OBVIOUS
<1>3. Grows
  BY ChainSame
<1>4. /\ fs \in [1 .. 3 -> {"none", "torn", "whole"}] /\ fs[f] = v
      /\ \A g \in 1 .. 3 : g # f => fs[g] = t.files[g]
  BY <1>1 DEF IsTarget
<1>5. IsTarget(u) /\ u.files = fs /\ u.receipt = t.receipt
  <2> HIDE DEF t, fs
  <2>1. u = [dir |-> t.dir, files |-> fs, receipt |-> t.receipt]
    BY <1>1 DEF IsTarget
  <2> HIDE DEF u
  <2> QED
    BY <1>1, <1>4, <2>1 DEF IsTarget
<1>6. /\ target' = [c \in Bundle |-> target'[c]] /\ target'[b] = u
      /\ \A c \in Bundle : c # b => target'[c] = target[c]
  BY <1>1, <1>2 DEF ShipInv, ShipTypes
<1>7. \A g \in 1 .. 3 : g < f => fs[g] = "whole"
  BY <1>1, <1>4 DEF ShipInv, Shipments
<1>8. seal[b].files = 3
  BY DEF ShipInv, Shipments
<1>9. /\ IsWork(w) /\ w.step # "seal"
      /\ w.step \in {"send", "receipt"} => w.bundle = b /\ v = "whole"
      /\ w.step = "send" => f < 3 /\ w.file = f + 1
      /\ w.step = "receipt" => f = 3
  <2>1. CASE w \in {Over(p), AtRest}
    BY <2>1, OverIs
  <2>2. CASE v = "whole" /\ w = AfterFile(p)
    <3>1. CASE f = 3
      <4>1. w = [step |-> "receipt", bundle |-> b]
        BY <2>2, <3>1, FilesAre DEF AfterFile
      <4> QED
        BY <1>1, <2>2, <3>1, <4>1 DEF IsWork
    <3>2. CASE f # 3
      <4>1. w = [shipper[p] EXCEPT !.file = f + 1]
        BY <2>2, <3>2, FilesAre DEF AfterFile
      <4>2. w = [step |-> "send", bundle |-> b, file |-> f + 1]
        BY <1>1, <4>1
      <4>3. f + 1 \in 1 .. 3 /\ f < 3
        BY <1>1, <3>2
      <4> HIDE DEF b, f
      <4> QED
        BY <1>1, <2>2, <4>2, <4>3 DEF IsWork
    <3> QED
      BY <3>1, <3>2
  <2> QED
    BY <2>1, <2>2
<1> HIDE DEF fs, u
<1>10. \A c \in Bundle :
         /\ IsTarget(target'[c])
         /\ \A g \in 1 .. 3 : target[c].files[g] = "whole" => target'[c].files[g] = "whole"
         /\ target'[c].receipt => target[c].receipt
  <2> TAKE c \in Bundle
  <2>1. CASE c = b
    <3>1. target[c] = t /\ target'[c] = u
      BY <1>6, <2>1
    <3>2. \A g \in 1 .. 3 : t.files[g] = "whole" => fs[g] = "whole"
      BY <1>1, <1>4
    <3> HIDE DEF t
    <3> QED
      BY <1>5, <3>1, <3>2
  <2>2. CASE c # b
    BY <1>6, <2>2 DEF ShipInv, ShipTypes
  <2> QED
    BY <2>1, <2>2
<1>11. target'[b].files = fs
  BY <1>5, <1>6
<1>12. /\ w.step \in {"send", "receipt"} => seal[w.bundle].files = 3
       /\ w.step = "send" => \A g \in 1 .. 3 : g < w.file => target'[w.bundle].files[g] = "whole"
       /\ w.step = "receipt" => \A g \in 1 .. 3 : target'[w.bundle].files[g] = "whole"
  <2>1. CASE w.step = "send"
    <3>1. \A g \in 1 .. 3 : g < f + 1 => fs[g] = "whole"
      BY <1>1, <1>4, <1>7, <1>9, <2>1
    <3> QED
      BY <1>8, <1>9, <1>11, <2>1, <3>1
  <2>2. CASE w.step = "receipt"
    <3>1. \A g \in 1 .. 3 : fs[g] = "whole"
      BY <1>1, <1>4, <1>7, <1>9, <2>2
    <3> QED
      BY <1>8, <1>9, <1>11, <2>2, <3>1
  <2> QED
    BY <2>1, <2>2
\* Who is past the first file was there before, or has just created it.
<1>13. scheme # "http" => \A c \in Bundle :
         IsPast(w, c) => ~target'[c].receipt /\ \A q \in Shipper : q # p => ~IsPast(shipper[q], c)
  <2> SUFFICES ASSUME scheme # "http", NEW c \in Bundle, IsPast(w, c)
               PROVE  ~target'[c].receipt /\ \A q \in Shipper : q # p => ~IsPast(shipper[q], c)
    OBVIOUS
  <2>1. c = b
    BY <1>9 DEF IsPast
  <2>2. CASE f > 1
    <3>1. IsPast(shipper[p], b)
      BY <1>1, <2>2 DEF IsPast
    <3> QED
      BY <1>1, <1>10, <2>1, <3>1 DEF ShipInv, OnePast
  <2>3. CASE f = 1
    <3>1. ~target[b].receipt
      BY <1>1, <2>3 DEF ShipInv, Receipts, Whole
    <3>2. ASSUME NEW q \in Shipper, IsPast(shipper[q], b) PROVE FALSE
      <4>1. IsWork(shipper[q])
        BY DEF ShipInv, ShipTypes
      <4>2. shipper[q].step = "send" => 1 < shipper[q].file
        BY <3>2, <4>1 DEF IsPast, IsWork
      <4>3. target[b].files[1] = "whole"
        BY <3>2, <4>2 DEF ShipInv, Shipments, Whole, IsPast
      <4> QED
        BY <1>1, <2>3, <4>3
    <3> QED
      BY <1>10, <2>1, <3>1, <3>2
  <2> QED
    BY <1>1, <2>2, <2>3
<1> HIDE DEF t, f
<1> QED
  BY <1>3, <1>6, <1>9, <1>10, <1>12, <1>13, ShipStep

\* The invariant of the shippers survives a file that is copied, or torn.
LEMMA CopyFileKeeps ==
  ASSUME ShipInv, ChainInv, NEW p \in Shipper, CopyFile(p)
  PROVE  ShipInv'
<1> DEFINE b == shipper[p].bundle
           f == shipper[p].file
<1>1. /\ shipper[p].step = "send" /\ UNCHANGED chainVars /\ scheme' = scheme /\ seal' = seal
      /\ target[b].files[f] = "none"
  BY DEF CopyFile, Sending, Creatable
<1>2. CASE target' = [target EXCEPT ![b].files[f] = "whole"] /\ Set(p, AfterFile(p))
  BY <1>1, <1>2, FileSent
<1>3. CASE target' = [target EXCEPT ![b].files[f] = "torn"] /\ Ends(p)
  <2>1. PICK w \in {Over(p), AtRest} : Set(p, w)
    BY <1>3 DEF Ends
  <2> QED
    BY <1>1, <1>3, <2>1, FileSent
<1> QED
  BY <1>2, <1>3 DEF CopyFile

\* The invariant survives an object whose answer may be lost.
LEMMA PutObjectKeeps ==
  ASSUME ShipInv, ChainInv, NEW p \in Shipper, PutObject(p)
  PROVE  ShipInv'
<1> DEFINE b == shipper[p].bundle
           f == shipper[p].file
<1>1. /\ shipper[p].step = "send" /\ UNCHANGED chainVars /\ scheme' = scheme /\ seal' = seal
      /\ target[b].files[f] = "none"
      /\ target' = [target EXCEPT ![b].files[f] = "whole"]
  BY DEF PutObject, Sending, Creatable
<1>2. PICK w \in {Over(p), AtRest, AfterFile(p)} : Set(p, w)
  BY DEF PutObject, Ends
<1> QED
  BY <1>1, <1>2, FileSent

\* The invariant survives a request that delivers all three files.
LEMMA PostBundleKeeps ==
  ASSUME ShipInv, ChainInv, NEW p \in Shipper, PostBundle(p)
  PROVE  ShipInv'
<1> DEFINE b == shipper[p].bundle
           t == target[b]
           fs == [f \in 1 .. 3 |-> "whole"]
           u == [t EXCEPT !.files = fs]
           r == [step |-> "receipt", bundle |-> b]
<1>1. /\ shipper[p].step = "send" /\ UNCHANGED chainVars /\ scheme' = scheme /\ seal' = seal
      /\ scheme = "http" /\ target' = [target EXCEPT ![b] = u]
  BY FilesAre DEF PostBundle, Sending
<1>2. b \in Bundle /\ IsTarget(t) /\ seal[b].files = 3
  BY <1>1 DEF ShipInv, ShipTypes, IsWork, Shipments
<1>3. Grows
  BY <1>1, ChainSame
<1>4. PICK w \in {Over(p), AtRest, r} : Set(p, w)
  BY DEF PostBundle, Ends
<1>5. /\ IsWork(w) /\ w.step \notin {"seal", "send"}
      /\ w.step = "receipt" => w.bundle = b
  BY <1>2, OverIs DEF IsWork
<1>6. IsTarget(u) /\ u.files = fs /\ u.receipt = t.receipt
  <2>1. fs \in [1 .. 3 -> {"none", "torn", "whole"}]
    OBVIOUS
  <2> HIDE DEF t, fs
  <2>2. u = [dir |-> t.dir, files |-> fs, receipt |-> t.receipt]
    BY <1>2 DEF IsTarget
  <2> HIDE DEF u
  <2> QED
    BY <1>2, <2>1, <2>2 DEF IsTarget
<1>7. /\ target' = [c \in Bundle |-> target'[c]] /\ target'[b] = u
      /\ \A c \in Bundle : c # b => target'[c] = target[c]
  BY <1>1, <1>2 DEF ShipInv, ShipTypes
<1>8. \A f \in 1 .. 3 : target'[b].files[f] = "whole"
  BY <1>6, <1>7
<1> HIDE DEF u, fs
<1>9. \A c \in Bundle :
        /\ IsTarget(target'[c])
        /\ \A f \in 1 .. 3 : target[c].files[f] = "whole" => target'[c].files[f] = "whole"
        /\ target'[c].receipt => target[c].receipt
  <2> TAKE c \in Bundle
  <2>1. CASE c = b
    BY <1>6, <1>7, <1>8, <2>1
  <2>2. CASE c # b
    BY <1>7, <2>2 DEF ShipInv, ShipTypes
  <2> QED
    BY <2>1, <2>2
<1> HIDE DEF t, r
<1>10. /\ w.step \in {"send", "receipt"} => seal[w.bundle].files = 3
       /\ w.step = "send" =>
            \A f \in 1 .. 3 : f < w.file => target'[w.bundle].files[f] = "whole"
       /\ w.step = "receipt" => \A f \in 1 .. 3 : target'[w.bundle].files[f] = "whole"
  BY <1>2, <1>5, <1>8
<1> QED
  BY <1>1, <1>3, <1>4, <1>5, <1>7, <1>9, <1>10, ShipStep

\* The invariant survives a receipt: its shipment was the only one past the first
\* file, and is over.
LEMMA WriteReceiptKeeps ==
  ASSUME ShipInv, ChainInv, NEW p \in Shipper, WriteReceipt(p)
  PROVE  ShipInv'
<1> DEFINE b == shipper[p].bundle
           t == target[b]
           yes == TRUE
           u == [t EXCEPT !.receipt = yes]
<1>1. /\ shipper[p].step = "receipt" /\ UNCHANGED chainVars /\ scheme' = scheme /\ seal' = seal
      /\ target' = [target EXCEPT ![b] = u]
  BY DEF WriteReceipt
<1>2. b \in Bundle /\ IsTarget(t) /\ seal[b].files = 3 /\ Whole(b)
  BY <1>1 DEF ShipInv, ShipTypes, IsWork, Shipments
<1>3. Grows
  BY <1>1, ChainSame
<1>4. PICK w \in {Over(p), AtRest} : Set(p, w)
  BY DEF WriteReceipt, Ends
<1>5. IsWork(w) /\ w.step \in {"rest", "audit", "ship"}
  BY OverIs
<1>6. IsTarget(u) /\ u.files = t.files
  <2>0. yes \in BOOLEAN
    OBVIOUS
  <2> HIDE DEF t, yes
  <2>1. u = [dir |-> t.dir, files |-> t.files, receipt |-> yes]
    BY <1>2 DEF IsTarget
  <2> HIDE DEF u
  <2> QED
    BY <1>2, <2>0, <2>1 DEF IsTarget
<1>7. /\ target' = [c \in Bundle |-> target'[c]] /\ target'[b] = u
      /\ \A c \in Bundle : c # b => target'[c] = target[c]
  BY <1>1, <1>2 DEF ShipInv, ShipTypes
<1> HIDE DEF u
<1>8. \A c \in Bundle :
        /\ IsTarget(target'[c])
        /\ \A f \in 1 .. 3 : target[c].files[f] = "whole" => target'[c].files[f] = "whole"
        /\ target'[c].receipt => target[c].receipt \/ c = b
  <2> TAKE c \in Bundle
  <2>1. CASE c = b
    BY <1>6, <1>7, <2>1
  <2>2. CASE c # b
    BY <1>7, <2>2 DEF ShipInv, ShipTypes
  <2> QED
    BY <2>1, <2>2
<1>9. ASSUME NEW c \in Bundle, target'[c].receipt, ~target[c].receipt
      PROVE  /\ Whole(c)' /\ seal[c].files = 3
             /\ scheme # "http" => \A q \in Shipper : q # p => ~IsPast(shipper[q], c)
  <2>1. c = b
    BY <1>8, <1>9
  <2>2. \A f \in 1 .. 3 : target'[c].files[f] = "whole"
    BY <1>2, <1>8, <2>1 DEF Whole
  <2>3. IsPast(shipper[p], c)
    BY <1>1, <2>1 DEF IsPast
  <2>4. scheme # "http" => \A q \in Shipper : q # p => ~IsPast(shipper[q], c)
    BY <2>3 DEF ShipInv, OnePast
  <2> QED
    BY <1>2, <2>1, <2>2, <2>4 DEF Whole
<1>10. \A c \in Bundle : ~IsPast(w, c)
  BY <1>5 DEF IsPast
<1> QED
  BY <1>1, <1>3, <1>4, <1>5, <1>7, <1>8, <1>9, <1>10, ShipStep

-----------------------------------------------------------------------------
(* The theorems. *)

\* The invariant of both, and the specification of the audit log with its
\* shippers.
AuditInv == ChainInv /\ ShipInv

AuditSpec == AuditInit /\ [][AuditNext]_auditVars

\* The audit log and its shippers begin with the invariant.
LEMMA AuditInvInit == AuditInit => AuditInv
<1> SUFFICES ASSUME ChainInit, ShipInit PROVE ShipInv
  BY ChainInvInit DEF AuditInit, AuditInv
<1>1. /\ scheme \in {"file", "s3", "http"}
      /\ shipper = [p \in Shipper |-> AtRest]
      /\ seal = [b \in Bundle |-> NoSeal]
      /\ target = [b \in Bundle |-> NoBundle]
  BY DEF ShipInit
<1>2. IsWork(AtRest) /\ AtRest.step = "rest"
  BY DEF IsWork, AtRest
<1>3. IsTarget(NoBundle) /\ ~NoBundle.receipt
  <2> DEFINE fs == [f \in 1 .. 3 |-> "none"]
             no == FALSE
  <2>1. fs \in [1 .. 3 -> {"none", "torn", "whole"}] /\ no \in BOOLEAN
    OBVIOUS
  <2>2. NoBundle = [dir |-> no, files |-> fs, receipt |-> no]
    BY FilesAre DEF NoBundle
  <2>3. ~NoBundle.receipt
    BY DEF NoBundle
  <2> HIDE DEF fs, no
  <2>4. IsTarget(NoBundle)
    BY <2>1, <2>2 DEF IsTarget
  <2> QED
    BY <2>3, <2>4
<1>4. \A p \in Shipper : shipper[p] = AtRest
  BY <1>1
<1>5. \A b \in Bundle : seal[b] = NoSeal /\ target[b] = NoBundle
  BY <1>1
<1>6. ShipTypes
  BY <1>1, <1>2, <1>3, <1>4, <1>5 DEF ShipTypes
<1>7. Seals
  BY <1>2, <1>4, <1>5 DEF Seals
<1>8. Shipments /\ Receipts /\ OnePast
  BY <1>2, <1>3, <1>4, <1>5 DEF Shipments, Receipts, OnePast, IsPast
<1> QED
  BY <1>6, <1>7, <1>8 DEF ShipInv

\* The invariant of the shippers survives a step of the chain: rows that were
\* sealed stay vouched for.
LEMMA ShipsStay ==
  ASSUME ShipInv, ChainInv, Grows, UNCHANGED shipVars
  PROVE  ShipInv'
<1>1. scheme' = scheme /\ shipper' = shipper /\ seal' = seal /\ target' = target
  BY DEF shipVars
\* Nothing changes but the log: somebody who rests goes on resting, or somebody
\* who works goes on with that.
<1>2. ShipTypes'
  BY <1>1 DEF ShipInv, ShipTypes, IsTarget, IsWork
<1>3. Seals'
  <2>1. \A b \in Bundle :
          \/ seal'[b] = NoSeal
          \/ /\ seal'[b] = [files |-> seal'[b].files, rows |-> seal'[b].rows]
             /\ seal'[b].files \in 1 .. 3 /\ SealedRows(seal[b].rows)'
    BY <1>1, SealsStay
  <2>2. ASSUME NEW q \in Shipper, shipper'[q].step = "seal"
        PROVE  SealedRows(shipper[q].rows)'
    <3>1. PICK r : r = shipper[q].rows
      OBVIOUS
    <3>2. SealedRows(r)
      BY <1>1, <2>2, <3>1 DEF ShipInv, Seals
    <3>3. SealedRows(r)'
      BY <3>2, SealedStays DEF ChainInv, ChainTypes
    <3> QED
      BY <1>1, <3>1, <3>3 DEF SealedRows
  <2>3. \A q \in Shipper : shipper'[q].step = "seal" =>
          /\ seal'[shipper'[q].bundle].files < 3
          /\ \/ seal'[shipper'[q].bundle] = NoSeal
             \/ seal'[shipper'[q].bundle].rows = shipper'[q].rows
    BY <1>1 DEF ShipInv, Seals
  <2>4. \A q, r \in Shipper :
          shipper'[q].step = "seal" /\ shipper'[r].step = "seal"
          /\ shipper'[q].bundle = shipper'[r].bundle => q = r
    BY <1>1 DEF ShipInv, Seals
  <2> QED
    BY <2>1, <2>2, <2>3, <2>4 DEF Seals
<1>4. Shipments' /\ Receipts'
  BY <1>1 DEF ShipInv, Shipments, Receipts, Whole
<1>5. OnePast'
  BY <1>1 DEF ShipInv, OnePast, IsPast
<1> QED
  BY <1>2, <1>3, <1>4, <1>5 DEF ShipInv

\* The worker seals the first rows of the listing, an operator all of them.
LEMMA SealsKeep ==
  ASSUME ShipInv, ChainInv, NEW b \in Bundle, RunAuditShip(b) \/ OperatorSeal(b)
  PROVE  ShipInv'
<1>1. CASE RunAuditShip(b)
  <2> DEFINE listed == ListAuditLogsForSeal
  <2>1. Seal("worker", b, listed) /\ "worker" \in Shipper
    BY <1>1 DEF RunAuditShip, Shipper
  <2>2. \A rows \in listed :
          rows = InOrder(table) \/ \E k \in 0 .. Len(table) : rows = SubSeq(InOrder(table), 1, k)
    BY DEF ListAuditLogsForSeal
  <2> HIDE DEF listed
  <2> QED
    BY <2>1, <2>2, SealKeeps
<1>2. CASE OperatorSeal(b)
  <2> DEFINE listed == LoadAuditLogs
  <2>1. Seal("operator", b, listed) /\ "operator" \in Shipper
    BY <1>2 DEF OperatorSeal, Shipper
  <2>2. \A rows \in listed : rows = InOrder(table)
    BY DEF LoadAuditLogs
  <2> HIDE DEF listed
  <2> QED
    BY <2>1, <2>2, SealKeeps
<1> QED
  BY <1>1, <1>2

\* Every step keeps the invariant.
LEMMA AuditInvNext ==
  ASSUME AuditInv, [AuditNext]_auditVars
  PROVE  AuditInv'
<1> USE DEF AuditInv
<1>1. CASE ChainNext /\ UNCHANGED shipVars
  BY <1>1, ChainKeeps, ShipsStay
<1>2. ASSUME NEW b \in Bundle, RunAuditShip(b) \/ OperatorSeal(b)
      PROVE  AuditInv'
  <2>1. UNCHANGED chainVars
    BY <1>2 DEF RunAuditShip, OperatorSeal, Seal
  <2> QED
    BY <1>2, <2>1, ChainSame, SealsKeep
<1>3. ASSUME NEW p \in Shipper, WriteBundle(p)
      PROVE  AuditInv'
  BY <1>3, ChainSame, WriteBundleKeeps DEF WriteBundle
<1>4. ASSUME NEW b \in Bundle, OperatorShip(b)
      PROVE  AuditInv'
  <2> DEFINE w == [step |-> "ship", bundle |-> b]
  <2>1. /\ "operator" \in Shipper /\ UNCHANGED chainVars
        /\ scheme' = scheme /\ seal' = seal /\ target' = target
    BY <1>4 DEF OperatorShip, Shipper
  <2>2. IsWork(w) /\ w.step \in {"rest", "audit", "ship"}
    BY DEF IsWork
  <2>3. Set("operator", w)
    BY <1>4 DEF OperatorShip
  <2> HIDE DEF w
  <2> QED
    BY <2>1, <2>2, <2>3, ChainSame, QuietWork
<1>5. ASSUME NEW p \in Shipper, Ship(p)
      PROVE  AuditInv'
  BY <1>5, ChainSame, ShipKeeps DEF Ship
<1>6. ASSUME NEW p \in Shipper, CopyFile(p) \/ PutObject(p) \/ PostBundle(p)
      PROVE  AuditInv'
  <2>1. UNCHANGED chainVars
    BY <1>6 DEF CopyFile, PutObject, PostBundle
  <2> QED
    BY <1>6, <2>1, ChainSame, CopyFileKeeps, PutObjectKeeps, PostBundleKeeps
<1>7. ASSUME NEW p \in Shipper, WriteReceipt(p)
      PROVE  AuditInv'
  BY <1>7, ChainSame, WriteReceiptKeeps DEF WriteReceipt
<1>8. ASSUME NEW p \in Shipper, ShipFails(p)
      PROVE  AuditInv'
  <2>1. UNCHANGED chainVars /\ scheme' = scheme /\ seal' = seal /\ target' = target
    BY <1>8 DEF ShipFails
  <2>2. PICK w \in {Over(p), AtRest} : Set(p, w)
    BY <1>8 DEF ShipFails, Ends
  <2> QED
    BY <2>1, <2>2, OverIs, ChainSame, QuietWork
<1>9. CASE AuditShip
  <2>1. /\ "worker" \in Shipper /\ Set("worker", AtRest)
        /\ scheme' = scheme /\ seal' = seal /\ target' = target
    BY <1>9 DEF AuditShip, Shipper
  <2>2. ChainInv' /\ Grows
    <3>1. CASE "worker" \in Writer /\ BeginRecord("worker", DefaultOrg, "struct")
      <4>1. DefaultOrg \in Org /\ "struct" \in Forms
        BY AuditShipAssumption DEF Forms
      <4> QED
        BY <3>1, <4>1, BeginRecordKeeps DEF BeginRecord, Grows
    <3>2. CASE UNCHANGED chainVars
      BY <3>2, ChainSame
    <3> QED
      BY <1>9, <3>1, <3>2 DEF AuditShip
  <2> QED
    BY <2>1, <2>2, OverIs, QuietWork
<1>10. CASE UNCHANGED auditVars
  <2>1. UNCHANGED chainVars /\ UNCHANGED shipVars
    BY <1>10 DEF auditVars
  <2> QED
    BY <2>1, ChainSame, ShipsStay
<1> QED
  BY <1>1, <1>2, <1>3, <1>4, <1>5, <1>6, <1>7, <1>8, <1>9, <1>10 DEF AuditNext

\* In every reachable state the rows of the table go back to the log and each
\* shipper, bundle and target is where the others allow it (RecordAuditLog,
\* auditseal.Write, Ship, runAuditShip).
THEOREM AuditInvariant == AuditSpec => []AuditInv
<1>1. AuditInit => AuditInv
  BY AuditInvInit
<1>2. AuditInv /\ [AuditNext]_auditVars => AuditInv'
  BY AuditInvNext
<1> QED
  BY <1>1, <1>2, PTL DEF AuditSpec

\* The types, the receipts and the shipments follow from the invariant.
LEMMA AuditTyped ==
  ASSUME AuditInv
  PROVE  AuditTypeOK
<1>1. ChainTypeOK
  BY ChainTyped DEF AuditInv
<1>2. \A p \in Shipper :
        shipper[p].step \in {"rest", "seal", "ship", "send", "receipt", "audit"}
  BY DEF AuditInv, ShipInv, ShipTypes, IsWork
<1>3. ASSUME NEW b \in Bundle
      PROVE  seal[b].files \in 0 .. Len(Files)
  <2>1. CASE seal[b] = NoSeal
    <3>1. NoSeal.files = 0
      BY DEF NoSeal
    <3> QED
      BY <2>1, <3>1, FilesAre
  <2>2. CASE seal[b] # NoSeal
    <3>1. seal[b].files \in 1 .. 3
      BY <2>2 DEF AuditInv, ShipInv, Seals
    <3> QED
      BY <3>1, FilesAre
  <2> QED
    BY <2>1, <2>2
<1>4. \A b \in Bundle :
        /\ target[b].files \in [DOMAIN Files -> {"none", "torn", "whole"}]
        /\ target[b].dir \in BOOLEAN /\ target[b].receipt \in BOOLEAN
  BY FilesAre DEF AuditInv, ShipInv, ShipTypes, IsTarget
<1> QED
  BY <1>1, <1>2, <1>3, <1>4 DEF AuditTypeOK, AuditInv, ShipInv, ShipTypes

LEMMA AuditReceiptVouches ==
  ASSUME AuditInv
  PROVE  ReceiptVouches
<1> SUFFICES ASSUME NEW b \in Bundle, target[b].receipt
             PROVE  /\ \A f \in DOMAIN Files : target[b].files[f] = "whole"
                    /\ seal[b].files = Len(Files)
                    /\ VerifyAuditHashChain(seal[b].rows, allow)
                    /\ Vouched(seal[b].rows, allow)
  BY DEF ReceiptVouches
<1>1. Whole(b) /\ seal[b].files = 3
  BY DEF AuditInv, ShipInv, Receipts
<1>2. SealedRows(seal[b].rows)
  <2>1. NoSeal.files = 0
    BY DEF NoSeal
  <2>2. seal[b] # NoSeal
    BY <1>1, <2>1
  <2> QED
    BY <2>2 DEF AuditInv, ShipInv, Seals
<1>3. Vouched(seal[b].rows, allow)
  BY <1>2 DEF SealedRows, VouchedBy, Vouched, InStep
<1> QED
  BY <1>1, <1>2, <1>3, FilesAre DEF Whole, SealedRows

LEMMA AuditOneShipment ==
  ASSUME AuditInv
  PROVE  OneShipment
<1> SUFFICES ASSUME scheme # "http", NEW b \in Bundle
             PROVE  LET past == {p \in Shipper :
                          /\ \/ shipper[p].step = "receipt"
                             \/ shipper[p].step = "send" /\ shipper[p].file > 1
                          /\ shipper[p].bundle = b}
                    IN  /\ Cardinality(past) <= 1
                        /\ target[b].receipt => past = {}
  BY DEF OneShipment
<1> DEFINE past == {p \in Shipper :
             /\ \/ shipper[p].step = "receipt"
                \/ shipper[p].step = "send" /\ shipper[p].file > 1
             /\ shipper[p].bundle = b}
<1>1. \A p \in Shipper : p \in past <=> IsPast(shipper[p], b)
  BY DEF IsPast
<1>2. \A p, q \in past : p = q
  BY <1>1 DEF AuditInv, ShipInv, OnePast
<1>3. target[b].receipt => past = {}
  BY <1>1 DEF AuditInv, ShipInv, OnePast
<1> HIDE DEF past
<1>4. Cardinality(past) <= 1
  <2>1. CASE past = {}
    BY <2>1, FS_EmptySet
  <2>2. CASE past # {}
    <3>1. PICK p : past = {p}
      BY <1>2, <2>2
    <3>2. Cardinality({p}) = 1
      BY FS_Singleton
    <3> QED
      BY <3>1, <3>2
  <2> QED
    BY <2>1, <2>2
<1> QED
  BY <1>3, <1>4 DEF past

\* Rows, bundles, targets and shippers keep their types, for any number of
\* writers, rows, changes and bundles.
THEOREM AuditTypes == AuditSpec => []AuditTypeOK
BY AuditInvariant, AuditTyped, PTL

\* While the rows of an organisation are stamped in the order they are recorded in,
\* a row that verifies vouches for every row there was when it was recorded,
\* whatever was changed in the table and however often
\* (VerifyAuditHashChainWithOptions).
THEOREM ChangesFound == AuditSpec => []ChangesAreFound
<1>1. AuditInv => ChangesAreFound
  BY TableVouched DEF AuditInv
<1> QED
  BY <1>1, AuditInvariant, PTL

\* A table nobody has changed verifies, however many writers record rows and
\* fail (RecordAuditLog): rows of one organisation, stamped in the order they are
\* recorded in, without a struct in their payloads, with the rows of an older
\* release allowed for.
THEOREM HonestVerified == AuditSpec => []HonestChainVerifies
<1>1. AuditInv => HonestChainVerifies
  BY HonestVerifies DEF AuditInv
<1> QED
  BY <1>1, AuditInvariant, PTL

\* A receipt vouches for a delivery: its bundle is whole at the target, and holds
\* rows that verified and, while stamps go up, go back to what was recorded (Ship,
\* shipS3, shipHTTP).
THEOREM ReceiptsVouch == AuditSpec => []ReceiptVouches
BY AuditInvariant, AuditReceiptVouches, PTL

\* Of the shipments of a bundle to a directory or a bucket, one at most gets past
\* its first file, and none after a receipt (os.Mkdir, O_EXCL, If-None-Match).
THEOREM OneShipmentOnly == AuditSpec => []OneShipment
BY AuditInvariant, AuditOneShipment, PTL
=============================================================================
