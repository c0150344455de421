-------------------------- MODULE RunEventsProofs --------------------------
(***************************************************************************)
(* What RunEvents guarantees for every number of callers and events: the   *)
(* events are numbered without a gap, they tell the run's story as it was, *)
(* and a stream sends each of them once and in order.                      *)
(***************************************************************************)
EXTENDS RunEvents, FiniteSetTheorems, SequenceTheorems, TLAPS

RunEventsSpec == RunEventsInit /\ [][RunEventsNext]_runEventVars

-----------------------------------------------------------------------------
(* The parts of the invariant. *)

Running == {"queued", "running"}
Told    == EndStatus \cup Running \cup {Nothing}
N       == Cardinality(events)

\* The events are rows with the numbers from one up, and no two have the same.
EventRows ==
  /\ IsFiniteSet(events) /\ N \in Nat /\ N >= 1
  /\ \A e \in events : e = [seq |-> e.seq, tells |-> e.tells] /\ e.seq \in 1 .. N /\ e.tells \in Told
  /\ \A d, e \in events : d.seq = e.seq => d = e
  /\ \A n \in 1 .. N : \E e \in events : e.seq = n

CallType ==
  {NoCall} \cup [step : {"locked"}, to : EndStatus \cup {"running"}]
           \cup [step : {"numbered", "inserted"}, to : EndStatus \cup {"running", Nothing}, seq : Nat]

\* A number was the next one once, and is still free for the one who has
\* inserted it.
Calls ==
  /\ call \in [Caller -> CallType]
  /\ \A c \in Caller : call[c].step \in {"numbered", "inserted"} => call[c].seq \in 1 .. N + 1
  /\ \A c \in Caller : call[c].step = "inserted" => call[c].seq = N + 1
  /\ \A c, d \in Caller : call[c].step = "inserted" /\ call[d].step = "inserted" => c = d

\* The row's lock is one caller's, and a dispatch that has it found the run queued.
Locks ==
  /\ \A c, d \in Caller : call[c].to # Nothing /\ call[d].to # Nothing => c = d
  /\ \A c \in Caller : call[c].to = "running" => status = "queued"

Story ==
  /\ status \in EndStatus \cup Running
  /\ status = "queued" => \A e \in events : e.tells \notin EndStatus
  /\ StatusIsTold

-----------------------------------------------------------------------------
(* Calls *)

LEMMA Names ==
  /\ Nothing \notin EndStatus \cup Running
  /\ NoCall.step = "none" /\ NoCall.to = Nothing
  /\ "queued" \notin EndStatus /\ "running" \notin EndStatus
BY RunEventsAssumption DEF Nothing, Running, NoCall

LEMMA CallFields ==
  ASSUME NEW w \in CallType
  PROVE  /\ w.step \in {"none", "locked", "numbered", "inserted"}
         /\ w.to \in EndStatus \cup {"running", Nothing}
         /\ w.step = "none" => w = NoCall
         /\ w.step = "locked" => w.to \in EndStatus \cup {"running"}
         /\ w.step \in {"numbered", "inserted"} => w.seq \in Nat
BY DEF CallType, NoCall

LEMMA ProceedTyped ==
  ASSUME call \in [Caller -> CallType], NEW c \in Caller, NEW w \in CallType, Proceed(c, w)
  PROVE  /\ call' \in [Caller -> CallType]
         /\ call'[c] = w
         /\ \A d \in Caller \ {c} : call'[d] = call[d]
BY DEF Proceed

\* The number an event is given is the next one.
LEMMA MaxIs ==
  ASSUME NEW S \in SUBSET Nat, NEW m \in S, \A n \in S : n <= m
  PROVE  Max(S) = m
<1>1. \E x \in S : \A y \in S : x >= y
  BY DEF Max
<1>2. Max(S) \in S /\ \A y \in S : Max(S) >= y
  BY <1>1 DEF Max
<1>3. Max(S) >= m /\ Max(S) <= m /\ Max(S) \in Nat /\ m \in Nat
  BY <1>2
<1> QED
  BY <1>3

LEMMA NextIs ==
  ASSUME EventRows
  PROVE  NextSeq = N + 1
<1> DEFINE S == {e.seq : e \in events}
<1>1. S \in SUBSET Nat /\ N \in S /\ \A n \in S : n <= N
  BY DEF EventRows
<1>2. N \in Nat
  BY DEF EventRows
<1>3. NextSeq = 1 + Max(S)
  BY DEF NextSeq
<1> HIDE DEF S
<1>4. Max(S) = N
  BY <1>1, MaxIs
<1> QED
  BY <1>2, <1>3, <1>4

\* A caller's next step that stores nothing.
LEMMA CallsStep ==
  ASSUME EventRows, Calls, NEW c \in Caller, NEW w \in CallType, Proceed(c, w), events' = events,
         w.step = "numbered" => w.seq \in 1 .. N + 1,
         w.step = "inserted" =>
           w.seq = N + 1 /\ \A d \in Caller : call[d].step # "inserted"
  PROVE  Calls'
<1>1. /\ call' \in [Caller -> CallType] /\ call'[c] = w
      /\ \A d \in Caller \ {c} : call'[d] = call[d]
  BY ProceedTyped DEF Calls
<1>2. N' = N /\ N \in Nat
  BY DEF N, EventRows
<1> HIDE DEF N
<1> QED
  BY <1>1, <1>2 DEF Calls

LEMMA LocksStep ==
  ASSUME Calls, Locks, NEW c \in Caller, NEW w \in CallType, Proceed(c, w), status' = status,
         \/ w.to = Nothing
         \/ w.to = call[c].to
         \/ RowFree /\ (w.to = "running" => status = "queued")
  PROVE  Locks'
<1>1. call'[c] = w /\ \A d \in Caller \ {c} : call'[d] = call[d]
  BY ProceedTyped DEF Calls
<1> QED
  BY <1>1, Names, CallFields DEF Locks, RowFree, Running

\* What stands still while only the calls or the stream go on.
LEMMA RowsStand == EventRows /\ events' = events => EventRows'
BY DEF EventRows, N

LEMMA StoryStands == Story /\ events' = events /\ status' = status => Story'
BY DEF Story, StatusIsTold

-----------------------------------------------------------------------------
(* An event is committed. *)

LEMMA Committed ==
  ASSUME EventRows, Calls, NEW c \in Caller, CommitEvent(c)
  PROVE  /\ events' = events \cup {[seq |-> N + 1, tells |-> call[c].to]}
         /\ N' = N + 1
         /\ EventRows'
<1> DEFINE new == [seq |-> N + 1, tells |-> call[c].to]
<1>1. call[c] \in CallType /\ call[c].step = "inserted" /\ call[c].seq = N + 1
  BY DEF Calls, CommitEvent
<1>2. events' = events \cup {new}
  BY <1>1 DEF CommitEvent
<1>3. N \in Nat /\ \A e \in events : e.seq \in 1 .. N
  BY DEF EventRows
<1>4. new.seq = N + 1 /\ new.tells \in Told /\ new = [seq |-> new.seq, tells |-> new.tells]
  BY <1>1, CallFields DEF Told, Running
<1>5. new \notin events
  BY <1>3, <1>4
<1> HIDE DEF new
<1>6. IsFiniteSet(events') /\ Cardinality(events') = Cardinality(events) + 1
  BY <1>2, <1>5, FS_AddElement DEF EventRows
<1>7. N' = N + 1
  BY <1>6 DEF N
<1>8. EventRows'
  <2>1. IsFiniteSet(events') /\ N' \in Nat /\ N' >= 1
    BY <1>3, <1>6, <1>7
  <2>2. \A e \in events' : e = [seq |-> e.seq, tells |-> e.tells] /\ e.seq \in 1 .. N + 1 /\ e.tells \in Told
    BY <1>2, <1>3, <1>4 DEF EventRows
  <2>3. \A d, e \in events' : d.seq = e.seq => d = e
    BY <1>2, <1>3, <1>4 DEF EventRows
  <2>4. \A n \in 1 .. N + 1 : \E e \in events' : e.seq = n
    <3>1. \A n \in 1 .. N + 1 : n \in 1 .. N \/ n = N + 1
      BY <1>3
    <3> QED
      BY <1>2, <1>4, <3>1 DEF EventRows
  <2> QED
    BY <1>7, <2>1, <2>2, <2>3, <2>4 DEF EventRows
<1> QED
  BY <1>2, <1>7, <1>8 DEF new

LEMMA NoCallTyped == NoCall \in CallType
BY DEF CallType

LEMMA CallsCommit ==
  ASSUME EventRows, Calls, NEW c \in Caller, CommitEvent(c)
  PROVE  Calls'
<1>1. /\ call' \in [Caller -> CallType] /\ call'[c] = NoCall
      /\ \A d \in Caller \ {c} : call'[d] = call[d]
  BY ProceedTyped, NoCallTyped DEF Calls, CommitEvent
<1>2. N' = N + 1 /\ N \in Nat
  BY Committed DEF EventRows
<1>3. call[c].step = "inserted"
  BY DEF CommitEvent
<1>4. \A d \in Caller : call'[d].step # "inserted"
  BY <1>1, <1>3, Names DEF Calls
<1>5. ASSUME NEW d \in Caller, call'[d].step \in {"numbered", "inserted"}
      PROVE  call'[d].seq \in 1 .. N + 2
  <2>1. d # c /\ call'[d] = call[d]
    BY <1>1, <1>5, Names
  <2>2. call[d].seq \in 1 .. N + 1
    BY <1>5, <2>1 DEF Calls
  <2> QED
    BY <1>2, <2>1, <2>2
<1> QED
  BY <1>1, <1>2, <1>4, <1>5 DEF Calls

LEMMA LocksCommit ==
  ASSUME Calls, Locks, NEW c \in Caller, CommitEvent(c)
  PROVE  Locks'
<1>1. call'[c] = NoCall /\ \A d \in Caller \ {c} : call'[d] = call[d]
  BY ProceedTyped, NoCallTyped DEF Calls, CommitEvent
<1>2. \A d \in Caller : call'[d].to # Nothing => d # c /\ call[d].to = call'[d].to
  BY <1>1, Names
<1>3. call[c].to = Nothing => status' = status
  BY DEF CommitEvent
<1>4. "running" # Nothing
  BY Names DEF Running
<1> QED
  BY <1>2, <1>3, <1>4 DEF Locks

LEMMA StoryCommit ==
  ASSUME EventRows, Calls, Locks, Story, NEW c \in Caller, CommitEvent(c)
  PROVE  Story'
<1> DEFINE to  == call[c].to
           new == [seq |-> N + 1, tells |-> to]
<1>1. to \in EndStatus \cup {"running", Nothing}
  BY CallFields DEF Calls
<1>2. events' = events \cup {new}
  BY Committed
<1>3. N \in Nat /\ \A e \in events : e.seq \in Nat /\ e.seq < N + 1
  BY DEF EventRows
<1>4. new.seq = N + 1 /\ new.tells = to
  OBVIOUS
<1>5. status' = IF to = Nothing THEN status ELSE to
  BY DEF CommitEvent
<1>6. to = "running" => \A e \in events : e.tells \notin EndStatus
  BY DEF Locks, Story
<1> HIDE DEF new, to
<1>7. status' \in EndStatus \cup Running
  BY <1>1, <1>5 DEF Story, Running
<1>8. status' = "queued" => to = Nothing /\ status = "queued"
  BY <1>1, <1>5, Names
<1>9. status' = "queued" => \A e \in events' : e.tells \notin EndStatus
  BY <1>2, <1>4, <1>8, Names DEF Story
<1>10. \E e \in events' :
         /\ e.tells = status'
         /\ \A d \in events' : d.seq > e.seq => d.tells = Nothing
  <2>1. CASE to = Nothing
    <3>1. PICK e \in events : /\ e.tells = status
                              /\ \A d \in events : d.seq > e.seq => d.tells = Nothing
      BY DEF Story, StatusIsTold
    <3> QED
      BY <1>2, <1>4, <1>5, <2>1, <3>1
  <2>2. CASE to # Nothing
    <3>1. \A d \in events' : ~(d.seq > new.seq)
      BY <1>2, <1>3, <1>4
    <3> QED
      BY <1>2, <1>4, <1>5, <2>2, <3>1
  <2> QED
    BY <2>1, <2>2
<1>11. \A d, e \in events' : d.tells = "running" /\ e.tells \in EndStatus => d.seq < e.seq
  <2> SUFFICES ASSUME NEW d \in events', NEW e \in events', d.tells = "running", e.tells \in EndStatus
               PROVE  d.seq < e.seq
    OBVIOUS
  <2>1. CASE d \in events /\ e \in events
    BY <2>1 DEF Story, StatusIsTold
  <2>2. CASE d \in events /\ e = new
    BY <1>3, <1>4, <2>2
  <2>3. CASE d = new
    BY <1>2, <1>4, <1>6, <2>3, Names
  <2> QED
    BY <1>2, <2>1, <2>2, <2>3
<1> QED
  BY <1>7, <1>9, <1>10, <1>11 DEF Story, StatusIsTold

-----------------------------------------------------------------------------
(* Events in their order. *)

\* A function that grows from one number to the next, from 1 .. k to 1 .. k, is
\* the identity: as many numbers are below i as below its value at i.
LEMMA GrowingIsIdentity ==
  ASSUME NEW k \in Nat, NEW g \in [1 .. k -> 1 .. k],
         \A i, j \in 1 .. k : i < j => g[i] < g[j]
  PROVE  \A i \in 1 .. k : g[i] = i
<1>1. g \in Injection(1 .. k, 1 .. k)
  <2>1. ASSUME NEW i \in 1 .. k, NEW j \in 1 .. k, g[i] = g[j]
        PROVE  i = j
    <3>1. g[i] \in Nat /\ ~(i < j) /\ ~(j < i)
      BY <2>1
    <3> QED
      BY <3>1
  <2> QED
    BY <2>1 DEF Injection, IsInjective
<1>2. IsFiniteSet(1 .. k)
  BY FS_Interval
<1>3. g \in Surjection(1 .. k, 1 .. k)
  BY <1>1, <1>2, FS_Injection
<1> SUFFICES ASSUME NEW i \in 1 .. k
             PROVE  g[i] = i
  OBVIOUS
<1>back. \A j \in 1 .. k : g[j] < g[i] => j < i
  <2> TAKE j \in 1 .. k
  <2>1. g[j] \in Nat /\ g[i] \in Nat /\ i \in Nat /\ j \in Nat
    OBVIOUS
  <2> SUFFICES ASSUME g[j] < g[i], i <= j
               PROVE  FALSE
    BY <2>1
  <2>2. i # j
    BY <2>1
  <2>3. g[i] < g[j]
    BY <2>1, <2>2
  <2> QED
    BY <2>1, <2>3
<1> DEFINE h == [j \in 1 .. i - 1 |-> g[j]]
           m == g[i] - 1
<1>4. m \in Nat /\ i - 1 \in Nat /\ i - 1 <= k
  OBVIOUS
<1>5. \A j \in 1 .. i - 1 : g[j] \in 1 .. m
  <2> TAKE j \in 1 .. i - 1
  <2>1. j \in 1 .. k /\ j < i
    OBVIOUS
  <2>2. g[j] \in 1 .. k /\ g[j] < g[i] /\ g[i] \in 1 .. k
    BY <2>1
  <2> QED
    BY <2>2
<1>6. \A j, l \in 1 .. i - 1 : h[j] = h[l] => j = l
  <2> SUFFICES ASSUME NEW j \in 1 .. i - 1, NEW l \in 1 .. i - 1, g[j] = g[l]
               PROVE  j = l
    OBVIOUS
  <2>1. j \in 1 .. k /\ l \in 1 .. k
    BY <1>4
  <2>2. j < l \/ l < j \/ j = l
    OBVIOUS
  <2>3. g[j] \in Nat /\ g[l] \in Nat
    BY <2>1
  <2> QED
    BY <2>1, <2>2, <2>3
<1>7. \A n \in 1 .. m : \E j \in 1 .. i - 1 : h[j] = n
  <2> SUFFICES ASSUME NEW n \in 1 .. m
               PROVE  \E j \in 1 .. i - 1 : g[j] = n
    OBVIOUS
  <2>1. n \in 1 .. k /\ n < g[i]
    BY <1>4
  <2>2. PICK j \in 1 .. k : g[j] = n
    BY <1>3, <2>1 DEF Surjection
  <2>3. j < i
    BY <2>1, <2>2, <1>back
  <2>4. j \in 1 .. i - 1
    BY <2>3
  <2> QED
    BY <2>2, <2>4
<1> HIDE DEF m
<1>8. h \in [1 .. i - 1 -> 1 .. m]
  BY <1>5
<1> HIDE DEF h
<1>9. h \in Bijection(1 .. i - 1, 1 .. m)
  BY <1>6, <1>7, <1>8 DEF Bijection, Injection, Surjection, IsInjective
<1>10. ExistsBijection(1 .. i - 1, 1 .. m)
  BY <1>9 DEF ExistsBijection
<1>11. Cardinality(1 .. m) = Cardinality(1 .. i - 1)
  BY <1>10, FS_Interval, FS_Bijection
<1>12. Cardinality(1 .. m) = m /\ Cardinality(1 .. i - 1) = i - 1
  <2>1. \A n \in Nat : Cardinality(1 .. n) = n
    BY FS_Interval
  <2> QED
    BY <1>4, <2>1
<1> QED
  BY <1>4, <1>11, <1>12 DEF m

\* The event of E that has the number n.
EventOf(E, n) == CHOOSE e \in E : e.seq = n

LEMMA EventOfIs ==
  ASSUME NEW E, \A d, e \in E : d.seq = e.seq => d = e, NEW e \in E
  PROVE  EventOf(E, e.seq) = e
BY DEF EventOf

\* Events with the numbers a + 1 .. b, in their order.
LEMMA BySeqIs ==
  ASSUME NEW a \in Nat, NEW b \in Nat, a <= b, NEW S,
         \A e \in S : e.seq \in a + 1 .. b,
         \A d, e \in S : d.seq = e.seq => d = e,
         \A n \in a + 1 .. b : \E e \in S : e.seq = n
  PROVE  BySeq(S) = [i \in 1 .. b - a |-> EventOf(S, a + i)]
<1> DEFINE k == b - a
           f == [i \in 1 .. k |-> EventOf(S, a + i)]
           Ordered(s) == IsInjective(s) /\ \A i, j \in DOMAIN s : i < j => s[i].seq <= s[j].seq
<1>1. k \in Nat
  OBVIOUS
<1>2. \A i \in 1 .. k : f[i] \in S /\ f[i].seq = a + i
  <2> SUFFICES ASSUME NEW i \in 1 .. k
               PROVE  EventOf(S, a + i) \in S /\ EventOf(S, a + i).seq = a + i
    OBVIOUS
  <2>1. a + i \in a + 1 .. b
    OBVIOUS
  <2> QED
    BY <2>1 DEF EventOf
<1>3. \A e \in S : e.seq - a \in 1 .. k /\ f[e.seq - a] = e
  <2> SUFFICES ASSUME NEW e \in S
               PROVE  e.seq - a \in 1 .. k /\ f[e.seq - a] = e
    OBVIOUS
  <2>1. e.seq - a \in 1 .. k /\ a + (e.seq - a) = e.seq
    OBVIOUS
  <2> QED
    BY <2>1, EventOfIs
<1>4. f \in [1 .. k -> S] /\ DOMAIN f = 1 .. k
  BY <1>2
<1> HIDE DEF f, k
<1>5. \A i, j \in 1 .. k : f[i] = f[j] => i = j
  BY <1>1, <1>2
<1>6. f \in Bijection(1 .. k, S)
  BY <1>3, <1>4, <1>5 DEF Bijection, Injection, Surjection, IsInjective
<1>7. Cardinality(S) = k
  <2>1. IsFiniteSet(1 .. k) /\ Cardinality(1 .. k) = k
    BY <1>1, FS_Interval
  <2>2. ExistsBijection(1 .. k, S)
    BY <1>6 DEF ExistsBijection
  <2> QED
    BY <2>1, <2>2, FS_Bijection
<1>8. Ordered(f)
  BY <1>1, <1>2, <1>4, <1>5 DEF IsInjective
<1>9. ASSUME NEW s \in [1 .. k -> S], Ordered(s)
      PROVE  s = f
  <2> DEFINE g == [i \in 1 .. k |-> s[i].seq - a]
  <2>1. \A i \in 1 .. k : s[i] \in S /\ s[i].seq - a \in 1 .. k
    BY <1>3
  <2>2. g \in [1 .. k -> 1 .. k]
    BY <2>1
  <2>3. ASSUME NEW i \in 1 .. k, NEW j \in 1 .. k, i < j
        PROVE  g[i] < g[j]
    <3>1. DOMAIN s = 1 .. k
      OBVIOUS
    <3>2. s[i].seq <= s[j].seq /\ s[i] # s[j]
      BY <1>1, <1>9, <2>3, <3>1 DEF IsInjective
    <3>3. s[i].seq # s[j].seq
      BY <2>1, <3>2
    <3>4. s[i].seq \in Nat /\ s[j].seq \in Nat
      BY <2>1
    <3> QED
      BY <3>2, <3>3, <3>4
  <2> HIDE DEF g
  <2>4. \A i \in 1 .. k : g[i] = i
    BY <1>1, <2>2, <2>3, GrowingIsIdentity
  <2>5. \A i \in 1 .. k : s[i] = f[i]
    <3> TAKE i \in 1 .. k
    <3>1. s[i].seq - a = i
      BY <2>4 DEF g
    <3> QED
      BY <1>3, <2>1, <3>1
  <2>6. s = [i \in 1 .. k |-> s[i]] /\ f = [i \in 1 .. k |-> f[i]]
    BY <1>4
  <2> QED
    BY <2>5, <2>6
<1>10. BySeq(S) = CHOOSE s \in [1 .. k -> S] : Ordered(s)
  BY <1>7 DEF BySeq
<1> HIDE DEF Ordered
<1>11. BySeq(S) = f
  BY <1>4, <1>8, <1>9, <1>10
<1> QED
  BY <1>11 DEF f, k

-----------------------------------------------------------------------------
(* The stream *)

Prefix(E, n) == [i \in 1 .. n |-> EventOf(E, i)]

Stream ==
  /\ stream \in [open : BOOLEAN, after : Nat, sent : {stream.sent}]
  /\ stream.after <= N
  /\ stream.sent = Prefix(events, stream.after)

\* The events with the numbers a + 1 .. b of the run, in their order.
LEMMA BatchBySeq ==
  ASSUME EventRows, NEW a \in Nat, NEW b \in Nat, a <= b, b <= N
  PROVE  BySeq({e \in events : e.seq > a /\ e.seq <= b}) =
           [i \in 1 .. b - a |-> EventOf(events, a + i)]
<1> DEFINE S == {e \in events : e.seq > a /\ e.seq <= b}
<1>1. \A e \in events : e.seq \in 1 .. N /\ N \in Nat
  BY DEF EventRows
<1>2. \A e \in S : e.seq \in a + 1 .. b
  BY <1>1
<1>3. \A d, e \in events : d.seq = e.seq => d = e
  BY DEF EventRows
<1>4. \A n \in a + 1 .. b : \E e \in S : e.seq = n
  <2> TAKE n \in a + 1 .. b
  <2>1. n \in 1 .. N /\ n > a /\ n <= b
    BY DEF EventRows
  <2> QED
    BY <2>1 DEF EventRows
<1>5. \A e \in S : EventOf(S, e.seq) = e /\ EventOf(events, e.seq) = e
  BY <1>3, EventOfIs
<1>6. \A n \in a + 1 .. b : EventOf(S, n) = EventOf(events, n)
  BY <1>4, <1>5
<1>7. \A i \in 1 .. b - a : a + i \in a + 1 .. b
  OBVIOUS
<1>8. \A d, e \in S : d.seq = e.seq => d = e
  BY <1>3
<1> HIDE DEF S
<1>9. BySeq(S) = [i \in 1 .. b - a |-> EventOf(S, a + i)]
  BY <1>2, <1>4, <1>8, BySeqIs
<1>10. [i \in 1 .. b - a |-> EventOf(S, a + i)] = [i \in 1 .. b - a |-> EventOf(events, a + i)]
  BY <1>6, <1>7
<1> QED
  BY <1>9, <1>10 DEF S

\* What a stream that has sent the first a events is after it has sent the
\* later ones of those up to b.
LEMMA SentIs ==
  ASSUME EventRows, NEW a \in Nat, NEW b \in Nat, a <= b, b <= N,
         NEW s, s.sent = Prefix(events, a), s.after = a,
         NEW batch, batch = {e \in events : e.seq > a /\ e.seq <= b},
         NEW t, t = Sent(s, batch)
  PROVE  /\ t \in [open : BOOLEAN, after : Nat, sent : {t.sent}]
         /\ t.after = b /\ t.sent = Prefix(events, b)
<1> DEFINE S == {e \in events : e.seq > a /\ e.seq <= b}
           one == Prefix(events, a)
           two == [i \in 1 .. b - a |-> EventOf(events, a + i)]
<1>1. BySeq(S) = two
  BY BatchBySeq
<1>2. one \o two = Prefix(events, b)
  <2>1. Len(one) = a /\ Len(two) = b - a /\ b - a \in Nat
    BY DEF Prefix
  <2>2. one \o two = [i \in 1 .. a + (b - a) |-> IF i <= a THEN one[i] ELSE two[i - a]]
    BY <2>1 DEF Prefix
  <2>3. one \o two = [i \in 1 .. b |-> IF i <= a THEN one[i] ELSE two[i - a]]
    <3>1. a + (b - a) = b
      OBVIOUS
    <3> HIDE DEF one, two
    <3> QED
      BY <2>2, <3>1
  <2>4. \A i \in 1 .. b : (IF i <= a THEN one[i] ELSE two[i - a]) = EventOf(events, i)
    <3> TAKE i \in 1 .. b
    <3>1. CASE i <= a
      BY <3>1 DEF Prefix
    <3>2. CASE ~(i <= a)
      <4>1. i - a \in 1 .. b - a /\ a + (i - a) = i
        BY <3>2
      <4>2. two[i - a] = EventOf(events, a + (i - a))
        BY <4>1
      <4> QED
        BY <3>2, <4>1, <4>2
    <3> QED
      BY <3>1, <3>2
  <2> HIDE DEF one, two
  <2> QED
    BY <2>3, <2>4 DEF Prefix
<1>3. (IF S = {} THEN a ELSE Max({e.seq : e \in S})) = b
  <2>0. \A e \in events : e.seq \in Nat
    BY DEF EventRows
  <2>1. CASE a = b
    <3>1. S = {}
      BY <2>0, <2>1
    <3> QED
      BY <2>1, <3>1
  <2>2. CASE a # b
    <3> DEFINE M == {e.seq : e \in S}
    <3>1. PICK e \in events : e.seq = b
      <4>1. b \in 1 .. N
        BY <2>2 DEF EventRows
      <4> QED
        BY <4>1 DEF EventRows
    <3>2. e \in S /\ b \in M
      BY <2>2, <3>1
    <3>3. M \in SUBSET Nat /\ \A n \in M : n <= b
      BY <2>0
    <3>4. S # {}
      BY <3>2
    <3> HIDE DEF M
    <3>5. Max(M) = b
      BY <3>2, <3>3, MaxIs
    <3> QED
      BY <3>4, <3>5 DEF M
  <2> QED
    BY <2>1, <2>2
<1> HIDE DEF S, one, two
<1>4. t = [open |-> TRUE, sent |-> one \o two, after |-> b]
  <2>1. batch = S
    BY DEF S
  <2> QED
    BY <1>1, <1>3, <2>1 DEF Sent, one
<1>5. \A x : LET r == [open |-> TRUE, sent |-> x, after |-> b]
            IN  r \in [open : BOOLEAN, after : Nat, sent : {r.sent}] /\ r.after = b /\ r.sent = x
  OBVIOUS
<1> QED
  BY <1>2, <1>4, <1>5, Zenon

\* What is listed is the events up to a number, which may be zero.
LEMMA ListedIs ==
  ASSUME EventRows, NEW listed \in ListEvents
  PROVE  \E n \in 0 .. N : listed = {e \in events : e.seq <= n}
<1>1. \A e \in events : e.seq \in 1 .. N /\ N \in Nat
  BY DEF EventRows
<1>2. CASE listed = {}
  <2>1. listed = {e \in events : e.seq <= 0}
    BY <1>1, <1>2
  <2>2. 0 \in 0 .. N
    BY DEF EventRows
  <2> QED
    BY <2>1, <2>2
<1>3. CASE listed # {}
  <2>1. PICK e \in events : listed = {d \in events : d.seq <= e.seq}
    BY <1>3 DEF ListEvents
  <2>2. e.seq \in 0 .. N
    BY <1>1
  <2> QED
    BY <2>1, <2>2
<1> QED
  BY <1>2, <1>3

LEMMA StreamSent ==
  ASSUME EventRows, events' = events, NEW a \in 0 .. N, NEW s, s.sent = Prefix(events, a), s.after = a,
         NEW n \in 0 .. N, NEW batch, batch = {e \in events : e.seq > a /\ e.seq <= n},
         stream' = Sent(s, batch)
  PROVE  Stream'
<1> DEFINE b == IF a <= n THEN n ELSE a
<1>1. N \in Nat /\ a \in Nat /\ n \in Nat
  BY DEF EventRows
<1>2. b \in Nat /\ a <= b /\ b <= N
  BY <1>1
<1>3. \A e \in events : e.seq \in Nat
  BY DEF EventRows
<1>4. batch = {e \in events : e.seq > a /\ e.seq <= b}
  BY <1>1, <1>3
<1> HIDE DEF b
<1>5. /\ stream' \in [open : BOOLEAN, after : Nat, sent : {stream'.sent}]
      /\ stream'.after = b /\ stream'.sent = Prefix(events, b)
  BY <1>1, <1>2, <1>4, SentIs
<1>6. N' = N
  BY DEF N
<1> QED
  BY <1>2, <1>5, <1>6 DEF Stream

LEMMA StreamCommit ==
  ASSUME EventRows, Calls, Stream, NEW c \in Caller, CommitEvent(c)
  PROVE  Stream'
<1>1. events' = events \cup {[seq |-> N + 1, tells |-> call[c].to]} /\ N' = N + 1 /\ EventRows'
  BY Committed
<1>2. N \in Nat /\ stream.after \in Nat /\ stream.after <= N /\ stream' = stream
  BY DEF EventRows, Stream, CommitEvent
<1>3. \A i \in 1 .. N : EventOf(events', i) = EventOf(events, i)
  <2> TAKE i \in 1 .. N
  <2>1. PICK e \in events : e.seq = i
    BY DEF EventRows
  <2>2. EventOf(events, e.seq) = e
    BY EventOfIs DEF EventRows
  <2>3. \A d, f \in events' : d.seq = f.seq => d = f
    BY <1>1 DEF EventRows
  <2>4. e \in events'
    BY <1>1
  <2>5. EventOf(events', e.seq) = e
    BY <2>3, <2>4, EventOfIs
  <2> QED
    BY <2>1, <2>2, <2>5
<1>4. Prefix(events', stream.after) = Prefix(events, stream.after)
  BY <1>2, <1>3 DEF Prefix
<1> QED
  BY <1>1, <1>2, <1>4 DEF Stream

LEMMA PrefixNothing == ASSUME NEW E PROVE Prefix(E, 0) = <<>>
BY DEF Prefix

LEMMA StreamOpens == EventRows /\ OpenStream => Stream'
<1> SUFFICES ASSUME EventRows, OpenStream
             PROVE  Stream'
  OBVIOUS
<1>1. PICK listed \in ListEvents : stream' = Sent(Closed, listed)
  BY DEF OpenStream
<1>2. PICK n \in 0 .. N : listed = {e \in events : e.seq <= n}
  BY ListedIs
<1>3. \A e \in events : e.seq \in Nat /\ e.seq > 0
  BY DEF EventRows
<1>4. listed = {e \in events : e.seq > 0 /\ e.seq <= n}
  BY <1>2, <1>3
<1>5. 0 \in 0 .. N /\ events' = events
  BY DEF EventRows, OpenStream
<1>6. Closed.sent = Prefix(events, 0) /\ Closed.after = 0
  BY PrefixNothing DEF Closed
<1> QED
  BY <1>1, <1>4, <1>5, <1>6, StreamSent

LEMMA StreamPolls == EventRows /\ Stream /\ PollEvents => Stream'
<1> SUFFICES ASSUME EventRows, Stream, PollEvents
             PROVE  Stream'
  OBVIOUS
<1> DEFINE a == stream.after
<1>1. PICK listed \in ListEvents : stream' = Sent(stream, EventsAfterSeq(listed, a))
  BY DEF PollEvents
<1>2. PICK n \in 0 .. N : listed = {e \in events : e.seq <= n}
  BY ListedIs
<1>3. EventsAfterSeq(listed, a) = {e \in events : e.seq > a /\ e.seq <= n}
  BY <1>2 DEF EventsAfterSeq
<1>4. a \in 0 .. N /\ events' = events /\ stream.sent = Prefix(events, a)
  BY DEF EventRows, Stream, PollEvents
<1> HIDE DEF a
<1>5. stream.after = a
  BY DEF a
<1> QED
  BY <1>1, <1>3, <1>4, <1>5, StreamSent

\* A stream that has not been opened, or has been closed.
LEMMA StreamClosed ==
  ASSUME NEW st, st = Closed, NEW E, NEW n \in Nat
  PROVE  /\ st \in [open : BOOLEAN, after : Nat, sent : {st.sent}]
         /\ st.after <= n /\ st.sent = Prefix(E, st.after)
BY PrefixNothing DEF Closed

LEMMA StreamStands == Stream /\ events' = events /\ stream' = stream => Stream'
BY DEF Stream, N

LEMMA StreamCloses == EventRows /\ CloseStream => Stream'
<1> SUFFICES ASSUME EventRows, CloseStream
             PROVE  Stream'
  OBVIOUS
<1>1. N' \in Nat /\ stream' = Closed
  BY DEF EventRows, CloseStream, N
<1> QED
  BY <1>1, StreamClosed DEF Stream

-----------------------------------------------------------------------------
(* What holds always. *)

EventsInv == EventRows /\ Calls /\ Locks /\ Story /\ Stream

LEMMA EventsInvInit == RunEventsInit => EventsInv
<1> SUFFICES ASSUME RunEventsInit
             PROVE  EventsInv
  OBVIOUS
<1> DEFINE first == [seq |-> 1, tells |-> status]
<1>1. events = {first} /\ status \in Running /\ call = [c \in Caller |-> NoCall] /\ stream = Closed
  BY DEF RunEventsInit, Running
<1>2. IsFiniteSet(events) /\ N = 1
  BY <1>1, FS_Singleton DEF N
<1>3. first = [seq |-> first.seq, tells |-> first.tells] /\ first.seq = 1 /\ first.tells = status
  OBVIOUS
<1> HIDE DEF first
<1>4. EventRows
  BY <1>1, <1>2, <1>3 DEF EventRows, Told
<1>5. Calls /\ Locks
  <2>1. call \in [Caller -> CallType] /\ \A c \in Caller : call[c] = NoCall
    BY <1>1, NoCallTyped
  <2>2. \A c \in Caller : call[c].step = "none" /\ call[c].to = Nothing
    BY <2>1, Names
  <2>3. "running" # Nothing
    BY Names DEF Running
  <2> QED
    BY <2>1, <2>2, <2>3 DEF Calls, Locks
<1>6. Story
  BY <1>1, <1>3, Names DEF Story, StatusIsTold, Running
<1>7. Stream
  BY <1>1, <1>2, StreamClosed DEF Stream
<1> QED
  BY <1>4, <1>5, <1>6, <1>7 DEF EventsInv

\* A step of a caller that only its own work tells of.
LEMMA WorkStep ==
  ASSUME EventsInv, NEW c \in Caller, NEW w \in CallType, Proceed(c, w), UNCHANGED <<status, events, stream>>,
         w.step = "numbered" => w.seq \in 1 .. N + 1,
         w.step = "inserted" =>
           w.seq = N + 1 /\ \A d \in Caller : call[d].step # "inserted",
         \/ w.to = Nothing
         \/ w.to = call[c].to
         \/ RowFree /\ (w.to = "running" => status = "queued")
  PROVE  EventsInv'
BY CallsStep, LocksStep, RowsStand, StoryStands, StreamStands DEF EventsInv

LEMMA EventsInvStep == EventsInv /\ [RunEventsNext]_runEventVars => EventsInv'
<1> SUFFICES ASSUME EventsInv, [RunEventsNext]_runEventVars
             PROVE  EventsInv'
  OBVIOUS
<1>1. ASSUME NEW c \in Caller, NEW to, FinishRunLocks(c, to), to \in EndStatus \cup {"running"},
             to = "running" => status = "queued"
      PROVE  EventsInv'
  <2> DEFINE w == [step |-> "locked", to |-> to]
  <2>1. Proceed(c, w) /\ RowFree /\ UNCHANGED <<status, events, stream>>
    BY <1>1 DEF FinishRunLocks
  <2>2. w \in CallType /\ w.step = "locked" /\ w.to = to
    BY <1>1 DEF CallType
  <2> HIDE DEF w
  <2> QED
    BY <1>1, <2>1, <2>2, WorkStep
<1>2. ASSUME NEW c \in Caller, NEW to, BeginInsert(c, to), UNCHANGED <<status, events, stream>>,
             to \in EndStatus \cup {"running", Nothing}, to = Nothing \/ to = call[c].to
      PROVE  EventsInv'
  <2> DEFINE w == [step |-> "numbered", to |-> to, seq |-> NextSeq]
  <2>1. NextSeq = N + 1 /\ N \in Nat
    BY NextIs DEF EventsInv, EventRows
  <2>2. NextSeq \in Nat
    BY <2>1
  <2>3. w \in CallType /\ w.step = "numbered" /\ w.to = to /\ w.seq = NextSeq
    BY <1>2, <2>2 DEF CallType
  <2>4. Proceed(c, w)
    BY <1>2 DEF BeginInsert
  <2> HIDE DEF w
  <2>5. w.seq \in 1 .. N + 1
    BY <2>1, <2>3
  <2> QED
    BY <1>2, <2>3, <2>4, <2>5, WorkStep
<1>3. ASSUME NEW c \in Caller, InsertEvent(c)
      PROVE  EventsInv'
  <2> DEFINE w == [call[c] EXCEPT !.step = "inserted"]
             v == call[c]
  <2>1. v \in CallType /\ v.step = "numbered" /\ v.seq \in 1 .. N + 1
    BY <1>3 DEF EventsInv, Calls, InsertEvent
  <2>2. v \in [step : {"numbered", "inserted"}, to : EndStatus \cup {"running", Nothing}, seq : Nat]
    BY <2>1 DEF CallType, NoCall
  <2>3. w \in CallType /\ w.step = "inserted" /\ w.to = v.to /\ w.seq = v.seq
    BY <2>2 DEF CallType
  <2>4. Proceed(c, w) /\ SeqFree(v.seq) /\ UNCHANGED <<status, events, stream>>
    BY <1>3 DEF InsertEvent
  <2> HIDE DEF w, v
  <2>5. v.seq = N + 1
    <3>1. \A e \in events : e.seq # v.seq
      BY <2>4 DEF SeqFree
    <3>2. v.seq \notin 1 .. N
      BY <3>1 DEF EventsInv, EventRows
    <3> QED
      BY <2>1, <3>2 DEF EventsInv, EventRows
  <2>6. \A d \in Caller : call[d].step # "inserted"
    BY <2>4, <2>5 DEF SeqFree, EventsInv, Calls
  <2>7. w.to = call[c].to
    BY <2>3 DEF v
  <2> QED
    BY <2>3, <2>4, <2>5, <2>6, <2>7, WorkStep
<1>4. ASSUME NEW c \in Caller, CommitEvent(c)
      PROVE  EventsInv'
  BY <1>4, Committed, CallsCommit, LocksCommit, StoryCommit, StreamCommit DEF EventsInv
<1>5. ASSUME NEW c \in Caller, RollBack(c)
      PROVE  EventsInv'
  BY <1>5, NoCallTyped, Names, WorkStep DEF RollBack
<1>6. ASSUME UNCHANGED <<status, events, call>>, Stream'
      PROVE  EventsInv'
  <2>1. EventRows' /\ Story'
    BY <1>6, RowsStand, StoryStands DEF EventsInv
  <2>2. Calls' /\ Locks'
    BY <1>6 DEF EventsInv, Calls, Locks, N
  <2> QED
    BY <1>6, <2>1, <2>2 DEF EventsInv
<1>7. CASE OpenStream \/ PollEvents \/ CloseStream
  <2>1. Stream'
    BY <1>7, StreamOpens, StreamPolls, StreamCloses DEF EventsInv
  <2>2. UNCHANGED <<status, events, call>>
    BY <1>7 DEF OpenStream, PollEvents, CloseStream
  <2> QED
    BY <1>6, <2>1, <2>2
<1>8. ASSUME NEW c \in Caller, StatusEvent(c)
      PROVE  EventsInv'
  <2>1. call[c].to \in EndStatus \cup {"running", Nothing}
    BY CallFields DEF EventsInv, Calls
  <2> QED
    BY <1>2, <1>8, <2>1 DEF StatusEvent
<1>9. ASSUME NEW c \in Caller, AddEvent(c)
      PROVE  EventsInv'
  BY <1>2, <1>9 DEF AddEvent
<1>10. ASSUME NEW c \in Caller, NEW to \in EndStatus, FinishRunLocks(c, to)
       PROVE  EventsInv'
  BY <1>1, <1>10, Names
<1>11. ASSUME NEW c \in Caller, DispatchLocks(c)
       PROVE  EventsInv'
  BY <1>1, <1>11 DEF DispatchLocks
<1>12. CASE UNCHANGED runEventVars
  <2>1. UNCHANGED <<status, events, call>> /\ stream' = stream
    BY <1>12 DEF runEventVars
  <2> QED
    BY <1>6, <2>1, StreamStands DEF EventsInv
<1> QED
  BY <1>3, <1>4, <1>5, <1>7, <1>8, <1>9, <1>10, <1>11, <1>12 DEF RunEventsNext

LEMMA EventsInvAlways == RunEventsSpec => []EventsInv
BY EventsInvInit, EventsInvStep, PTL DEF RunEventsSpec

\* The events are numbered from one up, without a gap and none twice, whoever
\* writes at the same time and whichever transactions are rolled back.
THEOREM EventsAreNumbered == RunEventsSpec => []RunEventsTypeOK
<1>1. EventsInv => RunEventsTypeOK
  <2> SUFFICES ASSUME EventsInv
               PROVE  RunEventsTypeOK
    OBVIOUS
  <2>1. status \in EndStatus \cup Running
    BY DEF EventsInv, Story
  <2>2. \A e \in events : e.tells \in Told
    BY DEF EventsInv, EventRows
  <2>3. {e.seq : e \in events} = 1 .. N
    BY DEF EventsInv, EventRows
  <2>4. \A c \in Caller : call[c].step \in {"none", "locked", "numbered", "inserted"}
    BY CallFields DEF EventsInv, Calls
  <2>5. stream.open \in BOOLEAN /\ stream.after \in Nat /\ stream.after <= N /\ N \in Nat
    BY DEF EventsInv, Stream, EventRows
  <2> QED
    BY <2>1, <2>2, <2>3, <2>4, <2>5 DEF RunEventsTypeOK, Running, Told, N
<1> QED
  BY <1>1, EventsInvAlways, PTL

\* The last event that tells of the status tells the row's, and none tells of a
\* dispatch after one has told of the end.
THEOREM EventsTellTheStatus == RunEventsSpec => []StatusIsTold
<1>1. EventsInv => StatusIsTold
  BY DEF EventsInv, Story
<1> QED
  BY <1>1, EventsInvAlways, PTL

\* A stream has sent each event up to the number it has reached, once and in
\* order.
THEOREM StreamsAreComplete == RunEventsSpec => []StreamMissesNothing
<1>1. EventsInv => StreamMissesNothing
  <2> SUFFICES ASSUME EventsInv
               PROVE  StreamMissesNothing
    OBVIOUS
  <2> DEFINE b == stream.after
  <2>1. b \in Nat /\ b <= N /\ stream.sent = Prefix(events, b)
    BY DEF EventsInv, Stream
  <2>2. \A e \in events : e.seq \in Nat /\ e.seq > 0
    BY DEF EventsInv, EventRows
  <2>3. {e \in events : e.seq <= b} = {e \in events : e.seq > 0 /\ e.seq <= b}
    BY <2>2
  <2> HIDE DEF b
  <2>4. BySeq({e \in events : e.seq > 0 /\ e.seq <= b}) = [i \in 1 .. b - 0 |-> EventOf(events, 0 + i)]
    BY <2>1, BatchBySeq DEF EventsInv
  <2>5. [i \in 1 .. b - 0 |-> EventOf(events, 0 + i)] = Prefix(events, b)
    BY <2>1 DEF Prefix
  <2> QED
    BY <2>1, <2>3, <2>4, <2>5 DEF StreamMissesNothing, b
<1> QED
  BY <1>1, EventsInvAlways, PTL
=============================================================================
