-------------------------- MODULE McpSessionsProofs --------------------------
(***************************************************************************)
(* What McpSessions guarantees for every number of clients, streams and    *)
(* requests, every limit of a list and every number of events: the         *)
(* numbers of events, what clients read, and that it implements            *)
(* EventStream.                                                            *)
(***************************************************************************)
EXTENDS McpSessions, SequenceTheorems, TLAPS

-----------------------------------------------------------------------------
(* Sequences of ids *)

Id == 1..MaxEvents
Ids == Seq(Id)

\* What a list of the events after n holds: events after n, upwards, and every
\* event up to the last of them.
LEMMA ListsProperties ==
  ASSUME events \subseteq Id, NEW n \in Nat, NEW ids \in Lists(n)
  PROVE  /\ ids \in Ids
         /\ \A i \in 1..Len(ids) : ids[i] \in events /\ ids[i] > n
         /\ \A i, j \in 1..Len(ids) : i < j => ids[i] < ids[j]
         /\ ids # <<>> =>
              /\ Len(ids) \in 1..Len(ids)
              /\ LastOf(ids) = ids[Len(ids)]
              /\ LastOf(ids) \in events
              /\ LastOf(ids) > n
              /\ \A k \in events : k > n /\ k <= LastOf(ids) => Has(ids, k)
<1>1. PICK len \in 0..Limit : ids \in [1..len -> Waiting(n)]
  BY DEF Lists
<1>2. len \in Nat
  BY <1>1, ConstantsAssumption
<1>3. Waiting(n) \subseteq events /\ \A k \in Waiting(n) : k > n
  BY DEF Waiting
<1>8. events \subseteq Nat
  BY DEF Id
<1>4. ids \in Ids /\ Len(ids) = len /\ DOMAIN ids = 1..len
  BY <1>1, <1>2, <1>3 DEF Ids
<1>5. \A i \in 1..len : ids[i] \in events /\ ids[i] > n
  BY <1>1, <1>3
<1>6. \A i, j \in 1..len : i < j => ids[i] < ids[j]
  BY <1>4 DEF Lists
<1>7. ASSUME ids # <<>>
      PROVE  /\ len \in 1..len
             /\ LastOf(ids) = ids[len]
             /\ LastOf(ids) \in events
             /\ LastOf(ids) > n
             /\ \A k \in events : k > n /\ k <= LastOf(ids) => Has(ids, k)
  <2>1. len \in 1..len
    <3>1. Len(ids) \in Nat \ {0}
      BY <1>4, <1>7, EmptySeq DEF Ids
    <3> QED
      BY <1>4, <3>1
  <2>2. LastOf(ids) = ids[len]
    BY <1>4, <1>7 DEF LastOf
  <2>3. LastOf(ids) \in events /\ LastOf(ids) > n /\ LastOf(ids) \in Nat
    <3>1. ids[len] \in events /\ ids[len] > n
      BY <1>5, <2>1
    <3>2. ids[len] \in Nat
      BY <1>8, <3>1
    <3> QED
      BY <2>2, <3>1, <3>2
  <2>4. ASSUME NEW k \in events, k > n, k <= LastOf(ids)
        PROVE  Has(ids, k)
    <3>1. k \in Waiting(n) /\ k \in Nat
      BY <1>8, <2>4 DEF Waiting
    <3>2. CASE k = LastOf(ids)
      BY <1>4, <2>1, <2>2, <3>2 DEF Has
    <3>3. CASE k < ids[len]
      BY <1>4, <2>1, <3>1, <3>3 DEF Lists
    <3> QED
      BY <2>2, <2>3, <2>4, <3>1, <3>2, <3>3
  <2> QED
    BY <2>1, <2>2, <2>3, <2>4
<1> QED
  BY <1>4, <1>5, <1>6, <1>7

\* The last id that was read is one, or 0.
LEMMA LastOfType ==
  ASSUME NEW s \in Ids
  PROVE  LastOf(s) \in 0..MaxEvents /\ LastOf(s) \in Nat
<1>1. Len(s) \in Nat
  BY LenProperties DEF Ids
<1>2. CASE s = <<>>
  BY <1>2, ConstantsAssumption DEF LastOf
<1>3. CASE s # <<>>
  <2>1. Len(s) \in 1..Len(s)
    BY <1>1, <1>3, EmptySeq DEF Ids
  <2>2. s[Len(s)] \in Id
    BY <2>1, ElementOfSeq DEF Ids
  <2> QED
    BY <1>3, <2>2 DEF LastOf, Id
<1> QED
  BY <1>2, <1>3

\* What a client has read after it has read ids as well.
LEMMA ReadMore ==
  ASSUME NEW s \in Ids, NEW ids \in Ids
  PROVE  /\ s \o ids \in Ids
         /\ LastOf(s \o ids) = IF ids = <<>> THEN LastOf(s) ELSE LastOf(ids)
         /\ \A k : Has(s \o ids, k) <=> Has(s, k) \/ Has(ids, k)
<1>1. /\ Len(s) \in Nat /\ Len(ids) \in Nat
      /\ DOMAIN s = 1..Len(s) /\ DOMAIN ids = 1..Len(ids)
  BY LenProperties DEF Ids
<1>2. /\ s \o ids \in Ids
      /\ Len(s \o ids) = Len(s) + Len(ids)
      /\ \A i \in 1..Len(s) + Len(ids) :
           (s \o ids)[i] = IF i <= Len(s) THEN s[i] ELSE ids[i - Len(s)]
  BY ConcatProperties DEF Ids
<1>3. DOMAIN (s \o ids) = 1..Len(s) + Len(ids)
  BY <1>2, LenProperties DEF Ids
<1>4. LastOf(s \o ids) = IF ids = <<>> THEN LastOf(s) ELSE LastOf(ids)
  <2>1. CASE ids = <<>>
    BY <2>1, ConcatEmptySeq DEF Ids
  <2>2. CASE ids # <<>>
    <3>1. Len(ids) > 0 /\ s \o ids # <<>>
      BY <1>1, <2>2, EmptySeq, ConcatEqualIffEmpty DEF Ids
    <3> QED
      BY <1>1, <1>2, <2>2, <3>1 DEF LastOf
  <2> QED
    BY <2>1, <2>2
<1>5. ASSUME NEW k
      PROVE  Has(s \o ids, k) <=> Has(s, k) \/ Has(ids, k)
  <2>1. ASSUME Has(s \o ids, k)
        PROVE  Has(s, k) \/ Has(ids, k)
    <3>1. PICK i \in 1..Len(s) + Len(ids) : (s \o ids)[i] = k
      BY <1>3, <2>1 DEF Has
    <3>2. CASE i <= Len(s)
      BY <1>1, <1>2, <3>1, <3>2 DEF Has
    <3>3. CASE i > Len(s)
      <4>1. i - Len(s) \in 1..Len(ids) /\ ids[i - Len(s)] = k
        BY <1>1, <1>2, <3>1, <3>3
      <4> QED
        BY <1>1, <4>1 DEF Has
    <3> QED
      BY <1>1, <3>1, <3>2, <3>3
  <2>2. ASSUME Has(s, k)
        PROVE  Has(s \o ids, k)
    <3>1. PICK i \in 1..Len(s) : s[i] = k
      BY <1>1, <2>2 DEF Has
    <3>2. i \in 1..Len(s) + Len(ids) /\ (s \o ids)[i] = k
      BY <1>1, <1>2, <3>1
    <3> QED
      BY <1>3, <3>2 DEF Has
  <2>3. ASSUME Has(ids, k)
        PROVE  Has(s \o ids, k)
    <3>1. PICK i \in 1..Len(ids) : ids[i] = k
      BY <1>1, <2>3 DEF Has
    <3>2. Len(s) + i \in 1..Len(s) + Len(ids) /\ (s \o ids)[Len(s) + i] = k
      BY <1>1, <1>2, <3>1
    <3> QED
      BY <1>3, <3>2 DEF Has
  <2> QED
    BY <2>1, <2>2, <2>3
<1> QED
  BY <1>2, <1>4, <1>5

-----------------------------------------------------------------------------
(* Rows of the session *)

\* An upsert never lowers last_event_id.
LEMMA UpsertedType ==
  ASSUME session \in RowType, NEW row \in RowType
  PROVE  /\ Upserted(row) \in RowType
         /\ session.last <= Upserted(row).last
         /\ row.last <= Upserted(row).last
  BY ConstantsAssumption DEF Upserted, Larger, RowType

LEMMA TouchEffect ==
  ASSUME session \in RowType, NEW row \in RowType, Touch(row)
  PROVE  session' \in RowType /\ session.last <= session'.last
<1>1. Touched(row) \in RowType
  BY ConstantsAssumption DEF Touched, Fresh, RowType
<1>2. CASE row.status = "expired"
  BY <1>2, ConstantsAssumption DEF Touch, RowType
<1>3. CASE row.status # "expired"
  BY <1>1, <1>3, UpsertedType DEF Touch
<1> QED
  BY <1>2, <1>3

LEMMA FlooredType ==
  ASSUME session \in RowType, NEW row \in RowType, NEW n \in 0..MaxEvents,
         row.last <= session.last
  PROVE  /\ Floored(row, n) \in RowType
         /\ session.last <= Floored(row, n).last
         /\ n <= Floored(row, n).last
<1>1. CASE n > row.last
  <2> DEFINE raised == [row EXCEPT !.last = n, !.age = 0]
  <2>1. raised \in RowType /\ raised.last = n
    <3>1. ASSUME NEW age \in 0..2
          PROVE  LET new == [row EXCEPT !.last = n, !.age = age]
                 IN  new \in RowType /\ new.last = n
      BY DEF RowType
    <3> QED
      BY <3>1
  <2> HIDE DEF raised
  <2>2. Floored(row, n) = Upserted(raised)
    BY <1>1 DEF Floored, raised
  <2> QED
    BY <2>1, <2>2, UpsertedType
<1>2. CASE ~(n > row.last)
  <2>1. n \in Nat /\ row.last \in Nat /\ session.last \in Nat
    BY ConstantsAssumption DEF RowType
  <2> QED
    BY <1>2, <2>1 DEF Floored
<1> QED
  BY <1>1, <1>2

-----------------------------------------------------------------------------
(* Types and numbers *)

\* The row a stream goes to the floor with is no newer than the session's.
FloorHeld ==
  \A h \in Stream : At(h, "floor") => streams[h].row.last <= session.last

TInv == TypeOK /\ FloorHeld /\ EventsBelowLast

StreamType == [pc : Pc, row : RowType, client : Client, cursor : 0..MaxEvents]

LEMMA RowsTyped ==
  /\ NoSession \in RowType /\ Fresh \in RowType
  /\ NoStream \in StreamType /\ NoStream.pc = "idle"
<1>1. NoSession \in RowType /\ Fresh \in RowType
  BY ConstantsAssumption DEF NoSession, Fresh, RowType
<1>2. (CHOOSE c \in Client : TRUE) \in Client
  BY ConstantsAssumption
<1> QED
  BY <1>1, <1>2, ConstantsAssumption DEF NoStream, StreamType, Pc

LEMMA TInvInit == Init => TInv
<1> SUFFICES ASSUME Init
             PROVE  TInv
  OBVIOUS
<1>1. /\ streams \in [Stream -> StreamType]
      /\ \A h \in Stream : streams[h].pc = "idle"
  BY RowsTyped DEF Init
<1>2. received \in [Client -> Seq(1..MaxEvents)]
  BY EmptySeq DEF Init
<1>3. session \in RowType
  BY RowsTyped DEF Init
<1>4. TypeOK
  BY <1>1, <1>2, <1>3 DEF Init, TypeOK, StreamType
<1>5. FloorHeld
  BY <1>1 DEF FloorHeld, At
<1>6. EventsBelowLast
  BY DEF Init, EventsBelowLast
<1> QED
  BY <1>4, <1>5, <1>6 DEF TInv

\* What a step has to show of a session that is kept or raised.
LEMMA RaisedSession ==
  ASSUME TInv,
         session' \in RowType, session.last <= session'.last,
         UNCHANGED <<events, received>>,
         posts' \in [Post -> [pc : {"idle", "initialize", "touch"}, row : RowType]],
         streams' \in [Stream -> StreamType],
         \A h \in Stream :
           \/ streams'[h].pc \in {"idle", "touch"}
           \/ streams'[h].pc = "floor" /\ streams'[h].row.last <= session'.last
           \/ streams'[h].pc \notin {"idle", "touch", "floor"}
                /\ streams'[h].cursor <= session'.last
           \/ streams'[h] = streams[h],
         conn' \in [Client -> Stream \cup {None}],
         undisturbed' \in BOOLEAN
  PROVE  TInv'
<1>1. /\ session.last \in Nat /\ session'.last \in Nat
      /\ \A h \in Stream : streams[h].cursor \in Nat /\ streams[h].row.last \in Nat
  BY ConstantsAssumption DEF TInv, TypeOK, RowType
<1>2. /\ \A h \in Stream :
           streams[h].pc \notin {"idle", "touch", "floor"} => streams[h].cursor <= session.last
      /\ \A h \in Stream : streams[h].pc = "floor" => streams[h].row.last <= session.last
      /\ events \subseteq 1..MaxEvents
      /\ \A k \in events : k <= session.last
      /\ received \in [Client -> Seq(1..MaxEvents)]
  BY DEF TInv, TypeOK, FloorHeld, EventsBelowLast, At
<1>3. ASSUME NEW h \in Stream
      PROVE  /\ streams'[h].pc \notin {"idle", "touch", "floor"} => streams'[h].cursor <= session'.last
             /\ streams'[h].pc = "floor" => streams'[h].row.last <= session'.last
  BY <1>1, <1>2
<1>4. FloorHeld'
  BY <1>3 DEF FloorHeld, At
<1>5. EventsBelowLast'
  <2>1. events \subseteq Nat
    BY <1>2
  <2> QED
    BY <1>1, <1>2, <2>1 DEF EventsBelowLast
<1>6. TypeOK'
  BY <1>2, <1>3 DEF TypeOK, StreamType
<1> QED
  BY <1>4, <1>5, <1>6 DEF TInv

\* Where a stream goes: its record changes, the others' do not.
Moved(h, pc, row) == [streams[h] EXCEPT !.pc = pc, !.row = row]
Advanced(h, pc, cursor) == [streams[h] EXCEPT !.pc = pc, !.cursor = cursor]
Flushed(h, pc, cursor) == [streams[h] EXCEPT !.pc = pc, !.row = NoSession, !.cursor = cursor]

LEMMA StreamMoved ==
  ASSUME TInv, NEW h \in Stream, NEW pc \in Pc, NEW row \in RowType
  PROVE  /\ Moved(h, pc, row) \in StreamType
         /\ Moved(h, pc, row).pc = pc
         /\ Moved(h, pc, row).row = row
         /\ Moved(h, pc, row).client = streams[h].client
         /\ Moved(h, pc, row).cursor = streams[h].cursor
<1>1. streams[h] \in StreamType
  BY DEF TInv, TypeOK, StreamType
<1> QED
  BY <1>1 DEF StreamType, Moved

LEMMA StreamAdvanced ==
  ASSUME TInv, NEW h \in Stream, NEW pc \in Pc, NEW cursor \in 0..MaxEvents
  PROVE  /\ Advanced(h, pc, cursor) \in StreamType
         /\ Advanced(h, pc, cursor).pc = pc
         /\ Advanced(h, pc, cursor).client = streams[h].client
         /\ Advanced(h, pc, cursor).cursor = cursor
<1>1. streams[h] \in StreamType
  BY DEF TInv, TypeOK, StreamType
<1> QED
  BY <1>1 DEF StreamType, Advanced

LEMMA StreamFlushed ==
  ASSUME TInv, NEW h \in Stream, NEW pc \in Pc, NEW cursor \in 0..MaxEvents
  PROVE  /\ Flushed(h, pc, cursor) \in StreamType
         /\ Flushed(h, pc, cursor).pc = pc
         /\ Flushed(h, pc, cursor).client = streams[h].client
         /\ Flushed(h, pc, cursor).cursor = cursor
<1>1. streams[h] \in StreamType /\ NoSession \in RowType
  BY RowsTyped DEF TInv, TypeOK, StreamType
<1> QED
  BY <1>1 DEF StreamType, Flushed

LEMMA StreamUpdate ==
  ASSUME TInv, NEW h \in Stream, NEW new \in StreamType,
         streams' = [streams EXCEPT ![h] = new]
  PROVE  /\ streams' \in [Stream -> StreamType]
         /\ streams'[h] = new
         /\ \A g \in Stream \ {h} : streams'[g] = streams[g]
  BY DEF TInv, TypeOK, StreamType

LEMMA TInvTypes ==
  ASSUME TInv
  PROVE  /\ session \in RowType
         /\ session.last \in 0..MaxEvents /\ session.last \in Nat
         /\ session.last <= session.last
         /\ events \subseteq Id
         /\ \A k \in events : k \in Nat /\ k <= session.last
         /\ posts \in [Post -> [pc : {"idle", "initialize", "touch"}, row : RowType]]
         /\ streams \in [Stream -> StreamType]
         /\ \A h \in Stream : /\ streams[h] \in StreamType
                              /\ streams[h].pc \in Pc
                              /\ streams[h].row \in RowType
                              /\ streams[h].client \in Client
                              /\ streams[h].cursor \in 0..MaxEvents
                              /\ streams[h].cursor \in Nat
                              /\ streams[h].pc \notin {"idle", "touch", "floor"}
                                   => streams[h].cursor <= session.last
         /\ conn \in [Client -> Stream \cup {None}]
         /\ received \in [Client -> Ids]
         /\ undisturbed \in BOOLEAN
<1>1. TypeOK /\ EventsBelowLast
  BY DEF TInv
<1>2. streams \in [Stream -> StreamType]
  BY <1>1 DEF TypeOK, StreamType
<1>3. events \subseteq Id /\ events \subseteq Nat
  BY <1>1 DEF TypeOK, Id
<1>4. session.last \in 0..MaxEvents /\ session.last \in Nat
  BY <1>1, ConstantsAssumption DEF TypeOK, RowType
<1>5. session.last <= session.last
  BY <1>4
<1>6. \A h \in Stream : /\ streams[h] \in StreamType
                        /\ streams[h].pc \in Pc
                        /\ streams[h].row \in RowType
                        /\ streams[h].client \in Client
                        /\ streams[h].cursor \in 0..MaxEvents
                        /\ streams[h].cursor \in Nat
  BY <1>2, ConstantsAssumption DEF StreamType
<1> QED
  BY <1>1, <1>2, <1>3, <1>4, <1>5, <1>6 DEF TypeOK, EventsBelowLast, Id, Ids

\* A stream that returns.
LEMMA HangupEffect ==
  ASSUME TInv, NEW h \in Stream, Hangup(h)
  PROVE  /\ streams' \in [Stream -> StreamType]
         /\ streams'[h].pc = "idle"
         /\ \A g \in Stream \ {h} : streams'[g] = streams[g]
         /\ conn' \in [Client -> Stream \cup {None}]
<1>1. /\ streams' \in [Stream -> StreamType]
      /\ streams'[h] = NoStream
      /\ \A g \in Stream \ {h} : streams'[g] = streams[g]
  BY StreamUpdate, RowsTyped DEF Hangup
<1>2. conn' \in [Client -> Stream \cup {None}]
  BY TInvTypes DEF Hangup
<1> QED
  BY <1>1, <1>2, RowsTyped

\* Time and requests; a step never lowers the count.
LEMMA TInvRequests ==
  ASSUME TInv,
         \/ TimePasses
         \/ \E p \in Post : PostRead(p) \/ PostInitialize(p) \/ PostTouch(p)
         \/ \E c \in Client : Disconnect(c)
  PROVE  TInv'
<1> DEFINE Kept == UNCHANGED <<events, received, streams, undisturbed>>
<1>1. ASSUME Kept, session' \in RowType, session.last <= session'.last,
             posts' \in [Post -> [pc : {"idle", "initialize", "touch"}, row : RowType]],
             conn' \in [Client -> Stream \cup {None}]
      PROVE  TInv'
  BY <1>1, TInvTypes, RaisedSession
<1>2. CASE TimePasses
  <2>1. session' \in RowType /\ session'.last = session.last
    BY <1>2, TInvTypes DEF TimePasses, RowType
  <2> QED
    BY <1>1, <1>2, <2>1, TInvTypes DEF TimePasses
<1>3. ASSUME NEW p \in Post, PostRead(p)
      PROVE  TInv'
  <2>1. posts' \in [Post -> [pc : {"idle", "initialize", "touch"}, row : RowType]]
    BY <1>3, TInvTypes DEF PostRead
  <2> QED
    BY <1>1, <1>3, <2>1, TInvTypes DEF PostRead
<1>4. ASSUME NEW p \in Post, PostReturns(p)
      PROVE  /\ posts' \in [Post -> [pc : {"idle", "initialize", "touch"}, row : RowType]]
             /\ Kept /\ UNCHANGED conn
  BY <1>4, TInvTypes, RowsTyped DEF PostReturns
<1>5. ASSUME NEW p \in Post, PostInitialize(p)
      PROVE  TInv'
  <2>1. [Fresh EXCEPT !.last = posts[p].row.last] \in RowType
    <3>1. posts[p].row.last \in 0..MaxEvents
      BY TInvTypes DEF RowType
    <3> QED
      BY <3>1, RowsTyped DEF RowType
  <2>2. session' \in RowType /\ session.last <= session'.last
    BY <1>5, <2>1, TInvTypes, UpsertedType DEF PostInitialize
  <2>3. PostReturns(p)
    BY <1>5 DEF PostInitialize
  <2> QED
    BY <1>1, <1>4, <2>2, <2>3, TInvTypes
<1>6. ASSUME NEW p \in Post, PostTouch(p)
      PROVE  TInv'
  <2>1. posts[p].row \in RowType
    BY TInvTypes
  <2>2. session' \in RowType /\ session.last <= session'.last
    BY <1>6, <2>1, TInvTypes, TouchEffect DEF PostTouch
  <2>3. PostReturns(p)
    BY <1>6 DEF PostTouch
  <2> QED
    BY <1>1, <1>4, <2>2, <2>3, TInvTypes
<1>7. ASSUME NEW c \in Client, Disconnect(c)
      PROVE  TInv'
  <2>1. conn' \in [Client -> Stream \cup {None}]
    BY <1>7, TInvTypes DEF Disconnect
  <2> QED
    BY <1>1, <1>7, <2>1, TInvTypes DEF Disconnect
<1> QED
  BY <1>2, <1>3, <1>5, <1>6, <1>7

\* The steps of a stream that neither store nor write an event.
LEMMA TInvTouches ==
  ASSUME TInv, NEW h \in Stream,
         \/ \E c \in Client : Open(h, c)
         \/ StreamTouch(h) \/ StreamFloor(h)
         \/ HeartbeatRead(h) \/ HeartbeatTouch(h) \/ StreamEnds(h)
  PROVE  TInv'
<1> DEFINE Kept == UNCHANGED <<events, received, posts>>
           Safe(s) == \/ s.pc \in {"idle", "touch"}
                      \/ s.pc = "floor" /\ s.row.last <= session'.last
                      \/ s.pc \notin {"idle", "touch", "floor"} /\ s.cursor <= session'.last
<1>1. ASSUME Kept, session' \in RowType, session.last <= session'.last,
             streams' \in [Stream -> StreamType], Safe(streams'[h]),
             \A g \in Stream \ {h} : streams'[g] = streams[g],
             conn' \in [Client -> Stream \cup {None}], undisturbed' \in BOOLEAN
      PROVE  TInv'
  BY <1>1, TInvTypes, RaisedSession
<1>2. ASSUME NEW c \in Client, Open(h, c)
      PROVE  TInv'
  <2> DEFINE new == [NoStream EXCEPT !.pc = "touch", !.row = session,
                       !.client = c, !.cursor = LastOf(received[c])]
  <2>1. LastOf(received[c]) \in 0..MaxEvents
    BY TInvTypes, LastOfType
  <2>2. new \in StreamType /\ new.pc = "touch"
    BY <2>1, TInvTypes, RowsTyped DEF StreamType, Pc
  <2>3. streams' = [streams EXCEPT ![h] = new] /\ Kept /\ UNCHANGED session
    BY <1>2 DEF Open
  <2> HIDE DEF new
  <2>4. conn' \in [Client -> Stream \cup {None}] /\ undisturbed' \in BOOLEAN
    BY <1>2, TInvTypes DEF Open
  <2> QED
    BY <1>1, <2>2, <2>3, <2>4, StreamUpdate, TInvTypes
<1>3. ASSUME StreamTouch(h)
      PROVE  TInv'
  <2>1. session' \in RowType /\ session.last <= session'.last
    BY <1>3, TInvTypes, TouchEffect DEF StreamTouch
  <2>2. Kept /\ undisturbed' \in BOOLEAN
    BY <1>3, TInvTypes DEF StreamTouch
  <2>3. CASE Hangup(h)
    BY <1>1, <2>1, <2>2, <2>3, HangupEffect
  <2>4. CASE streams' = [streams EXCEPT ![h] = [@ EXCEPT !.pc = "floor", !.row = session']]
               /\ UNCHANGED conn
    <3> DEFINE new == Moved(h, "floor", session')
    <3>1. new \in StreamType /\ new.pc = "floor" /\ new.row = session'
      BY <2>1, StreamMoved, TInvTypes DEF Pc
    <3>2. streams' = [streams EXCEPT ![h] = new]
      BY <2>4 DEF Moved
    <3> HIDE DEF new
    <3>3. session'.last <= session'.last
      BY <2>1, ConstantsAssumption DEF RowType
    <3>4. conn' \in [Client -> Stream \cup {None}]
      BY <2>4, TInvTypes
    <3>5. /\ streams' \in [Stream -> StreamType] /\ streams'[h] = new
          /\ \A g \in Stream \ {h} : streams'[g] = streams[g]
      BY <3>1, <3>2, StreamUpdate
    <3> QED
      BY <1>1, <2>1, <2>2, <3>1, <3>3, <3>4, <3>5
  <2> QED
    BY <1>3, <2>3, <2>4 DEF StreamTouch
<1>4. ASSUME StreamFloor(h)
      PROVE  TInv'
  <2> DEFINE new == Moved(h, "replay", NoSession)
  <2>1. streams[h].row.last <= session.last
    BY <1>4 DEF StreamFloor, TInv, FloorHeld
  <2>2. /\ session' \in RowType
        /\ session.last <= session'.last
        /\ streams[h].cursor <= session'.last
    BY <1>4, <2>1, TInvTypes, FlooredType DEF StreamFloor
  <2>3. new \in StreamType /\ new.pc = "replay" /\ new.cursor = streams[h].cursor
    BY StreamMoved, RowsTyped, TInvTypes DEF Pc
  <2>4. streams' = [streams EXCEPT ![h] = new] /\ Kept /\ UNCHANGED <<conn, undisturbed>>
    BY <1>4 DEF StreamFloor, Moved
  <2> HIDE DEF new
  <2>5. /\ streams' \in [Stream -> StreamType] /\ streams'[h] = new
        /\ \A g \in Stream \ {h} : streams'[g] = streams[g]
    BY <2>3, <2>4, StreamUpdate
  <2> QED
    BY <1>1, <2>2, <2>3, <2>4, <2>5, TInvTypes
<1>5. ASSUME HeartbeatRead(h)
      PROVE  TInv'
  <2> DEFINE new == Moved(h, "heartbeat", session)
  <2>1. new \in StreamType /\ new.pc = "heartbeat" /\ new.cursor = streams[h].cursor
    BY StreamMoved, TInvTypes DEF Pc
  <2>2. /\ streams' = [streams EXCEPT ![h] = new] /\ Kept
        /\ UNCHANGED <<session, conn, undisturbed>>
    BY <1>5 DEF HeartbeatRead, Moved
  <2> HIDE DEF new
  <2>3. streams[h].cursor <= session.last
    BY <1>5, TInvTypes DEF HeartbeatRead, At
  <2>4. /\ streams' \in [Stream -> StreamType] /\ streams'[h] = new
        /\ \A g \in Stream \ {h} : streams'[g] = streams[g]
    BY <2>1, <2>2, StreamUpdate
  <2> QED
    BY <1>1, <2>1, <2>2, <2>3, <2>4, TInvTypes
<1>6. ASSUME HeartbeatTouch(h)
      PROVE  TInv'
  <2>1. session' \in RowType /\ session.last <= session'.last
    BY <1>6, TInvTypes, TouchEffect DEF HeartbeatTouch
  <2>2. Kept /\ undisturbed' \in BOOLEAN
    BY <1>6, TInvTypes DEF HeartbeatTouch
  <2>3. CASE Hangup(h)
    BY <1>1, <2>1, <2>2, <2>3, HangupEffect
  <2>4. CASE Goto(h, "flush") /\ UNCHANGED conn
    <3> DEFINE new == Moved(h, "flush", NoSession)
    <3>1. new \in StreamType /\ new.pc = "flush" /\ new.cursor = streams[h].cursor
      BY StreamMoved, RowsTyped, TInvTypes DEF Pc
    <3>2. streams' = [streams EXCEPT ![h] = new]
      BY <2>4 DEF Goto, Moved
    <3> HIDE DEF new
    <3>3. /\ streams' \in [Stream -> StreamType] /\ streams'[h] = new
          /\ \A g \in Stream \ {h} : streams'[g] = streams[g]
      BY <3>1, <3>2, StreamUpdate
    <3>4. streams[h].cursor <= session'.last
      <4>1. streams[h].cursor <= session.last
        BY <1>6, TInvTypes DEF HeartbeatTouch, At
      <4>2. session'.last \in Nat
        BY <2>1, ConstantsAssumption DEF RowType
      <4> QED
        BY <2>1, <4>1, <4>2, TInvTypes
    <3>5. conn' \in [Client -> Stream \cup {None}]
      BY <2>4, TInvTypes
    <3> QED
      BY <1>1, <2>1, <2>2, <3>1, <3>3, <3>4, <3>5
  <2> QED
    BY <1>6, <2>3, <2>4 DEF HeartbeatTouch
<1>7. ASSUME StreamEnds(h)
      PROVE  TInv'
  <2>1. Hangup(h) /\ Kept /\ UNCHANGED <<session, undisturbed>>
    BY <1>7 DEF StreamEnds
  <2> QED
    BY <1>1, <2>1, HangupEffect, TInvTypes
<1> QED
  BY <1>2, <1>3, <1>4, <1>5, <1>6, <1>7

\* What a write adds to what its client has read.
LEMMA WriteEffect ==
  ASSUME TInv, NEW h \in Stream, NEW ids \in Ids, Write(h, ids)
  PROVE  /\ received' \in [Client -> Ids]
         /\ conn[streams[h].client] = h =>
              received' = [received EXCEPT ![streams[h].client] = received[streams[h].client] \o ids]
         /\ conn[streams[h].client] # h => received' = received
         /\ streams[h].client \in Client
<1> DEFINE c == streams[h].client
<1>1. c \in Client /\ received \in [Client -> Ids]
  BY TInvTypes
<1>2. received[c] \o ids \in Ids
  BY <1>1, ReadMore
<1>3. received' = IF conn[c] = h THEN [received EXCEPT ![c] = received[c] \o ids] ELSE received
  BY DEF Write
<1> QED
  BY <1>1, <1>2, <1>3

\* What an append does.
LEMMA AppendEffect ==
  ASSUME TInv, NEW h \in Stream, AppendEvent(h)
  PROVE  LET id == session.last + 1
         IN  /\ id \in Id /\ id \in Nat /\ session.last < id /\ <<id>> \in Ids
             /\ session' \in RowType /\ session'.last = id
             /\ events' = events \cup {id}
             /\ streams' \in [Stream -> StreamType]
             /\ streams'[h].pc = "loop" /\ streams'[h].cursor = id
             /\ streams'[h].client = streams[h].client
             /\ \A g \in Stream \ {h} : streams'[g] = streams[g]
             /\ Write(h, <<id>>)
<1> DEFINE id == session.last + 1
<1>1. id \in Id /\ id \in Nat /\ id \in 0..MaxEvents /\ session.last < id
  BY TInvTypes, ConstantsAssumption DEF AppendEvent, Id
<1>2. <<id>> \in Ids
  BY <1>1 DEF Ids
<1>3. session' = [session EXCEPT !.last = id]
  BY DEF AppendEvent
<1>4. streams' = [streams EXCEPT ![h] = Advanced(h, "loop", id)]
  BY DEF AppendEvent, Advanced
<1>5. events' = events \cup {id} /\ Write(h, <<id>>)
  BY DEF AppendEvent
<1> HIDE DEF id
<1>6. session' \in RowType /\ session'.last = id
  BY <1>1, <1>3, TInvTypes DEF RowType
<1>7. "loop" \in Pc
  BY DEF Pc
<1>8. /\ Advanced(h, "loop", id) \in StreamType
      /\ Advanced(h, "loop", id).pc = "loop"
      /\ Advanced(h, "loop", id).client = streams[h].client
      /\ Advanced(h, "loop", id).cursor = id
  BY <1>1, <1>7, StreamAdvanced
<1>9. /\ streams' \in [Stream -> StreamType]
      /\ streams'[h] = Advanced(h, "loop", id)
      /\ \A g \in Stream \ {h} : streams'[g] = streams[g]
  BY <1>4, <1>8, StreamUpdate
<1> QED
  BY <1>1, <1>2, <1>5, <1>6, <1>8, <1>9 DEF id

LEMMA TInvAppend ==
  ASSUME TInv, NEW h \in Stream, StreamReady(h) \/ HeartbeatAppend(h)
  PROVE  TInv'
<1> DEFINE id == session.last + 1
<1>1. AppendEvent(h) /\ UNCHANGED <<posts, conn, undisturbed>>
  BY DEF StreamReady, HeartbeatAppend
<1>2. /\ id \in Id /\ id \in Nat /\ session.last < id /\ <<id>> \in Ids
      /\ session' \in RowType /\ session'.last = id
      /\ events' = events \cup {id}
      /\ streams' \in [Stream -> StreamType]
      /\ streams'[h].pc = "loop" /\ streams'[h].cursor = id
      /\ \A g \in Stream \ {h} : streams'[g] = streams[g]
      /\ Write(h, <<id>>)
  BY <1>1, AppendEffect
<1> HIDE DEF id
<1>3. received' \in [Client -> Ids]
  BY <1>2, WriteEffect
<1>4. \A g \in Stream : streams'[g].pc \notin {"idle", "touch", "floor"}
                          => streams'[g].cursor <= session'.last
  BY <1>2, TInvTypes
<1>5. TypeOK'
  <2>1. events' \subseteq 1..MaxEvents
    BY <1>2, TInvTypes DEF Id
  <2>2. received' \in [Client -> Seq(1..MaxEvents)]
    BY <1>3 DEF Ids, Id
  <2>3. streams' \in [Stream -> [pc : Pc, row : RowType, client : Client, cursor : 0..MaxEvents]]
    BY <1>2 DEF StreamType
  <2> QED
    BY <1>1, <1>2, <1>4, <2>1, <2>2, <2>3, TInvTypes DEF TypeOK
<1>6. FloorHeld'
  <2>1. \A g \in Stream \ {h} : At(g, "floor") => streams[g].row.last <= session.last
    BY DEF TInv, FloorHeld
  <2>2. \A g \in Stream \ {h} : streams[g].row.last \in Nat
    BY TInvTypes, ConstantsAssumption DEF RowType
  <2> QED
    BY <1>2, <2>1, <2>2, TInvTypes DEF FloorHeld, At
<1>7. EventsBelowLast'
  BY <1>2, TInvTypes DEF EventsBelowLast
<1> QED
  BY <1>5, <1>6, <1>7 DEF TInv

\* What a replay or a flush leaves alone, and that it brings no cursor past the
\* session.
LEMMA TInvWritten ==
  ASSUME TInv, NEW h \in Stream, NEW pc \in Pc \ {"idle", "touch", "floor"},
         UNCHANGED <<session, events, posts, conn>>, undisturbed' \in BOOLEAN,
         received' \in [Client -> Ids],
         streams' \in [Stream -> StreamType],
         streams'[h].pc = pc, streams'[h].cursor <= session.last,
         \A g \in Stream \ {h} : streams'[g] = streams[g]
  PROVE  TInv'
<1>1. \A g \in Stream : streams'[g].pc \notin {"idle", "touch", "floor"}
                          => streams'[g].cursor <= session'.last
  BY TInvTypes
<1>2. TypeOK'
  <2>1. received' \in [Client -> Seq(1..MaxEvents)]
    BY DEF Ids, Id
  <2>2. streams' \in [Stream -> [pc : Pc, row : RowType, client : Client, cursor : 0..MaxEvents]]
    BY DEF StreamType
  <2>3. events \subseteq 1..MaxEvents
    BY TInvTypes DEF Id
  <2> QED
    BY <1>1, <2>1, <2>2, <2>3, TInvTypes DEF TypeOK
<1>3. FloorHeld'
  BY DEF TInv, FloorHeld, At
<1>4. EventsBelowLast'
  BY TInvTypes DEF EventsBelowLast
<1> QED
  BY <1>2, <1>3, <1>4 DEF TInv

\* What a flush does.
LEMMA FlushEffect ==
  ASSUME TInv, NEW h \in Stream, NEW pc \in {"loop", "beat"}, Flush(h, pc)
  PROVE  \E ids \in Lists(streams[h].cursor), cursor \in 0..MaxEvents :
           /\ ids \in Ids
           /\ Write(h, ids)
           /\ cursor = IF ids = <<>> THEN streams[h].cursor ELSE LastOf(ids)
           /\ streams[h].cursor <= cursor
           /\ streams[h].cursor <= session.last => cursor <= session.last
           /\ streams' \in [Stream -> StreamType]
           /\ streams'[h].pc = pc /\ streams'[h].cursor = cursor
           /\ streams'[h].client = streams[h].client
           /\ \A g \in Stream \ {h} : streams'[g] = streams[g]
           /\ undisturbed' = (undisturbed /\ (pc = "beat" => ~CutShort(streams[h].cursor, ids)))
           /\ undisturbed' \in BOOLEAN
<1>1. PICK ids \in Lists(streams[h].cursor) :
        /\ Write(h, ids)
        /\ streams' = [streams EXCEPT ![h] = [@ EXCEPT
             !.pc = pc, !.row = NoSession,
             !.cursor = IF ids = <<>> THEN streams[h].cursor ELSE LastOf(ids)]]
        /\ undisturbed' = (undisturbed /\ (pc = "beat" => ~CutShort(streams[h].cursor, ids)))
  BY DEF Flush
<1> DEFINE cursor == IF ids = <<>> THEN streams[h].cursor ELSE LastOf(ids)
<1>2. streams' = [streams EXCEPT ![h] = Flushed(h, pc, cursor)]
  BY <1>1 DEF Flushed
<1>3. /\ ids \in Ids
      /\ ids # <<>> => LastOf(ids) \in events /\ LastOf(ids) > streams[h].cursor
  BY TInvTypes, ListsProperties
<1>4. /\ cursor \in 0..MaxEvents
      /\ streams[h].cursor <= cursor
      /\ streams[h].cursor <= session.last => cursor <= session.last
  <2>1. CASE ids = <<>>
    BY <2>1, TInvTypes
  <2>2. CASE ids # <<>>
    <3>1. LastOf(ids) \in Nat /\ LastOf(ids) <= session.last
      BY <1>3, <2>2, TInvTypes
    <3>2. LastOf(ids) \in 0..MaxEvents
      BY <3>1, TInvTypes, ConstantsAssumption
    <3> QED
      BY <1>3, <2>2, <3>1, <3>2, TInvTypes
  <2> QED
    BY <2>1, <2>2
<1>5. cursor = IF ids = <<>> THEN streams[h].cursor ELSE LastOf(ids)
  OBVIOUS
<1> HIDE DEF cursor
<1>6. pc \in Pc
  BY DEF Pc
<1>7. /\ Flushed(h, pc, cursor) \in StreamType
      /\ Flushed(h, pc, cursor).pc = pc
      /\ Flushed(h, pc, cursor).client = streams[h].client
      /\ Flushed(h, pc, cursor).cursor = cursor
  BY <1>4, <1>6, StreamFlushed
<1>8. /\ streams' \in [Stream -> StreamType]
      /\ streams'[h] = Flushed(h, pc, cursor)
      /\ \A g \in Stream \ {h} : streams'[g] = streams[g]
  BY <1>2, <1>7, StreamUpdate
<1>9. undisturbed' \in BOOLEAN
  BY <1>1, TInvTypes
<1>10. /\ streams'[h].pc = pc /\ streams'[h].cursor = cursor
       /\ streams'[h].client = streams[h].client
  BY <1>7, <1>8
<1> QED
  BY <1>1, <1>3, <1>4, <1>5, <1>8, <1>9, <1>10

\* What a replay does.
LEMMA ReplayEffect ==
  ASSUME TInv, NEW h \in Stream, StreamReplay(h)
  PROVE  \E ids \in Lists(streams[h].cursor) :
           /\ ids \in Ids
           /\ Write(h, ids)
           /\ streams' \in [Stream -> StreamType]
           /\ streams'[h].pc = "ready" /\ streams'[h].cursor = streams[h].cursor
           /\ streams'[h].client = streams[h].client
           /\ \A g \in Stream \ {h} : streams'[g] = streams[g]
           /\ undisturbed' = (undisturbed /\ ~CutShort(streams[h].cursor, ids))
           /\ undisturbed' \in BOOLEAN
<1>1. PICK ids \in Lists(streams[h].cursor) :
        /\ Write(h, ids)
        /\ undisturbed' = (undisturbed /\ ~CutShort(streams[h].cursor, ids))
  BY DEF StreamReplay, ReplayFrom
<1>2. streams' = [streams EXCEPT ![h] = Moved(h, "ready", NoSession)]
  BY DEF StreamReplay, Goto, Moved
<1>3. /\ Moved(h, "ready", NoSession) \in StreamType
      /\ Moved(h, "ready", NoSession).pc = "ready"
      /\ Moved(h, "ready", NoSession).client = streams[h].client
      /\ Moved(h, "ready", NoSession).cursor = streams[h].cursor
  BY StreamMoved, RowsTyped DEF Pc
<1>4. /\ streams' \in [Stream -> StreamType]
      /\ streams'[h] = Moved(h, "ready", NoSession)
      /\ \A g \in Stream \ {h} : streams'[g] = streams[g]
  BY <1>2, <1>3, StreamUpdate
<1>5. ids \in Ids
  BY TInvTypes, ListsProperties
<1>6. undisturbed' \in BOOLEAN
  BY <1>1, TInvTypes
<1> QED
  BY <1>1, <1>3, <1>4, <1>5, <1>6

LEMMA TInvReads ==
  ASSUME TInv, NEW h \in Stream,
         StreamReplay(h) \/ Fanout(h) \/ Notified(h) \/ HeartbeatFlush(h)
  PROVE  TInv'
<1>1. /\ UNCHANGED <<session, events, posts, conn>>
      /\ streams[h].pc \notin {"idle", "touch", "floor"}
      /\ \/ StreamReplay(h)
         \/ \E pc \in {"loop", "beat"} : Flush(h, pc)
  BY DEF StreamReplay, Fanout, Notified, HeartbeatFlush, Deliver, Polls, At
<1>2. streams[h].cursor <= session.last
  BY <1>1, TInvTypes
<1>3. CASE StreamReplay(h)
  <2>1. PICK ids \in Ids :
          /\ Write(h, ids)
          /\ streams' \in [Stream -> StreamType]
          /\ streams'[h].pc = "ready" /\ streams'[h].cursor = streams[h].cursor
          /\ \A g \in Stream \ {h} : streams'[g] = streams[g]
          /\ undisturbed' \in BOOLEAN
    BY <1>3, ReplayEffect
  <2>2. received' \in [Client -> Ids]
    BY <2>1, WriteEffect
  <2>3. "ready" \in Pc \ {"idle", "touch", "floor"}
    BY DEF Pc
  <2> QED
    BY <1>1, <1>2, <2>1, <2>2, <2>3, TInvWritten
<1>4. ASSUME NEW pc \in {"loop", "beat"}, Flush(h, pc)
      PROVE  TInv'
  <2>1. PICK ids \in Ids, cursor \in 0..MaxEvents :
          /\ Write(h, ids)
          /\ streams[h].cursor <= session.last => cursor <= session.last
          /\ streams' \in [Stream -> StreamType]
          /\ streams'[h].pc = pc /\ streams'[h].cursor = cursor
          /\ \A g \in Stream \ {h} : streams'[g] = streams[g]
          /\ undisturbed' \in BOOLEAN
    BY <1>4, FlushEffect
  <2>2. received' \in [Client -> Ids]
    BY <2>1, WriteEffect
  <2>3. pc \in Pc \ {"idle", "touch", "floor"}
    BY DEF Pc
  <2> QED
    BY <1>1, <1>2, <2>1, <2>2, <2>3, TInvWritten
<1> QED
  BY <1>1, <1>3, <1>4

LEMMA TInvCleanup ==
  ASSUME TInv, Cleanup
  PROVE  TInv'
<1>1. /\ session' = NoSession /\ events' = {}
      /\ UNCHANGED <<posts, streams, conn, received, undisturbed>>
      /\ \A h \in Stream : streams[h].pc = "idle"
  BY DEF Cleanup, AtRest, At
<1>2. TypeOK'
  <2>1. streams \in [Stream -> [pc : Pc, row : RowType, client : Client, cursor : 0..MaxEvents]]
    BY TInvTypes DEF StreamType
  <2>2. received \in [Client -> Seq(1..MaxEvents)]
    BY TInvTypes DEF Ids, Id
  <2> QED
    BY <1>1, <2>1, <2>2, TInvTypes, RowsTyped DEF TypeOK
<1>3. FloorHeld' /\ EventsBelowLast'
  BY <1>1 DEF FloorHeld, EventsBelowLast, At
<1> QED
  BY <1>2, <1>3 DEF TInv

LEMMA TInvNext == TInv /\ [Next]_vars => TInv'
<1> SUFFICES ASSUME TInv, [Next]_vars
             PROVE  TInv'
  OBVIOUS
<1>1. CASE Next
  BY <1>1, TInvRequests, TInvTouches, TInvAppend, TInvReads, TInvCleanup DEF Next, StreamStep
<1>2. CASE UNCHANGED vars
  BY <1>2 DEF vars, TInv, TypeOK, FloorHeld, EventsBelowLast, At
<1> QED
  BY <1>1, <1>2

LEMMA TInvAlways == Spec => []TInv
  BY TInvInit, TInvNext, PTL DEF Spec

\* Every variable has its type, and no stream that has passed the floor
\* (ensureSessionEventFloor) is ahead of its session, whatever requests write
\* back meanwhile.
THEOREM TypesHold == Spec => []TypeOK
<1>1. TInv => TypeOK
  BY DEF TInv
<1> QED
  BY <1>1, TInvAlways, PTL

\* No event has a number above last_event_id (the GREATEST of UpsertMCPSession):
\* no append uses a number again, however many touches of the session race.
THEOREM NumbersAreNotReused == Spec => []EventsBelowLast
<1>1. TInv => EventsBelowLast
  BY DEF TInv
<1> QED
  BY <1>1, TInvAlways, PTL

-----------------------------------------------------------------------------
(* What a stream knows of its client *)

\* The stream a client reads from serves that client; before its replay, and
\* between its first event and its end, it is where the client is.
Held(c) ==
  conn[c] # None =>
    LET s == streams[conn[c]]
    IN  /\ s.client = c
        /\ s.pc # "idle"
        /\ s.pc # "ready" => s.cursor = LastOf(received[c])
        /\ s.pc = "ready" => LastOf(received[c]) <= session.last

ConnHeld == \A c \in Client : Held(c)

LEMMA HeldKept ==
  ASSUME TInv, TInv', NEW c \in Client, Held(c),
         \/ conn'[c] = None
         \/ /\ conn'[c] = conn[c]
            /\ received'[c] = received[c]
            /\ session.last <= session'.last
            /\ conn[c] # None => streams'[conn[c]] = streams[conn[c]]
  PROVE  Held(c)'
<1>1. LastOf(received[c]) \in Nat
  BY TInvTypes, LastOfType
<1>2. session.last \in Nat /\ session'.last \in Nat
  BY ConstantsAssumption DEF TInv, TypeOK, RowType
<1>3. CASE conn'[c] = None
  BY <1>3 DEF Held
<1>4. CASE /\ conn[c] # None
           /\ conn'[c] = conn[c]
           /\ received'[c] = received[c]
           /\ session.last <= session'.last
           /\ streams'[conn[c]] = streams[conn[c]]
  <2> DEFINE s == streams[conn[c]]
             last == LastOf(received[c])
  <2>1. /\ s.client = c
        /\ s.pc # "idle"
        /\ s.pc # "ready" => s.cursor = last
        /\ s.pc = "ready" => last <= session.last
    BY <1>4 DEF Held
  <2>2. streams'[conn'[c]] = s /\ LastOf(received'[c]) = last
    BY <1>4
  <2> HIDE DEF s, last
  <2>3. s.pc = "ready" => last <= session'.last
    BY <1>1, <1>2, <1>4, <2>1 DEF last
  <2> QED
    BY <2>1, <2>2, <2>3 DEF Held
<1> QED
  BY <1>3, <1>4

\* Only the client of a stream can read from it.
LEMMA OneReader ==
  ASSUME TInv, ConnHeld, NEW c \in Client, NEW h \in Stream, conn[c] = h
  PROVE  streams[h].client = c /\ streams[h].pc # "idle" /\ h # None
  BY ConstantsAssumption DEF ConnHeld, Held

LEMMA ConnHeldInit == Init => ConnHeld
  BY DEF Init, ConnHeld, Held

LEMMA ConnHeldRequests ==
  ASSUME TInv, TInv', ConnHeld,
         \/ TimePasses
         \/ \E p \in Post : PostRead(p) \/ PostInitialize(p) \/ PostTouch(p)
         \/ \E c \in Client : Disconnect(c)
         \/ Cleanup
         \/ UNCHANGED vars
  PROVE  ConnHeld' /\ (Cleanup \/ session.last <= session'.last)
<1>1. ASSUME UNCHANGED <<received, streams>>, session.last <= session'.last,
             \A c \in Client : conn'[c] \in {conn[c], None}
      PROVE  ConnHeld'
  BY <1>1, HeldKept DEF ConnHeld
<1>2. CASE TimePasses
  <2>1. session.last <= session'.last
    BY <1>2, TInvTypes DEF TimePasses, RowType
  <2> QED
    BY <1>1, <1>2, <2>1 DEF TimePasses
<1>3. ASSUME NEW p \in Post, PostRead(p)
      PROVE  ConnHeld' /\ session.last <= session'.last
  BY <1>1, <1>3, TInvTypes DEF PostRead
<1>4. ASSUME NEW p \in Post, PostInitialize(p)
      PROVE  ConnHeld' /\ session.last <= session'.last
  <2>1. posts[p].row.last \in 0..MaxEvents
    BY TInvTypes DEF RowType
  <2>2. [Fresh EXCEPT !.last = posts[p].row.last] \in RowType
    BY <2>1, RowsTyped DEF RowType
  <2>3. session.last <= session'.last
    BY <1>4, <2>2, TInvTypes, UpsertedType DEF PostInitialize
  <2> QED
    BY <1>1, <1>4, <2>3 DEF PostInitialize, PostReturns
<1>5. ASSUME NEW p \in Post, PostTouch(p)
      PROVE  ConnHeld' /\ session.last <= session'.last
  <2>1. posts[p].row \in RowType
    BY TInvTypes
  <2>2. session.last <= session'.last
    BY <1>5, <2>1, TInvTypes, TouchEffect DEF PostTouch
  <2> QED
    BY <1>1, <1>5, <2>2 DEF PostTouch, PostReturns
<1>6. ASSUME NEW c \in Client, Disconnect(c)
      PROVE  ConnHeld' /\ session.last <= session'.last
  BY <1>1, <1>6, TInvTypes DEF Disconnect
<1>7. CASE Cleanup
  <2>1. \A c \in Client : conn[c] \in Stream \cup {None}
    BY TInvTypes
  <2>2. \A c \in Client : conn[c] = None
    BY <1>7, <2>1, OneReader DEF Cleanup, AtRest, At
  <2> QED
    BY <1>7, <2>2, HeldKept DEF Cleanup, ConnHeld
<1>8. CASE UNCHANGED vars
  BY <1>1, <1>8, TInvTypes DEF vars
<1> QED
  BY <1>2, <1>3, <1>4, <1>5, <1>6, <1>7, <1>8

LEMMA ConnHeldTouches ==
  ASSUME TInv, TInv', ConnHeld, NEW h \in Stream,
         \/ \E c \in Client : Open(h, c)
         \/ StreamTouch(h) \/ StreamFloor(h)
         \/ HeartbeatRead(h) \/ HeartbeatTouch(h) \/ StreamEnds(h)
  PROVE  ConnHeld' /\ session.last <= session'.last /\ UNCHANGED <<events, received>>
<1> DEFINE Kept == UNCHANGED <<events, received>>
\* The stream goes on to another step of the same part of its life.
<1>1. ASSUME NEW pc \in Pc \ {"idle", "ready"}, ~At(h, "ready"),
             NEW row \in RowType, streams' = [streams EXCEPT ![h] = Moved(h, pc, row)],
             UNCHANGED <<received, conn>>, session.last <= session'.last
      PROVE  ConnHeld'
  <2>1. /\ streams'[h].pc = pc
        /\ streams'[h].client = streams[h].client
        /\ streams'[h].cursor = streams[h].cursor
        /\ \A g \in Stream \ {h} : streams'[g] = streams[g]
    <3>1. /\ Moved(h, pc, row) \in StreamType
          /\ Moved(h, pc, row).pc = pc
          /\ Moved(h, pc, row).client = streams[h].client
          /\ Moved(h, pc, row).cursor = streams[h].cursor
      BY StreamMoved
    <3> QED
      BY <1>1, <3>1, StreamUpdate
  <2>2. ASSUME NEW c \in Client
        PROVE  Held(c)'
    <3>1. CASE conn[c] = h
      BY <1>1, <2>1, <3>1 DEF ConnHeld, Held, At
    <3>2. CASE conn[c] # h
      BY <1>1, <2>1, <3>2, TInvTypes, HeldKept DEF ConnHeld
    <3> QED
      BY <3>1, <3>2
  <2> QED
    BY <2>2 DEF ConnHeld
<1>2. ASSUME Hangup(h), UNCHANGED received, session.last <= session'.last
      PROVE  ConnHeld'
  <2>1. /\ \A g \in Stream \ {h} : streams'[g] = streams[g]
        /\ \A c \in Client : conn'[c] = IF conn[c] = h THEN None ELSE conn[c]
    BY <1>2, HangupEffect DEF Hangup
  <2> QED
    BY <1>2, <2>1, TInvTypes, HeldKept DEF ConnHeld
<1>3. ASSUME NEW c \in Client, Open(h, c)
      PROVE  ConnHeld' /\ session.last <= session'.last /\ Kept
  <2> DEFINE new == [NoStream EXCEPT !.pc = "touch", !.row = session,
                       !.client = c, !.cursor = LastOf(received[c])]
  <2>1. LastOf(received[c]) \in 0..MaxEvents
    BY TInvTypes, LastOfType
  <2>2. /\ new \in StreamType /\ new.pc = "touch"
        /\ new.client = c /\ new.cursor = LastOf(received[c])
    BY <2>1, TInvTypes, RowsTyped DEF StreamType, Pc
  <2>3. streams' = [streams EXCEPT ![h] = new] /\ Kept /\ UNCHANGED session
    BY <1>3 DEF Open
  <2> HIDE DEF new
  <2>4. streams'[h] = new /\ \A g \in Stream \ {h} : streams'[g] = streams[g]
    BY <2>2, <2>3, StreamUpdate
  <2>5. At(h, "idle") /\ conn' = [conn EXCEPT ![c] = h]
    BY <1>3 DEF Open
  <2>6. Held(c)'
    BY <2>2, <2>3, <2>4, <2>5, TInvTypes DEF Held
  <2>7. ASSUME NEW d \in Client \ {c}
        PROVE  Held(d)'
    <3>1. conn[d] # h
      BY <2>5, OneReader DEF At
    <3>2. conn'[d] = conn[d] /\ received'[d] = received[d]
      BY <2>3, <2>5, TInvTypes
    <3> QED
      BY <2>3, <2>4, <3>1, <3>2, TInvTypes, HeldKept DEF ConnHeld
  <2> QED
    BY <2>3, <2>6, <2>7, TInvTypes DEF ConnHeld
<1>4. ASSUME StreamTouch(h)
      PROVE  ConnHeld' /\ session.last <= session'.last /\ Kept
  <2>1. session' \in RowType /\ session.last <= session'.last /\ Kept
    BY <1>4, TInvTypes, TouchEffect DEF StreamTouch
  <2>2. CASE Hangup(h)
    BY <1>2, <2>1, <2>2
  <2>3. CASE streams' = [streams EXCEPT ![h] = [@ EXCEPT !.pc = "floor", !.row = session']]
               /\ UNCHANGED conn
    <3>1. streams' = [streams EXCEPT ![h] = Moved(h, "floor", session')]
      BY <2>3 DEF Moved
    <3>2. ~At(h, "ready") /\ "floor" \in Pc \ {"idle", "ready"}
      BY <1>4 DEF StreamTouch, At, Pc
    <3> QED
      BY <1>1, <2>1, <2>3, <3>1, <3>2
  <2> QED
    BY <1>4, <2>2, <2>3 DEF StreamTouch
<1>5. ASSUME StreamFloor(h)
      PROVE  ConnHeld' /\ session.last <= session'.last /\ Kept
  <2>1. streams[h].row.last <= session.last
    BY <1>5 DEF StreamFloor, TInv, FloorHeld
  <2>2. session.last <= session'.last
    BY <1>5, <2>1, TInvTypes, FlooredType DEF StreamFloor
  <2>3. streams' = [streams EXCEPT ![h] = Moved(h, "replay", NoSession)]
    BY <1>5 DEF StreamFloor, Moved
  <2>4. ~At(h, "ready") /\ "replay" \in Pc \ {"idle", "ready"} /\ Kept /\ UNCHANGED conn
    BY <1>5 DEF StreamFloor, At, Pc
  <2> QED
    BY <1>1, <2>2, <2>3, <2>4, RowsTyped
<1>6. ASSUME HeartbeatRead(h)
      PROVE  ConnHeld' /\ session.last <= session'.last /\ Kept
  <2>1. streams' = [streams EXCEPT ![h] = Moved(h, "heartbeat", session)]
    BY <1>6 DEF HeartbeatRead, Moved
  <2>2. /\ ~At(h, "ready") /\ "heartbeat" \in Pc \ {"idle", "ready"}
        /\ Kept /\ UNCHANGED <<conn, session>>
    BY <1>6 DEF HeartbeatRead, At, Pc
  <2> QED
    BY <1>1, <2>1, <2>2, TInvTypes
<1>7. ASSUME HeartbeatTouch(h)
      PROVE  ConnHeld' /\ session.last <= session'.last /\ Kept
  <2>1. session.last <= session'.last /\ Kept
    BY <1>7, TInvTypes, TouchEffect DEF HeartbeatTouch
  <2>2. CASE Hangup(h)
    BY <1>2, <2>1, <2>2
  <2>3. CASE Goto(h, "flush") /\ UNCHANGED conn
    <3>1. streams' = [streams EXCEPT ![h] = Moved(h, "flush", NoSession)]
      BY <2>3 DEF Goto, Moved
    <3>2. ~At(h, "ready") /\ "flush" \in Pc \ {"idle", "ready"}
      BY <1>7 DEF HeartbeatTouch, At, Pc
    <3> QED
      BY <1>1, <2>1, <2>3, <3>1, <3>2, RowsTyped
  <2> QED
    BY <1>7, <2>2, <2>3 DEF HeartbeatTouch
<1>8. ASSUME StreamEnds(h)
      PROVE  ConnHeld' /\ session.last <= session'.last /\ Kept
  BY <1>2, <1>8, TInvTypes DEF StreamEnds
<1> QED
  BY <1>3, <1>4, <1>5, <1>6, <1>7, <1>8

\* What a write does to what the clients know: the one that reads gets ids, and
\* is then where after says.
LEMMA ConnHeldWrite ==
  ASSUME TInv, TInv', ConnHeld, NEW h \in Stream, NEW ids \in Ids, Write(h, ids),
         UNCHANGED conn, session.last <= session'.last,
         streams'[h].pc # "idle",
         streams'[h].client = streams[h].client,
         \A g \in Stream \ {h} : streams'[g] = streams[g],
         conn[streams[h].client] = h =>
           LET last == IF ids = <<>> THEN LastOf(received[streams[h].client]) ELSE LastOf(ids)
           IN  /\ streams'[h].pc # "ready" => streams'[h].cursor = last
               /\ streams'[h].pc = "ready" => last <= session'.last
  PROVE  ConnHeld'
<1> SUFFICES ASSUME NEW d \in Client
             PROVE  Held(d)'
  BY DEF ConnHeld
<1> DEFINE c == streams[h].client
<1>1. c \in Client /\ received \in [Client -> Ids]
  BY TInvTypes
<1>2. CASE d = c /\ conn[c] = h
  <2>1. received' = [received EXCEPT ![c] = received[c] \o ids]
    BY <1>2, WriteEffect
  <2>2. received'[c] = received[c] \o ids
    BY <1>1, <2>1
  <2>3. LastOf(received'[c]) = IF ids = <<>> THEN LastOf(received[c]) ELSE LastOf(ids)
    BY <1>1, <2>2, ReadMore
  <2> QED
    BY <1>2, <2>3 DEF Held, c
<1>3. CASE ~(d = c /\ conn[c] = h)
  <2>1. conn[d] # h
    BY <1>3, OneReader
  <2>2. received'[d] = received[d]
    BY <1>1, <1>3, WriteEffect
  <2> QED
    BY <2>1, <2>2, TInvTypes, HeldKept DEF ConnHeld
<1> QED
  BY <1>2, <1>3

\* What the reader of a stream has read is not ahead of the session, once the
\* stream has passed the floor.
LEMMA ReaderBehind ==
  ASSUME TInv, ConnHeld, NEW h \in Stream, conn[streams[h].client] = h,
         streams[h].pc \notin {"idle", "touch", "floor"}
  PROVE  LastOf(received[streams[h].client]) <= session.last
<1> DEFINE c == streams[h].client
<1>1. c \in Client
  BY TInvTypes
<1>2. Held(c) /\ conn[c] # None
  BY <1>1, OneReader DEF ConnHeld
<1>3. streams[h].cursor <= session.last
  BY TInvTypes
<1> QED
  BY <1>2, <1>3 DEF Held

LEMMA ConnHeldAppend ==
  ASSUME TInv, TInv', ConnHeld, NEW h \in Stream, StreamReady(h) \/ HeartbeatAppend(h)
  PROVE  ConnHeld'
<1> DEFINE id == session.last + 1
<1>1. AppendEvent(h) /\ UNCHANGED conn
  BY DEF StreamReady, HeartbeatAppend
<1>2. /\ id \in Nat /\ session.last < id /\ <<id>> \in Ids
      /\ session'.last = id
      /\ streams'[h].pc = "loop" /\ streams'[h].cursor = id
      /\ streams'[h].client = streams[h].client
      /\ \A g \in Stream \ {h} : streams'[g] = streams[g]
      /\ Write(h, <<id>>)
  BY <1>1, AppendEffect
<1> HIDE DEF id
<1>3. <<id>> # <<>> /\ LastOf(<<id>>) = id
  BY DEF LastOf
<1>4. session.last <= session'.last
  BY <1>2, TInvTypes
<1> QED
  BY <1>1, <1>2, <1>3, <1>4, ConnHeldWrite

\* The ids a client reads come after what it has read, up to where it is then.
LEMMA ReadsFollow ==
  ASSUME TInv, ConnHeld, NEW h \in Stream,
         StreamReplay(h) \/ Fanout(h) \/ Notified(h) \/ HeartbeatFlush(h)
  PROVE  \E ids \in Lists(streams[h].cursor) :
           /\ ids \in Ids
           /\ Write(h, ids)
           /\ UNCHANGED <<session, events, posts, conn>>
           /\ streams'[h].pc # "idle"
           /\ streams'[h].client = streams[h].client
           /\ \A g \in Stream \ {h} : streams'[g] = streams[g]
           /\ streams'[h].pc # "ready" =>
                streams'[h].cursor = IF ids = <<>> THEN streams[h].cursor ELSE LastOf(ids)
           /\ conn[streams[h].client] = h =>
                streams[h].cursor = LastOf(received[streams[h].client])
<1>1. /\ UNCHANGED <<session, events, posts, conn>>
      /\ streams[h].pc \notin {"idle", "touch", "floor", "ready"}
      /\ \/ StreamReplay(h)
         \/ \E pc \in {"loop", "beat"} : Flush(h, pc)
  BY DEF StreamReplay, Fanout, Notified, HeartbeatFlush, Deliver, Polls, At
<1>2. ASSUME conn[streams[h].client] = h
      PROVE  streams[h].cursor = LastOf(received[streams[h].client])
  <2>1. streams[h].client \in Client
    BY TInvTypes
  <2>2. Held(streams[h].client) /\ h # None
    BY <1>2, <2>1, OneReader DEF ConnHeld
  <2> QED
    BY <1>1, <1>2, <2>2 DEF Held
<1>3. CASE StreamReplay(h)
  <2>1. PICK ids \in Lists(streams[h].cursor) :
          /\ ids \in Ids
          /\ Write(h, ids)
          /\ streams'[h].pc = "ready"
          /\ streams'[h].client = streams[h].client
          /\ \A g \in Stream \ {h} : streams'[g] = streams[g]
    BY <1>3, ReplayEffect
  <2> QED
    BY <1>1, <1>2, <2>1
<1>4. ASSUME NEW pc \in {"loop", "beat"}, Flush(h, pc)
      PROVE  \E ids \in Lists(streams[h].cursor) :
               /\ ids \in Ids
               /\ Write(h, ids)
               /\ streams'[h].pc \notin {"idle", "ready"}
               /\ streams'[h].client = streams[h].client
               /\ \A g \in Stream \ {h} : streams'[g] = streams[g]
               /\ streams'[h].cursor = IF ids = <<>> THEN streams[h].cursor ELSE LastOf(ids)
  BY <1>4, FlushEffect
<1> QED
  BY <1>1, <1>2, <1>3, <1>4

LEMMA ConnHeldReads ==
  ASSUME TInv, TInv', ConnHeld, NEW h \in Stream,
         StreamReplay(h) \/ Fanout(h) \/ Notified(h) \/ HeartbeatFlush(h)
  PROVE  ConnHeld'
<1>1. PICK ids \in Lists(streams[h].cursor) :
        /\ ids \in Ids
        /\ Write(h, ids)
        /\ UNCHANGED <<session, conn>>
        /\ streams'[h].pc # "idle"
        /\ streams'[h].client = streams[h].client
        /\ \A g \in Stream \ {h} : streams'[g] = streams[g]
        /\ streams'[h].pc # "ready" =>
             streams'[h].cursor = IF ids = <<>> THEN streams[h].cursor ELSE LastOf(ids)
        /\ conn[streams[h].client] = h =>
             streams[h].cursor = LastOf(received[streams[h].client])
  BY ReadsFollow
<1>2. streams[h].cursor <= session.last
  BY TInvTypes DEF StreamReplay, Fanout, Notified, HeartbeatFlush, Polls, At
<1>3. ids # <<>> => LastOf(ids) <= session.last
  BY TInvTypes, ListsProperties
<1>4. session.last <= session'.last /\ session'.last = session.last
  BY <1>1, TInvTypes
<1> QED
  BY <1>1, <1>2, <1>3, <1>4, ConnHeldWrite

LEMMA ConnHeldNext == TInv /\ TInv' /\ ConnHeld /\ [Next]_vars => ConnHeld'
  BY ConnHeldRequests, ConnHeldTouches, ConnHeldAppend, ConnHeldReads DEF Next, StreamStep

LEMMA ConnHeldAlways == Spec => []ConnHeld
  BY ConnHeldInit, ConnHeldNext, TInvAlways, PTL DEF Spec

-----------------------------------------------------------------------------
(* McpSessions implements EventStream *)

\* What was appended to a sequence is the rest of it.
LEMMA RestOfConcat ==
  ASSUME NEW s \in Ids, NEW ids \in Ids
  PROVE  SubSeq(s \o ids, Len(s) + 1, Len(s \o ids)) = ids
<1> DEFINE all == s \o ids
           rest == SubSeq(all, Len(s) + 1, Len(all))
<1>1. Len(s) \in Nat /\ Len(ids) \in Nat
  BY LenProperties DEF Ids
<1>2. /\ all \in Ids
      /\ Len(all) = Len(s) + Len(ids)
      /\ \A i \in 1..Len(s) + Len(ids) :
           all[i] = IF i <= Len(s) THEN s[i] ELSE ids[i - Len(s)]
  BY ConcatProperties DEF Ids
<1> HIDE DEF all
<1>3. \A i \in Len(s) + 1..Len(all) : all[i] \in Id
  <2> SUFFICES ASSUME NEW i \in Len(s) + 1..Len(all)
               PROVE  all[i] \in Id
    OBVIOUS
  <2>1. i \in 1..Len(all)
    BY <1>1, <1>2
  <2> QED
    BY <1>2, <2>1, ElementOfSeq DEF Ids
<1>4. Len(s) + 1 \in Int /\ Len(all) \in Int
  BY <1>1, <1>2
<1>5. /\ rest \in Seq(Id)
      /\ Len(rest) = IF Len(s) + 1 <= Len(all) THEN Len(all) - (Len(s) + 1) + 1 ELSE 0
      /\ \A i \in 1..Len(all) - (Len(s) + 1) + 1 : rest[i] = all[Len(s) + 1 + i - 1]
  BY <1>3, <1>4, SubSeqProperties
<1> HIDE DEF rest
<1>6. Len(rest) = Len(ids)
  BY <1>1, <1>2, <1>5
<1>7. ASSUME NEW i \in 1..Len(rest)
      PROVE  rest[i] = ids[i]
  <2>1. rest[i] = all[Len(s) + i]
    BY <1>1, <1>2, <1>5, <1>6, <1>7
  <2>2. Len(s) + i \in 1..Len(s) + Len(ids) /\ ~(Len(s) + i <= Len(s)) /\ Len(s) + i - Len(s) = i
    BY <1>1, <1>6, <1>7
  <2> QED
    BY <1>2, <2>1, <2>2
<1>8. rest = ids
  BY <1>5, <1>6, <1>7, SeqEqual DEF Ids
<1> QED
  BY <1>8 DEF rest, all

\* An append is a Store.
LEMMA AppendIsStore ==
  ASSUME TInv, ConnHeld, NEW h \in Stream, StreamReady(h) \/ HeartbeatAppend(h)
  PROVE  Promise!Store
<1> DEFINE id == session.last + 1
           c == streams[h].client
<1>1. AppendEvent(h) /\ streams[h].pc \in {"ready", "beat"}
  BY DEF StreamReady, HeartbeatAppend, At
<1>2. /\ id \in Id /\ id \in Nat /\ session.last < id /\ <<id>> \in Ids
      /\ session'.last = id
      /\ events' = events \cup {id}
      /\ Write(h, <<id>>)
  BY <1>1, AppendEffect
<1>3. c \in Client /\ received[c] \in Ids /\ LastOf(received[c]) \in Nat
  BY TInvTypes, LastOfType
<1>4. CASE conn[c] # h
  <2>1. received' = received
    BY <1>2, <1>4, WriteEffect
  <2> QED
    BY <1>2, <1>3, <2>1 DEF Promise!Store, Promise!Append1
<1>5. CASE conn[c] = h
  <2>1. received' = [received EXCEPT ![c] = received[c] \o <<id>>]
    BY <1>2, <1>5, WriteEffect
  <2>2. received[c] \o <<id>> = Append(received[c], id)
    BY <1>2, <1>3, AppendIsConcat DEF Ids
  <2>3. received' = [received EXCEPT ![c] = Append(@, id)]
    BY <2>1, <2>2
  <2>4. LastOf(received[c]) <= session.last
    BY <1>1, <1>5, ReaderBehind
  <2>5. id > LastOf(received[c])
    BY <1>2, <1>3, <2>4, TInvTypes
  <2>6. Promise!LastOf(received[c]) = LastOf(received[c])
    BY DEF LastOf, Promise!LastOf
  <2> QED
    BY <1>2, <1>3, <2>3, <2>5, <2>6 DEF Promise!Store, Promise!Append1
<1> QED
  BY <1>4, <1>5

\* A replay, a flush or a fan-out is a Read, or nobody reads.
LEMMA ListIsRead ==
  ASSUME TInv, ConnHeld, NEW h \in Stream,
         StreamReplay(h) \/ Fanout(h) \/ Notified(h) \/ HeartbeatFlush(h)
  PROVE  (\E c \in Client : Promise!Read(c)) \/ UNCHANGED <<events, session, received>>
<1> DEFINE c == streams[h].client
<1>1. PICK ids \in Lists(streams[h].cursor) :
        /\ ids \in Ids
        /\ Write(h, ids)
        /\ UNCHANGED <<session, events>>
        /\ conn[c] = h => streams[h].cursor = LastOf(received[c])
  BY ReadsFollow
<1>2. c \in Client /\ received \in [Client -> Ids] /\ received[c] \in Ids
  BY TInvTypes
<1>3. CASE conn[c] # h
  BY <1>1, <1>3, WriteEffect
<1>4. CASE conn[c] = h /\ ids = <<>>
  <2>1. received' = [received EXCEPT ![c] = received[c] \o <<>>]
    BY <1>1, <1>4, WriteEffect
  <2>2. received[c] \o <<>> = received[c]
    BY <1>2, ConcatEmptySeq DEF Ids
  <2> QED
    BY <1>1, <1>2, <2>1, <2>2
<1>5. CASE conn[c] = h /\ ids # <<>>
  <2>1. received' = [received EXCEPT ![c] = received[c] \o ids]
    BY <1>1, <1>5, WriteEffect
  <2>2. received'[c] = received[c] \o ids
    BY <1>2, <2>1
  <2>3. SubSeq(received'[c], Len(received[c]) + 1, Len(received'[c])) = ids
    <3> DEFINE s == received[c]
    <3>1. s \in Ids
      BY <1>2
    <3> HIDE DEF s
    <3>2. SubSeq(s \o ids, Len(s) + 1, Len(s \o ids)) = ids
      BY <1>1, <3>1, RestOfConcat
    <3> QED
      BY <2>2, <3>2 DEF s
  <2>4. Promise!LastOf(received[c]) = streams[h].cursor
    BY <1>1, <1>5 DEF LastOf, Promise!LastOf
  <2>5. /\ DOMAIN ids = 1..Len(ids) /\ Len(ids) \in Nat
        /\ \A i \in 1..Len(ids) : ids[i] \in events /\ ids[i] > streams[h].cursor
        /\ \A i, j \in 1..Len(ids) : i < j => ids[i] < ids[j]
    BY <1>1, TInvTypes, ListsProperties, LenProperties DEF Ids
  <2>6. Promise!After(streams[h].cursor, ids, events)
    <3> SUFFICES ASSUME NEW i \in 1..Len(ids), i # 1
                 PROVE  ids[i] > ids[i - 1]
      BY <2>5 DEF Promise!After
    <3>1. i - 1 \in 1..Len(ids) /\ i - 1 < i
      BY <2>5
    <3>2. ids[i] \in Nat /\ ids[i - 1] \in Nat
      BY <2>5, <3>1, TInvTypes
    <3> QED
      BY <2>5, <3>1, <3>2
  <2>7. Promise!Read(c)
    BY <1>1, <1>5, <2>1, <2>3, <2>4, <2>6 DEF Promise!Read
  <2> QED
    BY <1>2, <2>7
<1> QED
  BY <1>3, <1>4, <1>5

LEMMA StepsRefine ==
  ASSUME TInv, TInv', ConnHeld, [Next]_vars
  PROVE  [Promise!Next]_(Promise!vars)
<1>1. session.last \in Nat /\ session'.last \in Nat
  BY TInvTypes, ConstantsAssumption DEF TInv, TypeOK, RowType
<1>2. CASE Cleanup
  <2>1. Promise!Forget
    BY <1>2 DEF Cleanup, NoSession, Promise!Forget
  <2> QED
    BY <2>1 DEF Promise!Next
<1>3. ASSUME session.last <= session'.last, UNCHANGED <<events, received>>
      PROVE  [Promise!Next]_(Promise!vars)
  BY <1>1, <1>3 DEF Promise!Next, Promise!Raise, Promise!vars
<1>4. CASE \/ TimePasses
           \/ \E p \in Post : PostRead(p) \/ PostInitialize(p) \/ PostTouch(p)
           \/ \E c \in Client : Disconnect(c)
           \/ UNCHANGED vars
  <2>1. UNCHANGED <<events, received>>
    BY <1>4 DEF TimePasses, PostRead, PostInitialize, PostTouch, PostReturns, Disconnect, vars
  <2>2. session.last <= session'.last \/ Cleanup
    BY <1>4, ConnHeldRequests
  <2> QED
    BY <1>2, <1>3, <2>1, <2>2
<1>5. ASSUME NEW h \in Stream,
             \/ \E c \in Client : Open(h, c)
             \/ StreamTouch(h) \/ StreamFloor(h)
             \/ HeartbeatRead(h) \/ HeartbeatTouch(h) \/ StreamEnds(h)
      PROVE  [Promise!Next]_(Promise!vars)
  BY <1>3, <1>5, ConnHeldTouches
<1>6. ASSUME NEW h \in Stream, StreamReady(h) \/ HeartbeatAppend(h)
      PROVE  [Promise!Next]_(Promise!vars)
  BY <1>6, AppendIsStore DEF Promise!Next
<1>7. ASSUME NEW h \in Stream,
             StreamReplay(h) \/ Fanout(h) \/ Notified(h) \/ HeartbeatFlush(h)
      PROVE  [Promise!Next]_(Promise!vars)
  BY <1>7, ListIsRead DEF Promise!Next, Promise!vars
<1> QED
  BY <1>2, <1>4, <1>5, <1>6, <1>7 DEF Next, StreamStep

\* Clients see what EventStream promises: numbers go upwards over all
\* reconnections, on whatever gateway, also to a session that was deleted
\* meanwhile (handleGet, ensureSessionEventFloor, flushSessionStreamEvents).
THEOREM SessionsImplementEventStream == Spec => ImplementsEventStream
<1>1. Init => Promise!Init
  BY DEF Init, NoSession, Promise!Init
<1>2. TInv /\ TInv' /\ ConnHeld /\ [Next]_vars => [Promise!Next]_(Promise!vars)
  BY StepsRefine
<1> QED
  BY <1>1, <1>2, TInvAlways, ConnHeldAlways, PTL DEF Spec, ImplementsEventStream, Promise!Spec

-----------------------------------------------------------------------------
(* Nothing is missed *)

\* The session has one client, the one it was initialized for.
OneClient == \A c, d \in Client : c = d

OneStream == \A g, h \in Stream : ~At(g, "idle") /\ ~At(h, "idle") => g = h

\* A stream begins where its client is, also when the client has left meanwhile;
\* past the floor the client is not ahead of the session, and before the stream
\* appends the client has every event.
Abreast(h) ==
  LET s == streams[h]
      ids == received[s.client]
  IN  /\ s.pc \in {"touch", "floor", "replay"} => s.cursor = LastOf(ids)
      /\ s.pc \notin {"idle", "touch", "floor"} => LastOf(ids) <= session.last
      /\ s.pc \in {"ready", "beat"} /\ conn[s.client] = h => \A k \in events : Has(ids, k)

Complete(c) == \A k \in events : k <= LastOf(received[c]) => Has(received[c], k)

UInv ==
  undisturbed =>
    /\ OneStream
    /\ \A h \in Stream : Abreast(h)
    /\ \A c \in Client : Complete(c)

LEMMA UInvInit == Init => UInv
<1> SUFFICES ASSUME Init
             PROVE  UInv
  OBVIOUS
<1>1. \A h \in Stream : streams[h].pc = "idle"
  BY RowsTyped DEF Init
<1>2. events = {}
  BY DEF Init
<1> QED
  BY <1>1, <1>2 DEF UInv, OneStream, Abreast, Complete, At

\* Where only one stream is open, what it does is all that happens.
LEMMA OnlyOne ==
  ASSUME OneStream, NEW h \in Stream,
         ~At(h, "idle") \/ \A g \in Stream : At(g, "idle"),
         \A g \in Stream \ {h} : streams'[g] = streams[g],
         Abreast(h)'
  PROVE  OneStream' /\ \A g \in Stream : Abreast(g)'
<1>1. \A g \in Stream \ {h} : streams'[g].pc = "idle"
  BY DEF OneStream, At
<1> QED
  BY <1>1 DEF OneStream, Abreast, At

\* A step that writes and stores nothing, of no stream.
LEMMA UInvKept ==
  ASSUME TInv, TInv', UInv,
         UNCHANGED <<streams, received, undisturbed>>, events' \subseteq events,
         \A c \in Client : conn'[c] \in {conn[c], None},
         session.last <= session'.last \/ \A h \in Stream : At(h, "idle")
  PROVE  UInv'
<1> SUFFICES ASSUME undisturbed
             PROVE  UInv'
  BY DEF UInv
<1>1. OneStream /\ (\A h \in Stream : Abreast(h)) /\ \A c \in Client : Complete(c)
  BY DEF UInv
<1>2. ASSUME NEW h \in Stream
      PROVE  Abreast(h)'
  <2> DEFINE last == LastOf(received[streams[h].client])
  <2>1. /\ last \in Nat /\ session.last \in Nat /\ session'.last \in Nat
        /\ streams[h].client \in Client /\ h # None
    <3>1. received[streams[h].client] \in Ids
      BY TInvTypes
    <3> QED
      BY <3>1, TInvTypes, LastOfType, ConstantsAssumption DEF TInv, TypeOK, RowType
  <2>2. streams[h].pc \notin {"idle", "touch", "floor"} => last <= session'.last
    <3> HIDE DEF last
    <3>1. streams[h].pc \notin {"idle", "touch", "floor"} => last <= session.last
      BY <1>1 DEF Abreast, last
    <3> QED
      BY <2>1, <3>1 DEF At
  <2> QED
    BY <1>1, <2>1, <2>2 DEF Abreast
<1> QED
  BY <1>1, <1>2 DEF UInv, OneStream, Complete, At

LEMMA UInvRequests ==
  ASSUME TInv, TInv', ConnHeld, UInv,
         \/ TimePasses
         \/ \E p \in Post : PostRead(p) \/ PostInitialize(p) \/ PostTouch(p)
         \/ \E c \in Client : Disconnect(c)
         \/ Cleanup
         \/ UNCHANGED vars
  PROVE  UInv'
<1>1. Cleanup \/ session.last <= session'.last
  BY ConnHeldRequests
<1>2. /\ UNCHANGED <<streams, received, undisturbed>>
      /\ events' \subseteq events
      /\ \A c \in Client : conn'[c] \in {conn[c], None}
  BY TInvTypes DEF TimePasses, PostRead, PostInitialize, PostTouch, PostReturns, Disconnect,
                   Cleanup, vars
<1>3. Cleanup => \A h \in Stream : At(h, "idle")
  BY DEF Cleanup, AtRest
<1> QED
  BY <1>1, <1>2, <1>3, UInvKept

\* The only stream goes on, its client stays where it is.
LEMMA UInvMoved ==
  ASSUME TInv, TInv', UInv, NEW h \in Stream, ~At(h, "idle"),
         UNCHANGED <<events, received, undisturbed>>,
         \A g \in Stream \ {h} : streams'[g] = streams[g],
         session.last <= session'.last,
         \/ streams'[h].pc = "idle"
         \/ /\ UNCHANGED conn
            /\ streams'[h].client = streams[h].client
            /\ streams'[h].cursor = streams[h].cursor
            /\ \/ At(h, "touch") /\ streams'[h].pc = "floor"
               \/ At(h, "floor") /\ streams'[h].pc = "replay"
               \/ At(h, "loop") /\ streams'[h].pc = "heartbeat"
               \/ At(h, "heartbeat") /\ streams'[h].pc = "flush"
  PROVE  UInv'
<1> SUFFICES ASSUME undisturbed
             PROVE  UInv'
  BY DEF UInv
<1>1. OneStream /\ Abreast(h) /\ \A c \in Client : Complete(c)
  BY DEF UInv
<1>2. CASE streams'[h].pc = "idle"
  <2>1. Abreast(h)'
    BY <1>2 DEF Abreast
  <2> QED
    BY <1>1, <2>1, OnlyOne DEF UInv, Complete
<1>3. CASE ~(streams'[h].pc = "idle")
  <2> DEFINE last == LastOf(received[streams[h].client])
  <2>1. last \in Nat /\ session.last \in Nat /\ session'.last \in Nat
    <3>1. received[streams[h].client] \in Ids
      BY TInvTypes
    <3> QED
      BY <3>1, TInvTypes, LastOfType, ConstantsAssumption DEF TInv, TypeOK, RowType
  <2>2. /\ streams[h].pc \in {"touch", "floor", "replay"} => streams[h].cursor = last
        /\ streams[h].pc \notin {"idle", "touch", "floor"} => last <= session.last
    BY <1>1 DEF Abreast
  <2>3. streams'[h].client = streams[h].client /\ LastOf(received'[streams'[h].client]) = last
    BY <1>3
  <2>4. streams[h].cursor <= session'.last \/ streams'[h].pc # "replay"
    <3>1. streams'[h].pc = "replay" => streams'[h].cursor <= session'.last
      BY DEF TInv, TypeOK
    <3> QED
      BY <1>3, <3>1
  <2> HIDE DEF last
  <2>5. /\ streams'[h].pc \in {"touch", "floor", "replay"} => streams'[h].cursor = last
        /\ streams'[h].pc \notin {"idle", "touch", "floor"} => last <= session'.last
        /\ streams'[h].pc \notin {"ready", "beat"}
    BY <1>3, <2>1, <2>2, <2>4 DEF At
  <2>6. Abreast(h)'
    BY <2>3, <2>5 DEF Abreast
  <2> QED
    BY <1>1, <2>6, OnlyOne DEF UInv, Complete
<1> QED
  BY <1>2, <1>3

LEMMA UInvTouches ==
  ASSUME TInv, TInv', ConnHeld, UInv, NEW h \in Stream,
         \/ \E c \in Client : Open(h, c)
         \/ StreamTouch(h) \/ StreamFloor(h)
         \/ HeartbeatRead(h) \/ HeartbeatTouch(h) \/ StreamEnds(h)
  PROVE  UInv'
<1>1. session.last <= session'.last /\ UNCHANGED <<events, received>>
  BY ConnHeldTouches
<1>2. ASSUME NEW c \in Client, Open(h, c)
      PROVE  UInv'
  <2> SUFFICES ASSUME undisturbed'
               PROVE  UInv'
    BY DEF UInv
  <2>1. undisturbed /\ At(h, "idle") /\ \A g \in Stream : At(g, "idle")
    BY <1>2 DEF Open
  <2> DEFINE new == [NoStream EXCEPT !.pc = "touch", !.row = session,
                       !.client = c, !.cursor = LastOf(received[c])]
  <2>2. LastOf(received[c]) \in 0..MaxEvents
    BY TInvTypes, LastOfType
  <2>3. /\ new \in StreamType /\ new.pc = "touch"
        /\ new.client = c /\ new.cursor = LastOf(received[c])
    BY <2>2, TInvTypes, RowsTyped DEF StreamType, Pc
  <2>4. streams' = [streams EXCEPT ![h] = new]
    BY <1>2 DEF Open
  <2> HIDE DEF new
  <2>5. streams'[h] = new /\ \A g \in Stream \ {h} : streams'[g] = streams[g]
    BY <2>3, <2>4, StreamUpdate
  <2>6. Abreast(h)'
    BY <1>1, <2>3, <2>5 DEF Abreast
  <2> QED
    BY <1>1, <2>1, <2>5, <2>6, OnlyOne DEF UInv, Complete
<1>3. ASSUME Hangup(h), ~At(h, "idle"), UNCHANGED undisturbed
      PROVE  UInv'
  BY <1>1, <1>3, HangupEffect, UInvMoved
<1>4. ASSUME NEW pc \in Pc, NEW row \in RowType, UNCHANGED <<conn, undisturbed>>,
             streams' = [streams EXCEPT ![h] = Moved(h, pc, row)],
             \/ At(h, "touch") /\ pc = "floor"
             \/ At(h, "floor") /\ pc = "replay"
             \/ At(h, "loop") /\ pc = "heartbeat"
             \/ At(h, "heartbeat") /\ pc = "flush"
      PROVE  UInv'
  <2>1. /\ Moved(h, pc, row) \in StreamType
        /\ Moved(h, pc, row).pc = pc
        /\ Moved(h, pc, row).client = streams[h].client
        /\ Moved(h, pc, row).cursor = streams[h].cursor
    BY StreamMoved
  <2>2. /\ streams'[h] = Moved(h, pc, row)
        /\ \A g \in Stream \ {h} : streams'[g] = streams[g]
    BY <1>4, <2>1, StreamUpdate
  <2>3. ~At(h, "idle")
    BY <1>4 DEF At
  <2> HIDE DEF Moved
  <2> QED
    BY <1>1, <1>4, <2>1, <2>2, <2>3, UInvMoved
<1>5. CASE StreamTouch(h)
  <2>1. At(h, "touch") /\ ~At(h, "idle") /\ UNCHANGED undisturbed /\ "floor" \in Pc
    BY <1>5 DEF StreamTouch, At, Pc
  <2>2. session' \in RowType
    BY <1>5, TInvTypes, TouchEffect DEF StreamTouch
  <2>3. ASSUME streams' = [streams EXCEPT ![h] = [@ EXCEPT !.pc = "floor", !.row = session']],
               UNCHANGED conn
        PROVE  UInv'
    <3>1. streams' = [streams EXCEPT ![h] = Moved(h, "floor", session')]
      BY <2>3 DEF Moved
    <3> QED
      BY <1>4, <2>1, <2>2, <2>3, <3>1
  <2> QED
    BY <1>3, <1>5, <2>1, <2>3 DEF StreamTouch
<1>6. CASE StreamFloor(h)
  <2>1. /\ At(h, "floor") /\ UNCHANGED <<conn, undisturbed>> /\ "replay" \in Pc
        /\ streams' = [streams EXCEPT ![h] = Moved(h, "replay", NoSession)]
    BY <1>6 DEF StreamFloor, Moved, Pc
  <2> QED
    BY <1>4, <2>1, RowsTyped
<1>7. CASE HeartbeatRead(h)
  <2>1. /\ At(h, "loop") /\ UNCHANGED <<conn, undisturbed>> /\ "heartbeat" \in Pc
        /\ streams' = [streams EXCEPT ![h] = Moved(h, "heartbeat", session)]
    BY <1>7 DEF HeartbeatRead, Moved, Pc
  <2> QED
    BY <1>4, <2>1, TInvTypes
<1>8. CASE HeartbeatTouch(h)
  <2>1. At(h, "heartbeat") /\ ~At(h, "idle") /\ UNCHANGED undisturbed /\ "flush" \in Pc
    BY <1>8 DEF HeartbeatTouch, At, Pc
  <2>2. ASSUME Goto(h, "flush"), UNCHANGED conn
        PROVE  UInv'
    <3>1. streams' = [streams EXCEPT ![h] = Moved(h, "flush", NoSession)]
      BY <2>2 DEF Goto, Moved
    <3> QED
      BY <1>4, <2>1, <2>2, <3>1, RowsTyped
  <2> QED
    BY <1>3, <1>8, <2>1, <2>2 DEF HeartbeatTouch
<1>9. CASE StreamEnds(h)
  BY <1>3, <1>9 DEF StreamEnds
<1> QED
  BY <1>2, <1>5, <1>6, <1>7, <1>8, <1>9

LEMMA UInvAppend ==
  ASSUME OneClient, TInv, TInv', ConnHeld, UInv, NEW h \in Stream,
         StreamReady(h) \/ HeartbeatAppend(h)
  PROVE  UInv'
<1> SUFFICES ASSUME undisturbed
             PROVE  UInv'
  BY DEF UInv, StreamReady, HeartbeatAppend
<1> DEFINE id == session.last + 1
           c == streams[h].client
<1>1. /\ AppendEvent(h) /\ UNCHANGED conn
      /\ streams[h].pc \in {"ready", "beat"}
  BY DEF StreamReady, HeartbeatAppend, At
<1>2. /\ id \in Id /\ id \in Nat /\ session.last < id /\ <<id>> \in Ids
      /\ session'.last = id
      /\ events' = events \cup {id}
      /\ streams'[h].pc = "loop" /\ streams'[h].client = c
      /\ \A g \in Stream \ {h} : streams'[g] = streams[g]
      /\ Write(h, <<id>>)
  BY <1>1, AppendEffect
<1> HIDE DEF id
<1>3. /\ c \in Client /\ received \in [Client -> Ids]
      /\ LastOf(received[c]) \in Nat /\ session.last \in Nat
  BY TInvTypes, LastOfType
<1>4. OneStream /\ Abreast(h) /\ Complete(c)
  BY <1>3 DEF UInv
<1>5. LastOf(received[c]) <= session.last
  BY <1>1, <1>4 DEF Abreast
<1>6. CASE conn[c] = h
  <2>1. received' = [received EXCEPT ![c] = received[c] \o <<id>>]
    BY <1>2, <1>6, WriteEffect
  <2>2. received'[c] = received[c] \o <<id>>
    BY <1>3, <2>1
  <2>3. <<id>> # <<>> /\ LastOf(<<id>>) = id /\ Has(<<id>>, id)
    BY DEF LastOf, Has
  <2>4. /\ LastOf(received'[c]) = id
        /\ \A k : Has(received'[c], k) <=> Has(received[c], k) \/ Has(<<id>>, k)
    <3> DEFINE s == received[c]
               one == <<id>>
    <3>1. s \in Ids /\ one \in Ids /\ one # <<>> /\ LastOf(one) = id
      BY <1>2, <1>3, <2>3
    <3>2. received'[c] = s \o one
      BY <2>2
    <3> HIDE DEF s, one
    <3>3. /\ LastOf(s \o one) = id
          /\ \A k : Has(s \o one, k) <=> Has(s, k) \/ Has(one, k)
      BY <3>1, ReadMore
    <3> QED
      BY <3>2, <3>3 DEF s, one
  <2>5. \A k \in events : Has(received[c], k)
    BY <1>1, <1>4, <1>6 DEF Abreast
  <2>6. Complete(c)'
    BY <1>2, <2>3, <2>4, <2>5 DEF Complete
  <2>7. Abreast(h)'
    BY <1>2, <2>4 DEF Abreast
  <2> QED
    BY <1>1, <1>2, <1>3, <1>4, <2>6, <2>7, OnlyOne DEF UInv, OneClient, At
<1>7. CASE conn[c] # h
  <2>1. received' = received
    BY <1>2, <1>7, WriteEffect
  <2>2. Complete(c)'
    <3>1. ~(id <= LastOf(received[c]))
      BY <1>2, <1>3, <1>5
    <3> QED
      BY <1>2, <1>4, <2>1, <3>1 DEF Complete
  <2>3. Abreast(h)'
    <3>1. LastOf(received[c]) <= id
      BY <1>2, <1>3, <1>5
    <3> QED
      BY <1>2, <2>1, <3>1 DEF Abreast
  <2> QED
    BY <1>1, <1>2, <1>3, <1>4, <2>2, <2>3, OnlyOne DEF UInv, OneClient, At
<1> QED
  BY <1>6, <1>7

\* A client that reads what comes next after the last id it has read.
LEMMA CompleteRead ==
  ASSUME TInv, UNCHANGED events, NEW c \in Client, Complete(c),
         NEW ids \in Lists(LastOf(received[c])),
         received'[c] = received[c] \o ids
  PROVE  /\ Complete(c)'
         /\ ~CutShort(LastOf(received[c]), ids) => \A k \in events : Has(received'[c], k)
<1> DEFINE last == LastOf(received[c])
<1>1. received[c] \in Ids /\ last \in Nat
  BY TInvTypes, LastOfType
<1>2. /\ ids \in Ids
      /\ ids # <<>> =>
           /\ LastOf(ids) \in events
           /\ LastOf(ids) > last
           /\ \A k \in events : k > last /\ k <= LastOf(ids) => Has(ids, k)
  BY <1>1, TInvTypes, ListsProperties
<1>3. /\ LastOf(received'[c]) = IF ids = <<>> THEN last ELSE LastOf(ids)
      /\ \A k : Has(received'[c], k) <=> Has(received[c], k) \/ Has(ids, k)
  BY <1>1, <1>2, ReadMore
<1>4. \A k \in events : k <= last => Has(received[c], k)
  BY DEF Complete
<1>5. ~CutShort(last, ids) => \A k \in events : k > last => Has(ids, k)
  BY DEF CutShort, Waiting
<1> HIDE DEF last
<1>6. Complete(c)'
  <2> SUFFICES ASSUME NEW k \in events, k <= LastOf(received'[c])
               PROVE  Has(received'[c], k)
    BY DEF Complete
  <2>1. k \in Nat
    BY TInvTypes
  <2>2. CASE k <= last
    BY <1>3, <1>4, <2>2
  <2>3. CASE k > last
    BY <1>1, <1>2, <1>3, <2>1, <2>3
  <2> QED
    BY <1>1, <2>1, <2>2, <2>3
<1>7. ASSUME ~CutShort(last, ids), NEW k \in events
      PROVE  Has(received'[c], k)
  <2>1. k \in Nat
    BY TInvTypes
  <2> QED
    BY <1>1, <1>3, <1>4, <1>5, <1>7, <2>1
<1> QED
  BY <1>6, <1>7 DEF last

LEMMA UInvReads ==
  ASSUME OneClient, TInv, TInv', ConnHeld, UInv, NEW h \in Stream,
         StreamReplay(h) \/ Fanout(h) \/ Notified(h) \/ HeartbeatFlush(h)
  PROVE  UInv'
<1> SUFFICES ASSUME undisturbed'
             PROVE  UInv'
  BY DEF UInv
<1> DEFINE c == streams[h].client
           cursor == streams[h].cursor
<1>1. \E ids \in Lists(cursor) :
        /\ ids \in Ids
        /\ Write(h, ids)
        /\ streams'[h].client = c
        /\ \A g \in Stream \ {h} : streams'[g] = streams[g]
        /\ streams'[h].pc \in {"ready", "loop", "beat"}
        /\ undisturbed
        /\ streams'[h].pc \in {"ready", "beat"} => ~CutShort(cursor, ids)
  <2>1. CASE StreamReplay(h)
    <3>1. PICK ids \in Lists(cursor) :
            /\ ids \in Ids
            /\ Write(h, ids)
            /\ streams'[h].pc = "ready"
            /\ streams'[h].client = c
            /\ \A g \in Stream \ {h} : streams'[g] = streams[g]
            /\ undisturbed' = (undisturbed /\ ~CutShort(cursor, ids))
      BY <2>1, ReplayEffect
    <3> QED
      BY <3>1
  <2>2. ASSUME NEW pc \in {"loop", "beat"}, Flush(h, pc)
        PROVE  \E ids \in Lists(cursor) :
                 /\ ids \in Ids
                 /\ Write(h, ids)
                 /\ streams'[h].client = c
                 /\ \A g \in Stream \ {h} : streams'[g] = streams[g]
                 /\ streams'[h].pc \in {"ready", "loop", "beat"}
                 /\ undisturbed
                 /\ streams'[h].pc \in {"ready", "beat"} => ~CutShort(cursor, ids)
    <3>1. PICK ids \in Lists(cursor) :
            /\ ids \in Ids
            /\ Write(h, ids)
            /\ streams'[h].pc = pc
            /\ streams'[h].client = c
            /\ \A g \in Stream \ {h} : streams'[g] = streams[g]
            /\ undisturbed' = (undisturbed /\ (pc = "beat" => ~CutShort(cursor, ids)))
      BY <2>2, FlushEffect
    <3> QED
      BY <3>1
  <2> QED
    BY <2>1, <2>2 DEF Fanout, Notified, HeartbeatFlush, Deliver
<1>2. PICK ids \in Lists(cursor) :
        /\ ids \in Ids
        /\ Write(h, ids)
        /\ streams'[h].client = c
        /\ \A g \in Stream \ {h} : streams'[g] = streams[g]
        /\ streams'[h].pc \in {"ready", "loop", "beat"}
        /\ undisturbed
        /\ streams'[h].pc \in {"ready", "beat"} => ~CutShort(cursor, ids)
  BY <1>1
<1>3. /\ UNCHANGED <<session, events, conn>>
      /\ streams[h].pc \notin {"idle", "touch", "floor", "ready"}
      /\ conn[c] = h => cursor = LastOf(received[c])
  <2>1. conn[c] = h => cursor = LastOf(received[c])
    BY ReadsFollow
  <2> QED
    BY <2>1 DEF StreamReplay, Fanout, Notified, HeartbeatFlush, Deliver, Polls, At
<1>4. /\ c \in Client /\ received \in [Client -> Ids] /\ received[c] \in Ids
      /\ LastOf(received[c]) \in Nat /\ cursor \in Nat
  BY TInvTypes, LastOfType
<1>5. OneStream /\ Abreast(h) /\ Complete(c) /\ LastOf(received[c]) <= session.last
  BY <1>2, <1>3, <1>4 DEF UInv, Abreast
<1>6. CASE conn[c] = h
  <2>1. received' = [received EXCEPT ![c] = received[c] \o ids]
    BY <1>2, <1>6, WriteEffect
  <2>2. received'[c] = received[c] \o ids
    BY <1>4, <2>1
  <2>3. ids \in Lists(LastOf(received[c])) /\ cursor = LastOf(received[c])
    BY <1>2, <1>3, <1>6
  <2>4. /\ Complete(c)'
        /\ streams'[h].pc \in {"ready", "beat"} => \A k \in events : Has(received'[c], k)
    BY <1>2, <1>3, <1>4, <1>5, <2>2, <2>3, CompleteRead
  <2>5. LastOf(received'[c]) <= session.last
    <3>1. LastOf(received'[c]) = IF ids = <<>> THEN LastOf(received[c]) ELSE LastOf(ids)
      BY <1>2, <1>4, <2>2, ReadMore
    <3>2. ids # <<>> => LastOf(ids) <= session.last
      BY <1>4, TInvTypes, ListsProperties
    <3> QED
      BY <1>5, <3>1, <3>2
  <2>6. Abreast(h)'
    BY <1>2, <1>3, <2>4, <2>5 DEF Abreast
  <2> QED
    BY <1>2, <1>3, <1>4, <1>5, <2>4, <2>6, OnlyOne DEF UInv, OneClient, At
<1>7. CASE conn[c] # h
  <2>1. received' = received
    BY <1>2, <1>7, WriteEffect
  <2>2. Abreast(h)'
    BY <1>2, <1>3, <1>5, <1>7, <2>1 DEF Abreast
  <2> QED
    BY <1>2, <1>3, <1>4, <1>5, <2>1, <2>2, OnlyOne DEF UInv, OneClient, Complete, At
<1> QED
  BY <1>6, <1>7

LEMMA UInvNext ==
  ASSUME OneClient
  PROVE  TInv /\ TInv' /\ ConnHeld /\ UInv /\ [Next]_vars => UInv'
  BY UInvRequests, UInvTouches, UInvAppend, UInvReads DEF Next, StreamStep

\* The one client of a session misses nothing while its streams do not overlap
\* and no list is cut short, however often its connection breaks between an
\* append and a write (replay from Last-Event-ID, flush before each heartbeat).
THEOREM OneClientMissesNothing ==
  ASSUME OneClient
  PROVE  Spec => []NothingMissed
<1>1. UInv => NothingMissed
  BY DEF UInv, NothingMissed, Complete
<1>2. TInv /\ TInv' /\ ConnHeld /\ UInv /\ [Next]_vars => UInv'
  BY UInvNext
<1> QED
  BY <1>1, <1>2, UInvInit, TInvAlways, ConnHeldAlways, PTL DEF Spec
=============================================================================
