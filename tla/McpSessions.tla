----------------------------- MODULE McpSessions -----------------------------
(***************************************************************************)
(* One MCP session, the requests that touch it and the event streams that  *)
(* are open on it (internal/mcp/server.go, internal/store/postgres_mcp.go).*)
(*                                                                         *)
(* Any number of gateways share the store.  A touch of the session is a    *)
(* read and, later, an upsert of the row that was read; an append of an    *)
(* event is one transaction.  A stream replays what its client has missed, *)
(* appends an event of its own ("ready"), then waits: a notification or    *)
(* the fan-out ticker makes it look for the events of other streams, and   *)
(* the heartbeat ticker makes it touch the session and append another      *)
(* event.  A client reads from one stream at a time, its connection may    *)
(* break unnoticed, and the stream it has left goes on for a while.        *)
(*                                                                         *)
(* Sessions do not meet: one is enough.  Time is the age of the session's  *)
(* row against its expires_at: not reached, passed, and passed by more     *)
(* than the retention age.  The lifetime of a session (8 hours) is long    *)
(* against the time between two statements of a request and against the    *)
(* 15 seconds after which an open stream touches the session: it passes,   *)
(* and the retention worker runs, when no request is between two           *)
(* statements and no stream is open.                                       *)
(***************************************************************************)
EXTENDS Naturals, Sequences, FiniteSets

CONSTANTS
  Client,       \* those who read; each presents the last id it has read
  Stream,       \* GET /mcp requests at the same time
  Post,         \* POST /mcp requests at the same time
  None,         \* no stream
  Limit,        \* events one list returns (100)
  ListMayFail,  \* a list of events may fail or end early
  MaxEvents     \* bound: ids given

ASSUME ConstantsAssumption ==
  /\ Client # {}
  /\ None \notin Stream
  /\ Limit \in Nat \ {0}
  /\ ListMayFail \in BOOLEAN
  /\ MaxEvents \in Nat

VARIABLES
  session,     \* its row: [status, last, age]; last is last_event_id
  events,      \* the ids (seq) of the event rows
  posts,       \* posts[p]: [pc, row]
  streams,     \* streams[h]: [pc, row, client, cursor]
  conn,        \* conn[c]: the stream c reads from
  received,    \* received[c]: the ids c has read, in order
  undisturbed  \* history: streams never overlapped, no list was cut short

vars == <<session, events, posts, streams, conn, received, undisturbed>>

-----------------------------------------------------------------------------
(* The session's row *)

NoSession == [status |-> "absent", last |-> 0, age |-> 0]
Fresh == [status |-> "active", last |-> 0, age |-> 0]

\* touchSession: the row it returns for the one it has read.
Touched(row) ==
  CASE row.status = "absent" -> Fresh
    [] row.status = "active" /\ row.age > 0 -> [row EXCEPT !.status = "expired"]
    [] row.status = "expired" -> row
    [] row.status = "active" /\ row.age = 0 -> row

IsExpired(row) == Touched(row).status = "expired"

Larger(m, n) == IF m > n THEN m ELSE n

\* Mutant: last_event_id is overwritten like the other columns.
UpsertedPlainly(row) == row

\* UpsertMCPSession: the row is overwritten, but its last_event_id never falls.
Upserted(row) == [row EXCEPT !.last = Larger(@, session.last)]

\* An expired row is left as it is.
Touch(row) == session' = IF row.status = "expired" THEN session ELSE Upserted(Touched(row))

-----------------------------------------------------------------------------
(* Events *)

LastOf(ids) == IF ids = <<>> THEN 0 ELSE ids[Len(ids)]

\* Mutant: the event with that number comes again.
WaitingFrom(n) == {k \in events : k >= n}

Waiting(n) == {k \in events : k > n}

\* ListMCPSessionEventsAfter: the next ids in order, Limit at most; nothing, or
\* less, when the query or its rows fail.
Has(ids, k) == \E i \in DOMAIN ids : ids[i] = k
CutShort(n, ids) == \E k \in Waiting(n) : ~Has(ids, k)

Lists(n) ==
  {ids \in UNION {[1..len -> Waiting(n)] : len \in 0..Limit} :
     /\ \A i, j \in DOMAIN ids : i < j => ids[i] < ids[j]
     /\ \A i \in DOMAIN ids, k \in Waiting(n) : k < ids[i] => Has(ids, k)
     /\ ListMayFail \/ Len(ids) = Limit \/ ~CutShort(n, ids)}

\* writeSSE: the client reads it unless it has gone.
Write(h, ids) ==
  LET c == streams[h].client
  IN  received' = IF conn[c] = h THEN [received EXCEPT ![c] = @ \o ids] ELSE received

NoStream == [pc |-> "idle", row |-> NoSession, client |-> CHOOSE c \in Client : TRUE, cursor |-> 0]

At(h, pc) == streams[h].pc = pc
Goto(h, pc) == streams' = [streams EXCEPT ![h] = [@ EXCEPT !.pc = pc, !.row = NoSession]]

\* The handler returns and its connection, if there is still one, is closed.
Hangup(h) ==
  /\ streams' = [streams EXCEPT ![h] = NoStream]
  /\ conn' = [c \in Client |-> IF conn[c] = h THEN None ELSE conn[c]]

\* AppendMCPSessionEvent: the next id, in one transaction.  The stream that
\* appends writes the event to its client and goes on from there.
AppendEvent(h) ==
  LET id == session.last + 1
  IN  /\ session.status # "absent"
      /\ session.last < MaxEvents
      /\ session' = [session EXCEPT !.last = id]
      /\ events' = events \cup {id}
      /\ streams' = [streams EXCEPT ![h] = [@ EXCEPT !.pc = "loop", !.cursor = id]]
      /\ Write(h, <<id>>)

-----------------------------------------------------------------------------
Init ==
  /\ session = NoSession
  /\ events = {}
  /\ posts = [p \in Post |-> [pc |-> "idle", row |-> NoSession]]
  /\ streams = [h \in Stream |-> NoStream]
  /\ conn = [c \in Client |-> None]
  /\ received = [c \in Client |-> <<>>]
  /\ undisturbed = TRUE

(* Time and retention *)

AtRest ==
  /\ \A p \in Post : posts[p].pc = "idle"
  /\ \A h \in Stream : At(h, "idle")

TimePasses ==
  /\ AtRest
  /\ session.status # "absent"
  /\ session.age < 2
  /\ session' = [session EXCEPT !.age = @ + 1]
  /\ UNCHANGED <<events, posts, streams, conn, received, undisturbed>>

\* CleanupMCPSessions; the events go with their session.
Cleanup ==
  /\ AtRest
  /\ session.age = 2
  /\ session' = NoSession
  /\ events' = {}
  /\ UNCHANGED <<posts, streams, conn, received, undisturbed>>

(* POST /mcp *)

\* GetMCPSession, of initialize and of every other method.
PostRead(p) ==
  /\ posts[p].pc = "idle"
  /\ \E pc \in {"initialize", "touch"} : posts' = [posts EXCEPT ![p] = [pc |-> pc, row |-> session]]
  /\ UNCHANGED <<session, events, streams, conn, received, undisturbed>>

PostReturns(p) ==
  /\ posts' = [posts EXCEPT ![p] = [pc |-> "idle", row |-> NoSession]]
  /\ UNCHANGED <<events, streams, conn, received, undisturbed>>

\* initializeSession: whatever the session was, it is active again.
PostInitialize(p) ==
  /\ posts[p].pc = "initialize"
  /\ session' = Upserted([Fresh EXCEPT !.last = posts[p].row.last])
  /\ PostReturns(p)

\* touchPostSession, and the touch of notifications.
PostTouch(p) ==
  /\ posts[p].pc = "touch"
  /\ Touch(posts[p].row)
  /\ PostReturns(p)

(* GET /mcp *)

\* A client connects, with the last id it has read as Last-Event-ID.
Open(h, c) ==
  /\ At(h, "idle")
  /\ conn[c] = None
  /\ conn' = [conn EXCEPT ![c] = h]
  /\ streams' = [streams EXCEPT ![h] = [NoStream EXCEPT !.pc = "touch", !.row = session,
                                          !.client = c, !.cursor = LastOf(received[c])]]
  /\ undisturbed' = (undisturbed /\ \A g \in Stream : At(g, "idle"))
  /\ UNCHANGED <<session, events, posts, received>>

StreamTouch(h) ==
  /\ At(h, "touch")
  /\ Touch(streams[h].row)
  /\ IF IsExpired(streams[h].row)
     THEN Hangup(h)
     ELSE /\ streams' = [streams EXCEPT ![h] = [@ EXCEPT !.pc = "floor", !.row = session']]
          /\ UNCHANGED conn
  /\ UNCHANGED <<events, posts, received, undisturbed>>

\* Mutant: the count begins anew whatever the client has read.
FlooredNever(row, n) == row

\* ensureSessionEventFloor, from the row the touch returned.
Floored(row, n) == IF n > row.last THEN Upserted([row EXCEPT !.last = n, !.age = 0]) ELSE session

StreamFloor(h) ==
  /\ At(h, "floor")
  /\ session' = Floored(streams[h].row, streams[h].cursor)
  /\ streams' = [streams EXCEPT ![h] = [@ EXCEPT !.pc = "replay", !.row = NoSession]]
  /\ UNCHANGED <<events, posts, conn, received, undisturbed>>

\* Mutant: replay from where the session is.
ReplayFromSession(h) == session.last

\* Replay what the client has missed.
ReplayFrom(h) == streams[h].cursor

StreamReplay(h) ==
  /\ At(h, "replay")
  /\ \E ids \in Lists(ReplayFrom(h)) :
       /\ Write(h, ids)
       /\ undisturbed' = (undisturbed /\ ~CutShort(ReplayFrom(h), ids))
  /\ Goto(h, "ready")
  /\ UNCHANGED <<session, events, posts, conn>>

StreamReady(h) ==
  /\ At(h, "ready")
  /\ AppendEvent(h)
  /\ UNCHANGED <<posts, conn, undisturbed>>

\* flushSessionStreamEvents: list what comes after the last id sent, write it.
Flush(h, pc) ==
  /\ \E ids \in Lists(streams[h].cursor) :
       /\ Write(h, ids)
       /\ streams' = [streams EXCEPT ![h] = [@ EXCEPT
            !.pc = pc, !.row = NoSession,
            !.cursor = IF ids = <<>> THEN streams[h].cursor ELSE LastOf(ids)]]
       /\ undisturbed' = (undisturbed /\ (pc = "beat" => ~CutShort(streams[h].cursor, ids)))

\* Mutant: only a full list is worth a flush.
PollsFullLists(h) == At(h, "loop") /\ Cardinality(Waiting(streams[h].cursor)) >= Limit

Polls(h) == At(h, "loop")

Deliver(h) ==
  /\ Flush(h, "loop")
  /\ streams'[h].cursor # streams[h].cursor
  /\ UNCHANGED <<session, events, posts, conn>>

\* The fan-out ticker, when it finds something.
Fanout(h) == Polls(h) /\ Deliver(h)

\* What a listener (LISTEN) may be told of: any event that is stored, some time
\* after its commit or never; a notification is not retried when sending it
\* fails, and dropped when the listener's buffer is full or its connection lost.
Notifiable == events

\* A notification makes a stream that is behind look at once.
Notified(h) ==
  /\ At(h, "loop")
  /\ \E k \in Notifiable : k > streams[h].cursor
  /\ Deliver(h)

\* The heartbeat ticker: read and touch the session, flush, append, write.
HeartbeatRead(h) ==
  /\ At(h, "loop")
  /\ streams' = [streams EXCEPT ![h] = [@ EXCEPT !.pc = "heartbeat", !.row = session]]
  /\ UNCHANGED <<session, events, posts, conn, received, undisturbed>>

HeartbeatTouch(h) ==
  /\ At(h, "heartbeat")
  /\ Touch(streams[h].row)
  /\ IF IsExpired(streams[h].row)
     THEN Hangup(h)
     ELSE Goto(h, "flush") /\ UNCHANGED conn
  /\ UNCHANGED <<events, posts, received, undisturbed>>

HeartbeatFlush(h) ==
  /\ At(h, "flush")
  /\ Flush(h, "beat")
  /\ UNCHANGED <<session, events, posts, conn>>

HeartbeatAppend(h) ==
  /\ At(h, "beat")
  /\ AppendEvent(h)
  /\ UNCHANGED <<posts, conn, undisturbed>>

\* The client goes away; the handler does not know yet.
Disconnect(c) ==
  /\ conn[c] # None
  /\ conn' = [conn EXCEPT ![c] = None]
  /\ UNCHANGED <<session, events, posts, streams, received, undisturbed>>

\* The handler learns of it, a call of the store fails, or the gateway dies.
StreamEnds(h) ==
  /\ ~At(h, "idle")
  /\ Hangup(h)
  /\ UNCHANGED <<session, events, posts, received, undisturbed>>

StreamStep(h) ==
  \/ \E c \in Client : Open(h, c)
  \/ StreamTouch(h)
  \/ StreamFloor(h)
  \/ StreamReplay(h)
  \/ StreamReady(h)
  \/ Fanout(h)
  \/ Notified(h)
  \/ HeartbeatRead(h)
  \/ HeartbeatTouch(h)
  \/ HeartbeatFlush(h)
  \/ HeartbeatAppend(h)
  \/ StreamEnds(h)

Next ==
  \/ TimePasses
  \/ Cleanup
  \/ \E p \in Post : PostRead(p) \/ PostInitialize(p) \/ PostTouch(p)
  \/ \E h \in Stream : StreamStep(h)
  \/ \E c \in Client : Disconnect(c)

\* A heartbeat goes on once it has begun: to its end or to an error.
HeartbeatStep(h) ==
  \/ HeartbeatTouch(h)
  \/ HeartbeatFlush(h)
  \/ HeartbeatAppend(h)
  \/ At(h, "beat") /\ StreamEnds(h)

\* The fan-out ticker of an open stream fires again and again, and not every
\* list fails.
Fairness == \A h \in Stream : WF_vars(Fanout(h)) /\ WF_vars(HeartbeatStep(h))

Spec == Init /\ [][Next]_vars /\ Fairness

-----------------------------------------------------------------------------
(* Properties *)

RowType == [status : {"absent", "active", "expired"}, last : 0..MaxEvents, age : 0..2]
Pc == {"idle", "touch", "floor", "replay", "ready", "loop",
       "heartbeat", "flush", "beat"}

\* Every variable has its type, and no stream that has passed the floor is ahead
\* of its session: an id that is given next is new to its client.
TypeOK ==
  /\ session \in RowType
  /\ events \subseteq 1..MaxEvents
  /\ posts \in [Post -> [pc : {"idle", "initialize", "touch"}, row : RowType]]
  /\ streams \in [Stream -> [pc : Pc, row : RowType, client : Client, cursor : 0..MaxEvents]]
  /\ \A h \in Stream :
       streams[h].pc \notin {"idle", "touch", "floor"} => streams[h].cursor <= session.last
  /\ conn \in [Client -> Stream \cup {None}]
  /\ received \in [Client -> Seq(1..MaxEvents)]
  /\ undisturbed \in BOOLEAN

\* No event has a number above the session's last_event_id, whatever stale
\* rows are written back: the next append would reuse a number (the GREATEST
\* of UpsertMCPSession).
EventsBelowLast == \A k \in events : k <= session.last

\* While no two streams have overlapped, no list has failed and none that a
\* replay or a heartbeat relies on was cut at its limit, a client misses nothing:
\* below the last id it has read, there is no event of the session that it has
\* not read, however often its connection broke between an append and a write
\* (replay from Last-Event-ID, flush before each heartbeat).  A replay that is cut
\* does lose events, see ReconnectMissesNothing.
NothingMissed ==
  undisturbed =>
    \A c \in Client, k \in events :
      k <= LastOf(received[c]) => Has(received[c], k)

\* The gateway replays the persisted events after Last-Event-ID, and then appends
\* the ready event (docs/architecture/mcp-gateway.md): a client that has come back
\* with an id and reads the ready event has by then read every event of the
\* session in between, however much it had missed.
Reconnected(c, h) == conn[c] = h /\ At(h, "ready") /\ streams[h].cursor > 0
ReconnectMissesNothing ==
  [][\A c \in Client, h \in Stream :
       Reconnected(c, h) /\ received'[c] # received[c] =>
         \A k \in events :
           k \in streams[h].cursor..LastOf(received'[c]) => Has(received'[c], k)]_vars

\* An open stream catches up again and again: an event that another stream
\* appends, through whatever gateway, is got past without a reconnect, notified
\* or not.
IsOpen(h) == streams[h].pc \in {"loop", "heartbeat", "flush", "beat"}
StreamsCatchUp ==
  \A h \in Stream : []<>(IsOpen(h) => Waiting(streams[h].cursor) = {})

\* Clients see an event stream as EventStream says: numbers go upwards over
\* all reconnections, also to a session that has been deleted meanwhile.
Promise == INSTANCE EventStream WITH high <- session.last, read <- received
ImplementsEventStream == Promise!Spec
=============================================================================
