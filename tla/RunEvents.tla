------------------------------ MODULE RunEvents ------------------------------
(***************************************************************************)
(* The events of one run: how the PostgreSQL store numbers them while      *)
(* handlers, the dispatcher and the executor write them at the same time,  *)
(* and how GET /runs/{id}/events/stream sends them to a client.            *)
(*                                                                         *)
(* Transactions run under READ COMMITTED: a statement sees what was        *)
(* committed when it began.  A writer locks the run's row until it ends if *)
(* it changes the run's status, and waits at the unique index of           *)
(* run_events for a writer that has inserted the same number.              *)
(***************************************************************************)
EXTENDS Integers, Sequences, FiniteSets, SequencesExt

CONSTANTS
  Caller,      \* threads that call the store
  EndStatus,   \* the statuses a result may report
  MaxSeq       \* bound: events of the run

ASSUME RunEventsAssumption ==
  MaxSeq \in Nat /\ EndStatus \cap {"queued", "running", "nothing"} = {}

VARIABLES
  status,   \* the status of the run's row
  events,   \* run_events: [seq, tells], the status an event reports
  call,     \* what each caller's transaction has done
  stream    \* the stream: the number of the last event, and what has been sent

runEventVars == <<status, events, call, stream>>

Nothing == "nothing"                 \* what an event of AddEvent tells of the status
NoCall  == [step |-> "none", to |-> Nothing]
Closed  == [open |-> FALSE, after |-> 0, sent |-> <<>>]

Proceed(c, work) == call' = [call EXCEPT ![c] = work]

-----------------------------------------------------------------------------
\* StartRun and EnqueueRun store the run with its first event.
RunEventsInit ==
  /\ status \in {"queued", "running"}
  /\ events = {[seq |-> 1, tells |-> status]}
  /\ call = [c \in Caller |-> NoCall]
  /\ stream = Closed

NextSeq == 1 + Max({e.seq : e \in events})   \* COALESCE(MAX(seq), 0) + 1
BeginInsert(c, to) ==
  /\ NextSeq <= MaxSeq
  /\ Proceed(c, [step |-> "numbered", to |-> to, seq |-> NextSeq])

\* A transaction that has updated the row holds its lock.
RowFreeAlways == TRUE                                                \* the event is inserted first
RowFree == \A c \in Caller : call[c].to = Nothing

\* FinishRun updates the row, whatever its status.
FinishRunLocks(c, to) ==
  /\ call[c] = NoCall
  /\ RowFree
  /\ Proceed(c, [step |-> "locked", to |-> to])
  /\ UNCHANGED <<status, events, stream>>

\* DispatchQueuedRun updates a row that is still queued.
DispatchLocks(c) == status = "queued" /\ FinishRunLocks(c, "running")

\* Their statement for the event begins.
StatusEvent(c) ==
  /\ call[c].step = "locked"
  /\ BeginInsert(c, call[c].to)
  /\ UNCHANGED <<status, events, stream>>

\* AddEvent is this one statement.
AddEvent(c) ==
  /\ call[c] = NoCall
  /\ BeginInsert(c, Nothing)
  /\ UNCHANGED <<status, events, stream>>

\* UNIQUE (run_id, seq): a second insertion of a number waits for the first,
\* and fails when that has been committed.
SeqFreeAlways(n) == TRUE                                             \* no such constraint
SeqFree(n) ==
  /\ \A e \in events : e.seq # n
  /\ \A d \in Caller : call[d].step = "inserted" => call[d].seq # n

InsertEvent(c) ==
  /\ call[c].step = "numbered"
  /\ SeqFree(call[c].seq)
  /\ Proceed(c, [call[c] EXCEPT !.step = "inserted"])
  /\ UNCHANGED <<status, events, stream>>

CommitEvent(c) ==
  /\ call[c].step = "inserted"
  /\ events' = events \cup {[seq |-> call[c].seq, tells |-> call[c].to]}
  /\ status' = IF call[c].to = Nothing THEN status ELSE call[c].to
  /\ Proceed(c, NoCall)
  /\ UNCHANGED stream

\* The number is taken, a statement fails, its five seconds are over, or the
\* process dies: the transaction is rolled back.
RollBack(c) ==
  /\ call[c] # NoCall
  /\ Proceed(c, NoCall)
  /\ UNCHANGED <<status, events, stream>>

-----------------------------------------------------------------------------
\* ListEvents has the first of them, or none, when the query or its rows fail.
ListEvents == {{}} \cup {{e \in events : e.seq <= n} : n \in {e.seq : e \in events}}

\* ORDER BY seq.
BySeq(S) ==
  CHOOSE s \in [1 .. Cardinality(S) -> S] :
    IsInjective(s) /\ \A i, j \in DOMAIN s : i < j => s[i].seq <= s[j].seq

EventsFromSeq(listed, n)  == {e \in listed : e.seq >= n}             \* the last one is sent again
EventsAfterSeq(listed, n) == {e \in listed : e.seq > n}

\* Each event is written, and its number remembered.
Sent(s, batch) ==
  [open |-> TRUE, sent |-> s.sent \o BySeq(batch),
   after |-> IF batch = {} THEN s.after ELSE Max({e.seq : e \in batch})]

OpenStream ==
  /\ ~stream.open
  /\ \E listed \in ListEvents : stream' = Sent(Closed, listed)
  /\ UNCHANGED <<status, events, call>>

\* The stream's ticker.
PollEvents ==
  /\ stream.open
  /\ \E listed \in ListEvents : stream' = Sent(stream, EventsAfterSeq(listed, stream.after))
  /\ UNCHANGED <<status, events, call>>

\* The client is gone; another one begins anew.
CloseStream ==
  /\ stream.open
  /\ stream' = Closed
  /\ UNCHANGED <<status, events, call>>

RunEventsNext ==
  \/ \E c \in Caller, to \in EndStatus : FinishRunLocks(c, to)
  \/ \E c \in Caller : DispatchLocks(c)
  \/ \E c \in Caller : StatusEvent(c)
  \/ \E c \in Caller : AddEvent(c)
  \/ \E c \in Caller : InsertEvent(c)
  \/ \E c \in Caller : CommitEvent(c)
  \/ \E c \in Caller : RollBack(c)
  \/ OpenStream
  \/ PollEvents
  \/ CloseStream

-----------------------------------------------------------------------------
(* Every variable has its type, and the events of a run are numbered        *)
(* without a gap and none twice, whoever writes at the same time and        *)
(* whichever transactions are rolled back (AddEvent, FinishRun,             *)
(* DispatchQueuedRun).                                                      *)
RunEventsTypeOK ==
  /\ status \in EndStatus \cup {"queued", "running"}
  /\ \A e \in events : e.tells \in EndStatus \cup {"queued", "running", Nothing}
  /\ {e.seq : e \in events} = 1 .. Cardinality(events)
  /\ \A c \in Caller : call[c].step \in {"none", "locked", "numbered", "inserted"}
  /\ stream.open \in BOOLEAN /\ stream.after \in 0 .. Cardinality(events)

(* The events tell the run's story as it was: the last of them that tells   *)
(* of the status tells the one the row has, and none tells that the run has *)
(* been dispatched after one has told its end, however results, a dispatch  *)
(* and other events meet (FinishRun, DispatchQueuedRun).                    *)
StatusIsTold ==
  /\ \E e \in events :
       /\ e.tells = status
       /\ \A d \in events : d.seq > e.seq => d.tells = Nothing
  /\ \A d, e \in events :
       d.tells = "running" /\ e.tells \in EndStatus => d.seq < e.seq

(* A client gets each event once and in order: up to the number its stream  *)
(* has reached, all that are stored, although it only asks for later ones   *)
(* and writers commit in any order (runEventStream, eventsAfterSeq).        *)
StreamMissesNothing ==
  stream.sent = BySeq({e \in events : e.seq <= stream.after})
=============================================================================
