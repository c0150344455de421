------------------------ MODULE ExecutorManagerProofs ------------------------
(***************************************************************************)
(* What ExecutorManager guarantees for every number of runs, faults,       *)
(* attempts and slots, every executor kind and every transport.            *)
(***************************************************************************)
EXTENDS ExecutorManager, FiniteSetTheorems, TLAPS

USE DEF history

-----------------------------------------------------------------------------
(* The inductive invariant *)

\* rows is a function: TypeOK only says what its values are.
RowsTyped == rows \in [Run -> RowType \cup {NoRow}]

\* A goroutine works on a run that is running, unless somebody has reported on it;
\* when an error is being recorded the run may have ended already, by a call whose
\* answer was lost.  Who is running got a node, and nobody is reported as queued.
Working == {"granted", "dispatched", "preparing", "prepared", "executing",
            "cleaning", "reporting"}
Started == {"preparing", "running"} \cup EndStatuses
WorkersHaveRows ==
  \A r \in Run :
    /\ workers[r].pc \in Working => rows[r].status = "running" \/ r \in reported
    /\ workers[r].pc # "none" \/ r \in reported => rows[r].status \in Started
    /\ rows[r].status = "running" => rows[r].node \/ r \in reported
    /\ At(r, "retrying") => rows[r].attempt < MaxAttempts
    /\ At(r, "reporting") => workers[r].outcome # "none"

\* A container that can still be removed is a docker run's that is running and
\* has not given up its command, or that of a process that died.
ContainersHeld ==
  \A r \in containers \ (uncleaned \cup silent \cup reported) :
    /\ TransportOf(r) = "docker"
    /\ rows[r].status = "running"
    /\ workers[r].pc \in {"executing", "cleaning", "none"}

\* A docker run whose time is over and on which nobody has reported has its
\* timeout still to be recorded, or it is recorded, or the run is an orphan.
ExpiredHeld ==
  \A r \in expired :
    /\ rows[r] # NoRow
    /\ TransportOf(r) = "docker" /\ r \notin reported =>
         \/ workers[r].pc \in {"cleaning", "timing_out"} /\ rows[r].status = "running"
         \/ At(r, "none") /\ rows[r].status \in {"running", "timed_out"}

IInv == TypeOK /\ RowsTyped /\ WorkersHaveRows /\ ContainersHeld /\ ExpiredHeld

\* Attempts after the k-th, and those that are about to be queued.
Followers(k) ==
  {r \in Run : rows[r].attempt = k + 1 \/ (rows[r].attempt = k /\ At(r, "retrying"))}

\* Attempts number k that have failed for good, or been reported on.
Failed(r) == rows[r].status = "failed" \/ r \in reported
Failures(k) ==
  {r \in Run : rows[r].attempt = k /\ Failed(r) /\ workers[r].pc \in {"none", "retrying"}}

RetriesPaid ==
  \A k \in 1..MaxAttempts : Cardinality(Followers(k)) <= Cardinality(Failures(k)) + faults
-----------------------------------------------------------------------------
(* What the helpers of the actions do *)

\* A call of the store changes the status of one run at most, and to what it was
\* asked for.
LEMMA FinishRunEffect ==
  ASSUME RowsTyped, faults \in 0..MaxFaults,
         NEW r \in Run, rows[r] # NoRow,
         NEW status \in EndStatuses, NEW answer \in Answer,
         FinishRun(r, status, answer)
  PROVE  /\ RowsTyped'
         /\ rows'[r] \in RowType
         /\ rows'[r].executor = rows[r].executor
         /\ rows'[r].attempt = rows[r].attempt
         /\ rows'[r].node = rows[r].node
         /\ rows'[r].status \in {rows[r].status, status}
         /\ answer = "ok" => rows'[r].status = status
         /\ \A q \in Run \ {r} : rows'[q] = rows[q]
         /\ faults' \in 0..MaxFaults
         /\ faults' = IF answer = "ok" THEN faults ELSE faults + 1
<1> DEFINE new == [rows EXCEPT ![r].status = status]
<1>1. rows[r] \in RowType
  BY DEF RowsTyped
<1>2. /\ new \in [Run -> RowType \cup {NoRow}]
      /\ new[r] \in RowType
      /\ new[r].executor = rows[r].executor
      /\ new[r].attempt = rows[r].attempt
      /\ new[r].node = rows[r].node
      /\ new[r].status = status
      /\ \A q \in Run \ {r} : new[q] = rows[q]
  BY <1>1 DEF RowsTyped, RowType
<1>3. rows' \in {rows, new} /\ (answer = "ok" => rows' = new)
  BY DEF FinishRun, Call
<1>4. /\ faults' \in 0..MaxFaults
      /\ faults' = IF answer = "ok" THEN faults ELSE faults + 1
  BY ConstantsAssumption DEF FinishRun, Call
<1> HIDE DEF new
<1> QED
  BY <1>1, <1>2, <1>3, <1>4 DEF RowsTyped

\* Inserting a row changes the row after the last one, which was empty.
LEMMA InsertEffect ==
  ASSUME TypeOK, RowsTyped,
         NEW e \in Executor, NEW status \in ActiveStatuses, NEW attempt \in 1..MaxAttempts,
         Insert(e, status, attempt)
  PROVE  /\ created' \in 0..MaxRuns
         /\ \A q \in Run : IF q <= created' THEN rows'[q] \in RowType ELSE rows'[q] = NoRow
         /\ RowsTyped'
         /\ created + 1 \in Run
         /\ rows[created + 1] = NoRow
         /\ rows'[created + 1] = [executor |-> e, status |-> status, attempt |-> attempt,
                                  node |-> status = "running"]
         /\ \A q \in Run \ {created + 1} : rows'[q] = rows[q]
<1>1. created \in Nat /\ created + 1 \in Run /\ created' = created + 1 /\ MaxRuns \in Nat
  BY ConstantsAssumption DEF TypeOK, Insert, Run
<1>2. rows[created + 1] = NoRow
  BY <1>1 DEF TypeOK
<1>3. rows'[created + 1] = [executor |-> e, status |-> status, attempt |-> attempt,
                                  node |-> status = "running"]
  BY <1>1 DEF Insert, RowsTyped
<1>4. \A q \in Run \ {created + 1} : rows'[q] = rows[q]
  BY <1>1 DEF Insert, RowsTyped
<1>5. [executor |-> e, status |-> status, attempt |-> attempt,
                                  node |-> status = "running"] \in RowType
  BY DEF RowType
<1>6. RowsTyped'
  BY <1>1, <1>5 DEF Insert, RowsTyped
<1>7. /\ created' \in 0..MaxRuns
      /\ \A q \in Run : IF q <= created' THEN rows'[q] \in RowType ELSE rows'[q] = NoRow
  BY <1>1, <1>3, <1>4, <1>5 DEF TypeOK, Insert, Run
<1> QED
  BY <1>1, <1>2, <1>3, <1>4, <1>6, <1>7

\* A run has a row exactly when it has been created.
LEMMA CreatedHaveRows ==
  ASSUME TypeOK, NEW r \in Run
  PROVE  /\ NoRow \notin RowType
         /\ rows[r] # NoRow <=> r <= created
         /\ rows[r] # NoRow <=> rows[r].status # "none"
  BY DEF TypeOK, RowType, NoRow, ActiveStatuses, EndStatuses

-----------------------------------------------------------------------------
(* The invariant is inductive *)

LEMMA IInvInit == Init => IInv
<1> SUFFICES ASSUME Init
             PROVE  IInv
  OBVIOUS
<1>1. TypeOK
  BY ConstantsAssumption DEF Init, TypeOK, Run, Idle, PCs
<1>2. RowsTyped
  BY DEF Init, RowsTyped
<1>3. WorkersHaveRows
  BY DEF Init, WorkersHaveRows, Idle, Working, At, NoRow
<1>4. ContainersHeld /\ ExpiredHeld
  BY DEF Init, ContainersHeld, ExpiredHeld
<1> QED
  BY <1>1, <1>2, <1>3, <1>4 DEF IInv

\* Where a goroutine may be sent to.
LEMMA GotoEffect ==
  ASSUME TypeOK, NEW r \in Run, NEW pc \in PCs, Goto(r, pc)
  PROVE  /\ workers' \in [Run -> [pc : PCs, outcome : (EndStatuses \ {"timed_out"}) \cup {"none"}]]
         /\ workers'[r].pc = pc
         /\ \A q \in Run \ {r} : workers'[q] = workers[q]
  BY DEF TypeOK, Goto

\* An action that leaves the rows alone keeps their types.
LEMMA RowsKept ==
  ASSUME IInv, UNCHANGED <<rows, created>>
  PROVE  /\ created' \in 0..MaxRuns
         /\ \A q \in Run : IF q <= created' THEN rows'[q] \in RowType ELSE rows'[q] = NoRow
         /\ RowsTyped'
  BY DEF IInv, TypeOK, RowsTyped

\* The handlers and the dispatcher.
LEMMA IInvAdmission ==
  ASSUME IInv,
         \/ \E e \in Executor : StartRun(e) \/ RefuseRun(e) \/ QueueRun(e)
         \/ DispatchQueuedRun
  PROVE  IInv'
<1> USE DEF IInv
<1>1. ASSUME NEW e \in Executor, StartRun(e)
      PROVE  IInv'
  <2> DEFINE new == created + 1
  <2>1. Insert(e, "running", 1) /\ 1 \in 1..MaxAttempts /\ "running" \in ActiveStatuses
    BY <1>1, ConstantsAssumption DEF StartRun, ActiveStatuses, FirstAttempt
  <2>2. /\ created' \in 0..MaxRuns
        /\ \A q \in Run : IF q <= created' THEN rows'[q] \in RowType ELSE rows'[q] = NoRow
        /\ RowsTyped'
        /\ new \in Run
        /\ rows[new] = NoRow
        /\ rows'[new] = [executor |-> e, status |-> "running", attempt |-> 1, node |-> TRUE]
        /\ \A q \in Run \ {new} : rows'[q] = rows[q]
    BY <2>1, InsertEffect
  <2> HIDE DEF new
  <2>3. /\ workers' \in [Run -> [pc : PCs, outcome : (EndStatuses \ {"timed_out"}) \cup {"none"}]]
        /\ workers'[new].pc = "granted"
        /\ \A q \in Run \ {new} : workers'[q] = workers[q]
    BY <1>1, <2>2, GotoEffect DEF StartRun, PCs, new
  <2>4. TypeOK'
    BY <1>1, <2>2, <2>3 DEF TypeOK, StartRun
  <2>5. WorkersHaveRows'
    BY <1>1, <2>2, <2>3 DEF WorkersHaveRows, At, StartRun, Started
  <2>6. ContainersHeld'
    BY <1>1, <2>2, <2>3 DEF ContainersHeld, StartRun, NoRow, TransportOf, TypeOK
  <2>7. ExpiredHeld'
    BY <1>1, <2>2, <2>3 DEF ExpiredHeld, StartRun, TransportOf, At, TypeOK
  <2> QED
    BY <2>2, <2>4, <2>5, <2>6, <2>7
<1>2. ASSUME NEW e \in Executor, RefuseRun(e)
      PROVE  IInv'
  BY <1>2
  DEF RefuseRun, TypeOK, RowsTyped, WorkersHaveRows, ContainersHeld, ExpiredHeld, At, TransportOf
<1>3. ASSUME NEW e \in Executor, QueueRun(e)
      PROVE  IInv'
  <2> DEFINE new == created + 1
  <2>1. Insert(e, "queued", 1) /\ 1 \in 1..MaxAttempts /\ "queued" \in ActiveStatuses
    BY <1>3, ConstantsAssumption DEF QueueRun, ActiveStatuses, FirstAttempt
  <2>2. /\ created' \in 0..MaxRuns
        /\ \A q \in Run : IF q <= created' THEN rows'[q] \in RowType ELSE rows'[q] = NoRow
        /\ RowsTyped'
        /\ new \in Run
        /\ rows[new] = NoRow
        /\ rows'[new] = [executor |-> e, status |-> "queued", attempt |-> 1, node |-> FALSE]
        /\ \A q \in Run \ {new} : rows'[q] = rows[q]
    BY <2>1, InsertEffect
  <2> HIDE DEF new
  <2>4. TypeOK'
    BY <1>3, <2>2 DEF TypeOK, QueueRun
  <2>5. WorkersHaveRows'
    BY <1>3, <2>2 DEF WorkersHaveRows, At, QueueRun, NoRow, Working, Started, EndStatuses
  <2>6. ContainersHeld'
    BY <1>3, <2>2 DEF ContainersHeld, QueueRun, NoRow, TransportOf, TypeOK
  <2>7. ExpiredHeld'
    BY <1>3, <2>2 DEF ExpiredHeld, QueueRun, TransportOf, At, TypeOK
  <2> QED
    BY <2>2, <2>4, <2>5, <2>6, <2>7
<1>4. ASSUME DispatchQueuedRun
      PROVE  IInv'
  <2>1. PICK r \in Run : /\ rows[r].status = "queued"
                         /\ rows' = [rows EXCEPT ![r].status = "running", ![r].node = TRUE]
                         /\ Goto(r, "dispatched")
    BY <1>4 DEF DispatchQueuedRun, Dispatchable
  <2>2. /\ rows[r] \in RowType
        /\ rows'[r] = [rows[r] EXCEPT !.status = "running", !.node = TRUE]
        /\ rows'[r] \in RowType
        /\ \A q \in Run \ {r} : rows'[q] = rows[q]
        /\ RowsTyped'
    <3>1. rows[r] \in RowType
      BY <2>1 DEF RowsTyped, NoRow
    <3> DEFINE row == [rows[r] EXCEPT !.status = "running", !.node = TRUE]
    <3>2. row \in RowType
      BY <3>1 DEF RowType, ActiveStatuses
    <3>3. rows' = [rows EXCEPT ![r] = row]
      BY <2>1
    <3> HIDE DEF row
    <3>4. rows'[r] = row /\ RowsTyped' /\ \A q \in Run \ {r} : rows'[q] = rows[q]
      BY <3>2, <3>3 DEF RowsTyped
    <3> QED
      BY <3>1, <3>2, <3>4 DEF row
  <2>3. /\ workers' \in [Run -> [pc : PCs, outcome : (EndStatuses \ {"timed_out"}) \cup {"none"}]]
        /\ workers'[r].pc = "dispatched"
        /\ \A q \in Run \ {r} : workers'[q] = workers[q]
    BY <2>1, GotoEffect DEF PCs
  <2>4. TypeOK'
    <3>1. r <= created
      BY <2>2, CreatedHaveRows
    <3> QED
      BY <1>4, <2>2, <2>3, <3>1 DEF TypeOK, DispatchQueuedRun
  <2>5. /\ rows'[r].status = "running"
        /\ rows'[r].executor = rows[r].executor
        /\ rows'[r].node
        /\ r \notin reported /\ UNCHANGED <<containers, uncleaned, history>>
    <3>1. rows'[r].status = "running" /\ rows'[r].executor = rows[r].executor /\ rows'[r].node
      BY <2>2 DEF RowType
    <3>2. r \notin reported
      BY <2>1 DEF WorkersHaveRows, Started, EndStatuses
    <3> QED
      BY <1>4, <3>1, <3>2 DEF DispatchQueuedRun
  <2>6. WorkersHaveRows'
    <3>1. ASSUME NEW q \in Run \ {r}
          PROVE  rows'[q] = rows[q] /\ workers'[q] = workers[q]
      BY <2>2, <2>3
    <3>2. workers'[r].pc = "dispatched" /\ rows'[r].status = "running" /\ rows'[r].node
      BY <2>3, <2>5
    <3> QED
      BY <2>5, <3>1, <3>2 DEF WorkersHaveRows, At, Started
  <2>7. ContainersHeld'
    <3>1. r \notin containers \ (uncleaned \cup silent \cup reported)
      BY <2>1 DEF ContainersHeld
    <3>2. \A q \in Run \ {r} : rows'[q] = rows[q] /\ workers'[q] = workers[q]
      BY <2>2, <2>3
    <3>3. containers \subseteq Run
      BY DEF TypeOK
    <3> QED
      BY <2>5, <3>1, <3>2, <3>3 DEF ContainersHeld, TransportOf
  <2>8. ExpiredHeld'
    <3>1. rows[r].status # "running" /\ rows[r].status # "timed_out"
      BY <2>1
    <3>2. rows'[r] # NoRow
      BY <2>5 DEF NoRow
    <3> QED
      <4>1. r \in expired => TransportOf(r) # "docker"
        BY <2>5, <3>1 DEF ExpiredHeld
      <4>2. \A q \in Run \ {r} : rows'[q] = rows[q] /\ workers'[q] = workers[q]
        BY <2>2, <2>3
      <4>3. expired \subseteq Run
        BY DEF TypeOK
      <4> QED
        BY <2>5, <3>2, <4>1, <4>2, <4>3 DEF ExpiredHeld, TransportOf, At
  <2> QED
    BY <2>2, <2>4, <2>6, <2>7, <2>8
<1> QED
  BY <1>1, <1>2, <1>3, <1>4

\* The actions of a goroutine that leave every row alone.
LEMMA IInvWorking ==
  ASSUME IInv, NEW r \in Run,
         \/ LoseDispatchedRun(r) \/ Start(r) \/ Prepare(r) \/ Launch(r)
         \/ WorkerDone(r) \/ WorkerBreaks(r) \/ ContainerEnds(r)
         \/ Expire(r) \/ CleanUp(r)
  PROVE  IInv'
<1> USE DEF IInv
<1> DEFINE Moved(pc) == Goto(r, pc) /\ UNCHANGED <<rows, created>>
<1>1. ASSUME NEW pc \in PCs, Moved(pc)
      PROVE  /\ workers' \in [Run -> [pc : PCs, outcome : (EndStatuses \ {"timed_out"}) \cup {"none"}]]
             /\ workers'[r].pc = pc
             /\ \A q \in Run \ {r} : workers'[q] = workers[q]
             /\ created' \in 0..MaxRuns
             /\ \A q \in Run : IF q <= created' THEN rows'[q] \in RowType ELSE rows'[q] = NoRow
             /\ RowsTyped'
             /\ rows' = rows
  BY <1>1, GotoEffect, RowsKept
<1>2. ASSUME LoseDispatchedRun(r)
      PROVE  IInv'
  <2>1. Moved("none") /\ "none" \in PCs
    BY <1>2 DEF LoseDispatchedRun, PCs
  <2>2. TypeOK'
    BY <1>1, <1>2, <2>1, ConstantsAssumption DEF LoseDispatchedRun, TypeOK
  <2>3. WorkersHaveRows'
    BY <1>1, <1>2, <2>1 DEF LoseDispatchedRun, WorkersHaveRows, At, Working
  <2>4. ContainersHeld'
    BY <1>1, <1>2, <2>1 DEF LoseDispatchedRun, ContainersHeld, TransportOf, At, TypeOK
  <2>5. ExpiredHeld'
    BY <1>1, <1>2, <2>1 DEF LoseDispatchedRun, ExpiredHeld, TransportOf, At, TypeOK
  <2> QED
    BY <1>1, <2>1, <2>2, <2>3, <2>4, <2>5
<1>3. ASSUME Start(r)
      PROVE  IInv'
  <2>1. Moved("preparing") /\ "preparing" \in PCs
    BY <1>3 DEF Start, PCs
  <2>2. TypeOK'
    BY <1>1, <1>3, <2>1 DEF Start, TypeOK
  <2>3. WorkersHaveRows'
    BY <1>1, <1>3, <2>1 DEF Start, WorkersHaveRows, At, Working
  <2>4. ContainersHeld'
    BY <1>1, <1>3, <2>1 DEF Start, ContainersHeld, TransportOf, At, TypeOK
  <2>5. ExpiredHeld'
    BY <1>1, <1>3, <2>1 DEF Start, ExpiredHeld, TransportOf, At, TypeOK
  <2> QED
    BY <1>1, <2>1, <2>2, <2>3, <2>4, <2>5
<1>4. ASSUME Prepare(r)
      PROVE  IInv'
  <2>1. PICK pc \in {"prepared", "failing"} : Moved(pc) /\ pc \in PCs
    BY <1>4 DEF Prepare, PCs
  <2>2. TypeOK'
    BY <1>1, <1>4, <2>1 DEF Prepare, TypeOK
  <2>3. WorkersHaveRows'
    BY <1>1, <1>4, <2>1 DEF Prepare, WorkersHaveRows, At, Working
  <2>4. ContainersHeld'
    BY <1>1, <1>4, <2>1 DEF Prepare, ContainersHeld, TransportOf, At, TypeOK
  <2>5. ExpiredHeld'
    BY <1>1, <1>4, <2>1 DEF Prepare, ExpiredHeld, TransportOf, At, TypeOK
  <2> QED
    BY <1>1, <2>1, <2>2, <2>3, <2>4, <2>5
<1>5. ASSUME Launch(r)
      PROVE  IInv'
  <2>1. Moved("executing") /\ "executing" \in PCs
    BY <1>5 DEF Launch, PCs
  <2>2. TypeOK'
    BY <1>1, <1>5, <2>1 DEF Launch, TypeOK
  <2>3. WorkersHaveRows'
    BY <1>1, <1>5, <2>1 DEF Launch, WorkersHaveRows, At, Working
  <2>4. ContainersHeld'
    BY <1>1, <1>5, <2>1 DEF Launch, ContainersHeld, TransportOf, At, TypeOK, WorkersHaveRows, Working
  <2>5. ExpiredHeld'
    BY <1>1, <1>5, <2>1 DEF Launch, ExpiredHeld, TransportOf, At, TypeOK
  <2> QED
    BY <1>1, <2>1, <2>2, <2>3, <2>4, <2>5
<1>6. ASSUME WorkerDone(r)
      PROVE  IInv'
  <2>1. PICK outcome \in OutcomesOf(TransportOf(r)) :
          workers' = [workers EXCEPT ![r] = [pc |-> "reporting", outcome |-> outcome]]
    BY <1>6 DEF WorkerDone
  <2>2. rows[r].status = "running" \/ r \in reported
    BY <1>6 DEF WorkerDone, WorkersHaveRows, Working, At
  <2>3. outcome \in EndStatuses \ {"timed_out"}
    <3>1. rows[r] \in RowType
      BY <1>6 DEF RowsTyped, NoRow, WorkerDone, WorkersHaveRows, At, Started, EndStatuses
    <3>2. TransportOf(r) \in {"docker", "local", "agentd", "forced"}
      BY <3>1, ConstantsAssumption DEF TransportOf, RowType
    <3> QED
      BY <2>1, <3>2, ConstantsAssumption DEF OutcomesOf, LocalLifecycle, AgentRecordsRun, EndStatuses
  <2>4. /\ workers' \in [Run -> [pc : PCs, outcome : (EndStatuses \ {"timed_out"}) \cup {"none"}]]
        /\ workers'[r] = [pc |-> "reporting", outcome |-> outcome]
        /\ \A q \in Run \ {r} : workers'[q] = workers[q]
    BY <2>1, <2>3 DEF TypeOK, PCs
  <2>5. TypeOK' /\ RowsTyped'
    BY <1>6, <2>4, RowsKept DEF WorkerDone, TypeOK
  <2>6. WorkersHaveRows'
    BY <1>6, <2>2, <2>3, <2>4 DEF WorkerDone, WorkersHaveRows, At, EndStatuses, Started
  <2>7. ContainersHeld'
    BY <1>6, <2>4 DEF WorkerDone, ContainersHeld, TransportOf, TypeOK
  <2>8. ExpiredHeld'
    BY <1>6, <2>4 DEF WorkerDone, ExpiredHeld, TransportOf, At, TypeOK
  <2> QED
    BY <2>5, <2>6, <2>7, <2>8
<1>7. ASSUME WorkerBreaks(r)
      PROVE  IInv'
  <2>1. Moved("failing") /\ "failing" \in PCs
    BY <1>7 DEF WorkerBreaks, PCs
  <2>2. TypeOK'
    BY <1>1, <1>7, <2>1 DEF WorkerBreaks, TypeOK
  <2>3. WorkersHaveRows'
    BY <1>1, <1>7, <2>1 DEF WorkerBreaks, WorkersHaveRows, At, Working
  <2>4. ContainersHeld'
    BY <1>1, <1>7, <2>1 DEF WorkerBreaks, ContainersHeld, TransportOf, At, TypeOK
  <2>5. ExpiredHeld'
    BY <1>1, <1>7, <2>1 DEF WorkerBreaks, ExpiredHeld, TransportOf, At, TypeOK
  <2> QED
    BY <1>1, <2>1, <2>2, <2>3, <2>4, <2>5
<1>8. ASSUME ContainerEnds(r)
      PROVE  IInv'
  <2>1. TypeOK' /\ RowsTyped'
    BY <1>8, RowsKept DEF ContainerEnds, TypeOK
  <2>2. WorkersHaveRows'
    BY <1>8 DEF ContainerEnds, WorkersHaveRows, At
  <2>3. ContainersHeld' /\ ExpiredHeld'
    BY <1>8 DEF ContainerEnds, ContainersHeld, ExpiredHeld, TransportOf, At
  <2> QED
    BY <2>1, <2>2, <2>3
<1>9. ASSUME Expire(r)
      PROVE  IInv'
  <2>1. /\ rows[r].status = "running" \/ r \in reported
        /\ rows[r].status \in Started
        /\ rows[r] # NoRow
        /\ TransportOf(r) \in {"docker", "local", "agentd", "forced"}
    <3>1. (rows[r].status = "running" \/ r \in reported) /\ rows[r].status \in Started
      BY <1>9 DEF Expire, WorkersHaveRows, Working, At
    <3>2. rows[r] \in RowType
      BY <3>1 DEF RowsTyped, NoRow, Started, EndStatuses
    <3> QED
      BY <3>1, <3>2, ConstantsAssumption DEF TransportOf, RowType, NoRow
  <2>2. PICK pc \in {"cleaning", "timing_out", "failing"} :
          /\ Moved(pc) /\ pc \in PCs
          /\ TransportOf(r) = "docker" => pc = "cleaning"
    BY <1>9, <2>1 DEF Expire, Stopped, NotStarted, PCs
  <2>3. TypeOK'
    BY <1>1, <1>9, <2>2 DEF Expire, TypeOK
  <2>4. WorkersHaveRows'
    BY <1>1, <1>9, <2>1, <2>2 DEF Expire, WorkersHaveRows, At
  <2>5. ContainersHeld'
    BY <1>1, <1>9, <2>2 DEF Expire, ContainersHeld, TransportOf, TypeOK
  <2>6. ExpiredHeld'
    BY <1>1, <1>9, <2>1, <2>2 DEF Expire, ExpiredHeld, TransportOf, At, TypeOK
  <2> QED
    BY <1>1, <2>2, <2>3, <2>4, <2>5, <2>6
<1>10. ASSUME CleanUp(r)
       PROVE  IInv'
  <2>1. Moved("timing_out") /\ "timing_out" \in PCs
    BY <1>10 DEF CleanUp, PCs
  <2>2. rows[r].status \in Started /\ UNCHANGED <<reported, expired>>
    BY <1>10 DEF CleanUp, WorkersHaveRows, At
  <2>3. TypeOK'
    BY <1>1, <1>10, <2>1, ConstantsAssumption DEF CleanUp, TypeOK
  <2>4. WorkersHaveRows'
    BY <1>1, <2>1, <2>2 DEF WorkersHaveRows, At, Working
  <2>5. ContainersHeld'
    BY <1>1, <1>10, <2>1 DEF CleanUp, ContainersHeld, TransportOf, TypeOK
  <2>6. ExpiredHeld'
    BY <1>1, <1>10, <2>1, <2>2 DEF CleanUp, ExpiredHeld, TransportOf, At, TypeOK
  <2> QED
    BY <1>1, <2>1, <2>3, <2>4, <2>5, <2>6
<1> QED
  BY <1>2, <1>3, <1>4, <1>5, <1>6, <1>7, <1>8, <1>9, <1>10

\* The actions that record how a run ended: the row keeps its kind and attempt,
\* and the goroutine goes on to pc.
LEMMA IInvEnding ==
  ASSUME IInv, NEW r \in Run,
         BlockByPolicy(r) \/ Report(r) \/ Fail(r) \/ Timeout(r)
  PROVE  IInv'
<1> USE DEF IInv
<1>1. /\ rows[r] # NoRow
      /\ workers[r].pc \in {"granted", "dispatched", "reporting", "failing", "timing_out"}
      /\ UNCHANGED <<refused, created, containers, uncleaned, others, history>>
  BY DEF BlockByPolicy, Report, Fail, Timeout, At, WorkersHaveRows, NoRow, Started, EndStatuses
\* What there is to show, of the status that is recorded and of where the
\* goroutine goes.
<1>2. ASSUME NEW status \in EndStatuses, NEW answer \in Answer, FinishRun(r, status, answer),
             NEW pc \in {"none", "failing", "timing_out", "retrying"}, Goto(r, pc),
             pc = "retrying" => rows[r].attempt < MaxAttempts,
             r \in expired \ reported /\ TransportOf(r) = "docker"
               => pc = "none" /\ status = "timed_out"
      PROVE  IInv'
  <2>1. faults \in 0..MaxFaults
    BY DEF TypeOK
  <2>2. /\ RowsTyped'
        /\ rows'[r] \in RowType
        /\ rows'[r].executor = rows[r].executor
        /\ rows'[r].attempt = rows[r].attempt
        /\ rows'[r].node = rows[r].node
        /\ rows'[r].status \in {rows[r].status, status}
        /\ \A q \in Run \ {r} : rows'[q] = rows[q]
        /\ faults' \in 0..MaxFaults
    BY <1>1, <1>2, <2>1, FinishRunEffect
  <2>3. /\ workers' \in [Run -> [pc : PCs, outcome : (EndStatuses \ {"timed_out"}) \cup {"none"}]]
        /\ workers'[r].pc = pc
        /\ \A q \in Run \ {r} : workers'[q] = workers[q]
    <3>1. pc \in PCs
      BY DEF PCs
    <3> QED
      BY <1>2, <3>1, GotoEffect
  <2>4. TypeOK'
    <3>1. r <= created
      BY <1>1, CreatedHaveRows
    <3> QED
      BY <1>1, <2>2, <2>3, <3>1 DEF TypeOK
  <2>5. WorkersHaveRows'
    <3>1. rows[r].status \in Started /\ status \in Started /\ status # "running"
      BY <1>1 DEF WorkersHaveRows, Started, EndStatuses
    <3>2. ASSUME NEW q \in Run \ {r}
          PROVE  rows'[q] = rows[q] /\ workers'[q] = workers[q]
      BY <2>2, <2>3
    <3>3. rows'[r].status \in Started /\ (rows'[r].status = "running" => rows[r].status = "running")
      BY <2>2, <3>1
    <3> HIDE DEF Started
    <3> QED
      BY <1>1, <1>2, <2>2, <2>3, <3>2, <3>3 DEF WorkersHaveRows, At, Working
  <2>6. ContainersHeld'
    BY <1>1, <2>2, <2>3 DEF ContainersHeld, TransportOf, TypeOK
  <2>7. ExpiredHeld'
    <3>1. rows'[r] # NoRow
      BY <2>2, CreatedHaveRows
    <3>2. r \in expired \ reported /\ TransportOf(r) = "docker" => rows[r].status = "running"
      BY <1>1 DEF ExpiredHeld, At
    <3> QED
      BY <1>1, <1>2, <2>2, <2>3, <3>1, <3>2 DEF ExpiredHeld, TransportOf, At, TypeOK
  <2> QED
    BY <2>2, <2>4, <2>5, <2>6, <2>7
\* A docker run whose time was over can only be timing out here.
<1>3. r \in expired \ reported /\ TransportOf(r) = "docker" => At(r, "timing_out")
  BY <1>1 DEF ExpiredHeld, At
<1>4. ASSUME BlockByPolicy(r)
      PROVE  IInv'
  <2>1. /\ Goto(r, "none") /\ ~At(r, "timing_out")
        /\ \E answer \in Answer : FinishRun(r, "blocked", answer)
    BY <1>4 DEF BlockByPolicy, At
  <2> QED
    BY <1>2, <1>3, <2>1 DEF EndStatuses
<1>5. ASSUME Report(r)
      PROVE  IInv'
  <2>1. workers[r].outcome \in EndStatuses \ {"timed_out"}
    BY <1>5 DEF Report, WorkersHaveRows, At, TypeOK
  <2>2. PICK answer \in Answer :
          /\ FinishRun(r, workers[r].outcome, answer)
          /\ Goto(r, CASE answer = "ok" -> "none"
                       [] answer = "error" -> "failing"
                       [] answer = "deadline" -> "timing_out")
    BY <1>5 DEF Report
  <2>3. PICK pc \in {"none", "failing", "timing_out"} : Goto(r, pc)
    BY <2>2 DEF Answer
  <2>4. ~At(r, "timing_out")
    BY <1>5 DEF Report, At
  <2> QED
    BY <1>2, <1>3, <2>1, <2>2, <2>3, <2>4
<1>6. ASSUME Fail(r)
      PROVE  IInv'
  <2>1. PICK answer \in Answer : FinishRun(r, "failed", answer)
    BY <1>6 DEF Fail
  <2>2. PICK pc \in {"none", "retrying"} :
          Goto(r, pc) /\ (pc = "retrying" => rows[r].attempt < MaxAttempts)
    BY <1>6 DEF Fail, MayRetry
  <2>3. ~At(r, "timing_out") /\ "failed" \in EndStatuses
    BY <1>6 DEF Fail, At, EndStatuses
  <2> QED
    BY <1>2, <1>3, <2>1, <2>2, <2>3
<1>7. ASSUME Timeout(r)
      PROVE  IInv'
  <2>1. PICK answer \in Answer : FinishRun(r, "timed_out", answer)
    BY <1>7 DEF Timeout
  <2>2. Goto(r, "none") /\ "timed_out" \in EndStatuses
    BY <1>7 DEF Timeout, AfterTimeout, EndStatuses
  <2> QED
    BY <1>2, <2>1, <2>2
<1> QED
  BY <1>4, <1>5, <1>6, <1>7

\* The next attempt is queued, or is not.
LEMMA IInvRetry ==
  ASSUME IInv, NEW r \in Run, Retry(r)
  PROVE  IInv'
<1> USE DEF IInv
<1>1. /\ At(r, "retrying") /\ Goto(r, "none")
      /\ rows[r] \in RowType /\ rows[r].attempt < MaxAttempts
      /\ UNCHANGED <<refused, containers, uncleaned, others, history>>
  BY DEF Retry, WorkersHaveRows, At, RowsTyped, NoRow, Started, EndStatuses
<1>2. /\ workers' \in [Run -> [pc : PCs, outcome : (EndStatuses \ {"timed_out"}) \cup {"none"}]]
      /\ workers'[r].pc = "none"
      /\ \A q \in Run \ {r} : workers'[q] = workers[q]
  BY <1>1, GotoEffect DEF PCs
\* An expired docker run and a container that can be removed are other runs'.
<1>3. /\ r \in expired \ reported => TransportOf(r) # "docker"
      /\ r \notin containers \ (uncleaned \cup silent \cup reported)
  BY <1>1 DEF ContainersHeld, ExpiredHeld, At
<1>4. ASSUME Insert(rows[r].executor, "queued", rows[r].attempt + 1), UNCHANGED faults
      PROVE  IInv'
  <2> DEFINE new == created + 1
  <2>1. /\ rows[r].executor \in Executor /\ "queued" \in ActiveStatuses
        /\ rows[r].attempt + 1 \in 1..MaxAttempts
    BY <1>1, ConstantsAssumption DEF RowType, ActiveStatuses
  <2>2. /\ created' \in 0..MaxRuns
        /\ \A q \in Run : IF q <= created' THEN rows'[q] \in RowType ELSE rows'[q] = NoRow
        /\ RowsTyped'
        /\ new \in Run
        /\ rows[new] = NoRow
        /\ rows'[new] = [executor |-> rows[r].executor, status |-> "queued",
                         attempt |-> rows[r].attempt + 1, node |-> FALSE]
        /\ \A q \in Run \ {new} : rows'[q] = rows[q]
    BY <1>4, <2>1, InsertEffect
  <2> HIDE DEF new
  <2>3. workers[new].pc = "none" /\ workers'[new].pc = "none" /\ new \notin reported
    BY <1>2, <2>2 DEF WorkersHaveRows, NoRow, Started, EndStatuses
  <2>4. TypeOK'
    BY <1>1, <1>2, <1>4, <2>2 DEF TypeOK
  <2>5. WorkersHaveRows'
    BY <1>1, <1>2, <2>2, <2>3 DEF WorkersHaveRows, At, Working
  <2>6. ContainersHeld'
    BY <1>1, <1>2, <2>2, <2>3 DEF ContainersHeld, NoRow, TransportOf, TypeOK
  <2>7. ExpiredHeld'
    BY <1>1, <1>2, <1>3, <2>2, <2>3 DEF ExpiredHeld, TransportOf, At, TypeOK
  <2> QED
    BY <2>2, <2>4, <2>5, <2>6, <2>7
<1>5. ASSUME UNCHANGED <<rows, created>>, faults' \in 0..MaxFaults
      PROVE  IInv'
  <2>1. TypeOK' /\ RowsTyped'
    BY <1>1, <1>2, <1>5, RowsKept DEF TypeOK
  <2>2. WorkersHaveRows'
    BY <1>1, <1>2, <1>5 DEF WorkersHaveRows, At, Working
  <2>3. ContainersHeld' /\ ExpiredHeld'
    BY <1>1, <1>2, <1>3, <1>5 DEF ContainersHeld, ExpiredHeld, TransportOf, At, TypeOK
  <2> QED
    BY <2>1, <2>2, <2>3
<1>6. \/ Insert(rows[r].executor, "queued", rows[r].attempt + 1) /\ UNCHANGED faults
      \/ UNCHANGED <<rows, created>> /\ faults' \in 0..MaxFaults
  BY ConstantsAssumption DEF Retry, TypeOK
<1> QED
  BY <1>4, <1>5, <1>6

LEMMA IInvCrash ==
  ASSUME IInv, Crash
  PROVE  IInv'
<1> USE DEF IInv
<1>1. /\ workers' = [r \in Run |-> Idle] /\ refused' = {}
      /\ UNCHANGED <<rows, created, containers, uncleaned, others, history>>
      /\ faults' \in 0..MaxFaults
  BY ConstantsAssumption DEF Crash, TypeOK
<1>2. TypeOK' /\ RowsTyped'
  BY <1>1, RowsKept DEF TypeOK, Idle, PCs
<1>3. WorkersHaveRows'
  BY <1>1 DEF WorkersHaveRows, Idle, Working, At
<1>4. ContainersHeld'
  BY <1>1 DEF ContainersHeld, Idle, TransportOf, TypeOK
<1>5. ExpiredHeld'
  BY <1>1 DEF ExpiredHeld, Idle, TransportOf, At, TypeOK
<1> QED
  BY <1>2, <1>3, <1>4, <1>5

\* A report changes the status of a run, and of others nothing but slots is known.
LEMMA IInvOutside ==
  ASSUME IInv,
         \/ \E r \in Run, status \in ReportedStatuses : ReportRun(r, status)
         \/ \E e \in Executor : OthersStart(e) \/ OthersEnd(e)
  PROVE  IInv'
<1> USE DEF IInv
<1>1. ASSUME NEW r \in Run, NEW status \in ReportedStatuses, ReportRun(r, status)
      PROVE  IInv'
  <2>1. /\ rows[r] \in RowType /\ status \in Started
        /\ rows' = [rows EXCEPT ![r].status = status]
        /\ reported' = reported \cup {r}
        /\ UNCHANGED <<refused, created, workers, containers, uncleaned, others, silent, expired, faults>>
    BY <1>1, ConstantsAssumption DEF ReportRun, RowsTyped, Started, EndStatuses
  <2>2. /\ rows'[r] = [rows[r] EXCEPT !.status = status]
        /\ \A q \in Run \ {r} : rows'[q] = rows[q]
    BY <2>1 DEF RowsTyped
  <2>3. rows'[r] \in RowType /\ rows'[r].status = status /\ rows'[r].attempt = rows[r].attempt
    BY <2>1, <2>2 DEF RowType, Started, ActiveStatuses
  <2>4. RowsTyped'
    BY <2>1, <2>3 DEF RowsTyped
  <2>5. TypeOK'
    <3>1. r <= created
      BY <2>1, CreatedHaveRows
    <3> QED
      BY <2>1, <2>2, <2>3, <3>1 DEF TypeOK
  <2>6. WorkersHaveRows'
    BY <2>1, <2>2, <2>3 DEF WorkersHaveRows, At
  <2>7. ContainersHeld'
    BY <2>1, <2>2 DEF ContainersHeld, TransportOf, TypeOK
  <2>8. ExpiredHeld'
    <3>1. rows'[r] # NoRow
      BY <2>3, CreatedHaveRows
    <3> QED
      BY <2>1, <2>2, <3>1 DEF ExpiredHeld, TransportOf, At, TypeOK
  <2> QED
    BY <2>4, <2>5, <2>6, <2>7, <2>8
<1>2. ASSUME NEW e \in Executor, OthersStart(e) \/ OthersEnd(e)
      PROVE  IInv'
  <2>1. /\ others' \in [Executor -> Nat]
        /\ UNCHANGED <<rows, created, refused, workers, containers, uncleaned, history, faults>>
    BY <1>2 DEF OthersStart, OthersEnd, TypeOK
  <2>2. TypeOK' /\ RowsTyped'
    BY <2>1 DEF TypeOK, RowsTyped
  <2>3. WorkersHaveRows' /\ ContainersHeld' /\ ExpiredHeld'
    BY <2>1 DEF WorkersHaveRows, ContainersHeld, ExpiredHeld, At, TransportOf
  <2> QED
    BY <2>2, <2>3
<1> QED
  BY <1>1, <1>2

LEMMA IInvNext == IInv /\ [Next]_vars => IInv'
<1> SUFFICES ASSUME IInv, [Next]_vars
             PROVE  IInv'
  OBVIOUS
<1>1. CASE Next
  BY <1>1, IInvAdmission, IInvWorking, IInvEnding, IInvRetry, IInvOutside, IInvCrash
  DEF Next, ManagerStep
<1>2. CASE UNCHANGED vars
  BY <1>2
  DEF vars, IInv, TypeOK, RowsTyped, WorkersHaveRows, ContainersHeld, ExpiredHeld, At, TransportOf
<1> QED
  BY <1>1, <1>2

\* IInv holds throughout.
LEMMA IInvAlways == Spec => []IInv
  BY IInvInit, IInvNext, PTL DEF Spec

-----------------------------------------------------------------------------
(* What follows from it *)

\* The types: no run is tried more often than its profile allows (fail,
\* enqueueRetryIfAllowed), however its attempts end, time out, lose their calls
\* of the store or their process.
THEOREM TypesHold == Spec => []TypeOK
<1>1. IInv => TypeOK
  BY DEF IInv
<1> QED
  BY <1>1, IInvAlways, PTL

\* A container never goes on after its run has given back its slot, unless it
\* could not be removed and an event says so, or was lost itself, or somebody has
\* reported on the run (runDocker, cleanupDockerContainer, FinishRun).
THEOREM ContainersKeepSlots == Spec => []ContainersHoldSlots
<1>1. IInv => ContainersHoldSlots
  BY DEF IInv, TypeOK, WorkersHaveRows, ContainersHeld, ContainersHoldSlots, Occupies
<1> QED
  BY <1>1, IInvAlways, PTL

\* A docker run that was stopped because its time was over and on which nobody
\* reports ends as timed out, or is left active by a lost call of the store or a
\* crash (runDocker, execute, timeout).
THEOREM DockerTimeouts == Spec => []ExpiredDockerRunsTimeOut
<1>1. IInv => ExpiredDockerRunsTimeOut
  BY DEF IInv, ExpiredHeld, ExpiredDockerRunsTimeOut, EndsAsTimedOut, Orphaned, At
<1> QED
  BY <1>1, IInvAlways, PTL

-----------------------------------------------------------------------------
(* Retries are paid for by failures and faults *)

\* There are finitely many runs, so they can be counted.
LEMMA RunsAreFinite ==
  ASSUME NEW S, S \subseteq Run
  PROVE  IsFiniteSet(S) /\ Cardinality(S) \in Nat
<1>1. 1 \in Int /\ MaxRuns \in Int
  BY ConstantsAssumption
<1>2. IsFiniteSet(Run)
  BY <1>1, FS_Interval DEF Run
<1> QED
  BY <1>2, FS_Subset, FS_CardinalityType

\* One run more is one more, at most; and exactly when it is new.
LEMMA OneMoreRun ==
  ASSUME NEW S \in SUBSET Run, NEW T \in SUBSET Run, NEW r \in Run
  PROVE  /\ T \subseteq S \cup {r} => Cardinality(T) <= Cardinality(S) + 1
         /\ S \cup {r} \subseteq T /\ r \notin S => Cardinality(S) + 1 <= Cardinality(T)
<1>1. /\ IsFiniteSet(S) /\ IsFiniteSet(T) /\ IsFiniteSet(S \cup {r})
      /\ Cardinality(S) \in Nat /\ Cardinality(T) \in Nat /\ Cardinality(S \cup {r}) \in Nat
  BY RunsAreFinite
<1>2. Cardinality(S \cup {r}) = IF r \in S THEN Cardinality(S) ELSE Cardinality(S) + 1
  BY <1>1, FS_AddElement
<1>3. T \subseteq S \cup {r} => Cardinality(T) <= Cardinality(S \cup {r})
  BY <1>1, FS_Subset
<1>4. S \cup {r} \subseteq T => Cardinality(S \cup {r}) <= Cardinality(T)
  BY <1>1, FS_Subset
<1> QED
  BY <1>1, <1>2, <1>3, <1>4

LEMMA CountsAreNat ==
  ASSUME NEW k
  PROVE  /\ Followers(k) \in SUBSET Run /\ Followers(k)' \in SUBSET Run
         /\ Failures(k) \in SUBSET Run /\ Failures(k)' \in SUBSET Run
         /\ Cardinality(Followers(k)) \in Nat /\ Cardinality(Followers(k)') \in Nat
         /\ Cardinality(Failures(k)) \in Nat /\ Cardinality(Failures(k)') \in Nat
<1>1. /\ Followers(k) \in SUBSET Run /\ Followers(k)' \in SUBSET Run
      /\ Failures(k) \in SUBSET Run /\ Failures(k)' \in SUBSET Run
  BY DEF Followers, Failures
<1> QED
  BY <1>1, RunsAreFinite

\* A step that makes no follower and takes back no failure keeps the balance.
LEMMA PaidStays ==
  ASSUME IInv, IInv', RetriesPaid, faults <= faults',
         \A q \in Run :
           /\ \/ rows'[q].attempt = rows[q].attempt
              \/ rows[q] = NoRow /\ rows'[q].attempt = 1
           /\ workers'[q].pc = "retrying" => workers[q].pc = "retrying"
           /\ Failed(q) /\ workers[q].pc \in {"none", "retrying"}
                => Failed(q)' /\ workers'[q].pc \in {"none", "retrying"}
  PROVE  RetriesPaid'
<1> SUFFICES ASSUME NEW k \in 1..MaxAttempts
             PROVE  Cardinality(Followers(k)') <= Cardinality(Failures(k)') + faults'
  BY DEF RetriesPaid
<1>1. k \in Nat /\ k # 0
  BY ConstantsAssumption
<1>2. Followers(k)' \subseteq Followers(k)
  BY <1>1 DEF Followers, At, IInv, WorkersHaveRows, NoRow, Started, EndStatuses
<1>3. Failures(k) \subseteq Failures(k)'
  <2>1. \A q \in Run : rows[q] = NoRow => rows[q].attempt # k
    BY <1>1 DEF NoRow
  <2> HIDE DEF history
  <2> QED
    BY <2>1 DEF Failures
<1>4. /\ Cardinality(Followers(k)') <= Cardinality(Followers(k))
      /\ Cardinality(Failures(k)) <= Cardinality(Failures(k)')
  BY <1>2, <1>3, CountsAreNat, RunsAreFinite, FS_Subset
<1>5. Cardinality(Followers(k)) <= Cardinality(Failures(k)) + faults
  BY DEF RetriesPaid
<1>6. faults \in Nat /\ faults' \in Nat
  BY ConstantsAssumption DEF IInv, TypeOK
<1> QED
  BY <1>4, <1>5, <1>6, CountsAreNat

\* A run that fails is a new failure, if that is recorded, and a fault otherwise.
LEMMA PaidByFail ==
  ASSUME IInv, IInv', RetriesPaid, NEW r \in Run, Fail(r)
  PROVE  RetriesPaid'
<1> SUFFICES ASSUME NEW k \in 1..MaxAttempts
             PROVE  Cardinality(Followers(k)') <= Cardinality(Failures(k)') + faults'
  BY DEF RetriesPaid
<1>1. PICK answer \in Answer : FinishRun(r, "failed", answer)
  BY DEF Fail
<1>2. At(r, "failing") /\ rows[r] # NoRow
  BY DEF Fail, IInv, WorkersHaveRows, At, NoRow, Started, EndStatuses
<1>3. /\ rows'[r].attempt = rows[r].attempt
      /\ answer = "ok" => rows'[r].status = "failed"
      /\ \A q \in Run \ {r} : rows'[q] = rows[q]
      /\ faults' = IF answer = "ok" THEN faults ELSE faults + 1
  <2>1. "failed" \in EndStatuses /\ RowsTyped /\ faults \in 0..MaxFaults
    BY DEF EndStatuses, IInv, TypeOK
  <2> QED
    BY <1>1, <1>2, <2>1, FinishRunEffect
<1>4. /\ workers'[r].pc \in {"none", "retrying"}
      /\ \A q \in Run \ {r} : workers'[q] = workers[q]
  <2>1. PICK pc \in {"none", "retrying"} : Goto(r, pc)
    BY DEF Fail
  <2> QED
    BY <2>1, GotoEffect DEF IInv, PCs
<1>5. Cardinality(Followers(k)) <= Cardinality(Failures(k)) + faults
  BY DEF RetriesPaid
<1>6. faults \in Nat /\ faults' \in Nat
  BY ConstantsAssumption DEF IInv, TypeOK
<1>7. r \notin Failures(k) /\ Failures(k) \subseteq Failures(k)'
  BY <1>2, <1>3, <1>4 DEF Failures, Failed, At, Fail
<1>8. Cardinality(Failures(k)) <= Cardinality(Failures(k)')
  BY <1>7, CountsAreNat, RunsAreFinite, FS_Subset
<1>9. CASE rows[r].attempt # k
  <2>1. Followers(k)' \subseteq Followers(k)
    BY <1>3, <1>4, <1>9 DEF Followers, At
  <2>2. Cardinality(Followers(k)') <= Cardinality(Followers(k))
    BY <2>1, CountsAreNat, RunsAreFinite, FS_Subset
  <2>3. faults <= faults'
    BY <1>3, <1>6
  <2> QED
    BY <1>5, <1>6, <1>8, <2>2, <2>3, CountsAreNat
<1>10. CASE rows[r].attempt = k
  <2>1. Followers(k)' \subseteq Followers(k) \cup {r}
    BY <1>3, <1>4 DEF Followers, At
  <2>2. Cardinality(Followers(k)') <= Cardinality(Followers(k)) + 1
    BY <2>1, CountsAreNat, OneMoreRun
  <2>3. CASE answer = "ok"
    <3>1. Failures(k) \cup {r} \subseteq Failures(k)'
      BY <1>3, <1>4, <1>7, <1>10, <2>3 DEF Failures, Failed
    <3>2. Cardinality(Failures(k)) + 1 <= Cardinality(Failures(k)')
      BY <1>7, <3>1, CountsAreNat, OneMoreRun
    <3> QED
      BY <1>3, <1>5, <1>6, <2>2, <2>3, <3>2, CountsAreNat
  <2>4. CASE answer # "ok"
    BY <1>3, <1>5, <1>6, <1>8, <2>2, <2>4, CountsAreNat
  <2> QED
    BY <2>3, <2>4
<1> QED
  BY <1>9, <1>10

\* The next attempt takes the place of the run it follows.
LEMMA PaidByRetry ==
  ASSUME IInv, IInv', RetriesPaid, NEW r \in Run, Retry(r)
  PROVE  RetriesPaid'
<1>1. /\ At(r, "retrying") /\ rows[r] \in RowType /\ rows[r].attempt < MaxAttempts
      /\ workers'[r].pc = "none"
      /\ \A q \in Run \ {r} : workers'[q] = workers[q]
  BY GotoEffect DEF Retry, IInv, PCs, WorkersHaveRows, At, RowsTyped, NoRow, Started, EndStatuses
<1>2. faults \in Nat /\ faults' \in Nat /\ faults <= faults'
  BY ConstantsAssumption DEF Retry, IInv, TypeOK
<1>3. CASE UNCHANGED <<rows, created>>
  BY <1>1, <1>2, <1>3, PaidStays DEF At, Retry, Failed
<1>4. CASE Insert(rows[r].executor, "queued", rows[r].attempt + 1)
  <2> SUFFICES ASSUME NEW k \in 1..MaxAttempts
               PROVE  Cardinality(Followers(k)') <= Cardinality(Failures(k)') + faults'
    BY DEF RetriesPaid
  <2> DEFINE new == created + 1
  <2>1. /\ rows[r].executor \in Executor /\ "queued" \in ActiveStatuses
        /\ rows[r].attempt + 1 \in 1..MaxAttempts
    BY <1>1, ConstantsAssumption DEF RowType, ActiveStatuses
  <2>2. /\ new \in Run
        /\ rows[new] = NoRow
        /\ rows'[new] = [executor |-> rows[r].executor, status |-> "queued",
                         attempt |-> rows[r].attempt + 1, node |-> FALSE]
        /\ \A q \in Run \ {new} : rows'[q] = rows[q]
    BY <1>4, <2>1, InsertEffect DEF IInv
  <2> HIDE DEF new
  <2>3. rows'[new].attempt = rows[r].attempt + 1 /\ workers[new].pc = "none" /\ new # r
    BY <1>1, <2>2 DEF IInv, WorkersHaveRows, NoRow, Started, EndStatuses, At
  <2>4. Failures(k) \subseteq Failures(k)'
    BY <1>1, <2>2, ConstantsAssumption DEF Failures, Failed, NoRow, Retry
  <2>5. Cardinality(Failures(k)) <= Cardinality(Failures(k)')
    BY <2>4, CountsAreNat, RunsAreFinite, FS_Subset
  <2>6. Cardinality(Followers(k)) <= Cardinality(Failures(k)) + faults
    BY DEF RetriesPaid
  <2>7. Cardinality(Followers(k)') <= Cardinality(Followers(k))
    <3>1. CASE rows[r].attempt # k
      <4>1. rows'[new].attempt # k + 1
        BY <1>1, <2>3, <3>1, ConstantsAssumption DEF RowType
      <4>2. Followers(k)' \subseteq Followers(k)
        BY <1>1, <2>2, <2>3, <4>1 DEF Followers, At
      <4> QED
        BY <4>2, CountsAreNat, RunsAreFinite, FS_Subset
    <3>2. CASE rows[r].attempt = k
      <4> DEFINE remaining == Followers(k) \ {r}
      <4>1. remaining \in SUBSET Run /\ r \notin remaining /\ remaining \cup {r} \subseteq Followers(k)
        BY <1>1, <3>2, CountsAreNat DEF Followers
      <4>2. Followers(k)' \subseteq remaining \cup {new}
        <5>1. rows[r].attempt # k + 1
          BY <1>1, <3>2, ConstantsAssumption
        <5> QED
          BY <1>1, <2>2, <2>3, <5>1 DEF Followers, At
      <4> HIDE DEF remaining
      <4>3. /\ Cardinality(Followers(k)') <= Cardinality(remaining) + 1
            /\ Cardinality(remaining) + 1 <= Cardinality(Followers(k))
        BY <2>2, <4>1, <4>2, CountsAreNat, OneMoreRun
      <4>4. Cardinality(remaining) \in Nat
        BY <4>1, RunsAreFinite
      <4> QED
        BY <4>3, <4>4, CountsAreNat
    <3> QED
      BY <3>1, <3>2
  <2> QED
    BY <1>2, <2>5, <2>6, <2>7, CountsAreNat
<1> QED
  BY <1>3, <1>4 DEF Retry

\* Every other action leaves the balance.
LEMMA PaidByOthers ==
  ASSUME IInv, IInv', RetriesPaid, [Next]_vars,
         \A r \in Run : ~Fail(r) /\ ~Retry(r)
  PROVE  RetriesPaid'
<1> DEFINE Balanced(q) ==
      /\ \/ rows'[q].attempt = rows[q].attempt
         \/ rows[q] = NoRow /\ rows'[q].attempt = 1
      /\ workers'[q].pc = "retrying" => workers[q].pc = "retrying"
      /\ Failed(q) /\ workers[q].pc \in {"none", "retrying"}
           => Failed(q)' /\ workers'[q].pc \in {"none", "retrying"}
<1> SUFFICES (\A q \in Run : Balanced(q)) /\ faults <= faults'
  BY PaidStays
<1>1. IInv /\ faults \in Nat /\ faults + 1 \in Nat /\ faults <= faults + 1
  BY ConstantsAssumption DEF IInv, TypeOK
<1> USE DEF Failed
<1>2. ASSUME NEW e \in Executor, StartRun(e) \/ QueueRun(e)
      PROVE  (\A q \in Run : Balanced(q)) /\ faults <= faults'
  <2>1. PICK status \in ActiveStatuses : Insert(e, status, 1) /\ 1 \in 1..MaxAttempts
    BY <1>2, ConstantsAssumption DEF StartRun, QueueRun, ActiveStatuses, FirstAttempt
  <2>2. /\ created + 1 \in Run
        /\ rows[created + 1] = NoRow
        /\ rows'[created + 1] = [executor |-> e, status |-> status, attempt |-> 1,
                                 node |-> status = "running"]
        /\ \A q \in Run \ {created + 1} : rows'[q] = rows[q]
    BY <2>1, InsertEffect DEF IInv
  <2>3. /\ workers'[created + 1].pc # "retrying"
        /\ \A q \in Run \ {created + 1} : workers'[q] = workers[q]
    <3>1. CASE StartRun(e)
      BY <2>2, <3>1, GotoEffect DEF StartRun, PCs, IInv
    <3>2. CASE QueueRun(e)
      <4>1. workers[created + 1].pc = "none" /\ workers' = workers
        BY <2>2, <3>2 DEF QueueRun, IInv, WorkersHaveRows, NoRow, Started, EndStatuses
      <4> QED
        BY <4>1
    <3> QED
      BY <1>2, <3>1, <3>2
  <2>4. faults' = faults /\ reported' = reported /\ created + 1 \notin reported
    BY <1>1, <1>2, <2>2 DEF StartRun, QueueRun, IInv, WorkersHaveRows, NoRow, Started, EndStatuses
  <2> QED
    BY <1>1, <2>2, <2>3, <2>4 DEF NoRow
<1>3. ASSUME NEW e \in Executor, RefuseRun(e)
      PROVE  (\A q \in Run : Balanced(q)) /\ faults <= faults'
  BY <1>1, <1>3 DEF RefuseRun
<1>4. ASSUME DispatchQueuedRun
      PROVE  (\A q \in Run : Balanced(q)) /\ faults <= faults'
  <2>1. PICK r \in Run : /\ rows[r].status = "queued"
                         /\ rows' = [rows EXCEPT ![r].status = "running", ![r].node = TRUE]
                         /\ Goto(r, "dispatched")
    BY <1>4 DEF DispatchQueuedRun, Dispatchable
  <2>2. /\ rows'[r].attempt = rows[r].attempt
        /\ \A q \in Run \ {r} : rows'[q] = rows[q]
    BY <1>1, <2>1 DEF IInv, RowsTyped, RowType, NoRow
  <2>3. /\ workers'[r].pc = "dispatched"
        /\ \A q \in Run \ {r} : workers'[q] = workers[q]
    BY <1>1, <2>1, GotoEffect DEF IInv, PCs
  <2>4. faults' = faults /\ reported' = reported /\ ~Failed(r)
    BY <1>1, <1>4, <2>1 DEF DispatchQueuedRun, IInv, WorkersHaveRows, Started, EndStatuses
  <2>5. Balanced(r)
    BY <2>2, <2>3, <2>4
  <2>6. ASSUME NEW q \in Run \ {r}
        PROVE  Balanced(q)
    BY <2>2, <2>3, <2>4
  <2> QED
    BY <1>1, <2>4, <2>5, <2>6
<1>5. ASSUME NEW r \in Run,
             \/ LoseDispatchedRun(r) \/ Start(r) \/ Prepare(r) \/ Launch(r)
             \/ WorkerDone(r) \/ WorkerBreaks(r) \/ ContainerEnds(r)
             \/ Expire(r) \/ CleanUp(r)
      PROVE  (\A q \in Run : Balanced(q)) /\ faults <= faults'
  <2>1. rows' = rows /\ faults <= faults' /\ reported' = reported
    BY <1>1, <1>5
    DEF LoseDispatchedRun, Start, Prepare, Launch, WorkerDone, WorkerBreaks, ContainerEnds,
        Expire, CleanUp
  <2>2. CASE ContainerEnds(r)
    BY <2>1, <2>2 DEF ContainerEnds
  <2>3. CASE ~ContainerEnds(r)
    <3>1. workers[r].pc \in {"granted", "dispatched", "preparing", "prepared", "executing", "cleaning"}
      BY <1>5, <2>3
      DEF LoseDispatchedRun, Start, Prepare, Launch, WorkerDone, WorkerBreaks, Expire, CleanUp, At
    <3>2. rows[r].status \in Started
      BY <1>1, <3>1 DEF IInv, WorkersHaveRows
    <3>3. /\ workers'[r].pc # "retrying"
          /\ \A q \in Run \ {r} : workers'[q] = workers[q]
      <4>1. CASE WorkerDone(r)
        BY <1>1, <4>1 DEF WorkerDone, IInv, TypeOK
      <4>2. CASE Expire(r)
        <5>1. rows[r] \in RowType
          BY <1>1, <3>2 DEF IInv, RowsTyped, NoRow, Started, EndStatuses
        <5>2. TransportOf(r) \in {"docker", "local", "agentd", "forced"}
          BY <5>1, ConstantsAssumption DEF TransportOf, RowType
        <5>3. PICK pc \in {"cleaning", "timing_out", "failing"} : Goto(r, pc)
          BY <4>2, <5>2 DEF Expire, Stopped, NotStarted
        <5> QED
          BY <1>1, <5>3, GotoEffect DEF IInv, PCs
      <4>3. CASE ~WorkerDone(r) /\ ~Expire(r)
        <5>1. PICK pc \in PCs : pc # "retrying" /\ Goto(r, pc)
          BY <1>5, <2>3, <4>3
          DEF LoseDispatchedRun, Start, Prepare, Launch, WorkerBreaks, CleanUp, PCs
        <5> QED
          BY <1>1, <5>1, GotoEffect DEF IInv
      <4> QED
        BY <4>1, <4>2, <4>3
    <3> QED
      BY <2>1, <3>1, <3>3
  <2> QED
    BY <2>2, <2>3
<1>6. ASSUME NEW r \in Run, BlockByPolicy(r) \/ Report(r) \/ Timeout(r)
      PROVE  (\A q \in Run : Balanced(q)) /\ faults <= faults'
  <2>1. workers[r].pc \in {"granted", "dispatched", "reporting", "timing_out"}
    BY <1>6 DEF BlockByPolicy, Report, Timeout, At
  <2>2. rows[r] # NoRow
    BY <1>1, <2>1 DEF IInv, WorkersHaveRows, NoRow, Started, EndStatuses
  <2>3. PICK status \in EndStatuses, answer \in Answer : FinishRun(r, status, answer)
    <3>1. Report(r) => workers[r].outcome \in EndStatuses
      BY <1>1 DEF Report, IInv, TypeOK, WorkersHaveRows, At
    <3> QED
      BY <1>6, <3>1 DEF BlockByPolicy, Report, Timeout, EndStatuses
  <2>4. /\ rows'[r].attempt = rows[r].attempt
        /\ \A q \in Run \ {r} : rows'[q] = rows[q]
        /\ faults <= faults'
        /\ reported' = reported
    <3>1. RowsTyped /\ faults \in 0..MaxFaults
      BY <1>1 DEF IInv, TypeOK
    <3> QED
      BY <1>1, <1>6, <2>2, <2>3, <3>1, FinishRunEffect DEF BlockByPolicy, Report, Timeout
  <2>5. PICK pc \in {"none", "failing", "timing_out"} : Goto(r, pc)
    BY <1>6 DEF BlockByPolicy, Report, Timeout, AfterTimeout, Answer
  <2>6. /\ workers'[r].pc # "retrying"
        /\ \A q \in Run \ {r} : workers'[q] = workers[q]
    BY <1>1, <2>5, GotoEffect DEF IInv, PCs
  <2> QED
    BY <2>1, <2>4, <2>6
<1>7. ASSUME Crash
      PROVE  (\A q \in Run : Balanced(q)) /\ faults <= faults'
  BY <1>1, <1>7 DEF Crash, Idle
<1>8. ASSUME UNCHANGED vars
      PROVE  (\A q \in Run : Balanced(q)) /\ faults <= faults'
  BY <1>1, <1>8 DEF vars
<1>9. ASSUME NEW r \in Run, NEW status \in ReportedStatuses, ReportRun(r, status)
      PROVE  (\A q \in Run : Balanced(q)) /\ faults <= faults'
  <2>1. rows[r] \in RowType /\ reported' = reported \cup {r} /\ UNCHANGED <<workers, faults>>
    BY <1>1, <1>9 DEF ReportRun, IInv, RowsTyped
  <2>2. /\ rows'[r].attempt = rows[r].attempt
        /\ \A q \in Run \ {r} : rows'[q] = rows[q]
    BY <1>1, <1>9, <2>1 DEF ReportRun, IInv, RowsTyped, RowType
  <2>3. Balanced(r)
    BY <2>1, <2>2
  <2>4. ASSUME NEW q \in Run \ {r}
        PROVE  Balanced(q)
    BY <2>1, <2>2
  <2> QED
    BY <1>1, <2>1, <2>3, <2>4
<1>10. ASSUME NEW e \in Executor, OthersStart(e) \/ OthersEnd(e)
       PROVE  (\A q \in Run : Balanced(q)) /\ faults <= faults'
  BY <1>1, <1>10 DEF OthersStart, OthersEnd
<1> HIDE DEF Balanced
<1> QED
  BY <1>2, <1>3, <1>4, <1>5, <1>6, <1>7, <1>8, <1>9, <1>10 DEF Next, ManagerStep

\* There are no more attempts of a number than attempts before them that have
\* failed or been reported on, but for one exception a fault (fail, timeout,
\* enqueueRetryIfAllowed): a run that succeeded, was blocked or timed out is not
\* tried again, and a failed one once.
THEOREM RetriesHaveFailures == Spec => []RetriesFollowFailures
<1>1. Init => RetriesPaid
  <2> SUFFICES ASSUME Init, NEW k \in 1..MaxAttempts
               PROVE  Cardinality(Followers(k)) <= Cardinality(Failures(k)) + faults
    BY DEF RetriesPaid
  <2>1. Followers(k) = {} /\ faults = 0
    BY ConstantsAssumption DEF Init, Followers, NoRow
  <2>2. Cardinality(Followers(k)) = 0
    BY <2>1, FS_EmptySet
  <2> QED
    BY <2>1, <2>2, CountsAreNat
<1>2. IInv /\ IInv' /\ RetriesPaid /\ [Next]_vars => RetriesPaid'
  BY PaidByFail, PaidByRetry, PaidByOthers
<1>3. IInv /\ RetriesPaid => RetriesFollowFailures
  <2> SUFFICES ASSUME IInv, RetriesPaid, NEW k \in 1..MaxAttempts
               PROVE  Cardinality({r \in Run : rows[r].attempt = k + 1})
                        <= Cardinality({r \in Run : /\ rows[r].attempt = k
                                                    /\ rows[r].status = "failed" \/ r \in reported})
                             + faults
    BY DEF RetriesFollowFailures
  <2> DEFINE next == {r \in Run : rows[r].attempt = k + 1}
             failed == {r \in Run : /\ rows[r].attempt = k
                                    /\ rows[r].status = "failed" \/ r \in reported}
  <2>1. next \subseteq Followers(k) /\ Failures(k) \subseteq failed /\ failed \subseteq Run
    BY DEF Followers, Failures, Failed
  <2> HIDE DEF next, failed
  <2>2. Cardinality(next) <= Cardinality(Followers(k)) /\ Cardinality(next) \in Nat
    BY <2>1, CountsAreNat, RunsAreFinite, FS_Subset
  <2>3. Cardinality(Failures(k)) <= Cardinality(failed) /\ Cardinality(failed) \in Nat
    BY <2>1, CountsAreNat, RunsAreFinite, FS_Subset
  <2>4. Cardinality(Followers(k)) <= Cardinality(Failures(k)) + faults /\ faults \in Nat
    BY ConstantsAssumption DEF RetriesPaid, IInv, TypeOK
  <2>5. Cardinality(next) <= Cardinality(failed) + faults
    BY <2>2, <2>3, <2>4, CountsAreNat
  <2> QED
    BY <2>5 DEF next, failed
<1> QED
  BY <1>1, <1>2, <1>3, IInvAlways, PTL DEF Spec
=============================================================================
