-------------------------- MODULE ExecutorManager --------------------------
(***************************************************************************)
(* The life of the runs a control plane process executes                   *)
(* (internal/executor/manager.go, the queue dispatcher of                  *)
(* internal/api/router.go): a goroutine per run prepares a workspace,      *)
(* starts a docker container or a remote worker, waits for it no longer    *)
(* than the time limit of the run, and records how it ended.               *)
(*                                                                         *)
(* The store is the slot pool RunStore implements: a run that starts takes *)
(* a slot of its executor kind and keeps it while its row is active.       *)
(* Calls of the store may fail, with or without effect, and the process    *)
(* may die; both are counted as faults.  A process that has died starts    *)
(* again: it knows nothing of the runs of the one before, and containers   *)
(* go on without it.                                                       *)
(*                                                                         *)
(* Whoever may report on a run overwrites its status at any time           *)
(* (POST /runs/{id}/finish and worker_result, which end in FinishRun); the *)
(* goroutine and the container of the run hear nothing of it.              *)
(*                                                                         *)
(* A docker run command returns when its container is gone.  Runs wait in  *)
(* the order in which they were queued; every task has the same retry      *)
(* limit.  What else is started in the deployment is told by the slots it  *)
(* keeps.                                                                  *)
(***************************************************************************)
EXTENDS Naturals, FiniteSets

CONSTANTS
  MaxRuns,      \* bound: runs ever created
  MaxFaults,    \* bound: failed calls of the store, and crashes
  MaxReported,  \* bound: runs that are reported on, each as often as one likes
  ReportedStatuses, \* what is reported
  DispatchWindow,   \* how many queued runs a dispatch looks at
  MaxAttempts,  \* retry_max_attempts of the agent profile
  Executor,     \* executor kinds in use
  Transport,    \* Transport[e]: "docker", "local", "agentd" or "forced"
  Slots,        \* Slots[e]: slots of the active nodes of kind e
  TimeLimit,    \* runTimeout is positive, as it has to be in production
  Outcomes      \* run_status of the results containers leave

Run == 1..MaxRuns

ASSUME ConstantsAssumption ==
  /\ {MaxRuns, MaxFaults, MaxReported, DispatchWindow} \subseteq Nat
  /\ MaxAttempts \in Nat \ {0}
  /\ Transport \in [Executor -> {"docker", "local", "agentd", "forced"}]
  /\ Slots \in [Executor -> Nat]
  /\ TimeLimit \in BOOLEAN
  /\ Outcomes \subseteq {"succeeded", "failed", "blocked"}
  \* A report of "queued", by which a run is dispatched again while its goroutine
  \* may still be there, is left out: here a run has one goroutine at most.
  /\ ReportedStatuses \subseteq {"preparing", "running", "succeeded", "failed",
                                "blocked", "timed_out", "cancelled"}

VARIABLES
  rows,        \* rows[r]: the row of r; status "none" before it is inserted
  created,     \* number of rows inserted
  refused,     \* kinds for which a handler has found no slot and will queue a run
  workers,     \* workers[r]: where the goroutine of r is; "none" without one
  containers,  \* runs with a docker container
  uncleaned,   \* runs with an event docker_timeout_cleanup_failed
  others,      \* others[e]: slots of kind e that other runs keep
  silent,      \* history: runs of which that event was lost
  reported,    \* history: runs somebody has reported on
  expired,     \* history: runs whose time was over before their worker ended
  faults       \* calls of the store that failed, and crashes

history == <<silent, reported, expired>>
vars == <<rows, created, refused, workers, containers, uncleaned, others, history, faults>>

ActiveStatuses == {"queued", "preparing", "running"}
EndStatuses == {"succeeded", "failed", "blocked", "timed_out", "cancelled"}

-----------------------------------------------------------------------------
(* The store *)

NoRow == [executor |-> "none", status |-> "none", attempt |-> 0, node |-> FALSE]


\* Rows that occupy a slot; those that were never started have no node.
Occupies(row) == row.node /\ row.status \in {"preparing", "running"}

HasFreeSlot(e) ==
  Cardinality({r \in Run : rows[r].executor = e /\ Occupies(rows[r])}) + others[e] < Slots[e]

\* Mutant: attempts are counted from zero.
FirstAttemptZero == 0

\* A run that was not queued as a retry.
FirstAttempt == 1

Insert(e, status, attempt) ==
  /\ created < MaxRuns
  /\ created' = created + 1
  /\ rows' = [rows EXCEPT ![created + 1] =
                [executor |-> e, status |-> status, attempt |-> attempt,
                 node |-> status = "running"]]

\* What a call of the store does to its effect: it is done or, when the call
\* fails, may be done or not.  An error is reported to the caller, as a
\* deadline that was exceeded (storeContext) or otherwise.
Answer == {"ok", "error", "deadline"}
Call(answer, old, new) ==
  \/ /\ answer = "ok"
     /\ rows' = new
     /\ UNCHANGED faults
  \/ /\ answer # "ok"
     /\ faults < MaxFaults
     /\ faults' = faults + 1
     /\ rows' \in {old, new}

FinishRun(r, status, answer) ==
  Call(answer, rows, [rows EXCEPT ![r].status = status])

-----------------------------------------------------------------------------
(* The goroutines *)

Idle == [pc |-> "none", outcome |-> "none"]
At(r, pc) == workers[r].pc = pc
Goto(r, pc) == workers' = [workers EXCEPT ![r] = [pc |-> pc, outcome |-> "none"]]
TransportOf(r) == Transport[rows[r].executor]

Init ==
  /\ rows = [r \in Run |-> NoRow]
  /\ created = 0
  /\ refused = {}
  /\ workers = [r \in Run |-> Idle]
  /\ containers = {}
  /\ uncleaned = {}
  /\ others = [e \in Executor |-> 0]
  /\ silent = {}
  /\ reported = {}
  /\ expired = {}
  /\ faults = 0

\* A handler starts a run or, when it finds no free slot, queues it: two
\* transactions, between which a slot may have come free.
StartRun(e) ==
  /\ HasFreeSlot(e)
  /\ Insert(e, "running", FirstAttempt)
  /\ Goto(created + 1, "granted")
  /\ UNCHANGED <<refused, containers, uncleaned, others, history, faults>>

RefuseRun(e) ==
  /\ ~HasFreeSlot(e)
  /\ e \notin refused
  /\ created < MaxRuns
  /\ refused' = refused \cup {e}
  /\ UNCHANGED <<rows, created, workers, containers, uncleaned, others, history, faults>>

QueueRun(e) ==
  /\ e \in refused
  /\ refused' = refused \ {e}
  /\ Insert(e, "queued", FirstAttempt)
  /\ UNCHANGED <<workers, containers, uncleaned, others, history, faults>>

\* DispatchQueuedRun: of the first runs in the queue, the first whose kind has a
\* free slot; then GetTask.
Before(r) == {q \in Run : rows[q].status = "queued" /\ q < r}
Dispatchable == {r \in Run : /\ rows[r].status = "queued"
                             /\ Cardinality(Before(r)) < DispatchWindow
                             /\ HasFreeSlot(rows[r].executor)}

DispatchQueuedRun ==
  /\ \E r \in Dispatchable :
       /\ \A q \in Dispatchable : r <= q
       /\ rows' = [rows EXCEPT ![r].status = "running", ![r].node = TRUE]
       /\ Goto(r, "dispatched")
  /\ UNCHANGED <<refused, created, containers, uncleaned, others, history, faults>>

\* GetTask fails: the run is left as it is.
LoseDispatchedRun(r) ==
  /\ At(r, "dispatched")
  /\ faults < MaxFaults
  /\ faults' = faults + 1
  /\ Goto(r, "none")
  /\ UNCHANGED <<refused, rows, created, containers, uncleaned, others, history>>

\* Manager.Start: in the goroutine enforceWorkerPlanPolicy lets the commands of
\* the task pass, or records the run as blocked, whatever FinishRun answers.
Start(r) ==
  /\ workers[r].pc \in {"granted", "dispatched"}
  /\ Goto(r, "preparing")
  /\ UNCHANGED <<refused, rows, created, containers, uncleaned, others, history, faults>>

BlockByPolicy(r) ==
  /\ workers[r].pc \in {"granted", "dispatched"}
  /\ \E answer \in Answer : FinishRun(r, "blocked", answer)
  /\ Goto(r, "none")
  /\ UNCHANGED <<refused, created, containers, uncleaned, others, history>>

\* prepareRun: a workspace that cannot be prepared is replaced by an empty
\* directory; only the file system can fail.
Prepare(r) ==
  /\ At(r, "preparing")
  /\ \E pc \in {"prepared", "failing"} : Goto(r, pc)
  /\ UNCHANGED <<refused, rows, created, containers, uncleaned, others, history, faults>>

\* The docker command, the request to agentd or the ssh command starts.
Launch(r) ==
  /\ At(r, "prepared")
  /\ Goto(r, "executing")
  /\ containers' = IF TransportOf(r) = "docker" THEN containers \cup {r} ELSE containers
  /\ UNCHANGED <<refused, rows, created, uncleaned, others, history, faults>>

\* runLocalLifecycle reports that it is done.  worker-agentd records the
\* request, asked by HTTP or through ssh, and answers that it has succeeded.
\* What a container leaves in result.json is up to its command.
LocalLifecycle == {"succeeded"}
AgentRecordsRun == {"succeeded"}
OutcomesOf(transport) ==
  CASE transport = "docker" -> Outcomes
    [] transport = "local" -> LocalLifecycle
    [] transport \in {"agentd", "forced"} -> AgentRecordsRun

\* The worker leaves a result with a run_status, or something else goes wrong.
WorkerDone(r) ==
  /\ At(r, "executing")
  /\ \E outcome \in OutcomesOf(TransportOf(r)) :
       workers' = [workers EXCEPT ![r] = [pc |-> "reporting", outcome |-> outcome]]
  /\ containers' = containers \ {r}
  /\ UNCHANGED <<refused, rows, created, uncleaned, others, history, faults>>

WorkerBreaks(r) ==
  /\ At(r, "executing")
  /\ Goto(r, "failing")
  /\ containers' = containers \ {r}
  /\ UNCHANGED <<refused, rows, created, uncleaned, others, history, faults>>

\* A container whose process has died ends by itself.
ContainerEnds(r) ==
  /\ At(r, "none")
  /\ r \in containers
  /\ containers' = containers \ {r}
  /\ UNCHANGED <<refused, rows, created, workers, uncleaned, others, history, faults>>

-----------------------------------------------------------------------------
(* The time limit *)

\* Mutant: only docker runs have a time limit.
HasTimeLimitIfDocker(r) == TimeLimit /\ TransportOf(r) = "docker"

\* runTimeout: of the agent profile or else WorkerDefaultTimeout; it runs from
\* Start on.
HasTimeLimit(r) == TimeLimit

\* Mutants: the error of docker run is returned before the context is asked,
\* or the time limit before the container is removed.
StoppedLikeAnExit(transport) ==
  IF transport = "docker" THEN {"failing"} ELSE {"timing_out", "failing"}
StoppedWithoutCleanup(transport) ==
  IF transport = "docker" THEN {"timing_out"} ELSE {"timing_out", "failing"}

\* How a run whose command was under way goes on.  runDocker asks the context
\* and then removes the container; the local executor returns the context's
\* error.  So does the HTTP client, but for an answer that is being read the
\* error is that it cannot be decoded.  An ssh command that was killed returns
\* "signal: killed", which execute does not take for a deadline.
Stopped(transport) ==
  CASE transport = "docker" -> {"cleaning"}
    [] transport = "local" -> {"timing_out"}
    [] transport = "agentd" -> {"timing_out", "failing"}
    [] transport = "forced" -> {"failing"}

\* A command is not started when the time is over: the error is the context's.
NotStarted(transport) == IF transport = "docker" THEN "cleaning" ELSE "timing_out"

Expire(r) ==
  /\ \/ /\ At(r, "executing")
        /\ \E pc \in Stopped(TransportOf(r)) : Goto(r, pc)
     \/ /\ At(r, "prepared")
        /\ Goto(r, NotStarted(TransportOf(r)))
  /\ HasTimeLimit(r)
  /\ expired' = expired \cup {r}
  /\ UNCHANGED <<rows, created, refused, containers, uncleaned, others, silent, reported, faults>>

\* cleanupDockerContainer: docker rm -f, which may fail; so may the call that
\* records this, which nobody asks about.
CleanUp(r) ==
  /\ At(r, "cleaning")
  /\ \/ /\ containers' = containers \ {r}
        /\ UNCHANGED <<uncleaned, silent, faults>>
     \/ /\ uncleaned' = uncleaned \cup {r}
        /\ UNCHANGED <<containers, silent, faults>>
     \/ /\ faults < MaxFaults
        /\ faults' = faults + 1
        /\ silent' = silent \cup {r}
        /\ UNCHANGED <<containers, uncleaned>>
  /\ Goto(r, "timing_out")
  /\ UNCHANGED <<refused, rows, created, others, reported, expired>>

-----------------------------------------------------------------------------
(* How a run ends *)

\* The result is recorded; an error of FinishRun is the run's error.  What
\* collectArtifactsAndScope does afterwards leaves the run as it is.
Report(r) ==
  /\ At(r, "reporting")
  /\ \E answer \in Answer :
       /\ FinishRun(r, workers[r].outcome, answer)
       /\ Goto(r, CASE answer = "ok" -> "none"
                    [] answer = "error" -> "failing"
                    [] answer = "deadline" -> "timing_out")
  /\ UNCHANGED <<refused, created, containers, uncleaned, others, history>>

MayRetry(r) == rows[r].attempt < MaxAttempts

\* fail: recorded, whatever FinishRun answers, and tried again.
Fail(r) ==
  /\ At(r, "failing")
  /\ \E answer \in Answer : FinishRun(r, "failed", answer)
  /\ Goto(r, IF MayRetry(r) THEN "retrying" ELSE "none")
  /\ UNCHANGED <<refused, created, containers, uncleaned, others, history>>

\* Mutant: a run that timed out is tried again.
AfterTimeoutRetry(r) == IF MayRetry(r) THEN "retrying" ELSE "none"

AfterTimeout(r) == "none"

\* timeout: recorded, whatever FinishRun answers.
Timeout(r) ==
  /\ At(r, "timing_out")
  /\ \E answer \in Answer : FinishRun(r, "timed_out", answer)
  /\ Goto(r, AfterTimeout(r))
  /\ UNCHANGED <<refused, created, containers, uncleaned, others, history>>

\* enqueueRetryIfAllowed: a new run is queued; if that fails, it is not.
Retry(r) ==
  /\ At(r, "retrying")
  /\ \/ /\ Insert(rows[r].executor, "queued", rows[r].attempt + 1)
        /\ UNCHANGED faults
     \/ /\ faults < MaxFaults
        /\ faults' = faults + 1
        /\ UNCHANGED <<rows, created>>
     \/ /\ created = MaxRuns  \* bound: the run is not recorded
        /\ UNCHANGED <<rows, created, faults>>
  /\ Goto(r, "none")
  /\ UNCHANGED <<refused, containers, uncleaned, others, history>>

\* The process dies, or is shut down, which waits for no run; it starts again.
Crash ==
  /\ \E r \in Run : ~At(r, "none")
  /\ faults < MaxFaults
  /\ faults' = faults + 1
  /\ workers' = [r \in Run |-> Idle]
  /\ refused' = {}
  /\ UNCHANGED <<rows, created, containers, uncleaned, others, history>>

-----------------------------------------------------------------------------
(* Whoever else acts on the store *)

\* finishRun and worker_result: the row is overwritten, whatever it says.
ReportRun(r, status) ==
  /\ rows[r] # NoRow
  /\ Cardinality(reported \cup {r}) <= MaxReported
  /\ rows' = [rows EXCEPT ![r].status = status]
  /\ reported' = reported \cup {r}
  /\ UNCHANGED <<refused, created, workers, containers, uncleaned, others, silent, expired, faults>>

\* StartRun for another task, which does not look at the queue; its run ends.
OthersStart(e) ==
  /\ HasFreeSlot(e)
  /\ others' = [others EXCEPT ![e] = @ + 1]
  /\ UNCHANGED <<rows, created, refused, workers, containers, uncleaned, history, faults>>

OthersEnd(e) ==
  /\ others[e] > 0
  /\ others' = [others EXCEPT ![e] = @ - 1]
  /\ UNCHANGED <<rows, created, refused, workers, containers, uncleaned, history, faults>>

-----------------------------------------------------------------------------
\* What the goroutine of r does by itself, the time limit included.
ManagerStep(r) ==
  \/ Start(r)
  \/ BlockByPolicy(r)
  \/ Prepare(r)
  \/ Launch(r)
  \/ Expire(r)
  \/ CleanUp(r)
  \/ Report(r)
  \/ Fail(r)
  \/ Timeout(r)
  \/ Retry(r)

Next ==
  \/ \E e \in Executor : StartRun(e) \/ RefuseRun(e) \/ QueueRun(e)
  \/ DispatchQueuedRun
  \/ \E r \in Run : ManagerStep(r)
  \/ \E r \in Run : WorkerDone(r) \/ WorkerBreaks(r)
  \/ \E r \in Run : LoseDispatchedRun(r) \/ ContainerEnds(r)
  \/ \E r \in Run, status \in ReportedStatuses : ReportRun(r, status)
  \/ \E e \in Executor : OthersStart(e) \/ OthersEnd(e)
  \/ Crash

\* Goroutines go on and timers fire; the dispatcher's ticker fires
\* (startQueueWorker).  Nothing is assumed of workers, and no call is made for
\* ever.  What other runs do is the same.
Fairness ==
  /\ \A r \in Run : WF_vars(ManagerStep(r))
  /\ WF_vars(DispatchQueuedRun)
  /\ \A e \in Executor : WF_vars(OthersEnd(e))

Spec == Init /\ [][Next]_vars /\ Fairness

-----------------------------------------------------------------------------
(* Properties *)

RowType == [executor : Executor, status : ActiveStatuses \cup EndStatuses,
            attempt : 1..MaxAttempts, node : BOOLEAN]

PCs == {"none", "granted", "dispatched", "preparing", "prepared", "executing",
        "cleaning", "reporting", "failing", "timing_out", "retrying"}

\* Every variable has its type; in particular no run is tried more often than
\* its profile allows, however its attempts end.
TypeOK ==
  /\ created \in 0..MaxRuns
  /\ \A r \in Run : IF r <= created THEN rows[r] \in RowType ELSE rows[r] = NoRow
  /\ workers \in [Run -> [pc : PCs, outcome : (EndStatuses \ {"timed_out"}) \cup {"none"}]]
  /\ refused \subseteq Executor
  /\ containers \subseteq Run /\ uncleaned \subseteq Run
  /\ silent \subseteq Run /\ reported \subseteq Run /\ expired \subseteq Run
  /\ others \in [Executor -> Nat]
  /\ faults \in 0..MaxFaults

\* A run that is active without anybody working on it: a dispatch, a result or
\* a process was lost, or somebody has reported that it runs.
Orphaned(r) == rows[r].status \in {"preparing", "running"} /\ At(r, "none")

\* A container never goes on after its run has given back its slot, unless it
\* could not be removed and an event says so, or was lost itself, or somebody
\* has reported on the run: the slots of a host bound what runs on it, although
\* runs time out, lose their results and their process.
ContainersHoldSlots ==
  \A r \in containers : Occupies(rows[r]) \/ r \in uncleaned \cup silent \cup reported

\* A run that has been stopped because its time was over ends as timed out; only
\* a lost call of the store or a crash leaves it active.
EndsAsTimedOut(r) ==
  rows[r].status = "timed_out" \/ Orphaned(r) \/ ~(At(r, "none") \/ At(r, "retrying"))

\* This holds of docker runs nobody reports on, in whatever order the deadline,
\* the end of the container, its removal and the calls of the store come.
ExpiredDockerRunsTimeOut ==
  \A r \in expired \ reported : TransportOf(r) = "docker" => EndsAsTimedOut(r)

\* docs/implementation/mvp-status.md:97, of every run: "marks expired runs as
\* `timed_out`".
ExpiredRunsTimeOut == \A r \in expired : EndsAsTimedOut(r)

\* There are no more attempts of a number than attempts before them that have
\* failed: a run that succeeded, was blocked or timed out is not tried again,
\* and a failed one once.  Each fault may cost one exception, and a run somebody
\* has reported on counts as failed, which it may have been before.
RetriesFollowFailures ==
  \A k \in 1..MaxAttempts :
    Cardinality({r \in Run : rows[r].attempt = k + 1})
      <= Cardinality({r \in Run : /\ rows[r].attempt = k
                                  /\ rows[r].status = "failed" \/ r \in reported}) + faults

\* docs/implementation/mvp-status.md:98: "releases scheduler capacity on
\* timeout".  A run that has started ends, whether its worker ends or not,
\* unless it has been orphaned.
EveryRunEnds ==
  \A r \in Run : rows[r].status = "running" ~> rows[r].status \in EndStatuses \/ Orphaned(r)

\* A run waits for what an orphan keeps: a slot of its kind, or its place among
\* the runs a dispatch looks at, which the runs before it cannot leave.
BehindOrphan(r) ==
  \E q \in Run : /\ Orphaned(q)
                 /\ \/ rows[q].executor = rows[r].executor
                    \/ Cardinality(Before(r)) >= DispatchWindow

=============================================================================
