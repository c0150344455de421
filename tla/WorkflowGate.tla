---------------------------- MODULE WorkflowGate ----------------------------
(***************************************************************************)
(* The workflow of one task, from its feature run to the pull request      *)
(* (internal/workflow/state.go, the handlers of internal/api/router.go and *)
(* internal/mcp/server.go that act on it, the part of                      *)
(* internal/executor/manager.go that reports on runs).                     *)
(*                                                                         *)
(* A handler first computes the workflow state, from three reads of the    *)
(* store, and asks the gate; then it acts.  In between, and while it talks *)
(* to the Git provider, other handlers, workers, the queue dispatcher and  *)
(* people go on.  Node selection is RunStore's business; here StartRun     *)
(* finds a slot or not.  So is the status of the task, which no gate       *)
(* reads.                                                                  *)
(*                                                                         *)
(* The task does not allow dependency changes.  Callers of worker_result   *)
(* report what they like on any run, an outcome of Git Sync too, except    *)
(* that it is queued: that puts a run into the queue again while it may be *)
(* worked on, and here a run has one worker.  A process that dies stops    *)
(* here like any behaviour that takes no further step.                     *)
(***************************************************************************)
EXTENDS Naturals, Sequences, FiniteSets

CONSTANTS
  Handler,   \* concurrent requests, of the API or of the MCP gateway
  Settings   \* the tasks and the environments that are looked at

Role == {"feature", "test", "audit", "git_sync"}
Failing == {"failed", "blocked", "timed_out", "cancelled"}
Status == Failing \cup {"queued", "running", "succeeded"}
Result == {"none", "done", "other", "prepared", "published", "blocked", "publish_prepared"}

\* What is fixed while a task lives: its policy (TaskEnvelope.policy), what
\* its agent profile, the deployment, the workers and the callers may do, and
\* the bounds of the instance.
SettingType ==
  [tests : BOOLEAN,                                  \* policy: tests must pass,
   audit : BOOLEAN,                                  \* an audit must,
   human : BOOLEAN,                                  \* a pull request needs an approval
   modes : SUBSET {"live", "dry_run"},               \* GitSyncMode, now and after restarts
   lostRows : BOOLEAN,                               \* the store's reads may end early
   attempts : Nat \ {0},                             \* retry_max_attempts of the profile
   outcomes : SUBSET (Failing \cup {"succeeded"}),   \* what the results of workers say
   failures : SUBSET {"failed", "blocked", "timed_out"},  \* how runs end without a result
   changes : SUBSET {"nothing", "in_scope", "out_of_scope", "dependency"},  \* of a workspace
   reports : SUBSET (Status \ {"queued"}),           \* what callers of worker_result report
   results : SUBSET Result,
   requests : Nat, runs : Nat, approvals : Nat, scopeChecks : Nat]  \* bounds

ASSUME ConstantsAssumption == Settings \subseteq SettingType

ApprovalType == {"pr_prepare", "pr_publish"}
StartAction == {"worker_spawn", "test_run_required", "audit_run"}
Action == StartAction \cup {"approval_request", "approval_request_pr_publish",
                            "git_prepare_pr", "git_publish_pr"}

VARIABLES
  task,       \* its setting
  runs,       \* its runs, in created_at order
  scope,      \* the latest scope check: "none", "passed" or "blocked"
  posted,     \* scope checks posted so far
  approvals,  \* its approvals: [type, status]
  handlers,   \* handlers[h]: what request h is doing
  prs,        \* pull requests created at the provider
  opened,     \* history: how many gates of publishing have stood open (Remember)
  dependency  \* history: a dependency change was found and is not allowed

vars == <<task, runs, scope, posted, approvals, handlers, prs, opened, dependency>>

RequireTests == task.tests
RequireAudit == task.audit
RequireHumanBeforePR == task.human
MaxAttempts == task.attempts

-----------------------------------------------------------------------------
(* workflow.BuildState and workflow.GateAllows *)

\* The runs of a role; whether the latest of them has one of the statuses
\* (latestTerminalRun, latestRun), one has succeeded (latestSucceededRun), or
\* has succeeded with a result (latestRunWithResultStatus).
Of(rows, role) == {i \in DOMAIN rows : rows[i].role = role}
LatestIs(rows, role, statuses) ==
  \E i \in Of(rows, role) : rows[i].status \in statuses /\ \A j \in Of(rows, role) : j <= i
Succeeded(rows, role) == \E i \in Of(rows, role) : rows[i].status = "succeeded"
\* Mutant: a dry run counts as any result.
RecordedOrDryRun(rows, result) ==
  \E i \in Of(rows, "git_sync") : /\ rows[i].status = "succeeded"
                                  /\ rows[i].result \in {result, "publish_prepared"}
Recorded(rows, result) ==
  \E i \in Of(rows, "git_sync") : rows[i].status = "succeeded" /\ rows[i].result = result

\* What BuildState takes from the runs of the task and from its approvals.
RunFacts(rows) ==
  [failing   |-> {role \in {"test", "audit", "git_sync"} : LatestIs(rows, role, Failing)},
   started   |-> Of(rows, "feature") # {},
   finished  |-> LatestIs(rows, "feature", {"succeeded"}),
   succeeded |-> {role \in {"test", "audit"} : Succeeded(rows, role)},
   recorded  |-> {result \in {"prepared", "published"} : Recorded(rows, result)}]

ApprovalFacts(rows) ==
  [status \in {"pending", "approved", "rejected"} |->
     {rows[i].type : i \in {j \in DOMAIN rows : rows[j].status = status}}]

\* A workflow state is built from these and the latest scope check.
State(r, a, s) == [runs |-> r, approvals |-> a, scope |-> s]
Current == State(RunFacts(runs), ApprovalFacts(approvals), scope)

Rejected(w) == w.approvals["rejected"] # {}

\* Mutant: rejections are not looked at.
BlockedReasonsButRejection(w) ==
  w.runs.failing \cup (IF w.scope = "blocked" THEN {"scope"} ELSE {})
BlockedReasons(w) ==
  w.runs.failing \cup {reason \in {"scope", "approval"} :
                         IF reason = "scope" THEN w.scope = "blocked" ELSE Rejected(w)}

TestsPassed(w) == RequireTests => "test" \in w.runs.succeeded
AuditPassed(w) == RequireAudit => "audit" \in w.runs.succeeded
PrepareApproved(w) == RequireHumanBeforePR => "pr_prepare" \in w.approvals["approved"]
\* Mutant: the type of the approval is not looked at.
PublishApprovedByAny(w) == w.approvals["approved"] # {}
PublishApproved(w) == "pr_publish" \in w.approvals["approved"]
Prepared(w) == "prepared" \in w.runs.recorded
Published(w) == "published" \in w.runs.recorded

\* No blocker, and the latest feature run has succeeded within its scope.
InScope(w) ==
  /\ BlockedReasons(w) = {}
  /\ w.runs.finished
  /\ w.scope = "passed"

ReadyForPR(w) == InScope(w) /\ TestsPassed(w) /\ AuditPassed(w) /\ PrepareApproved(w)

\* The requests the workflow state offers in NextActions.  Those that do
\* nothing but read, "policy_validate_task" and "repo_scope_check", pass no gate.
Offers(w, action) ==
  CASE action = "worker_spawn" -> BlockedReasons(w) = {} /\ ~w.runs.started
    [] action = "test_run_required" -> InScope(w) /\ ~TestsPassed(w)
    [] action = "audit_run" -> InScope(w) /\ TestsPassed(w) /\ ~AuditPassed(w)
    [] action = "approval_request" ->
         /\ InScope(w) /\ TestsPassed(w) /\ AuditPassed(w) /\ ~PrepareApproved(w)
         /\ "pr_prepare" \notin w.approvals["pending"]
    [] action = "git_prepare_pr" -> ReadyForPR(w) /\ ~Prepared(w)
    [] action = "approval_request_pr_publish" ->
         /\ ReadyForPR(w) /\ Prepared(w) /\ ~PublishApproved(w)
         /\ "pr_publish" \notin w.approvals["pending"]
    [] action = "git_publish_pr" ->
         /\ ReadyForPR(w) /\ Prepared(w) /\ PublishApproved(w)
         /\ ~Published(w)
    [] action = "completed" ->
         /\ ReadyForPR(w) /\ Prepared(w) /\ PublishApproved(w)
         /\ Published(w)

GateAllows(w, action) == BlockedReasons(w) = {} /\ Offers(w, action)

-----------------------------------------------------------------------------
(* What has been open *)

\* What the runs and the approvals must be for a pull request, written down
\* without BuildState.
RunsReady ==
  /\ \A role \in {"test", "audit", "git_sync"} : ~LatestIs(runs, role, Failing)
  /\ Succeeded(runs, "feature")
  /\ RequireTests => Succeeded(runs, "test")
  /\ RequireAudit => Succeeded(runs, "audit")
  /\ Recorded(runs, "prepared")

ApprovalsReady ==
  LET Has(type) == [type |-> type, status |-> "approved"] \in {approvals[i] : i \in DOMAIN approvals}
  IN  /\ \A i \in DOMAIN approvals : approvals[i].status # "rejected"
      /\ RequireHumanBeforePR => Has("pr_prepare")
      /\ Has("pr_publish")

\* Every action ends with this: the task stays what it is, and opened counts the
\* gates that have stood open, one after the other or at
\* once: of the runs, then of the approvals, then of the scope.
Remember ==
  LET first  == opened >= 1 \/ RunsReady'
      second == opened >= 2 \/ (first /\ ApprovalsReady')
      third  == opened = 3 \/ (second /\ scope' = "passed")
  IN  /\ UNCHANGED task
      /\ opened' = CASE third -> 3
                     [] second /\ ~third -> 2
                     [] first /\ ~second -> 1
                     [] OTHER -> 0

-----------------------------------------------------------------------------
(* Runs *)

\* A new run; worker tells what an executor or a handler is doing for it,
\* reported is history: its result is what a caller of worker_result says.
NewRun(role, status, worker, attempt) ==
  [role |-> role, status |-> status, result |-> "none", reported |-> FALSE,
   worker |-> worker, attempt |-> attempt]

\* StartRun with a slot, and EnqueueRun.
Start(role, worker) ==
  /\ Len(runs) < task.runs
  /\ runs' = Append(runs, NewRun(role, "running", worker, 1))
Enqueue(role, attempt) ==
  /\ Len(runs) < task.runs
  /\ runs' = Append(runs, NewRun(role, "queued", "none", attempt))

\* FinishRun: status and result are overwritten, whatever they were.
Finish(i, status, result, worker) ==
  runs' = [runs EXCEPT ![i] = [@ EXCEPT !.status = status, !.result = result,
                                        !.reported = FALSE, !.worker = worker]]

\* What a request is doing; before it has passed its gate, what it has read;
\* rejected is history: an approval was rejected when it read the approvals.
Idle == [pc |-> "idle", action |-> "none", run |-> 0, outcome |-> "none",
         seen |-> <<>>, rejected |-> FALSE]

-----------------------------------------------------------------------------
Init ==
  /\ task \in Settings
  /\ runs = <<>>
  /\ scope = "none"
  /\ posted = 0
  /\ approvals = <<>>
  /\ handlers = [h \in Handler |-> Idle]
  /\ prs = 0
  /\ opened = 0
  /\ dependency = FALSE

(* Handlers *)

\* ListRuns and ListApprovals return the rows they have got, the oldest runs
\* and the latest approvals first, when the connection or the five seconds of
\* the query end before the last row.
RowsRead(rows) == IF task.lostRows THEN 0..Len(rows) ELSE {Len(rows)}

\* BuildState reads the store three times: ListRuns, ...
ReadRuns(h) ==
  /\ handlers[h].pc = "idle"
  /\ Cardinality({g \in Handler : handlers[g].pc # "idle"}) < task.requests
  /\ \E n \in RowsRead(runs) :
       handlers' = [handlers EXCEPT ![h] = [Idle EXCEPT
         !.pc = "runs", !.seen = <<RunFacts(SubSeq(runs, 1, n))>>]]
  /\ UNCHANGED <<runs, scope, posted, approvals, prs, dependency>>
  /\ Remember

\* ... ListApprovals, ...
ReadApprovals(h) ==
  /\ handlers[h].pc = "runs"
  /\ \E n \in RowsRead(approvals) :
       LET rows == SubSeq(approvals, Len(approvals) - n + 1, Len(approvals))
       IN  handlers' = [handlers EXCEPT ![h] = [@ EXCEPT
             !.pc = "approvals", !.seen = Append(handlers[h].seen, ApprovalFacts(rows)),
             !.rejected = Rejected(Current)]]
  /\ UNCHANGED <<runs, scope, posted, approvals, prs, dependency>>
  /\ Remember

\* ... and LatestScopeCheck, where an error is a blocker; then GateAllows lets
\* the request through or not.
\* preparePR does all of it twice: the second time counts.
Seen(h) == State(handlers[h].seen[1], handlers[h].seen[2], scope)

PassGate(h, action) ==
  /\ handlers[h].pc = "approvals"
  /\ GateAllows(Seen(h), action)
  /\ handlers' = [handlers EXCEPT ![h] = [@ EXCEPT !.pc = "granted", !.action = action, !.seen = <<>>]]
  /\ UNCHANGED <<runs, scope, posted, approvals, prs, dependency>>
  /\ Remember

\* One action at most is offered: a request for another one is refused.
Refuse(h) ==
  /\ handlers[h].pc = "approvals"
  /\ handlers' = [handlers EXCEPT ![h] = Idle]
  /\ UNCHANGED <<runs, scope, posted, approvals, prs, dependency>>
  /\ Remember

Granted(h, actions) == handlers[h].pc = "granted" /\ handlers[h].action \in actions
Return(h) == handlers' = [handlers EXCEPT ![h] = Idle]

\* The role a start action runs; that a caller of worker_spawn names another
\* one (MCP) is left out.
RolesOf(action) ==
  CASE action = "worker_spawn" -> {"feature"}
    [] action = "test_run_required" -> {"test"}
    [] action = "audit_run" -> {"audit"}
    [] OTHER -> {"git_sync"}

\* StartRun, exec.Start.
StartWorker(h) ==
  /\ Granted(h, StartAction)
  /\ \E role \in RolesOf(handlers[h].action) : Start(role, "working")
  /\ Return(h)
  /\ UNCHANGED <<scope, posted, approvals, prs, dependency>>
  /\ Remember

\* StartRun finds no free slot: the run is queued (startRunError), whoever
\* was to do its work.
QueueInstead(h) ==
  /\ Granted(h, StartAction \cup {"git_prepare_pr", "git_publish_pr"})
  /\ \E role \in RolesOf(handlers[h].action) : Enqueue(role, 1)
  /\ Return(h)
  /\ UNCHANGED <<scope, posted, approvals, prs, dependency>>
  /\ Remember

\* The handler prepares or publishes the pull request itself.
StartGitSync(h) ==
  /\ Granted(h, {"git_prepare_pr", "git_publish_pr"})
  /\ Start("git_sync", "handler")
  /\ handlers' = [handlers EXCEPT ![h] =
       [@ EXCEPT !.pc = IF handlers[h].action = "git_publish_pr" THEN "publishing"
                                                                ELSE "preparing",
                 !.run = Len(runs) + 1]]
  /\ UNCHANGED <<scope, posted, approvals, prs, dependency>>
  /\ Remember

FinishPrepare(h) ==
  /\ handlers[h].pc = "preparing"
  /\ Finish(handlers[h].run, "succeeded", "prepared", "none")
  /\ Return(h)
  /\ UNCHANGED <<scope, posted, approvals, prs, dependency>>
  /\ Remember

\* gitsync.PublishPR: a dry run calls nobody; a call is answered, or refused,
\* or its answer is lost.
CallProvider(h) ==
  /\ handlers[h].pc = "publishing"
  /\ \E answer \in UNION {IF mode = "live" THEN {"published", "blocked"} ELSE {"publish_prepared"} :
                           mode \in task.modes} :
       /\ prs' \in CASE answer = "published" -> {prs + 1}
                     [] answer = "blocked" -> {prs, prs + 1}
                     [] OTHER -> {prs}
       /\ handlers' = [handlers EXCEPT ![h] = [@ EXCEPT !.pc = "answered", !.outcome = answer]]
  /\ UNCHANGED <<runs, scope, posted, approvals, dependency>>
  /\ Remember

FinishPublish(h) ==
  /\ handlers[h].pc = "answered"
  /\ LET outcome == handlers[h].outcome
     IN  Finish(handlers[h].run, IF outcome = "blocked" THEN "blocked" ELSE "succeeded",
                outcome, "none")
  /\ Return(h)
  /\ UNCHANGED <<scope, posted, approvals, prs, dependency>>
  /\ Remember

Ask(type) ==
  /\ Len(approvals) < task.approvals
  /\ approvals' = Append(approvals, [type |-> type, status |-> "pending"])

RequestApproval(h) ==
  /\ Granted(h, {"approval_request", "approval_request_pr_publish"})
  /\ Ask(IF handlers[h].action = "approval_request" THEN "pr_prepare" ELSE "pr_publish")
  /\ Return(h)
  /\ UNCHANGED <<runs, scope, posted, prs, dependency>>
  /\ Remember

-----------------------------------------------------------------------------
(* Requests that pass no gate *)

\* POST /tasks/{id}/approvals: any type at any time.
CreateApproval(type) ==
  /\ Ask(type)
  /\ UNCHANGED <<runs, scope, posted, handlers, prs, dependency>>
  /\ Remember

\* A decision may be taken again.
DecideApproval(i, status) ==
  /\ i \in DOMAIN approvals
  /\ approvals' = [approvals EXCEPT ![i].status = status]
  /\ UNCHANGED <<runs, scope, posted, handlers, prs, dependency>>
  /\ Remember

\* A scope check of files the caller names.
PostScopeCheck(status) ==
  /\ posted < task.scopeChecks
  /\ posted' = posted + 1
  /\ scope' = status
  /\ UNCHANGED <<runs, approvals, handlers, prs, dependency>>
  /\ Remember

\* worker_result, finishRun: whoever reports on a run, ended or not, whatever
\* he reports; who works on the run goes on.
ReportResult(i, status, result) ==
  /\ i \in DOMAIN runs
  /\ runs' = [runs EXCEPT ![i] = [@ EXCEPT !.status = status, !.result = result,
                                           !.reported = TRUE]]
  /\ UNCHANGED <<scope, posted, approvals, handlers, prs, dependency>>
  /\ Remember

-----------------------------------------------------------------------------
(* Workers and the queue *)

Doing(i, worker) == i \in DOMAIN runs /\ runs[i].worker = worker

\* DispatchQueuedRun and exec.Start: no gate is asked, and a git_sync run is
\* given to a worker as any other.
DispatchQueuedRun(i) ==
  /\ i \in DOMAIN runs /\ runs[i].status = "queued"
  /\ \A j \in 1..(i - 1) : runs[j].status # "queued"
  /\ runs' = [runs EXCEPT ![i] = [@ EXCEPT !.status = "running", !.worker = "working"]]
  /\ UNCHANGED <<scope, posted, approvals, handlers, prs, dependency>>
  /\ Remember

\* The worker's result is recorded, with the status it names.
WorkerReports(i, status) ==
  /\ Doing(i, "working")
  /\ Finish(i, status, "done", "collecting")
  /\ UNCHANGED <<scope, posted, approvals, handlers, prs, dependency>>
  /\ Remember

\* Mutant: one attempt too many.
MayRetryOnceMore(run, status) == status = "failed" /\ run.attempt <= MaxAttempts

\* Only a failure of the executor is tried again.
MayRetry(run, status) == status = "failed" /\ run.attempt < MaxAttempts

\* The command policy blocks the run, its executor fails, or its time is over.
WorkerFails(i, status) ==
  /\ Doing(i, "working")
  /\ Finish(i, status, "none",
            IF MayRetry(runs[i], status) THEN "retrying" ELSE "none")
  /\ UNCHANGED <<scope, posted, approvals, handlers, prs, dependency>>
  /\ Remember

\* enqueueRetryIfAllowed, after the failure has been recorded.
RetryFailedRun(i) ==
  /\ Doing(i, "retrying")
  /\ Len(runs) < task.runs
  /\ runs' = Append([runs EXCEPT ![i].worker = "none"],
                    NewRun(runs[i].role, "queued", "none", runs[i].attempt + 1))
  /\ UNCHANGED <<scope, posted, approvals, handlers, prs, dependency>>
  /\ Remember

\* collectArtifactsAndScope, after the result has been recorded: what the
\* worker has changed is nothing, files in scope or out of it, or a dependency
\* manifest in scope that the task may not change.
CollectChanges(i, changed) ==
  /\ Doing(i, "collecting")
  /\ runs' = [runs EXCEPT ![i].worker = "none"]
  /\ scope' = CASE changed = "nothing" -> scope
                [] changed \in {"in_scope", "dependency"} -> "passed"
                [] changed = "out_of_scope" -> "blocked"
  /\ dependency' = (dependency \/ changed = "dependency")
  /\ UNCHANGED <<posted, approvals, handlers, prs>>
  /\ Remember

-----------------------------------------------------------------------------
HandlerStep(h) ==
  \/ ReadRuns(h)
  \/ ReadApprovals(h)
  \/ \E action \in Action : PassGate(h, action)
  \/ Refuse(h)
  \/ StartWorker(h)
  \/ QueueInstead(h)
  \/ StartGitSync(h)
  \/ FinishPrepare(h)
  \/ CallProvider(h)
  \/ FinishPublish(h)
  \/ RequestApproval(h)

RunStep(i) ==
  \/ DispatchQueuedRun(i)
  \/ \E status \in task.outcomes : WorkerReports(i, status)
  \/ \E status \in task.failures : WorkerFails(i, status)
  \/ RetryFailedRun(i)
  \/ \E changed \in task.changes : CollectChanges(i, changed)
  \/ \E status \in task.reports, result \in task.results : ReportResult(i, status, result)

Next ==
  \/ \E h \in Handler : HandlerStep(h)
  \/ \E i \in 1..task.runs : RunStep(i)
  \/ \E type \in ApprovalType : CreateApproval(type)
  \/ \E i \in 1..task.approvals, status \in {"approved", "rejected"} : DecideApproval(i, status)
  \/ \E status \in {"passed", "blocked"} : PostScopeCheck(status)

Spec == Init /\ [][Next]_vars

-----------------------------------------------------------------------------
(* Properties *)

RunType == [role : Role, status : Status, result : Result, reported : BOOLEAN,
            worker : {"none", "working", "collecting", "retrying", "handler"},
            attempt : 1..MaxAttempts]

\* Every variable has its type; in particular no run is retried more often
\* than its profile allows.
TypeOK ==
  /\ task \in Settings
  /\ \A i \in DOMAIN runs : runs[i] \in RunType
  /\ scope \in {"none", "passed", "blocked"}
  /\ posted \in 0..task.scopeChecks
  /\ \A i \in DOMAIN approvals :
       approvals[i] \in [type : ApprovalType, status : {"pending", "approved", "rejected"}]
  /\ \A h \in Handler :
       /\ handlers[h].pc \in {"idle", "runs", "approvals", "granted",
                              "preparing", "publishing", "answered"}
       /\ handlers[h].run \in 0..Len(runs)
  /\ opened \in 0..3
  /\ dependency \in BOOLEAN

\* No pull request is created at the provider unless the gates stood open
\* before, in the order in which BuildState reads them: feature, tests, audit
\* and a prepared body without a failed run after them, all as the rows say, a
\* report on a run included; then both approvals and no rejection; then a scope
\* check that passed.  Reports, retries, decisions and scope checks come in any
\* order, also in between.
PublishFollowsGates == prs > 0 => opened = 3

\* A caller's report, still in the row, says that a Git Sync run has published.
PublishedByReport ==
  \E i \in Of(runs, "git_sync") : runs[i].reported /\ runs[i].result = "published"

\* The workflow of a task reads "completed" only when a pull request was created
\* at the provider, or a caller of worker_result said so on a Git Sync run of the
\* task and its report stands: neither a dry run nor a Git Sync run that a worker
\* has executed nor a report on a run of another role completes it
\* (latestRunWithResultStatus).
CompletedMeansPublished == Offers(Current, "completed") => prs > 0 \/ PublishedByReport

\* A request that reads the approvals while one of them is rejected passes no
\* gate: it starts no run, prepares and publishes nothing (hasRejectedApproval).
RejectionStopsRequests ==
  \A h \in Handler : handlers[h].rejected => handlers[h].pc = "approvals"

\* docs/architecture/mcp-gateway.md:82: "rejected approval blocks git sync".  A
\* request that reads the approvals while one of them is rejected neither
\* prepares nor publishes a pull request (ListApprovals, which returns what it
\* has got when a read ends early).
RejectionStopsGitSync ==
  \A h \in Handler :
    handlers[h].rejected => handlers[h].pc \notin {"preparing", "publishing", "answered"}

\* No request is under way that has read the approvals already.
NoneUnderWay == \A h \in Handler : handlers[h].pc \in {"idle", "runs"}

\* The run at i starts in this step.
Starts(i) == /\ runs'[i].status = "running"
             /\ i \in DOMAIN runs => runs[i].status = "queued"

\* docs/architecture/mcp-gateway.md:82: "rejected approval blocks git sync".
\* Once an approval is rejected and no request is under way that has read the
\* approvals before, no git_sync run starts.
RejectionBlocksGitSync ==
  [][Rejected(Current) /\ NoneUnderWay
       => ~\E i \in DOMAIN runs' : Starts(i) /\ runs'[i].role = "git_sync"]_vars

\* docs/operations/verification-report.md:165: "Dependency and lockfile policy
\* blocks changed dependency files": a task that was found to have changed one
\* is not published from then on.
DependencyPolicyBlocks == [][dependency => prs' = prs]_vars

\* docs/architecture/executors.md:146 and :150: a start call made when capacity
\* is full is queued, and dispatch takes the same "executor startup path as
\* direct run start".  A git_sync run that succeeds has prepared or published a
\* pull request, or a caller has reported on it.
GitSyncSucceedsWithPR ==
  \A i \in Of(runs, "git_sync") : runs[i].status = "succeeded" => runs[i].result # "done"
=============================================================================
