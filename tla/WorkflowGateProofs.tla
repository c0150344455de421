------------------------- MODULE WorkflowGateProofs -------------------------
(***************************************************************************)
(* What WorkflowGate guarantees for every number of requests and every     *)
(* policy, deployment and bound: no pull request past a gate that has      *)
(* never stood open, no request past a rejection it could read, and a      *)
(* completed workflow has its pull request, or a caller's word for it.     *)
(***************************************************************************)
EXTENDS WorkflowGate, SequenceTheorems, TLAPS

-----------------------------------------------------------------------------
(* Types *)

\* A run that waits to be tried again may be tried again.
GoodRun(most) ==
  {run \in [role : Role, status : Status, result : Result, reported : BOOLEAN,
            worker : {"none", "working", "collecting", "retrying", "handler"},
            attempt : 1..most] :
     run.worker = "retrying" => run.attempt < most}

ApprovalStatus == {"pending", "approved", "rejected"}
Approval == {[type |-> type, status |-> status] : type \in ApprovalType, status \in ApprovalStatus}

Fact ==
  [failing : SUBSET Role, started : BOOLEAN, finished : BOOLEAN,
   succeeded : SUBSET Role, recorded : SUBSET {"prepared", "published"}]
    \cup [ApprovalStatus -> SUBSET ApprovalType]

Answer == {"published", "blocked", "publish_prepared"}
HandlerPc == {"idle", "runs", "approvals", "granted", "preparing", "publishing", "answered"}
HandlerType ==
  [pc : HandlerPc, action : Action \cup {"none"}, run : Nat, outcome : Answer \cup {"none"},
   seen : Seq(Fact), rejected : BOOLEAN]

\* A request that talks to the provider has a run, what it has read is what its
\* place says, and it has the provider's word for a pull request.
HandlerTyped(h) ==
  LET s == handlers[h]
  IN  /\ s.run \in 0..Len(runs)
      /\ s.pc = "runs" => Len(s.seen) = 1
      /\ s.pc = "approvals" => Len(s.seen) = 2
      /\ s.pc \in {"preparing", "publishing", "answered"} => s.run # 0
      /\ s.pc = "answered" => s.outcome \in Answer
      /\ s.pc = "answered" /\ s.outcome = "published" => prs > 0

\* Who says that a run has published has done so, or is a caller of worker_result.
Backed(rows, n) ==
  \A i \in 1..Len(rows) : rows[i].result = "published" => n > 0 \/ rows[i].reported
PublishedRuns == Backed(runs, prs)

TInv ==
  /\ task \in Settings
  /\ runs \in Seq(GoodRun(task.attempts))
  /\ PublishedRuns
  /\ scope \in {"none", "passed", "blocked"}
  /\ posted \in 0..task.scopeChecks
  /\ approvals \in Seq(Approval)
  /\ handlers \in [Handler -> HandlerType]
  /\ \A h \in Handler : HandlerTyped(h)
  /\ prs \in Nat
  /\ opened \in 0..3
  /\ dependency \in BOOLEAN

LEMMA SettingTyped ==
  ASSUME task \in Settings
  PROVE  /\ task.modes \subseteq {"live", "dry_run"}
         /\ task.lostRows \in BOOLEAN
         /\ task.attempts \in Nat \ {0}
         /\ task.outcomes \subseteq Failing \cup {"succeeded"}
         /\ task.failures \subseteq {"failed", "blocked", "timed_out"}
         /\ task.reports \subseteq Status /\ task.results \subseteq Result
         /\ task.scopeChecks \in Nat
<1>1. task \in SettingType
  BY ConstantsAssumption
<1> QED
  BY <1>1 DEF SettingType

\* The history only goes on, and goes on when the gates stand open.
LEMMA Remembered ==
  ASSUME opened \in 0..3, Remember
  PROVE  /\ task' = task
         /\ opened' \in 0..3 /\ opened <= opened'
         /\ RunsReady' => opened' >= 1
         /\ opened >= 1 /\ ApprovalsReady' => opened' >= 2
         /\ opened >= 2 /\ scope' = "passed" => opened' = 3
<1> DEFINE first  == opened >= 1 \/ RunsReady'
           second == opened >= 2 \/ (first /\ ApprovalsReady')
           third  == opened = 3 \/ (second /\ scope' = "passed")
<1>1. /\ task' = task
      /\ opened' = CASE third -> 3
                     [] second /\ ~third -> 2
                     [] first /\ ~second -> 1
                     [] OTHER -> 0
  BY DEF Remember
<1>2. opened' = IF third THEN 3 ELSE IF second THEN 2 ELSE IF first THEN 1 ELSE 0
  <2>1. (third => second) /\ (second => first)
    OBVIOUS
  <2> HIDE DEF first, second, third
  <2> QED
    BY <1>1, <2>1
<1> QED
  BY <1>1, <1>2

LEMMA IdleTyped == Idle \in HandlerType /\ Idle.pc = "idle" /\ Idle.run = 0 /\ ~Idle.rejected
<1>1. <<>> \in Seq(Fact)
  BY EmptySeq
<1> QED
  BY <1>1 DEF Idle, HandlerType, HandlerPc

LEMMA TInvInit == Init => TInv
<1> SUFFICES ASSUME Init
             PROVE  TInv
  OBVIOUS
<1>1. /\ runs = <<>> /\ Len(runs) = 0 /\ runs \in Seq(GoodRun(task.attempts))
      /\ approvals \in Seq(Approval)
  BY EmptySeq DEF Init
<1>2. handlers = [h \in Handler |-> Idle]
  BY DEF Init
<1>3. handlers \in [Handler -> HandlerType] /\ \A h \in Handler : HandlerTyped(h)
  BY <1>1, <1>2, IdleTyped DEF HandlerTyped
<1>4. posted \in 0..task.scopeChecks
  BY SettingTyped DEF Init
<1>5. PublishedRuns
  BY <1>1 DEF PublishedRuns, Backed
<1>6. dependency \in BOOLEAN
  BY DEF Init
<1>7. task \in Settings /\ scope = "none" /\ prs = 0 /\ opened = 0
  BY DEF Init
<1> QED
  BY <1>1, <1>3, <1>4, <1>5, <1>6, <1>7 DEF TInv

\* What a step has to show: runs and approvals of their type, and that the
\* requests are what they were or what new says.
LEMMA TInvKept ==
  ASSUME TInv, Remember,
         runs' \in Seq(GoodRun(task.attempts)), Len(runs) <= Len(runs'),
         Backed(runs', prs'),
         scope' \in {"none", "passed", "blocked"}, posted' \in 0..task.scopeChecks,
         approvals' \in Seq(Approval), UNCHANGED handlers,
         prs' \in Nat, prs <= prs', dependency' \in BOOLEAN
  PROVE  TInv'
<1>1. task' = task /\ opened' \in 0..3
  BY Remembered DEF TInv
<1>2. Len(runs) \in Nat /\ Len(runs') \in Nat
  BY LenProperties DEF TInv
<1>3. ASSUME NEW h \in Handler
      PROVE  HandlerTyped(h)'
  BY <1>2, SMT DEF TInv, HandlerTyped
<1> QED
  BY <1>1, <1>3 DEF TInv, PublishedRuns

LEMMA TInvServed ==
  ASSUME TInv, Remember, NEW h \in Handler, NEW new \in HandlerType,
         handlers' = [handlers EXCEPT ![h] = new],
         new.run \in 0..Len(runs'),
         new.pc = "runs" => Len(new.seen) = 1,
         new.pc = "approvals" => Len(new.seen) = 2,
         new.pc \in {"preparing", "publishing", "answered"} => new.run # 0,
         new.pc = "answered" => new.outcome \in Answer,
         new.pc = "answered" /\ new.outcome = "published" => prs' > 0,
         runs' \in Seq(GoodRun(task.attempts)), Len(runs) <= Len(runs'),
         Backed(runs', prs'),
         approvals' \in Seq(Approval), UNCHANGED <<scope, posted, dependency>>,
         prs' \in Nat, prs <= prs'
  PROVE  TInv'
<1>1. task' = task /\ opened' \in 0..3
  BY Remembered DEF TInv
<1>2. Len(runs) \in Nat /\ Len(runs') \in Nat
  BY LenProperties DEF TInv
<1>3. /\ handlers' \in [Handler -> HandlerType]
      /\ handlers'[h] = new
      /\ \A g \in Handler \ {h} : handlers'[g] = handlers[g]
  BY DEF TInv
<1>4. HandlerTyped(h)'
  BY <1>3 DEF HandlerTyped
<1>5. ASSUME NEW g \in Handler \ {h}
      PROVE  HandlerTyped(g)'
  BY <1>2, <1>3, SMT DEF TInv, HandlerTyped
<1> QED
  BY <1>1, <1>3, <1>4, <1>5 DEF TInv, PublishedRuns

-----------------------------------------------------------------------------
(* Rows *)

LEMMA RunsTyped ==
  ASSUME TInv
  PROVE  /\ Len(runs) \in Nat /\ DOMAIN runs = 1..Len(runs)
         /\ \A i \in 1..Len(runs) : /\ runs[i] \in GoodRun(task.attempts)
                                    /\ runs[i].attempt \in 1..task.attempts
                                    /\ runs[i].role \in Role
                                    /\ runs[i].worker = "retrying" => runs[i].attempt < task.attempts
         /\ task.attempts \in Nat \ {0}
<1>1. runs \in Seq(GoodRun(task.attempts)) /\ task.attempts \in Nat \ {0}
  BY SettingTyped DEF TInv
<1>2. \A i \in 1..Len(runs) : runs[i] \in GoodRun(task.attempts)
  BY <1>1, ElementOfSeq
<1> QED
  BY <1>1, <1>2, LenProperties DEF GoodRun

LEMMA NewRunTyped ==
  ASSUME NEW most \in Nat \ {0}, NEW role \in Role, NEW status \in {"queued", "running"},
         NEW worker \in {"none", "working", "handler"}, NEW attempt \in 1..most
  PROVE  /\ NewRun(role, status, worker, attempt) \in GoodRun(most)
         /\ NewRun(role, status, worker, attempt).result = "none"
  BY DEF NewRun, GoodRun, Status, Result

\* A new run.
LEMMA RunsLonger ==
  ASSUME TInv, NEW run \in GoodRun(task.attempts), run.result # "published",
         runs' = Append(runs, run), prs' = prs
  PROVE  /\ runs' \in Seq(GoodRun(task.attempts))
         /\ Len(runs') = Len(runs) + 1 /\ Len(runs) <= Len(runs')
         /\ Backed(runs', prs')
<1>1. runs \in Seq(GoodRun(task.attempts)) /\ Len(runs) \in Nat
  BY RunsTyped DEF TInv
<1>2. /\ runs' \in Seq(GoodRun(task.attempts))
      /\ Len(runs') = Len(runs) + 1
      /\ \A i \in 1..Len(runs) : runs'[i] = runs[i]
      /\ runs'[Len(runs) + 1] = run
  BY <1>1, AppendProperties
<1>3. ASSUME NEW i \in 1..Len(runs'), runs'[i].result = "published"
      PROVE  prs' > 0 \/ runs'[i].reported
  <2>1. i \in 1..Len(runs)
    BY <1>1, <1>2, <1>3
  <2> QED
    BY <1>2, <1>3, <2>1 DEF TInv, PublishedRuns, Backed
<1> QED
  BY <1>1, <1>2, <1>3 DEF Backed

\* A run that is overwritten.
LEMMA RunsChanged ==
  ASSUME TInv, NEW i \in 1..Len(runs), NEW run \in GoodRun(task.attempts),
         \/ run.result = "published" => prs > 0 \/ run.reported
         \/ run.result = runs[i].result /\ run.reported = runs[i].reported,
         runs' = [runs EXCEPT ![i] = run], prs' = prs
  PROVE  /\ runs' \in Seq(GoodRun(task.attempts))
         /\ Len(runs') = Len(runs) /\ Len(runs) <= Len(runs')
         /\ runs'[i] = run
         /\ Backed(runs', prs')
<1>1. runs \in Seq(GoodRun(task.attempts)) /\ Len(runs) \in Nat
  BY RunsTyped DEF TInv
<1>2. /\ runs' \in Seq(GoodRun(task.attempts))
      /\ Len(runs') = Len(runs)
      /\ \A j \in 1..Len(runs) : runs'[j] = IF j = i THEN run ELSE runs[j]
  BY <1>1, ExceptSeq
<1>3. \A j \in 1..Len(runs) : runs[j].result = "published" => prs > 0 \/ runs[j].reported
  BY DEF TInv, PublishedRuns, Backed
<1>4. \A j \in 1..Len(runs) : runs'[j].result = "published" => prs' > 0 \/ runs'[j].reported
  BY <1>2, <1>3
<1> QED
  BY <1>1, <1>2, <1>4 DEF Backed

\* A row that FinishRun has overwritten.
Finished(i, status, result, reported, worker) ==
  [runs[i] EXCEPT !.status = status, !.result = result, !.reported = reported,
                  !.worker = worker]

LEMMA RunFinished ==
  ASSUME TInv, NEW i \in 1..Len(runs), NEW status \in Status, NEW result \in Result,
         NEW reported \in BOOLEAN,
         NEW worker \in {"none", "working", "collecting", "retrying", "handler"},
         worker = "retrying" => runs[i].attempt < task.attempts,
         result = "published" => prs > 0 \/ reported,
         runs' = [runs EXCEPT ![i] = Finished(i, status, result, reported, worker)], prs' = prs
  PROVE  /\ runs' \in Seq(GoodRun(task.attempts))
         /\ Len(runs') = Len(runs) /\ Len(runs) <= Len(runs')
         /\ Backed(runs', prs')
<1>1. runs[i] \in GoodRun(task.attempts)
  BY RunsTyped
<1> DEFINE run == runs[i]
           end == Finished(i, status, result, reported, worker)
<1>2. end = [run EXCEPT !.status = status, !.result = result, !.reported = reported,
                        !.worker = worker]
  BY DEF Finished
<1>3. worker = "retrying" => run.attempt < task.attempts
  OBVIOUS
<1>4. runs' = [runs EXCEPT ![i] = end]
  OBVIOUS
<1> HIDE DEF run, end
<1>5. run \in GoodRun(task.attempts)
  BY <1>1 DEF run
<1>6. /\ end.worker = worker /\ end.attempt = run.attempt
      /\ end.result = result /\ end.reported = reported
  BY <1>2, <1>5 DEF GoodRun
<1> DEFINE workers == {"none", "working", "collecting", "retrying", "handler"}
           all == [role : Role, status : Status, result : Result, reported : BOOLEAN,
                   worker : workers, attempt : 1..task.attempts]
<1>7. run \in all /\ worker \in workers
  BY <1>5 DEF GoodRun
<1> HIDE DEF workers
<1>8. end \in all
  BY <1>2, <1>7
<1>9. end \in GoodRun(task.attempts)
  BY Zenon, <1>3, <1>6, <1>8 DEF GoodRun, workers
<1> QED
  BY <1>4, <1>6, <1>9, RunsChanged

LEMMA ApprovalsTyped ==
  ASSUME TInv
  PROVE  /\ approvals \in Seq(Approval) /\ Len(approvals) \in Nat
         /\ DOMAIN approvals = 1..Len(approvals)
         /\ \A i \in 1..Len(approvals) : approvals[i] \in Approval
  BY LenProperties, ElementOfSeq DEF TInv

LEMMA Asked ==
  ASSUME TInv, NEW type \in ApprovalType, Ask(type)
  PROVE  approvals' \in Seq(Approval)
<1>1. [type |-> type, status |-> "pending"] \in Approval
  BY DEF Approval, ApprovalStatus
<1> QED
  BY <1>1, ApprovalsTyped, AppendProperties DEF Ask

LEMMA Decided ==
  ASSUME TInv, NEW i, NEW status \in {"approved", "rejected"}, DecideApproval(i, status)
  PROVE  approvals' \in Seq(Approval)
<1>1. i \in 1..Len(approvals) /\ approvals' = [approvals EXCEPT ![i].status = status]
  BY ApprovalsTyped DEF DecideApproval
<1>2. PICK type \in ApprovalType, old \in ApprovalStatus :
        approvals[i] = [type |-> type, status |-> old]
  BY <1>1, ApprovalsTyped DEF Approval
<1> DEFINE row == [type |-> type, status |-> status]
<1>3. row \in Approval
  BY DEF Approval, ApprovalStatus
<1>4. [approvals[i] EXCEPT !.status = status] = row
  BY <1>2
<1>5. approvals' = [approvals EXCEPT ![i] = row]
  BY <1>1, <1>4
<1> HIDE DEF row
<1> QED
  BY <1>1, <1>3, <1>5, ApprovalsTyped, ExceptSeq

LEMMA FactsTyped ==
  ASSUME NEW rows
  PROVE  /\ RunFacts(rows) \in Fact
         /\ rows \in Seq(Approval) => ApprovalFacts(rows) \in Fact
<1>1. RunFacts(rows) \in Fact
  BY DEF RunFacts, Fact, Role, LatestIs, Succeeded, Recorded
<1>2. ASSUME rows \in Seq(Approval)
      PROVE  ApprovalFacts(rows) \in Fact
  <2>1. \A i \in DOMAIN rows : rows[i].type \in ApprovalType
    <3>1. \A i \in DOMAIN rows : rows[i] \in Approval
      BY <1>2, LenProperties, ElementOfSeq
    <3> QED
      BY <3>1 DEF Approval
  <2> QED
    BY <2>1 DEF ApprovalFacts, Fact, ApprovalStatus
<1> QED
  BY <1>1, <1>2

-----------------------------------------------------------------------------
(* Requests *)

\* What a request becomes when it has read the runs, and the approvals; when the
\* gate lets it through; when its run has started, and its provider answered.
Reading(f) == [Idle EXCEPT !.pc = "runs", !.seen = <<f>>]
Approving(h, f, r) ==
  [handlers[h] EXCEPT !.pc = "approvals", !.seen = Append(handlers[h].seen, f), !.rejected = r]
LetThrough(h, action) == [handlers[h] EXCEPT !.pc = "granted", !.action = action, !.seen = <<>>]
Syncing(h, pc, i) == [handlers[h] EXCEPT !.pc = pc, !.run = i]
Answered(h, answer) == [handlers[h] EXCEPT !.pc = "answered", !.outcome = answer]

LEMMA RequestTyped ==
  ASSUME TInv, NEW h \in Handler
  PROVE  /\ handlers[h] \in HandlerType
         /\ handlers[h].pc \in HandlerPc
         /\ handlers[h].seen \in Seq(Fact)
         /\ handlers[h].run \in 0..Len(runs) /\ handlers[h].run \in Nat
         /\ handlers[h].rejected \in BOOLEAN
         /\ HandlerTyped(h)
  BY DEF TInv, HandlerType, HandlerTyped

LEMMA ReadingTyped ==
  ASSUME NEW f \in Fact
  PROVE  /\ Reading(f) \in HandlerType
         /\ Reading(f).pc = "runs" /\ Reading(f).run = 0
         /\ Reading(f).seen = <<f>> /\ Len(Reading(f).seen) = 1
         /\ ~Reading(f).rejected
<1>1. <<f>> \in Seq(Fact) /\ Len(<<f>>) = 1
  OBVIOUS
<1> DEFINE one == <<f>>
<1>2. Reading(f) = [Idle EXCEPT !.pc = "runs", !.seen = one]
  BY DEF Reading
<1> HIDE DEF one
<1>3. one \in Seq(Fact)
  BY <1>1 DEF one
<1>4. /\ Reading(f) \in HandlerType
      /\ Reading(f).pc = "runs" /\ Reading(f).run = 0
      /\ Reading(f).seen = one /\ ~Reading(f).rejected
  BY <1>2, <1>3, IdleTyped DEF HandlerType, HandlerPc
<1> QED
  BY <1>1, <1>4 DEF one

LEMMA AppendSecond ==
  ASSUME NEW S, NEW s \in Seq(S), NEW e \in S
  PROVE  Len(s) = 1 => /\ Append(s, e) \in Seq(S) /\ Len(Append(s, e)) = 2
                       /\ Append(s, e)[1] = s[1] /\ Append(s, e)[2] = e
<1> DEFINE more == Append(s, e)
<1>1. /\ more \in Seq(S)
      /\ Len(more) = Len(s) + 1
      /\ \A i \in 1..Len(s) : more[i] = s[i]
      /\ more[Len(s) + 1] = e
  BY AppendProperties
<1> HIDE DEF more
<1>2. Len(s) = 1 => Len(more) = 2 /\ more[1] = s[1] /\ more[2] = e
  BY <1>1
<1> QED
  BY <1>1, <1>2 DEF more

LEMMA ApprovingTyped ==
  ASSUME TInv, NEW h \in Handler, NEW f \in Fact, NEW r \in BOOLEAN,
         handlers[h].pc = "runs"
  PROVE  /\ Approving(h, f, r) \in HandlerType
         /\ Approving(h, f, r).pc = "approvals"
         /\ Approving(h, f, r).run = handlers[h].run
         /\ Len(Approving(h, f, r).seen) = 2
         /\ Approving(h, f, r).seen[1] = handlers[h].seen[1]
         /\ Approving(h, f, r).seen[2] = f
         /\ Approving(h, f, r).rejected = r
<1> DEFINE more == Append(handlers[h].seen, f)
<1>1. handlers[h].seen \in Seq(Fact) /\ Len(handlers[h].seen) = 1
  BY RequestTyped DEF HandlerTyped
<1>2. /\ more \in Seq(Fact) /\ Len(more) = 2
      /\ more[1] = handlers[h].seen[1] /\ more[2] = f
  BY <1>1, AppendSecond
<1>3. Approving(h, f, r) = [handlers[h] EXCEPT !.pc = "approvals", !.seen = more, !.rejected = r]
  BY DEF Approving
<1> HIDE DEF more
<1>4. /\ Approving(h, f, r) \in HandlerType
      /\ Approving(h, f, r).pc = "approvals"
      /\ Approving(h, f, r).run = handlers[h].run
      /\ Approving(h, f, r).seen = more
      /\ Approving(h, f, r).rejected = r
  BY <1>2, <1>3, RequestTyped DEF HandlerType, HandlerPc
<1> QED
  BY <1>2, <1>4

LEMMA LetThroughTyped ==
  ASSUME TInv, NEW h \in Handler, NEW action \in Action
  PROVE  /\ LetThrough(h, action) \in HandlerType
         /\ LetThrough(h, action).pc = "granted"
         /\ LetThrough(h, action).action = action
         /\ LetThrough(h, action).run = handlers[h].run
         /\ LetThrough(h, action).rejected = handlers[h].rejected
<1> DEFINE nothing == <<>>
<1>1. nothing \in Seq(Fact)
  BY EmptySeq
<1>2. LetThrough(h, action) = [handlers[h] EXCEPT !.pc = "granted", !.action = action, !.seen = nothing]
  BY DEF LetThrough
<1> HIDE DEF nothing
<1> QED
  BY <1>1, <1>2, RequestTyped DEF HandlerType, HandlerPc

LEMMA SyncingTyped ==
  ASSUME TInv, NEW h \in Handler, NEW pc \in {"preparing", "publishing"}, NEW i \in Nat
  PROVE  /\ Syncing(h, pc, i) \in HandlerType
         /\ Syncing(h, pc, i).pc = pc
         /\ Syncing(h, pc, i).run = i
         /\ Syncing(h, pc, i).rejected = handlers[h].rejected
  BY RequestTyped DEF Syncing, HandlerType, HandlerPc

LEMMA AnsweredTyped ==
  ASSUME TInv, NEW h \in Handler, NEW answer \in Answer
  PROVE  /\ Answered(h, answer) \in HandlerType
         /\ Answered(h, answer).pc = "answered"
         /\ Answered(h, answer).run = handlers[h].run
         /\ Answered(h, answer).outcome = answer
         /\ Answered(h, answer).rejected = handlers[h].rejected
  BY RequestTyped DEF Answered, HandlerType, HandlerPc

\* What each step of a request makes of it.
LEMMA ReadRunsEffect ==
  ASSUME TInv, NEW h \in Handler, ReadRuns(h)
  PROVE  \E f \in Fact :
           /\ handlers' = [handlers EXCEPT ![h] = Reading(f)]
           /\ task.lostRows \/ f = RunFacts(runs)
<1>1. PICK n \in RowsRead(runs) :
        handlers' = [handlers EXCEPT ![h] = Reading(RunFacts(SubSeq(runs, 1, n)))]
  BY DEF ReadRuns, Reading
<1>2. RunFacts(SubSeq(runs, 1, n)) \in Fact
  BY FactsTyped
<1>3. ASSUME ~task.lostRows
      PROVE  RunFacts(SubSeq(runs, 1, n)) = RunFacts(runs)
  <2>1. n = Len(runs)
    BY <1>3 DEF RowsRead
  <2> QED
    BY <2>1, SubSeqFull DEF TInv
<1> QED
  BY <1>1, <1>2, <1>3

LEMMA ReadApprovalsEffect ==
  ASSUME TInv, NEW h \in Handler, ReadApprovals(h)
  PROVE  \E f \in Fact :
           /\ handlers' = [handlers EXCEPT ![h] = Approving(h, f, Rejected(Current))]
           /\ task.lostRows \/ f = ApprovalFacts(approvals)
<1>1. PICK n \in RowsRead(approvals) :
        handlers' = [handlers EXCEPT ![h] = Approving(h,
          ApprovalFacts(SubSeq(approvals, Len(approvals) - n + 1, Len(approvals))), Rejected(Current))]
  BY DEF ReadApprovals, Approving
<1> DEFINE rows == SubSeq(approvals, Len(approvals) - n + 1, Len(approvals))
<1>2. approvals \in Seq(Approval) /\ Len(approvals) \in Nat
  BY ApprovalsTyped
<1>3. n \in 0..Len(approvals)
  BY <1>2 DEF RowsRead
<1>4. rows \in Seq(Approval)
  <2>1. \A i \in Len(approvals) - n + 1 .. Len(approvals) : approvals[i] \in Approval
    BY <1>2, <1>3, ElementOfSeq
  <2> QED
    BY <1>2, <1>3, <2>1, SubSeqProperties
<1>5. ASSUME ~task.lostRows
      PROVE  rows = approvals
  <2>1. n = Len(approvals)
    BY <1>5 DEF RowsRead
  <2>2. Len(approvals) - n + 1 = 1
    BY <1>2, <2>1
  <2> QED
    BY <1>2, <2>2, SubSeqFull
<1> HIDE DEF rows
<1>6. ApprovalFacts(rows) \in Fact
  BY <1>4, FactsTyped
<1> QED
  BY <1>1, <1>5, <1>6 DEF rows

-----------------------------------------------------------------------------
(* Every step keeps the types *)

\* Rows that a step leaves alone, or leaves alone but for new pull requests.
LEMMA RunsAsTheyWere ==
  ASSUME TInv, UNCHANGED runs, prs' \in Nat, prs <= prs'
  PROVE  /\ runs' \in Seq(GoodRun(task.attempts))
         /\ Len(runs) <= Len(runs') /\ Len(runs') = Len(runs)
         /\ Backed(runs', prs')
<1>1. prs \in Nat
  BY DEF TInv
<1> QED
  BY <1>1, RunsTyped DEF TInv, PublishedRuns, Backed

LEMMA CountTyped ==
  ASSUME TInv
  PROVE  prs \in Nat /\ prs <= prs
<1>1. prs \in Nat
  BY DEF TInv
<1> QED
  BY <1>1

\* A request reads, passes its gate or does not, or asks for an approval.
LEMMA TInvAsks ==
  ASSUME TInv, NEW h \in Handler,
         \/ ReadRuns(h) \/ ReadApprovals(h)
         \/ \E action \in Action : PassGate(h, action)
         \/ Refuse(h) \/ RequestApproval(h)
  PROVE  TInv'
<1>1. ASSUME NEW new \in HandlerType, handlers' = [handlers EXCEPT ![h] = new],
             Remember, UNCHANGED <<runs, scope, posted, prs, dependency>>,
             approvals' \in Seq(Approval),
             new.run \in 0..Len(runs),
             new.pc = "runs" => Len(new.seen) = 1,
             new.pc = "approvals" => Len(new.seen) = 2,
             new.pc \notin {"preparing", "publishing", "answered"}
      PROVE  TInv'
  BY <1>1, RunsAsTheyWere, CountTyped, TInvServed
<1>2. CASE ReadRuns(h)
  <2>1. PICK f \in Fact : handlers' = [handlers EXCEPT ![h] = Reading(f)]
    BY <1>2, ReadRunsEffect
  <2>2. Remember /\ UNCHANGED <<runs, scope, posted, approvals, prs, dependency>>
    BY <1>2 DEF ReadRuns
  <2>3. Reading(f).run \in 0..Len(runs)
    BY ReadingTyped, RunsTyped
  <2> QED
    BY <1>1, <2>1, <2>2, <2>3, ReadingTyped, ApprovalsTyped
<1>3. CASE ReadApprovals(h)
  <2>1. PICK f \in Fact :
          handlers' = [handlers EXCEPT ![h] = Approving(h, f, Rejected(Current))]
    BY <1>3, ReadApprovalsEffect
  <2>2. /\ Remember /\ UNCHANGED <<runs, scope, posted, approvals, prs, dependency>>
        /\ handlers[h].pc = "runs"
    BY <1>3 DEF ReadApprovals
  <2>3. Rejected(Current) \in BOOLEAN
    BY DEF Rejected
  <2> DEFINE r == Rejected(Current)
             new == Approving(h, f, r)
  <2>4. r \in BOOLEAN /\ handlers' = [handlers EXCEPT ![h] = new]
    BY <2>1, <2>3
  <2> HIDE DEF r
  <2>5. /\ new \in HandlerType /\ new.pc = "approvals"
        /\ new.run = handlers[h].run /\ Len(new.seen) = 2
    BY <2>2, <2>4, ApprovingTyped
  <2> HIDE DEF new
  <2>6. handlers[h].run \in 0..Len(runs) /\ approvals' \in Seq(Approval)
    BY <2>2, ApprovalsTyped, RequestTyped
  <2> QED
    BY <1>1, <2>2, <2>4, <2>5, <2>6
<1>4. ASSUME NEW action \in Action, PassGate(h, action)
      PROVE  TInv'
  <2>1. /\ handlers' = [handlers EXCEPT ![h] = LetThrough(h, action)]
        /\ Remember /\ UNCHANGED <<runs, scope, posted, approvals, prs, dependency>>
    BY <1>4 DEF PassGate, LetThrough
  <2> QED
    BY <1>1, <2>1, LetThroughTyped, ApprovalsTyped, RequestTyped
<1>5. ASSUME Return(h), Remember, UNCHANGED <<runs, scope, posted, prs, dependency>>,
             approvals' \in Seq(Approval)
      PROVE  TInv'
  <2>1. handlers' = [handlers EXCEPT ![h] = Idle] /\ Idle.run \in 0..Len(runs)
    BY <1>5, RunsTyped, IdleTyped DEF Return
  <2> QED
    BY <1>1, <1>5, <2>1, IdleTyped
<1>6. CASE Refuse(h)
  BY <1>5, <1>6, ApprovalsTyped DEF Refuse, Return
<1>7. CASE RequestApproval(h)
  <2>1. \E type \in ApprovalType : Ask(type)
    BY <1>7 DEF RequestApproval, ApprovalType
  <2> QED
    BY <1>5, <1>7, <2>1, Asked DEF RequestApproval
<1> QED
  BY <1>2, <1>3, <1>4, <1>6, <1>7

\* A request starts or queues a run, finishes one, or calls the provider.
LEMMA TInvActs ==
  ASSUME TInv, NEW h \in Handler,
         \/ StartWorker(h) \/ QueueInstead(h) \/ StartGitSync(h)
         \/ FinishPrepare(h) \/ CallProvider(h) \/ FinishPublish(h)
  PROVE  TInv'
<1> DEFINE Kept == UNCHANGED <<scope, posted, approvals, dependency>>
           Good == /\ runs' \in Seq(GoodRun(task.attempts))
                   /\ Len(runs) <= Len(runs')
                   /\ Backed(runs', prs')
<1>1. ASSUME Return(h), Remember, Kept, UNCHANGED prs, Good
      PROVE  TInv'
  <2>1. handlers' = [handlers EXCEPT ![h] = Idle] /\ Idle.run \in 0..Len(runs')
    <3>1. Len(runs') \in Nat
      BY <1>1, LenProperties
    <3> QED
      BY <1>1, <3>1, IdleTyped DEF Return
  <2> QED
    BY <1>1, <2>1, IdleTyped, ApprovalsTyped, CountTyped, TInvServed
<1>2. ASSUME NEW action, NEW role \in RolesOf(action)
      PROVE  role \in Role
  BY <1>2 DEF RolesOf, Role
<1>3. CASE StartWorker(h)
  <2>1. PICK role \in RolesOf(handlers[h].action) :
          runs' = Append(runs, NewRun(role, "running", "working", 1))
    BY <1>3 DEF StartWorker, Start
  <2>2. /\ NewRun(role, "running", "working", 1) \in GoodRun(task.attempts)
        /\ NewRun(role, "running", "working", 1).result = "none"
    BY <1>2, RunsTyped, NewRunTyped
  <2>3. UNCHANGED prs
    BY <1>3 DEF StartWorker
  <2>4. Good
    BY <2>1, <2>2, <2>3, RunsLonger
  <2> QED
    BY <1>1, <1>3, <2>4 DEF StartWorker
<1>4. CASE QueueInstead(h)
  <2>1. PICK role \in RolesOf(handlers[h].action) :
          runs' = Append(runs, NewRun(role, "queued", "none", 1))
    BY <1>4 DEF QueueInstead, Enqueue
  <2>2. /\ NewRun(role, "queued", "none", 1) \in GoodRun(task.attempts)
        /\ NewRun(role, "queued", "none", 1).result = "none"
    BY <1>2, RunsTyped, NewRunTyped
  <2>3. UNCHANGED prs
    BY <1>4 DEF QueueInstead
  <2>4. Good
    BY <2>1, <2>2, <2>3, RunsLonger
  <2> QED
    BY <1>1, <1>4, <2>4 DEF QueueInstead
<1>5. CASE StartGitSync(h)
  <2> DEFINE pc == IF handlers[h].action = "git_publish_pr" THEN "publishing" ELSE "preparing"
             new == Syncing(h, pc, Len(runs) + 1)
  <2>1. runs' = Append(runs, NewRun("git_sync", "running", "handler", 1))
    BY <1>5 DEF StartGitSync, Start
  <2>2. /\ NewRun("git_sync", "running", "handler", 1) \in GoodRun(task.attempts)
        /\ NewRun("git_sync", "running", "handler", 1).result = "none"
    BY RunsTyped, NewRunTyped DEF Role
  <2>3. UNCHANGED prs /\ Kept /\ Remember
    BY <1>5 DEF StartGitSync
  <2>4. Good /\ Len(runs') = Len(runs) + 1
    BY <2>1, <2>2, <2>3, RunsLonger
  <2>5. handlers' = [handlers EXCEPT ![h] = new]
    BY <1>5 DEF StartGitSync, Syncing
  <2>6. /\ new \in HandlerType /\ new.run = Len(runs) + 1
        /\ new.pc \in {"preparing", "publishing"}
    <3>1. Len(runs) + 1 \in Nat
      BY RunsTyped
    <3> QED
      BY <3>1, SyncingTyped
  <2> HIDE DEF new
  <2>7. new.run \in 0..Len(runs') /\ new.run # 0
    BY <2>4, <2>6, RunsTyped
  <2> QED
    BY <2>3, <2>4, <2>5, <2>6, <2>7, ApprovalsTyped, CountTyped, TInvServed
<1>6. ASSUME handlers[h].pc \in {"preparing", "publishing", "answered"}
      PROVE  handlers[h].run \in 1..Len(runs)
  BY <1>6, RequestTyped, RunsTyped DEF HandlerTyped
<1>7. CASE FinishPrepare(h)
  <2>1. /\ Finish(handlers[h].run, "succeeded", "prepared", "none")
        /\ handlers[h].run \in 1..Len(runs) /\ UNCHANGED prs
    BY <1>6, <1>7 DEF FinishPrepare
  <2> DEFINE i == handlers[h].run
  <2>2. i \in 1..Len(runs) /\ Finish(i, "succeeded", "prepared", "none")
    BY <2>1
  <2> HIDE DEF i
  <2>3. runs' = [runs EXCEPT ![i] = Finished(i, "succeeded", "prepared", FALSE, "none")]
    BY <2>2 DEF Finish, Finished
  <2>4. Good
    BY <2>1, <2>2, <2>3, RunFinished DEF Status, Result
  <2> QED
    BY <1>1, <1>7, <2>4 DEF FinishPrepare
<1>8. CASE CallProvider(h)
  <2>1. PICK answer \in Answer :
          /\ prs' \in {prs, prs + 1}
          /\ answer = "published" => prs' = prs + 1
          /\ handlers' = [handlers EXCEPT ![h] = Answered(h, answer)]
    <3>1. PICK answer \in UNION {IF mode = "live" THEN {"published", "blocked"}
                                                  ELSE {"publish_prepared"} : mode \in task.modes} :
            /\ prs' \in CASE answer = "published" -> {prs + 1}
                          [] answer = "blocked" -> {prs, prs + 1}
                          [] OTHER -> {prs}
            /\ handlers' = [handlers EXCEPT ![h] = Answered(h, answer)]
      BY <1>8 DEF CallProvider, Answered
    <3>2. answer \in Answer
      BY DEF Answer
    <3> QED
      BY <3>1, <3>2
  <2>2. /\ Remember /\ Kept /\ UNCHANGED runs
        /\ handlers[h].run \in 1..Len(runs)
    BY <1>6, <1>8 DEF CallProvider
  <2>3. prs' \in Nat /\ prs <= prs' /\ (answer = "published" => prs' > 0)
    BY <2>1, CountTyped
  <2>4. Good
    BY <2>2, <2>3, RunsAsTheyWere
  <2>5. handlers[h].run \in 0..Len(runs') /\ handlers[h].run # 0
    BY <2>2, RunsTyped
  <2> DEFINE new == Answered(h, answer)
  <2>6. /\ new \in HandlerType /\ new.pc = "answered"
        /\ new.run = handlers[h].run /\ new.outcome = answer
    BY AnsweredTyped
  <2>7. handlers' = [handlers EXCEPT ![h] = new]
    BY <2>1
  <2> HIDE DEF new
  <2>8. /\ new.run \in 0..Len(runs') /\ new.run # 0 /\ new.outcome \in Answer
        /\ new.outcome = "published" => prs' > 0
    BY <2>3, <2>5, <2>6
  <2>9. approvals' \in Seq(Approval) /\ UNCHANGED <<scope, posted, dependency>>
    BY <2>2, ApprovalsTyped
  <2> QED
    BY <2>2, <2>3, <2>4, <2>6, <2>7, <2>8, <2>9, TInvServed
<1>9. CASE FinishPublish(h)
  <2> DEFINE outcome == handlers[h].outcome
             status == IF outcome = "blocked" THEN "blocked" ELSE "succeeded"
  <2>1. /\ Finish(handlers[h].run, status, outcome, "none")
        /\ handlers[h].run \in 1..Len(runs) /\ UNCHANGED prs
    BY <1>6, <1>9 DEF FinishPublish
  <2>2. outcome \in Answer /\ (outcome = "published" => prs > 0)
    BY <1>9, RequestTyped DEF FinishPublish, HandlerTyped
  <2>3. status \in Status
    BY DEF Status, Failing
  <2> DEFINE i == handlers[h].run
  <2>5. i \in 1..Len(runs) /\ Finish(i, status, outcome, "none")
    BY <2>1
  <2>6. outcome \in Result
    BY <2>2 DEF Answer, Result
  <2> HIDE DEF outcome, status, i
  <2>7. runs' = [runs EXCEPT ![i] = Finished(i, status, outcome, FALSE, "none")]
    BY <2>5 DEF Finish, Finished
  <2>4. Good
    BY <2>1, <2>2, <2>3, <2>5, <2>6, <2>7, RunFinished
  <2> QED
    BY <1>1, <1>9, <2>4 DEF FinishPublish
<1> QED
  BY <1>3, <1>4, <1>5, <1>7, <1>8, <1>9

\* Requests that pass no gate, but for reports on runs.
LEMMA TInvUngated ==
  ASSUME TInv,
         \/ \E type \in ApprovalType : CreateApproval(type)
         \/ \E i \in 1..task.approvals, status \in {"approved", "rejected"} : DecideApproval(i, status)
         \/ \E status \in {"passed", "blocked"} : PostScopeCheck(status)
  PROVE  TInv'
<1>1. ASSUME Remember, UNCHANGED <<runs, handlers, prs, dependency>>,
             scope' \in {"none", "passed", "blocked"}, posted' \in 0..task.scopeChecks,
             approvals' \in Seq(Approval)
      PROVE  TInv'
  <2>1. dependency' \in BOOLEAN
    BY <1>1 DEF TInv
  <2> QED
    BY <1>1, <2>1, RunsAsTheyWere, CountTyped, TInvKept
<1>2. ASSUME NEW type \in ApprovalType, CreateApproval(type)
      PROVE  TInv'
  <2>1. approvals' \in Seq(Approval)
    BY <1>2, Asked DEF CreateApproval
  <2> QED
    BY <1>1, <1>2, <2>1 DEF CreateApproval, TInv
<1>3. ASSUME NEW i \in 1..task.approvals, NEW status \in {"approved", "rejected"},
             DecideApproval(i, status)
      PROVE  TInv'
  <2>1. approvals' \in Seq(Approval)
    BY <1>3, Decided
  <2> QED
    BY <1>1, <1>3, <2>1 DEF DecideApproval, TInv
<1>4. ASSUME NEW status \in {"passed", "blocked"}, PostScopeCheck(status)
      PROVE  TInv'
  <2>1. posted' \in 0..task.scopeChecks
    BY <1>4, SettingTyped DEF PostScopeCheck, TInv
  <2> QED
    BY <1>1, <1>4, <2>1, ApprovalsTyped DEF PostScopeCheck
<1> QED
  BY <1>2, <1>3, <1>4

Released(i) == [runs[i] EXCEPT !.worker = "none"]
Dispatched(i) == [runs[i] EXCEPT !.status = "running", !.worker = "working"]

\* Workers, the queue, and reports on runs.
LEMMA TInvRuns ==
  ASSUME TInv, NEW i \in 1..task.runs, RunStep(i)
  PROVE  TInv' /\ UNCHANGED <<handlers, prs, approvals>>
<1> DEFINE Good == /\ runs' \in Seq(GoodRun(task.attempts))
                   /\ Len(runs) <= Len(runs')
                   /\ Backed(runs', prs')
<1>1. ASSUME Good, Remember, UNCHANGED <<posted, approvals, handlers, prs>>,
             scope' \in {"none", "passed", "blocked"}, dependency' \in BOOLEAN
      PROVE  TInv' /\ UNCHANGED <<handlers, prs, approvals>>
  <2>1. posted' \in 0..task.scopeChecks
    BY <1>1 DEF TInv
  <2> QED
    BY <1>1, <2>1, ApprovalsTyped, CountTyped, TInvKept
<1>2. scope \in {"none", "passed", "blocked"} /\ dependency \in BOOLEAN
  BY DEF TInv
<1> DEFINE Kept == Remember /\ UNCHANGED <<scope, posted, approvals, handlers, prs, dependency>>
<1>3. ASSUME Good, Kept
      PROVE  TInv' /\ UNCHANGED <<handlers, prs, approvals>>
  BY <1>1, <1>2, <1>3
<1>4. ASSUME i \in 1..Len(runs)
      PROVE  /\ Released(i) \in GoodRun(task.attempts)
             /\ Released(i).result = runs[i].result /\ Released(i).reported = runs[i].reported
             /\ Dispatched(i) \in GoodRun(task.attempts)
             /\ Dispatched(i).result = runs[i].result
             /\ Dispatched(i).reported = runs[i].reported
  <2>1. runs[i] \in GoodRun(task.attempts)
    BY <1>4, RunsTyped
  <2> QED
    BY <2>1 DEF Released, Dispatched, GoodRun, Status
<1>5. CASE DispatchQueuedRun(i)
  <2>1. i \in 1..Len(runs) /\ runs' = [runs EXCEPT ![i] = Dispatched(i)] /\ Kept
    BY <1>5, RunsTyped DEF DispatchQueuedRun, Dispatched
  <2>2. Good
    BY <1>4, <2>1, RunsChanged
  <2> QED
    BY <1>3, <2>1, <2>2
<1>6. ASSUME NEW status \in Status, NEW result \in {"none", "done"},
             NEW worker \in {"none", "working", "collecting", "retrying", "handler"},
             i \in 1..Len(runs), worker = "retrying" => runs[i].attempt < task.attempts,
             Finish(i, status, result, worker), Kept
      PROVE  TInv' /\ UNCHANGED <<handlers, prs, approvals>>
  <2>2. runs' = [runs EXCEPT ![i] = Finished(i, status, result, FALSE, worker)]
    BY <1>6 DEF Finish, Finished
  <2>1. Good
    BY <1>6, <2>2, RunFinished DEF Result
  <2> QED
    BY <1>3, <1>6, <2>1
<1>7. ASSUME NEW status \in task.outcomes, WorkerReports(i, status)
      PROVE  TInv' /\ UNCHANGED <<handlers, prs, approvals>>
  <2>1. status \in Status
    BY SettingTyped DEF TInv, Status
  <2>2. i \in 1..Len(runs) /\ Finish(i, status, "done", "collecting") /\ Kept
    BY <1>7, RunsTyped DEF WorkerReports, Doing
  <2> QED
    BY <1>6, <2>1, <2>2
<1>8. ASSUME NEW status \in task.failures, WorkerFails(i, status)
      PROVE  TInv' /\ UNCHANGED <<handlers, prs, approvals>>
  <2> DEFINE worker == IF MayRetry(runs[i], status) THEN "retrying" ELSE "none"
  <2>1. status \in Status
    BY SettingTyped DEF TInv, Status, Failing
  <2>2. i \in 1..Len(runs) /\ Finish(i, status, "none", worker) /\ Kept
    BY <1>8, RunsTyped DEF WorkerFails, Doing
  <2>3. worker = "retrying" => runs[i].attempt < task.attempts
    BY DEF MayRetry, MaxAttempts
  <2>4. worker \in {"none", "retrying"}
    OBVIOUS
  <2> HIDE DEF worker
  <2> QED
    BY <1>6, <2>1, <2>2, <2>3, <2>4
<1>9. CASE RetryFailedRun(i)
  <2> DEFINE rows == [runs EXCEPT ![i] = Released(i)]
             new == NewRun(runs[i].role, "queued", "none", runs[i].attempt + 1)
  <2>1. i \in 1..Len(runs) /\ runs[i].worker = "retrying" /\ Kept
    BY <1>9, RunsTyped DEF RetryFailedRun, Doing
  <2>2. runs' = Append(rows, new)
    BY <1>9 DEF RetryFailedRun, Released
  <2>3. /\ rows \in Seq(GoodRun(task.attempts))
        /\ Len(rows) = Len(runs)
        /\ \A j \in 1..Len(runs) : rows[j] = IF j = i THEN Released(i) ELSE runs[j]
    BY <1>4, <2>1, ExceptSeq DEF TInv
  <2>4. new \in GoodRun(task.attempts) /\ new.result = "none"
    <3>1. runs[i].attempt + 1 \in 1..task.attempts /\ runs[i].role \in Role
      BY <2>1, RunsTyped
    <3> QED
      BY <3>1, RunsTyped, NewRunTyped
  <2> HIDE DEF rows, new
  <2>5. /\ runs' \in Seq(GoodRun(task.attempts))
        /\ Len(runs') = Len(rows) + 1
        /\ \A j \in 1..Len(rows) : runs'[j] = rows[j]
        /\ runs'[Len(rows) + 1] = new
    BY <2>2, <2>3, <2>4, AppendProperties
  <2>6. ASSUME NEW j \in 1..Len(runs'), runs'[j].result = "published"
        PROVE  prs' > 0 \/ runs'[j].reported
    <3>1. j \in 1..Len(runs) /\ runs'[j] = rows[j]
      BY <2>3, <2>4, <2>5, <2>6, RunsTyped
    <3>2. runs[j].result = "published" /\ runs'[j].reported = runs[j].reported
      BY <1>4, <2>1, <2>3, <2>6, <3>1
    <3> QED
      BY <2>1, <3>1, <3>2 DEF TInv, PublishedRuns, Backed
  <2>7. Len(runs) <= Len(runs')
    BY <2>3, <2>5, RunsTyped
  <2>8. Backed(runs', prs')
    BY <2>6 DEF Backed
  <2> QED
    BY <1>3, <2>1, <2>5, <2>7, <2>8
<1>10. ASSUME NEW changed \in task.changes, CollectChanges(i, changed)
       PROVE  TInv' /\ UNCHANGED <<handlers, prs, approvals>>
  <2>1. /\ i \in 1..Len(runs) /\ runs' = [runs EXCEPT ![i] = Released(i)]
        /\ Remember /\ UNCHANGED <<posted, approvals, handlers, prs>>
    BY <1>10, RunsTyped DEF CollectChanges, Doing, Released
  <2>2. Good
    BY <1>4, <2>1, RunsChanged
  <2>3. changed \in {"nothing", "in_scope", "out_of_scope", "dependency"}
    BY ConstantsAssumption DEF TInv, SettingType
  <2>4. scope' \in {"none", "passed", "blocked"}
    BY <1>2, <1>10, <2>3 DEF CollectChanges
  <2>5. dependency' \in BOOLEAN
    BY <1>10 DEF CollectChanges
  <2> QED
    BY <1>1, <2>1, <2>2, <2>4, <2>5
<1>11. ASSUME NEW status \in task.reports, NEW result \in task.results,
              ReportResult(i, status, result)
       PROVE  TInv' /\ UNCHANGED <<handlers, prs, approvals>>
  <2>1. status \in Status /\ result \in Result
    BY SettingTyped DEF TInv
  <2> DEFINE worker == runs[i].worker
  <2>2. i \in 1..Len(runs) /\ Kept
    BY <1>11, RunsTyped DEF ReportResult
  <2>3. runs[i] \in GoodRun(task.attempts)
    BY <2>2, RunsTyped
  <2>4. /\ worker \in {"none", "working", "collecting", "retrying", "handler"}
        /\ worker = "retrying" => runs[i].attempt < task.attempts
    BY <2>3 DEF GoodRun
  <2>5. runs' = [runs EXCEPT ![i] = Finished(i, status, result, TRUE, worker)]
    <3>1. Finished(i, status, result, TRUE, worker)
            = [runs[i] EXCEPT !.status = status, !.result = result, !.reported = TRUE]
      BY <2>3 DEF Finished, GoodRun
    <3> QED
      BY <1>11, <3>1 DEF ReportResult
  <2> HIDE DEF worker
  <2>6. Good
    BY <2>1, <2>2, <2>4, <2>5, RunFinished
  <2> QED
    BY <1>3, <2>2, <2>6
<1> QED
  BY <1>5, <1>7, <1>8, <1>9, <1>10, <1>11 DEF RunStep

LEMMA TInvNext == TInv /\ [Next]_vars => TInv'
<1> SUFFICES ASSUME TInv, [Next]_vars
             PROVE  TInv'
  OBVIOUS
<1>1. CASE Next
  BY <1>1, TInvAsks, TInvActs, TInvUngated, TInvRuns DEF Next, HandlerStep
<1>2. CASE UNCHANGED vars
  BY <1>2 DEF vars, TInv, HandlerTyped, PublishedRuns, Backed
<1> QED
  BY <1>1, <1>2

LEMMA TInvAlways == Spec => []TInv
  BY TInvInit, TInvNext, PTL DEF Spec

\* Every variable has its type; in particular no run is retried more often than
\* its profile allows (enqueueRetryIfAllowed), however failures, reports on the
\* run and results of a handler follow each other.
THEOREM TypesHold == Spec => []TypeOK
<1>1. TInv => TypeOK
  <2> SUFFICES ASSUME TInv
               PROVE  TypeOK
    OBVIOUS
  <2>1. \A i \in DOMAIN runs : runs[i] \in RunType
    BY RunsTyped DEF GoodRun, RunType, MaxAttempts
  <2>2. \A i \in DOMAIN approvals :
          approvals[i] \in [type : ApprovalType, status : {"pending", "approved", "rejected"}]
    BY ApprovalsTyped DEF Approval, ApprovalStatus
  <2>3. \A h \in Handler :
          /\ handlers[h].pc \in {"idle", "runs", "approvals", "granted",
                                 "preparing", "publishing", "answered"}
          /\ handlers[h].run \in 0..Len(runs)
    BY RequestTyped DEF HandlerPc
  <2> QED
    BY <2>1, <2>2, <2>3 DEF TInv, TypeOK
<1> QED
  BY <1>1, TInvAlways, PTL

\* The workflow of a task reads "completed" only when a pull request was created
\* at the provider, or a caller of worker_result said so on a Git Sync run and its
\* report stands: neither a dry run nor a Git Sync run that a worker has executed
\* completes it (latestRunWithResultStatus), whatever else callers report and the
\* store's reads return.
THEOREM CompletedHasItsPullRequest == Spec => []CompletedMeansPublished
<1>1. TInv => CompletedMeansPublished
  <2> SUFFICES ASSUME TInv, Offers(Current, "completed")
               PROVE  prs > 0 \/ PublishedByReport
    BY DEF CompletedMeansPublished
  <2>1. Published(Current)
    BY DEF Offers
  <2>2. Recorded(runs, "published")
    BY <2>1 DEF Published, Current, State, RunFacts
  <2>3. PICK i \in Of(runs, "git_sync") : runs[i].result = "published"
    BY <2>2 DEF Recorded
  <2>4. i \in 1..Len(runs)
    BY RunsTyped DEF Of
  <2> QED
    BY <2>3, <2>4 DEF TInv, PublishedRuns, Backed, PublishedByReport
<1> QED
  BY <1>1, TInvAlways, PTL

-----------------------------------------------------------------------------
(* Gates *)

\* No list of the store ends early: a rejection, or a failed run, that is there
\* is read.
ReadsAreComplete == \A setting \in Settings : ~setting.lostRows

\* What BuildState has to read for a pull request to be published.
RunsAllow(f) ==
  /\ f.failing = {}
  /\ f.finished
  /\ RequireTests => "test" \in f.succeeded
  /\ RequireAudit => "audit" \in f.succeeded
  /\ "prepared" \in f.recorded

ApprovalsAllow(f) ==
  /\ f["rejected"] = {}
  /\ RequireHumanBeforePR => "pr_prepare" \in f["approved"]
  /\ "pr_publish" \in f["approved"]

LEMMA RunsAllowed ==
  ASSUME RunsAllow(RunFacts(runs))
  PROVE  RunsReady
<1>1. \A role \in {"test", "audit", "git_sync"} : ~LatestIs(runs, role, Failing)
  BY DEF RunsAllow, RunFacts
<1>2. Succeeded(runs, "feature")
  BY DEF RunsAllow, RunFacts, LatestIs, Succeeded
<1>3. /\ RequireTests => Succeeded(runs, "test")
      /\ RequireAudit => Succeeded(runs, "audit")
      /\ Recorded(runs, "prepared")
  BY DEF RunsAllow, RunFacts
<1> QED
  BY <1>1, <1>2, <1>3 DEF RunsReady

LEMMA ApprovalsAllowed ==
  ASSUME TInv, ApprovalsAllow(ApprovalFacts(approvals))
  PROVE  ApprovalsReady
<1> DEFINE rows == {approvals[i] : i \in DOMAIN approvals}
           facts == ApprovalFacts(approvals)
<1>1. \A status \in ApprovalStatus :
        facts[status] = {approvals[i].type : i \in {j \in DOMAIN approvals : approvals[j].status = status}}
  BY DEF ApprovalFacts, ApprovalStatus
<1>2. \A i \in DOMAIN approvals : approvals[i].status # "rejected"
  BY <1>1 DEF ApprovalsAllow, ApprovalStatus
<1>3. ASSUME NEW type \in facts["approved"]
      PROVE  [type |-> type, status |-> "approved"] \in rows
  <2>1. PICK i \in DOMAIN approvals : approvals[i].status = "approved" /\ approvals[i].type = type
    BY <1>1 DEF ApprovalStatus
  <2>2. approvals[i] \in Approval
    BY ApprovalsTyped
  <2>3. approvals[i] = [type |-> type, status |-> "approved"]
    BY <2>1, <2>2 DEF Approval
  <2> QED
    BY <2>3
<1>4. /\ RequireHumanBeforePR => "pr_prepare" \in facts["approved"]
      /\ "pr_publish" \in facts["approved"]
  BY DEF ApprovalsAllow
<1> QED
  BY <1>2, <1>3, <1>4 DEF ApprovalsReady

LEMMA RejectedFacts == Rejected(Current) = (ApprovalFacts(approvals)["rejected"] # {})
  BY DEF Rejected, Current, State

\* The gate of publishing is the last one, and no gate opens on a rejection.
LEMMA GateNeeds ==
  ASSUME NEW f, NEW a, NEW s, NEW action \in Action,
         GateAllows(State(f, a, s), action)
  PROVE  /\ a["rejected"] = {}
         /\ action = "git_publish_pr" => RunsAllow(f) /\ ApprovalsAllow(a) /\ s = "passed"
<1> DEFINE w == State(f, a, s)
<1>1. w.runs = f /\ w.approvals = a /\ w.scope = s
  BY DEF State
<1>2. BlockedReasons(w) = {} /\ Offers(w, action)
  BY DEF GateAllows
<1> HIDE DEF w
<1>3. w.runs.failing = {} /\ ~Rejected(w)
  BY <1>2 DEF BlockedReasons
<1>4. ASSUME action = "git_publish_pr"
      PROVE  RunsAllow(f) /\ ApprovalsAllow(a) /\ s = "passed"
  <2>1. ReadyForPR(w) /\ Prepared(w) /\ PublishApproved(w)
    BY <1>2, <1>4 DEF Offers
  <2>2. f.finished /\ s = "passed"
    BY <1>1, <2>1 DEF ReadyForPR, InScope
  <2>3. /\ RequireTests => "test" \in f.succeeded
        /\ RequireAudit => "audit" \in f.succeeded
        /\ RequireHumanBeforePR => "pr_prepare" \in a["approved"]
        /\ "prepared" \in f.recorded
        /\ "pr_publish" \in a["approved"]
    BY <1>1, <2>1 DEF ReadyForPR, TestsPassed, AuditPassed, PrepareApproved, Prepared, PublishApproved
  <2>4. f.failing = {} /\ a["rejected"] = {}
    BY <1>1, <1>3 DEF Rejected
  <2> QED
    BY <2>2, <2>3, <2>4 DEF RunsAllow, ApprovalsAllow
<1> QED
  BY <1>1, <1>3, <1>4 DEF Rejected

\* As far as a request has got, the gates stood open; and where it has read a
\* rejection, it stays before its gate.
Gated(h) ==
  LET s == handlers[h]
  IN  /\ s.pc = "runs" /\ RunsAllow(s.seen[1]) => opened >= 1
      /\ s.pc = "approvals" /\ RunsAllow(s.seen[1]) /\ ApprovalsAllow(s.seen[2]) => opened >= 2
      /\ s.pc = "granted" /\ s.action = "git_publish_pr" => opened = 3
      /\ s.pc \in {"publishing", "answered"} => opened = 3
      /\ s.rejected => s.pc = "approvals" /\ s.seen[2]["rejected"] # {}

GInv == (prs > 0 => opened = 3) /\ \A h \in Handler : Gated(h)

LEMMA GInvInit == Init => GInv
<1> SUFFICES ASSUME Init
             PROVE  GInv
  OBVIOUS
<1>1. prs = 0 /\ \A h \in Handler : handlers[h] = Idle
  BY DEF Init
<1>2. Idle.pc = "idle" /\ Idle.rejected = FALSE
  BY DEF Idle
<1> QED
  BY <1>1, <1>2 DEF GInv, Gated

LEMMA PolicyStays ==
  ASSUME task' = task
  PROVE  \A f : (RunsAllow(f)' <=> RunsAllow(f)) /\ (ApprovalsAllow(f)' <=> ApprovalsAllow(f))
  BY DEF RunsAllow, ApprovalsAllow, RequireTests, RequireAudit, RequireHumanBeforePR

\* A request that does nothing keeps what it knows.
LEMMA GatedKept ==
  ASSUME TInv, GInv, Remember, NEW h \in Handler, handlers'[h] = handlers[h]
  PROVE  Gated(h)'
<1>1. opened \in 0..3 /\ opened' \in 0..3 /\ opened <= opened' /\ task' = task
  BY Remembered DEF TInv
<1>2. Gated(h)
  BY DEF GInv
<1> QED
  BY <1>1, <1>2, PolicyStays DEF Gated

\* A step that serves no request.
LEMMA GInvKept ==
  ASSUME TInv, GInv, Remember, UNCHANGED <<handlers, prs>>
  PROVE  GInv'
<1>1. opened \in 0..3 /\ opened' \in 0..3 /\ opened <= opened'
  BY Remembered DEF TInv
<1>2. \A h \in Handler : Gated(h)'
  BY GatedKept
<1> QED
  BY <1>1, <1>2 DEF GInv

\* A step that serves h.
LEMMA GInvServed ==
  ASSUME TInv, GInv, Remember, NEW h \in Handler, NEW new,
         handlers' = [handlers EXCEPT ![h] = new],
         prs' > 0 => prs > 0 \/ opened' = 3,
         new.pc = "runs" /\ RunsAllow(new.seen[1]) => opened' >= 1,
         new.pc = "approvals" /\ RunsAllow(new.seen[1]) /\ ApprovalsAllow(new.seen[2]) => opened' >= 2,
         new.pc = "granted" /\ new.action = "git_publish_pr" => opened' = 3,
         new.pc \in {"publishing", "answered"} => opened' = 3,
         new.rejected => new.pc = "approvals" /\ new.seen[2]["rejected"] # {}
  PROVE  GInv'
<1>1. opened \in 0..3 /\ opened' \in 0..3 /\ opened <= opened' /\ task' = task
  BY Remembered DEF TInv
<1>2. handlers'[h] = new /\ \A g \in Handler \ {h} : handlers'[g] = handlers[g]
  BY DEF TInv
<1>3. Gated(h)'
  BY <1>1, <1>2, PolicyStays DEF Gated
<1>4. \A g \in Handler \ {h} : Gated(g)'
  BY <1>2, GatedKept
<1> QED
  BY <1>1, <1>3, <1>4 DEF GInv

LEMMA GInvAsks ==
  ASSUME ReadsAreComplete, TInv, GInv, NEW h \in Handler,
         \/ ReadRuns(h) \/ ReadApprovals(h)
         \/ \E action \in Action : PassGate(h, action)
         \/ Refuse(h) \/ RequestApproval(h)
  PROVE  GInv'
<1>1. ~task.lostRows
  BY DEF ReadsAreComplete, TInv
<1>2. Remember /\ UNCHANGED <<runs, prs>>
  BY DEF ReadRuns, ReadApprovals, PassGate, Refuse, RequestApproval
<1>3. opened \in 0..3 /\ Gated(h)
  BY DEF TInv, GInv
<1>4. CASE ReadRuns(h)
  <2>1. PICK f \in Fact : /\ handlers' = [handlers EXCEPT ![h] = Reading(f)]
                          /\ f = RunFacts(runs)
    BY <1>1, <1>4, ReadRunsEffect
  <2> DEFINE new == Reading(f)
  <2>2. new.pc = "runs" /\ ~new.rejected /\ new.seen[1] = f
    BY ReadingTyped
  <2>3. RunsAllow(f) => opened' >= 1
    <3>1. ASSUME RunsAllow(f)
          PROVE  RunsReady'
      <4>1. RunsReady
        BY <2>1, <3>1, RunsAllowed
      <4>2. UNCHANGED <<runs, task>>
        BY <1>2, <1>3, Remembered
      <4> QED
        BY <4>1, <4>2 DEF RunsReady, LatestIs, Succeeded, Recorded, Of, RequireTests, RequireAudit
    <3> QED
      BY <1>2, <1>3, <3>1, Remembered
  <2>4. handlers' = [handlers EXCEPT ![h] = new]
    BY <2>1
  <2> HIDE DEF new
  <2> QED
    BY <1>2, <2>2, <2>3, <2>4, GInvServed
<1>5. CASE ReadApprovals(h)
  <2> DEFINE r == Rejected(Current)
  <2>1. PICK f \in Fact : /\ handlers' = [handlers EXCEPT ![h] = Approving(h, f, r)]
                          /\ f = ApprovalFacts(approvals)
    BY <1>1, <1>5, ReadApprovalsEffect
  <2> DEFINE new == Approving(h, f, r)
  <2>2. handlers[h].pc = "runs" /\ UNCHANGED approvals
    BY <1>5 DEF ReadApprovals
  <2>3. r \in BOOLEAN
    BY DEF Rejected
  <2>4. r = (f["rejected"] # {}) /\ handlers' = [handlers EXCEPT ![h] = new]
    BY <2>1, RejectedFacts
  <2> HIDE DEF r
  <2>5. /\ new.pc = "approvals" /\ new.rejected = r
        /\ new.seen[1] = handlers[h].seen[1] /\ new.seen[2] = f
    BY <2>2, <2>3, ApprovingTyped
  <2>6. RunsAllow(handlers[h].seen[1]) /\ ApprovalsAllow(f) => opened' >= 2
    <3>1. ASSUME ApprovalsAllow(f)
          PROVE  ApprovalsReady'
      <4>1. ApprovalsReady
        BY <2>1, <3>1, ApprovalsAllowed
      <4>2. UNCHANGED <<approvals, task>>
        BY <1>2, <1>3, <2>2, Remembered
      <4> QED
        BY <4>1, <4>2 DEF ApprovalsReady, RequireHumanBeforePR
    <3>2. RunsAllow(handlers[h].seen[1]) => opened >= 1
      BY <1>3, <2>2 DEF Gated
    <3> QED
      BY <1>2, <1>3, <3>1, <3>2, Remembered
  <2> HIDE DEF new
  <2> QED
    BY <1>2, <2>4, <2>5, <2>6, GInvServed
<1>6. ASSUME NEW action \in Action, PassGate(h, action)
      PROVE  GInv'
  <2> DEFINE new == LetThrough(h, action)
             f == handlers[h].seen[1]
             a == handlers[h].seen[2]
  <2>1. /\ handlers' = [handlers EXCEPT ![h] = new]
        /\ handlers[h].pc = "approvals" /\ UNCHANGED scope
        /\ GateAllows(State(f, a, scope), action)
    BY <1>6 DEF PassGate, LetThrough, Seen
  <2>2. /\ a["rejected"] = {}
        /\ action = "git_publish_pr" => RunsAllow(f) /\ ApprovalsAllow(a) /\ scope = "passed"
    <3> HIDE DEF f, a
    <3> QED
      BY <2>1, GateNeeds
  <2>3. new.pc = "granted" /\ new.action = action /\ new.rejected = handlers[h].rejected
    BY LetThroughTyped
  <2>4. ~handlers[h].rejected
    BY <1>3, <2>2 DEF Gated
  <2>5. action = "git_publish_pr" => opened' = 3
    <3>1. action = "git_publish_pr" => opened >= 2 /\ scope' = "passed"
      BY <1>3, <2>1, <2>2 DEF Gated
    <3> QED
      BY <1>2, <1>3, <3>1, Remembered
  <2> HIDE DEF new
  <2> QED
    BY <1>2, <2>1, <2>3, <2>4, <2>5, GInvServed
<1>7. CASE Refuse(h) \/ RequestApproval(h)
  <2>1. handlers' = [handlers EXCEPT ![h] = Idle]
    BY <1>7 DEF Refuse, RequestApproval, Return
  <2> QED
    BY <1>2, <2>1, IdleTyped, GInvServed
<1> QED
  BY <1>4, <1>5, <1>6, <1>7

LEMMA GInvActs ==
  ASSUME TInv, GInv, NEW h \in Handler,
         \/ StartWorker(h) \/ QueueInstead(h) \/ StartGitSync(h)
         \/ FinishPrepare(h) \/ CallProvider(h) \/ FinishPublish(h)
  PROVE  GInv'
<1>1. Remember
  BY DEF StartWorker, QueueInstead, StartGitSync, FinishPrepare, CallProvider, FinishPublish
<1>2. opened \in 0..3 /\ opened' \in 0..3 /\ opened <= opened' /\ Gated(h)
  BY <1>1, Remembered DEF TInv, GInv
<1>3. CASE StartWorker(h) \/ QueueInstead(h) \/ FinishPrepare(h) \/ FinishPublish(h)
  <2>1. handlers' = [handlers EXCEPT ![h] = Idle] /\ UNCHANGED prs
    BY <1>3 DEF StartWorker, QueueInstead, FinishPrepare, FinishPublish, Return
  <2> QED
    BY <1>1, <2>1, IdleTyped, GInvServed
<1>4. CASE StartGitSync(h)
  <2> DEFINE pc == IF handlers[h].action = "git_publish_pr" THEN "publishing" ELSE "preparing"
             new == Syncing(h, pc, Len(runs) + 1)
  <2>1. handlers' = [handlers EXCEPT ![h] = new] /\ UNCHANGED prs /\ handlers[h].pc = "granted"
    BY <1>4 DEF StartGitSync, Granted, Syncing
  <2>2. new.pc = pc /\ new.rejected = handlers[h].rejected
    <3>1. Len(runs) + 1 \in Nat
      BY RunsTyped
    <3>2. pc \in {"preparing", "publishing"}
      OBVIOUS
    <3> HIDE DEF pc
    <3> QED
      BY <3>1, <3>2, SyncingTyped
  <2>3. pc = "publishing" => opened' = 3
    BY <1>2, <2>1 DEF Gated
  <2>4. pc \in {"preparing", "publishing"} /\ ~handlers[h].rejected
    BY <1>2, <2>1 DEF Gated
  <2> HIDE DEF new, pc
  <2> QED
    BY <1>1, <2>1, <2>2, <2>3, <2>4, GInvServed
<1>5. CASE CallProvider(h)
  <2>1. handlers[h].pc = "publishing"
    BY <1>5 DEF CallProvider
  <2>2. PICK answer \in Answer : handlers' = [handlers EXCEPT ![h] = Answered(h, answer)]
    <3>1. PICK answer \in UNION {IF mode = "live" THEN {"published", "blocked"}
                                                  ELSE {"publish_prepared"} : mode \in task.modes} :
            handlers' = [handlers EXCEPT ![h] = Answered(h, answer)]
      BY <1>5 DEF CallProvider, Answered
    <3>2. answer \in Answer
      BY DEF Answer
    <3> QED
      BY <3>1, <3>2
  <2>3. opened' = 3 /\ ~handlers[h].rejected
    BY <1>2, <2>1 DEF Gated
  <2> QED
    BY <1>1, <2>2, <2>3, AnsweredTyped, GInvServed
<1> QED
  BY <1>3, <1>4, <1>5

LEMMA GInvNext ==
  ASSUME ReadsAreComplete
  PROVE  TInv /\ GInv /\ [Next]_vars => GInv'
<1> SUFFICES ASSUME TInv, GInv, [Next]_vars
             PROVE  GInv'
  OBVIOUS
<1>1. ASSUME NEW h \in Handler, HandlerStep(h)
      PROVE  GInv'
  BY <1>1, GInvAsks, GInvActs DEF HandlerStep
<1>2. ASSUME NEW i \in 1..task.runs, RunStep(i)
      PROVE  GInv'
  <2>1. Remember
    BY <1>2 DEF RunStep, DispatchQueuedRun, WorkerReports, WorkerFails, RetryFailedRun,
                CollectChanges, ReportResult
  <2> QED
    BY <1>2, <2>1, TInvRuns, GInvKept
<1>3. CASE \/ \E type \in ApprovalType : CreateApproval(type)
           \/ \E i \in 1..task.approvals, status \in {"approved", "rejected"} : DecideApproval(i, status)
           \/ \E status \in {"passed", "blocked"} : PostScopeCheck(status)
  <2>1. Remember /\ UNCHANGED <<handlers, prs>>
    BY <1>3 DEF CreateApproval, DecideApproval, PostScopeCheck
  <2> QED
    BY <2>1, GInvKept
<1>4. CASE UNCHANGED vars
  BY <1>4, PolicyStays DEF vars, GInv, Gated
<1> QED
  BY <1>1, <1>2, <1>3, <1>4 DEF Next

LEMMA GInvAlways ==
  ASSUME ReadsAreComplete
  PROVE  Spec => []GInv
<1>1. TInv /\ GInv /\ [Next]_vars => GInv'
  BY GInvNext
<1> QED
  BY <1>1, GInvInit, TInvAlways, PTL DEF Spec

\* No pull request is created at the provider unless the gates stood open
\* before: the runs', then the approvals', then the scope's (BuildState,
\* GateAllows), whatever reports, retries, decisions and scope checks come in
\* between.
THEOREM PublishingFollowsTheGates ==
  ASSUME ReadsAreComplete
  PROVE  Spec => []PublishFollowsGates
<1>1. GInv => PublishFollowsGates
  BY DEF GInv, PublishFollowsGates
<1>2. Spec => []GInv
  BY GInvAlways
<1> QED
  BY <1>1, <1>2, PTL

\* A request that reads the approvals while one of them is rejected passes no
\* gate (hasRejectedApproval).
THEOREM RejectionsStopRequests ==
  ASSUME ReadsAreComplete
  PROVE  Spec => []RejectionStopsRequests
<1>1. GInv => RejectionStopsRequests
  BY DEF GInv, Gated, RejectionStopsRequests
<1>2. Spec => []GInv
  BY GInvAlways
<1> QED
  BY <1>1, <1>2, PTL
=============================================================================
