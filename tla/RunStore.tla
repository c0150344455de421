------------------------------ MODULE RunStore ------------------------------
(***************************************************************************)
(* The runs, tasks and executor nodes of the control plane's store, and    *)
(* the transactions that move a run from a request to a node's slot        *)
(* (internal/store/postgres.go, postgres_resources.go, queue.go).          *)
(*                                                                         *)
(* Several sessions (API handlers, the MCP gateway, the queue worker) use  *)
(* the store at once.  StartRun and DispatchQueuedRun take an advisory     *)
(* lock and run several statements, each of which sees what others have    *)
(* committed by then (READ COMMITTED): they are split here into one action *)
(* per statement that others can get in between of.  FinishRun, EnqueueRun *)
(* and the updates of tasks and nodes take no such lock and are one        *)
(* action.  MemoryStore does all of it under one mutex: its behaviours are *)
(* those in which a session's actions follow each other with no other      *)
(* action in between.                                                      *)
(***************************************************************************)
EXTENDS Naturals, FiniteSets

CONSTANTS
  Session,          \* callers of the store
  Task,             \* tasks, created beforehand
  Node,             \* executor node names
  Request,          \* what callers ask for: [task, role, executor, priority]
  Registrations,    \* Registrations[n]: the bodies n may be registered with
  Fingerprint,      \* host key fingerprints
  None,             \* NULL: no session, node, request, task or fingerprint
  ReportedStatuses, \* the statuses FinishRun is called with, any of the enum
  PostedStatuses,   \* the statuses UpdateTaskStatus is called with
  MaxRuns,          \* bound: runs ever created
  DispatchWindow    \* queued runs one dispatch looks at (LIMIT 50)

Run == 1..MaxRuns   \* identifiers in created_at order

ActiveStatuses == {"queued", "preparing", "running"}
TerminalStatuses == {"succeeded", "failed", "blocked", "cancelled", "timed_out"}
FailedStatuses == {"failed", "timed_out", "cancelled"}

TaskStatuses == {"draft", "validated", "queued", "running", "blocked",
                 "failed", "completed", "cancelled"}
NodeStatuses == {"absent", "active", "verification_failed", "draining"}
Executor == {"docker", "ssh"}
Role == {"feature", "test", "audit", "git_sync"}

Body == [kind : Executor, status : NodeStatuses \ {"absent"}, capacity : Nat,
         key : Fingerprint \cup {None}, verified : BOOLEAN]

ASSUME ConstantsAssumption ==
  /\ None \notin Session \cup Node \cup Task \cup Request \cup Fingerprint
  /\ MaxRuns \in Nat
  /\ DispatchWindow \in Nat \ {0}
  /\ Request \subseteq [task : Task, role : Role, executor : Executor, priority : Nat]
  /\ Registrations \in [Node -> SUBSET Body]
  /\ ReportedStatuses \subseteq ActiveStatuses \cup TerminalStatuses
  /\ PostedStatuses \subseteq {"validated", "blocked"}

VARIABLES
  runs,       \* runs[r]: the row of r; status "none" before it is inserted
  created,    \* number of runs inserted
  tasks,      \* tasks[t]: the status of t
  nodes,      \* nodes[n]: the row of n; status "absent" before it is inserted
  lock,       \* holder of pg_advisory_xact_lock(7108001002)
  tx,         \* tx[s]: the transaction s is in
  advertised, \* history: largest concurrency each node was registered with
  revived     \* history: runs a report made active again after they had ended

vars == <<runs, created, tasks, nodes, lock, tx, advertised, revived>>

-----------------------------------------------------------------------------
(* Node selection *)

Ended(r) == runs[r].status \in TerminalStatuses

\* The runs that occupy n, and how many they are.
Occupants(n) == {r \in Run : runs[r].node = n /\ runs[r].status \in ActiveStatuses}
Load(n) == Cardinality(Occupants(n))

\* Mutant: whatever the capacity is.
ConcurrencyAsGiven(capacity) == capacity

\* A capacity that is no positive number counts as one slot.
ConcurrencyOf(capacity) == IF capacity > 0 THEN capacity ELSE 1

Concurrency(n) == nodes[n].concurrency

\* Mutant: off by one.
HasSlotOrOneMore(n) == Load(n) <= Concurrency(n)

HasFreeSlot(n) == Load(n) < Concurrency(n)

Eligible(executor) ==
  {n \in Node : /\ nodes[n].status = "active"
                /\ nodes[n].kind = executor
                /\ executor = "ssh" => nodes[n].verified
                /\ HasFreeSlot(n)}

\* Lower utilisation first, then more available slots.
Preferable(m, n) ==
  LET left  == Load(m) * Concurrency(n)
      right == Load(n) * Concurrency(m)
  IN  \/ left < right
      \/ left = right /\ Concurrency(m) - Load(m) > Concurrency(n) - Load(n)

\* The nodes selectExecutorNode may return: last_seen_at and created_at, which
\* break the remaining ties, are left open.
Candidates(executor) ==
  {n \in Eligible(executor) : \A m \in Eligible(executor) : ~Preferable(m, n)}

-----------------------------------------------------------------------------
(* The queue *)

Queued == {r \in Run : runs[r].status = "queued"}

\* ORDER BY queue_priority DESC, created_at ASC.
Before(q, r) ==
  \/ runs[q].priority > runs[r].priority
  \/ runs[q].priority = runs[r].priority /\ q < r

\* The queued runs a dispatch reads, and the one of those left it looks at.
QueueHead == {r \in Queued : Cardinality({q \in Queued : Before(q, r)}) < DispatchWindow}
IsFirst(r, S) == r \in S /\ \A q \in S \ {r} : Before(r, q)

\* Mutant: the UPDATE without its WHERE status = 'queued'.
StillQueuedUnchecked(r) == TRUE

StillQueued(r) == runs[r].status = "queued"

-----------------------------------------------------------------------------
(* Runs and tasks *)

NoRow == [task |-> None, role |-> "none", executor |-> "none",
          priority |-> 0, status |-> "none", node |-> None]

\* Mutant: the row is inserted without its node.
NewRowWithoutNode(q, status, n) ==
  [task |-> q.task, role |-> q.role, executor |-> q.executor,
   priority |-> q.priority, status |-> status, node |-> None]

NewRow(q, status, n) == [task |-> q.task, role |-> q.role, executor |-> q.executor,
                         priority |-> q.priority, status |-> status, node |-> n]

Insert(q, status, n) ==
  /\ created < MaxRuns
  /\ created' = created + 1
  /\ runs' = [runs EXCEPT ![created + 1] = NewRow(q, status, n)]

\* Mutant: any run that succeeds completes its task.
TaskStatusForAnyRun(role, status, current) ==
  CASE status = "succeeded" -> "completed"
    [] status = "blocked" -> "blocked"
    [] status \in FailedStatuses -> "failed"
    [] OTHER -> current

\* The status a task takes when one of its runs ends.
TaskStatusForRun(role, status, current) ==
  CASE status = "succeeded" /\ role = "git_sync" -> "completed"
    [] status = "succeeded" /\ role # "git_sync" -> "running"
    [] status = "blocked" -> "blocked"
    [] status \in FailedStatuses -> "failed"
    [] OTHER -> current

\* Where a session is: outside a transaction, in StartRun with a node, left
\* with ErrNoCapacity, or in DispatchQueuedRun with the runs still to look at
\* and, before it promotes the first of them, a node.
Idle == [pc |-> "idle", request |-> None, todo |-> {}, node |-> None]
Starting(q, n) == [pc |-> "start", request |-> q, todo |-> {}, node |-> n]
Full(q) == [pc |-> "full", request |-> q, todo |-> {}, node |-> None]
Probing(todo) == [pc |-> "probe", request |-> None, todo |-> todo, node |-> None]
Promoting(todo, n) == [pc |-> "promote", request |-> None, todo |-> todo, node |-> n]

\* Mutant: no advisory lock.
LockFreeAlways == TRUE

LockFree == lock = None

Begin(s, t) == /\ lock' = s
               /\ tx' = [tx EXCEPT ![s] = t]

\* Commit or roll back: the transaction ends and its advisory lock with it.
End(s, t) == /\ lock' = IF lock = s THEN None ELSE lock
             /\ tx' = [tx EXCEPT ![s] = t]

-----------------------------------------------------------------------------
Init ==
  /\ runs = [r \in Run |-> NoRow]
  /\ created = 0
  /\ tasks = [t \in Task |-> "draft"]
  /\ nodes = [n \in Node |-> [kind |-> "docker", status |-> "absent", concurrency |-> 1,
                              key |-> None, verified |-> FALSE]]
  /\ lock = None
  /\ tx = [s \in Session |-> Idle]
  /\ advertised = [n \in Node |-> 0]
  /\ revived = {}

\* StartRun: lock and select a node.
StartRunSelect(s, q) ==
  /\ tx[s].pc = "idle"
  /\ LockFree
  /\ \E n \in Candidates(q.executor) : Begin(s, Starting(q, n))
  /\ UNCHANGED <<runs, created, tasks, nodes, advertised, revived>>

\* StartRun: no node has a free slot, the transaction is rolled back and the
\* handler is left with ErrNoCapacity.
StartRunNoCapacity(s, q) ==
  /\ tx[s].pc = "idle"
  /\ LockFree
  /\ Eligible(q.executor) = {}
  /\ tx' = [tx EXCEPT ![s] = Full(q)]
  /\ UNCHANGED <<runs, created, tasks, nodes, lock, advertised, revived>>

\* StartRun: insert the run, mark the task running, commit.
StartRunCommit(s) ==
  /\ tx[s].pc = "start"
  /\ Insert(tx[s].request, "running", tx[s].node)
  /\ tasks' = [tasks EXCEPT ![tx[s].request.task] = "running"]
  /\ End(s, Idle)
  /\ UNCHANGED <<nodes, advertised, revived>>

\* The handler turns ErrNoCapacity into a queued run (startRunError).
EnqueueAfterNoCapacity(s) ==
  /\ tx[s].pc = "full"
  /\ Insert(tx[s].request, "queued", None)
  /\ tasks' = [tasks EXCEPT ![tx[s].request.task] = "queued"]
  /\ tx' = [tx EXCEPT ![s] = Idle]
  /\ UNCHANGED <<nodes, lock, advertised, revived>>

\* The executor queues another attempt of a failed run.
EnqueueRun(q) ==
  /\ Insert(q, "queued", None)
  /\ tasks' = [tasks EXCEPT ![q.task] = "queued"]
  /\ UNCHANGED <<nodes, lock, tx, advertised, revived>>

\* DispatchQueuedRun: lock and read the head of the queue.
DispatchRead(s) ==
  /\ tx[s].pc = "idle"
  /\ LockFree
  /\ Queued # {}
  /\ Begin(s, Probing(QueueHead))
  /\ UNCHANGED <<runs, created, tasks, nodes, advertised, revived>>

\* DispatchQueuedRun: select a node for the first run not yet looked at, or
\* pass it over.
DispatchProbe(s) ==
  /\ tx[s].pc = "probe"
  /\ \E r \in Run :
       /\ IsFirst(r, tx[s].todo)
       /\ \/ \E n \in Candidates(runs[r].executor) :
               tx' = [tx EXCEPT ![s] = Promoting(@.todo, n)]
          \/ /\ Eligible(runs[r].executor) = {}
             /\ tx' = [tx EXCEPT ![s] = Probing(@.todo \ {r})]
  /\ UNCHANGED <<runs, created, tasks, nodes, lock, advertised, revived>>

\* DispatchQueuedRun: UPDATE ... WHERE status = 'queued', mark the task
\* running, commit; if someone else changed the run meanwhile, go on.
DispatchPromote(s) ==
  /\ tx[s].pc = "promote"
  /\ \E r \in Run :
       /\ IsFirst(r, tx[s].todo)
       /\ StillQueued(r)
       /\ runs' = [runs EXCEPT ![r] = [@ EXCEPT !.status = "running", !.node = tx[s].node]]
       /\ tasks' = [tasks EXCEPT ![runs[r].task] = "running"]
       /\ revived' = revived \ {r}
  /\ End(s, Idle)
  /\ UNCHANGED <<created, nodes, advertised>>

DispatchPassOver(s) ==
  /\ tx[s].pc = "promote"
  /\ \E r \in Run :
       /\ IsFirst(r, tx[s].todo)
       /\ ~StillQueued(r)
       /\ tx' = [tx EXCEPT ![s] = Probing(@.todo \ {r})]
  /\ UNCHANGED <<runs, created, tasks, nodes, lock, advertised, revived>>

\* DispatchQueuedRun: every run read was passed over, ErrNoCapacity.
DispatchNoCapacity(s) ==
  /\ tx[s].pc = "probe"
  /\ tx[s].todo = {}
  /\ End(s, Idle)
  /\ UNCHANGED <<runs, created, tasks, nodes, advertised, revived>>

\* A statement fails, its five seconds are over, or the process dies: the
\* transaction is rolled back; a handler that held ErrNoCapacity just ends.
Abort(s) ==
  /\ tx[s].pc # "idle"
  /\ End(s, Idle)
  /\ UNCHANGED <<runs, created, tasks, nodes, advertised, revived>>

\* FinishRun: whoever reports on a run, whatever its status is and whatever
\* status is reported.  The node of the row stays as it is; so does its priority,
\* which is part of the result: one that is reported with "queued" repeats it.
FinishRun(r, status) ==
  /\ runs[r].status # "none"
  /\ runs' = [runs EXCEPT ![r] = [@ EXCEPT !.status = status]]
  /\ tasks' = [tasks EXCEPT ![runs[r].task] = TaskStatusForRun(runs[r].role, status, @)]
  /\ revived' = CASE status \in TerminalStatuses -> revived \ {r}
                  [] status \notin TerminalStatuses /\ Ended(r) -> revived \cup {r}
                  [] OTHER -> revived
  /\ UNCHANGED <<created, nodes, lock, tx, advertised>>

\* validateTask, and the scope checks, approvals and policies that block.
UpdateTaskStatus(t, status) ==
  /\ tasks' = [tasks EXCEPT ![t] = status]
  /\ UNCHANGED <<runs, created, nodes, lock, tx, advertised, revived>>

\* Insert a node or, under a name that is taken, overwrite its row.
RegisterExecutorNode(n, body) ==
  LET concurrency == ConcurrencyOf(body.capacity)
  IN  /\ nodes' = [nodes EXCEPT ![n] = [kind |-> body.kind, status |-> body.status,
                                        concurrency |-> concurrency,
                                        key |-> body.key, verified |-> body.verified]]
      /\ advertised' = [advertised EXCEPT ![n] = IF concurrency > @ THEN concurrency ELSE @]
      /\ UNCHANGED <<runs, created, tasks, lock, tx, revived>>

\* The first fingerprint observed is trusted; a different one disables the node.
VerifyExecutorNodeHostKey(n, observed) ==
  /\ nodes[n].status # "absent"
  /\ \/ /\ nodes[n].key \in {None, observed}
        /\ nodes' = [nodes EXCEPT ![n] = [@ EXCEPT !.key = observed, !.verified = TRUE,
                                                   !.status = "active"]]
     \/ /\ nodes[n].key \notin {None, observed}
        /\ nodes' = [nodes EXCEPT ![n] = [@ EXCEPT !.verified = FALSE,
                                                   !.status = "verification_failed"]]
  /\ UNCHANGED <<runs, created, tasks, lock, tx, advertised, revived>>

SessionStep(s) ==
  \/ \E q \in Request : StartRunSelect(s, q)
  \/ \E q \in Request : StartRunNoCapacity(s, q)
  \/ StartRunCommit(s)
  \/ EnqueueAfterNoCapacity(s)
  \/ DispatchRead(s)
  \/ DispatchProbe(s)
  \/ DispatchPromote(s)
  \/ DispatchPassOver(s)
  \/ DispatchNoCapacity(s)
  \/ Abort(s)

Next ==
  \/ \E s \in Session : SessionStep(s)
  \/ \E q \in Request : EnqueueRun(q)
  \/ \E r \in Run, status \in ReportedStatuses : FinishRun(r, status)
  \/ \E t \in Task, status \in PostedStatuses : UpdateTaskStatus(t, status)
  \/ \E n \in Node : \E body \in Registrations[n] : RegisterExecutorNode(n, body)
  \/ \E n \in Node, f \in Fingerprint : VerifyExecutorNodeHostKey(n, f)

Spec == Init /\ [][Next]_vars

-----------------------------------------------------------------------------
(* Properties *)

RowType == [task : Task \cup {None}, role : Role \cup {"none"},
            executor : Executor \cup {"none"}, priority : Nat,
            status : ActiveStatuses \cup TerminalStatuses \cup {"none"},
            node : Node \cup {None}]

NodeType == [kind : Executor, status : NodeStatuses, concurrency : Nat \ {0},
             key : Fingerprint \cup {None}, verified : BOOLEAN]

TxType == [pc : {"idle", "start", "full", "probe", "promote"},
           request : Request \cup {None}, todo : SUBSET Run, node : Node \cup {None}]

\* Every variable has its type; in particular no row, however it was
\* registered, offers fewer than one slot.
TypeOK ==
  /\ runs \in [Run -> RowType]
  /\ created \in 0..MaxRuns
  /\ tasks \in [Task -> TaskStatuses]
  /\ nodes \in [Node -> NodeType]
  /\ lock \in Session \cup {None}
  /\ tx \in [Session -> TxType]
  /\ advertised \in [Node -> Nat]
  /\ revived \subseteq Run

\* The runs that hold a slot of n which StartRun or DispatchQueuedRun gave them.
Granted(n) == Occupants(n) \ revived
GrantedSlots(n) == Cardinality(Granted(n))

\* StartRun and DispatchQueuedRun never give a node more slots than the largest
\* concurrency it was registered with, whatever starts, dispatches, reports,
\* registrations and aborted transactions are interleaved (the advisory lock
\* they share).  A run that had ended and that a report calls active again is
\* on its old node without being given a slot: it counts when the next slot is
\* given out, and only such runs can make a node hold more than it offered.
NoOvercommit == \A n \in Node : GrantedSlots(n) <= advertised[n]

\* The slot a transaction has selected is still free when it commits: between
\* the SELECT of selectExecutorNode and the INSERT or UPDATE that uses its
\* answer, nobody is given the node's last slot.
ReservedSlot ==
  \A s \in Session :
    tx[s].pc \in {"start", "promote"} =>
      /\ tx[s].node \in Node
      /\ GrantedSlots(tx[s].node) < advertised[tx[s].node]

\* Only a report makes a run that has ended active again, no dispatcher does:
\* one that read it as queued does not promote it once its result has come in
\* (the WHERE clause of DispatchQueuedRun's UPDATE).
TerminalIsFinal ==
  [][\A r \in Run : Ended(r) /\ ~Ended(r)' =>
       \E status \in ReportedStatuses \ TerminalStatuses : FinishRun(r, status)]_vars

\* The status of a task is that of its runs: it is "queued" only while one of
\* them that was given no node has not ended, "failed" only while one of them
\* has failed, and "completed" only while a git_sync run of it has succeeded
\* (or had, before a report called it active again), although results arrive
\* in any order, twice, or for runs never dispatched (taskStatusForRun).
TaskStatusBacked ==
  \A t \in Task :
    /\ tasks[t] = "queued" =>
         \E r \in Run : /\ runs[r].task = t
                        /\ runs[r].status \in ActiveStatuses
                        /\ runs[r].node = None
    /\ tasks[t] = "failed" =>
         \E r \in Run : runs[r].task = t /\ (runs[r].status \in FailedStatuses \/ r \in revived)
    /\ tasks[t] = "completed" =>
         \E r \in Run : /\ runs[r].task = t
                        /\ runs[r].role = "git_sync"
                        /\ runs[r].status = "succeeded" \/ r \in revived

\* Rows are inserted in order, only rows that exist are dispatched, and runs
\* that a report revived are active.
RowsInOrder ==
  /\ \A r \in Run : runs[r].status = "none" <=> r > created
  /\ \A r \in Run : IF runs[r].status = "none" THEN runs[r].node = None
                                               ELSE runs[r].task \in Task
  /\ \A r \in revived : runs[r].status \in ActiveStatuses
  /\ \A s \in Session : tx[s].todo \subseteq 1..created

\* Whoever is between the first and the last statement of StartRun or
\* DispatchQueuedRun holds the advisory lock.
LockHeld ==
  \A s \in Session :
    /\ tx[s].pc \in {"start", "probe", "promote"} <=> lock = s
    /\ tx[s].pc \in {"start", "full"} => tx[s].request \in Request

\* A node offers now at most what it has advertised at some time.
Advertised ==
  \A n \in Node : nodes[n].status # "absent" => Concurrency(n) <= advertised[n]

\* The inductive invariant the proofs rest on.
IInv ==
  /\ TypeOK
  /\ RowsInOrder
  /\ LockHeld
  /\ Advertised
  /\ ReservedSlot
  /\ NoOvercommit

\* The store grants slots as SlotPool says: a run is seen there as granted while
\* it holds a slot it was given, as waiting while it is queued without one, and
\* otherwise as finished once it was inserted.
PhaseOf(r) ==
  CASE runs[r].status = "none" -> "none"
    [] runs[r].status \in ActiveStatuses /\ runs[r].node # None /\ r \notin revived -> "granted"
    [] runs[r].status = "queued" /\ (runs[r].node = None \/ r \in revived) -> "waiting"
    [] OTHER -> "finished"

Slots == INSTANCE SlotPool WITH
           NoNode <- None,
           phase <- [r \in Run |-> PhaseOf(r)],
           at <- [r \in Run |-> runs[r].node],
           limit <- advertised

\* Every behaviour of the store is one of SlotPool.
ImplementsSlotPool == Slots!Spec
=============================================================================
