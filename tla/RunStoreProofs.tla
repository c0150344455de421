--------------------------- MODULE RunStoreProofs ---------------------------
(***************************************************************************)
(* What RunStore guarantees for every number of sessions, tasks, nodes,    *)
(* runs and queued requests, and whatever statuses callers report, in any  *)
(* order and on runs that have ended too.  Then, what its backpressure     *)
(* snapshot says: it hides no free slot, for every number of listed runs,  *)
(* and ranks nodes as the store does as long as none has more slots than   *)
(* the rounded utilization tells apart.                                    *)
(***************************************************************************)
EXTENDS Backpressure, FiniteSetTheorems, TLAPS

-----------------------------------------------------------------------------
(* Counting the runs on a node *)

\* The runs on a node are finitely many, so its load is a number.
LEMMA LoadIsNat ==
  ASSUME NEW n
  PROVE  /\ IsFiniteSet(Occupants(n)) /\ Load(n) \in Nat
         /\ IsFiniteSet(Occupants(n)') /\ Load(n)' \in Nat
<1>1. IsFiniteSet(Run)
  <2>1. 1 \in Int /\ MaxRuns \in Int
    BY ConstantsAssumption
  <2> QED
    BY <2>1, FS_Interval DEF Run
<1>2. Occupants(n) \in SUBSET Run /\ Occupants(n)' \in SUBSET Run
  BY DEF Occupants
<1> QED
  BY <1>1, <1>2, FS_Subset, FS_CardinalityType DEF Load

\* So are those that hold a slot they were given, and they are no more.
LEMMA GrantedSlotsIsNat ==
  ASSUME NEW n
  PROVE  /\ IsFiniteSet(Granted(n)) /\ GrantedSlots(n) \in Nat /\ GrantedSlots(n) <= Load(n)
         /\ IsFiniteSet(Granted(n)') /\ GrantedSlots(n)' \in Nat
<1>1. Granted(n) \in SUBSET Occupants(n) /\ Granted(n)' \in SUBSET Occupants(n)'
  BY DEF Granted
<1> QED
  BY <1>1, LoadIsNat, FS_Subset, FS_CardinalityType DEF Load, GrantedSlots

\* Fewer of them hold no more slots.
LEMMA GrantedSlotsAreMonotone ==
  ASSUME NEW n, Granted(n)' \subseteq Granted(n)
  PROVE  GrantedSlots(n)' <= GrantedSlots(n)
  BY GrantedSlotsIsNat, FS_Subset DEF GrantedSlots

\* One more of them holds one more slot at most.
LEMMA GrantedSlotsGrowByOne ==
  ASSUME NEW n, NEW r, Granted(n)' \subseteq Granted(n) \cup {r}
  PROVE  GrantedSlots(n)' <= GrantedSlots(n) + 1
<1> DEFINE S == Granted(n) \cup {r}
<1>1. IsFiniteSet(Granted(n)) /\ GrantedSlots(n) \in Nat
  BY GrantedSlotsIsNat
<1>2. IsFiniteSet(S) /\ Cardinality(S) <= GrantedSlots(n) + 1
  BY <1>1, FS_AddElement DEF GrantedSlots
<1>3. Cardinality(Granted(n)') <= Cardinality(S)
  BY <1>2, FS_Subset
<1>4. Cardinality(Granted(n)') \in Nat /\ Cardinality(S) \in Nat
  BY <1>2, FS_Subset, FS_CardinalityType
<1> QED
  BY <1>1, <1>2, <1>3, <1>4 DEF GrantedSlots

\* The status of a task after a run of it is one of a task.
LEMMA TaskStatusForRunType ==
  ASSUME NEW role, NEW status, NEW current \in TaskStatuses
  PROVE  TaskStatusForRun(role, status, current) \in TaskStatuses
  BY DEF TaskStatusForRun, TaskStatuses

-----------------------------------------------------------------------------
(* Types and the advisory lock *)

TInv == TypeOK /\ LockHeld

LEMMA TInvInit == Init => TInv
<1> SUFFICES ASSUME Init
             PROVE  TInv
  OBVIOUS
<1>1. TypeOK
  BY ConstantsAssumption
  DEF Init, TypeOK, NoRow, RowType, NodeType, TxType, Idle, TaskStatuses, NodeStatuses,
      Executor, ActiveStatuses
<1>2. LockHeld
  BY ConstantsAssumption DEF Init, LockHeld, Idle
<1> QED
  BY <1>1, <1>2 DEF TInv

\* A new row has the type of a row.
LEMMA NewRowType ==
  ASSUME NEW q \in Request, NEW status \in {"running", "queued"}, NEW n \in Node \cup {None}
  PROVE  NewRow(q, status, n) \in RowType
  BY ConstantsAssumption DEF NewRow, RowType, ActiveStatuses

\* Inserting a row keeps the types of the rows and of their number.
LEMMA InsertType ==
  ASSUME TypeOK, NEW q \in Request, NEW status \in {"running", "queued"},
         NEW n \in Node \cup {None}, Insert(q, status, n)
  PROVE  runs' \in [Run -> RowType] /\ created' \in 0..MaxRuns
<1>1. NewRow(q, status, n) \in RowType
  BY NewRowType
<1>2. runs' \in [Run -> RowType]
  BY <1>1 DEF Insert, TypeOK
<1>3. created \in 0..MaxRuns /\ created < MaxRuns /\ created' = created + 1
  BY DEF Insert, TypeOK
<1>4. MaxRuns \in Nat
  BY ConstantsAssumption
<1>5. created' \in 0..MaxRuns
  BY <1>3, <1>4
<1> QED
  BY <1>2, <1>5

\* So do the states of a transaction.
LEMMA TxTypes ==
  /\ Idle \in TxType
  /\ \A q \in Request : Full(q) \in TxType
  /\ \A q \in Request, n \in Node : Starting(q, n) \in TxType
  /\ \A todo \in SUBSET Run : Probing(todo) \in TxType
  /\ \A todo \in SUBSET Run, n \in Node : Promoting(todo, n) \in TxType
  BY DEF TxType, Idle, Full, Starting, Probing, Promoting

\* Registration leaves a node at least one slot.
LEMMA ConcurrencyIsPositive ==
  ASSUME NEW capacity \in Nat
  PROVE  ConcurrencyOf(capacity) \in Nat \ {0}
  BY DEF ConcurrencyOf

LEMMA TInvNext == TInv /\ [Next]_vars => TInv'
<1> SUFFICES ASSUME TypeOK, LockHeld, [Next]_vars
             PROVE  TypeOK' /\ LockHeld'
  BY DEF TInv
<1> USE DEF TypeOK
<1>1. ASSUME NEW s \in Session, NEW q \in Request, StartRunSelect(s, q)
      PROVE  TypeOK' /\ LockHeld'
  <2>1. PICK n \in Node : Begin(s, Starting(q, n))
    BY <1>1 DEF StartRunSelect, Candidates, Eligible
  <2>2. TypeOK'
    BY <1>1, <2>1, TxTypes DEF StartRunSelect, Begin
  <2>3. LockHeld'
    BY <1>1, <2>1, ConstantsAssumption DEF StartRunSelect, LockFree, Begin, Starting, LockHeld
  <2> QED
    BY <2>2, <2>3
<1>2. ASSUME NEW s \in Session, NEW q \in Request, StartRunNoCapacity(s, q)
      PROVE  TypeOK' /\ LockHeld'
  <2>1. TypeOK'
    BY <1>2, TxTypes DEF StartRunNoCapacity
  <2>2. LockHeld'
    BY <1>2 DEF StartRunNoCapacity, Full, LockHeld
  <2> QED
    BY <2>1, <2>2
<1>3. ASSUME NEW s \in Session, StartRunCommit(s)
      PROVE  TypeOK' /\ LockHeld'
  <2>1. tx[s].request \in Request /\ tx[s].request.task \in Task
    BY <1>3, ConstantsAssumption DEF StartRunCommit, LockHeld
  <2>2. tx[s].node \in Node \cup {None}
    BY DEF TxType
  <2>3. runs' \in [Run -> RowType] /\ created' \in 0..MaxRuns
    BY <1>3, <2>1, <2>2, InsertType DEF StartRunCommit
  <2>4. TypeOK'
    BY <1>3, <2>1, <2>3, TxTypes DEF StartRunCommit, End, TaskStatuses
  <2>5. LockHeld'
    BY <1>3, ConstantsAssumption DEF StartRunCommit, End, Idle, LockHeld
  <2> QED
    BY <2>4, <2>5
<1>4. ASSUME NEW s \in Session, EnqueueAfterNoCapacity(s)
      PROVE  TypeOK' /\ LockHeld'
  <2>1. tx[s].request \in Request /\ tx[s].request.task \in Task
    BY <1>4, ConstantsAssumption DEF EnqueueAfterNoCapacity, LockHeld
  <2>2. runs' \in [Run -> RowType] /\ created' \in 0..MaxRuns
    BY <1>4, <2>1, InsertType DEF EnqueueAfterNoCapacity
  <2>3. TypeOK'
    BY <1>4, <2>1, <2>2, TxTypes DEF EnqueueAfterNoCapacity, TaskStatuses
  <2>4. LockHeld'
    BY <1>4 DEF EnqueueAfterNoCapacity, Idle, LockHeld
  <2> QED
    BY <2>3, <2>4
<1>5. ASSUME NEW q \in Request, EnqueueRun(q)
      PROVE  TypeOK' /\ LockHeld'
  <2>1. runs' \in [Run -> RowType] /\ created' \in 0..MaxRuns
    BY <1>5, InsertType DEF EnqueueRun
  <2>2. TypeOK'
    BY <1>5, <2>1, ConstantsAssumption DEF EnqueueRun, TaskStatuses
  <2>3. LockHeld'
    BY <1>5 DEF EnqueueRun, LockHeld
  <2> QED
    BY <2>2, <2>3
<1>6. ASSUME NEW s \in Session, DispatchRead(s)
      PROVE  TypeOK' /\ LockHeld'
  <2>1. QueueHead \subseteq Run
    BY DEF QueueHead, Queued
  <2>2. TypeOK'
    BY <1>6, <2>1, TxTypes DEF DispatchRead, Begin
  <2>3. LockHeld'
    BY <1>6, ConstantsAssumption DEF DispatchRead, LockFree, Begin, Probing, LockHeld
  <2> QED
    BY <2>2, <2>3
<1>7. ASSUME NEW s \in Session, DispatchProbe(s)
      PROVE  TypeOK' /\ LockHeld'
  <2>1. tx[s].todo \in SUBSET Run
    BY DEF TxType
  <2>2. PICK t \in TxType : tx' = [tx EXCEPT ![s] = t] /\ t.pc \in {"probe", "promote"}
    <3>1. PICK r \in Run :
            \/ \E n \in Node : tx' = [tx EXCEPT ![s] = Promoting(tx[s].todo, n)]
            \/ tx' = [tx EXCEPT ![s] = Probing(tx[s].todo \ {r})]
      BY <1>7 DEF DispatchProbe, Candidates, Eligible
    <3>2. tx[s].todo \ {r} \in SUBSET Run
      BY <2>1
    <3> QED
      BY <2>1, <3>1, <3>2, TxTypes DEF Promoting, Probing
  <2>3. TypeOK'
    BY <1>7, <2>2 DEF DispatchProbe
  <2>4. LockHeld'
    BY <1>7, <2>2 DEF DispatchProbe, LockHeld
  <2> QED
    BY <2>3, <2>4
<1>8. ASSUME NEW s \in Session, DispatchPromote(s)
      PROVE  TypeOK' /\ LockHeld'
  <2>1. TypeOK'
    <3>1. PICK r \in Run :
            /\ runs' = [runs EXCEPT ![r] = [@ EXCEPT !.status = "running", !.node = tx[s].node]]
            /\ tasks' = [tasks EXCEPT ![runs[r].task] = "running"]
      BY <1>8 DEF DispatchPromote
    <3>2. [runs[r] EXCEPT !.status = "running", !.node = tx[s].node] \in RowType
      <4>1. runs[r] \in RowType /\ tx[s].node \in Node \cup {None}
        BY DEF TxType
      <4> QED
        BY <4>1 DEF RowType, ActiveStatuses
    <3>3. tasks' \in [Task -> TaskStatuses]
      BY <3>1 DEF TaskStatuses
    <3> QED
      BY <1>8, <3>1, <3>2, <3>3, TxTypes DEF DispatchPromote, End
  <2>2. LockHeld'
    BY <1>8, ConstantsAssumption DEF DispatchPromote, End, Idle, LockHeld
  <2> QED
    BY <2>1, <2>2
<1>9. ASSUME NEW s \in Session, DispatchPassOver(s)
      PROVE  TypeOK' /\ LockHeld'
  <2>1. tx[s].todo \in SUBSET Run
    BY DEF TxType
  <2>2. PICK S \in SUBSET Run : tx' = [tx EXCEPT ![s] = Probing(S)]
    BY <1>9, <2>1 DEF DispatchPassOver
  <2>3. TypeOK'
    BY <1>9, <2>2, TxTypes DEF DispatchPassOver
  <2>4. LockHeld'
    BY <1>9, <2>2 DEF DispatchPassOver, Probing, LockHeld
  <2> QED
    BY <2>3, <2>4
<1>10. ASSUME NEW s \in Session, DispatchNoCapacity(s) \/ Abort(s)
       PROVE  TypeOK' /\ LockHeld'
  <2>1. TypeOK'
    BY <1>10, TxTypes DEF DispatchNoCapacity, Abort, End
  <2>2. LockHeld'
    BY <1>10, ConstantsAssumption DEF DispatchNoCapacity, Abort, End, Idle, LockHeld
  <2> QED
    BY <2>1, <2>2
<1>11. ASSUME NEW r \in Run, NEW status \in ReportedStatuses, FinishRun(r, status)
       PROVE  TypeOK' /\ LockHeld'
  <2>1. runs' \in [Run -> RowType]
    BY <1>11, ConstantsAssumption DEF FinishRun, RowType
  <2>2. tasks' \in [Task -> TaskStatuses]
    <3>1. CASE runs[r].task \in Task
      BY <1>11, <3>1, TaskStatusForRunType DEF FinishRun
    <3>2. CASE runs[r].task \notin Task
      BY <1>11, <3>2 DEF FinishRun
    <3> QED
      BY <3>1, <3>2
  <2>3. TypeOK'
    BY <1>11, <2>1, <2>2 DEF FinishRun
  <2>4. LockHeld'
    BY <1>11 DEF FinishRun, LockHeld
  <2> QED
    BY <2>3, <2>4
<1>12. ASSUME NEW t \in Task, NEW status \in PostedStatuses, UpdateTaskStatus(t, status)
       PROVE  TypeOK' /\ LockHeld'
  BY <1>12, ConstantsAssumption DEF UpdateTaskStatus, TaskStatuses, LockHeld
<1>13. ASSUME NEW n \in Node, NEW body \in Registrations[n], RegisterExecutorNode(n, body)
       PROVE  TypeOK' /\ LockHeld'
  <2>1. body \in Body
    BY ConstantsAssumption
  <2>2. ConcurrencyOf(body.capacity) \in Nat \ {0}
    BY <2>1, ConcurrencyIsPositive DEF Body
  <2>3. TypeOK'
    <3>1. [kind |-> body.kind, status |-> body.status,
           concurrency |-> ConcurrencyOf(body.capacity),
           key |-> body.key, verified |-> body.verified] \in NodeType
      BY <2>1, <2>2 DEF Body, NodeType
    <3>2. advertised' \in [Node -> Nat]
      BY <1>13, <2>2 DEF RegisterExecutorNode
    <3> QED
      BY <1>13, <3>1, <3>2 DEF RegisterExecutorNode
  <2>4. LockHeld'
    BY <1>13 DEF RegisterExecutorNode, LockHeld
  <2> QED
    BY <2>3, <2>4
<1>14. ASSUME NEW n \in Node, NEW f \in Fingerprint, VerifyExecutorNodeHostKey(n, f)
       PROVE  TypeOK' /\ LockHeld'
  <2>1. TypeOK'
    <3> DEFINE trusted == [nodes[n] EXCEPT !.key = f, !.verified = TRUE, !.status = "active"]
               refused == [nodes[n] EXCEPT !.verified = FALSE, !.status = "verification_failed"]
    <3>1. nodes[n] \in NodeType
      OBVIOUS
    <3>2. trusted \in NodeType /\ refused \in NodeType
      BY <3>1 DEF NodeType, NodeStatuses
    <3>3. \/ nodes' = [nodes EXCEPT ![n] = trusted]
          \/ nodes' = [nodes EXCEPT ![n] = refused]
      BY <1>14 DEF VerifyExecutorNodeHostKey
    <3> QED
      BY <1>14, <3>2, <3>3 DEF VerifyExecutorNodeHostKey
  <2>2. LockHeld'
    BY <1>14 DEF VerifyExecutorNodeHostKey, LockHeld
  <2> QED
    BY <2>1, <2>2
<1>15. CASE UNCHANGED vars
  BY <1>15 DEF vars, LockHeld
<1> QED
  BY <1>1, <1>2, <1>3, <1>4, <1>5, <1>6, <1>7, <1>8, <1>9, <1>10, <1>11, <1>12, <1>13, <1>14,
     <1>15
  DEF Next, SessionStep

\* Every variable keeps its type, and the advisory lock is held throughout
\* StartRun and DispatchQueuedRun, whatever statuses callers report.
THEOREM TypeCorrect == Spec => [](TypeOK /\ LockHeld)
<1>1. Spec => []TInv
  BY TInvInit, TInvNext, PTL DEF Spec
<1> QED
  BY <1>1, PTL DEF TInv

-----------------------------------------------------------------------------
(* Rows and the capacity of nodes *)

LEMMA IInvInit == Init => IInv
<1> SUFFICES ASSUME Init
             PROVE  IInv
  OBVIOUS
<1>1. TypeOK /\ LockHeld
  BY TInvInit DEF TInv
<1>2. RowsInOrder
  BY ConstantsAssumption DEF Init, RowsInOrder, NoRow, Idle, Run
<1>3. Advertised /\ ReservedSlot
  BY DEF Init, Advertised, ReservedSlot, Idle
<1>4. NoOvercommit
  <2> SUFFICES ASSUME NEW n \in Node
               PROVE  GrantedSlots(n) <= advertised[n]
    BY DEF NoOvercommit
  <2>1. Granted(n) = {}
    BY DEF Init, Granted, Occupants, NoRow, ActiveStatuses
  <2> QED
    BY <2>1, FS_EmptySet DEF GrantedSlots, Init
<1> QED
  BY <1>1, <1>2, <1>3, <1>4 DEF IInv

\* No step makes a row out of order.
LEMMA RowsInOrderNext ==
  ASSUME IInv, [Next]_vars
  PROVE  RowsInOrder'
<1> USE DEF IInv, TypeOK
<1>1. ASSUME NEW q \in Request, NEW status \in {"queued", "running"}, NEW n \in Node \cup {None},
             Insert(q, status, n), revived' = revived,
             \A s \in Session : tx'[s].todo \subseteq tx[s].todo
      PROVE  RowsInOrder'
  <2>1. created \in Nat /\ MaxRuns \in Nat /\ created' = created + 1 /\ created + 1 \in Run
    BY <1>1, ConstantsAssumption DEF Insert, Run
  <2>2. q.task \in Task
    BY ConstantsAssumption
  <2>3. \A r \in Run : runs'[r] = IF r = created + 1 THEN NewRow(q, status, n) ELSE runs[r]
    BY <1>1, <2>1 DEF Insert
  <2>4. \A r \in Run : runs'[r].status = "none" <=> r > created'
    BY <1>1, <2>1, <2>3 DEF RowsInOrder, NewRow, Run
  <2>5. \A r \in Run : IF runs'[r].status = "none" THEN runs'[r].node = None
                                                 ELSE runs'[r].task \in Task
    BY <1>1, <2>2, <2>3 DEF RowsInOrder, NewRow
  <2>6. \A s \in Session : tx'[s].todo \subseteq 1..created'
    BY <1>1, <2>1 DEF RowsInOrder
  <2>7. \A r \in revived' : runs'[r].status \in ActiveStatuses
    BY <1>1, <2>3 DEF RowsInOrder, NewRow, ActiveStatuses
  <2> QED
    BY <2>4, <2>5, <2>6, <2>7 DEF RowsInOrder
<1>2. ASSUME NEW s \in Session, StartRunCommit(s)
      PROVE  RowsInOrder'
  <2>1. tx[s].request \in Request /\ tx[s].node \in Node
    BY <1>2 DEF StartRunCommit, LockHeld, ReservedSlot
  <2>2. \A u \in Session : tx'[u].todo \subseteq tx[u].todo
    BY <1>2 DEF StartRunCommit, End, Idle
  <2> QED
    BY <1>1, <1>2, <2>1, <2>2 DEF StartRunCommit
<1>3. ASSUME NEW s \in Session, EnqueueAfterNoCapacity(s)
      PROVE  RowsInOrder'
  <2>1. tx[s].request \in Request
    BY <1>3 DEF EnqueueAfterNoCapacity, LockHeld
  <2>2. \A u \in Session : tx'[u].todo \subseteq tx[u].todo
    BY <1>3 DEF EnqueueAfterNoCapacity, Idle
  <2> QED
    BY <1>1, <1>3, <2>1, <2>2 DEF EnqueueAfterNoCapacity
<1>4. ASSUME NEW q \in Request, EnqueueRun(q)
      PROVE  RowsInOrder'
  BY <1>1, <1>4 DEF EnqueueRun
<1>5. ASSUME UNCHANGED <<runs, created, revived>>,
             \A s \in Session : tx'[s].todo \subseteq tx[s].todo \/ tx'[s].todo = QueueHead
      PROVE  RowsInOrder'
  <2>1. QueueHead \subseteq 1..created
    BY ConstantsAssumption DEF QueueHead, Queued, RowsInOrder, Run
  <2> QED
    BY <1>5, <2>1 DEF RowsInOrder
<1>6. ASSUME NEW s \in Session,
             \/ \E q \in Request : StartRunSelect(s, q) \/ StartRunNoCapacity(s, q)
             \/ DispatchNoCapacity(s)
             \/ Abort(s)
      PROVE  RowsInOrder'
  <2>1. UNCHANGED <<runs, created, revived>>
    BY <1>6 DEF StartRunSelect, StartRunNoCapacity, DispatchNoCapacity, Abort
  <2>2. \A u \in Session : tx'[u].todo \subseteq tx[u].todo
    BY <1>6
    DEF StartRunSelect, StartRunNoCapacity, DispatchNoCapacity, Abort, Begin, End, Idle,
        Starting, Full
  <2> QED
    BY <1>5, <2>1, <2>2
<1>7. ASSUME NEW s \in Session, DispatchRead(s) \/ DispatchProbe(s) \/ DispatchPassOver(s)
      PROVE  RowsInOrder'
  <2>1. UNCHANGED <<runs, created, revived>>
    BY <1>7 DEF DispatchRead, DispatchProbe, DispatchPassOver
  <2>2. \A u \in Session : tx'[u].todo \subseteq tx[u].todo \/ tx'[u].todo = QueueHead
    BY <1>7 DEF DispatchRead, DispatchProbe, DispatchPassOver, Begin, Probing, Promoting
  <2> QED
    BY <1>5, <2>1, <2>2
<1>8. ASSUME NEW r \in Run, runs[r].status # "none",
             NEW row \in RowType, runs' = [runs EXCEPT ![r] = row], row.task = runs[r].task,
             row.status # "none", revived' \subseteq revived \cup {r},
             r \in revived' => row.status \in ActiveStatuses,
             created' = created, \A u \in Session : tx'[u].todo \subseteq tx[u].todo
      PROVE  RowsInOrder'
  BY <1>8 DEF RowsInOrder
<1>9. ASSUME NEW s \in Session, DispatchPromote(s)
      PROVE  RowsInOrder'
  <2>1. PICK r \in Run :
          /\ runs[r].status = "queued"
          /\ runs' = [runs EXCEPT ![r] = [@ EXCEPT !.status = "running", !.node = tx[s].node]]
          /\ revived' = revived \ {r}
    BY <1>9 DEF DispatchPromote, StillQueued
  <2> DEFINE row == [runs[r] EXCEPT !.status = "running", !.node = tx[s].node]
  <2>2. tx[s].node \in Node
    BY <1>9 DEF DispatchPromote, ReservedSlot
  <2>3. row \in RowType /\ row.task = runs[r].task /\ row.status = "running"
    <3>1. runs[r] \in RowType
      OBVIOUS
    <3> QED
      BY <2>2, <3>1 DEF RowType, ActiveStatuses
  <2>4. runs' = [runs EXCEPT ![r] = row]
    BY <2>1
  <2>5. created' = created /\ \A u \in Session : tx'[u].todo \subseteq tx[u].todo
    BY <1>9 DEF DispatchPromote, End, Idle
  <2> HIDE DEF row
  <2> QED
    BY <1>8, <2>1, <2>3, <2>4, <2>5
<1>10. ASSUME NEW r \in Run, NEW status \in ReportedStatuses, FinishRun(r, status)
       PROVE  RowsInOrder'
  <2> DEFINE row == [runs[r] EXCEPT !.status = status]
  <2>1. status \in ActiveStatuses \cup TerminalStatuses /\ status # "none"
    BY ConstantsAssumption DEF ActiveStatuses, TerminalStatuses
  <2>2. row \in RowType /\ row.task = runs[r].task /\ row.status = status
    <3>1. runs[r] \in RowType
      OBVIOUS
    <3> QED
      BY <2>1, <3>1 DEF RowType
  <2>3. runs[r].status # "none" /\ runs' = [runs EXCEPT ![r] = row] /\ UNCHANGED <<created, tx>>
    BY <1>10 DEF FinishRun
  <2>4. revived' \subseteq revived \cup {r}
    BY <1>10 DEF FinishRun
  <2>5. r \in revived' => status \in ActiveStatuses
    BY <1>10, <2>1 DEF FinishRun
  <2> HIDE DEF row
  <2> QED
    BY <1>8, <2>1, <2>2, <2>3, <2>4, <2>5
<1>11. CASE \/ UNCHANGED vars
            \/ \E t \in Task, status \in PostedStatuses : UpdateTaskStatus(t, status)
            \/ \E n \in Node : \E body \in Registrations[n] : RegisterExecutorNode(n, body)
            \/ \E n \in Node, f \in Fingerprint : VerifyExecutorNodeHostKey(n, f)
  <2>1. UNCHANGED <<runs, created, tx, revived>>
    BY <1>11 DEF vars, UpdateTaskStatus, RegisterExecutorNode, VerifyExecutorNodeHostKey
  <2> QED
    BY <1>5, <2>1
<1> QED
  BY <1>2, <1>3, <1>4, <1>6, <1>7, <1>9, <1>10, <1>11 DEF Next, SessionStep

\* A node's concurrency stays within what it has advertised, which only grows.
LEMMA AdvertisedNext ==
  ASSUME IInv, [Next]_vars
  PROVE  Advertised' /\ \A n \in Node : advertised[n] <= advertised'[n]
<1> USE DEF IInv, TypeOK
<1>1. ASSUME NEW n \in Node, NEW body \in Registrations[n], RegisterExecutorNode(n, body)
      PROVE  Advertised' /\ \A m \in Node : advertised[m] <= advertised'[m]
  <2>1. ConcurrencyOf(body.capacity) \in Nat \ {0}
    BY ConstantsAssumption, ConcurrencyIsPositive DEF Body
  <2>2. \A m \in Node \ {n} : nodes'[m] = nodes[m] /\ advertised'[m] = advertised[m]
    BY <1>1 DEF RegisterExecutorNode
  <2>3. /\ nodes'[n].concurrency = ConcurrencyOf(body.capacity)
        /\ advertised'[n] = IF ConcurrencyOf(body.capacity) > advertised[n]
                              THEN ConcurrencyOf(body.capacity) ELSE advertised[n]
    BY <1>1 DEF RegisterExecutorNode
  <2> QED
    BY <2>1, <2>2, <2>3 DEF Advertised, Concurrency
<1>2. ASSUME NEW n \in Node, NEW f \in Fingerprint, VerifyExecutorNodeHostKey(n, f)
      PROVE  Advertised' /\ \A m \in Node : advertised[m] <= advertised'[m]
  <2>1. \A m \in Node : /\ nodes'[m].concurrency = nodes[m].concurrency
                        /\ nodes'[m].status # "absent" => nodes[m].status # "absent"
    <3>1. \A m \in Node \ {n} : nodes'[m] = nodes[m]
      BY <1>2 DEF VerifyExecutorNodeHostKey
    <3>2. nodes'[n].concurrency = nodes[n].concurrency
      <4>1. nodes[n] \in NodeType
        OBVIOUS
      <4>2. CASE nodes' = [nodes EXCEPT ![n] = [@ EXCEPT !.key = f, !.verified = TRUE,
                                                        !.status = "active"]]
        <5>1. nodes'[n] = [nodes[n] EXCEPT !.key = f, !.verified = TRUE, !.status = "active"]
          BY <4>2
        <5> QED
          BY ONLY <4>1, <5>1 DEF NodeType
      <4>3. CASE nodes' = [nodes EXCEPT ![n] = [@ EXCEPT !.verified = FALSE,
                                                        !.status = "verification_failed"]]
        <5>1. nodes'[n] = [nodes[n] EXCEPT !.verified = FALSE, !.status = "verification_failed"]
          BY <4>3
        <5> QED
          BY ONLY <4>1, <5>1 DEF NodeType
      <4> QED
        BY <1>2, <4>2, <4>3 DEF VerifyExecutorNodeHostKey
    <3> QED
      BY <1>2, <3>1, <3>2 DEF VerifyExecutorNodeHostKey
  <2>2. advertised' = advertised
    BY <1>2 DEF VerifyExecutorNodeHostKey
  <2> QED
    BY <2>1, <2>2 DEF Advertised, Concurrency
<1>3. CASE UNCHANGED <<nodes, advertised>>
  BY <1>3 DEF Advertised, Concurrency
<1>4. CASE \/ UNCHANGED vars
           \/ \E s \in Session : SessionStep(s)
           \/ \E q \in Request : EnqueueRun(q)
           \/ \E r \in Run, status \in ReportedStatuses : FinishRun(r, status)
           \/ \E t \in Task, status \in PostedStatuses : UpdateTaskStatus(t, status)
  BY <1>3, <1>4
  DEF vars, SessionStep, StartRunSelect, StartRunNoCapacity, StartRunCommit,
      EnqueueAfterNoCapacity, EnqueueRun, DispatchRead, DispatchProbe, DispatchPromote,
      DispatchPassOver, DispatchNoCapacity, Abort, FinishRun, UpdateTaskStatus
<1> QED
  BY <1>1, <1>2, <1>4 DEF Next

-----------------------------------------------------------------------------
(* Slots *)

SlotsOK == ReservedSlot /\ NoOvercommit

\* A node that is eligible has a slot to spare of those it advertised.
LEMMA EligibleHasSlot ==
  ASSUME IInv, NEW executor, NEW n \in Eligible(executor)
  PROVE  n \in Node /\ GrantedSlots(n) < advertised[n]
<1>1. n \in Node /\ nodes[n].status = "active" /\ Load(n) < Concurrency(n)
  BY DEF Eligible, HasFreeSlot
<1>2. Concurrency(n) \in Nat /\ advertised[n] \in Nat /\ Concurrency(n) <= advertised[n]
  BY <1>1 DEF IInv, TypeOK, NodeType, Advertised, Concurrency
<1> QED
  BY <1>1, <1>2, LoadIsNat, GrantedSlotsIsNat

\* Slots stay accounted for when no node gives more of them and no slot is reserved.
LEMMA SlotsKept ==
  ASSUME IInv, TypeOK',
         \A n \in Node : GrantedSlots(n)' <= GrantedSlots(n) /\ advertised[n] <= advertised'[n],
         \A s \in Session : \/ tx'[s] = tx[s]
                            \/ tx'[s].pc \notin {"start", "promote"}
  PROVE  SlotsOK'
<1>1. \A n \in Node : GrantedSlots(n) \in Nat /\ GrantedSlots(n)' \in Nat
  BY GrantedSlotsIsNat
<1>2. \A n \in Node : advertised[n] \in Nat /\ advertised'[n] \in Nat
  BY DEF IInv, TypeOK
<1>3. ASSUME NEW n \in Node, GrantedSlots(n) < advertised[n]
      PROVE  GrantedSlots(n)' < advertised'[n]
  BY <1>1, <1>2, <1>3
<1>4. ReservedSlot'
  BY <1>3 DEF IInv, ReservedSlot
<1>5. NoOvercommit'
  BY <1>1, <1>2 DEF IInv, NoOvercommit
<1> QED
  BY <1>4, <1>5 DEF SlotsOK

\* They stay so when a transaction reserves a slot that is free.
LEMMA SlotReserved ==
  ASSUME IInv, NEW s \in Session, NEW n \in Node, GrantedSlots(n) < advertised[n],
         NEW t \in TxType, t.node = n, tx' = [tx EXCEPT ![s] = t],
         UNCHANGED <<runs, advertised, revived>>
  PROVE  SlotsOK'
<1>1. \A m \in Node : Granted(m)' = Granted(m)
  BY DEF Granted, Occupants
<1>2. \A m \in Node : GrantedSlots(m)' = GrantedSlots(m)
  BY <1>1 DEF GrantedSlots
<1>3. \A u \in Session \ {s} : tx'[u] = tx[u]
  BY DEF IInv, TypeOK
<1>4. tx'[s] = t
  BY DEF IInv, TypeOK
<1>5. ReservedSlot'
  BY <1>2, <1>3, <1>4 DEF IInv, ReservedSlot
<1>6. NoOvercommit'
  BY <1>2 DEF IInv, NoOvercommit
<1> QED
  BY <1>5, <1>6 DEF SlotsOK

\* They stay so when a transaction commits a run on the node it has reserved:
\* it holds the lock, so that no other one has reserved a slot.
LEMMA SlotTaken ==
  ASSUME IInv, NEW s \in Session, tx[s].pc \in {"start", "promote"},
         tx' = [tx EXCEPT ![s] = Idle], advertised' = advertised, NEW r,
         \A n \in Node \ {tx[s].node} : Granted(n)' \subseteq Granted(n),
         \A n \in Node : n = tx[s].node => Granted(n)' \subseteq Granted(n) \cup {r}
  PROVE  SlotsOK'
<1>1. PICK m \in Node : m = tx[s].node /\ GrantedSlots(m) < advertised[m]
  BY DEF IInv, ReservedSlot
<1>2. \A n \in Node : GrantedSlots(n) \in Nat /\ GrantedSlots(n)' \in Nat /\ advertised[n] \in Nat
  BY GrantedSlotsIsNat DEF IInv, TypeOK
<1>3. \A n \in Node \ {m} : GrantedSlots(n)' <= GrantedSlots(n)
  BY <1>1, GrantedSlotsAreMonotone
<1>4. GrantedSlots(m)' <= GrantedSlots(m) + 1
  BY <1>1, GrantedSlotsGrowByOne
<1>5. NoOvercommit'
  BY <1>1, <1>2, <1>3, <1>4 DEF IInv, NoOvercommit
<1>6. \A u \in Session : tx'[u].pc \notin {"start", "promote"}
  BY DEF IInv, TypeOK, LockHeld, Idle
<1>7. ReservedSlot'
  BY <1>6 DEF ReservedSlot
<1> QED
  BY <1>5, <1>7 DEF SlotsOK

\* Inserting a run changes the slots given of the run's own node only.
LEMMA InsertGranted ==
  ASSUME IInv, NEW q, NEW status, NEW m, Insert(q, status, m), revived' = revived, NEW n \in Node
  PROVE  Granted(n)' \subseteq IF n = m THEN Granted(n) \cup {created + 1} ELSE Granted(n)
<1>1. \A r \in Run : runs'[r] = IF r = created + 1 THEN NewRow(q, status, m) ELSE runs[r]
  BY DEF Insert, IInv, TypeOK
<1>2. NewRow(q, status, m).node = m
  BY DEF NewRow
<1> QED
  BY <1>1, <1>2 DEF Granted, Occupants

\* No step gives a slot away twice.
LEMMA SlotsNext ==
  ASSUME IInv, [Next]_vars
  PROVE  SlotsOK'
<1>1. TypeOK' /\ \A n \in Node : advertised[n] <= advertised'[n]
  BY TInvNext, AdvertisedNext DEF IInv, TInv
<1>2. ASSUME NEW s \in Session, NEW q \in Request, StartRunSelect(s, q)
      PROVE  SlotsOK'
  <2>1. PICK n \in Eligible(q.executor) : Begin(s, Starting(q, n))
    BY <1>2 DEF StartRunSelect, Candidates
  <2>2. n \in Node /\ GrantedSlots(n) < advertised[n]
    BY <2>1, EligibleHasSlot
  <2>3. Starting(q, n) \in TxType /\ Starting(q, n).node = n
    BY <2>2, TxTypes DEF Starting
  <2> QED
    BY <1>2, <2>1, <2>2, <2>3, SlotReserved DEF StartRunSelect, Begin
<1>3. ASSUME NEW s \in Session, StartRunCommit(s)
      PROVE  SlotsOK'
  <2>1. Insert(tx[s].request, "running", tx[s].node) /\ revived' = revived
    BY <1>3 DEF StartRunCommit
  <2>2. \A n \in Node : Granted(n)' \subseteq
          IF n = tx[s].node THEN Granted(n) \cup {created + 1} ELSE Granted(n)
    BY <2>1, InsertGranted
  <2>3. /\ tx[s].pc \in {"start", "promote"} /\ tx' = [tx EXCEPT ![s] = Idle]
        /\ advertised' = advertised
    BY <1>3 DEF StartRunCommit, End
  <2>4. \A n \in Node \ {tx[s].node} : Granted(n)' \subseteq Granted(n)
    BY <2>2
  <2>5. \A n \in Node : n = tx[s].node => Granted(n)' \subseteq Granted(n) \cup {created + 1}
    BY <2>2
  <2> QED
    BY <2>3, <2>4, <2>5, SlotTaken
<1>4. ASSUME NEW s \in Session, DispatchProbe(s)
      PROVE  SlotsOK'
  <2>1. tx[s].todo \in SUBSET Run
    BY DEF IInv, TypeOK, TxType
  <2>2. PICK r \in Run :
          \/ \E n \in Candidates(runs[r].executor) : tx' = [tx EXCEPT ![s] = Promoting(@.todo, n)]
          \/ tx' = [tx EXCEPT ![s] = Probing(@.todo \ {r})]
    BY <1>4 DEF DispatchProbe
  <2>3. CASE \E n \in Candidates(runs[r].executor) :
               tx' = [tx EXCEPT ![s] = Promoting(@.todo, n)]
    <3>1. PICK n \in Eligible(runs[r].executor) : tx' = [tx EXCEPT ![s] = Promoting(@.todo, n)]
      BY <2>3 DEF Candidates
    <3>2. n \in Node /\ GrantedSlots(n) < advertised[n]
      BY <3>1, EligibleHasSlot
    <3>3. Promoting(tx[s].todo, n) \in TxType /\ Promoting(tx[s].todo, n).node = n
      BY <2>1, <3>2, TxTypes DEF Promoting
    <3>4. tx' = [tx EXCEPT ![s] = Promoting(tx[s].todo, n)]
      BY <3>1
    <3> QED
      BY <1>4, <3>2, <3>3, <3>4, SlotReserved DEF DispatchProbe
  <2>4. CASE tx' = [tx EXCEPT ![s] = Probing(@.todo \ {r})]
    <3>1. \A u \in Session : tx'[u] = tx[u] \/ tx'[u].pc \notin {"start", "promote"}
      BY <2>4 DEF Probing, IInv, TypeOK
    <3>2. \A n \in Node : Granted(n)' = Granted(n)
      BY <1>4 DEF DispatchProbe, Granted, Occupants
    <3>3. \A n \in Node : GrantedSlots(n)' <= GrantedSlots(n)
      BY <3>2, GrantedSlotsAreMonotone
    <3> QED
      BY <1>1, <3>1, <3>3, SlotsKept
  <2> QED
    BY <2>2, <2>3, <2>4
<1>5. ASSUME NEW s \in Session, DispatchPromote(s)
      PROVE  SlotsOK'
  <2>1. PICK r \in Run :
          /\ runs' = [runs EXCEPT ![r] = [@ EXCEPT !.status = "running", !.node = tx[s].node]]
          /\ revived' = revived \ {r}
    BY <1>5 DEF DispatchPromote
  <2>2. /\ tx[s].pc \in {"start", "promote"} /\ tx' = [tx EXCEPT ![s] = Idle]
        /\ advertised' = advertised
    BY <1>5 DEF DispatchPromote, End
  <2>3. runs[r] \in RowType /\ \A x \in Run \ {r} : runs'[x] = runs[x]
    BY <2>1 DEF IInv, TypeOK
  <2>4. runs'[r].node = tx[s].node
    BY <2>1, <2>3 DEF RowType, IInv, TypeOK
  <2>5. \A n \in Node \ {tx[s].node} : Granted(n)' \subseteq Granted(n)
    BY <2>1, <2>3, <2>4 DEF Granted, Occupants
  <2>6. \A n \in Node : n = tx[s].node => Granted(n)' \subseteq Granted(n) \cup {r}
    BY <2>1, <2>3 DEF Granted, Occupants
  <2> QED
    BY <2>2, <2>5, <2>6, SlotTaken
<1>6. ASSUME NEW s \in Session,
             \/ \E q \in Request : StartRunNoCapacity(s, q)
             \/ DispatchRead(s) \/ DispatchPassOver(s) \/ DispatchNoCapacity(s) \/ Abort(s)
      PROVE  SlotsOK'
  <2>1. \A u \in Session : tx'[u] = tx[u] \/ tx'[u].pc \notin {"start", "promote"}
    BY <1>6
    DEF StartRunNoCapacity, DispatchRead, DispatchPassOver, DispatchNoCapacity, Abort, Begin, End,
        Full, Probing, Idle, IInv, TypeOK
  <2>2. \A n \in Node : Granted(n)' = Granted(n)
    BY <1>6
    DEF StartRunNoCapacity, DispatchRead, DispatchPassOver, DispatchNoCapacity, Abort, Granted, Occupants
  <2>3. \A n \in Node : GrantedSlots(n)' <= GrantedSlots(n)
    BY <2>2, GrantedSlotsAreMonotone
  <2> QED
    BY <1>1, <2>1, <2>3, SlotsKept
<1>7. ASSUME NEW q, Insert(q, "queued", None), revived' = revived,
             \A u \in Session : tx'[u] = tx[u] \/ tx'[u].pc \notin {"start", "promote"}
      PROVE  SlotsOK'
  <2>1. \A n \in Node : Granted(n)' \subseteq Granted(n)
    BY <1>7, InsertGranted, ConstantsAssumption
  <2>2. \A n \in Node : GrantedSlots(n)' <= GrantedSlots(n)
    BY <2>1, GrantedSlotsAreMonotone
  <2> QED
    BY <1>1, <1>7, <2>2, SlotsKept
<1>8. ASSUME NEW s \in Session, EnqueueAfterNoCapacity(s)
      PROVE  SlotsOK'
  <2>1. \A u \in Session : tx'[u] = tx[u] \/ tx'[u].pc \notin {"start", "promote"}
    BY <1>8 DEF EnqueueAfterNoCapacity, Idle, IInv, TypeOK
  <2> QED
    BY <1>7, <1>8, <2>1 DEF EnqueueAfterNoCapacity
<1>9. ASSUME NEW q \in Request, EnqueueRun(q)
      PROVE  SlotsOK'
  BY <1>7, <1>9 DEF EnqueueRun
<1>10. ASSUME NEW r \in Run, NEW status \in ReportedStatuses, FinishRun(r, status)
       PROVE  SlotsOK'
  <2>1. runs[r].status \in ActiveStatuses \/ Ended(r)
    BY <1>10 DEF FinishRun, Ended, IInv, TypeOK, RowType
  <2>2. runs[r] \in RowType /\ \A x \in Run \ {r} : runs'[x] = runs[x]
    BY <1>10 DEF FinishRun, IInv, TypeOK
  <2>3. runs'[r].status = status
    BY <1>10, <2>2 DEF FinishRun, RowType, IInv, TypeOK
  <2>4. runs'[r].node = runs[r].node
    BY <1>10, <2>2 DEF FinishRun, RowType, IInv, TypeOK
  <2>5. r \notin revived' => status \notin ActiveStatuses \/ (~Ended(r) /\ r \notin revived)
    BY <1>10 DEF FinishRun, ActiveStatuses, TerminalStatuses
  <2>6. \A q \in Run \ {r} : q \in revived' <=> q \in revived
    BY <1>10 DEF FinishRun
  <2>7. \A n \in Node : Granted(n)' \subseteq Granted(n)
    BY <2>1, <2>2, <2>3, <2>4, <2>5, <2>6 DEF Granted, Occupants
  <2>8. \A n \in Node : GrantedSlots(n)' <= GrantedSlots(n)
    BY <2>7, GrantedSlotsAreMonotone
  <2> QED
    BY <1>1, <1>10, <2>8, SlotsKept DEF FinishRun
<1>11. CASE \/ UNCHANGED vars
            \/ \E t \in Task, status \in PostedStatuses : UpdateTaskStatus(t, status)
            \/ \E n \in Node : \E body \in Registrations[n] : RegisterExecutorNode(n, body)
            \/ \E n \in Node, f \in Fingerprint : VerifyExecutorNodeHostKey(n, f)
  <2>1. UNCHANGED <<runs, tx, revived>>
    BY <1>11 DEF vars, UpdateTaskStatus, RegisterExecutorNode, VerifyExecutorNodeHostKey
  <2>2. \A n \in Node : Granted(n)' = Granted(n)
    BY <2>1 DEF Granted, Occupants
  <2>3. \A n \in Node : GrantedSlots(n)' <= GrantedSlots(n)
    BY <2>2, GrantedSlotsAreMonotone
  <2> QED
    BY <1>1, <2>1, <2>3, SlotsKept
<1> QED
  BY <1>2, <1>3, <1>4, <1>5, <1>6, <1>8, <1>9, <1>10, <1>11 DEF Next, SessionStep

LEMMA IInvNext == IInv /\ [Next]_vars => IInv'
<1> SUFFICES ASSUME IInv, [Next]_vars
             PROVE  IInv'
  OBVIOUS
<1>1. TypeOK' /\ LockHeld'
  BY TInvNext DEF IInv, TInv
<1>2. RowsInOrder'
  BY RowsInOrderNext
<1>3. Advertised'
  BY AdvertisedNext
<1>4. ReservedSlot' /\ NoOvercommit'
  BY SlotsNext DEF SlotsOK
<1> QED
  BY <1>1, <1>2, <1>3, <1>4 DEF IInv

\* The inductive invariant holds in every reachable state, whatever statuses
\* are reported.
THEOREM InductiveInvariant == Spec => []IInv
<1>1. Init => IInv
  BY IInvInit
<1>2. IInv /\ [Next]_vars => IInv'
  BY IInvNext
<1> QED
  BY <1>1, <1>2, PTL DEF Spec

\* No node is ever given more slots than it advertised, by any interleaving of
\* starts, dispatches, registrations, aborts and reports; a run that a report
\* makes active again is not given one, and is left out.
THEOREM SlotsNeverOvercommitted == Spec => []NoOvercommit
<1>1. IInv => NoOvercommit
  BY DEF IInv
<1> QED
  BY <1>1, InductiveInvariant, PTL

\* The slot a transaction has selected has been given to no other run when it
\* commits.
THEOREM SelectedSlotsStayFree == Spec => []ReservedSlot
<1>1. IInv => ReservedSlot
  BY DEF IInv
<1> QED
  BY <1>1, InductiveInvariant, PTL

-----------------------------------------------------------------------------
(* How a step changes the rows *)

\* The row that is inserted was none before, and no other row changes.
LEMMA InsertedRow ==
  ASSUME IInv, NEW q, NEW status, NEW n, Insert(q, status, n)
  PROVE  /\ created + 1 \in Run
         /\ runs[created + 1].status = "none" /\ runs[created + 1].node = None
         /\ runs'[created + 1] = NewRow(q, status, n)
         /\ \A r \in Run \ {created + 1} : runs'[r] = runs[r]
<1>1. created \in Nat /\ created < MaxRuns /\ MaxRuns \in Nat
  BY ConstantsAssumption DEF Insert, IInv, TypeOK
<1>2. created + 1 \in Run
  BY <1>1 DEF Run
<1>3. runs[created + 1].status = "none"
  BY <1>1, <1>2 DEF IInv, RowsInOrder
<1>4. runs[created + 1].node = None
  BY <1>2, <1>3 DEF IInv, RowsInOrder
<1> QED
  BY <1>2, <1>3, <1>4 DEF Insert, IInv, TypeOK

\* A dispatch promotes one run, which is queued, to the node it has reserved.
LEMMA PromotedRow ==
  ASSUME IInv, NEW s \in Session, DispatchPromote(s)
  PROVE  \E r \in Run :
           /\ runs[r].status = "queued"
           /\ runs'[r].status = "running"
           /\ runs'[r].node = tx[s].node
           /\ runs'[r].task = runs[r].task
           /\ runs'[r].role = runs[r].role
           /\ tasks' = [tasks EXCEPT ![runs[r].task] = "running"]
           /\ revived' = revived \ {r}
           /\ \A q \in Run \ {r} : runs'[q] = runs[q]
<1>1. PICK r \in Run :
        /\ runs[r].status = "queued"
        /\ runs' = [runs EXCEPT ![r] = [@ EXCEPT !.status = "running", !.node = tx[s].node]]
        /\ tasks' = [tasks EXCEPT ![runs[r].task] = "running"]
        /\ revived' = revived \ {r}
  BY DEF DispatchPromote, StillQueued
<1>2. runs[r] \in RowType /\ runs \in [Run -> RowType]
  BY DEF IInv, TypeOK
<1>3. \A q \in Run \ {r} : runs'[q] = runs[q]
  BY <1>1, <1>2
<1>4. /\ runs'[r].status = "running" /\ runs'[r].node = tx[s].node
      /\ runs'[r].task = runs[r].task /\ runs'[r].role = runs[r].role
  BY <1>1, <1>2 DEF RowType
<1> QED
  BY <1>1, <1>3, <1>4

\* A result changes the status of its run and nothing else of any row.
LEMMA FinishedRow ==
  ASSUME IInv, NEW r \in Run, NEW status, FinishRun(r, status)
  PROVE  /\ runs'[r].status = status
         /\ runs'[r].node = runs[r].node
         /\ runs'[r].task = runs[r].task
         /\ runs'[r].role = runs[r].role
         /\ \A q \in Run \ {r} : runs'[q] = runs[q]
<1>1. runs[r] \in RowType /\ runs \in [Run -> RowType]
  BY DEF IInv, TypeOK
<1> QED
  BY <1>1 DEF FinishRun, RowType

\* The steps that change no row.
LEMMA RowsUnchanged ==
  ASSUME \/ UNCHANGED vars
         \/ \E s \in Session :
              \/ \E q \in Request : StartRunSelect(s, q) \/ StartRunNoCapacity(s, q)
              \/ DispatchRead(s) \/ DispatchProbe(s) \/ DispatchPassOver(s)
              \/ DispatchNoCapacity(s) \/ Abort(s)
         \/ \E t \in Task, status \in PostedStatuses : UpdateTaskStatus(t, status)
         \/ \E n \in Node : \E body \in Registrations[n] : RegisterExecutorNode(n, body)
         \/ \E n \in Node, f \in Fingerprint : VerifyExecutorNodeHostKey(n, f)
  PROVE  runs' = runs
  BY DEF vars, StartRunSelect, StartRunNoCapacity, DispatchRead, DispatchProbe, DispatchPassOver,
         DispatchNoCapacity, Abort, UpdateTaskStatus, RegisterExecutorNode,
         VerifyExecutorNodeHostKey

-----------------------------------------------------------------------------
(* Results are final *)

\* A run that has ended is made active again by a report and by nothing else:
\* no dispatcher that has read it as queued gives it a slot again.
THEOREM TerminalRunsStayTerminal == Spec => TerminalIsFinal
<1> DEFINE Final == \A r \in Run : Ended(r) /\ ~Ended(r)' =>
                      \E status \in ReportedStatuses \ TerminalStatuses : FinishRun(r, status)
<1>1. ASSUME IInv, [Next]_vars
      PROVE  Final
  <2>1. ASSUME NEW q, NEW status, NEW n, Insert(q, status, n)
        PROVE  Final
    BY <1>1, <2>1, InsertedRow DEF Ended, TerminalStatuses
  <2>2. ASSUME NEW s \in Session, StartRunCommit(s) \/ EnqueueAfterNoCapacity(s)
        PROVE  Final
    BY <2>1, <2>2 DEF StartRunCommit, EnqueueAfterNoCapacity
  <2>3. ASSUME NEW q \in Request, EnqueueRun(q)
        PROVE  Final
    BY <2>1, <2>3 DEF EnqueueRun
  <2>4. ASSUME NEW s \in Session, DispatchPromote(s)
        PROVE  Final
    BY <1>1, <2>4, PromotedRow DEF Ended, TerminalStatuses
  <2>5. ASSUME NEW r \in Run, NEW status \in ReportedStatuses, FinishRun(r, status)
        PROVE  Final
    <3> SUFFICES ASSUME NEW q \in Run, Ended(q), ~Ended(q)'
                 PROVE  \E t \in ReportedStatuses \ TerminalStatuses : FinishRun(q, t)
      OBVIOUS
    <3>1. runs'[r].status = status /\ \A x \in Run \ {r} : runs'[x] = runs[x]
      BY <1>1, <2>5, FinishedRow
    <3>2. q = r /\ status \notin TerminalStatuses
      BY <3>1 DEF Ended
    <3> QED
      BY <2>5, <3>2
  <2>6. CASE runs' = runs
    BY <2>6 DEF Ended
  <2> QED
    BY <1>1, <2>2, <2>3, <2>4, <2>5, <2>6, RowsUnchanged DEF Next, SessionStep
<1>2. IInv /\ [Next]_vars => [Final]_vars
  BY <1>1
<1> QED
  BY <1>2, InductiveInvariant, PTL DEF Spec, TerminalIsFinal

-----------------------------------------------------------------------------
(* The status of a task *)

\* No result, in whatever order it comes, leaves a task with a status that no
\* run of it accounts for.
LEMMA TaskStatusBackedNext ==
  ASSUME IInv, TaskStatusBacked, [Next]_vars
  PROVE  TaskStatusBacked'
<1> USE DEF IInv, TypeOK
<1>1. ASSUME NEW q \in Request, NEW status \in {"queued", "running"}, NEW n,
             Insert(q, status, n), tasks' = [tasks EXCEPT ![q.task] = status],
             revived' = revived, status = "queued" => n = None
      PROVE  TaskStatusBacked'
  <2>1. q.task \in Task
    BY ConstantsAssumption
  <2>2. /\ NewRow(q, status, n).task = q.task /\ NewRow(q, status, n).status = status
        /\ NewRow(q, status, n).node = n
    BY DEF NewRow
  <2>3. /\ created + 1 \in Run /\ runs[created + 1].status = "none"
        /\ runs'[created + 1] = NewRow(q, status, n)
        /\ \A r \in Run \ {created + 1} : runs'[r] = runs[r]
    BY <1>1, InsertedRow
  <2>4. created + 1 \notin revived
    BY <2>3 DEF RowsInOrder, ActiveStatuses
  <2>5. /\ tasks'[q.task] = status
        /\ \A t \in Task \ {q.task} : tasks'[t] = tasks[t]
    BY <1>1, <2>1
  <2>6. \A t \in Task \ {q.task} : tasks'[t] = "queued" => 
          \E r \in Run \ {created + 1} : /\ runs[r].task = t
                                       /\ runs[r].status \in ActiveStatuses
                                       /\ runs[r].node = None
    BY <2>3, <2>5 DEF TaskStatusBacked, ActiveStatuses
  <2>7. status = "queued" => /\ runs'[created + 1].task = q.task
                             /\ runs'[created + 1].status \in ActiveStatuses
                             /\ runs'[created + 1].node = None
    BY <1>1, <2>2, <2>3 DEF ActiveStatuses
  <2>8. \A t \in Task : tasks'[t] = "queued" =>
          \E r \in Run : /\ runs'[r].task = t
                         /\ runs'[r].status \in ActiveStatuses
                         /\ runs'[r].node = None
    BY <2>3, <2>5, <2>6, <2>7
  <2> QED
    BY <1>1, <2>1, <2>3, <2>4, <2>5, <2>8 DEF TaskStatusBacked, FailedStatuses
<1>2. ASSUME NEW s \in Session, StartRunCommit(s)
      PROVE  TaskStatusBacked'
  <2>1. tx[s].request \in Request
    BY <1>2 DEF StartRunCommit, LockHeld
  <2> QED
    BY <1>1, <1>2, <2>1 DEF StartRunCommit
<1>3. ASSUME NEW s \in Session, EnqueueAfterNoCapacity(s)
      PROVE  TaskStatusBacked'
  <2>1. tx[s].request \in Request
    BY <1>3 DEF EnqueueAfterNoCapacity, LockHeld
  <2> QED
    BY <1>1, <1>3, <2>1 DEF EnqueueAfterNoCapacity
<1>4. ASSUME NEW q \in Request, EnqueueRun(q)
      PROVE  TaskStatusBacked'
  BY <1>1, <1>4 DEF EnqueueRun
<1>5. ASSUME NEW s \in Session, DispatchPromote(s)
      PROVE  TaskStatusBacked'
  <2>1. PICK r \in Run :
          /\ runs[r].status = "queued"
          /\ runs'[r].task = runs[r].task
          /\ tasks' = [tasks EXCEPT ![runs[r].task] = "running"]
          /\ revived' = revived \ {r}
          /\ \A q \in Run \ {r} : runs'[q] = runs[q]
    BY <1>5, PromotedRow
  <2>2. runs[r].task \in Task
    BY <2>1 DEF RowsInOrder
  <2>3. /\ tasks'[runs[r].task] = "running"
        /\ \A t \in Task \ {runs[r].task} : tasks'[t] = tasks[t]
    BY <2>1, <2>2
  <2> QED
    BY <2>1, <2>3 DEF TaskStatusBacked
<1>6. ASSUME NEW r \in Run, NEW status \in ReportedStatuses, FinishRun(r, status)
      PROVE  TaskStatusBacked'
  <2>1. runs[r].task \in Task
    BY <1>6 DEF FinishRun, RowsInOrder
  <2>2. /\ runs'[r].status = status /\ runs'[r].task = runs[r].task
        /\ runs'[r].role = runs[r].role
        /\ \A q \in Run \ {r} : runs'[q] = runs[q]
    BY <1>6, FinishedRow
  <2>3. tasks' = [tasks EXCEPT ![runs[r].task] = TaskStatusForRun(runs[r].role, status, @)]
    BY <1>6 DEF FinishRun
  <2>4. \A t \in Task \ {runs[r].task} : tasks'[t] = tasks[t]
    BY <2>3
  <2>5. runs'[r].node = runs[r].node
    BY <1>6, FinishedRow
  <2>6. \A q \in Run \ {r} : q \in revived' <=> q \in revived
    BY <1>6 DEF FinishRun
  <2>7. CASE status \in TerminalStatuses
    <3>1. /\ tasks'[runs[r].task] \in {"completed", "running", "blocked", "failed"}
          /\ tasks'[runs[r].task] = "failed" => status \in FailedStatuses
          /\ tasks'[runs[r].task] = "completed" => runs[r].role = "git_sync" /\ status = "succeeded"
      BY <2>1, <2>3, <2>7 DEF TaskStatusForRun, TerminalStatuses, FailedStatuses
    <3> QED
      BY <2>1, <2>2, <2>4, <2>6, <3>1 DEF TaskStatusBacked
  <2>8. CASE status \notin TerminalStatuses
    <3>1. status \in ActiveStatuses
      BY <2>8, ConstantsAssumption
    <3>2. tasks' = tasks
      BY <2>1, <2>3, <2>8 DEF TaskStatusForRun, TerminalStatuses, FailedStatuses
    <3>3. /\ revived \subseteq revived'
          /\ runs[r].status \in FailedStatuses \cup {"succeeded"} => r \in revived'
      BY <1>6, <2>8 DEF FinishRun, Ended, TerminalStatuses, FailedStatuses
    <3> QED
      BY <2>2, <2>5, <3>1, <3>2, <3>3 DEF TaskStatusBacked
  <2> QED
    BY <2>7, <2>8
<1>7. ASSUME NEW t \in Task, NEW status \in PostedStatuses, UpdateTaskStatus(t, status)
      PROVE  TaskStatusBacked'
  BY <1>7, ConstantsAssumption DEF UpdateTaskStatus, TaskStatusBacked
<1>8. CASE UNCHANGED <<runs, tasks, revived>>
  BY <1>8 DEF TaskStatusBacked
<1>9. CASE \/ UNCHANGED vars
           \/ \E s \in Session :
                \/ \E q \in Request : StartRunSelect(s, q) \/ StartRunNoCapacity(s, q)
                \/ DispatchRead(s) \/ DispatchProbe(s) \/ DispatchPassOver(s)
                \/ DispatchNoCapacity(s) \/ Abort(s)
           \/ \E n \in Node : \E body \in Registrations[n] : RegisterExecutorNode(n, body)
           \/ \E n \in Node, f \in Fingerprint : VerifyExecutorNodeHostKey(n, f)
  BY <1>8, <1>9
  DEF vars, StartRunSelect, StartRunNoCapacity, DispatchRead, DispatchProbe, DispatchPassOver,
      DispatchNoCapacity, Abort, RegisterExecutorNode, VerifyExecutorNodeHostKey
<1> QED
  BY <1>2, <1>3, <1>4, <1>5, <1>6, <1>7, <1>9 DEF Next, SessionStep

\* A task is queued, failed or completed only while one of its runs accounts
\* for it: was asked for and has no node yet, has failed, has succeeded.
THEOREM TaskStatusIsBacked == Spec => []TaskStatusBacked
<1>1. Init => TaskStatusBacked
  BY DEF Init, TaskStatusBacked
<1>2. TaskStatusBacked /\ IInv /\ [Next]_vars => TaskStatusBacked'
  BY TaskStatusBackedNext
<1> QED
  BY <1>1, <1>2, InductiveInvariant, PTL DEF Spec

-----------------------------------------------------------------------------
(* The store implements the slot pool *)

\* SlotPool counts as the store does.
LEMMA SameCardinality ==
  ASSUME NEW S
  PROVE  Slots!Cardinality(S) = Cardinality(S)
  BY DEF Slots!Cardinality, Cardinality

\* The runs SlotPool counts on a node are among those the store gave a slot.
LEMMA HeldIsGranted ==
  ASSUME IInv, NEW n \in Node
  PROVE  /\ Cardinality(Slots!Held(n)) <= GrantedSlots(n)
         /\ Cardinality(Slots!Held(n)) \in Nat
<1>1. Slots!Held(n) \in SUBSET Granted(n)
  BY DEF Slots!Held, Granted, Occupants, PhaseOf
<1> QED
  BY <1>1, GrantedSlotsIsNat, FS_Subset, FS_CardinalityType DEF GrantedSlots

\* Rows, nodes and phases of a step as SlotPool sees them.
Phase == [r \in Run |-> PhaseOf(r)]
At == [r \in Run |-> runs[r].node]

\* A run whose row stays as it is keeps its phase.
LEMMA SamePhase ==
  ASSUME NEW r \in Run, \A q \in Run \ {r} : runs'[q] = runs[q] /\ (q \in revived' <=> q \in revived)
  PROVE  Phase' = [Phase EXCEPT ![r] = PhaseOf(r)']
<1>1. \A q \in Run \ {r} : PhaseOf(q)' = PhaseOf(q)
  BY DEF PhaseOf
<1> QED
  BY <1>1 DEF Phase

LEMMA SlotPoolInit == Init => Slots!Init
  BY DEF Init, Slots!Init, NoRow, PhaseOf

LEMMA SlotPoolNext ==
  ASSUME IInv, [Next]_vars
  PROVE  [Slots!Next]_Slots!vars
<1> USE DEF IInv, TypeOK
<1>1. \A n \in Node : /\ Cardinality(Slots!Held(n)) <= GrantedSlots(n)
                      /\ Cardinality(Slots!Held(n)) \in Nat
  BY HeldIsGranted
<1>2. ASSUME NEW r \in Run, runs[r].status \in {"none", "queued"}, NEW s \in Session,
             tx[s].pc \in {"start", "promote"},
             runs'[r].status = "running", runs'[r].node = tx[s].node, revived' = revived \ {r},
             \A q \in Run \ {r} : runs'[q] = runs[q], advertised' = advertised
      PROVE  Slots!Next
  <2>1. PICK n \in Node : n = tx[s].node /\ GrantedSlots(n) < advertised[n]
    BY <1>2 DEF ReservedSlot
  <2>2. GrantedSlots(n) \in Nat /\ advertised[n] \in Nat /\ n # None
    BY GrantedSlotsIsNat, ConstantsAssumption
  <2>3. Cardinality(Slots!Held(n)) < advertised[n]
    BY <1>1, <2>1, <2>2
  <2>4. Phase[r] # "finished"
    BY <1>2 DEF Phase, PhaseOf, ActiveStatuses
  <2>5. Phase' = [Phase EXCEPT ![r] = "granted"]
    <3>1. PhaseOf(r)' = "granted"
      BY <1>2, <2>1, <2>2 DEF PhaseOf, ActiveStatuses
    <3> QED
      BY <1>2, <3>1, SamePhase
  <2>6. At' = [At EXCEPT ![r] = n]
    BY <1>2, <2>1 DEF At
  <2>7. Slots!Grant(r, n)
    <3>1. advertised' = advertised
      BY <1>2
    <3> QED
      BY <2>3, <2>4, <2>5, <2>6, <3>1, SameCardinality DEF Slots!Grant, Phase, At
  <2> QED
    BY <2>7 DEF Slots!Next
<1>3. ASSUME NEW s \in Session, StartRunCommit(s)
      PROVE  Slots!Next
  <2>1. Insert(tx[s].request, "running", tx[s].node) /\ tx[s].pc = "start" /\ advertised' = advertised
    BY <1>3 DEF StartRunCommit
  <2>2. /\ created + 1 \in Run /\ runs[created + 1].status = "none"
        /\ runs'[created + 1] = NewRow(tx[s].request, "running", tx[s].node)
        /\ \A r \in Run \ {created + 1} : runs'[r] = runs[r]
    BY <2>1, InsertedRow
  <2>3. runs'[created + 1].status = "running" /\ runs'[created + 1].node = tx[s].node
    BY <2>2 DEF NewRow
  <2>4. revived' = revived \ {created + 1}
    BY <1>3, <2>2 DEF StartRunCommit, RowsInOrder, ActiveStatuses
  <2> QED
    BY <1>2, <2>1, <2>2, <2>3, <2>4
<1>4. ASSUME NEW s \in Session, DispatchPromote(s)
      PROVE  Slots!Next
  <2>1. tx[s].pc = "promote" /\ advertised' = advertised
    BY <1>4 DEF DispatchPromote
  <2>2. PICK r \in Run :
          /\ runs[r].status = "queued"
          /\ runs'[r].status = "running"
          /\ runs'[r].node = tx[s].node
          /\ revived' = revived \ {r}
          /\ \A q \in Run \ {r} : runs'[q] = runs[q]
    BY <1>4, PromotedRow
  <2> QED
    BY <1>2, <2>1, <2>2
<1>5. ASSUME NEW q, Insert(q, "queued", None), advertised' = advertised, revived' = revived
      PROVE  Slots!Next
  <2>1. PICK r \in Run :
          /\ runs[r].status = "none" /\ runs[r].node = None
          /\ runs'[r].status = "queued" /\ runs'[r].node = None
          /\ \A p \in Run \ {r} : runs'[p] = runs[p]
    <3>1. NewRow(q, "queued", None).status = "queued" /\ NewRow(q, "queued", None).node = None
      BY DEF NewRow
    <3> QED
      BY <1>5, <3>1, InsertedRow
  <2>2. Phase[r] = "none" /\ Phase' = [Phase EXCEPT ![r] = "waiting"]
    <3>1. PhaseOf(r)' = "waiting"
      BY <2>1 DEF PhaseOf, ActiveStatuses
    <3> QED
      BY <1>5, <2>1, <3>1, SamePhase DEF Phase, PhaseOf
  <2>3. At' = At
    BY <2>1 DEF At
  <2>4. Slots!Wait(r)
    BY <1>5, <2>2, <2>3 DEF Slots!Wait, Phase, At
  <2> QED
    BY <2>1, <2>4 DEF Slots!Next
<1>6. ASSUME NEW s \in Session, EnqueueAfterNoCapacity(s)
      PROVE  Slots!Next
  BY <1>5, <1>6 DEF EnqueueAfterNoCapacity
<1>7. ASSUME NEW q \in Request, EnqueueRun(q)
      PROVE  Slots!Next
  BY <1>5, <1>7 DEF EnqueueRun
<1>8. ASSUME NEW r \in Run, NEW status \in ReportedStatuses, FinishRun(r, status)
      PROVE  [Slots!Next]_Slots!vars
  <2>1. /\ runs'[r].status = status /\ runs'[r].node = runs[r].node
        /\ \A q \in Run \ {r} : runs'[q] = runs[q]
    BY <1>8, FinishedRow
  <2>2. status \in ActiveStatuses \cup TerminalStatuses
    BY ConstantsAssumption
  <2>3. runs[r].status \in ActiveStatuses \cup TerminalStatuses
    BY <1>8 DEF FinishRun, RowType
  <2>4. \A q \in Run \ {r} : q \in revived' <=> q \in revived
    BY <1>8 DEF FinishRun
  <2>5. Phase' = [Phase EXCEPT ![r] = PhaseOf(r)'] /\ Phase[r] = PhaseOf(r)
    BY <2>1, <2>4, SamePhase DEF Phase
  <2>6. At' = At /\ advertised' = advertised
    BY <1>8, <2>1 DEF At, FinishRun
  <2>7. CASE PhaseOf(r)' = PhaseOf(r)
    <3>1. Phase' = Phase
      BY <2>5, <2>7 DEF Phase
    <3> QED
      BY <2>6, <3>1 DEF Slots!vars, Phase, At
  <2>8. CASE PhaseOf(r)' # PhaseOf(r)
    <3>1. /\ PhaseOf(r) \in {"waiting", "granted", "finished"}
          /\ PhaseOf(r)' \in {"waiting", "granted", "finished"}
      BY <2>1, <2>2, <2>3 DEF PhaseOf, ActiveStatuses, TerminalStatuses
    <3>2. CASE status \in TerminalStatuses
      <4>1. PhaseOf(r)' = "finished"
        BY <2>1, <3>2 DEF PhaseOf, ActiveStatuses, TerminalStatuses
      <4>2. Slots!Finish(r)
        BY <2>5, <2>6, <2>8, <3>1, <4>1 DEF Slots!Finish, Phase, At
      <4> QED
        BY <4>2 DEF Slots!Next
    <3>3. CASE status \notin TerminalStatuses /\ Ended(r)
      <4>1. r \in revived' /\ PhaseOf(r) = "finished"
        BY <1>8, <3>3 DEF FinishRun, Ended, PhaseOf, ActiveStatuses, TerminalStatuses
      <4>2. PhaseOf(r)' = "waiting"
        BY <2>8, <3>1, <4>1 DEF PhaseOf
      <4>3. Slots!Reopen(r)
        BY <2>5, <2>6, <4>1, <4>2 DEF Slots!Reopen, Phase, At
      <4> QED
        BY <4>3 DEF Slots!Next
    <3>4. CASE status \notin TerminalStatuses /\ ~Ended(r)
      <4>1. status \in ActiveStatuses /\ runs[r].status \in ActiveStatuses /\ revived' = revived
        BY <1>8, <2>2, <2>3, <3>4 DEF FinishRun, Ended
      <4>2. PhaseOf(r) # "granted" /\ PhaseOf(r)' # "granted"
        BY <2>1, <2>8, <4>1 DEF PhaseOf, ActiveStatuses
      <4>3. Slots!Finish(r) \/ Slots!Reopen(r)
        BY <2>5, <2>6, <2>8, <3>1, <4>2 DEF Slots!Finish, Slots!Reopen, Phase, At
      <4> QED
        BY <4>3 DEF Slots!Next
    <3> QED
      BY <3>2, <3>3, <3>4
  <2> QED
    BY <2>7, <2>8
<1>9. ASSUME NEW n \in Node, NEW body \in Registrations[n], RegisterExecutorNode(n, body)
      PROVE  [Slots!Next]_Slots!vars
  <2> DEFINE concurrency == ConcurrencyOf(body.capacity)
  <2>1. concurrency \in Nat
    BY ConstantsAssumption, ConcurrencyIsPositive DEF Body
  <2>2. Phase' = Phase /\ At' = At
    BY <1>9 DEF RegisterExecutorNode, Phase, PhaseOf, At
  <2>3. advertised' = [advertised EXCEPT ![n] = IF concurrency > @ THEN concurrency ELSE @]
    BY <1>9 DEF RegisterExecutorNode
  <2> HIDE DEF concurrency
  <2>4. CASE concurrency > advertised[n]
    <3>1. advertised' = [advertised EXCEPT ![n] = concurrency] /\ advertised'[n] = concurrency
      BY <2>3, <2>4
    <3>2. Slots!Advertise(n)
      BY <2>1, <2>2, <2>4, <3>1 DEF Slots!Advertise, Phase, At
    <3> QED
      BY <3>2 DEF Slots!Next
  <2>5. CASE ~(concurrency > advertised[n])
    <3>1. advertised' = advertised
      BY <2>3, <2>5
    <3> QED
      BY <2>2, <3>1 DEF Slots!vars, Phase, At
  <2> QED
    BY <2>4, <2>5
<1>10. CASE \/ UNCHANGED vars
            \/ \E s \in Session :
                 \/ \E q \in Request : StartRunSelect(s, q) \/ StartRunNoCapacity(s, q)
                 \/ DispatchRead(s) \/ DispatchProbe(s) \/ DispatchPassOver(s)
                 \/ DispatchNoCapacity(s) \/ Abort(s)
            \/ \E t \in Task, status \in PostedStatuses : UpdateTaskStatus(t, status)
            \/ \E n \in Node, f \in Fingerprint : VerifyExecutorNodeHostKey(n, f)
  <2>1. UNCHANGED <<runs, advertised, revived>>
    BY <1>10
    DEF vars, StartRunSelect, StartRunNoCapacity, DispatchRead, DispatchProbe, DispatchPassOver,
        DispatchNoCapacity, Abort, UpdateTaskStatus, VerifyExecutorNodeHostKey
  <2> QED
    BY <2>1 DEF Slots!vars, PhaseOf
<1> QED
  BY <1>3, <1>4, <1>6, <1>7, <1>8, <1>9, <1>10 DEF Next, SessionStep

\* Every behaviour of the store, with its transactions interleaved and
\* aborted, is a behaviour of the slot pool.
THEOREM StoreImplementsSlotPool == Spec => ImplementsSlotPool
<1>1. Init => Slots!Init
  BY SlotPoolInit
<1>2. IInv /\ [Next]_vars => [Slots!Next]_Slots!vars
  BY SlotPoolNext
<1> QED
  BY <1>1, <1>2, InductiveInvariant, PTL DEF Spec, ImplementsSlotPool, Slots!Spec

-----------------------------------------------------------------------------
(* The backpressure snapshot *)

\* The runs a snapshot counts on a node are among those that occupy it.
LEMMA ActiveRunsAtMostLoad ==
  ASSUME NEW n
  PROVE  ActiveRuns(n) \in Nat /\ ActiveRuns(n) <= Load(n)
<1>1. Active(n) \in SUBSET Occupants(n)
  BY DEF Active, ListAllRuns, Occupants
<1>2. IsFiniteSet(Occupants(n))
  BY LoadIsNat
<1> QED
  BY <1>1, <1>2, FS_Subset, FS_CardinalityType DEF ActiveRuns, Load

\* A caller who is told that no node has a free slot is told the truth.
THEOREM SnapshotHidesNoSlot == Spec => []HidesNoSlot
<1>1. TypeOK => HidesNoSlot
  <2> SUFFICES ASSUME TypeOK, NEW e \in Executor, NEW n \in Eligible(e)
               PROVE  n \in Offered(e)
    BY DEF HidesNoSlot
  <2>1. n \in Node /\ nodes[n].kind = e /\ nodes[n].status = "active"
    BY DEF Eligible
  <2>2. e = "ssh" => nodes[n].verified
    BY DEF Eligible
  <2>3. ~(ActiveRuns(n) >= Concurrency(n))
    <3>1. Load(n) < Concurrency(n)
      BY DEF Eligible, HasFreeSlot
    <3>2. Load(n) \in Nat /\ Concurrency(n) \in Nat
      BY <2>1, LoadIsNat DEF TypeOK, NodeType, Concurrency
    <3> QED
      BY <3>1, <3>2, ActiveRunsAtMostLoad
  <2>4. Reason(n, e) = "eligible_capacity"
    BY <2>1, <2>2, <2>3 DEF Reason
  <2> QED
    BY <2>1, <2>4 DEF Offered
<1> QED
  BY <1>1, TypeCorrect, PTL

-----------------------------------------------------------------------------
(* Ranks *)

\* No node is registered with more than 100 slots.  Two utilizations of such
\* nodes that differ at all differ by at least 1/10000, which is what a snapshot
\* rounds to.  Larger nodes may be ranked in another order than the store's: 43
\* of 108 slots and 41 of 103 are the same when rounded.
SmallNodes ==
  \A n \in Node : \A body \in Registrations[n] : ConcurrencyOf(body.capacity) <= 100

NodesAreSmall == \A n \in Node : Concurrency(n) <= 100

\* In ten-thousandths, rounded: x of c slots.
Rounded(x, c) == (20000 * x + c) \div (2 * c)

\* The product of slots of two nodes, under a name the provers leave alone.
Times(a, b) == a * b

\* A product grows with its factor.
LEMMA TimesIsMonotone ==
  ASSUME NEW a \in Int, NEW b \in Int, a <= b, NEW c \in Nat
  PROVE  a * c <= b * c
<1>1. (b - a) \in Nat
  OBVIOUS
<1>2. (b - a) * c >= 0
  BY <1>1
<1>3. (b - a) * c = b * c - a * c
  OBVIOUS
<1>4. a * c \in Int /\ b * c \in Int
  OBVIOUS
<1> QED
  BY <1>2, <1>3, <1>4

\* What division leaves.
LEMMA DivisionBounds ==
  ASSUME NEW a \in Int, NEW b \in Nat \ {0}
  PROVE  a \div b \in Int /\ b * (a \div b) <= a /\ a < b * (a \div b) + b
  OBVIOUS

\* What rounding leaves, in units of a d-th.
LEMMA RoundedBounds ==
  ASSUME NEW x \in Nat, NEW c \in Nat \ {0}, NEW d \in Nat \ {0},
         NEW u, u = Rounded(x, c), NEW p, p = Times(x, d), NEW cd, cd = Times(c, d)
  PROVE  /\ u \in Int
         /\ 2 * (cd * u) <= 20000 * p + cd
         /\ 20000 * p + cd < 2 * (cd * u) + 2 * cd
<1>1. u \in Int /\ 2 * c * u <= 20000 * x + c /\ 20000 * x + c + 1 <= 2 * c * u + 2 * c
  <2> DEFINE a == 20000 * x + c
             b == 2 * c
  <2>1. a \in Int /\ b \in Nat \ {0} /\ u = a \div b
    BY DEF Rounded
  <2> HIDE DEF a, b
  <2>2. u \in Int /\ b * u <= a /\ a + 1 <= b * u + b
    BY <2>1, DivisionBounds
  <2> QED
    BY <2>2 DEF a, b
<1>2. (2 * c * u) * d <= (20000 * x + c) * d
  BY <1>1, TimesIsMonotone
<1>3. (20000 * x + c + 1) * d <= (2 * c * u + 2 * c) * d
  BY <1>1, TimesIsMonotone
<1> QED
  BY <1>1, <1>2, <1>3 DEF Times

\* Of two utilizations of small nodes the lower is the lower when rounded.
LEMMA RoundedIsStrict ==
  ASSUME NEW x \in Nat, NEW c \in Nat \ {0}, c <= 100,
         NEW y \in Nat, NEW d \in Nat \ {0}, d <= 100,
         NEW p, p = Times(x, d), NEW q, q = Times(y, c), p < q
  PROVE  Rounded(x, c) < Rounded(y, d)
<1> DEFINE u == Rounded(x, c)
           v == Rounded(y, d)
           cd == Times(c, d)
           dc == Times(d, c)
<1>1. cd \in Nat /\ cd <= 10000
  <2>1. c * d <= 100 * d
    BY TimesIsMonotone
  <2> QED
    BY <2>1 DEF Times
<1>2. p \in Nat /\ q \in Nat /\ p + 1 <= q /\ cd = dc
  BY DEF Times
<1> HIDE DEF u, v, cd, dc
<1>3. u \in Int /\ 2 * (cd * u) <= 20000 * p + cd
  BY RoundedBounds DEF u, cd
<1>4. v \in Int /\ 20000 * q + cd < 2 * (cd * v) + 2 * cd
  <2>1. v \in Int /\ 20000 * q + dc < 2 * (dc * v) + 2 * dc
    BY RoundedBounds DEF v, dc
  <2> QED
    BY <1>2, <2>1
<1> SUFFICES ASSUME v <= u
             PROVE  FALSE
  BY <1>3, <1>4 DEF u, v
<1>5. cd * v <= cd * u /\ cd * v \in Int /\ cd * u \in Int
  BY <1>1, <1>3, <1>4, TimesIsMonotone
<1>6. 20000 * q < 20000 * p + 2 * cd
  BY <1>1, <1>2, <1>3, <1>4, <1>5
<1> QED
  BY <1>1, <1>2, <1>6

\* Utilizations that are the same are the same when rounded.
LEMMA RoundedIsSame ==
  ASSUME NEW x \in Nat, NEW c \in Nat \ {0}, NEW y \in Nat, NEW d \in Nat \ {0},
         NEW p, p = Times(x, d), NEW q, q = Times(y, c), p = q
  PROVE  Rounded(x, c) = Rounded(y, d)
<1> DEFINE u == Rounded(x, c)
           v == Rounded(y, d)
           cd == Times(c, d)
           dc == Times(d, c)
<1>1. cd \in Nat \ {0} /\ p \in Nat /\ cd = dc
  BY DEF Times
<1> HIDE DEF u, v, cd, dc
<1>2. u \in Int /\ 2 * (cd * u) <= 20000 * p + cd /\ 20000 * p + cd < 2 * (cd * u) + 2 * cd
  <2>1. p = Times(x, d)
    OBVIOUS
  <2> QED
    BY ONLY <2>1, RoundedBounds, x \in Nat, c \in Nat \ {0}, d \in Nat \ {0} DEF u, cd
<1>3. v \in Int /\ 2 * (cd * v) <= 20000 * p + cd /\ 20000 * p + cd < 2 * (cd * v) + 2 * cd
  <2>1. v \in Int /\ 2 * (dc * v) <= 20000 * p + dc /\ 20000 * p + dc < 2 * (dc * v) + 2 * dc
    BY RoundedBounds DEF v, dc
  <2> QED
    BY <1>1, <2>1
<1>4. cd * u \in Int /\ cd * v \in Int
  BY <1>1, <1>2, <1>3
<1>5. ~(u + 1 <= v)
  <2> SUFFICES ASSUME u + 1 <= v
               PROVE  FALSE
    OBVIOUS
  <2>1. cd * (u + 1) <= cd * v /\ cd * (u + 1) = cd * u + cd
    BY <1>1, <1>2, <1>3, TimesIsMonotone
  <2> QED
    BY <1>1, <1>2, <1>3, <1>4, <2>1
<1>6. ~(v + 1 <= u)
  <2> SUFFICES ASSUME v + 1 <= u
               PROVE  FALSE
    OBVIOUS
  <2>1. cd * (v + 1) <= cd * u /\ cd * (v + 1) = cd * v + cd
    BY <1>1, <1>2, <1>3, TimesIsMonotone
  <2> QED
    BY <1>1, <1>2, <1>3, <1>4, <2>1
<1> QED
  BY <1>2, <1>3, <1>5, <1>6 DEF u, v

-----------------------------------------------------------------------------
(* The snapshot and the store agree *)

\* Registration keeps nodes small.
LEMMA NodesStaySmall ==
  ASSUME SmallNodes
  PROVE  Spec => []NodesAreSmall
<1>1. Init => NodesAreSmall
  BY DEF Init, NodesAreSmall, Concurrency
<1>2. TypeOK /\ NodesAreSmall /\ [Next]_vars => NodesAreSmall'
  <2> SUFFICES ASSUME TypeOK, NodesAreSmall, [Next]_vars
               PROVE  NodesAreSmall'
    OBVIOUS
  <2>1. ASSUME NEW n \in Node, NEW body \in Registrations[n], RegisterExecutorNode(n, body)
        PROVE  NodesAreSmall'
    <3>1. \A m \in Node \ {n} : nodes'[m] = nodes[m]
      BY <2>1 DEF RegisterExecutorNode, TypeOK
    <3>2. nodes'[n].concurrency = ConcurrencyOf(body.capacity)
      BY <2>1 DEF RegisterExecutorNode, TypeOK
    <3>3. nodes'[n].concurrency <= 100
      BY <3>2 DEF SmallNodes
    <3> QED
      BY <3>1, <3>3 DEF NodesAreSmall, Concurrency
  <2>2. ASSUME NEW n \in Node, NEW f \in Fingerprint, VerifyExecutorNodeHostKey(n, f)
        PROVE  NodesAreSmall'
    <3>1. nodes[n] \in NodeType /\ nodes \in [Node -> NodeType]
      BY DEF TypeOK
    <3>2. CASE nodes' = [nodes EXCEPT ![n] = [@ EXCEPT !.key = f, !.verified = TRUE,
                                                      !.status = "active"]]
      <4>1. /\ nodes'[n] = [nodes[n] EXCEPT !.key = f, !.verified = TRUE, !.status = "active"]
            /\ \A m \in Node \ {n} : nodes'[m] = nodes[m]
        BY <3>1, <3>2
      <4>2. nodes'[n].concurrency = nodes[n].concurrency
        BY ONLY <3>1, <4>1 DEF NodeType
      <4> QED
        BY <4>1, <4>2 DEF NodesAreSmall, Concurrency
    <3>3. CASE nodes' = [nodes EXCEPT ![n] = [@ EXCEPT !.verified = FALSE,
                                                      !.status = "verification_failed"]]
      <4>1. /\ nodes'[n] = [nodes[n] EXCEPT !.verified = FALSE, !.status = "verification_failed"]
            /\ \A m \in Node \ {n} : nodes'[m] = nodes[m]
        BY <3>1, <3>3
      <4>2. nodes'[n].concurrency = nodes[n].concurrency
        BY ONLY <3>1, <4>1 DEF NodeType
      <4> QED
        BY <4>1, <4>2 DEF NodesAreSmall, Concurrency
    <3> QED
      BY <2>2, <3>2, <3>3 DEF VerifyExecutorNodeHostKey
  <2>3. CASE UNCHANGED nodes
    BY <2>3 DEF NodesAreSmall, Concurrency
  <2>4. CASE \/ UNCHANGED vars
             \/ \E s \in Session : SessionStep(s)
             \/ \E q \in Request : EnqueueRun(q)
             \/ \E r \in Run, status \in ReportedStatuses : FinishRun(r, status)
             \/ \E t \in Task, status \in PostedStatuses : UpdateTaskStatus(t, status)
    BY <2>3, <2>4
    DEF vars, SessionStep, StartRunSelect, StartRunNoCapacity, StartRunCommit,
        EnqueueAfterNoCapacity, EnqueueRun, DispatchRead, DispatchProbe, DispatchPromote,
        DispatchPassOver, DispatchNoCapacity, Abort, FinishRun, UpdateTaskStatus
  <2> QED
    BY <2>1, <2>2, <2>4 DEF Next
<1> QED
  BY <1>1, <1>2, TypeCorrect, PTL DEF Spec

\* As long as the list holds every active run, the snapshot counts what the
\* store counts.
ListsActive == \A r \in Run : runs[r].status \in ActiveStatuses => r \in ListAllRuns

LEMMA ActiveRunsIsLoad ==
  ASSUME ListsActive, NEW n
  PROVE  ActiveRuns(n) = Load(n)
<1>1. Active(n) = Occupants(n)
  BY DEF ListsActive, Active, Occupants, ListAllRuns
<1> QED
  BY <1>1 DEF ActiveRuns, Load

\* Then both offer the same nodes.
LEMMA OfferedIsEligible ==
  ASSUME TypeOK, ListsActive, NEW e \in Executor
  PROVE  Offered(e) = Eligible(e)
<1>1. ASSUME NEW n \in Node
      PROVE  ActiveRuns(n) >= Concurrency(n) <=> ~(Load(n) < Concurrency(n))
  <2>1. Load(n) \in Nat /\ Concurrency(n) \in Nat
    BY LoadIsNat DEF TypeOK, NodeType, Concurrency
  <2> QED
    BY <2>1, ActiveRunsIsLoad
<1>2. ASSUME NEW n \in Node
      PROVE  Reason(n, e) = "eligible_capacity" <=>
               /\ nodes[n].status = "active"
               /\ e = "ssh" => nodes[n].verified
               /\ Load(n) < Concurrency(n)
  <2>1. nodes[n].verified \in BOOLEAN
    BY DEF TypeOK, NodeType
  <2> QED
    BY <1>1, <2>1 DEF Reason
<1> QED
  BY <1>2 DEF Offered, Eligible, HasFreeSlot

\* And order two small nodes the same way.
LEMMA AboveIsPreferable ==
  ASSUME TypeOK, NodesAreSmall, ListsActive,
         NEW m \in Node, NEW n \in Node
  PROVE  Above(m, n) <=> Preferable(m, n)
<1> DEFINE x == Load(m)
           c == Concurrency(m)
           y == Load(n)
           d == Concurrency(n)
           p == Times(x, d)
           q == Times(y, c)
<1>1. /\ x \in Nat /\ c \in Nat \ {0} /\ c <= 100
      /\ y \in Nat /\ d \in Nat \ {0} /\ d <= 100
  BY LoadIsNat DEF TypeOK, NodeType, Concurrency, NodesAreSmall
<1>2. /\ Utilization(m) = Rounded(x, c) /\ Utilization(n) = Rounded(y, d)
      /\ AvailableSlots(m) = c - x /\ AvailableSlots(n) = d - y
  BY ActiveRunsIsLoad DEF Utilization, Rounded, AvailableSlots
<1>3. Preferable(m, n) <=> p < q \/ (p = q /\ c - x > d - y)
  BY DEF Preferable, Times
<1>4. p \in Nat /\ q \in Nat
  BY <1>1 DEF Times
<1>5. Rounded(x, c) \in Int /\ Rounded(y, d) \in Int
  BY <1>1, RoundedBounds
<1> HIDE DEF x, c, y, d
<1>6. p < q => Rounded(x, c) < Rounded(y, d)
  BY <1>1, RoundedIsStrict
<1>7. q < p => Rounded(y, d) < Rounded(x, c)
  BY <1>1, RoundedIsStrict
<1>8. p = q => Rounded(x, c) = Rounded(y, d)
  BY <1>1, RoundedIsSame
<1> HIDE DEF p, q
<1> QED
  BY <1>2, <1>3, <1>4, <1>5, <1>6, <1>7, <1>8 DEF Above

\* The rank a caller is told is the store's choice: as long as the snapshot
\* lists every active run and no node has more than 100 slots, it offers the nodes
\* the store would select from and ranks those first that it would select.
THEOREM SnapshotRanksAsTheStoreDoes ==
  ASSUME SmallNodes
  PROVE  Spec => []FirstRankIsSelected
<1>1. TypeOK /\ NodesAreSmall => FirstRankIsSelected
  <2> SUFFICES ASSUME TypeOK, NodesAreSmall, ListsActive,
                      NEW e \in Executor
               PROVE  Offered(e) = Eligible(e) /\ FirstRank(e) = Candidates(e)
    BY DEF ListsActive, FirstRankIsSelected
  <2>1. Offered(e) = Eligible(e)
    BY OfferedIsEligible
  <2>2. \A m, n \in Node : Above(m, n) <=> Preferable(m, n)
    BY AboveIsPreferable
  <2>3. Eligible(e) \subseteq Node
    BY DEF Eligible
  <2> QED
    BY <2>1, <2>2, <2>3 DEF FirstRank, Candidates
<1> QED
  BY <1>1, TypeCorrect, NodesStaySmall, PTL
=============================================================================
