CONSTANTS
  t1 = t1
  n1 = n1
  n2 = n2
  key1 = key1
  key2 = key2
  Session = {s1, s2}
  Task = {t1}
  Node = {n1, n2}
  Request <- StoreRequest
  Registrations <- StoreRegistrations
  Fingerprint = {key1, key2}
  None = None
  ReportedStatuses = {"succeeded", "failed", "running"}
  PostedStatuses = {"blocked"}
  MaxRuns = 2
  DispatchWindow = 2
  Newest = 1
SPECIFICATION Spec
SYMMETRY Symmetry
INVARIANTS
  TypeOK
  NoOvercommit
  TaskStatusBacked
  HidesNoSlot
  ReservedSlot
  IInv
  FirstRankIsSelected
PROPERTIES
  TerminalIsFinal
  ImplementsSlotPool
CHECK_DEADLOCK FALSE
