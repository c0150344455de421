CONSTANTS
  MaxRuns = 2
  MaxFaults = 0
  MaxReported = 0
  ReportedStatuses = {}
  DispatchWindow = 50
  MaxAttempts = 2
  Executor = {"ssh"}
  Transport <- ForcedCommand
  Slots <- OneSlot
  TimeLimit = TRUE
  Outcomes = {"succeeded"}
SPECIFICATION Spec
INVARIANTS
  ExpiredRunsTimeOut
CHECK_DEADLOCK FALSE
