CONSTANTS
  MaxRuns = 2
  MaxFaults = 1
  MaxReported = 1
  ReportedStatuses = {"running", "succeeded"}
  DispatchWindow = 1
  MaxAttempts = 2
  Executor = {"docker", "ssh"}
  Transport <- BothTransports
  Slots <- OneSlot
  TimeLimit = TRUE
  Outcomes = {"succeeded", "failed"}
SPECIFICATION Spec
INVARIANTS
  TypeOK
  ContainersHoldSlots
  ExpiredDockerRunsTimeOut
  RetriesFollowFailures
PROPERTIES
  EveryRunEnds
  
CHECK_DEADLOCK FALSE
