CONSTANTS
  h1 = h1
  h2 = h2
  Handler = {h1}
  Settings <- LosesRows
SPECIFICATION Spec
INVARIANTS
  RejectionStopsGitSync
CHECK_DEADLOCK FALSE
