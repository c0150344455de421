CONSTANTS
  h1 = h1
  h2 = h2
  Handler = {h1, h2}
  Settings <- AllSettings
SPECIFICATION Spec
SYMMETRY Symmetry
INVARIANTS
  TypeOK
  PublishFollowsGates
  RejectionStopsRequests
  CompletedMeansPublished
CHECK_DEADLOCK FALSE
