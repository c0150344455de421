CONSTANTS
  h1 = h1
  h2 = h2
  Handler = {h1}
  Settings <- SmallestSetting
SPECIFICATION Spec
INVARIANTS
  GitSyncSucceedsWithPR
CHECK_DEADLOCK FALSE
