CONSTANTS
  h1 = h1
  h2 = h2
  Handler = {h1}
  Settings <- ChangesDependency
SPECIFICATION Spec
PROPERTIES
  DependencyPolicyBlocks
CHECK_DEADLOCK FALSE
