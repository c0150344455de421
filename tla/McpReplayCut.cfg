CONSTANTS
  Client = {c1}
  Stream = {h1}
  Post = {}
  None = None
  Limit = 2
  ListMayFail = FALSE
  MaxEvents = 6
SPECIFICATION Spec
PROPERTY ReconnectMissesNothing
CHECK_DEADLOCK FALSE
