CONSTANTS
  Client = {c1}
  Stream = {h1, h2}
  Post = {p1}
  None = None
  Limit = 2
  ListMayFail = TRUE
  MaxEvents = 3
SPECIFICATION Spec
INVARIANTS
  TypeOK
  EventsBelowLast
  NothingMissed
PROPERTIES
  ImplementsEventStream
  StreamsCatchUp
CHECK_DEADLOCK FALSE
