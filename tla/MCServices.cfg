CONSTANTS
  t1 = t1
  sid = sid
  alice = alice
  Handler = {h1, h2}
  LoginState = {l1}
  Session = {1, 2}
  Token = {t1}
  Issued <- IssuedTokens
  Sid = {sid}
  Subject = {alice}
  NoSid = NoSid
  Bearer = Bearer
  Local = Local
  StateTTL = 1
  SessionTTL = 1
  Leeway = 1
  MaxTime = 2
  Writer = {"api", "gateway", "worker"}
  Org = {"default"}
  DefaultOrg = "default"
  MaxRows = 2
  MaxChanges = 1
  Bundle = {b1}
  ListMayFail = TRUE
  Caller = {"api", "executor"}
  EndStatus = {"succeeded", "failed"}
  MaxSeq = 4
  Runner = {h1, h2}
  Process = {h1, h2}
  Email = {"first", "second"}
  NoEmail = "none"
  Directory <- Releases
  SeedRow <- SeedRows
  NeededBy <- Tables
SPECIFICATION ServicesSpec
SYMMETRY Same
INVARIANTS
  ServicesTypeOK
  OneSessionPerLogin
  RevokedIsRefused
  SessionsEndWithTheirToken
  HonestChainVerifies
  ChangesAreFound
  ReceiptVouches
  OneShipment
  RunEventsTypeOK
  StatusIsTold
  StreamMissesNothing
  MigrationsRunOnce
  MigratedMeansApplied
  ServingIsSeeded
PROPERTIES
  NeverUsableAgain
  PasswordStays
CHECK_DEADLOCK FALSE
