CONSTANTS
  t1 = t1
  sid = sid
  alice = alice
  Handler = {h1}
  LoginState = {l1}
  Session = {1}
  Token = {t1}
  Issued <- IssuedTokens
  Sid = {sid}
  Subject = {alice}
  NoSid = NoSid
  Bearer = Bearer
  Local = Local
  StateTTL = 1
  SessionTTL = 1
  Leeway = 1
  MaxTime = 2
  Writer = {"api", "gateway", "worker"}
  Org = {"default"}
  DefaultOrg = "default"
  MaxRows = 2
  MaxChanges = 0
  Bundle = {b1}
  ListMayFail = FALSE
  Caller = {"api", "executor"}
  EndStatus = {"succeeded", "failed"}
  MaxSeq = 4
  Runner = {r1, r2}
  Process = {p1, p2}
  Email = {"first", "second"}
  NoEmail = "none"
  Directory <- Releases
  SeedRow <- SeedRows
  NeededBy <- Tables
SPECIFICATION ServicesSpec
INVARIANTS
  UntouchedChainVerifies
CHECK_DEADLOCK FALSE
