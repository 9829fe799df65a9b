SPECIFICATION FileSpec
CONSTANTS
  r1 = r1
  r2 = r2
  w1 = w1
  w2 = w2
  Session = {s1}
  File = {f1}
  Old = Old
  Request = {r1, r2}
  Worker = {w1, w2}
  Null = Null
  MaxAttempts = 2
  MaxRunning = 2
  Purposes = {"document_create", "document_version_create", "document_version_replace"}
  MayCancel = TRUE
  CrashPoints = {"request", "processing", "settle", "drop", "sweep"}
CHECK_DEADLOCK FALSE
INVARIANTS TypeOK CompletedIsStored
PROPERTIES CompletedStays JobsSettle
