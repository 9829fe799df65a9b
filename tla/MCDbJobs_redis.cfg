SPECIFICATION Spec
CONSTANTS
  j1 = j1
  j2 = j2
  j3 = j3
  j4 = j4
  k1 = k1
  k2 = k2
  p1 = p1
  p2 = p2
  w1 = w1
  w2 = w2
  NoKey = NoKey
  BaseDelay = 1
  MaxDelay = 2
  IntMax = 3
  Job = {j1, j2}
  Kind <- RedisKind
  MaxAttempts <- RedisAttempts
  DedupeKey <- RedisKeys
  Poller = {p1}
  Worker = {w1, w2}
  ClaimBatch = 1
  QuietBy = 1
  StaleAfter = 1
  DelayChoices = {0, 1}
  MaxClaims <- RedisClaims
SYMMETRY WorkerSymmetry
INVARIANTS NoDoubleRunBeforeStale
CHECK_DEADLOCK FALSE
