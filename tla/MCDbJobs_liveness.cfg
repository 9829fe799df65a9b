SPECIFICATION KeysSpec
CONSTANTS
  j1 = j1
  j2 = j2
  j3 = j3
  j4 = j4
  k1 = k1
  k2 = k2
  p1 = p1
  p2 = p2
  w1 = w1
  w2 = w2
  NoKey = NoKey
  BaseDelay = 1
  MaxDelay = 2
  IntMax = 2
  Job = {j1, j2, j3, j4}
  Kind <- KeysKind
  MaxAttempts <- KeysAttempts
  DedupeKey <- KeysOf
  Poller = {p1, p2}
  Worker = {}
  ClaimBatch = 2
  QuietBy = 1
  StaleAfter = 0
  DelayChoices = {1}
  MaxClaims <- KeysClaims
INVARIANTS TypeOK LiveKeyUnique FenceNamesLatestClaim BudgetBoundsClaims HookOnlyForSpentRows
PROPERTIES ImplementsLedger CleanupNeverLost TerminalIsFinal EveryJobSettles CleanupCompletes
CHECK_DEADLOCK FALSE
