SPECIFICATION FairSpec
CONSTANTS
  g1 = g1
  g2 = g2
  g3 = g3
  r1 = r1
  r2 = r2
  c1 = c1
  c2 = c2
  Row = {r1}
  Col = {c1}
  AllCols = AllCols
  Gen = {g1, g2}
  NoGen = NoGen
  Async = TRUE
  MaxTries = 1
  Prompt = TRUE
  LateEnqueue = FALSE
  MayDie = TRUE
  MayFail = TRUE
  MaxRuns = 2
CHECK_DEADLOCK FALSE
PROPERTIES GeneratingResolves
