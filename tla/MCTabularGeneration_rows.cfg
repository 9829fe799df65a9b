SPECIFICATION Spec
CONSTANTS
  g1 = g1
  g2 = g2
  g3 = g3
  r1 = r1
  r2 = r2
  c1 = c1
  c2 = c2
  Row = {r1, r2}
  Col = {c1}
  AllCols = AllCols
  Gen = {g1, g2}
  NoGen = NoGen
  Async = TRUE
  MaxTries = 2
  Prompt = TRUE
  LateEnqueue = FALSE
  MayDie = FALSE
  MayFail = FALSE
  MaxRuns = 2
SYMMETRY Symmetry
CHECK_DEADLOCK FALSE
PROPERTIES LeaseCoversWork
