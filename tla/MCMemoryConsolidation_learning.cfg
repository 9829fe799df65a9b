SPECIFICATION LearningSpec
CONSTANTS
  c1 = c1
  a1 = a1
  a2 = a2
  t1 = t1
  t2 = t2
  r1 = r1
  r2 = r2
  Conv = {c1}
  Actor = {a1, a2}
  Turn = {t1, t2}
  ConvOf <- TogetherConv
  ActorOf <- TogetherActor
  InProject = {c1}
  Owner = a1
  Editor = {}
  Project = Project
  Runner = {r1, r2}
  Null = Null
  Room = 1
  MaxAttempts = 1
  MaxEvents = 1
CHECK_DEADLOCK FALSE
INVARIANTS TypeOK ForgottenStaysForgotten RevisionNamesContent AppMemoryIsPrivate ProcessedMeansConsidered
PROPERTIES CommitsOnAllThatWasSaid TurnsAreConsolidated
