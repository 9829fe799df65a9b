SPECIFICATION ErasureSpec
CONSTANTS
  d1 = d1
  d2 = d2
  d3 = d3
  m1 = m1
  x1 = x1
  r1 = r1
  r2 = r2
  Leaver = Leaver
  Nobody = Nobody
  Doc = {d1, d2, d3}
  Place <- Places
  Late = {d3}
  Export = {x1}
  Member = {m1}
  Runner = {r1, r2}
  Holdings = {"nothing", "projects"}
  MaxAttempts = 2
  WorkTries = 1
  MaxEvents = 1
CHECK_DEADLOCK FALSE
INVARIANTS TypeOK OrgContentSurvives ErasureIsThorough
PROPERTIES OrganisationIsHandedOver DeletionCompletes
