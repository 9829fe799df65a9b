SPECIFICATION FairSpec
CONSTANTS
  d1 = d1
  d2 = d2
  d3 = d3
  m1 = m1
  x1 = x1
  r1 = r1
  r2 = r2
  Leaver = Leaver
  Nobody = Nobody
  Doc = {d2}
  Place <- OrgPlace
  Late = {}
  Export = {}
  Member = {}
  Runner = {r1}
  Holdings = {"projects"}
  MaxAttempts = 2
  WorkTries = 1
  MaxEvents = 0
CHECK_DEADLOCK FALSE
PROPERTIES CascadeRemovesMembership
