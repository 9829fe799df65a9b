SPECIFICATION TogetherSpec
CONSTANTS
  v1 = v1
  v2 = v2
  v3 = v3
  e1 = e1
  e2 = e2
  r1 = r1
  r2 = r2
  Version = {v1, v2, v3}
  Edit = {e1, e2}
  Request = {r1, r2}
  First = v1
  Null = Null
SYMMETRY Symmetry
CHECK_DEADLOCK FALSE
INVARIANTS TypeOK LiveVersionHasBytes HashNeverLies
PROPERTIES NumbersFollowInsertion
