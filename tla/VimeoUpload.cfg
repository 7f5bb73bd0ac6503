SPECIFICATION Spec
CONSTANTS
  v1 = v1  v2 = v2  q1 = q1  p1 = p1  a1 = a1  a2 = a2  a3 = a3
  None = None
  Video = {v1, v2}
  Query = {q1}
  Placeholder = {p1}
  Album = {a1, a2, a3}
  Old = {a3}
  Wishes <- MCWishes
  Asks <- MCAsks
INVARIANTS
  TypeOK
  VerdictIsTrue
PROPERTIES
  SecondAlbumIsExplained
  ListIsExplained
  ImplementsRequests
CHECK_DEADLOCK FALSE
