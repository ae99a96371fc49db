CONSTANTS
  P = P
  Q = Q
  R = R
  Words <- SomeWords
  Project = {P, Q, R}
  ProjectName <- ProjectNames
  Score <- ScoreOf
  Floor = 10
  MaxSecret = 3
  Proc = {p1}
  Jobs <- Jobs1
  Initial <- Start1
  Written <- Others
  Uuid <- Ids
  Net = TRUE
  MaxEdits = 2
SPECIFICATION Spec
INVARIANTS TypeOK NeverAmbiguous Reachable
PROPERTY EditIsExact
CHECK_DEADLOCK FALSE
