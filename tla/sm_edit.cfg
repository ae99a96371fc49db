CONSTANTS
  P = P
  Q = Q
  R = R
  Words <- SomeWords
  Project = {P, Q, R}
  ProjectName <- ProjectNames
  Score <- ScoreOf
  Floor = 10
  MaxSecret = 3
  Proc = {p1}
  Jobs <- Creates
  Initial <- Empty
  Written <- Others
  Uuid <- Ids
  Net = FALSE
  MaxEdits = 1
SPECIFICATION Spec
INVARIANT EditOpens
CHECK_DEADLOCK FALSE
