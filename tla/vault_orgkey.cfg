CONSTANTS
  A = A
  B = B
  F = F
  u = u
  w = w
  Name = {A, B}
  FieldName = {F}
  Value = {u, w}
  Absent = Absent
  Missing = Missing
  Orgs <- OneOrg
  Bad = {"org"}
  Proc = {p1, p2}
  Jobs <- OneCreate
  Renewing <- OneCreate
  Initial <- Owned
  Strangers = {}
  Notes = {}
  Faults = {}
  MaxCipher = 3
  MaxEdits = 0
SPECIFICATION Spec
PROPERTY CreateRefuses
CHECK_DEADLOCK FALSE
