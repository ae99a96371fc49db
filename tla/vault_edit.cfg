CONSTANTS
  A = A
  B = B
  F = F
  u = u
  w = w
  Name = {A, B}
  FieldName = {F}
  Value = {u, w}
  Absent = Absent
  Missing = Missing
  Orgs <- OneOrg
  Bad = {}
  Proc = {p1, p2}
  Jobs <- OneEdit
  Renewing <- OneEdit
  Initial <- Cards
  Strangers = {}
  Notes = {}
  Faults = {}
  MaxCipher = 2
  MaxEdits = 0
SPECIFICATION Spec
INVARIANT EditKeepsRest
CHECK_DEADLOCK FALSE
