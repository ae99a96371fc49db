CONSTANTS
  A = A
  B = B
  F = F
  u = u
  w = w
  Name = {A, B}
  FieldName = {F}
  Value = {u, w}
  Absent = Absent
  Missing = Missing
  Orgs <- OneOrg
  Bad = {}
  Proc = {p1, p2}
  Jobs <- SomeJobs
  Renewing <- Creates
  Initial <- NoCipher
  Strangers <- Written
  Notes = {w}
  Faults = {"kill", "net"}
  MaxCipher = 2
  MaxEdits = 1
SPECIFICATION Spec
INVARIANTS TypeOK UniqueNames VisibleAfter
PROPERTY EditIsExact
SYMMETRY Symmetry
CHECK_DEADLOCK FALSE
