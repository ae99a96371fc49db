CONSTANTS
  a = a
  b = b
  X = X
  Y = Y
  Cipher = {a, b}
  Var = {X, Y}
  Lines = 4
  Section <- Sections
  SourceOf <- Sources
  VarOf <- Vars
  MaxVersion = 1
  None = None
  Proc = {p1, p2}
  NoFile = NoFile
  Faults = {"kill"}
  Mirrored = {X, Y}
  MaxEdits = 1
SPECIFICATION Spec
INVARIANTS TypeOK ExitTruth NoLitter
PROPERTIES ReplacesAtomically MirrorAgrees
SYMMETRY Symmetry
CHECK_DEADLOCK FALSE
