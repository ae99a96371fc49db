CONSTANTS
  Id = {a, b}
  None = None
  MaxSyncs = 2
  MaxEdits = 3
SPECIFICATION Spec
SYMMETRY Symmetry
INVARIANTS TypeOK NothingMissing
