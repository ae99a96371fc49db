CONSTANTS
  Rune <- Runes
  Blank = "_"
  Letter <- Letters
  Upper = {"A"}
  Lower <- LowerOf
  Code <- CodeOf
  Items <- Vault
  Floor = 10
  Queries <- Asked
  Height = 5
  Wide = {"e"}
  MaxAhead = 2
  MaxTyped = 3
SPECIFICATION Spec
INVARIANTS TypeOK OneReader TerminalRestored AutoIsFirst RowsMatch
PROPERTIES TakesWhatIsShown NeverSpins
CHECK_DEADLOCK FALSE
