CONSTANTS
  Proc = {p1, p2}
  Env <- EnvTwo
  Faults = {"kill"}
  AccountEmail = TRUE
  TTL = 1
  Latency = 0
  MaxTime = 2
  MaxGrants = 2
  MaxEpoch = 1
SPECIFICATION Spec
SYMMETRY Symmetry
INVARIANTS TokenTripleCoherent FreshBearer SessionKept
CHECK_DEADLOCK FALSE
