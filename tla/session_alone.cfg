CONSTANTS
  Proc = {p1}
  Env <- EnvAll
  Faults = {"kill", "sigint", "disk"}
  AccountEmail = FALSE
  TTL = 1
  Latency = 1
  MaxTime = 3
  MaxGrants = 2
  MaxEpoch = 2
SPECIFICATION FairSpec
INVARIANTS TypeOK FreshBearer SyncTruth
PROPERTIES OneAtATimeAdvances SigintEnds UnattendedEnds
CHECK_DEADLOCK FALSE
