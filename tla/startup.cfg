SPECIFICATION FairSpec
CONSTANTS
  Replicas = {r1, r2, r3}
  MaxCrashes = 1
INVARIANTS
  ServesOnlyFullSchema
  OneGetsThrough
PROPERTY
  AllComeToServe
CHECK_DEADLOCK FALSE
