CONSTANTS
  Jobs = {1}
  Apps = {a1, a2}
  Ops = {o1}
  Reports <- MCReports
  LastSecond = 1
  Beat = 1
  Lease = 2
  RecoveryInterval = 1
  MaxBatch = 1
  MaxFaults = 2
SPECIFICATION FairSpec
INVARIANTS
  TypeOK
  ClaimsAreExclusive
  OverlapNeedsLostKeepAlive
  SecretsEndWithJob
PROPERTIES
  StoppedRunnerClaimsNothing
  ImplementsLifecycle
  EveryJobEnds
