CONSTANTS
  N = 2
  Workers = 2
  MaxAttempts = 2
  MaxPolls = 2
  Payloads <- MCPayloads
  None = None
SPECIFICATION FairSpec
INVARIANTS
  TypeOK
  OneJobPerDocument
  ManifestTellsOutcome
  GeneratedFromParsed
  RowIdsFollowSource
PROPERTIES
  EveryRunEnds
CHECK_DEADLOCK FALSE
