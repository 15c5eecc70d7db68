SPECIFICATION Spec
CONSTANTS
  Argvs <- MCCollectArgvs
  ExistingPaths <- MCExistingPaths
  MaxRetries = 3
  InvalidCgroupsErr = 2
  UnexpectedPathErr = 3
INVARIANT
  CollectLogsExitCodeReflectsOutcome
CHECK_DEADLOCK FALSE
