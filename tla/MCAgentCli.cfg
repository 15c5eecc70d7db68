SPECIFICATION Spec
CONSTANTS
  Argvs <- MCArgvs
  ExistingPaths <- MCExistingPaths
  MaxRetries = 3
  InvalidCgroupsErr = 2
  UnexpectedPathErr = 3
INVARIANTS
  TypeOK
  ChildRunsParentConfiguration
  UnexpectedPathOnlyAfterAllRetries
PROPERTIES
  CollectLogsTerminates
CHECK_DEADLOCK FALSE
