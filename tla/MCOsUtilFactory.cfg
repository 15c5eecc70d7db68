SPECIFICATION Spec
CONSTANTS
  Distros <- MCDistros
  ClearLinuxNames <- MCClearLinuxNames
INVARIANTS
  TypeOK
  FamilyPreserved
  VersionMonotone
CHECK_DEADLOCK FALSE
