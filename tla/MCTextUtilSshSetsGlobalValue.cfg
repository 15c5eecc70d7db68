CONSTANTS
  name = name
  other = other
  v1 = v1
  v2 = v2
  SshName <- name
  IniName <- name
  OtherKey <- other
  Vals <- MCVals
  MaxLines = 4
  Bytes <- MCBytes
  MaxBytes = 4
  HexDigits <- MCHexDigits
  NonHex <- MCNonHex
  Widths <- MCWidths
  DumpBuffers <- MCDumpBuffers
  SasMessages <- MCSasMessages

SPECIFICATION Spec

INVARIANT SshSetsGlobalValue

CHECK_DEADLOCK FALSE
