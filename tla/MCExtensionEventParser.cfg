SPECIFICATION Spec
CONSTANTS
  RequiredFields <- MCRequiredFields
  MessageKey = "message"
  IntFields = {"eventpid"}
  IntLen = 1
  MaxEventSize = 3
  MaxMsgLen = 2
  Events <- MCEvents
INVARIANT EventSizeBounded
CHECK_DEADLOCK FALSE
