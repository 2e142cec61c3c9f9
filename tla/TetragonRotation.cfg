SPECIFICATION FairSpec
CONSTANTS
  Kind = {"info", "warning"}
  MaxLines = 1
  MaxFiles = 2
CHECK_DEADLOCK FALSE
PROPERTY
  HandledAfterRotation
