SPECIFICATION FairSpec
CONSTANTS
  Kind = {"killed", "long"}
  MaxLines = 3
  MaxFiles = 2
CHECK_DEADLOCK FALSE
INVARIANTS
  TypeOK
  StoredInOrder
  NothingOverlooked
PROPERTY
  Handled
