SPECIFICATION Spec
CONSTANTS
  Paths = {p, q}
  a = a
  b = b
  large = large
  Contents <- MCContents
  Bytes <- MCBytes
  MaxFiles = 2
  MaxBytes = 2
  AllowEmpty = FALSE
  Retain = FALSE
  None = None
  Bad = Bad
  NoPath = NoPath
INVARIANTS FailurePublishesNothing
CHECK_DEADLOCK FALSE
