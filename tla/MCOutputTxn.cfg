SPECIFICATION Spec
CONSTANTS
  Paths = {p, q, r}
  a = a
  b = b
  large = large
  Contents <- MCContents
  Bytes <- MCBytes
  MaxFiles = 2
  MaxBytes = 3
  AllowEmpty = FALSE
  Retain = FALSE
  None = None
  Bad = Bad
  NoPath = NoPath
INVARIANTS TypeOK PublishedIsWhole VerifiedIsWhole LimitsAreKept
SYMMETRY MCSymmetry
CHECK_DEADLOCK FALSE
