SPECIFICATION Spec
CONSTANTS
  Publishers = {p1, p2}
  Closers = {c1, c2}
  Kinds = {k}
  BufferSize = 2
  MaxEvents = 2
  MaxSequence = 4
  NoEvent = NoEvent
SYMMETRY PublisherSymmetry
INVARIANTS
  TypeOK NoSendOnClosed EventsAreAccounted CloseDrains MemoryIsTailOfLog PublisherOrder
CHECK_DEADLOCK FALSE
