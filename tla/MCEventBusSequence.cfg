SPECIFICATION Spec
CONSTANTS
  Publishers = {p1}
  Closers = {c1}
  Kinds = {k}
  BufferSize = 1
  MaxEvents = 2
  MaxSequence = 3
  NoEvent = NoEvent
INVARIANTS SequenceIsContiguous
CHECK_DEADLOCK FALSE
