SPECIFICATION WatchSpec
CONSTANTS
  Publishers = {p1}
  Closers = {c1, c2}
  Kinds = {wanted, other}
  Wanted = {wanted}
  PageLimit = 1
  BufferSize = 1
  MaxEvents = 2
  MaxSequence = 3
  NoEvent = NoEvent
INVARIANTS WatchIsComplete
PROPERTIES WatchCatchesUp CloseEnds
CHECK_DEADLOCK FALSE
