SPECIFICATION Spec
CONSTANTS
  Agents = {1, 2, 3}
  Workers = {w1, w2}
  Clients = {c1}
  Contexts = {}
  QueueCapacity = 2
  FifoPolicy = FALSE
  NoWorker = NoWorker
  NoAgent = NoAgent
  NoJob = NoJob
  Jobs <- AnyGraph
SYMMETRY GoroutineSymmetry
INVARIANTS
  TypeOK
  DependencyGate
  BlockedForAReason
  NoLostWakeup
  NoStall
PROPERTIES
  ImplementsDag
\* A client may Wait on a Scheduler that nobody starts.
CHECK_DEADLOCK FALSE
