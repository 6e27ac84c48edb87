SPECIFICATION Spec
CONSTANTS
  Agents = {1, 2}
  Workers = {w1, w2}
  Clients = {c1}
  Contexts = {x}
  QueueCapacity = 2
  FifoPolicy = TRUE
  NoWorker = NoWorker
  NoAgent = NoAgent
  NoJob = NoJob
  Jobs <- Rebound
SYMMETRY GoroutineSymmetry
INVARIANTS
  RequestedContextsWereLoaded
\* A client may Wait on a Scheduler that nobody starts.
CHECK_DEADLOCK FALSE
