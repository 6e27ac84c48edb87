SPECIFICATION CapsSpec
CONSTANTS
  Agents = {1, 2, 3}
  Workers = {w1}
  Clients = {c1, c2}
  Contexts <- MCContexts
  Jobs <- MCJobs
  QueueCapacity = 2
  FifoPolicy = FALSE
  NoWorker = NoWorker
  NoAgent = NoAgent
  NoJob = NoJob
  Demand <- MCDemand
  Samples <- MCSamples
  Passing = {150}
SYMMETRY GoroutineSymmetry
PROPERTIES
  OvertakingIsBounded
\* A client may Wait on a Scheduler that nobody starts.
CHECK_DEADLOCK FALSE
