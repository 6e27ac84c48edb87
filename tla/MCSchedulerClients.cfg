SPECIFICATION FairSpec
CONSTANTS
  Agents = {1, 2, 3}
  Workers = {w1, w2}
  Clients = {c1, c2}
  Contexts = {1, 2, 3}
  QueueCapacity = 2
  FifoPolicy = TRUE
  NoWorker = NoWorker
  NoAgent = NoAgent
  NoJob = NoJob
  Jobs <- Joined
INVARIANTS
  QueueMatchesRecords
  OneWorkerPerAgent
  PendingCountsUnfinished
  FifoIsFair
  WarmContextsWereLoaded
PROPERTIES
  AcceptedAgentsEnd
  FailurePropagates
  WaitReturns
  StopJoins
\* A client may Wait on a Scheduler that nobody starts.
CHECK_DEADLOCK FALSE
