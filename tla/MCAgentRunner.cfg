SPECIFICATION FairSpec
CONSTANTS
  a = a
  b = b
  k = k
  l = l
  Agents = {a, b}
  ChildrenOf <- MCChildrenOf
  Main = Main
  g = g
  GroupOf <- MCGroupOf
  Isolated = TRUE
INVARIANTS
  TypeOK
  GroupIsPrivate
  TreeIsKilled
  SurvivorsAreConfined
  CompletedIsSilent
PROPERTIES
  TimedOutRunReturns
\* Every Run returns, and then nothing is left to do.
CHECK_DEADLOCK FALSE
