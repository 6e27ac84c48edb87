SPECIFICATION Spec
CONSTANTS
  a = a
  b = b
  k = k
  l = l
  Agents = {a, b}
  ChildrenOf <- MCChildrenOf
  Main = Main
  g = g
  GroupOf <- MCGroupOf
  Isolated = TRUE
INVARIANTS
  FailureKillsTree
\* Every Run returns, and then nothing is left to do.
CHECK_DEADLOCK FALSE
