SPECIFICATION Spec
CONSTANTS
  Clients = {a, u}
  Agents = {a}
  x = x
  Digests = {x}
  Names = {n}
  Wanted <- MCWanted
  Retention = "retain-on-failure"
  Free = Free
  NoDigest = NoDigest
  NoName = NoName
INVARIANTS
  TypeOK
  BoundIsStored
  WorkspaceIsWhole
  RemainderIsReported
PROPERTIES
  OnlyGarbageIsRemoved
