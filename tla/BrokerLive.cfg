CONSTANTS
  a = a b = b c = c s1 = s1 s2 = s2 alice = alice
  Items = {a, b}
  Principals = {alice}
  Sessions = {s1}
  PriorityOf <- Flat
  PrincipalOf <- Alice
  SessionOf <- Submitter
  OwnerOf <- AliceToo
  SequenceOf <- Numbers
  Denied = {}
  HasDeadline = {}
  Group = {}
  Cancels = {a}
  Repeats = {}
  Queries = {}
  HardAllowed = TRUE
  Policy = "continue"
  MaxConnections = 2
  MaxPerSession = 2
  MaxPerPrincipal = 2
  MaxGlobal = 2
  MaxStaged = 1
  OutboundLimit = 2
  PoolBacklog = 1
  PoolOutcomes = {"SUCCEEDED"}
  ShutdownArgs <- AnyShutdown
  ColdStart = TRUE
  MaxSockets = 2
  MaxAll = 2
  LateMessages = TRUE
SPECIFICATION FairSpec
INVARIANTS ShutdownDrains
PROPERTY EveryRequestEnds
 
PROPERTY StartReturns
PROPERTY StopReleases
CHECK_DEADLOCK FALSE
