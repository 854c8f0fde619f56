CONSTANTS
  a = a b = b c = c s1 = s1 s2 = s2 alice = alice
  Items = {a, b, c}
  Principals = {alice}
  Sessions = {s1}
  PriorityOf <- Flat
  PrincipalOf <- Alice
  SessionOf <- OneClient
  OwnerOf <- AliceToo
  SequenceOf <- Numbers
  Denied = {}
  HasDeadline = {a}
  Group = {}
  Cancels = {a, c}
  Repeats = {b}
  Queries = {s1}
  HardAllowed = TRUE
  Policy = "cancel_queued"
  MaxConnections = 2
  MaxPerSession = 3
  MaxPerPrincipal = 3
  MaxGlobal = 3
  MaxStaged = 2
  OutboundLimit = 2
  PoolBacklog = 1
  PoolOutcomes = {"SUCCEEDED"}
  ShutdownArgs <- NoShutdown
  ColdStart = FALSE
  MaxSockets = 2
  MaxAll = 2
  LateMessages = TRUE
SPECIFICATION Spec
INVARIANTS TypeOK NothingLost StagedExactly
PROPERTY FirstOutcomeWins
PROPERTY KeepsPromise
CHECK_DEADLOCK FALSE
