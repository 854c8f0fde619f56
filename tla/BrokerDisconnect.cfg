CONSTANTS
  a = a b = b c = c s1 = s1 s2 = s2 alice = alice
  Items = {a, b, c}
  Principals = {alice}
  Sessions = {s1, s2}
  PriorityOf <- Flat
  PrincipalOf <- Alice
  SessionOf <- Submitter
  OwnerOf <- AliceToo
  SequenceOf <- Numbers
  Denied = {}
  HasDeadline = {a}
  Group = {a, b}
  Cancels = {}
  Repeats = {}
  Queries = {}
  HardAllowed = TRUE
  Policy = "terminate"
  MaxConnections = 2
  MaxPerSession = 2
  MaxPerPrincipal = 3
  MaxGlobal = 2
  MaxStaged = 1
  OutboundLimit = 2
  PoolBacklog = 1
  PoolOutcomes = {"SUCCEEDED"}
  ShutdownArgs <- NoShutdown
  ColdStart = FALSE
  MaxSockets = 2
  MaxAll = 2
  LateMessages = FALSE
SPECIFICATION Spec
INVARIANTS  WithinLimits
CHECK_DEADLOCK FALSE
