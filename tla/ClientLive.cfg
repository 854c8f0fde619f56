CONSTANTS
  a = a b = b Me = Me Closer = Closer
  Requests = {a, b}
  SlowSubmits = {b}
  Refused = {b}
  Cancels = {}
  Kills = {}
  Watched = {}
  Undecodable = {a}
  Outcomes = {"SUCCEEDED"}
  ShutdownArgs = {FALSE}
  LinkMayFail = TRUE
  OutboundLimit = 1
  Slots = 2
  CallbackSlots = 1
SPECIFICATION FairSpec
INVARIANTS Honest
PROPERTIES EveryFutureEnds EveryOutcomeAcked ShutdownEnds
CHECK_DEADLOCK FALSE
