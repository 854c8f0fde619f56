CONSTANTS
  a = a b = b Me = Me Closer = Closer
  Requests = {a}
  SlowSubmits = {a}
  Refused = {a}
  Cancels = {a}
  Kills = {a}
  Watched = {a}
  Undecodable = {}
  Outcomes = {"SUCCEEDED", "TASK_FAILED", "EXECUTION_TIMED_OUT", "QUEUE_TIMED_OUT", "WORKER_LOST"}
  ShutdownArgs = {TRUE, FALSE}
  LinkMayFail = TRUE
  OutboundLimit = 2
  Slots = 2
  CallbackSlots = 1
SPECIFICATION Spec
INVARIANTS TypeOK CallbackOnce
PROPERTIES NeverBackwards
CHECK_DEADLOCK FALSE
