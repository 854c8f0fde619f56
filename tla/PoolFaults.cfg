\* Deaths, timeouts, kills and every way a submission, a result or a release can fail.
SPECIFICATION Spec
CONSTANTS
  a = a  b = b  c = c
  Tasks = {a, b}
  MaxWorkers = 5
  MaxDeaths = 1
  HasTimeout = {a}
  Hangs = {}
  Raises = {}
  BadResult = {b}
  PoolSize = 1
  MinWorkers = 1
  MaxBacklog = 0
  MaxTasksPerChild = 0
  CheckMemory = FALSE
  Retries = 1
  Priority <- FlatPriority
  Unpicklable = {b}
  Unsendable = {}
  Hooked = {}
  Cancels = {}
  Kills = {b}
  ShutdownModes <- NoShutdown
  OneCaller = TRUE
  MaxClears = 1
INVARIANTS TypeOK  
 
CHECK_DEADLOCK FALSE
