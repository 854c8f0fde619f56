\* A job that cannot be sent for another reason than a pickling error.
SPECIFICATION FairSpec
CONSTANTS
  a = a  b = b  c = c
  Tasks = {a, b}
  MaxWorkers = 4
  MaxDeaths = 0
  HasTimeout = {}
  Hangs = {}
  Raises = {}
  BadResult = {}
  PoolSize = 1
  MinWorkers = 1
  MaxBacklog = 0
  MaxTasksPerChild = 0
  CheckMemory = FALSE
  Retries = 2
  Priority <- FlatPriority
  Unpicklable = {}
  Unsendable = {a}
  Hooked = {}
  Cancels = {}
  Kills = {}
  ShutdownModes <- NoShutdown
  OneCaller = TRUE
  MaxClears = 0
PROPERTIES EveryTaskEnds
CHECK_DEADLOCK FALSE
