\* Every accepted task ends and shutdown returns, although a worker dies and a task hangs until its timeout.
SPECIFICATION FairSpec
CONSTANTS
  a = a  b = b  c = c
  Tasks = {a, b}
  MaxWorkers = 5
  MaxDeaths = 1
  HasTimeout = {a}
  Hangs = {a}
  Raises = {}
  BadResult = {}
  PoolSize = 1
  MinWorkers = 1
  MaxBacklog = 0
  MaxTasksPerChild = 0
  CheckMemory = TRUE
  Retries = 2
  Priority <- FlatPriority
  Unpicklable = {}
  Unsendable = {}
  Hooked = {}
  Cancels = {}
  Kills = {}
  ShutdownModes <- AllModes
  OneCaller = TRUE
  MaxClears = 0
PROPERTIES EveryTaskEnds ShutdownEnds
