\* Every mode of shutdown against callers that still submit and cancel.
SPECIFICATION Spec
CONSTANTS
  a = a  b = b  c = c
  Tasks = {a, b}
  MaxWorkers = 4
  MaxDeaths = 0
  HasTimeout = {}
  Hangs = {}
  Raises = {b}
  BadResult = {}
  PoolSize = 2
  MinWorkers = 0
  MaxBacklog = 1
  MaxTasksPerChild = 0
  CheckMemory = FALSE
  Retries = 2
  Priority <- UrgentB
  Unpicklable = {}
  Unsendable = {a}
  Hooked = {b}
  Cancels = {b}
  Kills = {}
  ShutdownModes <- AllModes
  OneCaller = FALSE
  MaxClears = 0
INVARIANTS TaskDoneOnce ReleaseFindsWorker ShutdownWaits ShutdownLeavesNoWorker
PROPERTIES KeepsPromise
CHECK_DEADLOCK FALSE
