\* Two slots and three tasks; the pool shrinks towards min_workers and grows again.
SPECIFICATION Spec
CONSTANTS
  a = a  b = b  c = c
  Tasks = {a, b, c}
  MaxWorkers = 6
  MaxDeaths = 0
  HasTimeout = {}
  Hangs = {}
  Raises = {}
  BadResult = {}
  PoolSize = 2
  MinWorkers = 1
  MaxBacklog = 0
  MaxTasksPerChild = 2
  CheckMemory = FALSE
  Retries = 2
  Priority <- FlatPriority
  Unpicklable = {}
  Unsendable = {}
  Hooked = {}
  Cancels = {}
  Kills = {}
  ShutdownModes <- NoShutdown
  OneCaller = TRUE
  MaxClears = 0
SYMMETRY TaskSymmetry
INVARIANTS Capacity Slots NeverStranded
