CONSTANTS
  DECOMPRESS_THREADS = 2
  Files <- MCFiles
  MaxBatches = 3
  JobCanFail = TRUE
  CallCanFail = TRUE
  AllocCanFail = FALSE
  OpAddCanFail = FALSE
SPECIFICATION Spec
INVARIANT TypeOK
INVARIANT JobsAccounted
INVARIANT PoolTornDownIdle
INVARIANT ContextAfterMemory
PROPERTY LoadTerminates
PROPERTY PoolRefinement
