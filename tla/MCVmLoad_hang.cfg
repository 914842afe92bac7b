CONSTANTS
  DECOMPRESS_THREADS = 2
  Files <- MCFiles
  MaxBatches = 3
  JobCanFail = FALSE
  CallCanFail = FALSE
  AllocCanFail = FALSE
  OpAddCanFail = TRUE
SPECIFICATION Spec
PROPERTY LoadTerminates
CHECK_DEADLOCK FALSE
