CONSTANTS
  DECOMPRESS_THREADS = 2
  Files <- MCFiles
  MaxBatches = 3
  JobCanFail = FALSE
  CallCanFail = FALSE
  AllocCanFail = TRUE
  OpAddCanFail = FALSE
SPECIFICATION Spec
INVARIANT ErrorsReturned
CHECK_DEADLOCK FALSE
