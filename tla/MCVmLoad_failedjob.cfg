CONSTANTS
  DECOMPRESS_THREADS = 2
  Files <- MCFiles
  MaxBatches = 3
  JobCanFail = TRUE
  CallCanFail = FALSE
  AllocCanFail = FALSE
  OpAddCanFail = FALSE
SPECIFICATION Spec
INVARIANT FailedJobFailsLoad
