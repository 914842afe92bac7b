CONSTANTS
  MAX_BATCH_SIZE = 2
  PCI_HOLE_START_PFN = 2
  PCI_HOLE_END_PFN = 3
  P2M = 5
  MEM_FRAMES = 4
  Data = {"a", "b"}
  Compressible = {"z0", "a"}
  ZeroPage = "z0"
  ZeroBitmapCanBeRaw = FALSE
  CompressSettings <- AllSettings
  CaptureCanBeShort = FALSE
  AbortCanHappen = FALSE
SPECIFICATION Spec
INVARIANT ReportedSaveComplete
