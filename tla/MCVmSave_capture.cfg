CONSTANTS
  MAX_BATCH_SIZE = 2
  PCI_HOLE_START_PFN = 2
  PCI_HOLE_END_PFN = 3
  P2M = 3
  MEM_FRAMES = 2
  Data = {"a"}
  Compressible = {"z0", "a"}
  ZeroPage = "z0"
  ZeroBitmapCanBeRaw = TRUE
  CompressSettings <- AllSettings
  CaptureCanBeShort = TRUE
  AbortCanHappen = FALSE
SPECIFICATION Spec
INVARIANT SaveRestoresGuest
