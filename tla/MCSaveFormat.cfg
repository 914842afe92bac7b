CONSTANTS
  MAX_BATCH_SIZE = 1023
  PCI_HOLE_START_PFN = 3
  PCI_HOLE_END_PFN = 6
  MaxMemFrames = 9
  MaxPfn = 16
  MaxP2m = 16
  ReplayBatchSizes = {1, 2, 3}
  PfnValues = {2, 3}
  GetCanFail = {}
  SetCanFail = {}
INIT Init
NEXT Next
INVARIANT MarkerRoundTrip
INVARIANT MarkerMatchesReference
INVARIANT IndexSlotsInBounds
INVARIANT ZeroBitmapReplayExact
INVARIANT MetaRoundTrip
