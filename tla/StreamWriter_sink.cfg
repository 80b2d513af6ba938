SPECIFICATION Spec
CONSTANTS
  BlockSize = 3
  MaxBlockSize = 16
  Paddings = {0, 2, 7, 16}
  Options <- AllOptions
  IndexSizes = {5}
  MaxBytes = 4
  MaxChunks = 1
  Faults = {"io"}
INVARIANTS RoundTrip TruncationDetected PaddingAligned IndexExact
