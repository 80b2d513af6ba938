SPECIFICATION FairSpec
CONSTANTS
  N = 2
  BlockSize = 2
  MaxBytes = 3
  MaxChunks = 0
  GenIndex = TRUE
  AppendIndex = FALSE
  Padding = FALSE
  Faults = {"io", "encode", "workerPanic", "sinkPanic"}
INVARIANTS NoSilentLoss WireContiguous EofComplete
PROPERTIES KeepsOrderedSink CallsReturn
