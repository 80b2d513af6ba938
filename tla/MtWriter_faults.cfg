SPECIFICATION Spec
CONSTANTS
  N = 2
  BlockSize = 1
  MaxBytes = 5
  MaxChunks = 1
  GenIndex = TRUE
  AppendIndex = TRUE
  Padding = TRUE
  Faults = {"io", "encode"}
INVARIANTS TypeOK WirePrefix ErrorsExplained IndexExact BuffersBounded
