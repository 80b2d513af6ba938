SPECIFICATION Spec
CONSTANTS
  Sizes <- SomeSizes
  Widths <- SomeWidths
  LitLens <- SomeLits
  Offsets = {1, 64}
  BigFrom = 200
INVARIANTS StaysInBuffer
