SPECIFICATION SearchSpec
CONSTANTS
  MaxOps = 2
  LitLens = {0, 4, 20}
  Offsets = {1, 16, 64}
  Lengths = {4, 12, 66}
  Damages <- SomeDamages
  Probes <- BoundaryProbes
  Sources <- SomeSources
  Spans <- SomeSpans
  BigFrom = 90
  FarOffset = 30
INVARIANTS BlockRoundTrip LoopsAgree LayoutExact Within
PROPERTIES KeepsBudget
