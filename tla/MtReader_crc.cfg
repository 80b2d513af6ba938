SPECIFICATION Spec
CONSTANTS
  N = 2
  MaxBlockUser = 2
  IgnoreCrc = FALSE
  IgnoreStreamId = FALSE
  MaxLen = 4
  Streams <- CrcStreams
  Faults = {}
  Flaky <- NoStreams
INVARIANTS CrcErrorSurfaces
