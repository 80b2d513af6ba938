SPECIFICATION Spec
CONSTANTS
  MaxBlockUser = 2
  IgnoreCrc = FALSE
  IgnoreStreamId = FALSE
  MaxAsk = 3
  MaxLen = 1
  Streams <- GoodStreams
  Flaky <- NoStreams
INVARIANTS ConcurrentRefused
