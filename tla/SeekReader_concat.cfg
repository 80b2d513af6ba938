SPECIFICATION SeekSpec
CONSTANTS
  MaxBlockUser = 2
  IgnoreCrc = FALSE
  IgnoreStreamId = FALSE
  MaxAsk = 3
  MaxLen = 1
  Back = 2
  Streams <- TwoStreams
  Seekable <- TwoStreams
  Flaky <- NoStreams
INVARIANTS ReadsInOrder
