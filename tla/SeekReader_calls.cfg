SPECIFICATION SeekSpec
CONSTANTS
  MaxBlockUser = 2
  IgnoreCrc = FALSE
  IgnoreStreamId = FALSE
  MaxAsk = 3
  MaxLen = 2
  Back = 2
  Streams <- ReaderStreams
  Seekable <- SeekStreams
  Flaky <- FlakyReaders
INVARIANTS ReadsInOrder EndIsEnd SkipExact PositionTracks NoSpuriousError NoDataAfterError SeekLands SeekSucceeds
