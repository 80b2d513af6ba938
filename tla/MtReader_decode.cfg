SPECIFICATION FairSpec
CONSTANTS
  N = 2
  MaxBlockUser = 2
  IgnoreCrc = FALSE
  IgnoreStreamId = FALSE
  MaxLen = 3
  Streams <- MixedStreams
  Faults = {"io", "workerPanic", "sinkPanic"}
  Flaky <- BusyStreams
INVARIANTS SinkPrefix MatchesSequential NoSpuriousError BuffersBounded
PROPERTIES KeepsOrderedSink DecodeReturns
