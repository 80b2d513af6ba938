--------------------------- MODULE MCStreamIndex ---------------------------
(* Spacings for model checking StreamIndex.                                  *)
EXTENDS StreamIndex

\* The index of a Writer and that of index_stream.
BothStarts == WriterStarts \cup WalkStarts
=============================================================================
