---------------------------- MODULE MCSeekReader ----------------------------
(* Inputs for model checking SeekReader.                                     *)
EXTENDS SeekReader, MCStreamReader

Blocks == {C("comp", 1, "no"), C("comp", 2, "no"), C("raw", 2, "no")}

\* Streams with an EOF chunk that is right, and the index behind it.
Indexed == {s \in {Started \o b \o <<C("eof", n, "no"), C("skip", 0, "no")>> :
                     b \in UNION {[1..k -> Blocks] : k \in 0..MaxLen},
                     n \in 0..(2 * MaxLen)} : SeqResult(s) = "none"}

\* A block that does not decode or has a wrong checksum among good ones.
Damaged == {Started \o <<x, b, y, C("eof", 5, "no")>> :
              x \in {C("comp", 1, "no")}, y \in {C("raw", 2, "no")},
              b \in {C("comp", 2, "crc"), C("raw", 2, "crc"), C("comp", 2, "body")}}

SeekStreams == Indexed \cup Damaged

\* Two streams in one input.
TwoStreams == {a \o b : a \in {s \in Indexed : Len(s) = 4}, b \in {s \in Indexed : Len(s) = 4}}

\* Those with what a plain Reader may be given, and the ones whose device may
\* fail.
ReaderStreams == AllStreams \cup SeekStreams
FlakyReaders == FlakyStreams \cup {s \in Indexed : Len(s) <= 4}
=============================================================================
