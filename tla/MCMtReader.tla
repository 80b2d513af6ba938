----------------------------- MODULE MCMtReader -----------------------------
(* Streams for model checking MtReader.                                      *)
EXTENDS MtReader

CONSTANT MaxLen   \* chunks behind the stream identifier

C(t, n, bad) == [t |-> t, n |-> n, bad |-> bad]

\* The chunks that take the dispatcher, a worker and the writer through their
\* paths: a block that is right, too large or has a wrong checksum, inline or
\* dispatched, and what begins, ends and separates concatenated streams.
Core == {C("sid", 2, "no"), C("comp", 1, "no"), C("comp", 3, "no"),
         C("comp", 1, "crc"), C("raw", 1, "no"), C("raw", 1, "crc"),
         C("eof", 1, "no"), C("eof", 2, "no"), C("skip", 0, "no")}

\* Every other way a chunk can be wrong.
Broken == {C("sid", 3, "no"), C("sid", 2, "cut"), C("sid", 2, "magic"),
           C("comp", 1, "short"), C("comp", 1, "long"), C("comp", 1, "cut"),
           C("comp", 1, "dlen"), C("comp", 0, "no"), C("comp", 1, "body"),
           C("raw", 0, "no"), C("raw", 3, "no"), C("raw", 1, "short"),
           C("raw", 3, "long"), C("raw", 1, "cut"),
           C("eof", 1, "cut"), C("eof0", 0, "no"), C("reserved", 0, "no"),
           C("skip", 0, "cut"), C("user", 0, "no"), C("user", 0, "cb"),
           C("noskip", 0, "no"), C("stub", 0, "no")}

Started == <<C("sid", 2, "no")>>

\* Whole streams, and two of them one behind the other.
Whole == {Started \o <<C("eof", 0, "no")>>,
          Started \o <<C("comp", 1, "no"), C("eof", 1, "no")>>,
          Started \o <<C("raw", 2, "no"), C("eof0", 0, "no"), C("skip", 0, "no")>>,
          <<C("sid", 1, "no"), C("raw", 1, "no"), C("comp", 1, "no"), C("eof", 2, "no")>>}

Concatenated == {a \o b : a \in Whole, b \in Whole}

\* Every sequence of up to MaxLen core chunks, with and without an identifier in
\* front, two blocks around every other sort of chunk, and whole streams.
SmallStreams == UNION {[1..k -> Core] : k \in 0..MaxLen}
                \cup {Started \o s : s \in [1..MaxLen -> Core]}
                \cup {Started \o <<C("comp", 1, "no"), b>>
                        \o (IF Truncated(b) THEN <<>> ELSE <<x>>) :
                        b \in Broken, x \in {C("comp", 1, "no"), C("eof", 2, "no"),
                                             C("eof", 1, "no"), C("sid", 1, "no")}}
                \cup Concatenated

\* MaxLen blocks, the second of them b, and what ends them.
Busy(b, end) == Started \o [i \in 1..MaxLen |-> IF i = 2 THEN b ELSE C("comp", 1, "no")]
                        \o end

\* Streams that keep every part of the pipeline busy.
BusyStreams == {Busy(C("comp", 1, "no"), <<C("eof", MaxLen, "no")>>),
                Busy(C("comp", 1, "body"), <<>>),
                Busy(C("raw", 1, "no"), <<C("eof", MaxLen, "no")>>)}

\* Enough good blocks to fill every queue.
LongStreams == {Started \o [i \in 1..(MaxLen + 3) |-> C("comp", 1, "no")],
                Started \o [i \in 1..(MaxLen + 3) |-> C(IF i % 2 = 0 THEN "raw" ELSE "comp", 1, "no")]}

MixedStreams == SmallStreams \cup BusyStreams \cup LongStreams

\* One block with a wrong checksum among good ones.
CrcStreams == {Busy(C("comp", 1, "crc"), <<>>)}

NoStreams == {}
=============================================================================
