--------------------------- MODULE MCStreamReader ---------------------------
(* Inputs for model checking StreamReader.                                   *)
EXTENDS StreamReader

CONSTANT MaxLen   \* chunks behind the stream identifier

C(t, n, bad) == [t |-> t, n |-> n, bad |-> bad]
Started == <<C("sid", 2, "no")>>

\* Blocks that are right, of several sizes, and the chunks around them.
Good == {C("comp", 1, "no"), C("comp", 2, "no"), C("raw", 0, "no"), C("raw", 2, "no"),
         C("skip", 0, "no")}

Whole == {Started \o s \o <<C("eof", n, "no")>> :
            s \in UNION {[1..k -> Good] : k \in 0..MaxLen}, n \in 0..(2 * MaxLen)}

\* Streams that end as they must, alone, two in a row, or with something behind.
GoodStreams == {s \in Whole : SeqResult(s) = "none"}

Short == {s \in GoodStreams : Len(s) <= 3}

Concatenated == {a \o b : a \in GoodStreams, b \in Short}
                \cup {a \o <<C("stub", 0, "no")>> : a \in GoodStreams}

\* One chunk of every sort that is wrong.
Broken == {C("sid", 3, "no"), C("sid", 2, "cut"), C("sid", 2, "magic"), C("sid", 1, "no"),
           C("comp", 3, "no"), C("comp", 1, "short"), C("comp", 1, "long"),
           C("comp", 1, "cut"), C("comp", 1, "dlen"), C("comp", 0, "no"),
           C("comp", 2, "body"), C("comp", 2, "crc"),
           C("raw", 3, "no"), C("raw", 1, "short"), C("raw", 3, "long"),
           C("raw", 2, "cut"), C("raw", 2, "crc"),
           C("eof", 1, "cut"), C("eof", 1, "no"), C("eof0", 0, "no"),
           C("reserved", 0, "no"), C("skip", 0, "cut"), C("user", 0, "no"),
           C("user", 0, "cb"), C("noskip", 0, "no"), C("stub", 0, "no")}

\* What follows a chunk, nothing if the input ends inside it.
Then(b, s) == <<b>> \o (IF Truncated(b) THEN <<>> ELSE s)

BrokenStreams ==
  {Then(b, Started) : b \in Broken}
  \cup {Started \o <<x>> \o Then(b, <<y, C("eof", 3, "no")>>) :
          x \in {C("comp", 1, "no"), C("skip", 0, "no")}, b \in Broken,
          y \in {C("comp", 2, "no"), C("raw", 2, "no")}}

AllStreams == GoodStreams \cup Concatenated \cup BrokenStreams

\* Whole streams, the shorter ones twice, whose device may fail.
FlakyStreams == Short \cup {a \o b : a, b \in {s \in Short : Data(s) # <<>>}}

NoStreams == {}
=============================================================================
