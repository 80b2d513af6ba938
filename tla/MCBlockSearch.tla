---------------------------- MODULE MCBlockSearch ----------------------------
(* Blocks, matches, damages and boundaries for model checking BlockSearch.    *)
EXTENDS BlockSearch

P(kind, k, o, len) == [kind |-> kind, k |-> k, off |-> o, len |-> len]

\* Both sides of every boundary, up to a block of 8 MiB.
BigLengths == {4, 5, 11, 12, 17, 18, 19, 20, 29, 30, 31, 63, 64, 65, 66, 273, 274, 275,
               284, 285, 286, 287, 303, 304, 319, 320, 321, 65553, 65564, 65565, 65566,
               65567, 65583, 65584, 65599, 65600, 65601, 8388608}
BigOffsets == {1, 2, 63, 64, 65, 1023, 1024, 1025, 65535, 65536, 65598, 65599, 65600,
               131071, 2097151, 2097152, 2162687}

BoundaryProbes ==
  {P("literal", 0, 1, n) : n \in {1, 2} \cup BigLengths}
  \cup {P("repeat", 0, 1, n) : n \in {1, 2} \cup BigLengths}
  \cup {P("copy", 0, o, n) : o \in BigOffsets, n \in BigLengths}
  \cup {P("copy2", 0, o, n) : o \in {x \in BigOffsets : x \in 64..65599}, n \in BigLengths}
  \cup {P("lits2", k, o, n) : k \in 1..4, o \in {x \in BigOffsets : x \in 64..65599},
                              n \in BigLengths}
  \cup {P("lits3", k, o, n) : k \in 1..3, o \in {x \in BigOffsets : x >= 65536},
                              n \in BigLengths}

\* A few bytes lost, a byte that is another tag, a wrong length.
SomeDamages ==
  {[kind |-> "cut", n |-> n, at |-> 0] : n \in {1, 2, 5}}
  \cup {[kind |-> "byte", n |-> n, at |-> i] : n \in {1, 3, 7, 232, 246},
                                               i \in {1, 4}}
  \cup {[kind |-> "len", n |-> n, at |-> 0] : n \in {-1, 1}}

\* Blocks of words that repeat in every order: runs, matches that overlap what
\* they copy, matches that begin or end inside a word.
Words == {<<1, 1, 1, 1>>, <<1, 2, 3, 4>>, <<5, 6, 7, 8>>}

\* The last two words are alike, so that one of them need not come first.
FiveWords == {a \o b \o c \o e \o f : a \in Words \ {<<5, 6, 7, 8>>}, b, c, e, f \in Words}

\* k bytes that differ.
Plain(k) == [i \in 1..k |-> 100 + i]
Run(k) == [i \in 1..k |-> 9]

Tail12 == [i \in 1..12 |-> 60 + i]

\* Five words in every order, and an end that is none.
WordBlocks == {x \o <<1, 2>> : x \in FiveWords}

\* k literals, a match of m of the first plain bytes, and the end: more of them,
\* others, or nothing.
FarBlocks == {Plain(66) \o Run(k) \o SubSeq(Plain(66), i, i + m - 1) \o e :
                k \in {0, 1, 3, 4, 5}, i \in {1, 40}, m \in {4, 5, 12},
                e \in {Tail12, SubSeq(Plain(66), 20, 36), Run(2)}}

\* Nothing to match before the end, where the output has no room left for a
\* repeat, for a match, or for more than a first one.
Unlike == [i \in 1..331 |-> IF i % 2 = 0 THEN 3 ELSE 10 + i \div 2]
LateBlocks == {[i \in 1..331 |-> IF i > 315 THEN 9 ELSE Unlike[i]],
               SubSeq(Unlike, 1, 315) \o <<2>> \o SubSeq(Unlike, 3, 17),
               SubSeq(Unlike, 1, 307) \o SubSeq(Unlike, 2, 5) \o <<1>>
                 \o SubSeq(Unlike, 101, 104) \o SubSeq(Unlike, 317, 331)}

SomeSources == WordBlocks \cup FarBlocks \cup LateBlocks
SomeSpans == 4..110 \cup 300..331
=============================================================================
