-------------------------------- MODULE MCMz --------------------------------
(* Small instance: three files of one stem, standard input, and what may be  *)
(* in them.                                                                  *)
EXTENDS Mz

Plain == Path("a", <<>>)
Stream == Path("a", <<"mz">>)
BlockFile == Path("a", <<"mzb">>)
Other == Path("o", <<>>)

Lines == <<Unit(1), Unit(0), Unit(2)>>
Encoded(us, tail) == <<Id>> \o [i \in 1..Len(us) |-> Data(us[i])] \o tail

WithIndex(us) == Encoded(us, <<Eof(Len(us)), Idx(Len(us))>>)

\* One stream as mz writes it, another, and two of them; cut off; cut off before another;
\* damaged; with the wrong total and no index; with data behind the EOF chunk.
SomeStreams ==
  {WithIndex(Lines), WithIndex(<<Unit(1)>>), WithIndex(<<Unit(1)>>) \o WithIndex(<<Unit(0), Unit(2)>>),
   Encoded(<<Unit(1)>>, <<>>), Encoded(<<Unit(1)>>, Encoded(<<Unit(2)>>, <<Eof(1)>>)),
   [WithIndex(Lines) EXCEPT ![3] = Bad], Encoded(<<Unit(1)>>, <<Eof(2)>>),
   Encoded(<<Unit(1)>>, <<Eof(1), Data(Unit(2)), Eof(2)>>)}

Files(plain, stream, block) ==
  Plain :> plain @@ Stream :> stream @@ BlockFile :> block @@ Stdin :> stream @@ Stdout :> <<>>

\* The last two: an input too long for a block, an empty one, a damaged block;
\* and nothing but standard input.
SomeWorlds ==
  {Files(Lines, c, <<Block(Lines)>>) : c \in SomeStreams}
  \cup {Files(Append(Lines, Unit(3)), <<>>, <<Bad>>), Stdin :> Lines @@ Stdout :> <<>>}

\* What the followed files that are a beginning of it become.
SomeGrown == WithIndex(<<Unit(1)>>) \o WithIndex(<<Unit(0), Unit(2)>>)

SomeArgs ==
  {Word(p) : p \in {Std, Plain, Stream, BlockFile}}
  \cup {Word(Path(w, <<>>)) : w \in CommandWords}
  \cup {Flag(f) : f \in Switches \cup HelpFlags \cup {"output", "tail"}}
  \cup {Num(2, FALSE), Set("output", Word(Other)), Set("offset", Num(1, FALSE)),
        Set("offset", Num(4, FALSE)), Set("offset", Num(2, TRUE)), Set("tail", Num(3, TRUE)),
        Set("block-size", Num(0, FALSE)), Set("level", Num(1, FALSE)), Set("bench", Num(1, FALSE)),
        Set("none", Num(1, FALSE))}
=============================================================================
