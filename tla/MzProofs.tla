------------------------------ MODULE MzProofs ------------------------------
(* Theorems about Mz: what becomes of the files a command is given, for any  *)
(* command line, any files and any failures.                                 *)
EXTENDS Mz, Induction, FiniteSetTheorems, SequenceTheorems, TLAPS

----------------------------------------------------------------------------
(* The inductive invariant *)

\* The first step left.
Hd == IF steps = <<>> THEN "end" ELSE Head(steps)

\* The step behind the i-th.
After(s, i) == IF i < Len(s) THEN s[i + 1] ELSE "end"

\* Ways through a command.
Kind ==
  IF input = NoPath THEN "refuse"
  ELSE IF opts.bench /\ sub # "verify" THEN "bench"
  ELSE IF sub = "c" THEN IF opts.block THEN "cblock" ELSE "cstream"
  ELSE IF sub # "d" THEN IF IsBlock(opts, input) THEN "vblock" ELSE "vstream"
  ELSE IF IsBlock(opts, input) THEN "dblock"
  ELSE IF opts.follow THEN "follow"
  ELSE IF opts.offset = <<>> /\ opts.tail = <<>> THEN "dstream"
  ELSE IF input = Std THEN "refuse" ELSE "seek"

\* The step y may be next to x, on way k with options o.
Leads(k, o, x, y) ==
  CASE k = "refuse" -> x = "refuse" /\ y = "end"
    [] k = "bench" -> <<x, y>> \in {<<"open", "load">>, <<"load", "measure">>, <<"measure", "end">>}
    [] k = "cblock" ->
         <<x, y>> \in {<<"open", "load">>, <<"load", "fits">>, <<"fits", "create">>,
                       <<"create", "encode">>, <<"encode", "flush">>, <<"flush", "check">>,
                       <<"flush", "remove">>, <<"flush", "end">>, <<"check", "remove">>,
                       <<"check", "end">>, <<"remove", "end">>}
    [] k = "cstream" ->
         <<x, y>> \in {<<"open", "create">>, <<"create", "build">>, <<"build", "compress">>,
                       <<"compress", "finish">>, <<"finish", "flush">>, <<"flush", "remove">>,
                       <<"flush", "end">>, <<"remove", "end">>}
    [] k = "dblock" ->
         \/ <<x, y>> \in {<<"open", "load">>, <<"load", "decode">>, <<"decode", "create">>,
                          <<"create", "deliver">>, <<"deliver", "flush">>, <<"flush", "remove">>,
                          <<"flush", "end">>, <<"remove", "end">>}
         \/ o.verify /\ x = "decode" /\ y = "end"
    [] k = "vblock" -> <<x, y>> \in {<<"open", "load">>, <<"load", "decode">>, <<"decode", "end">>}
    [] k = "vstream" -> <<x, y>> \in {<<"open", "copy">>, <<"copy", "end">>}
    [] k = "dstream" ->
         IF o.verify THEN <<x, y>> \in {<<"open", "copy">>, <<"copy", "end">>}
         ELSE <<x, y>> \in {<<"open", "create">>, <<"create", "copy">>, <<"copy", "flush">>,
                            <<"flush", "remove">>, <<"flush", "end">>, <<"remove", "end">>}
    [] k = "follow" ->
         \/ <<x, y>> \in {<<"open", "create">>, <<"copy", "flush">>, <<"flush", "end">>}
         \/ o.offset = <<>> /\ x = "create" /\ y = "copy"
         \/ o.offset # <<>> /\ <<x, y>> \in {<<"create", "index">>, <<"index", "seek">>}
         \/ o.offset # <<>> /\ ~o.nl /\ x = "seek" /\ y = "copy"
         \/ o.offset # <<>> /\ o.nl /\ <<x, y>> \in {<<"seek", "newline">>, <<"newline", "copy">>}
    [] OTHER ->
         \/ <<x, y>> \in {<<"open", "index">>, <<"index", "seek">>}
         \/ o.nl /\ x = "seek" /\ y = "newline"
         \/ /\ x = IF o.nl THEN "newline" ELSE "seek"
            /\ y = IF o.verify THEN "copy" ELSE "create"
         \/ o.verify /\ x = "copy" /\ y = "end"
         \/ ~o.verify /\ <<x, y>> \in {<<"create", "copy">>, <<"copy", "flush">>, <<"flush", "end">>}

\* The input is to be removed.
Removes == opts.rm /\ input # Std

\* The command is running, or has ended as it should.
Live == pc = "run" \/ (Succeeded /\ input # NoPath)

StepsInv ==
  Live =>
    /\ IsSeq(steps)
    /\ \A i \in 1..Len(steps) : Leads(Kind, opts, steps[i], After(steps, i))
    /\ \A i \in 1..Len(steps) : steps[i] = "remove" => Removes

\* The files.  The input was there when it was opened, and goes only when the
\* output has everything.
FilesInv ==
  /\ Began => found \in Worlds
  /\ Began /\ input # NoPath => Target # input
  /\ IsSeq(buf) /\ (~made => buf = <<>>)
  /\ Began =>
       /\ DOMAIN fs \subseteq DOMAIN found \cup (IF made THEN {Target} ELSE {})
       /\ \A p \in DOMAIN found \ {input, Target} : p \in DOMAIN fs /\ fs[p] = found[p]
       /\ ~made => \A p \in DOMAIN found \ {input} : p \in DOMAIN fs /\ fs[p] = found[p]
       /\ made => Target \in DOMAIN fs /\ IsSeq(fs[Target])
       /\ input \in DOMAIN found =>
            \/ /\ input \in DOMAIN fs /\ IsFile(fs[input]) /\ IsPrefix(found[input], fs[input])
               /\ ~Following => fs[input] = found[input]
            \/ opts.rm /\ OutputHasAll /\ made /\ steps = <<>> /\ buf = <<>> /\ input \notin DOMAIN fs
       /\ Live /\ Hd \notin {"open", "refuse"} => input \in DOMAIN found

\* The output, with what the BufWriter has of it.
Out == fs[Target] \o buf

\* The stream o has n chunks, of the data c.
IsPart(o, c, n) ==
  /\ n = 0 => o = <<>>
  /\ n > 0 => Len(o) = n + 1 /\ o[1] = Id /\ \A i \in 1..n : o[i + 1] = Data(c[i])

\* The stream o is all of c.
IsAll(o, c) ==
  /\ Len(o) >= Len(c) + 2 /\ o[1] = Id /\ o[Len(c) + 2] = Eof(Len(c))
  /\ \A i \in 1..Len(c) : o[i + 1] = Data(c[i])
  /\ \A i \in (Len(c) + 3)..Len(o) : o[i].t = "idx"

\* A stream compressed.
CStreamInv ==
  \/ Hd \in {"open", "create"} /\ ~made /\ pos = 0
  \/ Hd = "build" /\ made /\ pos = 0 /\ Out = <<>>
  \/ Hd = "compress" /\ made /\ pos \in 0..Len(found[input]) /\ IsPart(Out, found[input], pos)
  \/ Hd = "finish" /\ made /\ pos = Len(found[input]) /\ IsPart(Out, found[input], pos)
  \/ Hd = "flush" /\ made /\ IsAll(Out, found[input])
  \/ Hd \in {"remove", "end"} /\ made /\ buf = <<>> /\ IsAll(fs[Target], found[input])

\* A block compressed.
CBlockInv ==
  \/ Hd \in {"open", "load"} /\ ~made
  \/ Hd \in {"fits", "create"} /\ ~made /\ held = found[input]
  \/ Hd = "encode" /\ made /\ held = found[input] /\ Out = <<>>
  \/ Hd = "flush" /\ made /\ Out = <<Block(found[input])>>
  \/ Hd \in {"check", "remove", "end"} /\ made /\ buf = <<>> /\ fs[Target] = <<Block(found[input])>>

\* A block decompressed.
DBlockInv ==
  \/ Hd \in {"open", "load"} /\ ~made
  \/ Hd = "decode" /\ ~made /\ held = found[input]
  \/ /\ Hd \in {"create", "deliver", "flush", "remove", "end"}
     /\ Decodable(found[input]) /\ held = found[input][1].us
     /\ CASE Hd = "create" -> ~made
          [] Hd = "deliver" -> made /\ Out = <<>>
          [] Hd = "flush" -> made /\ Out = held
          [] OTHER -> \/ made /\ buf = <<>> /\ fs[Target] = held
                      \/ Hd = "end" /\ ~made /\ (opts.verify \/ sub # "d")

\* The n-th of the units us and those before it, back to the m-th, can be read.
Reads(us, m, n) == n \in 0..Len(us) /\ \A i \in (m + 1)..n : us[i] # Bad

\* The output o is the units behind the m-th, up to the n-th.
Shows(o, us, m, n) ==
  /\ m \in 0..n /\ Reads(us, m, n)
  /\ IsSeq(o) /\ Len(o) = n - m /\ \A i \in 1..(n - m) : o[i] = us[m + i]

\* How many units of the file c have been read.
Got(c) == Len(UnitsTo(c)[pos])

\* A reader that has read p tokens of c, all sound, is inside a stream or not, and has n
\* of its units.
Tracks(c, p, in, n) ==
  /\ p \in 0..Len(c) /\ (in <=> Inside(c, p + 1)) /\ n = Before(c, p + 1)
  /\ \A k \in 1..p : Sound(c, k)

\* A stream decompressed from its beginning, or verified.
DStreamInv ==
  LET c == found[input] IN
  /\ Hd \in {"open", "create", "copy", "flush", "remove", "end"}
  /\ Hd \in {"open", "create"} => ~made /\ pos = 0 /\ left = -1 /\ ~open /\ count = 0
  /\ Hd \notin {"open", "create"} => (made <=> sub = "d" /\ ~opts.verify)
  /\ Hd = "copy" => left = -1 /\ Tracks(c, pos, open, count) /\ (made => Shows(Out, Units(c), 0, Got(c)))
  /\ Hd \in {"flush", "remove", "end"} =>
       /\ Whole(c)
       /\ made /\ Hd = "flush" => Out = Units(c)
       /\ made /\ Hd # "flush" => buf = <<>> /\ fs[Target] = Units(c)

\* Where the range of us asked for starts.
From(o, us) ==
  IF o.offset # <<>> THEN o.offset[1]
  ELSE IF o.tail # <<>> THEN Len(us) - Min({o.tail[1], Len(us)}) ELSE 0

\* Where it ends.
To(o, us) ==
  IF o.offset # <<>> /\ o.tail # <<>> THEN Min({o.offset[1] + o.tail[1], Len(us)})
  ELSE Len(us)

\* No line ends behind the m-th unit, up to the n-th.
NoLine(us, m, n) == \A i \in (m + 1)..n : us[i] # Unit(0)

\* The first unit of the output is behind the m-th.
Begins(o, us, m) ==
  IF ~o.nl THEN m = From(o, us)
  ELSE \/ m > From(o, us) /\ m <= Len(us) /\ us[m] = Unit(0) /\ NoLine(us, From(o, us), m - 1)
       \/ ~o.follow /\ m = Len(us) /\ NoLine(us, From(o, us), m)

\* The search for a line's end has come to the n-th unit.
Searches(o, us, n) == n \in From(o, us)..Len(us) /\ NoLine(us, From(o, us), n)

\* A file followed.
FollowInv ==
  LET c == fs[input] IN
  /\ left = -1 /\ Hd \in {"open", "create", "index", "seek", "newline", "copy"}
  /\ (made <=> Hd \notin {"open", "create"})
  /\ Hd \in {"open", "create"} => pos = 0
  /\ made /\ Hd # "copy" => Out = <<>>
  /\ Hd \in {"seek", "newline", "copy"} /\ opts.offset # <<>> => IsFile(held) /\ IsPrefix(held, c)
  /\ Hd \in {"newline", "copy"} => pos \in 0..Len(c)
  /\ Hd = "newline" /\ Indexed(held) => Searches(opts, Units(c), Got(c))
  /\ Hd = "copy" /\ (opts.offset # <<>> => Indexed(held)) =>
       \E m \in 0..Got(c) : Begins(opts, Units(c), m) /\ Shows(Out, Units(c), m, Got(c))

\* A range read of a file that is one stream with its index.
RangeInv ==
  LET c == found[input]
      us == Units(c)
  IN
  /\ Hd \in {"newline", "create", "copy"} =>
       /\ left \in Nat /\ pos \in 0..Len(c)
       /\ ~Unclear => left >= To(opts, us) - Got(c)
       /\ ~Unclear /\ ~opts.nl => left = To(opts, us) - Got(c)
  /\ Hd = "newline" => Searches(opts, us, Got(c))
  /\ Hd = "create" => Begins(opts, us, Got(c))
  /\ Hd = "copy" =>
       \E m \in 0..Got(c) :
         Begins(opts, us, m) /\ Reads(us, m, Got(c)) /\ (made => Shows(Out, us, m, Got(c)))
  /\ Hd \in {"flush", "end"} =>
       \E m \in 0..Got(c) :
         /\ Begins(opts, us, m) /\ Reads(us, m, Got(c)) /\ (~Unclear => Got(c) = To(opts, us))
         /\ made /\ Hd = "flush" => Shows(Out, us, m, Got(c))
         /\ made /\ Hd = "end" => buf = <<>> /\ Shows(fs[Target], us, m, Got(c))

\* A range read of a file.
SeekInv ==
  /\ Hd \in {"open", "index", "seek", "newline", "create", "copy", "flush", "end"}
  /\ made <=> ~opts.verify /\ Hd \in {"copy", "flush", "end"}
  /\ Hd \notin {"open", "index"} => held = found[input]
  /\ Indexed(found[input]) => RangeInv

\* What a command has done so far.
WorkInv ==
  Live =>
    /\ Kind = "bench" => ~made
    /\ Kind = "refuse" => ~made /\ Hd = "refuse"
    /\ Kind = "cstream" => CStreamInv
    /\ Kind = "cblock" => CBlockInv
    /\ Kind \in {"dblock", "vblock"} => DBlockInv
    /\ Kind \in {"dstream", "vstream"} => DStreamInv
    /\ Kind = "follow" => FollowInv
    /\ Kind = "seek" => SeekInv

\* What a decompression has written is a beginning of what it should.
PrefixInv ==
  Began /\ input \in DOMAIN found /\ ~opts.bench /\ made /\ sub = "d"
  /\ ~Decodable(found[input]) /\ input \in DOMAIN fs /\ (Ranged => Rangeable /\ ~Unclear) =>
    IsPrefix(fs[Target], Wanted(Units(IF Following THEN Src ELSE found[input])))

\* The arguments.
Numbers == {s \in Seq(Nat) : Len(s) <= 1}
Values == Args \cup {a.val : a \in {b \in Args : b.kind = "set"}}
Names == {NoPath} \cup {PathOf(a) : a \in Values}

Options ==
  [block : BOOLEAN, stdout : BOOLEAN, rm : BOOLEAN, verify : BOOLEAN, index : BOOLEAN,
   follow : BOOLEAN, raw : BOOLEAN, help : {"no", "also", "only"}, level : BOOLEAN, badSize : BOOLEAN,
   output : Names, bench : BOOLEAN, offset : Numbers, tail : Numbers, nl : BOOLEAN]

ArgInv ==
  /\ opts \in Options
  /\ opts.nl => opts.offset # <<>> \/ opts.tail # <<>>
  /\ pc \in {"parse", "run", "exit", "dead"}
  /\ sub \in {"", "c", "d", "verify", "bench"}
  /\ pc = "parse" => /\ fs = << >> /\ found = << >> /\ steps = <<>> /\ ~made
                     /\ buf = <<>> /\ held = <<>> /\ pos = 0 /\ left = -1
                     /\ ~open /\ count = 0
  /\ pc = "run" => found # << >>
  /\ pc # "run" => steps = <<>>
  /\ pc # "parse" /\ Began =>
       /\ sub = "bench" => opts.bench
       /\ sub = "d" /\ opts.follow => opts.tail = <<>> /\ ~opts.bench
       /\ sub = "verify" => ~opts.follow /\ ~opts.rm /\ opts.offset = <<>> /\ opts.tail = <<>>
       /\ sub = "" => input = NoPath

MzInv == ArgInv /\ StepsInv /\ FilesInv /\ WorkInv /\ PrefixInv

----------------------------------------------------------------------------
(* Sequences of any elements *)

\* A sequence over some set is a sequence.
LEMMA InSeq == ASSUME NEW S, NEW s \in Seq(S) PROVE IsSeq(s)
PROOF
<1>1. s \in [1..Len(s) -> S] /\ Len(s) \in Nat
  OBVIOUS
<1>2. Range(s) = {s[i] : i \in 1..Len(s)}
  BY <1>1 DEF Range
<1>3. s \in [1..Len(s) -> Range(s)]
  BY <1>1, <1>2
<1> QED
  BY <1>1, <1>3 DEF IsSeq

\* What the length and the elements of a sequence are.
LEMMA SeqIs ==
  ASSUME NEW s, IsSeq(s)
  PROVE  Len(s) \in Nat /\ DOMAIN s = 1..Len(s) /\ s = [i \in 1..Len(s) |-> s[i]]
PROOF BY DEF IsSeq

\* A function on 1..n is a sequence of n elements.
LEMMA FnSeq ==
  ASSUME NEW n \in Nat, NEW f, f = [i \in 1..n |-> f[i]]
  PROVE  IsSeq(f) /\ Len(f) = n
PROOF
<1>1. Range(f) = {f[i] : i \in 1..n} /\ DOMAIN f = 1..n
  BY Zenon DEF Range
<1>2. f \in [1..n -> Range(f)]
  BY <1>1
<1>3. f \in Seq(Range(f))
  BY <1>2
<1> QED
  BY <1>3, <1>1 DEF IsSeq

\* Two sequences with the same elements are the same.
LEMMA SameSeq ==
  ASSUME NEW s, NEW t, IsSeq(s), IsSeq(t), Len(s) = Len(t), \A i \in 1..Len(s) : s[i] = t[i]
  PROVE  s = t
PROOF
<1>1. s = [i \in 1..Len(s) |-> s[i]] /\ t = [i \in 1..Len(t) |-> t[i]]
  BY SeqIs, Zenon
<1> QED
  BY <1>1

\* One sequence behind another.
LEMMA JoinSeq ==
  ASSUME NEW s, NEW t, IsSeq(s), IsSeq(t)
  PROVE  /\ IsSeq(s \o t) /\ Len(s \o t) = Len(s) + Len(t)
         /\ \A i \in 1..Len(s) : (s \o t)[i] = s[i]
         /\ \A i \in 1..Len(t) : (s \o t)[Len(s) + i] = t[i]
PROOF
<1> DEFINE S == Range(s) \cup Range(t)
<1>1. s \in Seq(S) /\ t \in Seq(S)
  BY DEF IsSeq
<1> HIDE DEF S
<1>2. s \o t \in Seq(S)
  BY <1>1
<1>3. IsSeq(s \o t)
  BY <1>2, InSeq, Zenon
<1> QED
  BY <1>1, <1>3

\* Some of a sequence.
LEMMA CutSeq ==
  ASSUME NEW s, IsSeq(s), NEW m \in Nat \ {0}, NEW n \in 0..Len(s)
  PROVE  /\ IsSeq(SubSeq(s, m, n))
         /\ Len(SubSeq(s, m, n)) = IF m <= n THEN n - m + 1 ELSE 0
         /\ \A i \in 1..Len(SubSeq(s, m, n)) : SubSeq(s, m, n)[i] = s[m + i - 1]
PROOF
<1> DEFINE S == Range(s)
<1>1. s \in Seq(S) /\ Len(s) \in Nat
  BY DEF IsSeq
<1> HIDE DEF S
<1>2. SubSeq(s, m, n) \in Seq(S)
  BY <1>1
<1>3. IsSeq(SubSeq(s, m, n))
  BY <1>2, InSeq, Zenon
<1> QED
  BY <1>1, <1>3

\* Sequences of no and of one element.
LEMMA SmallSeq ==
  /\ IsSeq(<<>>) /\ Len(<<>>) = 0
  /\ \A x : IsSeq(<<x>>) /\ Len(<<x>>) = 1 /\ <<x>>[1] = x
PROOF
<1>1. <<>> \in Seq({})
  OBVIOUS
<1>2. \A x : IsSeq(<<x>>)
  <2> TAKE x
  <2>1. <<x>> \in Seq({x})
    OBVIOUS
  <2> QED
    BY <2>1, InSeq, Zenon
<1>3. IsSeq(<<>>)
  BY <1>1, InSeq, Zenon
<1> QED
  BY <1>2, <1>3

\* A sequence is a prefix of another if it has its first elements.
LEMMA PrefixIs ==
  ASSUME NEW s, NEW t, IsSeq(s), IsSeq(t)
  PROVE  IsPrefix(s, t) <=> Len(s) <= Len(t) /\ \A i \in 1..Len(s) : s[i] = t[i]
PROOF
<1>1. Len(s) \in Nat /\ Len(t) \in Nat
  BY SeqIs, Zenon
<1>2. SUFFICES ASSUME Len(s) <= Len(t)
               PROVE  SubSeq(s, 1, Len(s)) = SubSeq(t, 1, Len(s)) <=> \A i \in 1..Len(s) : s[i] = t[i]
  BY Zenon DEF IsPrefix
<1> DEFINE a == SubSeq(s, 1, Len(s))
           b == SubSeq(t, 1, Len(s))
<1>3. Len(s) \in 0..Len(s) /\ Len(s) \in 0..Len(t) /\ 1 \in Nat \ {0}
  BY <1>1, <1>2
<1>4. /\ IsSeq(a) /\ Len(a) = IF 1 <= Len(s) THEN Len(s) - 1 + 1 ELSE 0
      /\ \A i \in 1..Len(a) : a[i] = s[1 + i - 1]
  BY <1>3, CutSeq, Zenon
<1>5. /\ IsSeq(b) /\ Len(b) = IF 1 <= Len(s) THEN Len(s) - 1 + 1 ELSE 0
      /\ \A i \in 1..Len(b) : b[i] = t[1 + i - 1]
  BY <1>3, CutSeq, Zenon
<1> HIDE DEF a, b
<1>6. Len(a) = Len(s) /\ Len(b) = Len(s)
  BY <1>1, <1>4, <1>5
<1>7. \A i \in 1..Len(s) : a[i] = s[i] /\ b[i] = t[i]
  BY <1>1, <1>4, <1>5, <1>6
<1>8. ASSUME \A i \in 1..Len(s) : s[i] = t[i] PROVE a = b
  <2>1. \A i \in 1..Len(a) : a[i] = b[i]
    BY <1>6, <1>7, <1>8
  <2> QED
    BY <2>1, <1>4, <1>5, <1>6, SameSeq
<1>9. ASSUME a = b PROVE \A i \in 1..Len(s) : s[i] = t[i]
  BY <1>7, <1>9
<1> QED
  BY <1>8, <1>9 DEF a, b

\* A sequence behind another begins with it.
LEMMA JoinPrefix == ASSUME NEW s, NEW t, IsSeq(s), IsSeq(t) PROVE IsPrefix(s, s \o t)
PROOF
<1>1. /\ IsSeq(s \o t) /\ Len(s \o t) = Len(s) + Len(t)
      /\ \A i \in 1..Len(s) : (s \o t)[i] = s[i]
  BY JoinSeq, Zenon
<1> DEFINE u == s \o t
<1> HIDE DEF u
<1>2. Len(s) \in Nat /\ Len(t) \in Nat
  BY SeqIs, Zenon
<1>3. Len(s) <= Len(u) /\ IsSeq(u) /\ \A i \in 1..Len(s) : s[i] = u[i]
  BY <1>1, <1>2 DEF u
<1>4. IsPrefix(s, u)
  BY <1>3, PrefixIs, Zenon
<1> QED
  BY <1>4 DEF u

\* Prefixes of prefixes, and the empty one.
LEMMA PrefixTrans ==
  ASSUME NEW s, NEW t, NEW u, IsSeq(s), IsSeq(t), IsSeq(u), IsPrefix(s, t), IsPrefix(t, u)
  PROVE  IsPrefix(s, u)
PROOF
<1>1. Len(s) \in Nat /\ Len(t) \in Nat /\ Len(u) \in Nat
  BY SeqIs, Zenon
<1>2. Len(s) <= Len(t) /\ \A i \in 1..Len(s) : s[i] = t[i]
  BY PrefixIs, Zenon
<1>3. Len(t) <= Len(u) /\ \A i \in 1..Len(t) : t[i] = u[i]
  BY PrefixIs, Zenon
<1>4. Len(s) <= Len(u) /\ \A i \in 1..Len(s) : s[i] = u[i]
  BY <1>1, <1>2, <1>3
<1> QED
  BY <1>4, PrefixIs, Zenon

\* See PrefixTrans.
LEMMA PrefixNone == ASSUME NEW s, IsSeq(s) PROVE IsPrefix(<<>>, s)
PROOF
<1>1. Len(s) \in Nat /\ IsSeq(<<>>) /\ Len(<<>>) = 0
  BY SeqIs, SmallSeq
<1>2. Len(<<>>) <= Len(s) /\ \A i \in 1..Len(<<>>) : <<>>[i] = s[i]
  BY <1>1
<1> QED
  BY <1>1, <1>2, PrefixIs, Zenon

----------------------------------------------------------------------------
(* Steps *)

\* A command keeps its way.
LEMMA SameArgs ==
  ASSUME UNCHANGED <<sub, opts, input>>
  PROVE  /\ Target' = Target /\ Dest' = Dest /\ Kind' = Kind /\ Following' = Following
         /\ Unclear' = Unclear /\ Removes' = Removes /\ Discards' = Discards /\ Ranged' = Ranged
PROOF
<1>1. sub' = sub /\ opts' = opts /\ input' = input
  OBVIOUS
<1>2. Dest' = Dest
  BY <1>1, Zenon DEF Dest
<1>3. Target' = Target
  BY <1>2, Zenon DEF Target
<1>4. Kind' = Kind
  BY <1>1, Zenon DEF Kind
<1> QED
  BY <1>1, <1>2, <1>3, <1>4, Zenon DEF Following, Unclear, Removes, Discards, Ranged

\* The step next to the first becomes the first.
LEMMA MoveIs ==
  ASSUME StepsInv, pc = "run", steps # <<>>, steps' = Tail(steps), UNCHANGED argVars
  PROVE  StepsInv' /\ Leads(Kind, opts, Hd, Hd')
PROOF
<1>1. /\ IsSeq(steps)
      /\ \A i \in 1..Len(steps) : Leads(Kind, opts, steps[i], After(steps, i))
      /\ \A i \in 1..Len(steps) : steps[i] = "remove" => Removes
  BY DEF StepsInv, Live
<1>2. Kind' = Kind /\ Removes' = Removes
  BY SameArgs DEF argVars
<1> DEFINE S == Range(steps)
<1>3. steps \in Seq(S) /\ Len(steps) \in Nat
  BY <1>1 DEF IsSeq
<1> HIDE DEF S
<1>4. /\ Len(steps) > 0 /\ Head(steps) = steps[1]
      /\ Tail(steps) \in Seq(S) /\ Len(Tail(steps)) = Len(steps) - 1
      /\ \A i \in 1..(Len(steps) - 1) : Tail(steps)[i] = steps[i + 1]
  BY <1>3
<1>5. IsSeq(steps')
  BY <1>4, InSeq
<1>6. \A i \in 1..Len(steps') : i + 1 \in 1..Len(steps) /\ steps'[i] = steps[i + 1] /\ After(steps', i) = After(steps, i + 1)
  BY <1>3, <1>4 DEF After
<1>7. opts' = opts
  BY DEF argVars
<1>8. \A i \in 1..Len(steps') : Leads(Kind', opts', steps'[i], After(steps', i))
  <2> TAKE i \in 1..Len(steps')
  <2>1. Leads(Kind, opts, steps[i + 1], After(steps, i + 1))
    BY <1>1, <1>6
  <2> QED
    BY <2>1, <1>2, <1>6, <1>7
<1>9. \A i \in 1..Len(steps') : steps'[i] = "remove" => Removes'
  BY <1>1, <1>2, <1>6
<1>10. StepsInv'
  BY <1>5, <1>8, <1>9 DEF StepsInv
<1>11. Hd = steps[1] /\ Hd' = After(steps, 1)
  <2>1. Hd = steps[1]
    BY <1>4 DEF Hd
  <2>2. CASE Len(steps) = 1
    <3>1. steps' = <<>>
      BY <1>3, <1>4, <2>2
    <3> QED
      BY <3>1, <2>2 DEF Hd, After
  <2>3. CASE Len(steps) > 1
    <3>1. steps' # <<>> /\ Head(steps') = steps[2]
      BY <1>3, <1>4, <2>3
    <3> QED
      BY <3>1, <2>3 DEF Hd, After
  <2> QED
    BY <1>3, <1>4, <2>1, <2>2, <2>3
<1>12. 1 \in 1..Len(steps)
  BY <1>3, <1>4
<1> QED
  BY <1>1, <1>10, <1>11, <1>12

----------------------------------------------------------------------------
(* The output *)

\* A write at the end of the output.
LEMMA WrittenIs ==
  ASSUME Target \in DOMAIN fs, IsSeq(fs[Target]), NEW s, IsSeq(s)
  PROVE  /\ DOMAIN Written(s) = DOMAIN fs
         /\ Written(s)[Target] = fs[Target] \o s /\ IsSeq(fs[Target] \o s)
         /\ \A p \in DOMAIN fs \ {Target} : Written(s)[p] = fs[p]
PROOF
<1> DEFINE o == fs[Target]
<1>1. /\ IsSeq(o \o s) /\ Len(o \o s) = Len(o) + Len(s)
      /\ \A i \in 1..Len(o) : (o \o s)[i] = o[i]
  BY JoinSeq, Zenon
<1>2. CASE s = <<>>
  <2>1. Len(o) \in Nat /\ Len(s) = 0
    BY <1>2, SeqIs, SmallSeq
  <2>2. Len(o \o s) = Len(o)
    BY <1>1, <2>1
  <2> DEFINE u == o \o s
  <2>3. IsSeq(u) /\ Len(u) = Len(o) /\ \A i \in 1..Len(u) : u[i] = o[i]
    BY <1>1, <2>2, Zenon
  <2> HIDE DEF u
  <2>4. u = o
    BY <2>3, SameSeq
  <2> QED
    BY <1>1, <1>2, <2>4, Zenon DEF Written, u
<1>3. CASE s # <<>>
  <2>1. Written(s) = [q \in DOMAIN fs \cup {Target} |-> IF q = Target THEN o \o s ELSE fs[q]]
    BY <1>3, Zenon DEF Written, Place
  <2> DEFINE u == o \o s
             g == Written(s)
  <2> HIDE DEF u, g
  <2>2. g = [q \in DOMAIN fs \cup {Target} |-> IF q = Target THEN u ELSE fs[q]]
    BY <2>1, Zenon DEF u, g
  <2>3. DOMAIN g = DOMAIN fs /\ g[Target] = u /\ \A p \in DOMAIN fs \ {Target} : g[p] = fs[p]
    BY <2>2
  <2> QED
    BY <1>1, <2>3, Zenon DEF u, g
<1> QED
  BY <1>2, <1>3, Zenon

\* What Put makes of the files f and the buffer b.
PutTo(f, b, s) ==
  \E k \in 0..Len(buf \o s) :
    /\ f = Written(SubSeq(buf \o s, 1, k))
    /\ b = SubSeq(buf \o s, k + 1, Len(buf \o s))

\* Two pieces of a sequence make up the whole.
LEMMA SplitSeq ==
  ASSUME NEW t, IsSeq(t), NEW k \in 0..Len(t)
  PROVE  SubSeq(t, 1, k) \o SubSeq(t, k + 1, Len(t)) = t
PROOF
<1> DEFINE S == Range(t)
           x == SubSeq(t, 1, k)
           y == SubSeq(t, k + 1, Len(t))
<1>1. t \in Seq(S) /\ Len(t) \in Nat
  BY DEF IsSeq
<1> HIDE DEF S
<1>2. /\ x \in Seq(S) /\ Len(x) = k /\ \A i \in 1..k : x[i] = t[i]
      /\ y \in Seq(S) /\ Len(y) = Len(t) - k /\ \A i \in 1..(Len(t) - k) : y[i] = t[k + i]
  BY <1>1
<1> HIDE DEF x, y
<1> DEFINE z == x \o y
<1>3. /\ z \in Seq(S) /\ Len(z) = Len(t)
      /\ \A i \in 1..Len(t) : z[i] = IF i <= k THEN x[i] ELSE y[i - k]
  BY <1>1, <1>2
<1> HIDE DEF z
<1>4. \A i \in 1..Len(t) : z[i] = t[i]
  <2> TAKE i \in 1..Len(t)
  <2>1. CASE i <= k
    BY <2>1, <1>1, <1>2, <1>3
  <2>2. CASE i > k
    <3>1. i - k \in 1..(Len(t) - k) /\ k + (i - k) = i
      BY <2>2, <1>1
    <3>2. y[i - k] = t[k + (i - k)]
      BY <3>1, <1>2
    <3> QED
      BY <3>1, <3>2, <2>2, <1>3
  <2> QED
    BY <2>1, <2>2, <1>1
<1>5. IsSeq(z) /\ Len(z) = Len(t) /\ \A i \in 1..Len(z) : z[i] = t[i]
  BY <1>3, <1>4, InSeq
<1>6. z = t
  BY <1>5, SameSeq
<1> QED
  BY <1>6 DEF x, y, z

\* The output, and what is in the buffer, grow by what is put.
LEMMA PutIs ==
  ASSUME Target \in DOMAIN fs, IsSeq(fs[Target]), IsSeq(buf), NEW s, IsSeq(s),
         NEW f, NEW b, PutTo(f, b, s)
  PROVE  /\ DOMAIN f = DOMAIN fs /\ \A p \in DOMAIN fs \ {Target} : f[p] = fs[p]
         /\ IsSeq(f[Target]) /\ IsSeq(b) /\ IsSeq(Out) /\ IsSeq(Out \o s)
         /\ f[Target] \o b = Out \o s
PROOF
<1> DEFINE o == fs[Target]
           t == buf \o s
           S == (Range(o) \cup Range(buf)) \cup Range(s)
<1>1. o \in Seq(S) /\ buf \in Seq(S) /\ s \in Seq(S)
  BY DEF IsSeq
<1>2. PICK k \in 0..Len(t) : f = Written(SubSeq(t, 1, k)) /\ b = SubSeq(t, k + 1, Len(t))
  BY Zenon DEF PutTo
<1> DEFINE x == SubSeq(t, 1, k)
<1> HIDE DEF S, t, o
<1>3. t \in Seq(S) /\ Len(t) \in Nat
  BY <1>1 DEF t
<1>4. x \in Seq(S) /\ b \in Seq(S)
  BY <1>2, <1>3
<1>5. IsSeq(t) /\ IsSeq(x) /\ IsSeq(b)
  BY <1>3, <1>4, InSeq, Zenon
<1>6. x \o b = t
  BY <1>2, <1>5, SplitSeq, Zenon
<1>7. /\ DOMAIN f = DOMAIN fs /\ \A p \in DOMAIN fs \ {Target} : f[p] = fs[p]
      /\ f[Target] = o \o x /\ IsSeq(o \o x)
  BY <1>2, <1>5, WrittenIs, Zenon DEF o
<1> HIDE DEF x
<1>80. (o \o x) \o b = o \o (x \o b)
  <2>1. o \in Seq(S) /\ x \in Seq(S) /\ b \in Seq(S)
    BY <1>1, <1>4
  <2> QED
    BY ONLY <2>1, ConcatAssociative
<1>8. (o \o x) \o b = o \o t
  BY <1>6, <1>80
<1>9. o \o t = (o \o buf) \o s
  BY <1>1, ConcatAssociative DEF t
<1>10. o \o buf \in Seq(S) /\ (o \o buf) \o s \in Seq(S)
  BY <1>1
<1>11. IsSeq(o \o buf) /\ IsSeq((o \o buf) \o s)
  BY <1>10, InSeq, Zenon
<1> QED
  BY <1>5, <1>7, <1>8, <1>9, <1>11, Zenon DEF o, Out

----------------------------------------------------------------------------
(* The files *)

\* Of the files, at most the output differs in f.
Touches(f) ==
  /\ DOMAIN f = DOMAIN fs /\ \A p \in DOMAIN fs \ {Target} : f[p] = fs[p]
  /\ made => IsSeq(f[Target])
  /\ ~made => f = fs

\* What was found is a set of files.
LEMMA FoundIs ==
  ASSUME FilesInv, Began
  PROVE  /\ found \in Worlds /\ Stdout \in DOMAIN found /\ found[Stdout] = <<>>
         /\ NoPath \notin DOMAIN found /\ \A p \in DOMAIN found : IsFile(found[p])
PROOF BY FilesAssumption DEF FilesInv

\* A step that changes no more than the output.
LEMMA FilesKept ==
  ASSUME FilesInv, Began, UNCHANGED <<sub, opts, input, found, made>>,
         Touches(fs'), IsSeq(buf'), ~made => buf' = <<>>,
         steps # <<>> \/ (fs' = fs /\ buf' = <<>> /\ steps' = <<>>),
         Live' /\ Hd' \notin {"open", "refuse"} => input \in DOMAIN found
  PROVE  FilesInv'
PROOF
<1>1. /\ Target' = Target /\ Following' = Following /\ opts' = opts /\ sub' = sub /\ input' = input
      /\ found' = found /\ made' = made /\ Began'
  BY SameArgs DEF Began
<1>2. /\ found \in Worlds
      /\ input # NoPath => Target # input
      /\ DOMAIN fs \subseteq DOMAIN found \cup (IF made THEN {Target} ELSE {})
      /\ \A p \in DOMAIN found \ {input, Target} : p \in DOMAIN fs /\ fs[p] = found[p]
      /\ ~made => \A p \in DOMAIN found \ {input} : p \in DOMAIN fs /\ fs[p] = found[p]
      /\ made => Target \in DOMAIN fs /\ IsSeq(fs[Target])
  BY DEF FilesInv
<1>3. /\ DOMAIN fs' = DOMAIN fs /\ \A p \in DOMAIN fs \ {Target} : fs'[p] = fs[p]
      /\ made => IsSeq(fs'[Target])
      /\ ~made => fs' = fs
  BY DEF Touches
<1>4. /\ DOMAIN fs' \subseteq DOMAIN found \cup (IF made THEN {Target} ELSE {})
      /\ \A p \in DOMAIN found \ {input, Target} : p \in DOMAIN fs' /\ fs'[p] = found[p]
      /\ ~made => \A p \in DOMAIN found \ {input} : p \in DOMAIN fs' /\ fs'[p] = found[p]
      /\ made => Target \in DOMAIN fs' /\ IsSeq(fs'[Target])
  BY <1>2, <1>3
<1>5. input \in DOMAIN found =>
        \/ /\ input \in DOMAIN fs' /\ IsFile(fs'[input]) /\ IsPrefix(found[input], fs'[input])
           /\ ~Following => fs'[input] = found[input]
        \/ opts.rm /\ OutputHasAll' /\ made /\ steps' = <<>> /\ buf' = <<>> /\ input \notin DOMAIN fs'
  <2>1. HAVE input \in DOMAIN found
  <2>2. Target # input
    BY <2>1, <1>2, FoundIs
  <2>3. CASE /\ input \in DOMAIN fs /\ IsFile(fs[input]) /\ IsPrefix(found[input], fs[input])
             /\ ~Following => fs[input] = found[input]
    BY <2>2, <2>3, <1>3
  <2>4. CASE opts.rm /\ OutputHasAll /\ made /\ steps = <<>> /\ buf = <<>> /\ input \notin DOMAIN fs
    <3>1. fs' = fs /\ buf' = <<>> /\ steps' = <<>>
      BY <2>4
    <3>2. OutputHasAll'
      <4>1. /\ fs' = fs /\ Target' = Target /\ found' = found /\ input' = input
            /\ made' = made /\ sub' = sub
        BY <1>1, <3>1
      <4> QED
        BY <4>1, <2>4 DEF OutputHasAll
    <3> QED
      BY <2>4, <3>1, <3>2
  <2> QED
    BY <2>1, <2>3, <2>4 DEF FilesInv
<1> QED
  BY <1>1, <1>2, <1>4, <1>5 DEF FilesInv

\* A write of some of the buffer, as it is dropped or flushed.
LEMMA Spills ==
  ASSUME FilesInv, Began, NEW k \in 0..Len(buf), NEW f, f = Written(SubSeq(buf, 1, k))
  PROVE  /\ Touches(f)
         /\ made => /\ IsSeq(SubSeq(buf, 1, k)) /\ f[Target] = fs[Target] \o SubSeq(buf, 1, k)
                    /\ IsPrefix(f[Target], Out)
PROOF
<1>1. IsSeq(buf) /\ (~made => buf = <<>>) /\ (made => Target \in DOMAIN fs /\ IsSeq(fs[Target]))
  BY DEF FilesInv
<1>2. Len(buf) \in Nat
  BY <1>1, SeqIs, Zenon
<1> DEFINE x == SubSeq(buf, 1, k)
<1>3. 1 \in Nat \ {0}
  OBVIOUS
<1>4. /\ IsSeq(x) /\ Len(x) = (IF 1 <= k THEN k - 1 + 1 ELSE 0)
      /\ \A i \in 1..Len(x) : x[i] = buf[1 + i - 1]
  BY <1>1, <1>3, CutSeq, Zenon
<1> DEFINE y == SubSeq(buf, k + 1, Len(buf))
<1>5. x \o y = buf
  BY <1>1, SplitSeq, Zenon
<1>6. k + 1 \in Nat \ {0} /\ Len(buf) \in 0..Len(buf)
  BY <1>2
<1>7. IsSeq(y)
  BY <1>1, <1>6, CutSeq, Zenon
<1>8. f = Written(x)
  OBVIOUS
<1> HIDE DEF x, y
<1>9. CASE made
  <2> DEFINE o == fs[Target]
             S == (Range(o) \cup Range(x)) \cup Range(y)
  <2>1. DOMAIN f = DOMAIN fs /\ f[Target] = o \o x /\ IsSeq(o \o x) /\ \A p \in DOMAIN fs \ {Target} : f[p] = fs[p]
    BY <1>1, <1>4, <1>8, <1>9, WrittenIs, Zenon
  <2>2. o \in Seq(S) /\ x \in Seq(S) /\ y \in Seq(S)
    BY <1>1, <1>4, <1>7, <1>9 DEF IsSeq
  <2> HIDE DEF o, S
  <2>3. (o \o x) \o y = o \o (x \o y)
    BY ONLY <2>2, ConcatAssociative
  <2>4. (o \o x) \o y = Out
    BY <2>3, <1>5, Zenon DEF Out, o
  <2>5. IsPrefix(o \o x, (o \o x) \o y)
    BY <2>1, <1>7, JoinPrefix, Zenon
  <2> QED
    BY <2>1, <2>4, <2>5, <1>4, <1>9, Zenon DEF Touches, x, o
<1>10. CASE ~made
  <2>1. Len(buf) = 0
    BY <1>1, <1>10, SmallSeq
  <2>2. Len(x) = 0
    BY <1>2, <1>4, <2>1
  <2>3. Len(x) = Len(<<>>) /\ \A i \in 1..Len(x) : x[i] = <<>>[i]
    BY <2>2, SmallSeq
  <2>4. x = <<>>
    BY <2>3, <1>4, SmallSeq, SameSeq, Zenon
  <2>5. f = fs
    BY <1>8, <2>4, Zenon DEF Written
  <2> QED
    BY <2>5, <1>10, Zenon DEF Touches
<1> QED
  BY <1>9, <1>10

\* A write into the buffer.
LEMMA Puts ==
  ASSUME FilesInv, Began, made, NEW s, IsSeq(s), PutTo(fs', buf', s), Target' = Target
  PROVE  /\ Touches(fs') /\ IsSeq(buf') /\ IsSeq(Out) /\ IsSeq(Out') /\ Out' = Out \o s
         /\ IsSeq(fs'[Target])
PROOF
<1>1. IsSeq(buf) /\ Target \in DOMAIN fs /\ IsSeq(fs[Target])
  BY DEF FilesInv
<1> DEFINE f == fs'
           b == buf'
<1>2. PutTo(f, b, s)
  OBVIOUS
<1> HIDE DEF f, b
<1>3. /\ DOMAIN f = DOMAIN fs /\ \A p \in DOMAIN fs \ {Target} : f[p] = fs[p]
      /\ IsSeq(f[Target]) /\ IsSeq(b) /\ IsSeq(Out) /\ IsSeq(Out \o s)
      /\ f[Target] \o b = Out \o s
  BY <1>1, <1>2, PutIs, Zenon
<1> QED
  BY <1>3, Zenon DEF f, b, Touches, Out

----------------------------------------------------------------------------
(* The beginning of a command *)

StepNames == {"refuse", "open", "load", "measure", "fits", "create", "encode", "flush", "check",
              "remove", "build", "compress", "finish", "decode", "deliver", "copy", "index",
              "seek", "newline"}

\* P are the steps of way k.
Way(k, P) ==
  /\ IsSeq(P) /\ Len(P) > 0 /\ P[1] = IF k = "refuse" THEN "refuse" ELSE "open"
  /\ \A i \in 1..Len(P) : Leads(k, opts, P[i], After(P, i)) /\ (P[i] = "remove" => Removes)

\* The steps of compress_stream.
LEMMA CStreamWay ==
  ASSUME Kind = "cstream", opts \in Options
  PROVE  Way(Kind, CompressStream(opts, input))
PROOF
<1> DEFINE P == CompressStream(opts, input)
<1>1. CASE Removes
  <2>1. P = <<"open", "create", "build", "compress", "finish", "flush">> \o <<"remove">>
    BY <1>1 DEF CompressStream, RemoveSteps, Removes
  <2> HIDE DEF P
  <2>2. P \in Seq(StepNames)
    BY ONLY <2>1 DEF StepNames
  <2>3. /\ Len(P) = 7 /\ P[1] = "open" /\ P[2] = "create" /\ P[3] = "build"
        /\ P[4] = "compress" /\ P[5] = "finish" /\ P[6] = "flush" /\ P[7] = "remove"
    BY <2>1
  <2>4. \A i \in 1..7 : Leads("cstream", opts, P[i], After(P, i)) /\ (P[i] = "remove" => Removes)
    BY <2>3, <1>1 DEF Leads, After
  <2>5. IsSeq(P)
    BY <2>2, InSeq, Zenon
  <2> QED
    BY <2>3, <2>4, <2>5 DEF Way, P
<1>2. CASE ~Removes
  <2>1. P = <<"open", "create", "build", "compress", "finish", "flush">> \o <<>>
    BY <1>2 DEF CompressStream, RemoveSteps, Removes
  <2> HIDE DEF P
  <2>2. P \in Seq(StepNames)
    BY ONLY <2>1 DEF StepNames
  <2>3. /\ Len(P) = 6 /\ P[1] = "open" /\ P[2] = "create" /\ P[3] = "build"
        /\ P[4] = "compress" /\ P[5] = "finish" /\ P[6] = "flush"
    BY <2>1
  <2>4. \A i \in 1..6 : Leads("cstream", opts, P[i], After(P, i)) /\ (P[i] = "remove" => Removes)
    BY <2>3, <1>2 DEF Leads, After
  <2>5. IsSeq(P)
    BY <2>2, InSeq, Zenon
  <2> QED
    BY <2>3, <2>4, <2>5 DEF Way, P
<1> QED
  BY <1>1, <1>2 DEF Options

\* The steps of compress_block.
LEMMA CBlockWay ==
  ASSUME Kind = "cblock", opts \in Options
  PROVE  Way(Kind, CompressBlock(opts, input))
PROOF
<1> DEFINE P == CompressBlock(opts, input)
<1>1. CASE opts.verify /\ Removes
  <2>1. P = (<<"open", "load", "fits", "create", "encode", "flush">> \o <<"check">>) \o <<"remove">>
    BY <1>1 DEF CompressBlock, RemoveSteps, Removes
  <2> HIDE DEF P
  <2>2. P \in Seq(StepNames)
    BY ONLY <2>1 DEF StepNames
  <2>3. /\ Len(P) = 8 /\ P[1] = "open" /\ P[2] = "load" /\ P[3] = "fits" /\ P[4] = "create"
        /\ P[5] = "encode" /\ P[6] = "flush" /\ P[7] = "check" /\ P[8] = "remove"
    BY <2>1
  <2>4. \A i \in 1..8 : Leads("cblock", opts, P[i], After(P, i)) /\ (P[i] = "remove" => Removes)
    BY <2>3, <1>1 DEF Leads, After
  <2>5. IsSeq(P)
    BY <2>2, InSeq, Zenon
  <2> QED
    BY <2>3, <2>4, <2>5 DEF Way, P
<1>2. CASE opts.verify /\ ~Removes
  <2>1. P = (<<"open", "load", "fits", "create", "encode", "flush">> \o <<"check">>) \o <<>>
    BY <1>2 DEF CompressBlock, RemoveSteps, Removes
  <2> HIDE DEF P
  <2>2. P \in Seq(StepNames)
    BY ONLY <2>1 DEF StepNames
  <2>3. /\ Len(P) = 7 /\ P[1] = "open" /\ P[2] = "load" /\ P[3] = "fits" /\ P[4] = "create"
        /\ P[5] = "encode" /\ P[6] = "flush" /\ P[7] = "check"
    BY <2>1
  <2>4. \A i \in 1..7 : Leads("cblock", opts, P[i], After(P, i)) /\ (P[i] = "remove" => Removes)
    BY <2>3, <1>2 DEF Leads, After
  <2>5. IsSeq(P)
    BY <2>2, InSeq, Zenon
  <2> QED
    BY <2>3, <2>4, <2>5 DEF Way, P
<1>3. CASE ~opts.verify /\ Removes
  <2>1. P = (<<"open", "load", "fits", "create", "encode", "flush">> \o <<>>) \o <<"remove">>
    BY <1>3 DEF CompressBlock, RemoveSteps, Removes
  <2> HIDE DEF P
  <2>2. P \in Seq(StepNames)
    BY ONLY <2>1 DEF StepNames
  <2>3. /\ Len(P) = 7 /\ P[1] = "open" /\ P[2] = "load" /\ P[3] = "fits" /\ P[4] = "create"
        /\ P[5] = "encode" /\ P[6] = "flush" /\ P[7] = "remove"
    BY <2>1
  <2>4. \A i \in 1..7 : Leads("cblock", opts, P[i], After(P, i)) /\ (P[i] = "remove" => Removes)
    BY <2>3, <1>3 DEF Leads, After
  <2>5. IsSeq(P)
    BY <2>2, InSeq, Zenon
  <2> QED
    BY <2>3, <2>4, <2>5 DEF Way, P
<1>4. CASE ~opts.verify /\ ~Removes
  <2>1. P = (<<"open", "load", "fits", "create", "encode", "flush">> \o <<>>) \o <<>>
    BY <1>4 DEF CompressBlock, RemoveSteps, Removes
  <2> HIDE DEF P
  <2>2. P \in Seq(StepNames)
    BY ONLY <2>1 DEF StepNames
  <2>3. /\ Len(P) = 6 /\ P[1] = "open" /\ P[2] = "load" /\ P[3] = "fits" /\ P[4] = "create"
        /\ P[5] = "encode" /\ P[6] = "flush"
    BY <2>1
  <2>4. \A i \in 1..6 : Leads("cblock", opts, P[i], After(P, i)) /\ (P[i] = "remove" => Removes)
    BY <2>3, <1>4 DEF Leads, After
  <2>5. IsSeq(P)
    BY <2>2, InSeq, Zenon
  <2> QED
    BY <2>3, <2>4, <2>5 DEF Way, P
<1> QED
  BY <1>1, <1>2, <1>3, <1>4 DEF Options

\* The steps of decompress_block.
LEMMA DBlockWay ==
  ASSUME Kind = "dblock", opts \in Options
  PROVE  Way(Kind, DecompressBlock(opts, input))
PROOF
<1> DEFINE P == DecompressBlock(opts, input)
<1>1. CASE opts.verify
  <2>1. P = <<"open", "load", "decode">> \o <<>>
    BY <1>1 DEF DecompressBlock, RemoveSteps, Removes
  <2> HIDE DEF P
  <2>2. P \in Seq(StepNames)
    BY ONLY <2>1 DEF StepNames
  <2>3. /\ Len(P) = 3 /\ P[1] = "open" /\ P[2] = "load" /\ P[3] = "decode"
    BY <2>1
  <2>4. \A i \in 1..3 : Leads("dblock", opts, P[i], After(P, i)) /\ (P[i] = "remove" => Removes)
    BY <2>3, <1>1 DEF Leads, After
  <2>5. IsSeq(P)
    BY <2>2, InSeq, Zenon
  <2> QED
    BY <2>3, <2>4, <2>5 DEF Way, P
<1>2. CASE ~opts.verify /\ Removes
  <2>1. P = <<"open", "load", "decode">> \o (<<"create", "deliver", "flush">> \o <<"remove">>)
    BY <1>2 DEF DecompressBlock, RemoveSteps, Removes
  <2> HIDE DEF P
  <2>2. P \in Seq(StepNames)
    BY ONLY <2>1 DEF StepNames
  <2>3. /\ Len(P) = 7 /\ P[1] = "open" /\ P[2] = "load" /\ P[3] = "decode"
        /\ P[4] = "create" /\ P[5] = "deliver" /\ P[6] = "flush" /\ P[7] = "remove"
    BY <2>1
  <2>4. \A i \in 1..7 : Leads("dblock", opts, P[i], After(P, i)) /\ (P[i] = "remove" => Removes)
    BY <2>3, <1>2 DEF Leads, After
  <2>5. IsSeq(P)
    BY <2>2, InSeq, Zenon
  <2> QED
    BY <2>3, <2>4, <2>5 DEF Way, P
<1>3. CASE ~opts.verify /\ ~Removes
  <2>1. P = <<"open", "load", "decode">> \o (<<"create", "deliver", "flush">> \o <<>>)
    BY <1>3 DEF DecompressBlock, RemoveSteps, Removes
  <2> HIDE DEF P
  <2>2. P \in Seq(StepNames)
    BY ONLY <2>1 DEF StepNames
  <2>3. /\ Len(P) = 6 /\ P[1] = "open" /\ P[2] = "load" /\ P[3] = "decode"
        /\ P[4] = "create" /\ P[5] = "deliver" /\ P[6] = "flush"
    BY <2>1
  <2>4. \A i \in 1..6 : Leads("dblock", opts, P[i], After(P, i)) /\ (P[i] = "remove" => Removes)
    BY <2>3, <1>3 DEF Leads, After
  <2>5. IsSeq(P)
    BY <2>2, InSeq, Zenon
  <2> QED
    BY <2>3, <2>4, <2>5 DEF Way, P
<1> QED
  BY <1>1, <1>2, <1>3 DEF Options

\* The steps of decompress_stream.
LEMMA DStreamWay ==
  ASSUME Kind = "dstream", opts \in Options
  PROVE  Way(Kind, DecompressStream(opts, input))
PROOF
<1> DEFINE P == DecompressStream(opts, input)
<1>1. CASE opts.verify
  <2>1. P = <<"open", "copy">>
    BY <1>1 DEF DecompressStream, RemoveSteps, Removes
  <2> HIDE DEF P
  <2>2. P \in Seq(StepNames)
    BY ONLY <2>1 DEF StepNames
  <2>3. /\ Len(P) = 2 /\ P[1] = "open" /\ P[2] = "copy"
    BY <2>1
  <2>4. \A i \in 1..2 : Leads("dstream", opts, P[i], After(P, i)) /\ (P[i] = "remove" => Removes)
    BY <2>3, <1>1 DEF Leads, After
  <2>5. IsSeq(P)
    BY <2>2, InSeq, Zenon
  <2> QED
    BY <2>3, <2>4, <2>5 DEF Way, P
<1>2. CASE ~opts.verify /\ Removes
  <2>1. P = <<"open", "create", "copy", "flush">> \o <<"remove">>
    BY <1>2 DEF DecompressStream, RemoveSteps, Removes
  <2> HIDE DEF P
  <2>2. P \in Seq(StepNames)
    BY ONLY <2>1 DEF StepNames
  <2>3. /\ Len(P) = 5 /\ P[1] = "open" /\ P[2] = "create" /\ P[3] = "copy" /\ P[4] = "flush"
        /\ P[5] = "remove"
    BY <2>1
  <2>4. \A i \in 1..5 : Leads("dstream", opts, P[i], After(P, i)) /\ (P[i] = "remove" => Removes)
    BY <2>3, <1>2 DEF Leads, After
  <2>5. IsSeq(P)
    BY <2>2, InSeq, Zenon
  <2> QED
    BY <2>3, <2>4, <2>5 DEF Way, P
<1>3. CASE ~opts.verify /\ ~Removes
  <2>1. P = <<"open", "create", "copy", "flush">> \o <<>>
    BY <1>3 DEF DecompressStream, RemoveSteps, Removes
  <2> HIDE DEF P
  <2>2. P \in Seq(StepNames)
    BY ONLY <2>1 DEF StepNames
  <2>3. /\ Len(P) = 4 /\ P[1] = "open" /\ P[2] = "create" /\ P[3] = "copy" /\ P[4] = "flush"
    BY <2>1
  <2>4. \A i \in 1..4 : Leads("dstream", opts, P[i], After(P, i)) /\ (P[i] = "remove" => Removes)
    BY <2>3, <1>3 DEF Leads, After
  <2>5. IsSeq(P)
    BY <2>2, InSeq, Zenon
  <2> QED
    BY <2>3, <2>4, <2>5 DEF Way, P
<1> QED
  BY <1>1, <1>2, <1>3 DEF Options

\* The steps of decompress_stream_follow.
LEMMA FollowWay ==
  ASSUME Kind = "follow", opts \in Options
  PROVE  Way(Kind, DecompressFollow(opts))
PROOF
<1> DEFINE P == DecompressFollow(opts)
<1>1. CASE opts.offset = <<>>
  <2>1. P = (<<"open", "create">> \o <<>>) \o <<"copy", "flush">>
    BY <1>1 DEF DecompressFollow, SeekSteps
  <2> HIDE DEF P
  <2>2. P \in Seq(StepNames)
    BY ONLY <2>1 DEF StepNames
  <2>3. /\ Len(P) = 4 /\ P[1] = "open" /\ P[2] = "create" /\ P[3] = "copy" /\ P[4] = "flush"
    BY <2>1
  <2>4. \A i \in 1..4 : Leads("follow", opts, P[i], After(P, i)) /\ (P[i] = "remove" => Removes)
    BY <2>3, <1>1 DEF Leads, After
  <2>5. IsSeq(P)
    BY <2>2, InSeq, Zenon
  <2> QED
    BY <2>3, <2>4, <2>5 DEF Way, P
<1>2. CASE opts.offset # <<>> /\ opts.nl
  <2>1. P = (<<"open", "create">> \o (<<"index", "seek">> \o <<"newline">>)) \o <<"copy", "flush">>
    BY <1>2 DEF DecompressFollow, SeekSteps
  <2> HIDE DEF P
  <2>2. P \in Seq(StepNames)
    BY ONLY <2>1 DEF StepNames
  <2>3. /\ Len(P) = 7 /\ P[1] = "open" /\ P[2] = "create" /\ P[3] = "index" /\ P[4] = "seek"
        /\ P[5] = "newline" /\ P[6] = "copy" /\ P[7] = "flush"
    BY <2>1
  <2>4. \A i \in 1..7 : Leads("follow", opts, P[i], After(P, i)) /\ (P[i] = "remove" => Removes)
    BY <2>3, <1>2 DEF Leads, After
  <2>5. IsSeq(P)
    BY <2>2, InSeq, Zenon
  <2> QED
    BY <2>3, <2>4, <2>5 DEF Way, P
<1>3. CASE opts.offset # <<>> /\ ~opts.nl
  <2>1. P = (<<"open", "create">> \o (<<"index", "seek">> \o <<>>)) \o <<"copy", "flush">>
    BY <1>3 DEF DecompressFollow, SeekSteps
  <2> HIDE DEF P
  <2>2. P \in Seq(StepNames)
    BY ONLY <2>1 DEF StepNames
  <2>3. /\ Len(P) = 6 /\ P[1] = "open" /\ P[2] = "create" /\ P[3] = "index" /\ P[4] = "seek"
        /\ P[5] = "copy" /\ P[6] = "flush"
    BY <2>1
  <2>4. \A i \in 1..6 : Leads("follow", opts, P[i], After(P, i)) /\ (P[i] = "remove" => Removes)
    BY <2>3, <1>3 DEF Leads, After
  <2>5. IsSeq(P)
    BY <2>2, InSeq, Zenon
  <2> QED
    BY <2>3, <2>4, <2>5 DEF Way, P
<1> QED
  BY <1>1, <1>2, <1>3 DEF Options

\* The steps of decompress_stream_seek.
LEMMA SeekWay ==
  ASSUME Kind = "seek", opts \in Options
  PROVE  Way(Kind, DecompressSeek(opts, input))
PROOF
<1> DEFINE P == DecompressSeek(opts, input)
<1>1. CASE opts.verify /\ opts.nl
  <2>1. P = (<<"open">> \o (<<"index", "seek">> \o <<"newline">>)) \o <<"copy">>
    BY <1>1 DEF DecompressSeek, SeekSteps, Kind
  <2> HIDE DEF P
  <2>2. P \in Seq(StepNames)
    BY ONLY <2>1 DEF StepNames
  <2>3. /\ Len(P) = 5 /\ P[1] = "open" /\ P[2] = "index" /\ P[3] = "seek"
        /\ P[4] = "newline" /\ P[5] = "copy"
    BY <2>1
  <2>4. \A i \in 1..5 : Leads("seek", opts, P[i], After(P, i)) /\ (P[i] = "remove" => Removes)
    BY <2>3, <1>1 DEF Leads, After
  <2>5. IsSeq(P)
    BY <2>2, InSeq, Zenon
  <2> QED
    BY <2>3, <2>4, <2>5 DEF Way, P
<1>2. CASE opts.verify /\ ~opts.nl
  <2>1. P = (<<"open">> \o (<<"index", "seek">> \o <<>>)) \o <<"copy">>
    BY <1>2 DEF DecompressSeek, SeekSteps, Kind
  <2> HIDE DEF P
  <2>2. P \in Seq(StepNames)
    BY ONLY <2>1 DEF StepNames
  <2>3. /\ Len(P) = 4 /\ P[1] = "open" /\ P[2] = "index" /\ P[3] = "seek" /\ P[4] = "copy"
    BY <2>1
  <2>4. \A i \in 1..4 : Leads("seek", opts, P[i], After(P, i)) /\ (P[i] = "remove" => Removes)
    BY <2>3, <1>2 DEF Leads, After
  <2>5. IsSeq(P)
    BY <2>2, InSeq, Zenon
  <2> QED
    BY <2>3, <2>4, <2>5 DEF Way, P
<1>3. CASE ~opts.verify /\ opts.nl
  <2>1. P = (<<"open">> \o (<<"index", "seek">> \o <<"newline">>)) \o <<"create", "copy", "flush">>
    BY <1>3 DEF DecompressSeek, SeekSteps, Kind
  <2> HIDE DEF P
  <2>2. P \in Seq(StepNames)
    BY ONLY <2>1 DEF StepNames
  <2>3. /\ Len(P) = 7 /\ P[1] = "open" /\ P[2] = "index" /\ P[3] = "seek"
        /\ P[4] = "newline" /\ P[5] = "create" /\ P[6] = "copy" /\ P[7] = "flush"
    BY <2>1
  <2>4. \A i \in 1..7 : Leads("seek", opts, P[i], After(P, i)) /\ (P[i] = "remove" => Removes)
    BY <2>3, <1>3 DEF Leads, After
  <2>5. IsSeq(P)
    BY <2>2, InSeq, Zenon
  <2> QED
    BY <2>3, <2>4, <2>5 DEF Way, P
<1>4. CASE ~opts.verify /\ ~opts.nl
  <2>1. P = (<<"open">> \o (<<"index", "seek">> \o <<>>)) \o <<"create", "copy", "flush">>
    BY <1>4 DEF DecompressSeek, SeekSteps, Kind
  <2> HIDE DEF P
  <2>2. P \in Seq(StepNames)
    BY ONLY <2>1 DEF StepNames
  <2>3. /\ Len(P) = 6 /\ P[1] = "open" /\ P[2] = "index" /\ P[3] = "seek" /\ P[4] = "create"
        /\ P[5] = "copy" /\ P[6] = "flush"
    BY <2>1
  <2>4. \A i \in 1..6 : Leads("seek", opts, P[i], After(P, i)) /\ (P[i] = "remove" => Removes)
    BY <2>3, <1>4 DEF Leads, After
  <2>5. IsSeq(P)
    BY <2>2, InSeq, Zenon
  <2> QED
    BY <2>3, <2>4, <2>5 DEF Way, P
<1> QED
  BY <1>1, <1>2, <1>3, <1>4 DEF Options

\* The steps of a command that has few.
LEMMA ShortWays ==
  /\ Way("refuse", <<"refuse">>)
  /\ Way("bench", Bench)
  /\ Way("vblock", <<"open", "load", "decode">>)
  /\ Way("vstream", <<"open", "copy">>)
PROOF
<1>1. Way("refuse", <<"refuse">>)
  <2>1. <<"refuse">> \in Seq(StepNames)
    BY DEF StepNames
  <2>2. IsSeq(<<"refuse">>)
    BY <2>1, InSeq, Zenon
  <2>3. \A i \in 1..1 : /\ Leads("refuse", opts, <<"refuse">>[i], After(<<"refuse">>, i))
                        /\ <<"refuse">>[i] = "remove" => Removes
    BY DEF Leads, After
  <2> QED
    BY <2>2, <2>3 DEF Way
<1>2. Way("bench", Bench)
  <2> DEFINE P == Bench
  <2>1. P = <<"open", "load", "measure">>
    BY DEF Bench
  <2> HIDE DEF P
  <2>2. P \in Seq(StepNames) /\ Len(P) = 3 /\ P[1] = "open" /\ P[2] = "load" /\ P[3] = "measure"
    BY <2>1 DEF StepNames
  <2>3. IsSeq(P)
    BY <2>2, InSeq, Zenon
  <2>4. \A i \in 1..3 : Leads("bench", opts, P[i], After(P, i)) /\ (P[i] = "remove" => Removes)
    BY <2>2 DEF Leads, After
  <2> QED
    BY <2>2, <2>3, <2>4 DEF Way, P
<1>3. Way("vblock", <<"open", "load", "decode">>)
  <2> DEFINE P == <<"open", "load", "decode">>
  <2>2. P \in Seq(StepNames) /\ Len(P) = 3 /\ P[1] = "open" /\ P[2] = "load" /\ P[3] = "decode"
    BY DEF StepNames
  <2> HIDE DEF P
  <2>3. IsSeq(P)
    BY <2>2, InSeq, Zenon
  <2>4. \A i \in 1..3 : Leads("vblock", opts, P[i], After(P, i)) /\ (P[i] = "remove" => Removes)
    BY <2>2 DEF Leads, After
  <2> QED
    BY <2>2, <2>3, <2>4 DEF Way, P
<1>4. Way("vstream", <<"open", "copy">>)
  <2> DEFINE P == <<"open", "copy">>
  <2>2. P \in Seq(StepNames) /\ Len(P) = 2 /\ P[1] = "open" /\ P[2] = "copy"
    BY DEF StepNames
  <2> HIDE DEF P
  <2>3. IsSeq(P)
    BY <2>2, InSeq, Zenon
  <2>4. \A i \in 1..2 : Leads("vstream", opts, P[i], After(P, i)) /\ (P[i] = "remove" => Removes)
    BY <2>2 DEF Leads, After
  <2> QED
    BY <2>2, <2>3, <2>4 DEF Way, P
<1> QED
  BY <1>1, <1>2, <1>3, <1>4

\* Every command has steps of its way.
LEMMA PlanWay ==
  ASSUME opts \in Options, sub \in {"c", "d", "verify", "bench"}, sub = "bench" => opts.bench
  PROVE  Way(Kind, StepsOf(sub, opts, input))
PROOF
<1>1. /\ opts.bench \in BOOLEAN /\ opts.block \in BOOLEAN /\ opts.verify \in BOOLEAN
      /\ opts.follow \in BOOLEAN
  BY DEF Options
<1>2. CASE input = NoPath
  BY <1>2, ShortWays DEF StepsOf, Kind
<1>3. CASE input # NoPath /\ opts.bench /\ sub # "verify"
  BY <1>3, ShortWays DEF StepsOf, Kind
<1>4. CASE input # NoPath /\ ~opts.bench /\ sub = "c"
  <2>1. CASE opts.block
    <3>1. Kind = "cblock" /\ StepsOf(sub, opts, input) = CompressBlock(opts, input)
      BY <1>4, <2>1, Zenon DEF StepsOf, Kind
    <3> QED
      BY <3>1, CBlockWay
  <2>2. CASE ~opts.block
    <3>1. Kind = "cstream" /\ StepsOf(sub, opts, input) = CompressStream(opts, input)
      BY <1>4, <2>2, Zenon DEF StepsOf, Kind
    <3> QED
      BY <3>1, CStreamWay
  <2> QED
    BY <1>1, <2>1, <2>2
<1>5. CASE input # NoPath /\ ~opts.bench /\ sub = "d"
  <2>0. StepsOf(sub, opts, input) = Decompress(opts, input)
    BY <1>5 DEF StepsOf
  <2>1. CASE IsBlock(opts, input)
    <3>1. Kind = "dblock" /\ Decompress(opts, input) = DecompressBlock(opts, input)
      BY <1>5, <2>1 DEF Decompress, Kind
    <3> QED
      BY <3>1, <2>0, DBlockWay
  <2>2. CASE ~IsBlock(opts, input) /\ opts.follow
    <3>1. Kind = "follow" /\ Decompress(opts, input) = DecompressFollow(opts)
      BY <1>5, <2>2 DEF Decompress, Kind
    <3> QED
      BY <3>1, <2>0, FollowWay
  <2>3. CASE ~IsBlock(opts, input) /\ ~opts.follow /\ opts.offset = <<>> /\ opts.tail = <<>>
    <3>1. Kind = "dstream" /\ Decompress(opts, input) = DecompressStream(opts, input)
      BY <1>5, <2>3 DEF Decompress, Kind
    <3> QED
      BY <3>1, <2>0, DStreamWay
  <2>4. CASE ~IsBlock(opts, input) /\ ~opts.follow /\ (opts.offset # <<>> \/ opts.tail # <<>>)
    <3>1. Decompress(opts, input) = DecompressSeek(opts, input)
      BY <2>4 DEF Decompress
    <3>2. CASE input = Std
      <4>1. Kind = "refuse" /\ DecompressSeek(opts, input) = <<"refuse">>
        BY <1>5, <2>4, <3>2 DEF DecompressSeek, Kind
      <4> QED
        BY <2>0, <3>1, <4>1, ShortWays
    <3>3. CASE input # Std
      <4>1. Kind = "seek"
        BY <1>5, <2>4, <3>3 DEF Kind
      <4> QED
        BY <2>0, <3>1, <4>1, SeekWay
    <3> QED
      BY <3>2, <3>3
  <2> QED
    BY <1>1, <2>1, <2>2, <2>3, <2>4
<1>6. CASE input # NoPath /\ sub = "verify"
  <2>1. StepsOf(sub, opts, input) = Verify(opts, input)
    BY <1>6 DEF StepsOf
  <2>2. Kind = IF IsBlock(opts, input) THEN "vblock" ELSE "vstream"
    BY <1>6 DEF Kind
  <2> QED
    BY <2>1, <2>2, ShortWays DEF Verify
<1> QED
  BY <1>1, <1>2, <1>3, <1>4, <1>5, <1>6

----------------------------------------------------------------------------
(* The arguments *)

\* What is known of the options while they are given.
OptionsOk(o) == o \in Options /\ (o.nl => o.offset # <<>> \/ o.tail # <<>>)

\* A number given for an option is a number.
LEMMA ValueIs == \A a \in Values : IsValue(a)
PROOF BY ArgsAssumption DEF Values

\* One number is a value.
LEMMA NumbersIs == <<>> \in Numbers /\ \A n \in Nat : <<n>> \in Numbers /\ <<n>> # <<>> /\ <<n>>[1] = n
PROOF BY DEF Numbers

\* A flag that stands alone.
LEMMA SwitchedOk ==
  ASSUME OptionsOk(opts), NEW f \in Switches
  PROVE  OptionsOk(Switched(f))
PROOF
<1>1. opts \in Options /\ (opts.nl => opts.offset # <<>> \/ opts.tail # <<>>)
  BY DEF OptionsOk
<1>2. CASE f = "block"
  BY <1>1, <1>2 DEF OptionsOk, Switched, Options
<1>3. CASE f = "stdout"
  BY <1>1, <1>3 DEF OptionsOk, Switched, Options
<1>4. CASE f = "rm"
  BY <1>1, <1>4 DEF OptionsOk, Switched, Options
<1>5. CASE f = "verify"
  BY <1>1, <1>5 DEF OptionsOk, Switched, Options
<1>6. CASE f = "no-index"
  BY <1>1, <1>6 DEF OptionsOk, Switched, Options
<1>7. CASE f = "follow"
  BY <1>1, <1>7 DEF OptionsOk, Switched, Options
<1>8. CASE f = "raw"
  BY <1>1, <1>8 DEF OptionsOk, Switched, Options
<1> QED
  BY <1>2, <1>3, <1>4, <1>5, <1>6, <1>7, <1>8 DEF Switches

\* A flag with a value.
LEMMA WithValueOk ==
  ASSUME OptionsOk(opts), NEW f \in ValueFlags, NEW a \in Values, Valid(f, a)
  PROVE  OptionsOk(WithValue(f, a))
PROOF
<1>1. opts \in Options /\ (opts.nl => opts.offset # <<>> \/ opts.tail # <<>>)
  BY DEF OptionsOk
<1>2. CASE f = "output"
  <2>1. PathOf(a) \in Names
    BY DEF Names
  <2>2. WithValue(f, a) = [opts EXCEPT !.output = PathOf(a)]
    BY <1>2 DEF WithValue
  <2> QED
    BY <1>1, <2>1, <2>2 DEF OptionsOk, Options
<1>3. ASSUME f # "output" PROVE a.n \in Nat /\ a.nl \in BOOLEAN
  BY <1>3, ValueIs DEF Valid, IsValue
<1>4. ASSUME f # "output" PROVE <<a.n>> \in Numbers /\ <<a.n>> # <<>>
  BY <1>3, <1>4, NumbersIs
<1>5. CASE f = "offset"
  <2>1. WithValue(f, a) = [opts EXCEPT !.offset = <<a.n>>, !.nl = @ \/ a.nl]
    BY <1>5 DEF WithValue
  <2> DEFINE n == <<a.n>>
             l == a.nl
  <2>2. n \in Numbers /\ n # <<>> /\ l \in BOOLEAN
    BY <1>3, <1>4, <1>5
  <2>3. WithValue(f, a) = [opts EXCEPT !.offset = n, !.nl = @ \/ l]
    BY <2>1
  <2> HIDE DEF n, l
  <2> QED
    BY <1>1, <2>2, <2>3 DEF OptionsOk, Options
<1>6. CASE f = "tail"
  <2>1. WithValue(f, a) = [opts EXCEPT !.tail = <<a.n>>, !.nl = @ \/ a.nl]
    BY <1>6 DEF WithValue
  <2> DEFINE n == <<a.n>>
             l == a.nl
  <2>2. n \in Numbers /\ n # <<>> /\ l \in BOOLEAN
    BY <1>3, <1>4, <1>6
  <2>3. WithValue(f, a) = [opts EXCEPT !.tail = n, !.nl = @ \/ l]
    BY <2>1
  <2> HIDE DEF n, l
  <2> QED
    BY <1>1, <2>2, <2>3 DEF OptionsOk, Options
<1>7. CASE f = "index"
  BY <1>1, <1>7 DEF OptionsOk, WithValue, Options
<1>8. CASE f = "level"
  BY <1>1, <1>8 DEF OptionsOk, WithValue, Options
<1>9. CASE f = "block-size"
  BY <1>1, <1>9 DEF OptionsOk, WithValue, Options
<1>10. CASE f = "bench"
  BY <1>1, <1>10 DEF OptionsOk, WithValue, Options
<1>11. CASE f = "threads"
  BY <1>1, <1>11 DEF OptionsOk, WithValue
<1> QED
  BY <1>2, <1>5, <1>6, <1>7, <1>8, <1>9, <1>10, <1>11 DEF ValueFlags

\* An argument.
LEMMA ParseKeeps ==
  ASSUME OptionsOk(opts), sub \in {"", "c", "d", "verify", "bench"}, pc = "parse",
         NEW a \in Args, ParseArg(a)
  PROVE  OptionsOk(opts') /\ sub' \in {"", "c", "d", "verify", "bench"} /\ pc' \in {"parse", "exit"}
PROOF
<1>1. ASSUME NEW f, NEW v \in Values, SetLongValue(f, v)
      PROVE  OptionsOk(opts') /\ sub' = sub /\ pc' \in {"parse", "exit"}
  <2>1. CASE f \in ValueFlags /\ Valid(f, v)
    BY <1>1, <2>1, WithValueOk DEF SetLongValue
  <2>2. CASE ~(f \in ValueFlags /\ Valid(f, v))
    BY <1>1, <2>2 DEF SetLongValue, Refuse
  <2> QED
    BY <2>1, <2>2
<1>2. a \in Values /\ (a.kind = "set" => a.val \in Values)
  BY DEF Values
<1>3. CASE want # ""
  <2>1. SetLongValue(want, a)
    BY <1>3 DEF ParseArg
  <2> QED
    BY <2>1, <1>1, <1>2
<1>4. CASE want = "" /\ a.kind = "set"
  <2>1. SetLongValue(a.flag, a.val)
    BY <1>4 DEF ParseArg
  <2> QED
    BY <2>1, <1>1, <1>2, <1>4
<1>5. CASE want = "" /\ a.kind = "flag" /\ a.flag \in HelpFlags
  <2>0. a.flag \notin Switches
    BY <1>5 DEF Switches, HelpFlags
  <2> DEFINE h == IF a.flag = "help" \/ opts.help = "only" THEN "only" ELSE "also"
  <2>1. opts' = [opts EXCEPT !.help = h] /\ sub' = sub /\ pc' = pc
    BY <1>5, <2>0 DEF ParseArg
  <2>2. h \in {"no", "also", "only"}
    OBVIOUS
  <2> HIDE DEF h
  <2> QED
    BY <2>1, <2>2 DEF OptionsOk, Options
<1>6. CASE want = "" /\ a.kind = "flag" /\ a.flag \in Switches
  <2>1. a.flag \notin HelpFlags
    BY <1>6 DEF Switches, HelpFlags
  <2>2. opts' = Switched(a.flag) /\ sub' = sub /\ pc' = pc
    BY <1>6, <2>1 DEF ParseArg
  <2> QED
    BY <2>2, <1>6, SwitchedOk
<1>7. CASE want = "" /\ a.kind = "flag" /\ a.flag \notin Switches \cup HelpFlags
  <2>1. opts' = opts /\ sub' = sub /\ pc' = pc
    BY <1>7 DEF ParseArg
  <2> QED
    BY <2>1
<1>8. CASE want = "" /\ a.kind \in {"word", "num"}
  <2> DEFINE p == PathOf(a)
  <2>1. IF sub = "" /\ IsCommand(p)
        THEN /\ sub' = ParseSubcommand(p.stem) /\ alias' = p.stem
             /\ UNCHANGED <<want, opts, input, pc, code>>
        ELSE IF p = Std \/ input = NoPath THEN SetInput(p) ELSE Refuse
    BY <1>8 DEF ParseArg
  <2> HIDE DEF p
  <2>2. CASE sub = "" /\ IsCommand(p)
    <3>1. sub' = ParseSubcommand(p.stem) /\ opts' = opts /\ pc' = pc /\ p.stem \in CommandWords
      BY <2>1, <2>2 DEF IsCommand
    <3>2. sub' \in {"c", "d", "verify", "bench"}
      BY <3>1 DEF ParseSubcommand, CommandWords
    <3> QED
      BY <3>1, <3>2
  <2>3. CASE ~(sub = "" /\ IsCommand(p))
    BY <2>1, <2>3 DEF SetInput, Refuse
  <2> QED
    BY <2>2, <2>3
<1> QED
  BY <1>3, <1>4, <1>5, <1>6, <1>7, <1>8, ArgsAssumption

\* The options as the command sees them.
LEMMA KeptOk ==
  ASSUME OptionsOk(opts), sub \in {"", "c", "d", "verify", "bench"}, ~Conflict
  PROVE  LET o == Kept(Command, Final)
         IN /\ OptionsOk(o) /\ Command \in {"c", "d", "verify", "bench"}
            /\ Command = "bench" => o.bench
            /\ Command = "d" /\ o.follow => o.tail = <<>> /\ ~o.bench
            /\ Command = "verify" => ~o.follow /\ ~o.rm /\ o.offset = <<>> /\ o.tail = <<>>
PROOF
<1>1. opts \in Options /\ (opts.nl => opts.offset # <<>> \/ opts.tail # <<>>)
  BY DEF OptionsOk
<1>2. Command \in {"c", "d", "verify", "bench"}
  BY DEF Command
<1>3. <<DefaultTail>> \in Numbers /\ <<DefaultTail>> # <<>> /\ <<>> \in Numbers
  BY NumbersIs, ArgsAssumption
<1> DEFINE D == <<DefaultTail>>
           c == Command
           o == Final
<1>4. o = [opts EXCEPT !.bench = @ \/ c = "bench", !.stdout = @ \/ alias \in {"cat", "tail"},
             !.nl = @ \/ (alias = "tail" /\ opts.tail = <<>>),
             !.tail = IF alias = "tail" /\ @ = <<>> THEN D ELSE @]
  BY DEF Final
<1>5. D \in Numbers /\ D # <<>> /\ c \in {"c", "d", "verify", "bench"}
  BY <1>2, <1>3
<1> HIDE DEF D, c, o
<1>6. OptionsOk(o) /\ (c = "bench" => o.bench)
  <2> DEFINE b == opts.bench \/ c = "bench"
             s == opts.stdout \/ alias \in {"cat", "tail"}
             n == opts.nl \/ (alias = "tail" /\ opts.tail = <<>>)
             t == IF alias = "tail" /\ opts.tail = <<>> THEN D ELSE opts.tail
  <2>1. o = [opts EXCEPT !.bench = b, !.stdout = s, !.nl = n, !.tail = t]
    BY <1>4
  <2>2. b \in BOOLEAN /\ s \in BOOLEAN /\ n \in BOOLEAN /\ t \in Numbers
    BY <1>1, <1>5 DEF Options
  <2>3. (n => opts.offset # <<>> \/ t # <<>>) /\ (c = "bench" => b)
    BY <1>1, <1>5
  <2> HIDE DEF b, s, n, t
  <2> QED
    BY <1>1, <2>1, <2>2, <2>3 DEF OptionsOk, Options
<1>7. o.follow => o.tail = <<>> /\ ~o.bench
  BY DEF Conflict, o
<1>8. Default \in Options /\ ~Default.nl /\ ~Default.follow /\ ~Default.rm /\ Default.offset = <<>> /\ Default.tail = <<>>
  BY <1>3 DEF Default, Options, Names
<1> DEFINE k == Kept(c, o)
<1>9. o \in Options /\ (o.nl => o.offset # <<>> \/ o.tail # <<>>)
  BY <1>6 DEF OptionsOk
<1>10. CASE c = "c"
  <2>1. k = [Default EXCEPT !.block = o.block, !.stdout = o.stdout, !.rm = o.rm, !.verify = o.verify,
               !.index = o.index, !.badSize = o.badSize, !.output = o.output, !.bench = o.bench]
    BY <1>10 DEF Kept
  <2> HIDE DEF k
  <2>2. OptionsOk(k)
    BY <2>1, <1>8, <1>9 DEF OptionsOk, Options
  <2> QED
    BY <2>2, <1>10 DEF c, o, k
<1>11. CASE c = "d"
  <2>1. k = [o EXCEPT !.index = TRUE, !.badSize = FALSE, !.raw = FALSE, !.level = FALSE]
    BY <1>11 DEF Kept
  <2> HIDE DEF k
  <2>2. OptionsOk(k)
    BY <2>1, <1>9 DEF OptionsOk, Options
  <2>3. k.follow = o.follow /\ k.tail = o.tail /\ k.bench = o.bench
    BY <2>1, <1>9 DEF Options
  <2> QED
    BY <2>2, <2>3, <1>7, <1>11 DEF c, o, k
<1>12. CASE c \in {"verify", "bench"}
  <2>1. k = [Default EXCEPT !.block = o.block, !.bench = o.bench, !.badSize = o.badSize]
    BY <1>12 DEF Kept
  <2> HIDE DEF k
  <2>2. OptionsOk(k)
    BY <2>1, <1>8, <1>9 DEF OptionsOk, Options
  <2>3. k.follow = FALSE /\ k.rm = FALSE /\ k.tail = <<>> /\ k.offset = <<>> /\ k.bench = o.bench
    BY <2>1, <1>8, <1>9 DEF Options
  <2> QED
    BY <2>2, <2>3, <1>6, <1>12 DEF c, o, k
<1> QED
  BY <1>5, <1>10, <1>11, <1>12

\* Before anything is done.
LEMMA StartWork ==
  /\ ~made /\ pos = 0 /\ left = -1 /\ ~open /\ count = 0
  /\ Hd = IF Kind = "refuse" THEN "refuse" ELSE "open"
  => WorkInv
PROOF
<1> SUFFICES ASSUME ~made, pos = 0, left = -1, ~open, count = 0, Hd = IF Kind = "refuse" THEN "refuse" ELSE "open"
             PROVE  WorkInv
  OBVIOUS
<1>1. CASE Kind = "refuse"
  BY <1>1 DEF WorkInv
<1>2. CASE Kind # "refuse"
  <2>1. Hd = "open"
    BY <1>2
  <2>2. CStreamInv /\ CBlockInv /\ DBlockInv /\ DStreamInv
    BY <2>1 DEF CStreamInv, CBlockInv, DBlockInv, DStreamInv
  <2>3. FollowInv /\ SeekInv
    BY <2>1 DEF FollowInv, SeekInv, RangeInv
  <2> QED
    BY <1>2, <2>2, <2>3 DEF WorkInv
<1> QED
  BY <1>1, <1>2

\* The steps of a command just begun.
LEMMA PlanInv ==
  /\ opts \in Options /\ sub \in {"c", "d", "verify", "bench"} /\ (sub = "bench" => opts.bench)
  /\ steps = StepsOf(sub, opts, input)
  => StepsInv /\ Hd = (IF Kind = "refuse" THEN "refuse" ELSE "open")
PROOF
<1> SUFFICES ASSUME opts \in Options, sub \in {"c", "d", "verify", "bench"},
                    sub = "bench" => opts.bench, steps = StepsOf(sub, opts, input)
             PROVE  StepsInv /\ Hd = IF Kind = "refuse" THEN "refuse" ELSE "open"
  OBVIOUS
<1>1. Way(Kind, steps)
  BY PlanWay
<1>2. /\ IsSeq(steps) /\ Len(steps) > 0 /\ steps[1] = (IF Kind = "refuse" THEN "refuse" ELSE "open")
      /\ \A i \in 1..Len(steps) : /\ Leads(Kind, opts, steps[i], After(steps, i))
                                  /\ steps[i] = "remove" => Removes
  BY <1>1, Zenon DEF Way
<1>3. steps \in Seq(Range(steps))
  BY <1>2 DEF IsSeq
<1>4. steps # <<>> /\ Head(steps) = steps[1]
  BY <1>2, <1>3
<1> QED
  BY <1>2, <1>4, Zenon DEF StepsInv, Hd

\* The files as they are found.
LEMMA FoundFiles ==
  /\ found \in Worlds /\ fs = found /\ ~made /\ buf = <<>> /\ (input # NoPath => Target # input)
  /\ Live => Hd \in {"open", "refuse"}
  => FilesInv
PROOF
<1> SUFFICES ASSUME found \in Worlds, fs = found, ~made, buf = <<>>,
                    input # NoPath => Target # input, Live => Hd \in {"open", "refuse"}
             PROVE  FilesInv
  OBVIOUS
<1>1. \A p \in DOMAIN found : IsFile(found[p])
  BY FilesAssumption
<1>2. ASSUME input \in DOMAIN found PROVE IsFile(fs[input]) /\ IsPrefix(found[input], fs[input])
  <2>1. IsFile(fs[input])
    BY <1>1, <1>2
  <2> DEFINE c == fs[input]
  <2>2. IsSeq(c)
    BY <2>1 DEF IsFile
  <2> HIDE DEF c
  <2>3. Len(c) \in Nat
    BY <2>2, SeqIs
  <2>4. IsPrefix(c, c)
    BY <2>2, <2>3, PrefixIs
  <2> QED
    BY <2>1, <2>4 DEF c
<1>3. IsSeq(buf)
  BY SmallSeq
<1> QED
  BY <1>2, <1>3 DEF FilesInv

\* A command begins.
LEMMA BeginKeeps == MzInv /\ Begin => MzInv'
PROOF
<1> SUFFICES ASSUME MzInv, Begin PROVE MzInv'
  OBVIOUS
<1>1. /\ pc = "parse" /\ ArgsEnd /\ UNCHANGED <<made, buf, held, reader>>
      /\ pc' = "run" => Target' # input'
  BY DEF Begin, ArgsEnd
<1>2. PICK w \in Worlds : /\ fs' = w /\ found' = w
                          /\ steps' = IF pc' = "run" THEN StepsOf(sub', opts', input') ELSE <<>>
  BY DEF Begin
<1>3. /\ OptionsOk(opts) /\ sub \in {"", "c", "d", "verify", "bench"}
      /\ ~made /\ buf = <<>> /\ pos = 0 /\ left = -1 /\ ~open /\ count = 0
  BY <1>1 DEF MzInv, ArgInv, OptionsOk
<1>4. Began'
  BY <1>2, FilesAssumption DEF Began
<1>5. ASSUME pc' = "exit", sub' = "", opts' = Default, input' = NoPath PROVE MzInv'
  <2>1. ~Live'
    BY <1>5 DEF Live
  <2>2. FilesInv'
    <3>1. (/\ found \in Worlds /\ fs = found /\ ~made /\ buf = <<>> /\ (input # NoPath => Target # input)
           /\ Live => Hd \in {"open", "refuse"})'
      BY <1>1, <1>2, <1>3, <1>5, <2>1
    <3> QED
      BY <3>1, FoundFiles, PTL
  <2>3. ArgInv'
    <3>1. <<>> \in Numbers /\ NoPath \in Names
      BY NumbersIs DEF Names
    <3>2. opts' \in Options /\ ~opts'.nl
      BY <1>5, <3>1 DEF Default, Options
    <3>3. steps' = <<>>
      BY <1>2, <1>5
    <3> QED
      BY <3>2, <3>3, <1>4, <1>5 DEF ArgInv, Began
  <2>4. StepsInv' /\ WorkInv' /\ PrefixInv'
    BY <1>1, <1>3, <2>1 DEF StepsInv, WorkInv, PrefixInv
  <2> QED
    BY <2>2, <2>3, <2>4 DEF MzInv
<1>6. ASSUME ~Conflict, sub' = Command, opts' = Kept(Command, Final), pc' = "run", input' = input
      PROVE  MzInv'
  <2>1. /\ OptionsOk(opts') /\ sub' \in {"c", "d", "verify", "bench"}
        /\ sub' = "bench" => opts'.bench
        /\ sub' = "d" /\ opts'.follow => opts'.tail = <<>> /\ ~opts'.bench
        /\ sub' = "verify" => ~opts'.follow /\ ~opts'.rm /\ opts'.offset = <<>> /\ opts'.tail = <<>>
    BY <1>3, <1>6, KeptOk
  <2>2. opts' \in Options /\ (opts'.nl => opts'.offset # <<>> \/ opts'.tail # <<>>)
    BY <2>1 DEF OptionsOk
  <2>3. (/\ opts \in Options /\ sub \in {"c", "d", "verify", "bench"} /\ (sub = "bench" => opts.bench)
         /\ steps = StepsOf(sub, opts, input))'
    BY <1>2, <1>6, <2>1, <2>2
  <2>4. (StepsInv /\ Hd = (IF Kind = "refuse" THEN "refuse" ELSE "open"))'
    BY <2>3, PlanInv, PTL
  <2>5. (/\ ~made /\ pos = 0 /\ left = -1 /\ ~open /\ count = 0
         /\ Hd = (IF Kind = "refuse" THEN "refuse" ELSE "open"))'
    BY <1>1, <1>3, <2>4 DEF reader
  <2>6. WorkInv'
    BY <2>5, StartWork, PTL
  <2>7. (/\ found \in Worlds /\ fs = found /\ ~made /\ buf = <<>> /\ (input # NoPath => Target # input)
         /\ Live => Hd \in {"open", "refuse"})'
    BY <1>1, <1>2, <1>3, <1>6, <2>4
  <2>8. FilesInv'
    BY <2>7, FoundFiles, PTL
  <2>9. ArgInv'
    BY <1>4, <1>6, <2>1, <2>2 DEF ArgInv, Began
  <2>10. PrefixInv'
    BY <1>1, <1>3 DEF PrefixInv
  <2> QED
    BY <2>4, <2>6, <2>8, <2>9, <2>10 DEF MzInv
<1> QED
  BY <1>1, <1>5, <1>6 DEF ArgsEnd

\* An argument is read.
LEMMA NextArgKeeps == MzInv /\ NextArg /\ UNCHANGED fileVars => MzInv'
PROOF
<1> SUFFICES ASSUME MzInv, NextArg, UNCHANGED fileVars PROVE MzInv'
  OBVIOUS
<1>1. PICK a \in Args : pc = "parse" /\ ParseArg(a)
  BY DEF NextArg
<1>2. /\ OptionsOk(opts) /\ sub \in {"", "c", "d", "verify", "bench"}
      /\ fs = << >> /\ found = << >> /\ steps = <<>> /\ ~made
      /\ buf = <<>> /\ held = <<>> /\ pos = 0 /\ left = -1 /\ ~open /\ count = 0
  BY <1>1 DEF MzInv, ArgInv, OptionsOk
<1>3. OptionsOk(opts') /\ sub' \in {"", "c", "d", "verify", "bench"} /\ pc' \in {"parse", "exit"}
  BY <1>1, <1>2, ParseKeeps
<1>4. ~Began' /\ ~Live'
  BY <1>2, <1>3 DEF Began, Live, Succeeded, fileVars
<1>5. ArgInv'
  BY <1>2, <1>3, <1>4 DEF ArgInv, OptionsOk, fileVars, reader
<1>6. IsSeq(buf') /\ buf' = <<>>
  BY <1>2, SmallSeq DEF fileVars
<1> QED
  BY <1>4, <1>5, <1>6 DEF MzInv, StepsInv, FilesInv, WorkInv, PrefixInv

\* Before the first argument.
LEMMA InitMz == Init => MzInv
PROOF
<1> SUFFICES ASSUME Init PROVE MzInv
  OBVIOUS
<1>1. /\ opts = Default /\ pc = "parse" /\ sub = "" /\ input = NoPath
      /\ steps = <<>> /\ fs = << >> /\ found = << >> /\ made = FALSE
      /\ buf = <<>> /\ held = <<>> /\ pos = 0 /\ left = -1 /\ open = FALSE /\ count = 0
  BY DEF Init, ArgsInit
<1>2. <<>> \in Numbers /\ NoPath \in Names
  BY NumbersIs DEF Names
<1>3. opts \in Options /\ ~opts.nl
  BY <1>1, <1>2 DEF Default, Options
<1>4. ~Began /\ ~Live
  BY <1>1 DEF Began, Live, Succeeded
<1>5. IsSeq(buf)
  BY <1>1, SmallSeq
<1> QED
  BY <1>1, <1>3, <1>4, <1>5 DEF MzInv, ArgInv, StepsInv, FilesInv, WorkInv, PrefixInv

----------------------------------------------------------------------------
(* The data in a file *)

\* A set of natural numbers has a least.
LEMMA MinIs ==
  ASSUME NEW S \in SUBSET Nat, S # {}
  PROVE  Min(S) \in S /\ \A y \in S : Min(S) <= y
PROOF
<1>1. \E z \in S : \A y \in S : z <= y
  BY LeastNatural
<1> QED
  BY <1>1, Zenon DEF Min

\* The lesser of two.
LEMMA MinPair == ASSUME NEW a \in Nat, NEW b \in Nat PROVE Min({a, b}) = IF a <= b THEN a ELSE b
PROOF
<1> DEFINE S == {a, b}
<1>1. S \in SUBSET Nat /\ S # {}
  OBVIOUS
<1>2. Min(S) \in S /\ \A y \in S : Min(S) <= y
  BY <1>1, MinIs, Zenon
<1>3. (Min(S) = a \/ Min(S) = b) /\ Min(S) <= a /\ Min(S) <= b
  BY <1>2
<1> QED
  BY <1>3

\* The tokens of a file are tokens.
LEMMA FileIs ==
  ASSUME NEW c, IsFile(c)
  PROVE  IsSeq(c) /\ Len(c) \in Nat /\ \A i \in 1..Len(c) : IsToken(c[i])
PROOF
<1>1. IsSeq(c) /\ \A i \in 1..Len(c) : IsToken(c[i])
  BY DEF IsFile
<1> QED
  BY <1>1, SeqIs, Zenon

\* The units up to each place come from those before it and from the token there.
LEMMA UnitsStep ==
  ASSUME NEW c, IsSeq(c)
  PROVE  /\ UnitsTo(c)[0] = <<>>
         /\ \A k \in 0..Len(c) : IsSeq(UnitsTo(c)[k])
         /\ \A k \in 1..Len(c) : UnitsTo(c)[k] = UnitsTo(c)[k - 1] \o Piece(c[k])
PROOF
<1> DEFINE n == Len(c)
           E == {c[k].u : k \in 1..n} \cup {Bad}
           V == Seq(E)
           s == [k \in 1..n |-> [x \in V |-> x \o Piece(c[k])]]
           P(r) == r = [k \in 0..n |-> IF k = 0 THEN <<>> ELSE r[k - 1] \o Piece(c[k])]
           h == CHOOSE r : P(r)
<1>1. n \in Nat
  BY SeqIs, Zenon
<1>2. UnitsTo(c) = h
  BY Zenon DEF UnitsTo
<1>3. \A k \in 1..n : Piece(c[k]) \in V
  <2> TAKE k \in 1..n
  <2>1. c[k].u \in E /\ Bad \in E
    BY Zenon
  <2> HIDE DEF E
  <2>2. <<>> \in V /\ <<c[k].u>> \in V /\ <<Bad>> \in V
    BY <2>1
  <2> HIDE DEF V
  <2> QED
    BY <2>2 DEF Piece
<1>4. \A x \in V : \A k \in 1..n : x \o Piece(c[k]) \in V
  <2> SUFFICES ASSUME NEW x \in V, NEW k \in 1..n PROVE x \o Piece(c[k]) \in V
    OBVIOUS
  <2> DEFINE p == Piece(c[k])
  <2>1. p \in V
    BY <1>3
  <2> HIDE DEF p, E
  <2> QED
    BY <2>1 DEF p
<1>5. s \in [1..n -> [V -> V]] /\ <<>> \in V
  <2>1. <<>> \in V
    <3> HIDE DEF E
    <3> QED
      OBVIOUS
  <2> HIDE DEF V, n
  <2> QED
    BY <2>1, <1>4
<1>6. \A k \in 1..n : \A x \in V : s[k][x] = x \o Piece(c[k])
  <2> HIDE DEF V, n
  <2> QED
    OBVIOUS
<1> HIDE DEF V, s
<1>7. PICK f \in [0..n -> V] : Iterates(f, n, <<>>, s)
  <2> HIDE DEF n
  <2> QED
    BY <1>1, <1>5, StepsExist
<1> HIDE DEF n
<1>8. ASSUME NEW k \in 0..n
      PROVE  f[k] = IF k = 0 THEN <<>> ELSE f[k - 1] \o Piece(c[k])
  <2>1. CASE k = 0
    BY <1>7, <2>1 DEF Iterates
  <2>2. CASE k # 0
    <3>1. k \in 1..n /\ k - 1 \in 0..n
      BY <1>1, <2>2
    <3>2. f[k - 1] \in V /\ f[k] = s[k][f[k - 1]]
      BY <1>7, <3>1 DEF Iterates
    <3>3. s[k][f[k - 1]] = f[k - 1] \o Piece(c[k])
      BY <1>6, <3>1, <3>2, Zenon
    <3> QED
      BY <2>2, <3>2, <3>3
  <2> QED
    BY <2>1, <2>2
<1>9. P(f)
  <2>1. f = [k \in 0..n |-> f[k]]
    OBVIOUS
  <2> QED
    BY <1>8, <2>1, Zenon
<1>10. P(h)
  <2> HIDE DEF P
  <2> QED
    BY <1>9, Zenon
<1> HIDE DEF h
<1>11. ASSUME NEW k \in 0..n PROVE h[k] = IF k = 0 THEN <<>> ELSE h[k - 1] \o Piece(c[k])
  BY <1>10, Zenon
<1>12. h[0] = <<>>
  <2>1. 0 \in 0..n
    BY <1>1
  <2> QED
    BY <1>11, <2>1
<1>13. \A k \in 1..n : h[k] = h[k - 1] \o Piece(c[k])
  <2> TAKE k \in 1..n
  <2>1. k \in 0..n /\ k # 0
    BY <1>1
  <2> QED
    BY <1>11, <2>1, Zenon
<1>14. \A k \in 0..n : h[k] = f[k]
  <2>1. TakesSteps(h, n, V, <<>>, s)
    BY <1>6, <1>12, <1>13, Zenon DEF TakesSteps
  <2> QED
    BY <1>1, <1>7, <2>1, StepsAgree
<1>15. \A k \in 0..n : IsSeq(h[k])
  <2> TAKE k \in 0..n
  <2>1. f[k] \in Seq(E)
    BY <1>7 DEF V
  <2> QED
    BY <2>1, <1>14, InSeq, Zenon
<1> QED
  BY <1>2, <1>12, <1>13, <1>15 DEF n

\* The units up to a place begin those up to a later one.
LEMMA UnitsGrow ==
  ASSUME NEW c, IsSeq(c)
  PROVE  \A k \in 0..Len(c) : \A j \in 0..k : IsPrefix(UnitsTo(c)[j], UnitsTo(c)[k])
PROOF
<1> DEFINE n == Len(c)
           U == UnitsTo(c)
           S == {k \in 0..n : \A j \in 0..k : IsPrefix(U[j], U[k])}
<1>1. n \in Nat
  BY SeqIs, Zenon
<1>2. /\ \A k \in 0..n : IsSeq(U[k])
      /\ \A k \in 1..n : U[k] = U[k - 1] \o Piece(c[k])
  BY UnitsStep, Zenon
<1> HIDE DEF n, U
<1>3. ASSUME NEW x, IsSeq(x) PROVE IsPrefix(x, x)
  <2>1. Len(x) \in Nat
    BY <1>3, SeqIs
  <2> QED
    BY <2>1, <1>3, PrefixIs
<1>4. \A x : IsSeq(Piece(x))
  BY SmallSeq, Zenon DEF Piece
<1>5. 0 \in S
  BY <1>1, <1>2, <1>3
<1>6. ASSUME NEW k \in 0..(n - 1), k \in S PROVE k + 1 \in S
  <2>1. k \in 0..n /\ k + 1 \in 1..n /\ k + 1 \in 0..n /\ (k + 1) - 1 = k /\ k \in Nat
    BY <1>1
  <2>2. U[k + 1] = U[k] \o Piece(c[k + 1]) /\ IsSeq(U[k]) /\ IsSeq(U[k + 1])
    BY <1>2, <2>1
  <2>3. IsPrefix(U[k], U[k + 1])
    BY <2>2, <1>4, JoinPrefix, Zenon
  <2>4. ASSUME NEW j \in 0..(k + 1) PROVE IsPrefix(U[j], U[k + 1])
    <3>1. CASE j = k + 1
      BY <3>1, <2>2, <1>3
    <3>2. CASE j # k + 1
      <4>1. j \in 0..k /\ j \in 0..n
        BY <3>2, <2>1, <1>1
      <4>2. IsPrefix(U[j], U[k]) /\ IsSeq(U[j])
        BY <4>1, <1>2, <1>6
      <4> QED
        BY <4>2, <2>2, <2>3, PrefixTrans
    <3> QED
      BY <3>1, <3>2
  <2> QED
    BY <2>1, <2>4
<1>7. \A k \in 0..n : k \in S
  <2> HIDE DEF S
  <2> QED
    BY <1>1, <1>5, <1>6, UpTo
<1> QED
  BY <1>7 DEF n, U

\* The units of a file, and those up to a place.
LEMMA UnitsAre ==
  ASSUME NEW c, IsSeq(c)
  PROVE  /\ IsSeq(Units(c)) /\ Len(Units(c)) \in Nat /\ UnitsTo(c)[Len(c)] = Units(c)
         /\ \A k \in 0..Len(c) :
              /\ IsSeq(UnitsTo(c)[k]) /\ Len(UnitsTo(c)[k]) \in 0..Len(Units(c))
              /\ \A i \in 1..Len(UnitsTo(c)[k]) : UnitsTo(c)[k][i] = Units(c)[i]
PROOF
<1> DEFINE n == Len(c)
           U == UnitsTo(c)
<1>1. n \in Nat
  BY SeqIs, Zenon
<1>2. /\ \A k \in 0..n : IsSeq(U[k])
      /\ \A k \in 0..n : \A j \in 0..k : IsPrefix(U[j], U[k])
  BY UnitsStep, UnitsGrow, Zenon
<1>3. Units(c) = U[n]
  BY DEF Units
<1> HIDE DEF n, U
<1>4. n \in 0..n /\ IsSeq(U[n])
  BY <1>1, <1>2
<1>5. Len(U[n]) \in Nat
  BY <1>4, SeqIs
<1>6. ASSUME NEW k \in 0..n
      PROVE  /\ IsSeq(U[k]) /\ Len(U[k]) \in 0..Len(U[n])
             /\ \A i \in 1..Len(U[k]) : U[k][i] = U[n][i]
  <2>1. IsSeq(U[k]) /\ IsPrefix(U[k], U[n])
    BY <1>2, <1>4
  <2>2. Len(U[k]) <= Len(U[n]) /\ \A i \in 1..Len(U[k]) : U[k][i] = U[n][i]
    BY <2>1, <1>4, PrefixIs, Zenon
  <2>3. Len(U[k]) \in Nat
    BY <2>1, SeqIs
  <2> QED
    BY <2>1, <2>2, <2>3, <1>5
<1> QED
  BY <1>3, <1>4, <1>5, <1>6 DEF n, U

\* What is behind in a file makes no difference.
LEMMA UnitsPart ==
  ASSUME NEW c, NEW d, IsSeq(c), IsSeq(d), IsPrefix(c, d)
  PROVE  Len(c) <= Len(d) /\ \A k \in 0..Len(c) : UnitsTo(d)[k] = UnitsTo(c)[k]
PROOF
<1> DEFINE n == Len(c)
           U == UnitsTo(c)
           W == UnitsTo(d)
           S == {k \in 0..n : W[k] = U[k]}
<1>1. n \in Nat /\ Len(d) \in Nat
  BY SeqIs, Zenon
<1>2. n <= Len(d) /\ \A i \in 1..n : c[i] = d[i]
  BY PrefixIs, Zenon
<1>3. U[0] = <<>> /\ \A k \in 1..n : U[k] = U[k - 1] \o Piece(c[k])
  BY UnitsStep, Zenon
<1>4. W[0] = <<>> /\ \A k \in 1..Len(d) : W[k] = W[k - 1] \o Piece(d[k])
  BY UnitsStep, Zenon
<1> HIDE DEF n, U, W
<1>5. 0 \in S
  BY <1>1, <1>3, <1>4
<1>6. ASSUME NEW k \in 0..(n - 1), k \in S PROVE k + 1 \in S
  <2>1. k + 1 \in 1..n /\ k + 1 \in 1..Len(d) /\ k + 1 \in 0..n /\ (k + 1) - 1 = k
    BY <1>1, <1>2
  <2>2. U[k + 1] = U[k] \o Piece(c[k + 1]) /\ W[k + 1] = W[k] \o Piece(d[k + 1])
    BY <1>3, <1>4, <2>1
  <2>3. c[k + 1] = d[k + 1] /\ W[k] = U[k]
    BY <1>2, <1>6, <2>1
  <2> QED
    BY <2>1, <2>2, <2>3
<1>7. \A k \in 0..n : k \in S
  <2> HIDE DEF S
  <2> QED
    BY <1>1, <1>5, <1>6, UpTo
<1> QED
  BY <1>2, <1>7 DEF n, U, W

\* One more token: a unit, or none.
LEMMA NextUnits ==
  ASSUME NEW c, IsSeq(c), NEW k \in 0..(Len(c) - 1)
  PROVE  /\ c[k + 1].t \in {"data", "bad"} =>
              LET u == IF c[k + 1].t = "data" THEN c[k + 1].u ELSE Bad
              IN /\ Len(UnitsTo(c)[k + 1]) = Len(UnitsTo(c)[k]) + 1
                 /\ UnitsTo(c)[k + 1][Len(UnitsTo(c)[k]) + 1] = u
                 /\ Units(c)[Len(UnitsTo(c)[k]) + 1] = u
         /\ c[k + 1].t \notin {"data", "bad"} => UnitsTo(c)[k + 1] = UnitsTo(c)[k]
PROOF
<1> DEFINE U == UnitsTo(c)
           x == c[k + 1]
           u == IF x.t = "data" THEN x.u ELSE Bad
<1>1. Len(c) \in Nat
  BY SeqIs, Zenon
<1>2. k \in 0..Len(c) /\ k + 1 \in 1..Len(c) /\ k + 1 \in 0..Len(c) /\ (k + 1) - 1 = k
  BY <1>1
<1>3. U[k + 1] = U[(k + 1) - 1] \o Piece(x)
  BY <1>2, UnitsStep, Zenon
<1>4. U[k + 1] = U[k] \o Piece(x)
  BY <1>2, <1>3
<1>5. IsSeq(U[k]) /\ IsSeq(U[k + 1]) /\ \A i \in 1..Len(U[k + 1]) : U[k + 1][i] = Units(c)[i]
  BY <1>2, UnitsAre, Zenon
<1> HIDE DEF U, x
<1>6. Len(U[k]) \in Nat
  BY <1>5, SeqIs
<1>7. ASSUME x.t \in {"data", "bad"}
      PROVE  /\ Len(U[k + 1]) = Len(U[k]) + 1 /\ U[k + 1][Len(U[k]) + 1] = u
             /\ Units(c)[Len(U[k]) + 1] = u
  <2>1. Piece(x) = <<u>>
    BY <1>7 DEF Piece
  <2> HIDE DEF u
  <2>2. IsSeq(<<u>>) /\ Len(<<u>>) = 1 /\ <<u>>[1] = u
    BY SmallSeq
  <2> DEFINE v == <<u>>
  <2>3. IsSeq(v) /\ Len(v) = 1 /\ v[1] = u /\ U[k + 1] = U[k] \o v
    BY <2>1, <2>2, <1>4
  <2> HIDE DEF v
  <2> DEFINE w == U[k]
  <2>40. IsSeq(w) /\ IsSeq(v)
    BY <2>3, <1>5
  <2> HIDE DEF w
  <2>41. /\ IsSeq(w \o v) /\ Len(w \o v) = Len(w) + Len(v)
         /\ \A i \in 1..Len(w) : (w \o v)[i] = w[i]
         /\ \A i \in 1..Len(v) : (w \o v)[Len(w) + i] = v[i]
    BY <2>40, JoinSeq
  <2>4. /\ Len(U[k] \o v) = Len(U[k]) + Len(v)
        /\ \A i \in 1..Len(v) : (U[k] \o v)[Len(U[k]) + i] = v[i]
    BY <2>41 DEF w
  <2>5. Len(U[k + 1]) = Len(U[k]) + 1 /\ U[k + 1][Len(U[k]) + 1] = u
    BY <2>3, <2>4
  <2>6. Len(U[k]) + 1 \in 1..Len(U[k + 1])
    BY <2>5, <1>6
  <2> QED
    BY <2>5, <2>6, <1>5
<1>8. ASSUME x.t \notin {"data", "bad"} PROVE U[k + 1] = U[k]
  <2>1. Piece(x) = <<>>
    BY <1>8 DEF Piece
  <2>2. IsSeq(U[k]) /\ U[k + 1] = U[k] \o <<>>
    BY <2>1, <1>4, <1>5
  <2>3. U[k] \in Seq(Range(U[k]))
    BY <2>2 DEF IsSeq
  <2> QED
    BY <2>2, <2>3
<1> QED
  BY <1>7, <1>8, Zenon DEF U, x, u

\* A chunk of data of a file is one more unit, and one that can be read; a chunk that is
\* none and no damage is no unit.
LEMMA GotMore ==
  ASSUME NEW c, IsFile(c), NEW k \in 0..(Len(c) - 1)
  PROVE  LET n == Len(UnitsTo(c)[k])
         IN /\ n \in Nat
            /\ c[k + 1].t = "data" =>
                 /\ Len(UnitsTo(c)[k + 1]) = n + 1 /\ n + 1 \in 1..Len(Units(c))
                 /\ Units(c)[n + 1] = c[k + 1].u /\ c[k + 1].u # Bad
            /\ c[k + 1].t \in {"id", "eof", "idx"} => Len(UnitsTo(c)[k + 1]) = n
PROOF
<1> DEFINE n == Len(UnitsTo(c)[k])
           m == Len(UnitsTo(c)[k + 1])
           x == c[k + 1]
<1>1. IsSeq(c) /\ Len(c) \in Nat /\ \A i \in 1..Len(c) : IsToken(c[i])
  BY FileIs
<1>2. k \in 0..Len(c) /\ k + 1 \in 1..Len(c) /\ k + 1 \in 0..Len(c)
  BY <1>1
<1>3. n \in 0..Len(Units(c)) /\ m \in 0..Len(Units(c)) /\ Len(Units(c)) \in Nat
  BY <1>1, <1>2, UnitsAre
<1>4. /\ x.t \in {"data", "bad"} => m = n + 1 /\ Units(c)[n + 1] = IF x.t = "data" THEN x.u ELSE Bad
      /\ x.t \notin {"data", "bad"} => m = n
  BY <1>1, NextUnits
<1>5. x.t = "data" => x.u # Bad
  <2>1. IsToken(x)
    BY <1>1, <1>2
  <2> HIDE DEF x
  <2>2. x.t = "data" => x.u.t = "unit"
    BY <2>1 DEF IsToken
  <2> QED
    BY <2>2 DEF Bad
<1> HIDE DEF n, m, x
<1> QED
  BY <1>3, <1>4, <1>5 DEF n, m, x

\* A file without damage has units that can all be read.
LEMMA GoodUnits ==
  ASSUME NEW c, IsFile(c), \A k \in 1..Len(c) : c[k].t # "bad"
  PROVE  \A i \in 1..Len(Units(c)) : Units(c)[i] # Bad
PROOF
<1> DEFINE n == Len(c)
           U == UnitsTo(c)
           S == {k \in 0..n : \A i \in 1..Len(U[k]) : U[k][i] # Bad}
<1>1. IsSeq(c) /\ n \in Nat /\ \A i \in 1..n : IsToken(c[i])
  BY FileIs
<1>2. U[0] = <<>> /\ Len(<<>>) = 0
  BY <1>1, UnitsStep, SmallSeq
<1>3. ASSUME NEW k \in 0..(n - 1), k \in S PROVE k + 1 \in S
  <2> DEFINE v == U[k]
             w == U[k + 1]
             x == c[k + 1]
  <2>1. k \in 0..n /\ k + 1 \in 0..n /\ k \in 0..(k + 1) /\ k + 1 \in 1..n
    BY <1>1
  <2>2. IsSeq(v) /\ IsSeq(w) /\ IsPrefix(v, w)
    BY <1>1, <2>1, UnitsStep, UnitsGrow
  <2>3. x.t # "bad" /\ IsToken(x)
    BY <1>1, <2>1
  <2>4. /\ x.t = "data" => Len(w) = Len(v) + 1 /\ w[Len(v) + 1] = x.u
        /\ x.t # "data" => w = v
    BY <1>1, <2>3, NextUnits
  <2>5. \A i \in 1..Len(v) : v[i] # Bad
    BY <1>3
  <2> HIDE DEF v, w, x
  <2>6. x.t = "data" => x.u # Bad
    <3>1. x.t = "data" => x.u.t = "unit"
      BY <2>3 DEF IsToken
    <3> QED
      BY <3>1 DEF Bad
  <2>7. Len(v) \in Nat /\ \A i \in 1..Len(v) : v[i] = w[i]
    BY <2>2, SeqIs, PrefixIs
  <2>8. \A i \in 1..Len(w) : w[i] # Bad
    <3>1. CASE x.t = "data"
      BY <3>1, <2>4, <2>5, <2>6, <2>7
    <3>2. CASE x.t # "data"
      BY <3>2, <2>4, <2>5
    <3> QED
      BY <3>1, <3>2
  <2> QED
    BY <2>1, <2>8 DEF w
<1>4. 0 \in S
  BY <1>1, <1>2
<1>5. n \in S
  <2>1. \A k \in 0..n : k \in S
    <3> HIDE DEF S, n
    <3> QED
      BY <1>1, <1>3, <1>4, UpTo
  <2>2. n \in 0..n
    BY <1>1
  <2> HIDE DEF S
  <2> QED
    BY <2>1, <2>2
<1> QED
  BY <1>5 DEF Units

\* A whole file is one.
LEMMA WholeGood ==
  ASSUME NEW c, IsFile(c), Whole(c)
  PROVE  \A i \in 1..Len(Units(c)) : Units(c)[i] # Bad
PROOF
<1>1. ASSUME NEW k \in 1..Len(c) PROVE c[k].t # "bad"
  <2>1. Sound(c, k)
    BY DEF Whole
  <2> QED
    BY <2>1 DEF Sound, Id, Eof
<1> QED
  BY <1>1, GoodUnits

\* The units of one stream with its index: as many as the index counts, one per token
\* behind the identifier.
LEMMA IndexedIs ==
  ASSUME NEW c, IsFile(c), Indexed(c)
  PROVE  /\ Len(c) - 3 \in Nat /\ Len(Units(c)) = Len(c) - 3 /\ Last(c).n = Len(c) - 3
         /\ \A k \in 0..(Len(c) - 3) : Len(UnitsTo(c)[k + 1]) = k
PROOF
<1> DEFINE n == Len(c) - 3
           U == UnitsTo(c)
           S == {k \in 0..n : Len(U[k + 1]) = k}
<1>1. IsSeq(c) /\ Len(c) \in Nat
  BY FileIs
<1>2. /\ n >= 0 /\ c[1] = Id /\ c[n + 2] = Eof(n) /\ c[n + 3] = Idx(n)
      /\ \A i \in 2..(n + 1) : c[i].t \in {"data", "bad"}
  BY DEF Indexed
<1>3. n \in Nat /\ Len(c) = n + 3
  BY <1>1, <1>2
<1>4. \A k \in 0..(n + 2) :
        /\ c[k + 1].t \in {"data", "bad"} => Len(U[k + 1]) = Len(U[k]) + 1
        /\ c[k + 1].t \notin {"data", "bad"} => U[k + 1] = U[k]
  <2> TAKE k \in 0..(n + 2)
  <2>1. k \in 0..(Len(c) - 1)
    BY <1>3
  <2> QED
    BY <2>1, <1>1, NextUnits
<1>5. U[0] = <<>> /\ Len(<<>>) = 0
  BY <1>1, UnitsStep, SmallSeq
<1> HIDE DEF n, U
<1>6. 0 \in S
  <2>1. c[1].t \notin {"data", "bad"}
    BY <1>2 DEF Id
  <2>2. 0 \in 0..(n + 2) /\ 0 + 1 = 1
    BY <1>3
  <2>3. U[1] = U[0]
    BY <2>1, <2>2, <1>4
  <2> QED
    BY <2>3, <1>3, <1>5
<1>7. ASSUME NEW k \in 0..(n - 1), k \in S PROVE k + 1 \in S
  <2>1. k + 1 \in 0..(n + 2) /\ (k + 1) + 1 \in 2..(n + 1) /\ k + 1 \in 0..n /\ k \in Nat
    BY <1>3
  <2>2. Len(U[(k + 1) + 1]) = Len(U[k + 1]) + 1
    BY <2>1, <1>2, <1>4
  <2> QED
    BY <2>1, <2>2, <1>7
<1>8. \A k \in 0..n : k \in S
  <2> HIDE DEF S
  <2> QED
    BY <1>3, <1>6, <1>7, UpTo
<1>9. Len(U[n + 1]) = n
  BY <1>3, <1>8
<1>10. U[n + 3] = U[n + 2] /\ U[n + 2] = U[n + 1]
  <2>1. c[n + 2].t \notin {"data", "bad"} /\ c[n + 3].t \notin {"data", "bad"}
    BY <1>2 DEF Eof, Idx
  <2>2. n + 1 \in 0..(n + 2) /\ n + 2 \in 0..(n + 2) /\ (n + 1) + 1 = n + 2 /\ (n + 2) + 1 = n + 3
    BY <1>3
  <2> QED
    BY <2>1, <2>2, <1>4
<1>11. Units(c) = U[n + 3]
  BY <1>3 DEF Units, U
<1>12. Last(c).n = n
  <2>1. Last(c) = c[n + 3]
    BY <1>3 DEF Last
  <2> QED
    BY <2>1, <1>2 DEF Idx
<1> QED
  BY <1>3, <1>8, <1>9, <1>10, <1>11, <1>12 DEF n, U

\* Where a stream begins and ends, and what it counts, one token on.
LEMMA TracksStep ==
  ASSUME NEW c, NEW k \in Nat \ {0}
  PROVE  /\ Inside(c, k + 1) <=> c[k] = Id \/ (Inside(c, k) /\ c[k].t # "eof")
         /\ Before(c, k) \in Nat
         /\ Before(c, k + 1) = IF c[k] = Id THEN 0
                               ELSE IF c[k].t = "data" THEN Before(c, k) + 1 ELSE Before(c, k)
PROOF
<1>1. (k + 1) - 1 = k /\ \A j : j \in 1..k <=> j = k \/ j \in 1..(k - 1)
  OBVIOUS
<1>2. ASSUME Inside(c, k + 1) PROVE c[k] = Id \/ (Inside(c, k) /\ c[k].t # "eof")
  <2>1. PICK i \in 1..k : c[i] = Id /\ \A j \in (i + 1)..k : c[j].t # "eof"
    BY <1>1, <1>2 DEF Inside
  <2>2. CASE i = k
    BY <2>1, <2>2
  <2>3. CASE i # k
    <3>1. i \in 1..(k - 1) /\ k \in (i + 1)..k /\ \A j \in (i + 1)..(k - 1) : j \in (i + 1)..k
      BY <2>3
    <3> QED
      BY <2>1, <3>1 DEF Inside
  <2> QED
    BY <2>2, <2>3
<1>3. ASSUME c[k] = Id PROVE Inside(c, k + 1)
  <2>1. k \in 1..k /\ \A j \in (k + 1)..k : FALSE
    OBVIOUS
  <2> QED
    BY <1>1, <1>3, <2>1 DEF Inside
<1>4. ASSUME Inside(c, k), c[k].t # "eof" PROVE Inside(c, k + 1)
  <2>1. PICK i \in 1..(k - 1) : c[i] = Id /\ \A j \in (i + 1)..(k - 1) : c[j].t # "eof"
    BY <1>4 DEF Inside
  <2>2. i \in 1..k /\ \A j \in (i + 1)..k : j = k \/ j \in (i + 1)..(k - 1)
    OBVIOUS
  <2>3. \A j \in (i + 1)..k : c[j].t # "eof"
    BY <2>1, <2>2, <1>4
  <2> QED
    BY <1>1, <2>1, <2>2, <2>3 DEF Inside
<1> DEFINE B(n) == {j \in 1..n : c[j].t = "data" /\ \A i \in (j + 1)..n : c[i] # Id}
<1>5. Before(c, k) = Cardinality(B(k - 1)) /\ Before(c, k + 1) = Cardinality(B(k))
  BY <1>1 DEF Before
<1>6. IsFiniteSet(B(k - 1)) /\ k \notin B(k - 1)
  <2>1. IsFiniteSet(1..(k - 1))
    BY FS_Interval
  <2>2. B(k - 1) \in SUBSET (1..(k - 1)) /\ k \notin 1..(k - 1)
    OBVIOUS
  <2> HIDE DEF B
  <2> QED
    BY <2>1, <2>2, FS_Subset
<1>7. Cardinality(B(k - 1)) \in Nat
  <2> HIDE DEF B
  <2> QED
    BY <1>6, FS_CardinalityType
<1>8. CASE c[k] = Id
  <2>1. B(k) = {}
    <3> SUFFICES ASSUME NEW j \in B(k) PROVE FALSE
      OBVIOUS
    <3>1. j # k
      BY <1>8 DEF Id
    <3>2. k \in (j + 1)..k
      BY <3>1
    <3> QED
      BY <3>2, <1>8
  <2> HIDE DEF B
  <2> QED
    BY <2>1, <1>2, <1>3, <1>5, <1>7, <1>8, FS_EmptySet
<1>9. CASE c[k] # Id
  <2>1. ASSUME NEW j \in 1..(k - 1) PROVE j \in B(k) <=> j \in B(k - 1)
    <3>1. j \in 1..k /\ \A i : i \in (j + 1)..k <=> i = k \/ i \in (j + 1)..(k - 1)
      OBVIOUS
    <3> QED
      BY <3>1, <1>9
  <2>2. k \in B(k) <=> c[k].t = "data"
    OBVIOUS
  <2>3. B(k) \in SUBSET (1..k) /\ B(k - 1) \in SUBSET (1..(k - 1))
    OBVIOUS
  <2> HIDE DEF B
  <2>4. \A j : j \in B(k) <=> j \in B(k - 1) \/ (j = k /\ c[k].t = "data")
    BY <1>1, <2>1, <2>2, <2>3
  <2>5. CASE c[k].t = "data"
    <3>1. B(k) = B(k - 1) \cup {k}
      BY <2>4, <2>5
    <3>2. Cardinality(B(k)) = Cardinality(B(k - 1)) + 1
      BY <3>1, <1>6, FS_AddElement
    <3> QED
      BY <3>2, <2>5, <1>2, <1>4, <1>5, <1>7, <1>9
  <2>6. CASE c[k].t # "data"
    <3>1. B(k) = B(k - 1)
      BY <2>4, <2>6
    <3> QED
      BY <3>1, <2>6, <1>2, <1>4, <1>5, <1>7, <1>9
  <2> QED
    BY <2>5, <2>6
<1> QED
  BY <1>8, <1>9

\* Nothing read yet.
LEMMA TracksNone == ASSUME NEW c, IsSeq(c) PROVE Tracks(c, 0, FALSE, 0)
PROOF
<1>1. Len(c) \in Nat
  BY SeqIs, Zenon
<1>2. ~Inside(c, 0 + 1)
  BY DEF Inside
<1>3. {j \in 1..((0 + 1) - 1) : c[j].t = "data" /\ \A i \in (j + 1)..((0 + 1) - 1) : c[i] # Id} = {}
  OBVIOUS
<1>4. Before(c, 0 + 1) = 0
  BY <1>3, FS_EmptySet, Zenon DEF Before
<1> QED
  BY <1>1, <1>2, <1>4 DEF Tracks

\* A reader that has come to the end of a file, in no stream, has read all of it.
LEMMA TracksEnd ==
  ASSUME NEW c, IsSeq(c), NEW p, NEW n, Tracks(c, p, FALSE, n), p >= Len(c)
  PROVE  p = Len(c) /\ Whole(c) /\ UnitsTo(c)[p] = Units(c)
PROOF
<1>1. Len(c) \in Nat
  BY SeqIs, Zenon
<1>2. p \in 0..Len(c) /\ ~Inside(c, p + 1) /\ \A k \in 1..p : Sound(c, k)
  BY DEF Tracks
<1>3. p = Len(c)
  BY <1>1, <1>2
<1>4. Whole(c)
  BY <1>2, <1>3 DEF Whole
<1> QED
  BY <1>3, <1>4 DEF Units

\* A stream of all the data stands for it.
LEMMA AllStands == ASSUME NEW o, NEW c, IsSeq(o), IsSeq(c), IsAll(o, c) PROVE Stands(o, c)
PROOF
<1> DEFINE n == Len(c)
<1>1. n \in Nat /\ Len(o) \in Nat
  BY SeqIs, Zenon
<1>2. /\ Len(o) >= n + 2 /\ o[1] = Id /\ o[n + 2] = Eof(n)
      /\ \A i \in 1..n : o[i + 1] = Data(c[i])
      /\ \A i \in (n + 3)..Len(o) : o[i].t = "idx"
  BY DEF IsAll
<1> HIDE DEF n
<1>3. \A i \in 2..(n + 1) : o[i].t = "data" /\ o[i].u = c[i - 1]
  <2> TAKE i \in 2..(n + 1)
  <2>1. i - 1 \in 1..n /\ (i - 1) + 1 = i
    BY <1>1
  <2>2. o[i] = Data(c[i - 1])
    BY <1>2, <2>1
  <2> QED
    BY <2>2 DEF Data
<1>4. o[1].t = "id" /\ o[n + 2].t = "eof"
  BY <1>2 DEF Id, Eof
<1>5. \A i \in 1..Len(o) : i = 1 \/ i \in 2..(n + 1) \/ i = n + 2 \/ i \in (n + 3)..Len(o)
  BY <1>1
<1>6. \A i \in 2..Len(o) : o[i] # Id
  <2> TAKE i \in 2..Len(o)
  <2>1. i \in 2..(n + 1) \/ i = n + 2 \/ i \in (n + 3)..Len(o)
    BY <1>1
  <2>2. o[i].t # "id"
    BY <2>1, <1>2, <1>3, <1>4
  <2> QED
    BY <2>2 DEF Id
<1>7. ASSUME NEW k \in 2..(n + 1) PROVE Sound(o, k)
  <2>1. 1 \in 1..(k - 1) /\ \A j \in 2..(k - 1) : j \in 2..(n + 1)
    BY <1>1
  <2>2. 1 + 1 = 2
    OBVIOUS
  <2>3. Inside(o, k)
    BY <1>2, <1>3, <2>1, <2>2 DEF Inside
  <2> QED
    BY <2>3, <1>3 DEF Sound
<1>8. Before(o, n + 2) = n
  <2> DEFINE B == {j \in 1..((n + 2) - 1) : o[j].t = "data" /\ \A i \in (j + 1)..((n + 2) - 1) : o[i] # Id}
  <2>1. ASSUME NEW j \in 2..(n + 1) PROVE j \in B
    <3>1. j \in 1..((n + 2) - 1) /\ \A i \in (j + 1)..((n + 2) - 1) : i \in 2..Len(o)
      BY <1>1, <1>2
    <3> QED
      BY <3>1, <1>3, <1>6
  <2>2. ASSUME NEW j \in B PROVE j \in 2..(n + 1)
    <3>1. j \in 1..(n + 1) /\ j # 1
      BY <1>1, <1>4
    <3> QED
      BY <3>1, <1>1
  <2>3. B = 2..(n + 1)
    <3> HIDE DEF B
    <3> QED
      BY <2>1, <2>2
  <2>4. Cardinality(2..(n + 1)) = IF 2 > n + 1 THEN 0 ELSE (n + 1) - 2 + 1
    BY <1>1, FS_Interval
  <2>5. Cardinality(2..(n + 1)) = n
    BY <2>4, <1>1
  <2> QED
    BY <2>3, <2>5 DEF Before
<1>9. \A k \in 1..Len(o) : Sound(o, k)
  <2> TAKE k \in 1..Len(o)
  <2>1. CASE k = 1
    BY <2>1, <1>2 DEF Sound
  <2>2. CASE k \in 2..(n + 1)
    BY <2>2, <1>7
  <2>3. CASE k = n + 2
    BY <2>3, <1>2, <1>8 DEF Sound
  <2>4. CASE k \in (n + 3)..Len(o)
    BY <2>4, <1>2 DEF Sound
  <2> QED
    BY <2>1, <2>2, <2>3, <2>4, <1>5
<1>10. ~Inside(o, Len(o) + 1)
  <2> SUFFICES ASSUME NEW i \in 1..((Len(o) + 1) - 1), o[i] = Id,
                      \A j \in (i + 1)..((Len(o) + 1) - 1) : o[j].t # "eof"
               PROVE  FALSE
    BY DEF Inside
  <2>1. i = 1
    BY <1>1, <1>6
  <2>2. n + 2 \in (i + 1)..((Len(o) + 1) - 1)
    BY <2>1, <1>1, <1>2
  <2> QED
    BY <2>2, <1>4
<1>11. Whole(o)
  BY <1>9, <1>10 DEF Whole
<1> DEFINE U == UnitsTo(o)
           S == {k \in 0..n : Len(U[k + 1]) = k /\ \A i \in 1..k : U[k + 1][i] = c[i]}
<1>12. \A k \in 0..(Len(o) - 1) :
         /\ o[k + 1].t = "data" => Len(U[k + 1]) = Len(U[k]) + 1 /\ U[k + 1][Len(U[k]) + 1] = o[k + 1].u
         /\ o[k + 1].t \notin {"data", "bad"} => U[k + 1] = U[k]
  <2> TAKE k \in 0..(Len(o) - 1)
  <2> QED
    BY NextUnits
<1>13. /\ U[0] = <<>> /\ Len(<<>>) = 0
       /\ \A k \in 0..Len(o) : IsSeq(U[k]) /\ \A j \in 0..k : IsPrefix(U[j], U[k])
  BY UnitsStep, UnitsGrow, SmallSeq
<1>14. Units(o) = U[Len(o)]
  BY DEF Units
<1> HIDE DEF U
<1>15. 0 \in S
  <2>1. 0 \in 0..(Len(o) - 1) /\ 0 + 1 = 1
    BY <1>1, <1>2
  <2>2. U[1] = U[0]
    BY <2>1, <1>4, <1>12
  <2> QED
    BY <2>2, <1>1, <1>13
<1>16. ASSUME NEW k \in 0..(n - 1), k \in S PROVE k + 1 \in S
  <2>1. /\ k + 1 \in 0..(Len(o) - 1) /\ (k + 1) + 1 \in 2..(n + 1) /\ k + 1 \in 0..n /\ k \in Nat
        /\ ((k + 1) + 1) - 1 = k + 1
    BY <1>1, <1>2
  <2>2. o[(k + 1) + 1].t = "data" /\ o[(k + 1) + 1].u = c[k + 1]
    BY <2>1, <1>3
  <2>3. Len(U[(k + 1) + 1]) = Len(U[k + 1]) + 1 /\ U[(k + 1) + 1][Len(U[k + 1]) + 1] = c[k + 1]
    BY <2>1, <2>2, <1>12
  <2>4. Len(U[k + 1]) = k /\ \A i \in 1..k : U[k + 1][i] = c[i]
    BY <1>16
  <2> DEFINE v == U[k + 1]
             w == U[(k + 1) + 1]
  <2>5. IsSeq(v) /\ IsSeq(w) /\ IsPrefix(v, w)
    <3>1. (k + 1) + 1 \in 0..Len(o) /\ k + 1 \in 0..((k + 1) + 1) /\ k + 1 \in 0..Len(o)
      BY <2>1, <1>1, <1>2
    <3> QED
      BY <3>1, <1>13
  <2>6. Len(v) = k /\ Len(w) = k + 1 /\ w[k + 1] = c[k + 1] /\ \A i \in 1..k : v[i] = c[i]
    BY <2>3, <2>4
  <2> HIDE DEF v, w
  <2>7. \A i \in 1..Len(v) : v[i] = w[i]
    BY <2>5, PrefixIs
  <2>8. \A i \in 1..(k + 1) : w[i] = c[i]
    BY <2>1, <2>6, <2>7
  <2> QED
    BY <2>1, <2>6, <2>8 DEF w
<1>17. n \in S
  <2>1. \A k \in 0..n : k \in S
    <3> HIDE DEF S
    <3> QED
      BY <1>1, <1>15, <1>16, UpTo
  <2>2. n \in 0..n
    BY <1>1
  <2> HIDE DEF S
  <2> QED
    BY <2>1, <2>2
<1>19. \A k \in (n + 1)..Len(o) : U[k] = U[n + 1]
  <2> DEFINE T == {k \in Nat : n + 1 + k <= Len(o) => U[n + 1 + k] = U[n + 1]}
             l == Len(o) - (n + 1)
  <2>1. l \in Nat
    BY <1>1, <1>2
  <2>2. 0 \in T
    BY <1>1
  <2>3. ASSUME NEW k \in 0..(l - 1), k \in T PROVE k + 1 \in T
    <3>1. /\ n + 1 + k \in 0..(Len(o) - 1) /\ n + 1 + (k + 1) = (n + 1 + k) + 1
          /\ (n + 1 + k) + 1 \in (n + 2)..Len(o) /\ n + 1 + k <= Len(o) /\ k + 1 \in Nat
      BY <2>1, <1>1, <1>2
    <3>2. o[(n + 1 + k) + 1].t \notin {"data", "bad"}
      <4>1. (n + 1 + k) + 1 = n + 2 \/ (n + 1 + k) + 1 \in (n + 3)..Len(o)
        BY <3>1, <1>1
      <4> QED
        BY <4>1, <1>2, <1>4
    <3>3. U[(n + 1 + k) + 1] = U[n + 1 + k] /\ U[n + 1 + k] = U[n + 1]
      BY <3>1, <3>2, <1>12, <2>3
    <3> QED
      BY <3>1, <3>3
  <2>4. \A k \in 0..l : k \in T
    <3> HIDE DEF T, l
    <3> QED
      BY <2>1, <2>2, <2>3, UpTo
  <2> TAKE k \in (n + 1)..Len(o)
  <2>5. k - (n + 1) \in 0..l /\ n + 1 + (k - (n + 1)) = k /\ k <= Len(o)
    BY <1>1
  <2>6. k - (n + 1) \in T
    BY <2>4, <2>5
  <2> QED
    BY <2>5, <2>6
<1>20. U[Len(o)] = U[n + 1] /\ IsSeq(U[n + 1])
  <2>1. Len(o) \in (n + 1)..Len(o) /\ n + 1 \in 0..Len(o)
    BY <1>1, <1>2
  <2> QED
    BY <2>1, <1>13, <1>19
<1> DEFINE u == U[n + 1]
<1>21. IsSeq(u) /\ Len(u) = n /\ \A i \in 1..n : u[i] = c[i]
  BY <1>17, <1>20
<1> HIDE DEF u
<1>22. u = c
  BY <1>21, SameSeq DEF n
<1> QED
  BY <1>11, <1>14, <1>20, <1>22 DEF Stands, u

\* The number an option has.
LEMMA NumberIs ==
  ASSUME OptionsOk(opts)
  PROVE  /\ opts.offset # <<>> => opts.offset[1] \in Nat
         /\ opts.tail # <<>> => opts.tail[1] \in Nat
         /\ opts.nl \in BOOLEAN /\ opts.follow \in BOOLEAN /\ opts.verify \in BOOLEAN
PROOF
<1>1. /\ opts.offset \in Numbers /\ opts.tail \in Numbers
      /\ opts.nl \in BOOLEAN /\ opts.follow \in BOOLEAN /\ opts.verify \in BOOLEAN
  BY DEF OptionsOk, Options
<1>2. ASSUME NEW s \in Numbers, s # <<>> PROVE s[1] \in Nat
  BY <1>2 DEF Numbers
<1> QED
  BY <1>1, <1>2

\* Where the range begins and ends.
LEMMA RangeIs ==
  ASSUME NEW us, IsSeq(us), OptionsOk(opts)
  PROVE  /\ From(opts, us) \in Nat /\ To(opts, us) \in 0..Len(us)
         /\ From(opts, us) <= Len(us) => From(opts, us) <= To(opts, us)
PROOF
<1> DEFINE n == Len(us)
           a == opts.offset[1]
           t == opts.tail[1]
<1>1. n \in Nat
  BY SeqIs, Zenon
<1>2. (opts.offset # <<>> => a \in Nat) /\ (opts.tail # <<>> => t \in Nat)
  BY NumberIs
<1>3. opts.tail # <<>> => Min({t, n}) = IF t <= n THEN t ELSE n
  BY <1>1, <1>2, MinPair
<1>4. opts.offset # <<>> /\ opts.tail # <<>> => Min({a + t, n}) = IF a + t <= n THEN a + t ELSE n
  <2> SUFFICES ASSUME opts.offset # <<>>, opts.tail # <<>> PROVE Min({a + t, n}) = IF a + t <= n THEN a + t ELSE n
    OBVIOUS
  <2>1. a + t \in Nat /\ n \in Nat
    BY <1>1, <1>2
  <2> HIDE DEF a, t, n
  <2> QED
    BY <2>1, MinPair
<1>5. From(opts, us) = IF opts.offset # <<>> THEN a ELSE IF opts.tail # <<>> THEN n - Min({t, n}) ELSE 0
  BY Zenon DEF From
<1>6. To(opts, us) = IF opts.offset # <<>> /\ opts.tail # <<>> THEN Min({a + t, n}) ELSE n
  BY Zenon DEF To
<1> HIDE DEF n, a, t
<1>7. From(opts, us) \in Nat
  BY <1>1, <1>2, <1>3, <1>5
<1>8. To(opts, us) \in 0..n /\ (From(opts, us) <= n => From(opts, us) <= To(opts, us))
  BY <1>1, <1>2, <1>3, <1>4, <1>5, <1>6
<1> QED
  BY <1>7, <1>8 DEF n

\* What a reader of the range should get begins where its output does.
LEMMA WantedIs ==
  ASSUME NEW us, IsSeq(us), OptionsOk(opts), NEW m \in Nat, Begins(opts, us, m)
  PROVE  Wanted(us) = SubSeq(us, m + 1, To(opts, us))
PROOF
<1> DEFINE total == Len(us)
           start == IF opts.offset # <<>> THEN opts.offset[1]
                    ELSE IF opts.tail # <<>> THEN total - Min({opts.tail[1], total}) ELSE 0
           lines == {i \in (start + 1)..total : us[i] = Unit(0)}
           first == IF ~opts.nl THEN start + 1
                    ELSE IF lines = {} THEN total + 1
                    ELSE 1 + Min(lines)
           last == IF opts.offset # <<>> /\ opts.tail # <<>>
                   THEN Min({total, start + opts.tail[1]}) ELSE total
<1>1. Wanted(us) = SubSeq(us, first, last)
  BY Zenon DEF Wanted
<1>2. total \in Nat
  BY SeqIs, Zenon
<1>3. start = From(opts, us)
  BY Zenon DEF From
<1>4. From(opts, us) \in Nat
  BY RangeIs
<1>5. last = To(opts, us)
  <2>1. CASE opts.offset # <<>> /\ opts.tail # <<>>
    <3>1. last = Min({total, opts.offset[1] + opts.tail[1]}) /\ To(opts, us) = Min({opts.offset[1] + opts.tail[1], total})
      BY <2>1, Zenon DEF To
    <3>2. {total, opts.offset[1] + opts.tail[1]} = {opts.offset[1] + opts.tail[1], total}
      OBVIOUS
    <3> QED
      BY <3>1, <3>2, Zenon
  <2>2. CASE ~(opts.offset # <<>> /\ opts.tail # <<>>)
    BY <2>2, Zenon DEF To
  <2> QED
    BY <2>1, <2>2
<1> HIDE DEF start, last
<1>6. first = m + 1
  <2>1. CASE ~opts.nl
    <3>1. m = From(opts, us)
      BY <2>1 DEF Begins
    <3> QED
      BY <2>1, <3>1, <1>3
  <2>2. CASE opts.nl
    <3> DEFINE a == From(opts, us)
    <3>0. a \in Nat /\ start = a
      BY <1>3, <1>4
    <3>1. CASE m > a /\ m <= total /\ us[m] = Unit(0) /\ NoLine(us, a, m - 1)
      <4> HIDE DEF a, total
      <4>1. m \in lines
        BY <3>0, <3>1, <1>2
      <4>2. \A i \in lines : m <= i
        <5> SUFFICES ASSUME NEW i \in lines, i < m PROVE FALSE
          BY <3>0, <1>2
        <5>1. i \in (a + 1)..(m - 1) /\ us[i] = Unit(0)
          BY <3>0
        <5> QED
          BY <5>1, <3>1 DEF NoLine
      <4>3. lines \in SUBSET Nat /\ lines # {}
        BY <4>1, <3>0
      <4> DEFINE k == Min(lines)
      <4>4. k \in lines /\ \A i \in lines : k <= i
        <5> HIDE DEF lines
        <5> QED
          BY <4>3, MinIs, Zenon
      <4>5. k \in Nat /\ m <= k /\ k <= m
        BY <4>1, <4>2, <4>3, <4>4
      <4>6. first = 1 + k
        BY <2>2, <4>3
      <4> HIDE DEF k, first
      <4> QED
        BY <4>5, <4>6
    <3>2. CASE ~opts.follow /\ m = total /\ NoLine(us, a, m)
      <4> HIDE DEF a
      <4>1. lines = {}
        BY <3>0, <3>2 DEF NoLine
      <4>2. first = total + 1
        BY <2>2, <4>1
      <4> QED
        BY <3>2, <4>2
    <3> QED
      BY <2>2, <3>1, <3>2 DEF Begins
  <2> QED
    BY <2>1, <2>2, NumberIs
<1> QED
  BY <1>1, <1>5, <1>6

\* What a reader of the range has written is a beginning of it, and is all of it
\* at the end.
LEMMA ShowsWanted ==
  ASSUME NEW us, IsSeq(us), OptionsOk(opts), NEW m \in Nat, Begins(opts, us, m),
         NEW n, NEW o, Shows(o, us, m, n), n <= To(opts, us)
  PROVE  /\ IsPrefix(o, Wanted(us))
         /\ n = To(opts, us) => o = Wanted(us)
PROOF
<1> DEFINE l == To(opts, us)
           w == SubSeq(us, m + 1, l)
<1>1. Wanted(us) = w
  BY WantedIs, Zenon
<1>2. Len(us) \in Nat /\ l \in 0..Len(us)
  BY SeqIs, RangeIs
<1>3. /\ IsSeq(w) /\ Len(w) = (IF m + 1 <= l THEN l - (m + 1) + 1 ELSE 0)
      /\ \A i \in 1..Len(w) : w[i] = us[m + 1 + i - 1]
  <2>1. m + 1 \in Nat \ {0}
    OBVIOUS
  <2> QED
    BY <1>2, <2>1, CutSeq, Zenon
<1>4. /\ n \in Nat /\ m <= n /\ IsSeq(o) /\ Len(o) = n - m
      /\ \A i \in 1..(n - m) : o[i] = us[m + i]
  BY <1>2 DEF Shows, Reads
<1>5. l \in Nat /\ n <= l
  BY <1>2
<1> HIDE DEF l, w
<1>6. Len(w) = l - m
  BY <1>3, <1>4, <1>5
<1>7. \A i \in 1..(n - m) : o[i] = w[i]
  <2> TAKE i \in 1..(n - m)
  <2>1. i \in 1..Len(w) /\ m + 1 + i - 1 = m + i
    BY <1>4, <1>5, <1>6
  <2>2. w[i] = us[m + 1 + i - 1]
    BY <2>1, <1>3
  <2> QED
    BY <2>1, <2>2, <1>4
<1>8. Len(o) <= Len(w) /\ \A i \in 1..Len(o) : o[i] = w[i]
  BY <1>4, <1>5, <1>6, <1>7
<1>9. IsPrefix(o, w)
  BY <1>3, <1>4, <1>8, PrefixIs, Zenon
<1>10. n = l => o = w
  <2> SUFFICES ASSUME n = l PROVE o = w
    OBVIOUS
  <2>1. Len(o) = Len(w)
    BY <1>4, <1>6
  <2> QED
    BY <2>1, <1>3, <1>4, <1>8, SameSeq
<1> QED
  BY <1>1, <1>9, <1>10 DEF l

\* The range asked for is a sequence.
LEMMA WantedSeq ==
  ASSUME NEW us, IsSeq(us), OptionsOk(opts)
  PROVE  IsSeq(Wanted(us))
PROOF
<1> DEFINE total == Len(us)
           start == IF opts.offset # <<>> THEN opts.offset[1]
                    ELSE IF opts.tail # <<>> THEN total - Min({opts.tail[1], total}) ELSE 0
           lines == {i \in (start + 1)..total : us[i] = Unit(0)}
           first == IF ~opts.nl THEN start + 1
                    ELSE IF lines = {} THEN total + 1
                    ELSE 1 + Min(lines)
           last == IF opts.offset # <<>> /\ opts.tail # <<>>
                   THEN Min({total, start + opts.tail[1]}) ELSE total
<1>1. Wanted(us) = SubSeq(us, first, last)
  BY Zenon DEF Wanted
<1>2. total \in Nat
  BY SeqIs, Zenon
<1>3. /\ opts.offset # <<>> => opts.offset[1] \in Nat
      /\ opts.tail # <<>> => opts.tail[1] \in Nat
  BY NumberIs
<1> HIDE DEF total
<1>4. start \in Nat
  <2>1. opts.tail # <<>> => Min({opts.tail[1], total}) = IF opts.tail[1] <= total THEN opts.tail[1] ELSE total
    BY <1>2, <1>3, MinPair
  <2> QED
    BY <2>1, <1>2, <1>3
<1>5. last \in 0..total
  <2>1. CASE opts.offset # <<>> /\ opts.tail # <<>>
    <3> DEFINE b == start + opts.tail[1]
    <3> HIDE DEF start
    <3>1. b \in Nat
      BY <1>3, <1>4, <2>1
    <3>2. last = Min({total, b})
      BY <2>1
    <3> HIDE DEF b
    <3>3. Min({total, b}) = IF total <= b THEN total ELSE b
      BY <1>2, <3>1, MinPair
    <3> QED
      BY <3>1, <3>2, <3>3, <1>2
  <2>2. CASE ~(opts.offset # <<>> /\ opts.tail # <<>>)
    BY <2>2, <1>2
  <2> QED
    BY <2>1, <2>2
<1> HIDE DEF start, last
<1>6. first \in Nat \ {0}
  <2>1. lines \in SUBSET Nat
    BY <1>4
  <2>2. lines # {} => Min(lines) \in Nat
    <3> HIDE DEF lines
    <3> QED
      BY <2>1, MinIs
  <2> HIDE DEF lines
  <2> QED
    BY <2>2, <1>2, <1>4
<1> HIDE DEF first
<1>7. IsSeq(SubSeq(us, first, last))
  BY <1>2, <1>5, <1>6, CutSeq, Zenon DEF total
<1> QED
  BY <1>1, <1>7

\* The output begins with what is written of it, and is that without a buffer.
LEMMA OutIs ==
  ASSUME FilesInv, Began, made
  PROVE  /\ Target \in DOMAIN fs /\ IsSeq(fs[Target]) /\ IsSeq(buf)
         /\ IsSeq(Out) /\ IsPrefix(fs[Target], Out)
         /\ buf = <<>> => Out = fs[Target]
PROOF
<1>1. Target \in DOMAIN fs /\ IsSeq(fs[Target]) /\ IsSeq(buf)
  BY DEF FilesInv
<1>2. IsSeq(Out) /\ IsPrefix(fs[Target], Out)
  BY <1>1, JoinSeq, JoinPrefix, Zenon DEF Out
<1>3. ASSUME buf = <<>> PROVE Out = fs[Target]
  <2> DEFINE o == fs[Target]
             u == o \o buf
  <2>1. /\ IsSeq(u) /\ Len(u) = Len(o) + Len(buf)
        /\ \A i \in 1..Len(o) : u[i] = o[i]
    BY <1>1, JoinSeq, Zenon
  <2>2. Len(buf) = 0 /\ Len(o) \in Nat
    BY <1>1, <1>3, SmallSeq, SeqIs
  <2> HIDE DEF u
  <2>3. Len(u) = Len(o)
    BY <2>1, <2>2
  <2>4. u = o
    BY <2>1, <2>3, <1>1, SameSeq
  <2> QED
    BY <2>4 DEF u, Out
<1> QED
  BY <1>1, <1>2, <1>3

\* The range a decompression is to write.
Due == Wanted(Units(IF Following THEN Src ELSE found[input]))

\* A decompression of a stream, with a file it writes.
Writing ==
  /\ Began /\ input \in DOMAIN found /\ ~opts.bench /\ made /\ sub = "d"
  /\ ~Decodable(found[input]) /\ input \in DOMAIN fs /\ (Ranged => Rangeable /\ ~Unclear)

\* The input of such a command is a file.
LEMMA DueSeq ==
  ASSUME ArgInv, FilesInv, Writing
  PROVE  /\ IsFile(found[input]) /\ IsFile(Src) /\ IsSeq(Due) /\ OptionsOk(opts)
         /\ IsSeq(Units(found[input])) /\ IsSeq(Units(Src))
         /\ (~Following => Src = found[input]) /\ input # NoPath
PROOF
<1>1. OptionsOk(opts)
  BY DEF ArgInv, OptionsOk
<1>2. IsFile(found[input]) /\ input # NoPath
  BY FoundIs DEF Writing
<1>3. IsFile(Src) /\ (~Following => Src = found[input])
  BY DEF Writing, FilesInv, Src
<1>4. IsSeq(found[input]) /\ IsSeq(Src)
  BY <1>2, <1>3, FileIs
<1>5. IsSeq(Units(found[input])) /\ IsSeq(Units(Src))
  BY <1>4, UnitsAre
<1>6. IsSeq(Due)
  BY <1>1, <1>5, WantedSeq DEF Due
<1> QED
  BY <1>1, <1>2, <1>3, <1>5, <1>6

\* What is written while the command runs.
LEMMA LivePrefix ==
  ASSUME ArgInv, FilesInv, WorkInv, Live, Writing
  PROVE  IsPrefix(Out, Due)
PROOF
<1>1. /\ IsFile(found[input]) /\ IsFile(Src) /\ IsSeq(Due) /\ OptionsOk(opts)
      /\ IsSeq(Units(found[input])) /\ IsSeq(Units(Src))
      /\ (~Following => Src = found[input]) /\ input # NoPath
  BY DueSeq
<1>2. made /\ sub = "d" /\ ~opts.bench /\ ~Decodable(found[input]) /\ Began
  BY DEF Writing
<1>3. buf = <<>> => Out = fs[Target]
  BY <1>2, OutIs
<1>4. Kind \in {"dblock", "follow", "dstream", "refuse", "seek"}
  BY <1>1, <1>2 DEF Kind
<1>5. CASE Kind = "refuse"
  BY <1>2, <1>5 DEF WorkInv
<1>6. CASE Kind = "dblock"
  <2>1. DBlockInv
    BY <1>6 DEF WorkInv
  <2> QED
    BY <2>1, <1>2 DEF DBlockInv
<1>7. CASE Kind = "dstream"
  <2>1. DStreamInv /\ opts.offset = <<>> /\ opts.tail = <<>> /\ ~opts.follow
    BY <1>7, <1>1, <1>2 DEF WorkInv, Kind
  <2>2. ~opts.nl
    BY <2>1, <1>1 DEF OptionsOk
  <2> DEFINE us == Units(found[input])
  <2>3. Due = Wanted(us)
    BY <2>1 DEF Due, Following
  <2>4. \E n : Shows(Out, us, 0, n)
    <3>1. CASE Hd = "copy"
      BY <2>1, <3>1, <1>2 DEF DStreamInv
    <3>2. CASE Hd \in {"flush", "remove", "end"}
      <4>1. Out = us /\ Whole(found[input])
        BY <2>1, <3>2, <1>2, <1>3 DEF DStreamInv
      <4>2. Len(us) \in Nat /\ IsSeq(us)
        BY <1>1, SeqIs
      <4>3. \A i \in 1..Len(us) : us[i] # Bad
        BY <4>1, <1>1, WholeGood
      <4> HIDE DEF us
      <4>4. Shows(us, us, 0, Len(us))
        BY <4>2, <4>3 DEF Shows, Reads
      <4> QED
        BY <4>1, <4>4
    <3> QED
      BY <2>1, <3>1, <3>2, <1>2 DEF DStreamInv
  <2>5. PICK n : Shows(Out, us, 0, n)
    BY <2>4
  <2>6. Begins(opts, us, 0)
    BY <2>1, <2>2 DEF Begins, From
  <2>7. n <= To(opts, us)
    <3>1. n \in 0..Len(us) /\ Len(us) \in Nat
      BY <2>5, <1>1, SeqIs DEF Shows, Reads
    <3> QED
      BY <3>1, <2>1 DEF To
  <2>8. IsSeq(us) /\ 0 \in Nat
    BY <1>1
  <2> HIDE DEF us
  <2>9. IsPrefix(Out, Wanted(us))
    BY <2>5, <2>6, <2>7, <2>8, <1>1, ShowsWanted
  <2> QED
    BY <2>3, <2>9
<1>8. CASE Kind = "follow"
  <2>1. FollowInv /\ opts.follow /\ ~IsBlock(opts, input)
    BY <1>8, <1>1, <1>2 DEF WorkInv, Kind
  <2>2. Following
    BY <2>1, <1>2 DEF Following
  <2>3. opts.tail = <<>>
    BY <2>1, <1>2 DEF ArgInv, Live, Succeeded
  <2>4. CASE Hd # "copy"
    BY <2>1, <2>4, <1>1, <1>2, PrefixNone DEF FollowInv
  <2>5. CASE Hd = "copy"
    <3> DEFINE us == Units(Src)
               g == Got(Src)
    <3>1. opts.offset # <<>> => Indexed(held)
      BY <2>1, <2>2, <1>2 DEF Writing, Ranged, Rangeable
    <3>2. PICK m \in 0..g : Begins(opts, us, m) /\ Shows(Out, us, m, g)
      BY <2>1, <2>5, <3>1 DEF FollowInv, Src
    <3>3. IsSeq(us)
      BY <1>1
    <3> HIDE DEF us, g
    <3>4. g <= To(opts, us) /\ m \in Nat
      <4>1. g \in 0..Len(us) /\ Len(us) \in Nat
        BY <3>2, <3>3, SeqIs DEF Shows, Reads
      <4> QED
        BY <4>1, <2>3 DEF To
    <3>5. IsPrefix(Out, Wanted(us))
      BY <3>2, <3>3, <3>4, <1>1, ShowsWanted
    <3> QED
      BY <3>5, <2>2 DEF Due, us
  <2> QED
    BY <2>4, <2>5
<1>9. CASE Kind = "seek"
  <2>1. /\ SeekInv /\ ~opts.follow /\ ~IsBlock(opts, input)
        /\ opts.offset # <<>> \/ opts.tail # <<>>
    BY <1>9, <1>1, <1>2 DEF WorkInv, Kind
  <2> DEFINE us == Units(found[input])
             g == Got(found[input])
  <2>2. ~Following /\ Indexed(found[input]) /\ ~Unclear
    BY <2>1, <1>2 DEF Writing, Ranged, Rangeable, Following
  <2>3. RangeInv /\ Hd \in {"copy", "flush", "end"}
    BY <2>1, <2>2, <1>2 DEF SeekInv
  <2>4. PICK m \in 0..g : Begins(opts, us, m) /\ Shows(Out, us, m, g)
    <3>1. CASE Hd = "copy"
      BY <3>1, <2>3, <1>2 DEF RangeInv
    <3>2. CASE Hd = "flush"
      BY <3>2, <2>3, <1>2 DEF RangeInv
    <3>3. CASE Hd = "end"
      BY <3>3, <2>3, <1>2, <1>3 DEF RangeInv
    <3> QED
      BY <2>3, <3>1, <3>2, <3>3
  <2>5. Hd = "copy" /\ ~opts.nl => left \in Nat /\ left = To(opts, us) - g
    BY <2>2, <2>3 DEF RangeInv
  <2>6. Hd \in {"flush", "end"} => g = To(opts, us)
    BY <2>2, <2>3 DEF RangeInv
  <2>7. IsSeq(us)
    BY <1>1
  <2> HIDE DEF us, g
  <2>8. g \in 0..Len(us) /\ Len(us) \in Nat /\ m \in Nat /\ To(opts, us) \in 0..Len(us)
    BY <2>4, <2>7, <1>1, SeqIs, RangeIs DEF Shows, Reads
  <2>9. g <= To(opts, us)
    <3>1. CASE Hd \in {"flush", "end"}
      BY <3>1, <2>6, <2>8
    <3>2. CASE Hd = "copy" /\ ~opts.nl
      BY <3>2, <2>5, <2>8
    <3>3. CASE opts.nl
      <4>1. To(opts, us) = Len(us)
        BY <3>3, <2>2 DEF To, Unclear
      <4> QED
        BY <4>1, <2>8
    <3> QED
      BY <2>3, <3>1, <3>2, <3>3
  <2>10. IsPrefix(Out, Wanted(us))
    BY <2>4, <2>7, <2>8, <2>9, <1>1, ShowsWanted
  <2> QED
    BY <2>10, <2>2 DEF Due, us
<1> QED
  BY <1>4, <1>5, <1>6, <1>7, <1>8, <1>9

\* What is in the file begins it.
LEMMA LivePrefixInv == ArgInv /\ FilesInv /\ WorkInv /\ Live => PrefixInv
PROOF
<1> SUFFICES ASSUME ArgInv, FilesInv, WorkInv, Live, Writing PROVE IsPrefix(fs[Target], Due)
  BY DEF PrefixInv, Writing, Due
<1>1. Began /\ made
  BY DEF Writing
<1>2. IsSeq(fs[Target]) /\ IsSeq(Out) /\ IsPrefix(fs[Target], Out)
  BY <1>1, OutIs
<1>3. IsPrefix(Out, Due) /\ IsSeq(Due)
  BY LivePrefix, DueSeq
<1> QED
  BY <1>2, <1>3, PrefixTrans

----------------------------------------------------------------------------
(* Every step keeps the invariant *)

Kinds == {"refuse", "bench", "cblock", "cstream", "dblock", "vblock", "vstream", "dstream",
          "follow", "seek"}

\* A command that runs.
LEMMA Running ==
  ASSUME MzInv, pc = "run"
  PROVE  /\ ArgInv /\ StepsInv /\ FilesInv /\ WorkInv /\ PrefixInv
         /\ Live /\ Began /\ OptionsOk(opts) /\ Kind \in Kinds
         /\ input # NoPath => (Following <=> Kind = "follow") /\ Target # input
PROOF
<1>1. ArgInv /\ StepsInv /\ FilesInv /\ WorkInv /\ PrefixInv
  BY DEF MzInv
<1>2. Live /\ Began /\ OptionsOk(opts)
  BY <1>1 DEF Live, ArgInv, Began, OptionsOk
<1>3. Kind \in Kinds
  BY DEF Kind, Kinds
<1>4. input # NoPath => Target # input
  BY <1>1, <1>2 DEF FilesInv
<1>5. ASSUME input # NoPath PROVE Following <=> Kind = "follow"
  <2>1. sub = "d" /\ opts.follow => ~opts.bench
    BY <1>1, <1>2 DEF ArgInv
  <2> QED
    BY <2>1, <1>5 DEF Following, Kind
<1> QED
  BY <1>1, <1>2, <1>3, <1>4, <1>5

\* Its input, once it is open.
LEMMA InputIs ==
  ASSUME MzInv, pc = "run", steps # <<>>, Hd \notin {"open", "refuse"}
  PROVE  /\ input \in DOMAIN found /\ input # NoPath /\ Target # input /\ input \in DOMAIN fs
         /\ IsFile(found[input]) /\ IsFile(fs[input]) /\ IsPrefix(found[input], fs[input])
         /\ Kind # "follow" => fs[input] = found[input]
PROOF
<1>1. FilesInv /\ Live /\ Began /\ (input # NoPath => (Following <=> Kind = "follow") /\ Target # input)
  BY Running
<1>2. input \in DOMAIN found
  BY <1>1 DEF FilesInv
<1>3. input # NoPath /\ IsFile(found[input])
  BY <1>1, <1>2, FoundIs
<1> QED
  BY <1>1, <1>2, <1>3 DEF FilesInv

\* A step of a command that keeps running.
LEMMA Goes ==
  ASSUME MzInv, pc = "run", UNCHANGED argVars, found' = found, StepsInv', FilesInv', WorkInv'
  PROVE  MzInv'
PROOF
<1>1. ArgInv'
  <2>1. /\ opts' = opts /\ pc' = pc /\ sub' = sub /\ input' = input /\ found' = found
    BY DEF argVars
  <2> QED
    BY <2>1, Running DEF ArgInv, Began
<1>2. (ArgInv /\ FilesInv /\ WorkInv /\ Live)'
  BY <1>1 DEF Live, argVars
<1>3. PrefixInv'
  BY <1>2, LivePrefixInv, PTL
<1> QED
  BY <1>1, <1>3 DEF MzInv

\* The files, if the step changes no more than the output.
LEMMA StepFiles ==
  ASSUME MzInv, pc = "run", steps # <<>>, Hd \notin {"open", "refuse"},
         UNCHANGED <<argVars, found, made>>, Touches(fs'), IsSeq(buf'), ~made => buf' = <<>>
  PROVE  FilesInv'
PROOF
<1>1. FilesInv /\ Began /\ input \in DOMAIN found
  BY Running, InputIs
<1>2. UNCHANGED <<sub, opts, input, found, made>>
  BY DEF argVars
<1> QED
  BY <1>1, <1>2, FilesKept

\* Nothing is written.
LEMMA NoTouch ==
  ASSUME FilesInv, Began, fs' = fs, buf' = buf
  PROVE  Touches(fs') /\ IsSeq(buf') /\ (~made => buf' = <<>>)
PROOF BY DEF FilesInv, Touches

\* A command fails.
LEMMA FailKeeps == ASSUME MzInv, pc = "run", steps # <<>>, Fail PROVE MzInv'
PROOF
<1>1. /\ pc' = "exit" /\ code' = 2 /\ steps' = <<>> /\ buf' = <<>>
      /\ UNCHANGED <<given, want, sub, alias, opts, input, found, made, held, reader>>
  BY DEF Fail
<1> DEFINE f == fs'
<1>2. PICK k \in 0..Len(buf) : f = Written(SubSeq(buf, 1, k))
  BY DEF Fail
<1>3. /\ ArgInv /\ FilesInv /\ WorkInv /\ Live /\ Began
      /\ input # NoPath => Target # input
  BY Running
<1> HIDE DEF f
<1>4. Touches(f) /\ (made => IsPrefix(f[Target], Out) /\ IsSeq(f[Target]))
  <2>1. Touches(f) /\ (made => IsPrefix(f[Target], Out))
    BY <1>2, <1>3, Spills, Zenon
  <2> QED
    BY <2>1 DEF Touches
<1>5. ~Live'
  BY <1>1 DEF Live, Succeeded
<1>6. FilesInv'
  BY <1>1, <1>3, <1>4, <1>5, FilesKept, SmallSeq DEF f
<1>7. ArgInv'
  BY <1>1, <1>3 DEF ArgInv, Began
<1>8. PrefixInv'
  <2> SUFFICES ASSUME Writing' PROVE IsPrefix(fs'[Target'], Due')
    BY DEF PrefixInv, Writing, Due
  <2>1. /\ Target' = Target /\ Following' = Following /\ Unclear' = Unclear /\ Ranged' = Ranged
        /\ Rangeable' = Rangeable
    BY <1>1, SameArgs DEF Rangeable
  <2>2. DOMAIN fs' = DOMAIN fs /\ \A p \in DOMAIN fs \ {Target} : fs'[p] = fs[p]
    BY <1>4 DEF Touches, f
  <2>3. Writing
    BY <1>1, <2>1, <2>2 DEF Writing, Began
  <2>4. input # NoPath /\ IsSeq(Due) /\ made
    BY <1>3, <2>3, DueSeq DEF Writing
  <2>5. Src' = Src
    BY <1>1, <1>3, <2>2, <2>3, <2>4 DEF Src, Writing
  <2>6. Due' = Due
    <3>1. (IF Following THEN Src ELSE found[input])' = IF Following THEN Src ELSE found[input]
      BY <1>1, <2>1, <2>5
    <3>2. opts' = opts
      BY <1>1
    <3> QED
      BY <3>1, <3>2, Zenon DEF Due, Wanted
  <2>7. IsPrefix(Out, Due) /\ IsSeq(Out)
    BY <1>3, <2>3, <2>4, LivePrefix, OutIs
  <2>8. IsPrefix(f[Target], Due)
    BY <1>4, <2>4, <2>7, PrefixTrans
  <2> QED
    BY <2>1, <2>6, <2>8 DEF f
<1> QED
  BY <1>5, <1>6, <1>7, <1>8 DEF MzInv, StepsInv, WorkInv

\* A command is killed.
LEMMA KillKeeps == MzInv /\ Kill => MzInv'
PROOF
<1> SUFFICES ASSUME MzInv, Kill PROVE MzInv'
  OBVIOUS
<1>1. /\ pc = "run" /\ pc' = "dead" /\ steps' = <<>> /\ buf' = <<>>
      /\ UNCHANGED <<given, want, sub, alias, opts, input, code, fs, found, made, held, reader>>
  BY DEF Kill
<1>2. ArgInv /\ FilesInv /\ Began /\ PrefixInv
  BY <1>1, Running
<1>3. ~Live'
  BY <1>1 DEF Live, Succeeded
<1>4. Touches(fs')
  BY <1>1, <1>2 DEF Touches, FilesInv
<1>5. FilesInv'
  BY <1>1, <1>2, <1>3, <1>4, FilesKept, SmallSeq
<1>6. ArgInv'
  BY <1>1, <1>2 DEF ArgInv, Began
<1>7. PrefixInv'
  <2>1. /\ Target' = Target /\ Following' = Following /\ Unclear' = Unclear /\ Src' = Src
        /\ Ranged' = Ranged /\ Rangeable' = Rangeable
    BY <1>1, SameArgs DEF Src, Rangeable
  <2>2. opts' = opts /\ found' = found /\ input' = input /\ made' = made /\ sub' = sub /\ fs' = fs
    BY <1>1
  <2> QED
    BY <1>2, <2>1, <2>2, Zenon DEF PrefixInv, Began, Wanted
<1> QED
  BY <1>3, <1>5, <1>6, <1>7 DEF MzInv, StepsInv, WorkInv

\* A command ends well.
LEMMA ExitKeeps == MzInv /\ Exit => MzInv'
PROOF
<1> SUFFICES ASSUME MzInv, Exit PROVE MzInv'
  OBVIOUS
<1>1. /\ pc = "run" /\ steps = <<>> /\ pc' = "exit" /\ code' = 0
      /\ UNCHANGED <<given, want, sub, alias, opts, input, steps, fs, found, made, buf, held, pos, left, open, count>>
  BY DEF Exit, fileVars, reader
<1>2. ArgInv /\ StepsInv /\ FilesInv /\ WorkInv /\ PrefixInv /\ Live /\ Began
  BY <1>1, Running
<1>3. /\ Target' = Target /\ Following' = Following /\ Unclear' = Unclear /\ Kind' = Kind
      /\ Removes' = Removes /\ Ranged' = Ranged /\ Rangeable' = Rangeable
  BY <1>1, SameArgs DEF Rangeable
<1>4. Hd = "end" /\ Hd' = Hd /\ Out' = Out /\ Began' /\ Src' = Src
  BY <1>1, <1>2, <1>3 DEF Hd, Out, Began, Src
<1>5. /\ opts' = opts /\ found' = found /\ input' = input /\ made' = made /\ sub' = sub /\ fs' = fs
      /\ steps' = steps /\ buf' = buf /\ held' = held /\ pos' = pos /\ left' = left
      /\ open' = open /\ count' = count
  BY <1>1
<1>6. ArgInv'
  BY <1>1, <1>2 DEF ArgInv, Began
<1>7. StepsInv'
  BY <1>2, <1>3, <1>5 DEF StepsInv
<1>8. FilesInv'
  <2>1. OutputHasAll' = OutputHasAll
    BY <1>3, <1>5, Zenon DEF OutputHasAll
  <2> QED
    BY <1>2, <1>3, <1>4, <1>5, <2>1 DEF FilesInv
<1>9. WorkInv'
  <2>1. CStreamInv' = CStreamInv /\ CBlockInv' = CBlockInv /\ DBlockInv' = DBlockInv
    BY <1>3, <1>4, <1>5, Zenon DEF CStreamInv, CBlockInv, DBlockInv
  <2>2. DStreamInv' = DStreamInv /\ FollowInv' = FollowInv /\ SeekInv' = SeekInv
    BY <1>3, <1>4, <1>5, Zenon DEF DStreamInv, FollowInv, SeekInv, RangeInv, Got
  <2> QED
    BY <1>2, <1>3, <1>4, <1>5, <2>1, <2>2 DEF WorkInv
<1>10. PrefixInv'
  BY <1>2, <1>3, <1>4, <1>5, Zenon DEF PrefixInv, Wanted
<1> QED
  BY <1>6, <1>7, <1>8, <1>9, <1>10 DEF MzInv

\* The units vs go on where us end.
GoesOn(us, vs) ==
  /\ IsSeq(us) /\ IsSeq(vs) /\ Len(us) \in Nat /\ Len(vs) \in Nat /\ Len(us) <= Len(vs)
  /\ \A i \in 1..Len(us) : vs[i] = us[i]

\* Those of a file that has grown do.
LEMMA UnitsOn ==
  ASSUME NEW c, NEW d, IsSeq(c), IsSeq(d), IsPrefix(c, d)
  PROVE  /\ GoesOn(Units(c), Units(d)) /\ Len(c) \in Nat /\ Len(d) \in Nat /\ Len(c) <= Len(d)
         /\ \A k \in 0..Len(c) : UnitsTo(d)[k] = UnitsTo(c)[k]
PROOF
<1>1. Len(c) \in Nat /\ Len(d) \in Nat
  BY SeqIs, Zenon
<1>2. Len(c) <= Len(d) /\ \A k \in 0..Len(c) : UnitsTo(d)[k] = UnitsTo(c)[k]
  BY UnitsPart, Zenon
<1>3. Len(c) \in 0..Len(c) /\ Len(c) \in 0..Len(d)
  BY <1>1, <1>2
<1>4. UnitsTo(c)[Len(c)] = Units(c) /\ IsSeq(Units(c)) /\ Len(Units(c)) \in Nat
  BY UnitsAre, Zenon
<1>5. /\ IsSeq(Units(d)) /\ Len(Units(d)) \in Nat
      /\ \A k \in 0..Len(d) :
           /\ IsSeq(UnitsTo(d)[k]) /\ Len(UnitsTo(d)[k]) \in 0..Len(Units(d))
           /\ \A i \in 1..Len(UnitsTo(d)[k]) : UnitsTo(d)[k][i] = Units(d)[i]
  BY UnitsAre, Zenon
<1>6. UnitsTo(d)[Len(c)] = Units(c)
  BY <1>2, <1>3, <1>4
<1>7. Len(Units(c)) \in 0..Len(Units(d)) /\ \A i \in 1..Len(Units(c)) : Units(c)[i] = Units(d)[i]
  BY <1>3, <1>5, <1>6
<1>8. GoesOn(Units(c), Units(d))
  BY <1>4, <1>5, <1>7 DEF GoesOn
<1> QED
  BY <1>1, <1>2, <1>8

\* What was read of a file is still there when it has grown.
LEMMA ReadsOn ==
  ASSUME NEW us, NEW vs, GoesOn(us, vs), NEW m \in Nat, NEW n \in 0..Len(us)
  PROVE  /\ NoLine(us, m, n) => NoLine(vs, m, n)
         /\ \A o : Shows(o, us, m, n) => Shows(o, vs, m, n)
PROOF
<1>1. /\ Len(us) \in Nat /\ Len(vs) \in Nat /\ Len(us) <= Len(vs)
      /\ \A i \in 1..Len(us) : vs[i] = us[i]
  BY DEF GoesOn
<1>2. \A i \in (m + 1)..n : vs[i] = us[i]
  BY <1>1
<1>3. ASSUME NoLine(us, m, n) PROVE NoLine(vs, m, n)
  BY <1>2, <1>3 DEF NoLine
<1>4. ASSUME NEW o, Shows(o, us, m, n) PROVE Shows(o, vs, m, n)
  <2>1. /\ m \in 0..n /\ IsSeq(o) /\ Len(o) = n - m /\ \A i \in 1..(n - m) : o[i] = us[m + i]
        /\ \A i \in (m + 1)..n : us[i] # Bad
    BY <1>4 DEF Shows, Reads
  <2>2. \A i \in 1..(n - m) : o[i] = vs[m + i]
    <3> TAKE i \in 1..(n - m)
    <3>1. m + i \in (m + 1)..n
      BY <1>1
    <3> QED
      BY <3>1, <1>2, <2>1
  <2>3. Reads(vs, m, n)
    BY <1>1, <1>2, <2>1 DEF Reads
  <2> QED
    BY <2>1, <2>2, <2>3 DEF Shows
<1> QED
  BY <1>3, <1>4

\* Nor does what is read begin elsewhere.
LEMMA BeginsOn ==
  ASSUME NEW us, NEW vs, GoesOn(us, vs), OptionsOk(opts), opts.tail = <<>>, opts.follow
  PROVE  /\ From(opts, vs) = From(opts, us) /\ From(opts, us) \in Nat
         /\ \A m \in Nat : Begins(opts, us, m) => Begins(opts, vs, m)
         /\ \A n : Searches(opts, us, n) => Searches(opts, vs, n)
PROOF
<1>1. From(opts, vs) = From(opts, us) /\ From(opts, us) \in Nat
  BY NumberIs DEF From
<1>2. PICK l \in Nat : l = From(opts, us) /\ l = From(opts, vs)
  BY <1>1
<1>3. /\ Len(us) \in Nat /\ Len(vs) \in Nat /\ Len(us) <= Len(vs)
      /\ \A i \in 1..Len(us) : vs[i] = us[i]
  BY DEF GoesOn
<1>4. ASSUME NEW m \in Nat, Begins(opts, us, m) PROVE Begins(opts, vs, m)
  <2>1. CASE ~opts.nl
    BY <1>1, <1>4, <2>1 DEF Begins
  <2>2. CASE opts.nl
    <3>1. m > l /\ m <= Len(us) /\ us[m] = Unit(0) /\ NoLine(us, l, m - 1)
      BY <1>2, <1>4, <2>2 DEF Begins
    <3>2. m \in 1..Len(us) /\ m - 1 \in 0..Len(us)
      BY <3>1, <1>3
    <3>3. NoLine(vs, l, m - 1)
      BY <3>1, <3>2, ReadsOn
    <3>4. m <= Len(vs) /\ vs[m] = Unit(0)
      BY <3>1, <3>2, <1>3
    <3> QED
      BY <3>1, <3>3, <3>4, <1>2, <2>2 DEF Begins
  <2> QED
    BY <2>1, <2>2
<1>5. ASSUME NEW n, Searches(opts, us, n) PROVE Searches(opts, vs, n)
  <2>1. n \in l..Len(us) /\ NoLine(us, l, n)
    BY <1>2, <1>5 DEF Searches
  <2>2. n \in 0..Len(us)
    BY <2>1, <1>3
  <2>3. NoLine(vs, l, n)
    BY <2>1, <2>2, ReadsOn
  <2> QED
    BY <2>1, <2>3, <1>2, <1>3 DEF Searches
<1> QED
  BY <1>1, <1>4, <1>5

\* What a followed file has in the end.
LEMMA GrownIs ==
  ASSUME NEW c, IsSeq(c), c # Grown, IsPrefix(c, Grown), NEW d, d = SubSeq(Grown, 1, Len(c) + 1)
  PROVE  IsFile(d) /\ IsSeq(d) /\ IsPrefix(c, d)
PROOF
<1>1. IsSeq(Grown) /\ Len(Grown) \in Nat /\ \A i \in 1..Len(Grown) : IsToken(Grown[i])
  BY FilesAssumption, FileIs
<1>2. Len(c) \in Nat
  BY SeqIs
<1>3. Len(c) <= Len(Grown) /\ \A i \in 1..Len(c) : c[i] = Grown[i]
  BY <1>1, PrefixIs
<1>4. Len(c) # Len(Grown)
  BY <1>1, <1>3, SameSeq
<1> DEFINE n == Len(c) + 1
<1>5. n \in 0..Len(Grown) /\ n \in Nat /\ n >= 1
  BY <1>1, <1>2, <1>3, <1>4
<1> HIDE DEF n
<1>7. 1 \in Nat \ {0} /\ d = SubSeq(Grown, 1, n)
  BY DEF n
<1>8. /\ IsSeq(d) /\ Len(d) = (IF 1 <= n THEN n - 1 + 1 ELSE 0)
      /\ \A i \in 1..Len(d) : d[i] = Grown[1 + i - 1]
  <2> DEFINE e == SubSeq(Grown, 1, n)
  <2>1. /\ IsSeq(e) /\ Len(e) = (IF 1 <= n THEN n - 1 + 1 ELSE 0)
        /\ \A i \in 1..Len(e) : e[i] = Grown[1 + i - 1]
    BY <1>1, <1>5, <1>7, CutSeq, Zenon
  <2>2. d = e
    BY <1>7
  <2> HIDE DEF e
  <2> QED
    BY <2>1, <2>2, Zenon
<1>9. Len(d) = Len(c) + 1 /\ Len(d) = n
  BY <1>2, <1>5, <1>8 DEF n
<1>10. \A i \in 1..Len(d) : d[i] = Grown[i] /\ i \in 1..Len(Grown)
  <2> TAKE i \in 1..Len(d)
  <2>1. d[i] = Grown[1 + i - 1]
    BY <1>8, Zenon
  <2>2. 1 + i - 1 = i /\ i \in 1..Len(Grown)
    BY <1>1, <1>5, <1>9
  <2> QED
    BY <2>1, <2>2
<1>11. IsFile(d)
  BY <1>1, <1>8, <1>10 DEF IsFile
<1>12. Len(c) <= Len(d) /\ \A i \in 1..Len(c) : c[i] = d[i]
  BY <1>2, <1>3, <1>9, <1>10
<1>13. IsPrefix(c, d)
  BY <1>8, <1>12, PrefixIs, Zenon
<1> QED
  BY <1>8, <1>11, <1>13

\* A followed file grows.
LEMMA GrowKeeps == MzInv /\ Grow => MzInv'
PROOF
<1> SUFFICES ASSUME MzInv, Grow PROVE MzInv'
  OBVIOUS
<1>1. /\ pc = "run" /\ Following /\ input \in DOMAIN fs /\ Src # Grown /\ IsPrefix(Src, Grown)
      /\ fs' = Place(input, SubSeq(Grown, 1, Len(Src) + 1))
      /\ UNCHANGED <<argVars, steps, found, made, buf, held, pos, left, open, count>>
  BY DEF Grow, reader
<1>2. /\ ArgInv /\ StepsInv /\ FilesInv /\ WorkInv /\ Live /\ Began /\ OptionsOk(opts)
      /\ input # NoPath => (Following <=> Kind = "follow") /\ Target # input
  BY <1>1, Running
<1>3. /\ Target' = Target /\ Following' = Following /\ Kind' = Kind /\ Removes' = Removes
  BY <1>1, SameArgs DEF argVars
<1>4. input # NoPath
  <2> SUFFICES ASSUME input = NoPath PROVE FALSE
    OBVIOUS
  <2>1. Kind = "refuse"
    BY DEF Kind
  <2>2. ~made
    BY <1>2, <2>1 DEF WorkInv
  <2>3. input \in DOMAIN found
    BY <1>1, <1>2, <2>2 DEF FilesInv
  <2> QED
    BY <1>2, <2>3, FoundIs
<1>5. Kind = "follow" /\ Target # input /\ input \in DOMAIN found /\ opts.follow /\ opts.tail = <<>>
  <2>1. Kind = "follow" /\ Target # input
    BY <1>1, <1>2, <1>4
  <2>2. input \in DOMAIN found
    BY <1>1, <1>2, <2>1 DEF FilesInv
  <2>3. opts.follow /\ sub = "d"
    BY <1>1 DEF Following
  <2>4. opts.tail = <<>>
    BY <1>1, <1>2, <2>3 DEF ArgInv
  <2> QED
    BY <2>1, <2>2, <2>3, <2>4
<1> DEFINE c == fs[input]
           d == SubSeq(Grown, 1, Len(c) + 1)
           f == fs'
<1>6. IsFile(c) /\ IsPrefix(found[input], c) /\ c # Grown /\ IsPrefix(c, Grown) /\ IsSeq(c)
  <2>1. IsFile(c) /\ IsPrefix(found[input], c)
    BY <1>1, <1>2, <1>5 DEF FilesInv
  <2> QED
    BY <2>1, <1>1, FileIs DEF Src
<1>7. f = [q \in DOMAIN fs \cup {input} |-> IF q = input THEN d ELSE fs[q]]
  BY <1>1 DEF Place, Src
<1> HIDE DEF c, d, f
<1>8. IsFile(d) /\ IsSeq(d) /\ IsPrefix(c, d)
  BY <1>6, GrownIs, Zenon DEF d
<1>9. DOMAIN f = DOMAIN fs /\ f[input] = d /\ \A p \in DOMAIN fs \ {input} : f[p] = fs[p]
  BY <1>1, <1>7
<1>10. IsPrefix(found[input], d)
  <2>1. IsFile(found[input])
    BY <1>2, <1>5, FoundIs
  <2>2. IsSeq(found[input]) /\ IsSeq(d)
    BY <2>1, <1>8, FileIs
  <2> QED
    BY <2>2, <1>6, <1>8, PrefixTrans, Zenon
<1>11. StepsInv'
  BY <1>1, <1>2, <1>3 DEF StepsInv, argVars
<1>12. /\ opts' = opts /\ found' = found /\ input' = input /\ made' = made /\ sub' = sub
       /\ steps' = steps /\ buf' = buf /\ pos' = pos /\ left' = left /\ pc' = pc
  BY <1>1 DEF argVars
<1>13. made => Target \in DOMAIN fs /\ f[Target] = fs[Target]
  BY <1>2, <1>5, <1>9 DEF FilesInv
<1>14. FilesInv'
  <2>1. /\ found \in Worlds /\ IsSeq(buf) /\ (~made => buf = <<>>)
        /\ DOMAIN fs \subseteq DOMAIN found \cup (IF made THEN {Target} ELSE {})
        /\ \A p \in DOMAIN found \ {input, Target} : p \in DOMAIN fs /\ fs[p] = found[p]
        /\ ~made => \A p \in DOMAIN found \ {input} : p \in DOMAIN fs /\ fs[p] = found[p]
        /\ made => Target \in DOMAIN fs /\ IsSeq(fs[Target])
    BY <1>2 DEF FilesInv
  <2>2. /\ DOMAIN f \subseteq DOMAIN found \cup (IF made THEN {Target} ELSE {})
        /\ \A p \in DOMAIN found \ {input, Target} : p \in DOMAIN f /\ f[p] = found[p]
        /\ ~made => \A p \in DOMAIN found \ {input} : p \in DOMAIN f /\ f[p] = found[p]
        /\ made => Target \in DOMAIN f /\ IsSeq(f[Target])
    BY <2>1, <1>9, <1>13
  <2>3. input \in DOMAIN f /\ IsFile(f[input]) /\ IsPrefix(found[input], f[input])
    BY <1>1, <1>8, <1>9, <1>10
  <2> QED
    BY <2>1, <2>2, <2>3, <1>1, <1>3, <1>5, <1>12 DEF FilesInv, f
<1>15. WorkInv'
  <2>1. FollowInv
    BY <1>2, <1>5 DEF WorkInv
  <2>2. /\ Hd' = Hd /\ (made => Out' = Out) /\ fs'[input] = d /\ held' = held
        /\ made <=> Hd \notin {"open", "create"}
    BY <1>1, <1>3, <1>9, <1>12, <1>13, <2>1 DEF Hd, Out, f, FollowInv
  <2>3. /\ GoesOn(Units(c), Units(d)) /\ Len(c) \in Nat /\ Len(d) \in Nat /\ Len(c) <= Len(d)
        /\ \A k \in 0..Len(c) : UnitsTo(d)[k] = UnitsTo(c)[k]
    BY <1>6, <1>8, UnitsOn
  <2>4. /\ \A m \in Nat : Begins(opts, Units(c), m) => Begins(opts, Units(d), m)
        /\ \A n : Searches(opts, Units(c), n) => Searches(opts, Units(d), n)
    BY <1>2, <1>5, <2>3, BeginsOn
  <2>5. ASSUME Hd \in {"seek", "newline", "copy"}, opts.offset # <<>>
        PROVE  IsFile(held) /\ IsPrefix(held, d)
    <3>1. IsFile(held) /\ IsPrefix(held, c)
      BY <2>1, <2>5 DEF FollowInv, c
    <3>2. IsSeq(held)
      BY <3>1, FileIs
    <3> QED
      BY <3>1, <3>2, <1>6, <1>8, PrefixTrans
  <2>6. ASSUME Hd \in {"newline", "copy"}
        PROVE  pos \in 0..Len(d) /\ Got(d) = Got(c) /\ Got(c) \in 0..Len(Units(c))
    <3>1. pos \in 0..Len(c)
      BY <2>1, <2>6 DEF FollowInv, c
    <3>2. UnitsTo(d)[pos] = UnitsTo(c)[pos] /\ pos \in 0..Len(d)
      BY <2>3, <3>1
    <3> QED
      BY <3>1, <3>2, <1>6, UnitsAre DEF Got
  <2>7. ASSUME Hd = "newline", Indexed(held) PROVE Searches(opts, Units(d), Got(d))
    <3>1. Searches(opts, Units(c), Got(c))
      BY <2>1, <2>7 DEF FollowInv, c
    <3> QED
      BY <3>1, <2>4, <2>6, <2>7
  <2>8. ASSUME Hd = "copy", opts.offset # <<>> => Indexed(held)
        PROVE  \E m \in 0..Got(d) : Begins(opts, Units(d), m) /\ Shows(Out, Units(d), m, Got(d))
    <3>1. PICK m \in 0..Got(c) : Begins(opts, Units(c), m) /\ Shows(Out, Units(c), m, Got(c))
      BY <2>1, <2>8 DEF FollowInv, c
    <3>2. Got(d) = Got(c) /\ Got(c) \in 0..Len(Units(c)) /\ m \in Nat
      BY <2>6, <2>8
    <3>3. Begins(opts, Units(d), m) /\ Shows(Out, Units(d), m, Got(c))
      BY <2>3, <2>4, <3>1, <3>2, ReadsOn
    <3> QED
      BY <3>1, <3>2, <3>3
  <2>9. FollowInv'
    <3>1. Got(fs[input])' = Got(d)
      BY <1>12, <2>2 DEF Got
    <3> QED
      BY <1>12, <2>1, <2>2, <2>5, <2>6, <2>7, <2>8, <3>1 DEF FollowInv
  <2> QED
    BY <2>9, <1>3, <1>5 DEF WorkInv
<1> QED
  BY <1>1, <1>11, <1>14, <1>15, Goes

\* The first step is taken.
LEMMA Moves ==
  ASSUME MzInv, pc = "run", steps # <<>>, Move, UNCHANGED argVars
  PROVE  /\ StepsInv' /\ Leads(Kind, opts, Hd, Hd') /\ Kind \in Kinds
         /\ Kind' = Kind /\ Target' = Target /\ Unclear' = Unclear
         /\ opts' = opts /\ input' = input /\ sub' = sub
PROOF
<1>1. StepsInv /\ Kind \in Kinds
  BY Running
<1>2. Kind' = Kind /\ Target' = Target /\ Unclear' = Unclear
  BY SameArgs DEF argVars
<1>3. StepsInv' /\ Leads(Kind, opts, Hd, Hd')
  BY <1>1, MoveIs DEF Move
<1> QED
  BY <1>1, <1>2, <1>3 DEF argVars

\* A step that leaves the files alone.
LEMMA MoveKeeps ==
  ASSUME MzInv, pc = "run", steps # <<>>, Hd \notin {"open", "refuse"}, Move,
         UNCHANGED <<argVars, fs, found, made, buf>>, WorkInv'
  PROVE  MzInv'
PROOF
<1>1. FilesInv /\ Began
  BY Running
<1>2. Touches(fs') /\ IsSeq(buf') /\ (~made => buf' = <<>>)
  BY <1>1, NoTouch
<1>3. FilesInv'
  BY <1>2, StepFiles
<1>4. StepsInv'
  BY Moves
<1> QED
  BY <1>3, <1>4, Goes

\* The output before anything is written.
LEMMA NoneIs ==
  ASSUME NEW us, IsSeq(us), NEW n \in 0..Len(us)
  PROVE  Reads(us, n, n) /\ Shows(<<>>, us, n, n)
PROOF
<1>1. Len(us) \in Nat
  BY SeqIs, Zenon
<1>2. n \in Nat /\ n - n = 0 /\ Reads(us, n, n)
  BY <1>1 DEF Reads
<1> QED
  BY <1>2, SmallSeq DEF Shows

\* An empty output with nothing in the buffer.
LEMMA EmptyOut == <<>> \o <<>> = <<>>
PROOF OBVIOUS

\* Nothing read, and nothing written.
LEMMA UnitsNone ==
  ASSUME NEW c, IsSeq(c)
  PROVE  Len(UnitsTo(c)[0]) = 0 /\ Shows(<<>>, Units(c), 0, 0) /\ 0 \in 0..Len(c)
PROOF
<1>1. Len(c) \in Nat /\ IsSeq(Units(c)) /\ Len(Units(c)) \in Nat /\ UnitsTo(c)[0] = <<>>
  BY SeqIs, UnitsAre, UnitsStep, Zenon
<1>2. 0 \in 0..Len(c) /\ 0 \in 0..Len(Units(c))
  BY <1>1
<1>3. Shows(<<>>, Units(c), 0, 0)
  BY <1>1, <1>2, NoneIs
<1>4. Len(<<>>) = 0
  OBVIOUS
<1> QED
  BY <1>1, <1>2, <1>3, <1>4

\* The input is opened.
LEMMA OpenKeeps == MzInv /\ Open => MzInv'
PROOF
<1> SUFFICES ASSUME MzInv, Open PROVE MzInv'
  OBVIOUS
<1>1. pc = "run" /\ steps # <<>> /\ Hd = "open"
  BY DEF Open, At, Hd
<1>2. CASE input \notin DOMAIN fs
  BY <1>1, <1>2, FailKeeps DEF Open
<1>3. CASE input \in DOMAIN fs
  <2>1. Move /\ UNCHANGED <<argVars, fs, found, made, buf, held, reader>>
    BY <1>3 DEF Open
  <2>2. /\ StepsInv' /\ Leads(Kind, opts, "open", Hd') /\ Kind \in Kinds
        /\ Kind' = Kind /\ Target' = Target /\ opts' = opts /\ input' = input /\ sub' = sub
    BY <1>1, <2>1, Moves
  <2>3. FilesInv /\ WorkInv /\ Live /\ Began
    BY <1>1, Running
  <2>4. Kind # "refuse"
    BY <2>2 DEF Leads
  <2>5. ~made
    BY <1>1, <2>2, <2>3, <2>4
    DEF WorkInv, CStreamInv, CBlockInv, DBlockInv, DStreamInv, FollowInv, SeekInv, Kinds
  <2>6. input \in DOMAIN found
    BY <1>3, <2>3, <2>5 DEF FilesInv
  <2>7. FilesInv'
    <3>1. Touches(fs') /\ IsSeq(buf') /\ (~made => buf' = <<>>)
      BY <2>1, <2>3, NoTouch
    <3>2. UNCHANGED <<sub, opts, input, found, made>>
      BY <2>1 DEF argVars
    <3> QED
      BY <1>1, <2>3, <2>6, <3>1, <3>2, FilesKept
  <2>8. ~made' /\ pos' = pos /\ left' = left /\ open' = open /\ count' = count /\ found' = found
    BY <2>1, <2>5 DEF reader
  <2>9. WorkInv'
    <3>1. CASE Kind = "bench"
      BY <3>1, <2>2, <2>8 DEF WorkInv
    <3>2. CASE Kind = "cstream"
      <4>1. Hd' = "create" /\ pos = 0
        BY <1>1, <2>2, <2>3, <3>2 DEF Leads, WorkInv, CStreamInv
      <4> QED
        BY <4>1, <3>2, <2>2, <2>8 DEF WorkInv, CStreamInv
    <3>3. CASE Kind = "cblock"
      <4>1. Hd' = "load"
        BY <2>2, <3>3 DEF Leads
      <4> QED
        BY <4>1, <3>3, <2>2, <2>8 DEF WorkInv, CBlockInv
    <3>4. CASE Kind \in {"dblock", "vblock"}
      <4>1. Hd' = "load"
        BY <2>2, <3>4 DEF Leads
      <4> QED
        BY <4>1, <3>4, <2>2, <2>8 DEF WorkInv, DBlockInv
    <3>5. CASE Kind \in {"dstream", "vstream"}
      <4>1. DStreamInv /\ pos = 0 /\ left = -1 /\ ~open /\ count = 0
        BY <1>1, <2>3, <3>5 DEF WorkInv, DStreamInv
      <4>2. Hd' = "create" \/ (Hd' = "copy" /\ ~(sub = "d" /\ ~opts.verify))
        <5>1. Kind = "vstream" => sub # "d"
          BY DEF Kind
        <5> QED
          BY <5>1, <2>2, <3>5 DEF Leads
      <4>3. IsSeq(found[input])
        BY <2>3, <2>6, FoundIs, FileIs
      <4>4. Tracks(found[input], pos, open, count)
        BY <4>1, <4>3, TracksNone DEF Tracks
      <4>5. DStreamInv'
        BY <4>1, <4>2, <4>4, <2>2, <2>8 DEF DStreamInv
      <4> QED
        BY <4>5, <3>5, <2>2 DEF WorkInv
    <3>6. CASE Kind = "follow"
      <4>1. Hd' = "create" /\ pos = 0 /\ left = -1
        BY <1>1, <2>2, <2>3, <3>6 DEF Leads, WorkInv, FollowInv
      <4> QED
        BY <4>1, <3>6, <2>2, <2>8 DEF WorkInv, FollowInv
    <3>7. CASE Kind = "seek"
      <4>1. Hd' = "index"
        BY <2>2, <3>7 DEF Leads
      <4> QED
        BY <4>1, <3>7, <2>2, <2>8 DEF WorkInv, SeekInv, RangeInv
    <3> QED
      BY <2>2, <2>4, <3>1, <3>2, <3>3, <3>4, <3>5, <3>6, <3>7 DEF Kinds
  <2> QED
    BY <1>1, <2>1, <2>2, <2>7, <2>9, Goes
<1> QED
  BY <1>2, <1>3

\* The files, when the output is created.
LEMMA CreateFiles ==
  ASSUME MzInv, pc = "run", steps # <<>>, Hd = "create", ~made, made' = TRUE,
         fs' = (IF Dest = Std THEN fs ELSE Place(Dest, <<>>)), UNCHANGED <<argVars, found, buf>>
  PROVE  FilesInv' /\ Out' = <<>> /\ fs'[input] = fs[input]
PROOF
<1>1. /\ FilesInv /\ Began /\ input \in DOMAIN found /\ Target # input /\ input \in DOMAIN fs
      /\ IsFile(fs[input]) /\ IsPrefix(found[input], fs[input])
  BY Running, InputIs
<1>2. /\ found \in Worlds /\ Stdout \in DOMAIN found /\ found[Stdout] = <<>>
  BY <1>1, FoundIs
<1>3. /\ buf = <<>> /\ IsSeq(buf) /\ DOMAIN fs \subseteq DOMAIN found
      /\ \A p \in DOMAIN found \ {input} : p \in DOMAIN fs /\ fs[p] = found[p]
      /\ ~Following => fs[input] = found[input]
  BY <1>1 DEF FilesInv
<1>4. Target' = Target /\ Following' = Following
  BY SameArgs DEF argVars
<1> DEFINE f == fs'
<1>5. /\ DOMAIN f \subseteq DOMAIN found \cup {Target} /\ Target \in DOMAIN f /\ f[Target] = <<>>
      /\ \A p \in DOMAIN fs \ {Target} : p \in DOMAIN f /\ f[p] = fs[p]
  <2>1. CASE Dest = Std
    <3>1. Target = Stdout /\ f = fs
      BY <2>1 DEF Target
    <3> HIDE DEF f
    <3> QED
      BY <3>1, <1>1, <1>2, <1>3
  <2>2. CASE Dest # Std
    <3>1. Target = Dest /\ f = [q \in DOMAIN fs \cup {Dest} |-> IF q = Dest THEN <<>> ELSE fs[q]]
      BY <2>2 DEF Target, Place
    <3> HIDE DEF f
    <3> QED
      BY <3>1, <1>3
  <2> QED
    BY <2>1, <2>2
<1>6. /\ opts' = opts /\ found' = found /\ input' = input /\ made' = TRUE /\ sub' = sub /\ buf' = buf
  BY DEF argVars
<1>7. IsSeq(f[Target])
  BY <1>5, SmallSeq
<1>8. Out' = <<>>
  BY <1>3, <1>4, <1>5, <1>6, EmptyOut DEF Out
<1> HIDE DEF f
<1>9. \A p \in DOMAIN found \ {input, Target} : p \in DOMAIN f /\ f[p] = found[p]
  BY <1>3, <1>5
<1>10. /\ input \in DOMAIN f /\ IsFile(f[input]) /\ IsPrefix(found[input], f[input])
       /\ ~Following => f[input] = found[input]
  BY <1>1, <1>3, <1>5
<1>11. FilesInv'
  BY <1>1, <1>2, <1>3, <1>4, <1>5, <1>6, <1>7, <1>9, <1>10 DEF FilesInv, f
<1>12. f[input] = fs[input]
  BY <1>1, <1>5
<1> QED
  BY <1>8, <1>11, <1>12 DEF f

\* The output is created.
LEMMA CreateKeeps == MzInv /\ Create => MzInv'
PROOF
<1> SUFFICES ASSUME MzInv, Create PROVE MzInv'
  OBVIOUS
<1>1. /\ pc = "run" /\ steps # <<>> /\ Hd = "create" /\ Move /\ made' = TRUE
      /\ fs' = (IF Dest = Std THEN fs ELSE Place(Dest, <<>>))
      /\ UNCHANGED <<argVars, found, buf, held, reader>>
  BY DEF Create, At, Hd
<1>2. /\ StepsInv' /\ Leads(Kind, opts, "create", Hd') /\ Kind \in Kinds
      /\ Kind' = Kind /\ Target' = Target /\ opts' = opts /\ input' = input /\ sub' = sub
      /\ Unclear' = Unclear
  BY <1>1, Moves
<1>3. ArgInv /\ FilesInv /\ WorkInv /\ Live /\ Began /\ OptionsOk(opts)
  BY <1>1, Running
<1>4. Kind \in {"cblock", "cstream", "dblock", "dstream", "follow", "seek"}
  BY <1>2 DEF Leads, Kinds
<1>5. ~made
  BY <1>1, <1>3, <1>4
  DEF WorkInv, CStreamInv, CBlockInv, DBlockInv, DStreamInv, FollowInv, SeekInv
<1>6. FilesInv' /\ Out' = <<>> /\ fs'[input] = fs[input]
  BY <1>1, <1>5, CreateFiles
<1>7. /\ made' = TRUE /\ pos' = pos /\ left' = left /\ held' = held /\ found' = found
      /\ open' = open /\ count' = count
  BY <1>1 DEF reader
<1>8. WorkInv'
  <2>1. CASE Kind = "cblock"
    <3>1. Hd' = "encode" /\ held = found[input]
      BY <1>1, <1>2, <1>3, <2>1 DEF Leads, WorkInv, CBlockInv
    <3> QED
      BY <3>1, <2>1, <1>2, <1>6, <1>7 DEF WorkInv, CBlockInv
  <2>2. CASE Kind = "cstream"
    <3>1. Hd' = "build" /\ pos = 0
      BY <1>1, <1>2, <1>3, <2>2 DEF Leads, WorkInv, CStreamInv
    <3> QED
      BY <3>1, <2>2, <1>2, <1>6, <1>7 DEF WorkInv, CStreamInv
  <2>3. CASE Kind = "dblock"
    <3>1. Hd' = "deliver" /\ Decodable(found[input]) /\ held = found[input][1].us
      BY <1>1, <1>2, <1>3, <2>3 DEF Leads, WorkInv, DBlockInv
    <3> QED
      BY <3>1, <2>3, <1>2, <1>6, <1>7 DEF WorkInv, DBlockInv
  <2>4. CASE Kind = "dstream"
    <3>1. Hd' = "copy" /\ pos = 0 /\ left = -1 /\ ~open /\ count = 0 /\ sub = "d" /\ ~opts.verify
      <4>1. sub = "d"
        BY <2>4, <1>3 DEF Kind, ArgInv
      <4> QED
        BY <4>1, <1>1, <1>2, <1>3, <2>4 DEF Leads, WorkInv, DStreamInv
    <3> DEFINE c == found[input]
    <3>2. IsSeq(c)
      BY <1>1, InputIs, FileIs
    <3>3. Tracks(c, pos, open, count)
      BY <3>1, <3>2, TracksNone DEF Tracks
    <3>4. Got(c) = 0 /\ Shows(<<>>, Units(c), 0, 0)
      BY <3>1, <3>2, UnitsNone, Zenon DEF Got
    <3>5. DStreamInv'
      BY <3>1, <3>3, <3>4, <1>2, <1>6, <1>7 DEF DStreamInv, Got
    <3> QED
      BY <3>5, <2>4, <1>2 DEF WorkInv
  <2>5. CASE Kind = "follow"
    <3>1. pos = 0 /\ left = -1
      BY <1>1, <1>3, <2>5 DEF WorkInv, FollowInv
    <3>2. CASE opts.offset # <<>>
      <4>1. Hd' = "index"
        BY <3>2, <1>2, <2>5 DEF Leads
      <4> QED
        BY <3>1, <4>1, <2>5, <1>2, <1>6, <1>7 DEF WorkInv, FollowInv
    <3>3. CASE opts.offset = <<>>
      <4>1. Hd' = "copy"
        BY <3>3, <1>2, <2>5 DEF Leads
      <4>2. opts.tail = <<>> /\ ~opts.nl
        <5>1. sub = "d" /\ opts.follow
          BY <2>5 DEF Kind
        <5> QED
          BY <5>1, <3>3, <1>1, <1>3 DEF ArgInv
      <4> DEFINE c == fs'[input]
      <4>3. IsSeq(c) /\ Len(c) \in Nat
        BY <1>1, <1>6, InputIs, FileIs
      <4>4. Len(UnitsTo(c)[0]) = 0 /\ Shows(<<>>, Units(c), 0, 0) /\ 0 \in 0..Len(c)
        BY <4>3, UnitsNone
      <4>6. Begins(opts, Units(c), 0)
        BY <3>3, <4>2 DEF Begins, From
      <4>5. FollowInv'
        <5>1. Got(fs[input])' = 0 /\ 0 \in 0..0
          BY <4>4, <3>1, <1>2, <1>7 DEF Got
        <5>2. Begins(opts', Units(fs[input])', 0) /\ Shows(Out', Units(fs[input])', 0, 0)
          BY <4>4, <4>6, <1>2, <1>6
        <5> QED
          BY <5>1, <5>2, <4>1, <4>4, <3>1, <3>3, <1>2, <1>6, <1>7 DEF FollowInv
      <4> QED
        BY <4>5, <2>5, <1>2 DEF WorkInv
    <3> QED
      BY <3>2, <3>3
  <2>6. CASE Kind = "seek"
    <3> DEFINE c == found[input]
               us == Units(c)
    <3>1. SeekInv /\ held = c
      BY <1>1, <1>3, <2>6 DEF WorkInv, SeekInv
    <3>2. Hd' = "copy" /\ ~opts.verify
      BY <1>2, <2>6 DEF Leads
    <3>3. ASSUME Indexed(c) PROVE RangeInv'
      <4>1. /\ left \in Nat /\ pos \in 0..Len(c) /\ Begins(opts, us, Got(c))
            /\ ~Unclear => left >= To(opts, us) - Got(c)
            /\ ~Unclear /\ ~opts.nl => left = To(opts, us) - Got(c)
        BY <1>1, <3>1, <3>3 DEF SeekInv, RangeInv
      <4>2. IsSeq(c)
        BY <1>1, InputIs, FileIs
      <4>3. IsSeq(us) /\ Got(c) \in 0..Len(us)
        BY <4>1, <4>2, UnitsAre DEF Got
      <4>4. Reads(us, Got(c), Got(c)) /\ Shows(<<>>, us, Got(c), Got(c)) /\ Got(c) \in 0..Got(c)
        BY <4>3, NoneIs
      <4>5. Got(found[input])' = Got(c) /\ found'[input'] = c
        BY <1>2, <1>7 DEF Got
      <4> HIDE DEF c
      <4>6. PICK m \in 0..Got(c) :
              Begins(opts, us, m) /\ Reads(us, m, Got(c)) /\ Shows(<<>>, us, m, Got(c))
        BY <4>1, <4>4
      <4> QED
        BY <3>2, <4>1, <4>5, <4>6, <1>2, <1>6, <1>7 DEF RangeInv
    <3>4. SeekInv'
      BY <3>1, <3>2, <3>3, <1>2, <1>7 DEF SeekInv
    <3> QED
      BY <3>4, <2>6, <1>2 DEF WorkInv
  <2> QED
    BY <1>4, <2>1, <2>2, <2>3, <2>4, <2>5, <2>6
<1> QED
  BY <1>1, <1>2, <1>6, <1>8, Goes

\* The input is read whole.
LEMMA LoadKeeps == MzInv /\ Load => MzInv'
PROOF
<1> SUFFICES ASSUME MzInv, Load PROVE MzInv'
  OBVIOUS
<1>1. /\ pc = "run" /\ steps # <<>> /\ Hd = "load" /\ Move /\ held' = fs[input]
      /\ UNCHANGED <<argVars, fs, found, made, buf, reader>>
  BY DEF Load, At, Hd, Src
<1>2. /\ Leads(Kind, opts, "load", Hd') /\ Kind \in Kinds /\ Kind' = Kind /\ input' = input
  BY <1>1, Moves
<1>3. WorkInv /\ Live
  BY <1>1, Running
<1>4. \/ Kind = "bench"
      \/ Kind = "cblock" /\ Hd' = "fits"
      \/ Kind \in {"dblock", "vblock"} /\ Hd' = "decode"
  BY <1>2 DEF Leads, Kinds
<1>5. ~made
  BY <1>1, <1>3, <1>4 DEF WorkInv, CBlockInv, DBlockInv
<1>6. held' = found'[input'] /\ ~made'
  BY <1>1, <1>2, <1>4, <1>5, InputIs
<1>7. WorkInv'
  <2>1. CASE Kind = "bench"
    BY <2>1, <1>2, <1>6 DEF WorkInv
  <2>2. CASE Kind = "cblock" /\ Hd' = "fits"
    BY <2>2, <1>2, <1>6 DEF WorkInv, CBlockInv
  <2>3. CASE Kind \in {"dblock", "vblock"} /\ Hd' = "decode"
    BY <2>3, <1>2, <1>6 DEF WorkInv, DBlockInv
  <2> QED
    BY <1>4, <2>1, <2>2, <2>3
<1> QED
  BY <1>1, <1>7, MoveKeeps

\* The benchmark, the limit of a block, and the size of the blocks of a stream.
LEMMA TestsKeep == MzInv /\ (Measure \/ Fits \/ Build) => MzInv'
PROOF
<1> SUFFICES ASSUME MzInv, Measure \/ Fits \/ Build PROVE MzInv'
  OBVIOUS
<1>1. pc = "run" /\ steps # <<>> /\ Hd \in {"measure", "fits", "build"}
  BY DEF Measure, Fits, Build, Test, At, Hd
<1>2. Fail \/ (Move /\ UNCHANGED <<argVars, fs, found, made, buf, held, reader>>)
  BY DEF Measure, Fits, Build, Test
<1>3. CASE Fail
  BY <1>1, <1>3, FailKeeps
<1>4. CASE Move /\ UNCHANGED <<argVars, fs, found, made, buf, held, reader>>
  <2>1. /\ Leads(Kind, opts, Hd, Hd') /\ Kind \in Kinds /\ Kind' = Kind /\ Target' = Target
        /\ input' = input
    BY <1>1, <1>4, Moves
  <2>2. WorkInv /\ Live
    BY <1>1, Running
  <2>3. /\ made' = made /\ held' = held /\ pos' = pos /\ found' = found /\ fs' = fs /\ buf' = buf
    BY <1>4 DEF reader
  <2>4. Out' = Out
    BY <2>1, <2>3 DEF Out
  <2>5. WorkInv'
    <3>1. CASE Hd = "measure"
      <4>1. Kind = "bench"
        BY <3>1, <2>1 DEF Leads, Kinds
      <4> QED
        BY <4>1, <2>1, <2>2, <2>3 DEF WorkInv
    <3>2. CASE Hd = "fits"
      <4>1. Kind = "cblock" /\ Hd' = "create"
        BY <3>2, <2>1 DEF Leads, Kinds
      <4> QED
        BY <3>2, <4>1, <2>1, <2>2, <2>3 DEF WorkInv, CBlockInv
    <3>3. CASE Hd = "build"
      <4>1. Kind = "cstream" /\ Hd' = "compress"
        BY <3>3, <2>1 DEF Leads, Kinds
      <4>2. made /\ pos = 0 /\ Out = <<>>
        BY <3>3, <4>1, <2>2 DEF WorkInv, CStreamInv
      <4>3. Len(found[input]) \in Nat
        BY <1>1, InputIs, FileIs
      <4>4. 0 \in 0..Len(found[input]) /\ IsPart(<<>>, found[input], 0)
        BY <4>3 DEF IsPart
      <4> QED
        BY <4>1, <4>2, <4>4, <2>1, <2>3, <2>4 DEF WorkInv, CStreamInv
    <3> QED
      BY <1>1, <3>1, <3>2, <3>3
  <2> QED
    BY <1>1, <1>4, <2>5, MoveKeeps
<1> QED
  BY <1>2, <1>3, <1>4

\* A block is checked, or decoded.
LEMMA BlockKeeps == MzInv /\ (Check \/ Decode) => MzInv'
PROOF
<1> SUFFICES ASSUME MzInv, Check \/ Decode PROVE MzInv'
  OBVIOUS
<1>1. ASSUME Check PROVE MzInv'
  <2>1. /\ pc = "run" /\ steps # <<>> /\ Hd = "check" /\ Move
        /\ UNCHANGED <<argVars, fs, found, made, buf, held, reader>>
    BY <1>1 DEF Check, At, Hd
  <2>2. /\ Leads(Kind, opts, "check", Hd') /\ Kind \in Kinds /\ Kind' = Kind /\ Target' = Target
        /\ input' = input
    BY <2>1, Moves
  <2>3. Kind = "cblock" /\ Hd' \in {"remove", "end"}
    BY <2>2 DEF Leads, Kinds
  <2>4. WorkInv /\ Live
    BY <2>1, Running
  <2>5. made /\ buf = <<>> /\ fs[Target] = <<Block(found[input])>>
    BY <2>1, <2>3, <2>4 DEF WorkInv, CBlockInv
  <2>6. WorkInv'
    BY <2>1, <2>2, <2>3, <2>5 DEF WorkInv, CBlockInv
  <2> QED
    BY <2>1, <2>6, MoveKeeps
<1>2. ASSUME Decode PROVE MzInv'
  <2>1. pc = "run" /\ steps # <<>> /\ Hd = "decode"
    BY <1>2 DEF Decode, At, Hd
  <2>2. CASE ~Decodable(held)
    BY <1>2, <2>1, <2>2, FailKeeps DEF Decode
  <2>3. CASE Decodable(held)
    <3>1. Move /\ held' = held[1].us /\ UNCHANGED <<argVars, fs, found, made, buf, reader>>
      BY <1>2, <2>3 DEF Decode
    <3>2. /\ Leads(Kind, opts, "decode", Hd') /\ Kind \in Kinds /\ Kind' = Kind
          /\ input' = input /\ opts' = opts /\ sub' = sub
      BY <2>1, <3>1, Moves
    <3>3. Kind \in {"dblock", "vblock"} /\ Hd' \in {"create", "end"}
      BY <3>2 DEF Leads, Kinds
    <3>4. WorkInv /\ Live
      BY <2>1, Running
    <3>5. ~made /\ held = found[input]
      BY <2>1, <3>3, <3>4 DEF WorkInv, DBlockInv
    <3>6. Hd' = "end" => opts.verify \/ sub # "d"
      BY <3>2, <3>3 DEF Leads, Kind
    <3>7. DBlockInv'
      BY <2>3, <3>1, <3>2, <3>3, <3>5, <3>6 DEF DBlockInv
    <3>8. WorkInv'
      BY <3>2, <3>3, <3>7 DEF WorkInv
    <3> QED
      BY <2>1, <3>1, <3>8, MoveKeeps
  <2> QED
    BY <2>2, <2>3
<1> QED
  BY <1>1, <1>2

\* A step that writes, and is done or not.
LEMMA PutKeeps ==
  ASSUME MzInv, pc = "run", steps # <<>>, Hd \notin {"open", "refuse"}, made,
         NEW s, IsSeq(s), PutTo(fs', buf', s), UNCHANGED <<argVars, found, made>>
  PROVE  FilesInv' /\ IsSeq(Out) /\ IsSeq(Out') /\ Out' = Out \o s
PROOF
<1>1. FilesInv /\ Began
  BY Running
<1>2. Target' = Target
  BY SameArgs DEF argVars
<1>3. Touches(fs') /\ IsSeq(buf') /\ IsSeq(Out) /\ IsSeq(Out') /\ Out' = Out \o s
  BY <1>1, <1>2, Puts
<1>4. FilesInv'
  BY <1>3, StepFiles
<1> QED
  BY <1>3, <1>4

\* Nothing before a sequence.
LEMMA NoneJoin == ASSUME NEW s, IsSeq(s) PROVE <<>> \o s = s
PROOF
<1>1. s \in Seq(Range(s))
  BY DEF IsSeq
<1> DEFINE S == Range(s)
<1> HIDE DEF S
<1>2. s \in Seq(S)
  BY <1>1 DEF S
<1> QED
  BY <1>2

\* A block is encoded, or delivered.
LEMMA WholeKeeps == MzInv /\ (Encode \/ Deliver) => MzInv'
PROOF
<1> SUFFICES ASSUME MzInv, Encode \/ Deliver PROVE MzInv'
  OBVIOUS
<1>1. ASSUME Encode PROVE MzInv'
  <2> DEFINE s == <<Block(held)>>
  <2>1. /\ pc = "run" /\ steps # <<>> /\ Hd = "encode" /\ Move /\ PutTo(fs', buf', s)
        /\ UNCHANGED <<argVars, found, made, held, reader>>
    BY <1>1 DEF Encode, At, Hd, Put, PutTo
  <2>2. /\ Leads(Kind, opts, "encode", Hd') /\ Kind \in Kinds /\ Kind' = Kind /\ StepsInv'
        /\ input' = input
    BY <2>1, Moves
  <2>3. Kind = "cblock" /\ Hd' = "flush"
    BY <2>2 DEF Leads, Kinds
  <2>4. made /\ held = found[input] /\ Out = <<>>
    BY <2>1, <2>3, Running DEF WorkInv, CBlockInv
  <2>5. IsSeq(s)
    BY SmallSeq
  <2> HIDE DEF s
  <2>6. FilesInv' /\ Out' = <<>> \o s
    BY <2>1, <2>4, <2>5, PutKeeps
  <2>7. Out' = s
    BY <2>5, <2>6, NoneJoin
  <2>8. WorkInv'
    BY <2>1, <2>2, <2>3, <2>4, <2>7 DEF WorkInv, CBlockInv, s
  <2> QED
    BY <2>1, <2>2, <2>6, <2>8, Goes
<1>2. ASSUME Deliver PROVE MzInv'
  <2> DEFINE s == held
  <2>1. /\ pc = "run" /\ steps # <<>> /\ Hd = "deliver" /\ Move /\ PutTo(fs', buf', s)
        /\ UNCHANGED <<argVars, found, made, held, reader>>
    BY <1>2 DEF Deliver, At, Hd, Put, PutTo
  <2>2. /\ Leads(Kind, opts, "deliver", Hd') /\ Kind \in Kinds /\ Kind' = Kind /\ StepsInv'
        /\ input' = input
    BY <2>1, Moves
  <2>3. Kind = "dblock" /\ Hd' = "flush"
    BY <2>2 DEF Leads, Kinds
  <2>4. made /\ Decodable(found[input]) /\ s = found[input][1].us /\ Out = <<>>
    BY <2>1, <2>3, Running DEF WorkInv, DBlockInv
  <2>5. IsSeq(s)
    <3>1. IsFile(found[input])
      BY <2>1, InputIs
    <3> QED
      BY <2>4, <3>1, FileIs DEF Decodable, IsToken
  <2> HIDE DEF s
  <2>6. FilesInv' /\ Out' = <<>> \o s
    BY <2>1, <2>4, <2>5, PutKeeps
  <2>7. Out' = s /\ held' = held
    BY <2>1, <2>5, <2>6, NoneJoin
  <2>8. WorkInv'
    BY <2>1, <2>2, <2>3, <2>4, <2>7 DEF WorkInv, DBlockInv, s
  <2> QED
    BY <2>1, <2>2, <2>6, <2>8, Goes
<1> QED
  BY <1>1, <1>2

\* See JoinSeq.
LEMMA JoinFirst ==
  ASSUME NEW s, NEW t, IsSeq(s), IsSeq(t), Len(t) \in Nat, Len(t) >= 1
  PROVE  (s \o t)[Len(s) + 1] = t[1]
PROOF
<1> DEFINE S == Range(s) \cup Range(t)
<1>1. s \in Seq(S) /\ t \in Seq(S)
  BY DEF IsSeq
<1> HIDE DEF S
<1> QED
  BY <1>1

\* One more element.
LEMMA OneMore ==
  ASSUME NEW s, IsSeq(s), NEW x
  PROVE  /\ IsSeq(s \o <<x>>) /\ Len(s \o <<x>>) = Len(s) + 1 /\ (s \o <<x>>)[Len(s) + 1] = x
         /\ \A i \in 1..Len(s) : (s \o <<x>>)[i] = s[i]
PROOF
<1> DEFINE t == <<x>>
<1>1. IsSeq(t) /\ Len(t) = 1 /\ t[1] = x
  BY SmallSeq
<1> HIDE DEF t
<1>2. /\ IsSeq(s \o t) /\ Len(s \o t) = Len(s) + Len(t)
      /\ \A i \in 1..Len(s) : (s \o t)[i] = s[i]
  BY <1>1, JoinSeq, Zenon
<1>3. Len(t) \in Nat /\ Len(t) >= 1
  BY <1>1
<1>4. (s \o t)[Len(s) + 1] = t[1]
  BY <1>1, <1>3, JoinFirst, Zenon
<1> QED
  BY <1>1, <1>2, <1>4, Zenon DEF t

\* At most one element.
LEMMA MayBe ==
  ASSUME NEW b \in BOOLEAN, NEW x
  PROVE  LET s == IF b THEN <<x>> ELSE <<>>
         IN IsSeq(s) /\ Len(s) = (IF b THEN 1 ELSE 0) /\ (b => s[1] = x)
PROOF
<1>1. CASE b
  BY <1>1, SmallSeq
<1>2. CASE ~b
  BY <1>2, SmallSeq
<1> QED
  BY <1>1, <1>2

\* The stream o begins with n chunks, of the data c.
Starts(o, c, n) == o[1] = Id /\ \A i \in 1..n : o[i + 1] = Data(c[i])

\* A stream with a chunk more.
LEMMA ChunkMore ==
  ASSUME NEW o, NEW s, NEW c, NEW n \in Nat, n > 0, IsSeq(o), IsSeq(s), Len(s) \in Nat, Len(s) >= 1,
         IsPart(o, c, n)
  PROVE  Len(o \o s) = (n + 1) + Len(s) /\ (o \o s)[n + 2] = s[1] /\ Starts(o \o s, c, n)
PROOF
<1>1. Len(o) = n + 1 /\ o[1] = Id /\ \A i \in 1..n : o[i + 1] = Data(c[i])
  BY DEF IsPart
<1> DEFINE p == o \o s
<1>2. /\ Len(p) = Len(o) + Len(s)
      /\ \A i \in 1..Len(o) : p[i] = o[i]
      /\ p[Len(o) + 1] = s[1]
  <2>1. Len(p) = Len(o) + Len(s) /\ \A i \in 1..Len(o) : p[i] = o[i]
    BY JoinSeq, Zenon
  <2>2. p[Len(o) + 1] = s[1]
    BY JoinFirst, Zenon
  <2> HIDE DEF p
  <2> QED
    BY <2>1, <2>2
<1> HIDE DEF p
<1>3. Len(p) = (n + 1) + Len(s) /\ p[1] = Id
  BY <1>1, <1>2
<1>4. Len(o) + 1 = n + 2
  BY <1>1
<1>5. p[n + 2] = s[1]
  BY <1>2, <1>4
<1>6. \A i \in 1..n : p[i + 1] = Data(c[i])
  BY <1>1, <1>2
<1>7. Starts(p, c, n)
  BY <1>3, <1>6 DEF Starts
<1> QED
  BY <1>3, <1>5, <1>7 DEF p

\* One more chunk of a stream, or the first.
LEMMA PartGrows ==
  ASSUME NEW o, NEW c, IsSeq(o), NEW n \in Nat, IsPart(o, c, n)
  PROVE  LET s == (IF n = 0 THEN <<Id>> ELSE <<>>) \o <<Data(c[n + 1])>>
         IN IsSeq(s) /\ IsPart(o \o s, c, n + 1)
PROOF
<1> DEFINE x == Data(c[n + 1])
           a == IF n = 0 THEN <<Id>> ELSE <<>>
           s == a \o <<x>>
           p == o \o s
<1> HIDE DEF x
<1>1. IsSeq(a) /\ Len(a) = (IF n = 0 THEN 1 ELSE 0) /\ (n = 0 => a[1] = Id)
  <2>1. (n = 0) \in BOOLEAN
    OBVIOUS
  <2> QED
    BY <2>1, MayBe
<1> HIDE DEF a
<1>2. /\ IsSeq(s) /\ Len(s) = Len(a) + 1 /\ s[Len(a) + 1] = x
      /\ \A i \in 1..Len(a) : s[i] = a[i]
  BY <1>1, OneMore, Zenon
<1> HIDE DEF s
<1>3. IsPart(p, c, n + 1)
  <2>1. CASE n = 0
    <3>1. o = <<>>
      BY <2>1 DEF IsPart
    <3>2. p = s
      BY <1>2, <3>1, NoneJoin
    <3>3. Len(s) = 2 /\ s[1] = Id /\ s[2] = Data(c[1])
      BY <1>1, <1>2, <2>1 DEF x
    <3>4. \A i \in 1..1 : s[i + 1] = Data(c[i])
      BY <3>3
    <3> QED
      BY <3>2, <3>3, <3>4, <2>1 DEF IsPart
  <2>2. CASE n > 0
    <3>1. Len(s) = 1 /\ s[1] = x
      BY <1>1, <1>2, <2>2
    <3>2. /\ Len(p) = (n + 1) + Len(s) /\ p[1] = Id /\ p[n + 2] = s[1]
          /\ \A i \in 1..n : p[i + 1] = Data(c[i])
      <4>1. Len(s) \in Nat /\ Len(s) >= 1
        BY <3>1
      <4>2. Len(p) = (n + 1) + Len(s) /\ p[n + 2] = s[1] /\ Starts(p, c, n)
        BY <1>2, <2>2, <4>1, ChunkMore, Zenon
      <4> QED
        BY <4>2 DEF Starts
    <3> HIDE DEF p
    <3>3. Len(p) = (n + 1) + 1 /\ p[(n + 1) + 1] = Data(c[n + 1])
      <4>1. (n + 1) + 1 = n + 2
        OBVIOUS
      <4> QED
        BY <3>1, <3>2, <4>1 DEF x
    <3>4. \A i \in 1..(n + 1) : i = n + 1 \/ i \in 1..n
      OBVIOUS
    <3>5. \A i \in 1..(n + 1) : p[i + 1] = Data(c[i])
      BY <3>2, <3>3, <3>4
    <3> QED
      BY <3>2, <3>3, <3>5 DEF IsPart
  <2> QED
    BY <2>1, <2>2
<1> QED
  BY <1>2, <1>3 DEF s, a, x, p

\* The end of a stream, and its index.
LEMMA PartEnds ==
  ASSUME NEW o, NEW c, IsSeq(o), IsSeq(c), NEW n, n = Len(c), IsPart(o, c, n), NEW b \in BOOLEAN
  PROVE  LET s == (IF n = 0 THEN <<Id>> ELSE <<>>) \o <<Eof(n)>>
                  \o (IF b THEN <<Idx(n)>> ELSE <<>>)
         IN IsSeq(s) /\ IsAll(o \o s, c)
PROOF
<1> DEFINE e == Eof(n)
           d == Idx(n)
           a == IF n = 0 THEN <<Id>> ELSE <<>>
           z == IF b THEN <<d>> ELSE <<>>
           y == a \o <<e>>
           s == y \o z
           p == o \o s
<1>0. n \in Nat /\ d.t = "idx"
  BY SeqIs, Zenon DEF Idx
<1> HIDE DEF e, d
<1>1. IsSeq(a) /\ Len(a) = (IF n = 0 THEN 1 ELSE 0) /\ (n = 0 => a[1] = Id)
  <2>1. (n = 0) \in BOOLEAN
    OBVIOUS
  <2> QED
    BY <2>1, MayBe
<1>2. IsSeq(z) /\ Len(z) = (IF b THEN 1 ELSE 0) /\ (b => z[1] = d)
  BY MayBe
<1> HIDE DEF a, z
<1>3. /\ IsSeq(y) /\ Len(y) = Len(a) + 1 /\ y[Len(a) + 1] = e
      /\ \A i \in 1..Len(a) : y[i] = a[i]
  BY <1>1, OneMore, Zenon
<1> HIDE DEF y
<1>4. /\ IsSeq(s) /\ Len(s) = Len(y) + Len(z)
      /\ \A i \in 1..Len(y) : s[i] = y[i]
      /\ \A i \in 1..Len(z) : s[Len(y) + i] = z[i]
  <2>1. IsSeq(y) /\ IsSeq(z)
    BY <1>2, <1>3
  <2> QED
    BY ONLY <2>1, JoinSeq
<1> HIDE DEF s
<1>5. /\ IsSeq(p) /\ Len(p) = Len(o) + Len(s)
      /\ \A i \in 1..Len(o) : p[i] = o[i]
      /\ \A i \in 1..Len(s) : p[Len(o) + i] = s[i]
  BY <1>4, JoinSeq
<1>6. Len(o) \in Nat
  BY SeqIs, Zenon
<1>7. Len(s) = Len(a) + 1 + Len(z) /\ s[Len(a) + 1] = e /\ (n = 0 => s[1] = Id)
  BY <1>0, <1>1, <1>2, <1>3, <1>4
<1>8. \A i \in 1..Len(s) : i > Len(a) + 1 => s[i].t = "idx"
  <2> TAKE i \in 1..Len(s)
  <2> HAVE i > Len(a) + 1
  <2>1. i = Len(y) + 1 /\ 1 \in 1..Len(z) /\ b
    BY <1>1, <1>2, <1>3, <1>4, <1>7
  <2>2. s[i] = z[1]
    BY <2>1, <1>4
  <2> QED
    BY <2>1, <2>2, <1>0, <1>2
<1> HIDE DEF p
<1>9. Len(a) + Len(o) = n + 1
  <2>1. CASE n = 0
    <3>1. o = <<>>
      BY <2>1 DEF IsPart
    <3> QED
      BY <3>1, <2>1, <1>1, SmallSeq
  <2>2. CASE n > 0
    BY <2>2, <1>0, <1>1 DEF IsPart
  <2> QED
    BY <1>0, <2>1, <2>2
<1>10. Len(a) \in Nat /\ Len(z) \in Nat /\ Len(s) \in Nat
  BY <1>1, <1>2, <1>7
<1>11. p[1] = Id
  <2>1. CASE n = 0
    <3>1. Len(o) = 0 /\ 1 \in 1..Len(s)
      BY <2>1, <1>0, <1>1, <1>7, <1>9, <1>10
    <3> QED
      BY <3>1, <2>1, <1>5, <1>7
  <2>2. CASE n > 0
    BY <2>2, <1>0, <1>5, <1>6 DEF IsPart
  <2> QED
    BY <1>0, <2>1, <2>2
<1>12. p[n + 2] = e
  <2>1. Len(a) + 1 \in 1..Len(s) /\ Len(o) + (Len(a) + 1) = n + 2
    BY <1>0, <1>6, <1>7, <1>9, <1>10
  <2> QED
    BY <2>1, <1>5, <1>7
<1>13. \A i \in 1..n : p[i + 1] = Data(c[i])
  <2> TAKE i \in 1..n
  <2>1. Len(o) = n + 1 /\ o[i + 1] = Data(c[i])
    BY <1>0 DEF IsPart
  <2> QED
    BY <2>1, <1>0, <1>5
<1>14. \A i \in (n + 3)..Len(p) : p[i].t = "idx"
  <2> TAKE i \in (n + 3)..Len(p)
  <2> DEFINE k == i - Len(o)
  <2>1. k \in 1..Len(s) /\ k > Len(a) + 1 /\ Len(o) + k = i
    BY <1>0, <1>5, <1>6, <1>7, <1>9, <1>10
  <2> HIDE DEF k
  <2> QED
    BY <2>1, <1>5, <1>8
<1>15. Len(p) >= n + 2
  BY <1>0, <1>5, <1>6, <1>7, <1>9, <1>10
<1>16. IsAll(p, c)
  BY <1>11, <1>12, <1>13, <1>14, <1>15 DEF IsAll, e
<1> QED
  BY <1>4, <1>16 DEF s, y, z, a, e, d, p

\* The first step is on the way of the command.
LEMMA HeadLeads ==
  ASSUME MzInv, pc = "run", steps # <<>>
  PROVE  /\ Leads(Kind, opts, Hd, After(steps, 1)) /\ Kind \in Kinds /\ (Hd = "remove" => Removes)
PROOF
<1>1. StepsInv /\ Live /\ Kind \in Kinds
  BY Running
<1>2. /\ IsSeq(steps)
      /\ \A i \in 1..Len(steps) : Leads(Kind, opts, steps[i], After(steps, i))
      /\ \A i \in 1..Len(steps) : steps[i] = "remove" => Removes
  BY <1>1 DEF StepsInv
<1>3. steps \in Seq(Range(steps))
  BY <1>2 DEF IsSeq
<1>4. Len(steps) \in Nat /\ Len(steps) > 0 /\ Head(steps) = steps[1]
  BY <1>3
<1>5. 1 \in 1..Len(steps) /\ Hd = steps[1]
  BY <1>4 DEF Hd
<1> QED
  BY <1>1, <1>2, <1>5

\* A step that is not done yet.
LEMMA Stays ==
  ASSUME MzInv, pc = "run", UNCHANGED <<argVars, steps>>
  PROVE  /\ StepsInv' /\ Hd' = Hd /\ Kind' = Kind /\ Target' = Target /\ Unclear' = Unclear
         /\ opts' = opts /\ input' = input /\ sub' = sub
PROOF
<1>1. /\ Kind' = Kind /\ Target' = Target /\ Unclear' = Unclear /\ Removes' = Removes
  BY SameArgs DEF argVars
<1>2. opts' = opts /\ input' = input /\ sub' = sub /\ steps' = steps /\ pc' = pc
  BY DEF argVars
<1>3. StepsInv /\ Live
  BY Running
<1> QED
  BY <1>1, <1>2, <1>3 DEF StepsInv, Hd

\* The input is compressed.
LEMMA CompressKeeps == MzInv /\ Compress => MzInv'
PROOF
<1> SUFFICES ASSUME MzInv, Compress PROVE MzInv'
  OBVIOUS
<1>1. pc = "run" /\ steps # <<>> /\ Hd = "compress" /\ UNCHANGED <<argVars, found, made, held, left, open, count>>
  BY DEF Compress, At, Hd
<1>2. Kind = "cstream"
  <2>1. Leads(Kind, opts, "compress", After(steps, 1)) /\ Kind \in Kinds
    BY <1>1, HeadLeads
  <2> QED
    BY <2>1 DEF Leads, Kinds
<1> DEFINE c == found[input]
<1>3. Src = c /\ IsSeq(c) /\ Len(c) \in Nat
  BY <1>1, <1>2, InputIs, FileIs DEF Src
<1>4. made /\ pos \in 0..Len(c) /\ IsPart(Out, c, pos)
  BY <1>1, <1>2, Running DEF WorkInv, CStreamInv
<1>5. CASE pos < Len(c)
  <2>1. PICK n \in Nat : n = pos
    BY <1>4
  <2> DEFINE s == (IF n = 0 THEN <<Id>> ELSE <<>>) \o <<Data(c[n + 1])>>
  <2>2. PutTo(fs', buf', s) /\ pos' = n + 1 /\ steps' = steps
    BY <1>3, <1>5, <2>1 DEF Compress, Put, PutTo
  <2>3. IsSeq(Out)
    <3>1. FilesInv /\ Began
      BY <1>1, Running
    <3> QED
      BY <3>1, <1>4, OutIs
  <2>4. IsSeq(s) /\ IsPart(Out \o s, c, n + 1)
    <3> HIDE DEF c
    <3>1. IsPart(Out, c, n)
      BY <1>4, <2>1
    <3> QED
      BY <2>1, <2>3, <3>1, PartGrows, Zenon
  <2> HIDE DEF s
  <2>5. FilesInv' /\ Out' = Out \o s
    BY <1>1, <1>4, <2>2, <2>4, PutKeeps
  <2>6. /\ StepsInv' /\ Hd' = Hd /\ Kind' = Kind /\ input' = input
    BY <1>1, <2>2, Stays
  <2>7. pos' \in 0..Len(c) /\ IsPart(Out', c, pos') /\ made'
    BY <1>1, <1>3, <1>4, <1>5, <2>1, <2>2, <2>4, <2>5
  <2>8. WorkInv'
    BY <1>1, <1>2, <2>6, <2>7 DEF WorkInv, CStreamInv
  <2> QED
    BY <1>1, <2>5, <2>6, <2>8, Goes
<1>6. CASE ~(pos < Len(c))
  <2>1. Move /\ UNCHANGED <<fs, buf, pos>> /\ pos = Len(c)
    BY <1>3, <1>4, <1>6 DEF Compress
  <2>2. /\ Leads(Kind, opts, "compress", Hd') /\ Kind' = Kind /\ Target' = Target /\ input' = input
    BY <1>1, <2>1, Moves
  <2>3. Hd' = "finish"
    BY <1>2, <2>2 DEF Leads
  <2>4. Out' = Out
    BY <2>1, <2>2 DEF Out
  <2>5. WorkInv'
    BY <1>1, <1>2, <1>4, <2>1, <2>2, <2>3, <2>4 DEF WorkInv, CStreamInv
  <2> QED
    BY <1>1, <2>1, <2>5, MoveKeeps
<1> QED
  BY <1>5, <1>6

\* The stream is finished.
LEMMA FinishKeeps == MzInv /\ Finish => MzInv'
PROOF
<1> SUFFICES ASSUME MzInv, Finish PROVE MzInv'
  OBVIOUS
<1> DEFINE c == found[input]
<1>1. /\ pc = "run" /\ steps # <<>> /\ Hd = "finish" /\ Move
      /\ UNCHANGED <<argVars, found, made, held, reader>>
  BY DEF Finish, At, Hd
<1>2. /\ Leads(Kind, opts, "finish", Hd') /\ Kind \in Kinds /\ Kind' = Kind /\ StepsInv'
      /\ input' = input
  BY <1>1, Moves
<1>3. Kind = "cstream" /\ Hd' = "flush"
  BY <1>2 DEF Leads, Kinds
<1>4. made /\ pos = Len(c) /\ IsPart(Out, c, pos)
  BY <1>1, <1>3, Running DEF WorkInv, CStreamInv
<1>5. IsSeq(c) /\ Len(c) \in Nat /\ IsSeq(Out) /\ opts.index \in BOOLEAN
  <2>1. FilesInv /\ Began /\ OptionsOk(opts)
    BY <1>1, Running
  <2>2. IsSeq(Out)
    BY <2>1, <1>4, OutIs
  <2>3. opts.index \in BOOLEAN
    BY <2>1 DEF OptionsOk, Options
  <2> QED
    BY <2>2, <2>3, <1>1, InputIs, FileIs
<1>6. PICK n \in Nat : n = pos
  BY <1>4, <1>5
<1>7. PICK b \in BOOLEAN : b = opts.index
  BY <1>5
<1> DEFINE s == (IF n = 0 THEN <<Id>> ELSE <<>>) \o <<Eof(n)>> \o (IF b THEN <<Idx(n)>> ELSE <<>>)
<1>8. PutTo(fs', buf', s)
  BY <1>6, <1>7 DEF Finish, Put, PutTo
<1>9. IsSeq(s) /\ IsAll(Out \o s, c)
  <2> HIDE DEF c
  <2>1. IsPart(Out, c, n) /\ n = Len(c) /\ IsSeq(c)
    BY <1>4, <1>5, <1>6
  <2> QED
    BY <2>1, <1>5, <1>7, PartEnds, Zenon
<1> HIDE DEF s
<1>10. FilesInv' /\ Out' = Out \o s
  BY <1>1, <1>4, <1>8, <1>9, PutKeeps
<1>11. WorkInv'
  BY <1>1, <1>2, <1>3, <1>4, <1>9, <1>10 DEF WorkInv, CStreamInv
<1> QED
  BY <1>1, <1>2, <1>10, <1>11, Goes

\* The output is flushed.
LEMMA FlushKeeps == MzInv /\ Flush => MzInv'
PROOF
<1> SUFFICES ASSUME MzInv, Flush PROVE MzInv'
  OBVIOUS
<1>1. /\ pc = "run" /\ steps # <<>> /\ Hd = "flush" /\ Move /\ fs' = Written(buf) /\ buf' = <<>>
      /\ UNCHANGED <<argVars, found, made, held, reader>>
  BY DEF Flush, At, Hd
<1>2. /\ StepsInv' /\ Leads(Kind, opts, "flush", Hd') /\ Kind \in Kinds
      /\ Kind' = Kind /\ Target' = Target /\ opts' = opts /\ input' = input /\ sub' = sub
      /\ Unclear' = Unclear
  BY <1>1, Moves
<1>3. FilesInv /\ WorkInv /\ Live /\ Began
  BY <1>1, Running
<1>4. Kind \in {"cblock", "cstream", "dblock", "dstream", "seek"}
  <2>1. Kind # "follow"
    BY <1>1, <1>3 DEF WorkInv, FollowInv
  <2> QED
    BY <2>1, <1>2 DEF Leads, Kinds
<1>5. made
  <2>1. CASE Kind = "dstream"
    <3>1. sub = "d"
      BY <2>1 DEF Kind
    <3>2. ~opts.verify
      BY <2>1, <1>2 DEF Leads
    <3> QED
      BY <3>1, <3>2, <2>1, <1>1, <1>3 DEF WorkInv, DStreamInv
  <2>2. CASE Kind = "seek"
    <3>1. ~opts.verify
      BY <2>2, <1>2 DEF Leads
    <3> QED
      BY <3>1, <2>2, <1>1, <1>3 DEF WorkInv, SeekInv
  <2>3. CASE Kind \in {"cblock", "cstream", "dblock"}
    BY <2>3, <1>1, <1>3 DEF WorkInv, CBlockInv, CStreamInv, DBlockInv
  <2> QED
    BY <1>4, <2>1, <2>2, <2>3
<1> DEFINE f == fs'
<1>6. Touches(f) /\ f[Target] = Out
  <2>1. Target \in DOMAIN fs /\ IsSeq(fs[Target]) /\ IsSeq(buf) /\ IsSeq(Out)
    BY <1>3, <1>5, OutIs
  <2> DEFINE g == Written(buf)
  <2>2. /\ DOMAIN g = DOMAIN fs /\ g[Target] = fs[Target] \o buf
        /\ \A p \in DOMAIN fs \ {Target} : g[p] = fs[p]
    BY <2>1, WrittenIs, Zenon
  <2>3. f = g
    BY <1>1
  <2> HIDE DEF f, g
  <2> QED
    BY <2>1, <2>2, <2>3, <1>5 DEF Touches, Out
<1>7. FilesInv'
  BY <1>1, <1>5, <1>6, StepFiles, SmallSeq
<1>8. fs'[Target'] = Out /\ buf' = <<>> /\ made' /\ held' = held /\ pos' = pos /\ found' = found
  BY <1>1, <1>2, <1>5, <1>6 DEF reader
<1> HIDE DEF f
<1>9. WorkInv'
  <2>1. CASE Kind = "cblock"
    <3>1. Hd' \in {"check", "remove", "end"} /\ Out = <<Block(found[input])>>
      BY <1>1, <1>2, <1>3, <2>1 DEF Leads, WorkInv, CBlockInv
    <3> QED
      BY <3>1, <2>1, <1>2, <1>8 DEF WorkInv, CBlockInv
  <2>2. CASE Kind = "cstream"
    <3>1. Hd' \in {"remove", "end"} /\ IsAll(Out, found[input])
      BY <1>1, <1>2, <1>3, <2>2 DEF Leads, WorkInv, CStreamInv
    <3> QED
      BY <3>1, <2>2, <1>2, <1>8 DEF WorkInv, CStreamInv
  <2>3. CASE Kind = "dblock"
    <3>1. Hd' \in {"remove", "end"}
      BY <1>2, <2>3 DEF Leads
    <3>2. Decodable(found[input]) /\ held = found[input][1].us /\ Out = held
      BY <1>1, <1>3, <2>3 DEF WorkInv, DBlockInv
    <3> QED
      BY <3>1, <3>2, <2>3, <1>2, <1>8 DEF WorkInv, DBlockInv
  <2>4. CASE Kind = "dstream"
    <3>1. Hd' \in {"remove", "end"}
      BY <1>2, <2>4 DEF Leads
    <3>2. /\ made <=> sub = "d" /\ ~opts.verify
          /\ Whole(found[input]) /\ Out = Units(found[input])
      BY <1>1, <1>3, <1>5, <2>4 DEF WorkInv, DStreamInv
    <3>3. DStreamInv'
      BY <3>1, <3>2, <1>2, <1>5, <1>8 DEF DStreamInv
    <3> QED
      BY <3>3, <2>4, <1>2 DEF WorkInv
  <2>5. CASE Kind = "seek"
    <3> DEFINE c == found[input]
    <3>1. Hd' = "end" /\ ~opts.verify
      BY <1>2, <2>5 DEF Leads
    <3>2. SeekInv /\ held = c
      BY <1>1, <1>3, <2>5 DEF WorkInv, SeekInv
    <3>3. ASSUME Indexed(c) PROVE RangeInv'
      <4> DEFINE us == Units(c)
      <4>1. PICK m \in 0..Got(c) :
              /\ Begins(opts, us, m) /\ Reads(us, m, Got(c)) /\ Shows(Out, us, m, Got(c))
              /\ ~Unclear => Got(c) = To(opts, us)
        BY <1>1, <1>5, <3>2, <3>3 DEF SeekInv, RangeInv
      <4>2. Got(found[input])' = Got(c) /\ found'[input'] = c
        BY <1>2, <1>8 DEF Got
      <4> HIDE DEF c
      <4> QED
        BY <3>1, <4>1, <4>2, <1>2, <1>8 DEF RangeInv
    <3>4. SeekInv'
      BY <3>1, <3>2, <3>3, <1>2, <1>8 DEF SeekInv
    <3> QED
      BY <3>4, <2>5, <1>2 DEF WorkInv
  <2> QED
    BY <1>4, <2>1, <2>2, <2>3, <2>4, <2>5
<1> QED
  BY <1>1, <1>2, <1>7, <1>9, Goes

\* The output has all of the input at the end.
LEMMA HasAll ==
  ASSUME ArgInv, FilesInv, WorkInv, Live, Began, input \in DOMAIN found, Hd \in {"remove", "end"},
         Kind \in {"cblock", "cstream", "dblock", "dstream"}, made
  PROVE  OutputHasAll
PROOF
<1> DEFINE c == found[input]
           o == fs[Target]
<1>1. IsFile(c) /\ IsSeq(c) /\ IsSeq(o)
  BY FoundIs, FileIs, OutIs
<1>2. CASE Kind = "cblock"
  <2>1. o = <<Block(c)>> /\ sub = "c"
    BY <1>2 DEF WorkInv, CBlockInv, Kind
  <2>2. Len(o) = 1 /\ o[1] = Block(c)
    BY <2>1, SmallSeq
  <2>3. Stands(o, c)
    BY <2>2 DEF Stands, Decodable, Block
  <2> QED
    BY <2>1, <2>3 DEF OutputHasAll
<1>3. CASE Kind = "cstream"
  <2>1. IsAll(o, c) /\ sub = "c"
    BY <1>3 DEF WorkInv, CStreamInv, Kind
  <2>2. Stands(o, c)
    <3> HIDE DEF o, c
    <3> QED
      BY <2>1, <1>1, AllStands
  <2> QED
    BY <2>1, <2>2 DEF OutputHasAll
<1>4. CASE Kind = "dblock"
  <2>1. Decodable(c) /\ o = c[1].us /\ sub = "d"
    BY <1>4 DEF WorkInv, DBlockInv, Kind
  <2> QED
    BY <2>1 DEF OutputHasAll, Stands
<1>5. CASE Kind = "dstream"
  <2>1. Whole(c) /\ o = Units(c) /\ sub = "d"
    BY <1>5 DEF WorkInv, DStreamInv, Kind
  <2> QED
    BY <2>1 DEF OutputHasAll, Stands
<1> QED
  BY <1>2, <1>3, <1>4, <1>5

\* The input is removed.
LEMMA RemoveKeeps == MzInv /\ RemoveInput => MzInv'
PROOF
<1> SUFFICES ASSUME MzInv, RemoveInput PROVE MzInv'
  OBVIOUS
<1>1. /\ pc = "run" /\ steps # <<>> /\ Hd = "remove" /\ Move
      /\ fs' = [p \in DOMAIN fs \ {input} |-> fs[p]]
      /\ UNCHANGED <<argVars, found, made, buf, held, reader>>
  BY DEF RemoveInput, At, Hd
<1>2. /\ StepsInv' /\ Leads(Kind, opts, "remove", Hd') /\ Kind \in Kinds
      /\ Kind' = Kind /\ Target' = Target /\ opts' = opts /\ input' = input /\ sub' = sub
      /\ Unclear' = Unclear
  BY <1>1, Moves
<1>3. ArgInv /\ FilesInv /\ WorkInv /\ Live /\ Began /\ opts.rm
  BY <1>1, Running, HeadLeads DEF Removes
<1>4. Kind \in {"cblock", "cstream", "dblock", "dstream"} /\ Hd' = "end"
  BY <1>2 DEF Leads, Kinds
<1>5. made /\ buf = <<>>
  <2>1. CASE Kind = "dstream"
    <3>1. sub = "d"
      BY <2>1 DEF Kind
    <3>2. ~opts.verify
      BY <2>1, <1>2 DEF Leads
    <3> QED
      BY <3>1, <3>2, <2>1, <1>1, <1>3 DEF WorkInv, DStreamInv
  <2>2. CASE Kind \in {"cblock", "cstream", "dblock"}
    BY <2>2, <1>1, <1>3 DEF WorkInv, CBlockInv, CStreamInv, DBlockInv
  <2> QED
    BY <1>4, <2>1, <2>2
<1>6. input \in DOMAIN found /\ Target # input
  BY <1>1, InputIs
<1>7. OutputHasAll
  BY <1>1, <1>3, <1>4, <1>5, <1>6, HasAll
<1> DEFINE f == fs'
<1>8. DOMAIN f = DOMAIN fs \ {input} /\ \A p \in DOMAIN f : f[p] = fs[p]
  BY <1>1
<1>9. Target \in DOMAIN fs /\ IsSeq(fs[Target]) /\ f[Target] = fs[Target]
  <2>1. Target \in DOMAIN fs /\ IsSeq(fs[Target])
    BY <1>3, <1>5, OutIs
  <2> QED
    BY <2>1, <1>6, <1>8
<1>10. steps' = <<>>
  <2> SUFFICES ASSUME steps' # <<>> PROVE FALSE
    OBVIOUS
  <2>1. Head(steps') = "end"
    BY <1>4 DEF Hd
  <2>2. /\ IsSeq(steps') /\ \A i \in 1..Len(steps') : Leads(Kind, opts, steps'[i], After(steps', i))
    <3>1. Live'
      BY <1>1 DEF Live, argVars
    <3> QED
      BY <3>1, <1>2 DEF StepsInv
  <2>3. steps' \in Seq(Range(steps'))
    BY <2>2 DEF IsSeq
  <2>4. Len(steps') \in Nat /\ Len(steps') > 0 /\ Head(steps') = steps'[1]
    BY <2>3
  <2>5. Leads(Kind, opts, "end", After(steps', 1))
    BY <2>1, <2>2, <2>4
  <2> QED
    BY <1>4, <2>5 DEF Leads
<1>11. /\ found' = found /\ made' = made /\ buf' = <<>> /\ held' = held /\ pos' = pos
       /\ fs'[Target'] = fs[Target]
  BY <1>1, <1>2, <1>5, <1>9 DEF reader
<1>12. OutputHasAll'
  BY <1>2, <1>7, <1>11 DEF OutputHasAll
<1> HIDE DEF f
<1>13. FilesInv'
  <2>1. /\ found \in Worlds
        /\ DOMAIN fs \subseteq DOMAIN found \cup {Target}
        /\ \A p \in DOMAIN found \ {input, Target} : p \in DOMAIN fs /\ fs[p] = found[p]
    BY <1>3, <1>5 DEF FilesInv
  <2>2. /\ DOMAIN f \subseteq DOMAIN found \cup {Target}
        /\ \A p \in DOMAIN found \ {input, Target} : p \in DOMAIN f /\ f[p] = found[p]
        /\ Target \in DOMAIN f /\ IsSeq(f[Target]) /\ input \notin DOMAIN f
    BY <2>1, <1>6, <1>8, <1>9
  <2>3. IsSeq(buf')
    BY <1>11, SmallSeq
  <2> QED
    BY <2>1, <2>2, <2>3, <1>2, <1>3, <1>5, <1>6, <1>10, <1>11, <1>12 DEF FilesInv, f
<1>14. WorkInv'
  <2>1. CASE Kind = "cblock"
    <3>1. fs[Target] = <<Block(found[input])>>
      BY <1>1, <1>3, <2>1 DEF WorkInv, CBlockInv
    <3> QED
      BY <3>1, <2>1, <1>2, <1>4, <1>5, <1>11 DEF WorkInv, CBlockInv
  <2>2. CASE Kind = "cstream"
    <3>1. IsAll(fs[Target], found[input])
      BY <1>1, <1>3, <2>2 DEF WorkInv, CStreamInv
    <3> QED
      BY <3>1, <2>2, <1>2, <1>4, <1>5, <1>11 DEF WorkInv, CStreamInv
  <2>3. CASE Kind = "dblock"
    <3>1. Decodable(found[input]) /\ held = found[input][1].us /\ fs[Target] = held
      BY <1>1, <1>3, <2>3 DEF WorkInv, DBlockInv
    <3> QED
      BY <3>1, <2>3, <1>2, <1>4, <1>5, <1>11 DEF WorkInv, DBlockInv
  <2>4. CASE Kind = "dstream"
    <3>1. /\ made <=> sub = "d" /\ ~opts.verify
          /\ Whole(found[input]) /\ fs[Target] = Units(found[input])
      BY <1>1, <1>3, <1>5, <2>4 DEF WorkInv, DStreamInv
    <3>2. DStreamInv'
      BY <3>1, <1>2, <1>4, <1>5, <1>11 DEF DStreamInv
    <3> QED
      BY <3>2, <2>4, <1>2 DEF WorkInv
  <2> QED
    BY <1>4, <2>1, <2>2, <2>3, <2>4
<1> QED
  BY <1>1, <1>2, <1>13, <1>14, Goes

----------------------------------------------------------------------------
(* Reading *)

\* The state a reader is in.
LEMMA Reader ==
  ASSUME MzInv, pc = "run", steps # <<>>, Hd \in {"copy", "newline"}
  PROVE  /\ ArgInv /\ FilesInv /\ WorkInv /\ Live /\ Began /\ OptionsOk(opts)
         /\ Kind \in {"dstream", "vstream", "follow", "seek"} /\ input # NoPath
         /\ Following <=> Kind = "follow"
         /\ Src = fs[input] /\ IsFile(Src) /\ IsSeq(Src) /\ Len(Src) \in Nat
         /\ Kind # "follow" => Src = found[input]
PROOF
<1>1. Leads(Kind, opts, Hd, After(steps, 1)) /\ Kind \in Kinds
  BY HeadLeads
<1>2. Kind \in {"dstream", "vstream", "follow", "seek"}
  BY <1>1 DEF Leads, Kinds
<1>3. /\ ArgInv /\ FilesInv /\ WorkInv /\ Live /\ Began /\ OptionsOk(opts)
      /\ input # NoPath => (Following <=> Kind = "follow")
  BY Running
<1>4. /\ input # NoPath /\ IsFile(fs[input]) /\ (Kind # "follow" => fs[input] = found[input])
  BY InputIs
<1> QED
  BY <1>2, <1>3, <1>4, FileIs DEF Src

\* A reader goes one token on.
LEMMA TracksOn ==
  ASSUME NEW c, IsFile(c), NEW p \in Nat, p < Len(c), NEW in, NEW n, Tracks(c, p, in, n)
  PROVE  /\ c[p + 1] = Id => Tracks(c, p + 1, TRUE, 0)
         /\ c[p + 1] = Eof(n) => Tracks(c, p + 1, FALSE, n)
         /\ c[p + 1].t = "idx" => Tracks(c, p + 1, in, n)
         /\ c[p + 1].t = "data" /\ in => Tracks(c, p + 1, in, n + 1)
PROOF
<1>1. /\ (in <=> Inside(c, p + 1)) /\ n = Before(c, p + 1) /\ \A k \in 1..p : Sound(c, k)
  BY DEF Tracks
<1>2. Len(c) \in Nat
  BY FileIs
<1> DEFINE q == p + 1
           x == c[q]
<1>3. q \in Nat \ {0} /\ q \in 0..Len(c)
  BY <1>2
<1>4. /\ Inside(c, q + 1) <=> x = Id \/ (Inside(c, q) /\ x.t # "eof")
      /\ Before(c, q) \in Nat
      /\ Before(c, q + 1) = IF x = Id THEN 0 ELSE IF x.t = "data" THEN Before(c, q) + 1 ELSE Before(c, q)
  BY <1>3, TracksStep
<1>5. ASSUME Sound(c, q) PROVE \A k \in 1..q : Sound(c, k)
  BY <1>1, <1>5
<1>6. Id.t = "id" /\ Eof(n).t = "eof"
  BY DEF Id, Eof
<1>7. (in <=> Inside(c, q)) /\ n = Before(c, q)
  BY <1>1
<1> HIDE DEF q, x
<1>8. x = Id => Tracks(c, q, TRUE, 0)
  <2> SUFFICES ASSUME x = Id PROVE Tracks(c, q, TRUE, 0)
    OBVIOUS
  <2>1. Sound(c, q)
    BY DEF Sound, x
  <2> QED
    BY <2>1, <1>3, <1>4, <1>5 DEF Tracks
<1>9. x = Eof(n) => Tracks(c, q, FALSE, n)
  <2> SUFFICES ASSUME x = Eof(n) PROVE Tracks(c, q, FALSE, n)
    OBVIOUS
  <2>1. Sound(c, q)
    BY <1>7 DEF Sound, x
  <2>2. x # Id /\ x.t = "eof"
    BY <1>6
  <2> QED
    BY <2>1, <2>2, <1>3, <1>4, <1>5, <1>7 DEF Tracks
<1>10. x.t = "idx" => Tracks(c, q, in, n)
  <2> SUFFICES ASSUME x.t = "idx" PROVE Tracks(c, q, in, n)
    OBVIOUS
  <2>1. Sound(c, q)
    BY DEF Sound, x
  <2>2. x # Id
    BY <1>6
  <2> QED
    BY <2>1, <2>2, <1>3, <1>4, <1>5, <1>7 DEF Tracks
<1>11. x.t = "data" /\ in => Tracks(c, q, in, n + 1)
  <2> SUFFICES ASSUME x.t = "data", in PROVE Tracks(c, q, in, n + 1)
    OBVIOUS
  <2>1. Sound(c, q)
    BY <1>7 DEF Sound, x
  <2>2. x # Id
    BY <1>6
  <2> QED
    BY <2>1, <2>2, <1>3, <1>4, <1>5, <1>7 DEF Tracks
<1> QED
  BY <1>8, <1>9, <1>10, <1>11 DEF q, x

\* One that goes on has not come to the end.
LEMMA NotAtEnd ==
  ASSUME NEW c, c = Src, Len(c) \in Nat, pos \in 0..Len(c), ~AtEnd
  PROVE  /\ pos \in Nat /\ pos < Len(c) /\ pos \in 0..(Len(c) - 1) /\ pos + 1 \in 0..Len(c)
         /\ Ahead = c[pos + 1]
PROOF BY DEF AtEnd, Ahead

\* Chunks that are no data.
LEMMA PassKeeps == MzInv /\ Pass => MzInv'
PROOF
<1> SUFFICES ASSUME MzInv, Pass PROVE MzInv'
  OBVIOUS
<1>1. /\ pc = "run" /\ steps # <<>> /\ Hd \in {"copy", "newline"} /\ ~AtEnd /\ pos' = pos + 1
      /\ UNCHANGED <<argVars, steps, fs, found, made, buf, held, left>>
  BY DEF Pass, Reading, At, Hd
<1>2. \/ Ahead = Id /\ open' = TRUE /\ count' = 0
      \/ Ahead = Eof(count) /\ open' = FALSE /\ count' = count
      \/ Ahead.t = "idx" /\ open' = open /\ count' = count
  BY DEF Pass
<1>3. Ahead.t \in {"id", "eof", "idx"}
  BY <1>2 DEF Id, Eof
<1>4. /\ StepsInv' /\ Hd' = Hd /\ Kind' = Kind /\ Target' = Target /\ Unclear' = Unclear
      /\ opts' = opts /\ input' = input /\ sub' = sub
  BY <1>1, Stays
<1>5. /\ WorkInv /\ FilesInv /\ Live /\ Began
      /\ Kind \in {"dstream", "vstream", "follow", "seek"}
      /\ Src = fs[input] /\ IsFile(Src) /\ IsSeq(Src) /\ Len(Src) \in Nat
      /\ Kind # "follow" => Src = found[input]
  BY <1>1, Reader
<1>6. FilesInv'
  <2>1. Touches(fs') /\ IsSeq(buf') /\ (~made => buf' = <<>>)
    BY <1>1, <1>5, NoTouch
  <2> QED
    BY <2>1, <1>1, StepFiles
<1>7. /\ Out' = Out /\ made' = made /\ buf' = buf /\ found' = found /\ fs' = fs /\ left' = left
      /\ held' = held
  BY <1>1, <1>4 DEF Out
<1> DEFINE c == Src
<1>8. ASSUME pos \in 0..Len(c)
      PROVE  /\ pos' \in 0..Len(c) /\ Len(UnitsTo(c)[pos']) = Got(c)
             /\ pos \in Nat /\ pos < Len(c) /\ Ahead = c[pos + 1]
  <2>1. /\ pos \in Nat /\ pos < Len(c) /\ pos \in 0..(Len(c) - 1) /\ pos + 1 \in 0..Len(c)
        /\ Ahead = c[pos + 1]
    BY <1>1, <1>5, <1>8, NotAtEnd
  <2>2. Len(UnitsTo(c)[pos + 1]) = Len(UnitsTo(c)[pos])
    <3> HIDE DEF c
    <3>1. c[pos + 1].t \in {"id", "eof", "idx"} /\ IsFile(c)
      BY <2>1, <1>3, <1>5 DEF c
    <3> QED
      BY <2>1, <3>1, GotMore
  <2> QED
    BY <2>1, <2>2, <1>1 DEF Got
<1>9. WorkInv'
  <2>1. CASE Kind \in {"dstream", "vstream"}
    <3>1. DStreamInv /\ found[input] = c
      BY <1>5, <2>1 DEF WorkInv
    <3>2. Hd = "copy"
      BY <1>1, <3>1 DEF DStreamInv
    <3>3. /\ made <=> sub = "d" /\ ~opts.verify
          /\ left = -1 /\ Tracks(c, pos, open, count) /\ (made => Shows(Out, Units(c), 0, Got(c)))
      BY <3>1, <3>2 DEF DStreamInv
    <3>4. pos \in 0..Len(c)
      BY <3>3 DEF Tracks
    <3>5. Tracks(c, pos', open', count')
      <4>1. /\ c[pos + 1] = Id => Tracks(c, pos + 1, TRUE, 0)
            /\ c[pos + 1] = Eof(count) => Tracks(c, pos + 1, FALSE, count)
            /\ c[pos + 1].t = "idx" => Tracks(c, pos + 1, open, count)
        <5> HIDE DEF c
        <5>1. IsFile(c)
          BY <1>5 DEF c
        <5> QED
          BY <5>1, <3>3, <3>4, <1>8, TracksOn
      <4>2. Ahead = c[pos + 1] /\ pos' = pos + 1
        BY <1>1, <1>8, <3>4
      <4> HIDE DEF c
      <4>3. CASE Ahead = Id /\ open' = TRUE /\ count' = 0
        BY <4>1, <4>2, <4>3
      <4>4. CASE Ahead = Eof(count) /\ open' = FALSE /\ count' = count
        BY <4>1, <4>2, <4>4
      <4>5. CASE Ahead.t = "idx" /\ open' = open /\ count' = count
        BY <4>1, <4>2, <4>5
      <4> QED
        BY <1>2, <4>3, <4>4, <4>5
    <3>6. found'[input'] = c /\ Got(found[input])' = Got(c)
      <4>1. found'[input'] = c
        BY <1>4, <1>7, <3>1
      <4> QED
        BY <4>1, <1>8, <3>4 DEF Got
    <3> HIDE DEF c
    <3>7. DStreamInv'
      BY <3>2, <3>3, <3>5, <3>6, <1>4, <1>7 DEF DStreamInv
    <3> QED
      BY <3>7, <2>1, <1>4 DEF WorkInv
  <2>2. CASE Kind = "follow"
    <3>1. FollowInv /\ fs[input] = c
      BY <1>5, <2>2 DEF WorkInv
    <3>2. pos \in 0..Len(c)
      BY <1>1, <3>1 DEF FollowInv
    <3>3. fs'[input'] = c /\ Got(fs[input])' = Got(c) /\ pos' \in 0..Len(c)
      <4>1. fs'[input'] = c
        BY <1>4, <1>7, <3>1
      <4> QED
        BY <4>1, <1>8, <3>2 DEF Got
    <3> HIDE DEF c
    <3>4. FollowInv'
      BY <3>1, <3>3, <1>1, <1>4, <1>7 DEF FollowInv
    <3> QED
      BY <3>4, <2>2, <1>4 DEF WorkInv
  <2>3. CASE Kind = "seek"
    <3>1. SeekInv /\ found[input] = c
      BY <1>5, <2>3 DEF WorkInv
    <3>2. ASSUME Indexed(c) PROVE RangeInv'
      <4>1. RangeInv
        BY <3>1, <3>2 DEF SeekInv
      <4>2. pos \in 0..Len(c)
        <5>1. CASE Hd = "copy"
          BY <5>1, <4>1, <3>1 DEF RangeInv
        <5>2. CASE Hd = "newline"
          BY <5>2, <4>1, <3>1 DEF RangeInv
        <5> QED
          BY <5>1, <5>2, <1>1
      <4>3. found'[input'] = c /\ Got(found[input])' = Got(c) /\ pos' \in 0..Len(c)
        <5>1. found'[input'] = c
          BY <1>4, <1>7, <3>1
        <5> QED
          BY <5>1, <1>8, <4>2 DEF Got
      <4> HIDE DEF c
      <4> QED
        BY <4>1, <4>3, <3>1, <1>1, <1>4, <1>7 DEF RangeInv
    <3>3. found'[input'] = found[input]
      BY <1>4, <1>7
    <3>4. SeekInv'
      BY <3>1, <3>2, <3>3, <1>1, <1>4, <1>7 DEF SeekInv
    <3> QED
      BY <3>4, <2>3, <1>4 DEF WorkInv
  <2> QED
    BY <1>5, <2>1, <2>2, <2>3
<1> QED
  BY <1>1, <1>4, <1>6, <1>9, Goes

\* What cannot be read.
LEMMA CorruptKeeps == MzInv /\ Corrupt => MzInv'
PROOF
<1> SUFFICES ASSUME MzInv, Corrupt PROVE MzInv'
  OBVIOUS
<1>1. pc = "run" /\ steps # <<>> /\ Fail
  BY DEF Corrupt, Reading, At
<1> QED
  BY <1>1, FailKeeps

\* One more unit is read.
LEMMA ReadsMore ==
  ASSUME NEW us, NEW m \in Nat, NEW n \in Nat, Reads(us, m, n), Len(us) \in Nat,
         n + 1 <= Len(us), us[n + 1] # Bad
  PROVE  Reads(us, m, n + 1)
PROOF
<1>1. \A i \in (m + 1)..n : us[i] # Bad
  BY DEF Reads
<1>2. \A i \in (m + 1)..(n + 1) : us[i] # Bad
  <2> TAKE i \in (m + 1)..(n + 1)
  <2>1. i = n + 1 \/ i \in (m + 1)..n
    OBVIOUS
  <2> QED
    BY <2>1, <1>1
<1> QED
  BY <1>2 DEF Reads

\* And shown.
LEMMA ShowsMore ==
  ASSUME NEW o, NEW us, NEW m \in Nat, NEW n \in Nat, Shows(o, us, m, n), Len(us) \in Nat,
         n + 1 <= Len(us), us[n + 1] # Bad
  PROVE  Shows(o \o <<us[n + 1]>>, us, m, n + 1)
PROOF
<1>1. /\ m \in 0..n /\ Reads(us, m, n) /\ IsSeq(o) /\ Len(o) = n - m
      /\ \A i \in 1..(n - m) : o[i] = us[m + i]
  BY DEF Shows
<1>2. Reads(us, m, n + 1)
  BY <1>1, ReadsMore
<1> DEFINE x == us[n + 1]
           p == o \o <<x>>
<1> HIDE DEF x
<1>3. IsSeq(p) /\ Len(p) = Len(o) + 1 /\ p[Len(o) + 1] = x /\ \A i \in 1..Len(o) : p[i] = o[i]
  <2>1. IsSeq(o)
    BY <1>1
  <2> QED
    BY ONLY <2>1, OneMore, Zenon
<1> HIDE DEF p
<1>4. Len(p) = (n + 1) - m /\ m \in 0..(n + 1)
  BY <1>1, <1>3
<1>5. \A i \in 1..((n + 1) - m) : p[i] = us[m + i]
  <2> TAKE i \in 1..((n + 1) - m)
  <2>1. CASE i \in 1..(n - m)
    BY <2>1, <1>1, <1>3
  <2>2. CASE i = (n - m) + 1
    <3>1. m + i = n + 1 /\ i = Len(o) + 1
      BY <2>2, <1>1
    <3> QED
      BY <3>1, <1>3 DEF x
  <2> QED
    BY <2>1, <2>2, <1>1
<1> QED
  BY <1>2, <1>3, <1>4, <1>5 DEF Shows, p, x

\* All that is there has been read when the reader is at the end.
LEMMA GotAll ==
  ASSUME NEW c, c = Src, Len(c) \in Nat, pos \in 0..Len(c), AtEnd
  PROVE  Got(c) = Len(Units(c))
PROOF
<1>1. pos = Len(c)
  BY DEF AtEnd
<1> QED
  BY <1>1 DEF Got, Units

\* What was read is shown whole.
LEMMA ShowsAll ==
  ASSUME NEW o, NEW us, IsSeq(us), Len(us) \in Nat, Shows(o, us, 0, Len(us))
  PROVE  o = us
PROOF
<1>1. IsSeq(o) /\ Len(o) = Len(us) - 0 /\ \A i \in 1..(Len(us) - 0) : o[i] = us[0 + i]
  BY DEF Shows
<1>2. Len(o) = Len(us) /\ \A i \in 1..Len(o) : o[i] = us[i]
  BY <1>1
<1> QED
  BY <1>1, <1>2, SameSeq, Zenon

\* The data is read to its end, or to the end of the range.
LEMMA CopyEnds ==
  ASSUME MzInv, pc = "run", steps # <<>>, Hd = "copy", left = 0 \/ CleanEnd, Move,
         UNCHANGED <<argVars, fs, found, made, buf, held, pos, left, open, count>>
  PROVE  MzInv'
PROOF
<1>1. /\ Leads(Kind, opts, "copy", Hd')
      /\ Kind' = Kind /\ Target' = Target /\ opts' = opts /\ input' = input /\ sub' = sub
      /\ Unclear' = Unclear
  BY Moves
<1>2. /\ WorkInv /\ Live /\ OptionsOk(opts)
      /\ Kind \in {"dstream", "vstream", "follow", "seek"} /\ (Following <=> Kind = "follow")
      /\ IsFile(Src) /\ IsSeq(Src) /\ Len(Src) \in Nat /\ (Kind # "follow" => Src = found[input])
  BY Reader
<1>3. Out' = Out
  BY <1>1 DEF Out
<1>4. /\ made' = made /\ buf' = buf /\ pos' = pos /\ found' = found /\ fs' = fs /\ held' = held
  OBVIOUS
<1>5. Kind # "follow"
  <2> SUFFICES ASSUME Kind = "follow" PROVE FALSE
    OBVIOUS
  <2>1. left = -1
    BY <1>2 DEF WorkInv, FollowInv
  <2> QED
    BY <2>1, <1>2 DEF CleanEnd
<1> DEFINE c == Src
           us == Units(c)
<1>6. found[input] = c /\ found'[input'] = c /\ Got(found[input])' = Got(c)
  <2>1. found[input] = c /\ found'[input'] = c
    BY <1>1, <1>2, <1>4, <1>5
  <2> QED
    BY <2>1, <1>4 DEF Got
<1>7. IsSeq(us) /\ Len(us) \in Nat
  BY <1>2, UnitsAre
<1>8. CASE Kind \in {"dstream", "vstream"}
  <2>1. /\ left = -1 /\ Tracks(c, pos, open, count) /\ (made => Shows(Out, us, 0, Got(c)))
        /\ made <=> sub = "d" /\ ~opts.verify
    BY <1>2, <1>6, <1>8 DEF WorkInv, DStreamInv
  <2>2. pos >= Len(c) /\ ~open
    BY <2>1 DEF CleanEnd, AtEnd
  <2>3. Tracks(c, pos, FALSE, count)
    BY <2>1, <2>2 DEF Tracks
  <2>4. Whole(c) /\ UnitsTo(c)[pos] = us
    <3> HIDE DEF c
    <3>1. IsSeq(c)
      BY <1>2 DEF c
    <3> QED
      BY <3>1, <2>2, <2>3, TracksEnd
  <2>5. made => Out = us
    <3>1. Got(c) = Len(us)
      BY <2>4 DEF Got
    <3> HIDE DEF us
    <3> QED
      BY <3>1, <2>1, <1>7, ShowsAll
  <2>6. \/ Hd' = "flush"
        \/ Hd' = "end" /\ ~(sub = "d" /\ ~opts.verify)
    <3>1. Kind = "vstream" => sub # "d"
      BY DEF Kind
    <3> QED
      BY <3>1, <1>1, <1>8 DEF Leads
  <2> HIDE DEF c
  <2>7. DStreamInv'
    BY <1>1, <1>3, <1>4, <1>6, <2>1, <2>4, <2>5, <2>6 DEF DStreamInv
  <2>8. WorkInv'
    BY <1>1, <1>8, <2>7 DEF WorkInv
  <2> QED
    BY <2>8, MoveKeeps
<1>9. CASE Kind = "seek"
  <2>1. SeekInv
    BY <1>2, <1>9 DEF WorkInv
  <2>2. Hd' \in {"flush", "end"} /\ (Hd' = "end" => opts.verify) /\ (Hd' = "flush" => ~opts.verify)
    BY <1>1, <1>9 DEF Leads
  <2>3. ASSUME Indexed(c) PROVE RangeInv'
    <3>1. RangeInv
      BY <2>1, <2>3, <1>6 DEF SeekInv
    <3> HIDE DEF c
    <3>2. PICK m \in 0..Got(c) :
            Begins(opts, us, m) /\ Reads(us, m, Got(c)) /\ (made => Shows(Out, us, m, Got(c)))
      BY <3>1, <1>6 DEF RangeInv
    <3>3. /\ left \in Nat /\ pos \in 0..Len(c)
          /\ ~Unclear => left >= To(opts, us) - Got(c)
          /\ ~Unclear /\ ~opts.nl => left = To(opts, us) - Got(c)
      BY <3>1, <1>6 DEF RangeInv
    <3>4. Got(c) \in 0..Len(us)
      BY <3>2 DEF Reads
    <3>5. To(opts, us) \in 0..Len(us)
      <4> HIDE DEF us
      <4> QED
        BY <1>2, <1>7, RangeIs
    <3>6. left # 0 => Got(c) = Len(us)
      <4> SUFFICES ASSUME left # 0 PROVE Got(c) = Len(us)
        OBVIOUS
      <4>1. AtEnd
        BY DEF CleanEnd
      <4> QED
        BY <4>1, <3>3, <1>2, GotAll DEF c
    <3> HIDE DEF us
    <3>7. ~Unclear => Got(c) = To(opts, us)
      <4> SUFFICES ASSUME ~Unclear PROVE Got(c) = To(opts, us)
        OBVIOUS
      <4>1. CASE opts.nl
        <5>1. To(opts, us) = Len(us)
          BY <4>1 DEF To, Unclear
        <5> QED
          BY <5>1, <3>3, <3>4, <3>6, <1>7
      <4>2. CASE ~opts.nl
        BY <4>2, <3>3, <3>4, <3>5, <3>6, <1>7
      <4> QED
        BY <4>1, <4>2
    <3>8. Units(found'[input']) = us /\ (made <=> ~opts.verify)
      BY <1>6, <2>1 DEF us, SeekInv
    <3> QED
      BY <1>1, <1>3, <1>4, <1>6, <2>2, <3>2, <3>7, <3>8 DEF RangeInv
  <2>4. SeekInv'
    BY <1>1, <1>4, <1>6, <2>1, <2>2, <2>3 DEF SeekInv
  <2>5. WorkInv'
    BY <1>1, <1>9, <2>4 DEF WorkInv
  <2> QED
    BY <2>5, MoveKeeps
<1> QED
  BY <1>2, <1>5, <1>8, <1>9

\* The next unit.
LEMMA NextUnit ==
  ASSUME NEW c, c = Src, IsFile(c), pos \in 0..Len(c), AtData, pos' = pos + 1
  PROVE  /\ pos \in Nat /\ pos < Len(c) /\ c[pos + 1].t = "data" /\ pos' \in 0..Len(c)
         /\ IsSeq(Units(c)) /\ Len(Units(c)) \in Nat
         /\ Got(c) \in Nat /\ Got(c) + 1 <= Len(Units(c)) /\ Len(UnitsTo(c)[pos']) = Got(c) + 1
         /\ Units(c)[Got(c) + 1] = Ahead.u /\ Ahead.u # Bad
PROOF
<1>1. IsSeq(c) /\ Len(c) \in Nat /\ ~AtEnd /\ Ahead.t = "data"
  BY FileIs DEF AtData
<1>2. /\ pos \in Nat /\ pos < Len(c) /\ pos \in 0..(Len(c) - 1) /\ pos + 1 \in 0..Len(c)
      /\ Ahead = c[pos + 1]
  BY <1>1, NotAtEnd
<1>3. IsSeq(Units(c)) /\ Len(Units(c)) \in Nat
  BY <1>1, UnitsAre
<1> DEFINE n == Len(UnitsTo(c)[pos])
<1>4. /\ n \in Nat /\ Len(UnitsTo(c)[pos + 1]) = n + 1 /\ n + 1 \in 1..Len(Units(c))
      /\ Units(c)[n + 1] = c[pos + 1].u /\ c[pos + 1].u # Bad
  BY <1>1, <1>2, GotMore
<1>5. n = Got(c)
  BY DEF Got
<1> HIDE DEF n
<1> QED
  BY <1>1, <1>2, <1>3, <1>4, <1>5

\* A unit is read.
LEMMA CopyOne ==
  ASSUME MzInv, pc = "run", steps # <<>>, Hd = "copy", left # 0, AtData,
         IF Discards THEN UNCHANGED <<fs, buf>> ELSE PutTo(fs', buf', <<Ahead.u>>),
         pos' = pos + 1, count' = count + 1, open' = open,
         left' = (IF left = -1 THEN -1 ELSE left - 1),
         UNCHANGED <<argVars, steps, found, made, held>>
  PROVE  MzInv'
PROOF
<1>1. /\ StepsInv' /\ Hd' = Hd /\ Kind' = Kind /\ Target' = Target /\ Unclear' = Unclear
      /\ opts' = opts /\ input' = input /\ sub' = sub
  BY Stays
<1>2. /\ ArgInv /\ FilesInv /\ WorkInv /\ Live /\ Began /\ OptionsOk(opts)
      /\ Kind \in {"dstream", "vstream", "follow", "seek"} /\ input # NoPath
      /\ Src = fs[input] /\ IsFile(Src) /\ (Kind # "follow" => Src = found[input])
  BY Reader
<1>3. opts.verify \in BOOLEAN /\ opts.follow \in BOOLEAN
  BY <1>2, NumberIs
<1>4. made <=> ~Discards
  <2>1. CASE Kind \in {"dstream", "vstream"}
    <3>1. made <=> sub = "d" /\ ~opts.verify
      BY <1>2, <2>1 DEF WorkInv, DStreamInv
    <3>2. Kind = "dstream" => sub = "d" /\ ~opts.follow
      BY DEF Kind
    <3>3. Kind = "vstream" => sub = "verify"
      <4>1. /\ sub \in {"", "c", "d", "verify", "bench"}
            /\ sub = "bench" => opts.bench
            /\ sub = "" => input = NoPath
        BY <1>2 DEF ArgInv
      <4> QED
        BY <4>1 DEF Kind
    <3> QED
      BY <2>1, <3>1, <3>2, <3>3 DEF Discards
  <2>2. CASE Kind = "follow"
    <3>1. sub = "d" /\ opts.follow
      BY <2>2 DEF Kind
    <3>2. made
      BY <1>2, <2>2 DEF WorkInv, FollowInv
    <3> QED
      BY <3>1, <3>2 DEF Discards
  <2>3. CASE Kind = "seek"
    <3>1. sub = "d" /\ ~opts.follow
      BY <2>3 DEF Kind
    <3>2. made <=> ~opts.verify
      BY <1>2, <2>3 DEF WorkInv, SeekInv
    <3> QED
      BY <3>1, <3>2 DEF Discards
  <2> QED
    BY <1>2, <2>1, <2>2, <2>3
<1> DEFINE s == <<Ahead.u>>
<1>5. FilesInv' /\ (made => Out' = Out \o s)
  <2>1. CASE made
    <3>1. PutTo(fs', buf', s) /\ IsSeq(s)
      BY <2>1, <1>4, SmallSeq
    <3> HIDE DEF s
    <3> QED
      BY <2>1, <3>1, PutKeeps
  <2>2. CASE ~made
    <3>1. fs' = fs /\ buf' = buf
      BY <2>2, <1>4
    <3>2. Touches(fs') /\ IsSeq(buf') /\ (~made => buf' = <<>>)
      BY <1>2, <3>1, NoTouch
    <3> QED
      BY <2>2, <3>2, StepFiles
  <2> QED
    BY <2>1, <2>2
<1>6. made' = made /\ found' = found /\ held' = held
  OBVIOUS
<1> DEFINE c == Src
           us == Units(c)
<1>7. ASSUME pos \in 0..Len(c)
      PROVE  /\ pos \in Nat /\ pos < Len(c) /\ c[pos + 1].t = "data" /\ pos' \in 0..Len(c)
             /\ IsSeq(us) /\ Len(us) \in Nat
             /\ Got(c) \in Nat /\ Got(c) + 1 <= Len(us) /\ Len(UnitsTo(c)[pos']) = Got(c) + 1
             /\ us[Got(c) + 1] = Ahead.u /\ Ahead.u # Bad
  BY <1>2, <1>7, NextUnit
<1>8. ASSUME pos \in 0..Len(c), NEW m \in Nat, Reads(us, m, Got(c)) PROVE Reads(us, m, Got(c) + 1)
  <2> HIDE DEF us
  <2> QED
    BY <1>7, <1>8, ReadsMore
<1>9. ASSUME pos \in 0..Len(c), NEW m \in Nat, made, Shows(Out, us, m, Got(c))
      PROVE  Shows(Out', us, m, Got(c) + 1)
  <2>1. Out' = Out \o <<us[Got(c) + 1]>>
    BY <1>5, <1>7, <1>9
  <2> DEFINE o == Out
             n == Got(c)
  <2>2. n \in Nat /\ Len(us) \in Nat /\ n + 1 <= Len(us) /\ us[n + 1] # Bad /\ Shows(o, us, m, n)
    BY <1>7, <1>9
  <2> HIDE DEF us, o, n
  <2>3. Shows(o \o <<us[n + 1]>>, us, m, n + 1)
    BY <2>2, <1>9, ShowsMore
  <2> QED
    BY <2>1, <2>3 DEF o, n
<1> HIDE DEF s
<1>10. WorkInv'
  <2>1. CASE Kind \in {"dstream", "vstream"}
    <3>1. /\ left = -1 /\ Tracks(c, pos, open, count) /\ (made => Shows(Out, us, 0, Got(c)))
          /\ made <=> sub = "d" /\ ~opts.verify
      BY <1>2, <2>1 DEF WorkInv, DStreamInv
    <3>2. pos \in 0..Len(c)
      BY <3>1 DEF Tracks
    <3>3. Tracks(c, pos', open', count')
      <4>1. c[pos + 1].t = "data" /\ open /\ pos \in Nat /\ pos < Len(c) /\ IsFile(c)
        BY <1>2, <1>7, <3>2 DEF AtData
      <4> HIDE DEF c
      <4>2. Tracks(c, pos + 1, open, count + 1)
        BY <4>1, <3>1, TracksOn
      <4> QED
        BY <4>2
    <3>4. made => Shows(Out', us, 0, Got(c) + 1)
      BY <3>1, <3>2, <1>9
    <3>5. left' = -1 /\ found'[input'] = c /\ Got(found[input])' = Got(c) + 1
      <4>1. left' = -1 /\ found'[input'] = c
        BY <3>1, <1>1, <1>2, <2>1
      <4> QED
        BY <4>1, <1>7, <3>2 DEF Got
    <3> HIDE DEF c
    <3>6. DStreamInv'
      BY <3>1, <3>3, <3>4, <3>5, <1>1, <1>6 DEF DStreamInv
    <3> QED
      BY <3>6, <1>1, <2>1 DEF WorkInv
  <2>2. CASE Kind = "follow"
    <3>1. FollowInv /\ made /\ left = -1 /\ pos \in 0..Len(c) /\ left' = -1
      BY <1>2, <2>2 DEF WorkInv, FollowInv
    <3>2. fs'[input'] = c
      <4>1. Target # input /\ input \in DOMAIN fs
        BY InputIs
      <4>2. Target \in DOMAIN fs /\ IsSeq(fs[Target]) /\ IsSeq(buf) /\ IsSeq(s)
        BY <1>2, <3>1, OutIs, SmallSeq DEF s
      <4>3. PutTo(fs', buf', s)
        BY <3>1, <1>4 DEF s
      <4> DEFINE f == fs'
                 b == buf'
      <4>4. PutTo(f, b, s)
        BY <4>3
      <4> HIDE DEF f, b
      <4>5. \A p \in DOMAIN fs \ {Target} : f[p] = fs[p]
        BY <4>2, <4>4, PutIs, Zenon
      <4> QED
        BY <4>1, <4>5, <1>1, <1>2 DEF f
    <3>3. Got(fs[input])' = Got(c) + 1 /\ pos' \in 0..Len(c)
      BY <3>1, <3>2, <1>7 DEF Got
    <3>4. ASSUME opts.offset # <<>> => Indexed(held)
          PROVE  \E m \in 0..(Got(c) + 1) : Begins(opts, us, m) /\ Shows(Out', us, m, Got(c) + 1)
      <4>1. PICK m \in 0..Got(c) : Begins(opts, us, m) /\ Shows(Out, us, m, Got(c))
        BY <3>1, <3>4, <1>2 DEF FollowInv
      <4>2. m \in Nat /\ m \in 0..(Got(c) + 1)
        BY <4>1, <3>1, <1>7
      <4>3. Shows(Out', us, m, Got(c) + 1)
        BY <4>1, <4>2, <3>1, <1>9
      <4> QED
        BY <4>1, <4>2, <4>3
    <3>5. opts.offset # <<>> => IsFile(held) /\ IsPrefix(held, c)
      BY <3>1, <1>2 DEF FollowInv
    <3> HIDE DEF c
    <3>6. FollowInv'
      BY <1>1, <1>6, <3>1, <3>2, <3>3, <3>4, <3>5 DEF FollowInv
    <3> QED
      BY <3>6, <1>1, <2>2 DEF WorkInv
  <2>3. CASE Kind = "seek"
    <3>1. SeekInv /\ found[input] = c /\ found'[input'] = c
      BY <1>1, <1>2, <1>6, <2>3 DEF WorkInv
    <3>2. ASSUME Indexed(c) PROVE RangeInv'
      <4>1. RangeInv
        BY <3>1, <3>2 DEF SeekInv
      <4>2. /\ left \in Nat /\ pos \in 0..Len(c)
            /\ ~Unclear => left >= To(opts, us) - Got(c)
            /\ ~Unclear /\ ~opts.nl => left = To(opts, us) - Got(c)
        BY <4>1, <3>1 DEF RangeInv
      <4>3. PICK m \in 0..Got(c) :
              Begins(opts, us, m) /\ Reads(us, m, Got(c)) /\ (made => Shows(Out, us, m, Got(c)))
        BY <4>1, <3>1 DEF RangeInv
      <4>4. m \in Nat /\ m \in 0..(Got(c) + 1)
        BY <4>2, <4>3, <1>7
      <4>5. Reads(us, m, Got(c) + 1) /\ (made => Shows(Out', us, m, Got(c) + 1))
        BY <4>2, <4>3, <4>4, <1>8, <1>9
      <4>6. Got(found[input])' = Got(c) + 1 /\ pos' \in 0..Len(c)
        BY <4>2, <3>1, <1>7 DEF Got
      <4>7. To(opts, us) \in Nat
        <5>1. IsSeq(us) /\ Len(us) \in Nat
          BY <4>2, <1>7
        <5> HIDE DEF us
        <5> QED
          BY <5>1, <1>2, RangeIs
      <4>8. left' \in Nat /\ left' = left - 1
        BY <4>2
      <4>9. /\ ~Unclear => left' >= To(opts, us) - (Got(c) + 1)
            /\ ~Unclear /\ ~opts.nl => left' = To(opts, us) - (Got(c) + 1)
        <5>1. Got(c) \in Nat
          BY <4>2, <1>7
        <5> HIDE DEF us
        <5> QED
          BY <5>1, <4>2, <4>7, <4>8
      <4> HIDE DEF c
      <4> QED
        BY <1>1, <1>6, <3>1, <4>3, <4>4, <4>5, <4>6, <4>8, <4>9 DEF RangeInv
    <3>3. SeekInv'
      BY <1>1, <1>6, <3>1, <3>2 DEF SeekInv
    <3> QED
      BY <3>3, <1>1, <2>3 DEF WorkInv
  <2> QED
    BY <1>2, <2>1, <2>2, <2>3
<1> QED
  BY <1>1, <1>5, <1>10, Goes

\* The input is read.
LEMMA CopyKeeps == MzInv /\ Copy => MzInv'
PROOF
<1> SUFFICES ASSUME MzInv, Copy PROVE MzInv'
  OBVIOUS
<1>1. pc = "run" /\ steps # <<>> /\ Hd = "copy"
  BY DEF Copy, At, Hd
<1>2. CASE /\ left = 0 \/ CleanEnd
           /\ Move /\ UNCHANGED <<argVars, fs, found, made, buf, held, reader>>
  BY <1>1, <1>2, CopyEnds DEF reader
<1>3. CASE /\ left # 0 /\ AtData
           /\ IF Discards THEN UNCHANGED <<fs, buf>> ELSE Put(<<Ahead.u>>)
           /\ Step /\ left' = IF left = -1 THEN -1 ELSE left - 1
           /\ UNCHANGED <<argVars, steps, found, made, held>>
  <2>1. /\ IF Discards THEN UNCHANGED <<fs, buf>> ELSE PutTo(fs', buf', <<Ahead.u>>)
        /\ pos' = pos + 1 /\ count' = count + 1 /\ open' = open
    BY <1>3 DEF Put, PutTo, Step
  <2> QED
    BY <1>1, <1>3, <2>1, CopyOne
<1> QED
  BY <1>2, <1>3 DEF Copy

\* The index is loaded.
LEMMA IndexKeeps == MzInv /\ Index => MzInv'
PROOF
<1> SUFFICES ASSUME MzInv, Index PROVE MzInv'
  OBVIOUS
<1>1. pc = "run" /\ steps # <<>> /\ Hd = "index"
  BY DEF Index, At, Hd
<1>2. Fail \/ (Move /\ held' = Src /\ UNCHANGED <<argVars, fs, found, made, buf, reader>>)
  BY DEF Index
<1>3. CASE Fail
  BY <1>1, <1>3, FailKeeps
<1>4. CASE Move /\ held' = Src /\ UNCHANGED <<argVars, fs, found, made, buf, reader>>
  <2>1. /\ Leads(Kind, opts, "index", Hd') /\ Kind \in Kinds /\ Kind' = Kind /\ Target' = Target
        /\ opts' = opts /\ input' = input /\ sub' = sub
    BY <1>1, <1>4, Moves
  <2>2. Kind \in {"follow", "seek"} /\ Hd' = "seek"
    BY <2>1 DEF Leads, Kinds
  <2>3. WorkInv /\ Live
    BY <1>1, Running
  <2>4. IsFile(Src) /\ Src = fs[input] /\ (Kind # "follow" => Src = found[input])
    BY <1>1, InputIs DEF Src
  <2>5. IsPrefix(Src, Src)
    <3> DEFINE c == Src
    <3>1. IsSeq(c) /\ Len(c) \in Nat
      BY <2>4, FileIs
    <3> HIDE DEF c
    <3>2. IsPrefix(c, c)
      BY <3>1, PrefixIs
    <3> QED
      BY <3>2 DEF c
  <2>6. Out' = Out
    BY <1>4, <2>1 DEF Out
  <2>7. /\ made' = made /\ buf' = buf /\ found' = found /\ fs' = fs /\ left' = left /\ held' = Src
    BY <1>4 DEF reader
  <2>8. WorkInv'
    <3>1. CASE Kind = "follow"
      <4>1. made /\ left = -1 /\ Out = <<>>
        BY <1>1, <2>3, <3>1 DEF WorkInv, FollowInv
      <4>2. FollowInv'
        BY <4>1, <2>1, <2>2, <2>4, <2>5, <2>6, <2>7 DEF FollowInv
      <4> QED
        BY <4>2, <3>1, <2>1 DEF WorkInv
    <3>2. CASE Kind = "seek"
      <4>1. ~made
        BY <1>1, <2>3, <3>2 DEF WorkInv, SeekInv
      <4>2. held' = found'[input']
        BY <2>1, <2>4, <2>7, <3>2
      <4>3. SeekInv'
        BY <4>1, <4>2, <2>2, <2>7 DEF SeekInv, RangeInv
      <4> QED
        BY <4>3, <3>2, <2>1 DEF WorkInv
    <3> QED
      BY <2>2, <3>1, <3>2
  <2> QED
    BY <1>1, <1>4, <2>8, MoveKeeps
<1> QED
  BY <1>2, <1>3, <1>4

\* Where the index says the range starts, and how long it is.
LEMMA WindowIs ==
  ASSUME IsFile(held), Indexed(held), OptionsOk(opts), opts.offset # <<>> \/ opts.tail # <<>>,
         NEW us, us = Units(held)
  PROVE  /\ Total = Len(us) /\ Len(us) \in Nat
         /\ Window[1] = From(opts, us) /\ From(opts, us) \in Nat
         /\ Window[1] <= Total =>
              /\ Window[2] = To(opts, us) - From(opts, us) /\ Window[2] \in Nat
              /\ From(opts, us) \in 0..Len(us) /\ From(opts, us) + 1 \in 0..Len(held)
              /\ Len(UnitsTo(held)[From(opts, us) + 1]) = From(opts, us)
PROOF
<1> DEFINE n == Len(us)
           a == opts.offset[1]
           l == opts.tail[1]
<1>1. /\ n \in Nat /\ n = Len(held) - 3 /\ Len(held) \in Nat /\ Total = n /\ IsSeq(us)
      /\ \A k \in 0..n : Len(UnitsTo(held)[k + 1]) = k
  <2>1. IsSeq(held) /\ Len(held) \in Nat
    BY FileIs
  <2>2. IsSeq(us)
    BY <2>1, UnitsAre
  <2> QED
    BY <2>1, <2>2, IndexedIs DEF Total
<1>2. /\ From(opts, us) \in Nat /\ To(opts, us) \in 0..n
      /\ From(opts, us) <= n => From(opts, us) <= To(opts, us)
  BY <1>1, RangeIs
<1>3. (opts.offset # <<>> => a \in Nat) /\ (opts.tail # <<>> => l \in Nat)
  BY NumberIs
<1>4. /\ Window[1] = From(opts, us)
      /\ Window[1] <= n => Window[2] = To(opts, us) - From(opts, us)
  <2>1. CASE opts.offset = <<>>
    <3> DEFINE t == Min({l, n})
    <3>1. Window = <<Total - t, t>>
      BY <1>1, <2>1 DEF Window
    <3>2. t = IF l <= n THEN l ELSE n
      BY <1>1, <1>3, <2>1, MinPair
    <3>3. From(opts, us) = n - t /\ To(opts, us) = n
      BY <2>1 DEF From, To
    <3> HIDE DEF t, n, l
    <3>4. Window[1] = n - t /\ Window[2] = t
      BY <1>1, <3>1
    <3>5. t \in Nat
      BY <1>1, <1>3, <2>1, <3>2
    <3> QED
      BY <1>1, <3>3, <3>4, <3>5
  <2>2. CASE opts.offset # <<>>
    <3> DEFINE e == IF opts.tail = <<>> THEN Total ELSE Min({a + l, Total})
    <3>1. Window = <<a, IF e > a THEN e - a ELSE 0>>
      BY <2>2 DEF Window
    <3>2. From(opts, us) = a /\ To(opts, us) = e
      BY <1>1, <2>2 DEF From, To
    <3> HIDE DEF a, e, n
    <3>3. Window[1] = a /\ Window[2] = IF e > a THEN e - a ELSE 0
      BY <3>1
    <3>4. ASSUME a <= n PROVE Window[2] = e - a
      <4>1. a \in Nat /\ e \in Nat /\ a <= e
        BY <3>4, <1>1, <1>2, <3>2
      <4> QED
        BY <4>1, <3>3
    <3> QED
      BY <3>2, <3>3, <3>4
  <2> QED
    BY <2>1, <2>2
<1> DEFINE m == From(opts, us)
           w == Window[1]
           v == Window[2]
<1>5. w = m /\ m \in Nat /\ (w <= n => v = To(opts, us) - m)
  BY <1>2, <1>4
<1>6. ASSUME m <= n PROVE m \in 0..n /\ m + 1 \in 0..Len(held) /\ m <= To(opts, us)
  <2>1. m \in Nat /\ m <= To(opts, us)
    BY <1>2, <1>6
  <2> HIDE DEF m, n
  <2> QED
    BY <2>1, <1>1, <1>6
<1> HIDE DEF m, n, w, v
<1>7. ASSUME w <= n
      PROVE  /\ v = To(opts, us) - m /\ v \in Nat /\ m \in 0..n /\ m + 1 \in 0..Len(held)
             /\ Len(UnitsTo(held)[m + 1]) = m
  BY <1>1, <1>2, <1>5, <1>6, <1>7
<1> QED
  BY <1>1, <1>5, <1>7 DEF m, n, w, v

\* The reader goes to where the range starts.
LEMMA SeekKeeps == MzInv /\ Seek => MzInv'
PROOF
<1> SUFFICES ASSUME MzInv, Seek PROVE MzInv'
  OBVIOUS
<1>1. pc = "run" /\ steps # <<>> /\ Hd = "seek"
  BY DEF Seek, At, Hd
<1>2. \/ Fail
      \/ /\ Window[1] <= Total /\ Move
         /\ IF Indexed(held) THEN pos' = Window[1] + 1 ELSE pos' \in 0..Len(Src)
         /\ left' = (IF Following THEN -1 ELSE Window[2])
         /\ UNCHANGED <<argVars, fs, found, made, buf, held>>
  BY DEF Seek
<1>3. CASE Fail
  BY <1>1, <1>3, FailKeeps
<1>4. CASE /\ Window[1] <= Total /\ Move
           /\ IF Indexed(held) THEN pos' = Window[1] + 1 ELSE pos' \in 0..Len(Src)
           /\ left' = (IF Following THEN -1 ELSE Window[2])
           /\ UNCHANGED <<argVars, fs, found, made, buf, held>>
  <2>1. /\ Leads(Kind, opts, "seek", Hd') /\ Kind \in Kinds /\ Kind' = Kind /\ Target' = Target
        /\ opts' = opts /\ input' = input /\ sub' = sub /\ Unclear' = Unclear
    BY <1>1, <1>4, Moves
  <2>2. Kind \in {"follow", "seek"}
    BY <2>1 DEF Leads, Kinds
  <2>3. ArgInv /\ WorkInv /\ Live /\ Began /\ OptionsOk(opts) /\ (input # NoPath => (Following <=> Kind = "follow"))
    BY <1>1, Running
  <2>4. /\ IsFile(Src) /\ IsSeq(Src) /\ Src = fs[input] /\ input # NoPath
        /\ Kind # "follow" => Src = found[input]
    BY <1>1, InputIs, FileIs DEF Src
  <2>5. opts.offset # <<>> \/ opts.tail # <<>>
    <3>1. CASE Kind = "follow"
      BY <3>1, <2>1 DEF Leads
    <3>2. CASE Kind = "seek"
      BY <3>2 DEF Kind
    <3> QED
      BY <2>2, <3>1, <3>2
  <2>6. Kind = "follow" => opts.follow /\ opts.tail = <<>>
    <3>1. Kind = "follow" => sub = "d" /\ opts.follow
      BY DEF Kind
    <3> QED
      BY <3>1, <1>1, <2>3 DEF ArgInv
  <2>7. IsFile(held) /\ IsSeq(held) /\ IsPrefix(held, Src) /\ (Kind = "seek" => held = Src)
    <3>1. CASE Kind = "follow"
      <4>1. opts.offset # <<>>
        BY <3>1, <2>5, <2>6
      <4>2. IsFile(held) /\ IsPrefix(held, Src)
        BY <4>1, <3>1, <1>1, <2>3, <2>4 DEF WorkInv, FollowInv
      <4> QED
        BY <4>2, <3>1, FileIs
    <3>2. CASE Kind = "seek"
      <4>1. held = Src
        BY <3>2, <1>1, <2>3, <2>4 DEF WorkInv, SeekInv
      <4>2. Len(held) \in Nat
        BY <4>1, <2>4, FileIs
      <4> QED
        BY <4>1, <4>2, <2>4, PrefixIs
    <3> QED
      BY <2>2, <3>1, <3>2
  <2> DEFINE c == Src
             us == Units(c)
             l == From(opts, us)
  <2>8. ASSUME Indexed(held)
        PROVE  /\ l \in Nat /\ pos' = l + 1 /\ pos' \in 0..Len(c) /\ Len(UnitsTo(c)[pos']) = l
               /\ IsSeq(us) /\ l \in 0..Len(us)
               /\ Kind = "seek" => Window[2] = To(opts, us) - l /\ Window[2] \in Nat
    <3> DEFINE hs == Units(held)
               k == From(opts, hs)
    <3>1. /\ Window[1] = k /\ k \in Nat /\ Window[2] = To(opts, hs) - k /\ Window[2] \in Nat
          /\ k \in 0..Len(hs) /\ k + 1 \in 0..Len(held) /\ Len(UnitsTo(held)[k + 1]) = k
      BY <1>4, <2>3, <2>5, <2>7, <2>8, WindowIs
    <3>2. /\ GoesOn(hs, us) /\ Len(held) \in Nat /\ Len(c) \in Nat /\ Len(held) <= Len(c)
          /\ \A i \in 0..Len(held) : UnitsTo(c)[i] = UnitsTo(held)[i]
      BY <2>4, <2>7, UnitsOn
    <3>3. k = l /\ (Kind = "seek" => hs = us)
      <4>1. CASE Kind = "follow"
        <5>1. From(opts, us) = From(opts, hs)
          <6> HIDE DEF us, hs
          <6> QED
            BY <4>1, <2>3, <2>6, <3>2, BeginsOn
        <5> QED
          BY <5>1, <4>1
      <4>2. CASE Kind = "seek"
        BY <4>2, <2>7
      <4> QED
        BY <2>2, <4>1, <4>2
    <3>4. IsSeq(us) /\ Len(hs) <= Len(us) /\ Len(us) \in Nat /\ Len(hs) \in Nat
      BY <3>2 DEF GoesOn
    <3>5. pos' = k + 1
      BY <1>4, <2>8, <3>1
    <3> HIDE DEF k, l, hs, us
    <3>6. pos' \in 0..Len(held) /\ pos' \in 0..Len(c) /\ l \in 0..Len(us)
      BY <3>1, <3>2, <3>3, <3>4, <3>5
    <3> QED
      BY <3>1, <3>2, <3>3, <3>4, <3>5, <3>6
  <2>9. ~opts.nl => Begins(opts, us, l)
    BY DEF Begins
  <2>10. Out' = Out /\ made' = made /\ buf' = buf /\ found' = found /\ fs' = fs /\ held' = held
    BY <1>4, <2>1 DEF Out
  <2>11. opts.nl \in BOOLEAN /\ opts.verify \in BOOLEAN
    BY <2>3, NumberIs
  <2>12. ASSUME Indexed(held)
         PROVE Reads(us, l, l) /\ Shows(<<>>, us, l, l) /\ Searches(opts, us, l) /\ l \in 0..l
    <3>1. l \in Nat /\ l \in 0..Len(us) /\ IsSeq(us)
      BY <2>8, <2>12
    <3> DEFINE m == l
    <3>2. m = From(opts, us)
      OBVIOUS
    <3> HIDE DEF m, us
    <3>3. m \in Nat /\ m \in 0..Len(us)
      BY <3>1 DEF m
    <3>4. Reads(us, m, m) /\ Shows(<<>>, us, m, m)
      BY <3>1, <3>3, NoneIs
    <3>5. NoLine(us, m, m) /\ m \in m..Len(us) /\ m \in 0..m
      BY <3>3 DEF NoLine
    <3> QED
      BY <3>2, <3>4, <3>5 DEF Searches, m
  <2>13. WorkInv'
    <3>1. CASE Kind = "follow"
      <4>1. made /\ Out = <<>> /\ left' = -1
        BY <1>1, <1>4, <2>3, <2>4, <3>1 DEF WorkInv, FollowInv
      <4>2. fs'[input'] = c /\ pos' \in 0..Len(c)
        BY <1>4, <2>1, <2>4, <2>8, <2>10
      <4>3. (opts.nl /\ Hd' = "newline") \/ (~opts.nl /\ Hd' = "copy")
        BY <3>1, <2>1, <2>11 DEF Leads
      <4>4. Indexed(held) => Got(fs[input])' = l
        BY <4>2, <2>8 DEF Got
      <4>5. CASE opts.nl /\ Hd' = "newline"
        <5> HIDE DEF c, l
        <5>1. Indexed(held) => Searches(opts', Units(fs'[input']), l)
          BY <2>1, <2>12, <4>2
        <5>2. FollowInv'
          BY <5>1, <4>1, <4>2, <4>4, <4>5, <2>1, <2>7, <2>10 DEF FollowInv, c
        <5> QED
          BY <5>2, <3>1, <2>1 DEF WorkInv
      <4>6. CASE ~opts.nl /\ Hd' = "copy"
        <5>1. Indexed(held) =>
                Begins(opts', Units(fs'[input']), l) /\ Shows(Out', Units(fs'[input']), l, l) /\ l \in 0..l
          BY <4>1, <4>2, <4>6, <2>1, <2>9, <2>10, <2>12
        <5>2. opts.offset # <<>>
          BY <3>1, <2>5, <2>6
        <5> HIDE DEF l
        <5>3. FollowInv'
          BY <5>1, <5>2, <4>1, <4>2, <4>4, <4>6, <2>1, <2>7, <2>10 DEF FollowInv
        <5> QED
          BY <5>3, <3>1, <2>1 DEF WorkInv
      <4> QED
        BY <4>3, <4>5, <4>6
    <3>2. CASE Kind = "seek"
      <4>1. SeekInv /\ ~made /\ left' = Window[2]
        BY <1>1, <1>4, <2>3, <2>4, <3>2 DEF WorkInv, SeekInv
      <4>2. found[input] = c /\ found'[input'] = c /\ held = c
        BY <2>1, <2>4, <2>7, <2>10, <3>2
      <4>3. \/ opts.nl /\ Hd' = "newline"
            \/ ~opts.nl /\ Hd' = "create"
            \/ ~opts.nl /\ opts.verify /\ Hd' = "copy"
        BY <3>2, <2>1, <2>11 DEF Leads
      <4>4. ASSUME Indexed(c) PROVE RangeInv'
        <5>1. /\ Indexed(held) /\ left' = To(opts, us) - l /\ left' \in Nat /\ pos' \in 0..Len(c)
          BY <4>1, <4>2, <4>4, <2>8, <3>2
        <5>2. Got(found[input])' = l
          BY <4>2, <5>1, <2>8 DEF Got
        <5>3. Reads(us, l, l) /\ Shows(<<>>, us, l, l) /\ Searches(opts, us, l) /\ l \in 0..l
          BY <5>1, <2>12
        <5>4. left' >= To(opts, us) - l
          BY <5>1
        <5> HIDE DEF l, c
        <5> QED
          BY <4>1, <4>2, <4>3, <5>1, <5>2, <5>3, <5>4, <2>1, <2>9, <2>10 DEF RangeInv
      <4>5. SeekInv'
        BY <4>1, <4>2, <4>3, <4>4, <2>1, <2>10 DEF SeekInv
      <4> QED
        BY <4>5, <3>2, <2>1 DEF WorkInv
    <3> QED
      BY <2>2, <3>1, <3>2
  <2> QED
    BY <1>1, <1>4, <2>13, MoveKeeps
<1> QED
  BY <1>2, <1>3, <1>4

\* A range is read of a file that is one stream with its index.
Known == Indexed(IF Kind = "follow" THEN held ELSE found[input])

\* The search for the end of a line.
LEMMA Searching ==
  ASSUME MzInv, pc = "run", steps # <<>>, Hd = "newline"
  PROVE  /\ Kind \in {"follow", "seek"} /\ opts.nl /\ IsFile(Src) /\ Len(Src) \in Nat
         /\ Src = fs[input] /\ (Kind # "follow" => Src = found[input])
         /\ Following <=> Kind = "follow"
         /\ Kind = "follow" => /\ made /\ Out = <<>> /\ left = -1 /\ opts.follow /\ opts.offset # <<>>
                               /\ IsFile(held) /\ IsPrefix(held, Src) /\ pos \in 0..Len(Src)
         /\ Kind = "seek" => ~made /\ ~opts.follow /\ held = found[input]
         /\ Known => /\ pos \in 0..Len(Src) /\ Searches(opts, Units(Src), Got(Src))
                     /\ Kind = "seek" =>
                          /\ left \in Nat /\ (~Unclear => left >= To(opts, Units(Src)) - Got(Src))
PROOF
<1>1. Leads(Kind, opts, "newline", After(steps, 1))
  BY HeadLeads
<1>2. /\ ArgInv /\ WorkInv /\ Live /\ Began
      /\ Kind \in {"dstream", "vstream", "follow", "seek"} /\ (Following <=> Kind = "follow")
      /\ Src = fs[input] /\ IsFile(Src) /\ Len(Src) \in Nat /\ (Kind # "follow" => Src = found[input])
  BY Reader
<1>3. Kind \in {"follow", "seek"} /\ opts.nl
  BY <1>1, <1>2 DEF Leads
<1>4. ASSUME Kind = "follow"
      PROVE  /\ made /\ Out = <<>> /\ left = -1 /\ opts.follow /\ opts.offset # <<>>
             /\ IsFile(held) /\ IsPrefix(held, Src) /\ pos \in 0..Len(Src)
             /\ Indexed(held) => Searches(opts, Units(Src), Got(Src))
  <2>1. FollowInv /\ opts.follow
    BY <1>2, <1>4 DEF WorkInv, Kind
  <2>2. opts.offset # <<>>
    BY <1>1, <1>4 DEF Leads
  <2> QED
    BY <2>1, <2>2, <1>2 DEF FollowInv
<1>5. ASSUME Kind = "seek"
      PROVE  /\ ~made /\ ~opts.follow /\ held = found[input]
             /\ Indexed(found[input]) =>
                  /\ pos \in 0..Len(Src) /\ Searches(opts, Units(Src), Got(Src)) /\ left \in Nat
                  /\ ~Unclear => left >= To(opts, Units(Src)) - Got(Src)
  <2>1. SeekInv /\ ~opts.follow /\ Src = found[input]
    BY <1>2, <1>5 DEF WorkInv, Kind
  <2> QED
    BY <2>1 DEF SeekInv, RangeInv
<1> QED
  BY <1>2, <1>3, <1>4, <1>5 DEF Known

\* The search is over.
LEMMA FoundLine ==
  ASSUME MzInv, pc = "run", steps # <<>>, Hd = "newline", Move,
         UNCHANGED <<argVars, fs, found, made, buf, held, left>>,
         Kind = "follow" \/ Known => pos' \in 0..Len(Src),
         NEW g, g = Len(UnitsTo(Src)[pos']), Known => g >= Got(Src) /\ Begins(opts, Units(Src), g)
  PROVE  MzInv'
PROOF
<1>1. /\ Leads(Kind, opts, "newline", Hd') /\ Kind' = Kind /\ Target' = Target
      /\ opts' = opts /\ input' = input /\ sub' = sub /\ Unclear' = Unclear
  BY Moves
<1>2. /\ Kind \in {"follow", "seek"} /\ opts.nl /\ IsFile(Src) /\ Len(Src) \in Nat
      /\ Src = fs[input] /\ (Kind # "follow" => Src = found[input])
      /\ Kind = "follow" => /\ made /\ Out = <<>> /\ left = -1 /\ opts.offset # <<>>
                            /\ IsFile(held) /\ IsPrefix(held, Src)
      /\ Kind = "seek" => ~made /\ held = found[input]
      /\ Known => /\ pos \in 0..Len(Src)
                  /\ Kind = "seek" =>
                       /\ left \in Nat /\ (~Unclear => left >= To(opts, Units(Src)) - Got(Src))
  BY Searching
<1> DEFINE c == Src
           us == Units(c)
<1>3. ASSUME Known
      PROVE  /\ g \in Nat /\ g \in 0..g /\ Begins(opts, us, g)
             /\ Reads(us, g, g) /\ Shows(<<>>, us, g, g) /\ IsSeq(us)
             /\ Got(c) \in Nat /\ g >= Got(c) /\ pos' \in 0..Len(c)
  <2>1. IsSeq(c)
    BY <1>2, FileIs
  <2>2. pos \in 0..Len(c) /\ pos' \in 0..Len(c)
    BY <1>2, <1>3
  <2>3. IsSeq(us) /\ Len(us) \in Nat /\ g \in 0..Len(us) /\ Got(c) \in 0..Len(us)
    BY <2>1, <2>2, UnitsAre DEF Got
  <2>4. Reads(us, g, g) /\ Shows(<<>>, us, g, g)
    <3> HIDE DEF us
    <3> QED
      BY <2>3, NoneIs
  <2> QED
    BY <1>3, <2>2, <2>3, <2>4
<1>4. Out' = Out /\ made' = made /\ buf' = buf /\ found' = found /\ fs' = fs /\ left' = left /\ held' = held
  BY <1>1 DEF Out
<1>5. WorkInv'
  <2>1. CASE Kind = "follow"
    <3>1. Hd' = "copy"
      BY <2>1, <1>1 DEF Leads
    <3>2. fs'[input'] = c /\ Got(fs[input])' = g /\ pos' \in 0..Len(c)
      <4>1. fs'[input'] = c
        BY <1>1, <1>2, <1>4
      <4> QED
        BY <4>1, <2>1 DEF Got
    <3>3. Known <=> Indexed(held)
      BY <2>1 DEF Known
    <3> HIDE DEF c
    <3>4. FollowInv'
      BY <3>1, <3>2, <3>3, <2>1, <1>1, <1>2, <1>3, <1>4 DEF FollowInv, c
    <3> QED
      BY <3>4, <2>1, <1>1 DEF WorkInv
  <2>2. CASE Kind = "seek"
    <3>1. Hd' = "create" \/ (opts.verify /\ Hd' = "copy")
      BY <2>2, <1>1 DEF Leads
    <3>2. found[input] = c /\ found'[input'] = c /\ (Known <=> Indexed(c))
      BY <2>2, <1>1, <1>2, <1>4 DEF Known
    <3>3. ASSUME Indexed(c) PROVE RangeInv'
      <4>1. Known
        BY <3>2, <3>3
      <4>2. Got(found[input])' = g
        BY <3>2 DEF Got
      <4>3. left \in Nat /\ (~Unclear => left >= To(opts, us) - Got(c))
        BY <4>1, <2>2, <1>2
      <4>4. To(opts, us) \in Nat
        <5>1. IsSeq(us) /\ OptionsOk(opts)
          BY <4>1, <1>3, Running
        <5>2. Len(us) \in Nat
          BY <5>1, SeqIs
        <5> HIDE DEF us
        <5> QED
          BY <5>1, <5>2, RangeIs
      <4>5. ~Unclear => left >= To(opts, us) - g
        <5>1. Got(c) \in Nat /\ g \in Nat /\ g >= Got(c)
          BY <4>1, <1>3
        <5> HIDE DEF us
        <5> QED
          BY <5>1, <4>3, <4>4
      <4>6. g \in 0..g /\ Begins(opts, us, g) /\ Reads(us, g, g) /\ pos' \in 0..Len(c)
        BY <4>1, <1>3
      <4> HIDE DEF c
      <4> QED
        BY <3>1, <3>2, <4>2, <4>3, <4>5, <4>6, <2>2, <1>1, <1>2, <1>4 DEF RangeInv
    <3>4. SeekInv'
      BY <3>1, <3>2, <3>3, <2>2, <1>1, <1>2, <1>4 DEF SeekInv
    <3> QED
      BY <3>4, <2>2, <1>1 DEF WorkInv
  <2> QED
    BY <1>2, <2>1, <2>2
<1> QED
  BY <1>5, MoveKeeps

\* It goes on.
LEMMA NoLineYet ==
  ASSUME MzInv, pc = "run", steps # <<>>, Hd = "newline",
         UNCHANGED <<argVars, steps, fs, found, made, buf, held, left>>,
         Kind = "follow" \/ Known => pos' \in 0..Len(Src),
         NEW g, g = Len(UnitsTo(Src)[pos']), Known => g >= Got(Src) /\ Searches(opts, Units(Src), g)
  PROVE  MzInv'
PROOF
<1>1. /\ StepsInv' /\ Hd' = Hd /\ Kind' = Kind /\ Target' = Target /\ Unclear' = Unclear
      /\ opts' = opts /\ input' = input /\ sub' = sub
  BY Stays
<1>2. /\ Kind \in {"follow", "seek"} /\ opts.nl /\ IsFile(Src) /\ Len(Src) \in Nat
      /\ Src = fs[input] /\ (Kind # "follow" => Src = found[input])
      /\ Kind = "follow" => /\ made /\ Out = <<>> /\ left = -1 /\ opts.offset # <<>>
                            /\ IsFile(held) /\ IsPrefix(held, Src)
      /\ Kind = "seek" => ~made /\ held = found[input]
      /\ Known => /\ pos \in 0..Len(Src)
                  /\ Kind = "seek" =>
                       /\ left \in Nat /\ (~Unclear => left >= To(opts, Units(Src)) - Got(Src))
  BY Searching
<1>3. FilesInv'
  <2>1. FilesInv /\ Began
    BY Running
  <2>2. Touches(fs') /\ IsSeq(buf') /\ (~made => buf' = <<>>)
    BY <2>1, NoTouch
  <2> QED
    BY <2>2, StepFiles
<1>4. Out' = Out /\ made' = made /\ buf' = buf /\ found' = found /\ fs' = fs /\ left' = left /\ held' = held
  BY <1>1 DEF Out
<1> DEFINE c == Src
           us == Units(c)
<1>5. WorkInv'
  <2>1. CASE Kind = "follow"
    <3>1. fs'[input'] = c /\ Got(fs[input])' = g /\ pos' \in 0..Len(c)
      <4>1. fs'[input'] = c
        BY <1>1, <1>2, <1>4
      <4> QED
        BY <4>1, <2>1 DEF Got
    <3>2. Known <=> Indexed(held)
      BY <2>1 DEF Known
    <3> HIDE DEF c
    <3>3. FollowInv'
      BY <3>1, <3>2, <2>1, <1>1, <1>2, <1>4 DEF FollowInv, c
    <3> QED
      BY <3>3, <2>1, <1>1 DEF WorkInv
  <2>2. CASE Kind = "seek"
    <3>1. found[input] = c /\ found'[input'] = c /\ (Known <=> Indexed(c))
      BY <2>2, <1>1, <1>2, <1>4 DEF Known
    <3>2. ASSUME Indexed(c) PROVE RangeInv'
      <4>1. Known
        BY <3>1, <3>2
      <4>2. Got(found[input])' = g
        BY <3>1 DEF Got
      <4>3. left \in Nat /\ (~Unclear => left >= To(opts, us) - Got(c)) /\ pos' \in 0..Len(c)
        BY <4>1, <2>2, <1>2
      <4>4. ~Unclear => left >= To(opts, us) - g
        <5>1. IsSeq(us) /\ OptionsOk(opts) /\ Got(c) \in Nat /\ g \in Nat /\ g >= Got(c) /\ Len(us) \in Nat
          <6>1. IsSeq(c) /\ pos \in 0..Len(c)
            BY <4>1, <1>2, FileIs
          <6> QED
            BY <6>1, <4>1, <4>3, UnitsAre, Running DEF Got
        <5> HIDE DEF us
        <5>2. To(opts, us) \in Nat
          BY <5>1, RangeIs
        <5> QED
          BY <5>1, <5>2, <4>3
      <4>5. Searches(opts, us, g)
        BY <4>1
      <4> HIDE DEF c
      <4> QED
        BY <3>1, <4>2, <4>3, <4>4, <4>5, <1>1, <1>2, <1>4 DEF RangeInv
    <3>3. SeekInv'
      BY <3>1, <3>2, <2>2, <1>1, <1>2, <1>4 DEF SeekInv
    <3> QED
      BY <3>3, <2>2, <1>1 DEF WorkInv
  <2> QED
    BY <1>2, <2>1, <2>2
<1> QED
  BY <1>1, <1>3, <1>5, Goes

\* The reader goes behind the end of a line.
LEMMA NewlineKeeps == MzInv /\ Newline => MzInv'
PROOF
<1> SUFFICES ASSUME MzInv, Newline PROVE MzInv'
  OBVIOUS
<1>1. pc = "run" /\ steps # <<>> /\ Hd = "newline"
  BY DEF Newline, At, Hd
<1>2. /\ Kind \in {"follow", "seek"} /\ opts.nl /\ IsFile(Src) /\ Len(Src) \in Nat
      /\ Following <=> Kind = "follow"
      /\ Kind = "follow" => pos \in 0..Len(Src)
      /\ Kind = "seek" => ~opts.follow
      /\ Known => pos \in 0..Len(Src) /\ Searches(opts, Units(Src), Got(Src))
  BY <1>1, Searching
<1>3. OptionsOk(opts)
  BY <1>1, Running
<1> DEFINE c == Src
           us == Units(c)
           n == Got(c)
           l == From(opts, us)
<1>4. CASE /\ AtData /\ Step
           /\ steps' = IF Ahead.u = Unit(0) THEN Tail(steps) ELSE steps
           /\ UNCHANGED <<argVars, fs, found, made, buf, held, left>>
  <2>1. pos' = pos + 1
    BY <1>4 DEF Step
  <2>2. ASSUME pos \in 0..Len(c)
        PROVE  /\ pos' \in 0..Len(c) /\ IsSeq(us) /\ Len(us) \in Nat
               /\ n \in Nat /\ n + 1 <= Len(us) /\ Len(UnitsTo(c)[pos']) = n + 1
               /\ us[n + 1] = Ahead.u
    BY <1>2, <1>4, <2>1, <2>2, NextUnit
  <2> DEFINE g == Len(UnitsTo(c)[pos'])
  <2>3. Kind = "follow" \/ Known => pos' \in 0..Len(c)
    BY <1>2, <2>2
  <2>4. ASSUME Known
        PROVE  /\ g = n + 1 /\ n \in Nat /\ g >= n /\ n + 1 <= Len(us) /\ Len(us) \in Nat
               /\ us[n + 1] = Ahead.u /\ l \in Nat /\ l <= n /\ NoLine(us, l, n)
    <3>1. /\ IsSeq(us) /\ g = n + 1 /\ n \in Nat /\ n + 1 <= Len(us) /\ us[n + 1] = Ahead.u
          /\ Len(us) \in Nat
      BY <1>2, <2>2, <2>4
    <3>2. l \in Nat
      <4> HIDE DEF us
      <4> QED
        BY <1>3, <3>1, RangeIs
    <3>3. n \in l..Len(us) /\ NoLine(us, l, n)
      BY <1>2, <2>4 DEF Searches
    <3> HIDE DEF n, l, us, g
    <3>4. g >= n
      BY <3>1
    <3> QED
      BY <3>1, <3>2, <3>3, <3>4
  <2>5. CASE Ahead.u = Unit(0)
    <3>1. ASSUME Known PROVE g >= n /\ Begins(opts, us, g)
      <4> DEFINE k == g
                 a == l
      <4>1. /\ k = n + 1 /\ n \in Nat /\ k >= n /\ n + 1 <= Len(us)
            /\ us[n + 1] = Unit(0) /\ a \in Nat /\ a <= n /\ NoLine(us, a, n) /\ a = From(opts, us)
        BY <2>4, <2>5, <3>1
      <4> HIDE DEF k, a, n, us
      <4>2. k > a /\ k <= Len(us) /\ us[k] = Unit(0) /\ k - 1 = n
        BY <4>1
      <4>3. Begins(opts, us, k)
        BY <4>1, <4>2, <1>2 DEF Begins
      <4> QED
        BY <4>1, <4>3 DEF k
    <3>2. Move
      BY <1>4, <2>5 DEF Move
    <3> HIDE DEF g
    <3> QED
      BY <1>1, <1>4, <2>3, <3>1, <3>2, FoundLine DEF g
  <2>6. CASE Ahead.u # Unit(0)
    <3>1. ASSUME Known PROVE g >= n /\ Searches(opts, us, g)
      <4> DEFINE k == g
                 a == l
      <4>1. /\ k = n + 1 /\ n \in Nat /\ k >= n /\ n + 1 <= Len(us) /\ Len(us) \in Nat
            /\ us[n + 1] # Unit(0) /\ a \in Nat /\ a <= n /\ NoLine(us, a, n) /\ a = From(opts, us)
        BY <2>4, <2>6, <3>1
      <4> HIDE DEF k, a, n, us
      <4>2. NoLine(us, a, k)
        <5> SUFFICES ASSUME NEW i \in (a + 1)..k PROVE us[i] # Unit(0)
          BY DEF NoLine
        <5>1. i \in (a + 1)..n \/ i = n + 1
          BY <4>1
        <5> QED
          BY <5>1, <4>1 DEF NoLine
      <4>3. k \in a..Len(us)
        BY <4>1
      <4>4. Searches(opts, us, k)
        BY <4>1, <4>2, <4>3 DEF Searches
      <4> QED
        BY <4>1, <4>4 DEF k
    <3>2. steps' = steps
      BY <1>4, <2>6
    <3> HIDE DEF g
    <3> QED
      BY <1>1, <1>4, <2>3, <3>1, <3>2, NoLineYet DEF g
  <2> QED
    BY <2>5, <2>6
<1>5. CASE CleanEnd /\ Move /\ UNCHANGED <<argVars, fs, found, made, buf, held, reader>>
  <2>1. Kind = "seek" /\ AtEnd /\ pos' = pos
    BY <1>2, <1>5 DEF CleanEnd, reader
  <2> DEFINE g == Len(UnitsTo(c)[pos'])
  <2>2. g = n
    BY <2>1 DEF Got
  <2>3. ASSUME Known PROVE pos' \in 0..Len(c) /\ g >= n /\ Begins(opts, us, g)
    <3>1. pos \in 0..Len(c) /\ n \in l..Len(us) /\ NoLine(us, l, n)
      BY <1>2, <2>3 DEF Searches
    <3>2. n = Len(us)
      BY <3>1, <2>1, <1>2, GotAll
    <3>3. Len(us) \in Nat
      BY <1>2, FileIs, UnitsAre
    <3> DEFINE k == g
    <3>4. k = n
      BY <2>2
    <3> HIDE DEF k, us, n
    <3>5. Begins(opts, us, k)
      BY <3>1, <3>2, <3>4, <1>2, <2>1 DEF Begins
    <3>6. k >= n
      BY <3>2, <3>3, <3>4
    <3> QED
      BY <3>1, <3>5, <3>6, <2>1 DEF k, n
  <2> HIDE DEF g
  <2> QED
    BY <1>1, <1>5, <2>1, <2>3, FoundLine DEF g, reader
<1> QED
  BY <1>4, <1>5 DEF Newline

----------------------------------------------------------------------------
(* The theorems *)

\* Nothing happens.
LEMMA StutterKeeps == MzInv /\ UNCHANGED vars => MzInv'
PROOF
<1> SUFFICES ASSUME MzInv, UNCHANGED vars PROVE MzInv'
  OBVIOUS
<1>1. /\ opts' = opts /\ found' = found /\ input' = input /\ made' = made /\ sub' = sub /\ fs' = fs
      /\ steps' = steps /\ buf' = buf /\ held' = held /\ pos' = pos /\ left' = left
      /\ pc' = pc /\ code' = code /\ open' = open /\ count' = count
  BY DEF vars, argVars, fileVars, reader
<1>2. /\ Target' = Target /\ Following' = Following /\ Unclear' = Unclear /\ Kind' = Kind
      /\ Removes' = Removes /\ Ranged' = Ranged /\ Rangeable' = Rangeable
  BY <1>1, SameArgs DEF Rangeable
<1>3. /\ Hd' = Hd /\ Out' = Out /\ Began' = Began /\ Src' = Src
  BY <1>1, <1>2, Zenon DEF Hd, Out, Began, Src
<1>4. Live' = Live
  BY <1>1, <1>3, Zenon DEF Live, Succeeded
<1>5. ArgInv' = ArgInv
  BY <1>1, <1>3, Zenon DEF ArgInv
<1>6. StepsInv' = StepsInv
  BY <1>1, <1>2, <1>4, Zenon DEF StepsInv
<1>7. FilesInv' = FilesInv
  <2>1. OutputHasAll' = OutputHasAll
    BY <1>1, <1>2, Zenon DEF OutputHasAll
  <2> QED
    BY <1>1, <1>2, <1>3, <1>4, <2>1, Zenon DEF FilesInv
<1>8. WorkInv' = WorkInv
  <2>1. CStreamInv' = CStreamInv /\ CBlockInv' = CBlockInv /\ DBlockInv' = DBlockInv
    BY <1>1, <1>2, <1>3, Zenon DEF CStreamInv, CBlockInv, DBlockInv
  <2>2. DStreamInv' = DStreamInv /\ FollowInv' = FollowInv /\ SeekInv' = SeekInv
    BY <1>1, <1>2, <1>3, Zenon DEF DStreamInv, FollowInv, SeekInv, RangeInv, Got
  <2> QED
    BY <1>1, <1>2, <1>3, <1>4, <2>1, <2>2, Zenon DEF WorkInv
<1>9. PrefixInv' = PrefixInv
  BY <1>1, <1>2, <1>3, Zenon DEF PrefixInv, Wanted
<1> QED
  BY <1>5, <1>6, <1>7, <1>8, <1>9 DEF MzInv

\* A call of the system fails, or the command line is refused.
LEMMA ErrorKeeps == MzInv /\ (IoError \/ Refused) => MzInv'
PROOF
<1> SUFFICES ASSUME MzInv, IoError \/ Refused PROVE MzInv'
  OBVIOUS
<1>1. pc = "run" /\ steps # <<>> /\ Fail
  BY DEF IoError, Refused, At
<1> QED
  BY <1>1, FailKeeps

\* The inductive invariant: the arguments, the steps left, the files, the work
\* done and the output begun fit together whatever the command does, whatever
\* fails, whenever it is killed and however a followed file grows.
LEMMA MzHolds == Spec => []MzInv
PROOF
<1>1. MzInv /\ [Next]_vars => MzInv'
  <2> SUFFICES ASSUME MzInv, [Next]_vars PROVE MzInv'
    OBVIOUS
  <2>1. CASE NextArg /\ UNCHANGED fileVars
    BY <2>1, NextArgKeeps
  <2>2. CASE Begin
    BY <2>2, BeginKeeps
  <2>3. CASE Work
    <3>1. CASE Refused
      BY <3>1, ErrorKeeps
    <3>2. CASE Open \/ Create \/ Load
      BY <3>2, OpenKeeps, CreateKeeps, LoadKeeps
    <3>3. CASE Measure \/ Fits \/ Build
      BY <3>3, TestsKeep
    <3>4. CASE Encode \/ Deliver
      BY <3>4, WholeKeeps
    <3>5. CASE Check \/ Decode
      BY <3>5, BlockKeeps
    <3>6. CASE Compress \/ Finish \/ Flush \/ RemoveInput
      BY <3>6, CompressKeeps, FinishKeeps, FlushKeeps, RemoveKeeps
    <3>7. CASE Copy \/ Index \/ Seek \/ Newline
      BY <3>7, CopyKeeps, IndexKeeps, SeekKeeps, NewlineKeeps
    <3>8. CASE Pass \/ Corrupt
      BY <3>8, PassKeeps, CorruptKeeps
    <3>9. CASE Exit
      BY <3>9, ExitKeeps
    <3> QED
      BY <2>3, <3>1, <3>2, <3>3, <3>4, <3>5, <3>6, <3>7, <3>8, <3>9 DEF Work
  <2>4. CASE IoError
    BY <2>4, ErrorKeeps
  <2>5. CASE Kill
    BY <2>5, KillKeeps
  <2>6. CASE Grow
    BY <2>6, GrowKeeps
  <2>7. CASE UNCHANGED vars
    BY <2>7, StutterKeeps
  <2> QED
    BY <2>1, <2>2, <2>3, <2>4, <2>5, <2>6, <2>7 DEF Next
<1> QED
  BY <1>1, InitMz, PTL DEF Spec

\* Whatever fails, and whenever mz is killed, its input is there with all it had,
\* or --rm was given and the output has everything; no other file is touched.
\* For any command line, any files and any way an input that is followed grows.
THEOREM SourceIsKept == Spec => []SourceKept
PROOF
<1>1. MzInv => SourceKept
  BY DEF MzInv, FilesInv, SourceKept
<1> QED
  BY <1>1, MzHolds, PTL

\* The range that was asked for, when a command that read it has ended well.
LEMMA RangeDone ==
  ASSUME ArgInv, FilesInv, WorkInv, Live, Began, input \in DOMAIN found, Kind = "seek", Hd = "end",
         ~Unclear, Indexed(found[input])
  PROVE  /\ Bad \notin Range(Wanted(Units(found[input])))
         /\ ~opts.verify => fs[Target] = Wanted(Units(found[input]))
PROOF
<1> DEFINE c == found[input]
           us == Units(c)
           n == Got(c)
<1>1. IsFile(c) /\ OptionsOk(opts)
  BY FoundIs DEF ArgInv, OptionsOk
<1>2. RangeInv /\ (made <=> ~opts.verify)
  BY DEF WorkInv, SeekInv
<1>3. PICK m \in 0..n : /\ Begins(opts, us, m) /\ Reads(us, m, n) /\ n = To(opts, us)
                        /\ made => Shows(fs[Target], us, m, n)
  BY <1>2 DEF RangeInv
<1>4. IsSeq(us) /\ Len(us) \in Nat
  BY <1>1, FileIs, UnitsAre
<1> HIDE DEF us, n
<1>5. n \in 0..Len(us) /\ n \in Nat /\ m \in Nat /\ m <= n /\ \A i \in (m + 1)..n : us[i] # Bad
  BY <1>3, <1>4 DEF Reads
<1> DEFINE w == SubSeq(us, m + 1, n)
<1>6. Wanted(us) = w
  <2>1. Wanted(us) = SubSeq(us, m + 1, To(opts, us))
    BY <1>1, <1>3, <1>4, <1>5, WantedIs, Zenon
  <2> QED
    BY <2>1, <1>3
<1>7. Bad \notin Range(w)
  <2>1. m + 1 \in Nat \ {0}
    BY <1>5
  <2>2. /\ IsSeq(w) /\ Len(w) = (IF m + 1 <= n THEN n - (m + 1) + 1 ELSE 0)
        /\ \A i \in 1..Len(w) : w[i] = us[m + 1 + i - 1]
    BY <1>4, <1>5, <2>1, CutSeq, Zenon
  <2> HIDE DEF w
  <2>3. DOMAIN w = 1..Len(w) /\ Len(w) \in Nat
    BY <2>2, SeqIs
  <2>4. \A i \in 1..Len(w) : w[i] # Bad
    <3> TAKE i \in 1..Len(w)
    <3>1. m + 1 + i - 1 \in (m + 1)..n
      BY <1>5, <2>2, <2>3
    <3>2. w[i] = us[m + 1 + i - 1]
      BY <2>2, Zenon
    <3> QED
      BY <3>1, <3>2, <1>5
  <2> QED
    BY <2>3, <2>4 DEF Range
<1>8. ASSUME ~opts.verify PROVE fs[Target] = Wanted(us)
  <2> DEFINE o == fs[Target]
  <2>1. Shows(o, us, m, n)
    BY <1>2, <1>3, <1>8
  <2>2. n <= To(opts, us) /\ n = To(opts, us)
    BY <1>3, <1>5
  <2> HIDE DEF o
  <2>3. o = Wanted(us)
    BY <1>1, <1>3, <1>4, <1>5, <2>1, <2>2, ShowsWanted
  <2> QED
    BY <2>3 DEF o
<1> QED
  BY <1>6, <1>7, <1>8 DEF us

\* The result of a command that has ended well is all of it, of every stream its
\* input has, and what one that decompresses has written at any time, dead or alive,
\* is a beginning of it.  Following a file does not end in success.  For any command
\* line, any files, streams one behind the other and damaged ones too, and any
\* failures; a range only of a file that is one stream with its index.
THEOREM OutputIsFaithful == Spec => []OutputFaithful
PROOF
<1>1. MzInv => OutputFaithful
  <2> SUFFICES ASSUME MzInv, Began, input \in DOMAIN found, ~opts.bench
               PROVE  /\ Succeeded => ~Following
                      /\ Succeeded /\ sub = "c" => OutputHasAll
                      /\ Succeeded /\ sub # "c" /\ ~Ranged => Whole(found[input]) \/ Decodable(found[input])
                      /\ Succeeded /\ sub = "d" /\ ~opts.verify /\ ~Ranged => OutputHasAll
                      /\ Succeeded /\ Ranged /\ Rangeable /\ ~Unclear =>
                           LET range == Wanted(Units(found[input]))
                           IN Bad \notin Range(range) /\ (~opts.verify => fs[Target] = range)
                      /\ made /\ sub = "d" /\ ~Decodable(found[input]) /\ input \in DOMAIN fs
                         /\ (Ranged => Rangeable /\ ~Unclear) =>
                           IsPrefix(fs[Target], Wanted(Units(IF Following THEN Src ELSE found[input])))
    BY DEF OutputFaithful
  <2>1. ArgInv /\ FilesInv /\ WorkInv /\ PrefixInv
    BY DEF MzInv
  <2>2. made /\ sub = "d" /\ ~Decodable(found[input]) /\ input \in DOMAIN fs
        /\ (Ranged => Rangeable /\ ~Unclear) =>
          IsPrefix(fs[Target], Wanted(Units(IF Following THEN Src ELSE found[input])))
    BY <2>1 DEF PrefixInv
  <2>3. input # NoPath /\ IsFile(found[input])
    BY <2>1, FoundIs
  <2>4. SUFFICES ASSUME Succeeded
                 PROVE  /\ ~Following
                        /\ sub = "c" => OutputHasAll
                        /\ sub # "c" /\ ~Ranged => Whole(found[input]) \/ Decodable(found[input])
                        /\ sub = "d" /\ ~opts.verify /\ ~Ranged => OutputHasAll
                        /\ Ranged /\ Rangeable /\ ~Unclear =>
                             /\ Bad \notin Range(Wanted(Units(found[input])))
                             /\ ~opts.verify => fs[Target] = Wanted(Units(found[input]))
    BY <2>2
  <2>5. Live /\ Hd = "end"
    BY <2>1, <2>3, <2>4 DEF Live, Succeeded, ArgInv, Hd
  <2>6. /\ sub \in {"", "c", "d", "verify", "bench"} /\ sub # "" /\ sub # "bench"
        /\ sub = "verify" => opts.offset = <<>> /\ opts.tail = <<>>
    BY <2>1, <2>3, <2>4 DEF ArgInv, Succeeded
  <2>7. Kind \notin {"refuse", "follow", "bench"}
    <3>1. Kind # "refuse" /\ Kind # "follow"
      BY <2>1, <2>5 DEF WorkInv, FollowInv
    <3>2. Kind # "bench"
      BY DEF Kind
    <3> QED
      BY <3>1, <3>2
  <2>8. ~Following
    BY <2>3, <2>7 DEF Following, Kind
  <2>9. sub = "c" => OutputHasAll
    <3> SUFFICES ASSUME sub = "c" PROVE OutputHasAll
      OBVIOUS
    <3>1. Kind \in {"cblock", "cstream"}
      BY <2>3 DEF Kind
    <3>2. made
      BY <2>1, <2>5, <3>1 DEF WorkInv, CBlockInv, CStreamInv
    <3> QED
      BY <2>1, <2>5, <3>1, <3>2, HasAll
  <2>10. ASSUME sub # "c", ~Ranged PROVE Kind \in {"dblock", "vblock", "dstream", "vstream"}
    BY <2>3, <2>6, <2>7, <2>10 DEF Kind, Ranged
  <2>11. sub # "c" /\ ~Ranged => Whole(found[input]) \/ Decodable(found[input])
    <3> SUFFICES ASSUME sub # "c", ~Ranged PROVE Whole(found[input]) \/ Decodable(found[input])
      OBVIOUS
    <3>1. CASE Kind \in {"dblock", "vblock"}
      BY <2>1, <2>5, <3>1 DEF WorkInv, DBlockInv
    <3>2. CASE Kind \in {"dstream", "vstream"}
      BY <2>1, <2>5, <3>2 DEF WorkInv, DStreamInv
    <3> QED
      BY <2>10, <3>1, <3>2
  <2>12. sub = "d" /\ ~opts.verify /\ ~Ranged => OutputHasAll
    <3> SUFFICES ASSUME sub = "d", ~opts.verify, ~Ranged PROVE OutputHasAll
      OBVIOUS
    <3>1. Kind \in {"dblock", "dstream"}
      <4>1. Kind \notin {"vblock", "vstream"}
        BY DEF Kind
      <4> QED
        BY <4>1, <2>10
    <3>2. made
      BY <2>1, <2>5, <3>1 DEF WorkInv, DBlockInv, DStreamInv
    <3> QED
      BY <2>1, <2>5, <3>1, <3>2, HasAll
  <2>13. ASSUME Ranged, Rangeable, ~Unclear
         PROVE  /\ Bad \notin Range(Wanted(Units(found[input])))
                /\ ~opts.verify => fs[Target] = Wanted(Units(found[input]))
    <3>1. Kind = "seek"
      BY <2>3, <2>7, <2>13 DEF Kind, Ranged
    <3>2. Indexed(found[input])
      BY <2>8, <2>13 DEF Rangeable
    <3> QED
      BY <2>1, <2>5, <2>13, <3>1, <3>2, RangeDone
  <2> QED
    BY <2>8, <2>9, <2>11, <2>12, <2>13
<1> QED
  BY <1>1, MzHolds, PTL
=============================================================================
