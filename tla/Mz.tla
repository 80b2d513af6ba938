--------------------------------- MODULE Mz ---------------------------------
(* The mz command, bin/mz/src: what it does to the files it is given, with   *)
(* calls to the system that fail and a process that may be killed.           *)
(*                                                                           *)
(* A file is a sequence of tokens.  An uncompressed file has one per unit of *)
(* data; a stream has an identifier, a chunk per unit, the EOF chunk with    *)
(* the number of units, and perhaps an index with that number too, and other *)
(* streams may stand behind it; a block file is one token.                   *)
(* How chunks and blocks are read and written is the other modules' matter,  *)
(* and one or several threads make no difference here: either way chunks are *)
(* delivered in order, and an error leaves a prefix (MtWriter, MtReader).    *)
(*                                                                           *)
(* A command is a list of steps, one per thing that can fail or be seen from *)
(* outside; the first step of the list is the next to be taken.              *)
EXTENDS MzArgs

CONSTANTS Worlds,        \* files there may be: functions from paths to contents
          BlockLimit,    \* units a block can hold, MAX_BLOCK_SIZE
          Grown          \* what a followed input becomes, in the end

VARIABLES steps,         \* steps left
          fs, found,     \* the files, and the files as the command found them
          made,          \* the output has been created
          buf,           \* the BufWriter in front of the output
          held,          \* a file read whole, what was made of it, or the file indexed
          pos, left,     \* tokens read of the input; units still to read, or -1
          open, count    \* the reader: inside a stream; units of the stream so far

reader == <<pos, left, open, count>>
fileVars == <<steps, fs, found, made, buf, held, reader>>
vars == <<argVars, fileVars>>

\* Tokens.  Unit(0) is a newline; a Bad token is a chunk or block that fails to
\* decode.
Unit(n) == [t |-> "unit", n |-> n]
Id == [t |-> "id"]
Data(u) == [t |-> "data", u |-> u]
Eof(n) == [t |-> "eof", n |-> n]
Idx(n) == [t |-> "idx", n |-> n]
Block(us) == [t |-> "block", us |-> us]
Bad == [t |-> "bad"]

\* The standard streams, among the files.
Stdin == Std
Stdout == Path("stdout", <<>>)

IsSeq(c) == c \in Seq(Range(c))

IsToken(x) ==
  /\ x.t \in {"unit", "id", "data", "eof", "idx", "block", "bad"}
  /\ x.t = "id" => x = Id
  /\ x.t = "data" => x = Data(x.u) /\ x.u.t = "unit"
  /\ x.t = "eof" => x = Eof(x.n)
  /\ x.t = "idx" => x = Idx(x.n) /\ x.n \in Nat
  /\ x.t = "block" => IsSeq(x.us)
  /\ x.t = "bad" => x = Bad

IsFile(c) == IsSeq(c) /\ \A i \in 1..Len(c) : IsToken(c[i])

ASSUME FilesAssumption ==
  /\ \A w \in Worlds :
       /\ Stdout \in DOMAIN w /\ w[Stdout] = <<>> /\ NoPath \notin DOMAIN w
       /\ \A p \in DOMAIN w : IsFile(w[p])
  /\ IsFile(Grown)

----------------------------------------------------------------------------
(* Where the output goes, and in which steps *)

CompressDest(o, in) ==
  CASE o.stdout \/ (o.output = NoPath /\ in = Std) -> Std
    [] ~o.stdout /\ o.output # NoPath -> o.output
    [] OTHER -> WithExt(in, IF o.block THEN "mzb" ELSE "mz")

DecompressDest(o, in) ==
  CASE o.verify -> Path("(verify)", <<>>)
    [] ~o.verify /\ (o.stdout \/ (o.output = NoPath /\ in = Std)) -> Std
    [] ~o.verify /\ ~o.stdout /\ o.output # NoPath -> o.output
    [] OTHER -> IF Ext(in) \in {"mz", "mzb"} THEN WithoutExt(in) ELSE WithExt(in, "out")

Dest == IF sub = "c" THEN CompressDest(opts, input) ELSE DecompressDest(opts, input)
Target == IF Dest = Std THEN Stdout ELSE Dest

IsBlock(o, in) == o.block \/ Ext(in) = "mzb"

\* --rm, of an input that is a file.
RemoveSteps(o, in) == IF o.rm /\ in # Std THEN <<"remove">> ELSE <<>>

Bench == <<"open", "load", "measure">>

CompressBlock(o, in) ==
  <<"open", "load", "fits", "create", "encode", "flush">>
  \o (IF o.verify THEN <<"check">> ELSE <<>>) \o RemoveSteps(o, in)

\* Mutant: the input is removed before the output is flushed.
CompressStreamRemoveFirst(o, in) ==
  <<"open", "create", "build", "compress", "finish">> \o RemoveSteps(o, in) \o <<"flush">>

CompressStream(o, in) ==
  <<"open", "create", "build", "compress", "finish", "flush">> \o RemoveSteps(o, in)

\* From the offset or the tail to the first unit to be read.
SeekSteps(o) == <<"index", "seek">> \o (IF o.nl THEN <<"newline">> ELSE <<>>)

DecompressFollow(o) ==
  <<"open", "create">> \o (IF o.offset # <<>> THEN SeekSteps(o) ELSE <<>>) \o <<"copy", "flush">>

DecompressSeek(o, in) ==
  IF in = Std THEN <<"refuse">>
  ELSE <<"open">> \o SeekSteps(o)
       \o (IF o.verify THEN <<"copy">> ELSE <<"create", "copy", "flush">>)

DecompressStream(o, in) ==
  IF o.verify THEN <<"open", "copy">>
  ELSE <<"open", "create", "copy", "flush">> \o RemoveSteps(o, in)

DecompressBlock(o, in) ==
  <<"open", "load", "decode">>
  \o (IF o.verify THEN <<>> ELSE <<"create", "deliver", "flush">> \o RemoveSteps(o, in))

Decompress(o, in) ==
  CASE IsBlock(o, in) -> DecompressBlock(o, in)
    [] ~IsBlock(o, in) /\ o.follow -> DecompressFollow(o)
    [] ~IsBlock(o, in) /\ ~o.follow /\ (o.offset # <<>> \/ o.tail # <<>>) -> DecompressSeek(o, in)
    [] OTHER -> DecompressStream(o, in)

Verify(o, in) == IF IsBlock(o, in) THEN <<"open", "load", "decode">> ELSE <<"open", "copy">>

StepsOf(cmd, o, in) ==
  CASE in = NoPath -> <<"refuse">>
    [] in # NoPath /\ o.bench /\ cmd # "verify" -> Bench
    [] in # NoPath /\ ~o.bench /\ cmd = "c" ->
         IF o.block THEN CompressBlock(o, in) ELSE CompressStream(o, in)
    [] in # NoPath /\ ~o.bench /\ cmd = "d" -> Decompress(o, in)
    [] OTHER -> Verify(o, in)

Following == sub = "d" /\ opts.follow /\ ~IsBlock(opts, input)

\* Whether what is read goes to io::sink().
Discards == sub = "verify" \/ (opts.verify /\ ~opts.follow)

----------------------------------------------------------------------------
(* Steps *)

At(s) == pc = "run" /\ steps # <<>> /\ Head(steps) = s
Src == fs[input]
Move == steps' = Tail(steps)

\* The files, with contents c at path p.
Place(p, c) == [q \in DOMAIN fs \cup {p} |-> IF q = p THEN c ELSE fs[q]]

Written(s) == IF s = <<>> THEN fs ELSE Place(Target, fs[Target] \o s)

\* A write into the BufWriter, which passes on none, some or all of what it has.
Put(s) ==
  \E k \in 0..Len(buf \o s) :
    /\ fs' = Written(SubSeq(buf \o s, 1, k))
    /\ buf' = SubSeq(buf \o s, k + 1, Len(buf \o s))

\* The command ends with an error; the BufWriter is dropped, which writes what
\* it can of its buffer.
Fail ==
  /\ pc' = "exit" /\ code' = 2 /\ steps' = <<>> /\ buf' = <<>>
  /\ \E k \in 0..Len(buf) : fs' = Written(SubSeq(buf, 1, k))
  /\ UNCHANGED <<given, want, sub, alias, opts, input, found, made, held, reader>>

Refused == At("refuse") /\ Fail

Open ==
  /\ At("open")
  /\ IF input \in DOMAIN fs
     THEN Move /\ UNCHANGED <<argVars, fs, found, made, buf, held, reader>>
     ELSE Fail

\* File::create truncates.
Create ==
  /\ At("create") /\ Move /\ made' = TRUE
  /\ fs' = IF Dest = Std THEN fs ELSE Place(Dest, <<>>)
  /\ UNCHANGED <<argVars, found, buf, held, reader>>

\* read_to_end.
Load ==
  /\ At("load") /\ Move /\ held' = Src
  /\ UNCHANGED <<argVars, fs, found, made, buf, reader>>

\* A step that only looks whether ok holds.
Test(s, ok) ==
  /\ At(s)
  /\ IF ok THEN Move /\ UNCHANGED <<argVars, fs, found, made, buf, held, reader>> ELSE Fail

\* Place k of a file is inside a stream: behind an identifier, with no EOF chunk
\* between them.
Inside(c, k) == \E i \in 1..(k - 1) : c[i] = Id /\ \A j \in (i + 1)..(k - 1) : c[j].t # "eof"

\* The units before place k in a stream: those behind the last identifier.
Before(c, k) ==
  Cardinality({j \in 1..(k - 1) : c[j].t = "data" /\ \A i \in (j + 1)..(k - 1) : c[i] # Id})

\* Place k has what belongs there.
Sound(c, k) ==
  \/ c[k] = Id \/ c[k].t = "idx"
  \/ c[k].t = "data" /\ Inside(c, k)
  \/ c[k] = Eof(Before(c, k))

\* A file that can be read to its end: streams, one behind the other.
Whole(c) == (\A k \in 1..Len(c) : Sound(c, k)) /\ ~Inside(c, Len(c) + 1)

\* The benchmark: of a stream decompressed, or of one it makes in memory.
Measure == Test("measure", IF sub = "d" THEN Whole(held) ELSE ~opts.badSize)

Fits == Test("fits", Len(held) <= BlockLimit)
Build == Test("build", ~opts.badSize)

Encode ==
  /\ At("encode") /\ Move /\ Put(<<Block(held)>>)
  /\ UNCHANGED <<argVars, found, made, held, reader>>

\* What decode makes of a file.
Decodable(c) == Len(c) = 1 /\ c[1].t = "block"

\* --verify of a block just encoded, which decodes to what it was made from
\* (BlockCodec, BlockRoundTrip).
Check ==
  /\ At("check") /\ Move
  /\ UNCHANGED <<argVars, fs, found, made, buf, held, reader>>

Decode ==
  /\ At("decode")
  /\ IF Decodable(held)
     THEN Move /\ held' = held[1].us /\ UNCHANGED <<argVars, fs, found, made, buf, reader>>
     ELSE Fail

Deliver ==
  /\ At("deliver") /\ Move /\ Put(held)
  /\ UNCHANGED <<argVars, found, made, held, reader>>

\* io::copy into the stream writer, which begins a stream with its first block.
Compress ==
  /\ At("compress")
  /\ IF pos < Len(Src)
     THEN /\ Put((IF pos = 0 THEN <<Id>> ELSE <<>>) \o <<Data(Src[pos + 1])>>)
          /\ pos' = pos + 1 /\ UNCHANGED steps
     ELSE Move /\ UNCHANGED <<fs, buf, pos>>
  /\ UNCHANGED <<argVars, found, made, held, left, open, count>>

Finish ==
  /\ At("finish") /\ Move
  /\ Put((IF pos = 0 THEN <<Id>> ELSE <<>>) \o <<Eof(pos)>>
         \o (IF opts.index THEN <<Idx(pos)>> ELSE <<>>))
  /\ UNCHANGED <<argVars, found, made, held, reader>>

Flush ==
  /\ At("flush") /\ Move
  /\ fs' = Written(buf) /\ buf' = <<>>
  /\ UNCHANGED <<argVars, found, made, held, reader>>

RemoveInput ==
  /\ At("remove") /\ Move
  /\ fs' = [p \in DOMAIN fs \ {input} |-> fs[p]]
  /\ UNCHANGED <<argVars, found, made, buf, held, reader>>

AtEnd == pos >= Len(Src)
Ahead == Src[pos + 1]

\* The reader is at a chunk of data of a stream.
AtData == ~AtEnd /\ Ahead.t = "data" /\ open

\* Mutant: the EOF chunk is taken for the end of the file.
CleanEndAtEof ==
  ~open /\ ~Following /\ (AtEnd \/ (pos > 0 /\ Src[pos].t = "eof"))

\* The reader is at an end.  One that follows a file is at none: it waits, and reopens
\* the file every second until there is more.
CleanEnd == AtEnd /\ ~open /\ ~Following

\* The reader is at what it refuses: the end of the file inside a stream; damage, data
\* outside a stream, an EOF chunk with another total.
Broken ==
  IF AtEnd THEN open /\ ~Following
  ELSE \/ Ahead.t \in {"unit", "block", "bad"}
       \/ Ahead.t = "data" /\ ~open
       \/ Ahead.t = "eof" /\ Ahead.n # count

Reading == (At("copy") /\ left # 0) \/ At("newline")

\* Mutant: a follower takes the EOF chunk for the end of what will be written.
PassNotEof ==
  /\ Reading /\ ~AtEnd
  /\ \/ Ahead = Id /\ open' = TRUE /\ count' = 0
     \/ Ahead = Eof(count) /\ ~Following /\ open' = FALSE /\ UNCHANGED count
     \/ Ahead.t = "idx" /\ UNCHANGED <<open, count>>
  /\ pos' = pos + 1
  /\ UNCHANGED <<argVars, steps, fs, found, made, buf, held, left>>

\* Chunks that are no data: an identifier, wherever it is, begins a stream, an EOF chunk
\* ends it, and the reader goes on behind it; an index is passed over.
Pass ==
  /\ Reading /\ ~AtEnd
  /\ \/ Ahead = Id /\ open' = TRUE /\ count' = 0
     \/ Ahead = Eof(count) /\ open' = FALSE /\ UNCHANGED count
     \/ Ahead.t = "idx" /\ UNCHANGED <<open, count>>
  /\ pos' = pos + 1
  /\ UNCHANGED <<argVars, steps, fs, found, made, buf, held, left>>

Corrupt == Reading /\ Broken /\ Fail

\* A unit of data is read.
Step == pos' = pos + 1 /\ count' = count + 1 /\ UNCHANGED open

Copy ==
  /\ At("copy")
  /\ \/ /\ left = 0 \/ CleanEnd
        /\ Move /\ UNCHANGED <<argVars, fs, found, made, buf, held, reader>>
     \/ /\ left # 0 /\ AtData
        /\ IF Discards THEN UNCHANGED <<fs, buf>> ELSE Put(<<Ahead.u>>)
        /\ Step /\ left' = IF left = -1 THEN -1 ELSE left - 1
        /\ UNCHANGED <<argVars, steps, found, made, held>>

\* The index is the last chunk, and knows the total.
Index ==
  /\ At("index")
  /\ IF Src # <<>> /\ Last(Src).t = "idx"
     THEN Move /\ held' = Src /\ UNCHANGED <<argVars, fs, found, made, buf, reader>>
     ELSE Fail
Total == Last(held).n

\* Where to start, and how much to read.
Window ==
  IF opts.offset = <<>>
  THEN LET t == Min({opts.tail[1], Total}) IN <<Total - t, t>>
  ELSE LET off == opts.offset[1]
           e == IF opts.tail = <<>> THEN Total ELSE Min({off + opts.tail[1], Total})
       IN <<off, IF e > off THEN e - off ELSE 0>>

\* A file that is one stream, with its index.
Indexed(c) ==
  LET n == Len(c) - 3
  IN /\ n >= 0 /\ c[1] = Id /\ c[n + 2] = Eof(n) /\ c[n + 3] = Idx(n)
     /\ \A i \in 2..(n + 1) : c[i].t \in {"data", "bad"}

\* The seek reads the first chunk, and perhaps others on the way.  In a file of several
\* streams the offsets of the last one's index are those of other chunks, and it may
\* end anywhere (SeekReader).
Seek ==
  /\ At("seek")
  /\ LET start == Window[1]
     IN \/ /\ start <= Total
           /\ IF Indexed(held)
              THEN held[2].t # "bad" /\ pos' = start + 1 /\ open' = TRUE /\ count' = start
              ELSE pos' \in 0..Len(Src) /\ open' \in BOOLEAN /\ count' \in 0..start
           /\ Move /\ left' = IF Following THEN -1 ELSE Window[2]
           /\ UNCHANGED <<argVars, fs, found, made, buf, held>>
        \/ /\ \/ start > Total
              \/ ~Indexed(held)
              \/ \E i \in 2..Min({start + 2, Len(held)}) : held[i].t = "bad"
           /\ Fail

\* advance_past_newline.
Newline ==
  /\ At("newline")
  /\ \/ /\ AtData
        /\ Step /\ steps' = IF Ahead.u = Unit(0) THEN Tail(steps) ELSE steps
        /\ UNCHANGED <<argVars, fs, found, made, buf, held, left>>
     \/ CleanEnd /\ Move /\ UNCHANGED <<argVars, fs, found, made, buf, held, reader>>

Exit ==
  /\ pc = "run" /\ steps = <<>>
  /\ pc' = "exit" /\ code' = 0
  /\ UNCHANGED <<given, want, sub, alias, opts, input, fileVars>>

\* The arguments are complete, and the files are what they are.  A command told
\* to write over its own input is left out.
Begin ==
  /\ ArgsEnd
  /\ \E w \in Worlds :
       /\ fs' = w /\ found' = w
       /\ steps' = IF pc' = "run" THEN StepsOf(sub', opts', input') ELSE <<>>
  /\ pc' = "run" => Target' # input'
  /\ UNCHANGED <<made, buf, held, reader>>

Work ==
  \/ Refused \/ Open \/ Create \/ Load \/ Measure \/ Fits \/ Build \/ Encode \/ Check
  \/ Decode \/ Deliver \/ Compress \/ Finish \/ Flush \/ RemoveInput \/ Pass \/ Corrupt \/ Copy
  \/ Index \/ Seek \/ Newline \/ Exit

----------------------------------------------------------------------------
(* The surroundings *)

\* A call of the system fails: opening or reopening, reading, writing, removing.
IoError ==
  /\ \E s \in {"open", "create", "load", "encode", "deliver", "compress", "finish", "flush",
               "remove", "copy", "index", "seek", "newline"} : At(s)
  /\ Fail

\* What is in the BufWriter dies with the process.
Kill ==
  /\ pc = "run" /\ pc' = "dead" /\ steps' = <<>> /\ buf' = <<>>
  /\ UNCHANGED <<given, want, sub, alias, opts, input, code, fs, found, made, held, reader>>

\* Somebody writes on at the file that is followed.
Grow ==
  /\ pc = "run" /\ Following /\ input \in DOMAIN fs
  /\ Src # Grown /\ IsPrefix(Src, Grown)
  /\ fs' = Place(input, SubSeq(Grown, 1, Len(Src) + 1))
  /\ UNCHANGED <<argVars, steps, found, made, buf, held, reader>>

Init ==
  /\ ArgsInit
  /\ steps = <<>> /\ fs = << >> /\ found = << >> /\ made = FALSE
  /\ buf = <<>> /\ held = <<>> /\ pos = 0 /\ left = -1 /\ open = FALSE /\ count = 0

Next ==
  \/ NextArg /\ UNCHANGED fileVars
  \/ Begin \/ Work \/ IoError \/ Kill \/ Grow

\* The command goes on by itself; nobody has to type, to write to the file it
\* follows, to kill it or to make its calls fail.
Spec == Init /\ [][Next]_vars /\ WF_vars(Work)

----------------------------------------------------------------------------
(* Properties *)

Began == found # << >>
Succeeded == Began /\ pc = "exit" /\ code = 0

\* What a token has of the data, with Bad for a unit that cannot be had.
Piece(x) ==
  CASE x.t = "data" -> <<x.u>>
    [] x.t = "bad" -> <<Bad>>
    [] OTHER -> <<>>

\* The units of data in a file, up to each of its places.
UnitsTo(c) ==
  LET us[k \in 0..Len(c)] == IF k = 0 THEN <<>> ELSE us[k - 1] \o Piece(c[k])
  IN us

Units(c) == UnitsTo(c)[Len(c)]

\* The uncompressed data a whole compressed file stands for.
Stands(c, data) ==
  \/ Whole(c) /\ data = Units(c)
  \/ Decodable(c) /\ data = c[1].us

\* Whether the output has all of the input.
OutputHasAll ==
  /\ made
  /\ IF sub = "c" THEN Stands(fs[Target], found[input]) ELSE Stands(found[input], fs[Target])

\* Whatever fails, and whenever the process is killed, the input is still there
\* with all it had, or it was to be removed and the output, outside the process,
\* has everything.  No other file than these two is touched.
SourceKept ==
  Began =>
    /\ \A p \in DOMAIN found \ {input, Target} : p \in DOMAIN fs /\ fs[p] = found[p]
    /\ input \in DOMAIN found =>
         \/ input \in DOMAIN fs /\ IsPrefix(found[input], fs[input])
         \/ opts.rm /\ OutputHasAll

\* The units a reader of the range asked for should get: behind the first newline
\* at or after the start, if so asked.
Wanted(us) ==
  LET total == Len(us)
      start == IF opts.offset # <<>> THEN opts.offset[1]
               ELSE IF opts.tail # <<>> THEN total - Min({opts.tail[1], total}) ELSE 0
      lines == {i \in (start + 1)..total : us[i] = Unit(0)}
      first == IF ~opts.nl THEN start + 1
               ELSE IF lines = {} THEN total + 1
               ELSE 1 + Min(lines)
      last == IF opts.offset # <<>> /\ opts.tail # <<>>
              THEN Min({total, start + opts.tail[1]}) ELSE total
  IN SubSeq(us, first, last)

\* An offset and a tail and a line boundary at once: see README.
Unclear == opts.offset # <<>> /\ opts.tail # <<>> /\ opts.nl

Ranged == sub = "d" /\ ~IsBlock(opts, input) /\ (opts.offset # <<>> \/ opts.tail # <<>>)

\* A range can be had of a file that is one stream with its index, when the index is read.
Rangeable == Indexed(IF Following THEN held ELSE found[input])

\* Success means the whole result: compressed output that stands for the input;
\* everything of the input decompressed, all its streams, with nothing else in it; or
\* the range asked for, of an input that is one stream; an input that was verified,
\* verified to its end.  What a decompression left behind when it failed, was killed
\* or is still running is a beginning of that.  Following a file never ends in success.
OutputFaithful ==
  Began /\ input \in DOMAIN found /\ ~opts.bench =>
    /\ Succeeded => ~Following
    /\ Succeeded /\ sub = "c" => OutputHasAll
    /\ Succeeded /\ sub # "c" /\ ~Ranged => Whole(found[input]) \/ Decodable(found[input])
    /\ Succeeded /\ sub = "d" /\ ~opts.verify /\ ~Ranged => OutputHasAll
    /\ Succeeded /\ Ranged /\ Rangeable /\ ~Unclear =>
         LET range == Wanted(Units(found[input]))
         IN Bad \notin Range(range) /\ (~opts.verify => fs[Target] = range)
    /\ made /\ sub = "d" /\ ~Decodable(found[input]) /\ input \in DOMAIN fs
       /\ (Ranged => Rangeable /\ ~Unclear) =>
         IsPrefix(fs[Target], Wanted(Units(IF Following THEN Src ELSE found[input])))

\* A command that follows a file has read all there is.
CaughtUp == Following /\ input \in DOMAIN fs /\ AtEnd

\* Every command ends, except one that follows a file; and that one reads all that is
\* written to the file, again and again, what is behind an EOF chunk too.
Progress == pc = "run" ~> (pc # "run" \/ CaughtUp)
=============================================================================
