---------------------------- MODULE ReaderChunks ----------------------------
(* What the single-threaded Reader does with one chunk of the stream:        *)
(* fill_decoded and the chunk handlers of crates/minlz/src/stream/reader.rs. *)
(*                                                                           *)
(* A chunk is its type, a number and what is wrong with it.  The number is   *)
(* the uncompressed length of a data chunk, the block size a stream          *)
(* identifier announces, or the total an EOF chunk declares.  The payload of *)
(* a data chunk is identified by the chunk's position in the stream.         *)
EXTENDS Naturals, Sequences

CONSTANTS MaxBlockUser,    \* max_block_user
          IgnoreCrc,       \* ignore_crc
          IgnoreStreamId   \* ignore_stream_id

ASSUME ReaderAssumption == /\ MaxBlockUser \in Nat \ {0}
                           /\ IgnoreCrc \in BOOLEAN
                           /\ IgnoreStreamId \in BOOLEAN

\* "eof0" is an EOF chunk without a total, "reserved" an unknown chunk that must
\* not be skipped, "skip" any chunk that is passed over, "user" a chunk with a
\* callback, "noskip" a non-skippable user chunk without one, "stub" the first
\* bytes of a chunk header at the end of the input.
ChunkTypes == {"sid", "comp", "raw", "eof", "eof0", "reserved", "skip", "user",
               "noskip", "stub"}

\* What can be wrong: the chunk has no room for a checksum ("short") or is
\* longer than any block of the announced size ("long"); the input ends inside
\* it, or a length in it is not what it must be ("cut"); the decoded length is
\* unreadable ("dlen"); the compressed bytes do not decode ("body"); the
\* checksum differs ("crc"); the identifier is not ours ("magic"); the callback
\* returns an error ("cb").
Defects == {"no", "short", "long", "cut", "dlen", "body", "crc", "magic", "cb"}

\* The chunks a defect can be in.
Fits(c) ==
  /\ c.bad \in {"short", "long", "crc"} => c.t \in {"comp", "raw"}
  /\ c.bad \in {"dlen", "body"} => c.t = "comp"
  /\ c.bad = "magic" => c.t = "sid"
  /\ c.bad = "cb" => c.t = "user"
  /\ c.bad = "cut" => c.t \in {"sid", "comp", "raw", "eof", "skip", "user"}

WireChunk == {c \in [t : ChunkTypes, n : Nat, bad : Defects] : Fits(c)}

\* The input can end inside its last chunk only.
Truncated(c) == c.t = "stub" \/ (c.bad = "cut" /\ c.t \notin {"sid", "eof"})

Input == {s \in Seq(WireChunk) : \A k \in 1..(Len(s) - 1) : ~Truncated(s[k])}

NoBlock == [id |-> 0, len |-> 0]

\* The Reader's state between two chunks: header_read, expect_eof, block_start,
\* decoded and decoded_pos, max_block and the sticky error.
Fresh == [header |-> IgnoreStreamId, expectEof |-> FALSE, start |-> 0,
          block |-> NoBlock, at |-> 0, max |-> MaxBlockUser, err |-> "none"]

Err(s, e) == [s EXCEPT !.err = e]

\* block_start moves past the block that is about to be replaced.
Passed(s) == [s EXCEPT !.start = s.start + s.block.len]

\* decoded holds chunk c, the i-th; at bytes of it are consumed once it is checked.
Load(s, c, i) == [s EXCEPT !.block = [id |-> i, len |-> c.n]]

\* The checksum comparison that ends both data handlers: decoded already holds
\* the block when it fails.
Checked(s, c, at) == IF c.bad = "crc" /\ ~IgnoreCrc
                     THEN Err(s, "crc") ELSE [s EXCEPT !.at = at]

\* A compressed chunk has no form for an empty block.
HandleCompressed(s, c, i) ==
  IF c.bad = "short" THEN Err(s, "corrupt")
  ELSE IF c.bad \in {"long", "cut", "dlen"} \/ c.n = 0 THEN Err(Passed(s), "corrupt")
  ELSE IF c.n > s.max THEN Err(Passed(s), "toolarge")
  ELSE IF c.bad = "body" THEN Err([Passed(s) EXCEPT !.block = NoBlock], "corrupt")
  ELSE Checked(Load(Passed(s), c, i), c, 0)

\* A "long" chunk is one of too many bytes here.  The body is read into decoded.
HandleUncompressed(s, c, i) ==
  IF c.bad = "short" THEN Err(s, "corrupt")
  ELSE IF c.n > s.max \/ c.bad = "long" THEN Err(Passed(s), "toolarge")
  ELSE IF c.bad = "cut" THEN Err(Load(Passed(s), c, i), "corrupt")
  ELSE Checked(Load(Passed(s), c, i), c, 0)

HandleEof(s, c) ==
  IF \/ c.bad = "cut"
     \/ c.t = "eof" /\ ~IgnoreStreamId /\ c.n # s.start + s.block.len
  THEN Err(s, "corrupt")
  ELSE [s EXCEPT !.expectEof = FALSE, !.header = FALSE]

HandleStreamIdentifier(s, c) ==
  IF c.bad = "cut" THEN Err(s, "corrupt")
  ELSE IF c.bad = "magic" THEN Err(s, "unsupported")
  ELSE IF c.n > MaxBlockUser THEN Err(s, "toolarge")
  ELSE [s EXCEPT !.max = c.n, !.start = 0, !.block = NoBlock, !.at = 0,
                 !.expectEof = TRUE]

HandleSkippable(s, c) ==
  IF c.t = "noskip" \/ c.bad = "cut" THEN Err(s, "corrupt")
  ELSE IF c.bad = "cb" THEN Err(s, "callback")
  ELSE s

\* A chunk that may not come before the stream identifier.
NeedsHeader(c) == c.t \in {"comp", "raw", "reserved"}

\* The stream identifier gate.
PastGate(s, c) == [s EXCEPT !.header = s.header \/ c.t = "sid"]

\* What fill_decoded does with a chunk that is not data.
HandleMeta(s, c) ==
  IF c.t \in {"eof", "eof0"} THEN HandleEof(s, c)
  ELSE IF c.t = "sid" THEN HandleStreamIdentifier(s, c)
  ELSE IF c.t = "reserved" THEN Err(s, "unsupported")
  ELSE IF c.t = "stub" THEN Err(s, "corrupt")
  ELSE HandleSkippable(s, c)

\* One turn of fill_decoded on the i-th chunk c.
HandleChunk(s, c, i) ==
  IF ~s.header /\ NeedsHeader(c) THEN Err(s, "corrupt")
  ELSE IF c.t = "comp" THEN HandleCompressed(PastGate(s, c), c, i)
  ELSE IF c.t = "raw" THEN HandleUncompressed(PastGate(s, c), c, i)
  ELSE HandleMeta(PastGate(s, c), c)

\* Reading the chunks of a stream behind position from, in state s, up to the first
\* error.
RunFrom(stream, s, from) ==
  LET run[k \in from..Len(stream)] ==
        IF k = from THEN s
        ELSE IF run[k - 1].err # "none" THEN run[k - 1]
        ELSE HandleChunk(run[k - 1], stream[k], k)
  IN run

RunUpTo(stream) == RunFrom(stream, Fresh, 0)

\* At the end of the input: a stream that was begun must have been ended.
AtEnd(s) == IF s.err = "none" /\ s.expectEof THEN Err(s, "corrupt") ELSE s

\* How reading the whole stream ends: "none" or the error.
SeqResult(stream) == AtEnd(RunUpTo(stream)[Len(stream)]).err

\* Position k of the stream yields data.
Yields(stream, k) == /\ stream[k].t \in {"comp", "raw"}
                     /\ RunUpTo(stream)[k].err = "none"

\* The blocks a Reader returns, in order.
SeqOutput(stream) ==
  LET block(k) == [id |-> k, len |-> stream[k].n]
      outs[k \in 0..Len(stream)] ==
        IF k = 0 THEN <<>>
        ELSE IF Yields(stream, k) THEN Append(outs[k - 1], block(k)) ELSE outs[k - 1]
  IN outs[Len(stream)]

\* The bytes in a sequence of blocks.
Bytes(blocks) ==
  LET sum[k \in 0..Len(blocks)] == IF k = 0 THEN 0 ELSE sum[k - 1] + blocks[k].len
  IN sum[Len(blocks)]
=============================================================================
