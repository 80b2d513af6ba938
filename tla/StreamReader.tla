---------------------------- MODULE StreamReader ----------------------------
(* The single-threaded Reader, crates/minlz/src/stream/reader.rs: Read::read,*)
(* BufRead::fill_buf and consume, skip, reset, and the entry checks of       *)
(* decode_concurrent.                                                        *)
(*                                                                           *)
(* A call is a run of steps, one for each chunk its loop reads.  A byte of   *)
(* the decoded stream is <<chunk, offset>>: the position of its chunk and    *)
(* its place in the block.                                                   *)
EXTENDS ReaderChunks

CONSTANTS Streams,   \* the inputs
          MaxAsk,    \* most bytes asked for in one call
          Flaky      \* the inputs whose reads may fail

ASSUME StreamsAssumption == Streams \subseteq Input
ASSUME AskAssumption == MaxAsk \in Nat
ASSUME FlakyAssumption == Flaky \subseteq Streams

VARIABLES
  src, pos,          \* the input and how many chunks of it have been read
  rd,                \* the Reader's fields, as in ReaderChunks
  pc, op, want,      \* the call in progress and what it still asks for
  res, buf,          \* its result and the bytes it returns
  cur, base,         \* ghosts: the place in the data of the next byte, and of the
                     \* first byte of the stream it is in
  got, failed        \* ghosts: the last call, and whether one before it failed

callVars == <<op, want, res, buf>>
vars == <<src, pos, rd, pc, callVars, cur, base, got, failed>>

ReadErrors == {"corrupt", "toolarge", "unsupported", "crc", "callback", "io",
               "ueof", "invalid"}

\* The data of an input: the bytes of its data chunks.
Data(stream) ==
  LET bytes(k) == IF stream[k].t \in {"comp", "raw"}
                  THEN [j \in 1..stream[k].n |-> <<k, j>>] ELSE <<>>
      all[k \in 0..Len(stream)] == IF k = 0 THEN <<>> ELSE all[k - 1] \o bytes(k)
  IN all[Len(stream)]

Avail == rd.block.len - rd.at
Chunk == src[pos + 1]

NoCall == [op |-> "none", res |-> "ok", from |-> 0, n |-> 0, bytes |-> <<>>]

\* The last call, on the single-threaded path, failed.
Failed == got.op \in {"read", "fillbuf", "skip"} /\ got.res \in ReadErrors

----------------------------------------------------------------------------
(* Calls *)

\* Fault: the sticky error is not looked at.
RefusedNever == FALSE

\* Every call looks at the sticky error first.
Refused == rd.err # "none"

\* Begin a call: at step p, or with the sticky error in hand.
Begin(o, n, p) ==
  /\ pc = "idle"
  /\ op' = o
  /\ want' = n
  /\ buf' = <<>>
  /\ got' = [op |-> o, res |-> "ok", from |-> cur, n |-> n, bytes |-> <<>>]
  /\ failed' = (failed \/ Failed)
  /\ IF Refused THEN pc' = "ret" /\ res' = rd.err
     ELSE pc' = p /\ res' = "ok"

\* Read::read into a buffer of n bytes.
Read(n) == /\ Begin("read", n, IF n = 0 THEN "ret" ELSE "fill")
           /\ UNCHANGED <<src, pos, rd, cur, base>>

\* BufRead::fill_buf
FillBuf == /\ Begin("fillbuf", 1, "fill")
           /\ UNCHANGED <<src, pos, rd, cur, base>>

\* skip(n)
Skip(n) == /\ Begin("skip", n, IF n = 0 THEN "ret" ELSE "skip")
           /\ UNCHANGED <<src, pos, rd, cur, base>>

\* After a failed call decoded may be shorter than
\* decoded_pos; the difference then wraps around (PosBound bounds the model).
PosBound == MaxBlockUser + MaxAsk

\* BufRead::consume
Consume(n) ==
  /\ pc = "idle"
  /\ rd.at <= PosBound
  /\ LET k == IF rd.at <= rd.block.len /\ Avail < n THEN Avail ELSE n
     IN rd' = [rd EXCEPT !.at = rd.at + k] /\ cur' = cur + k
  /\ got' = NoCall
  /\ failed' = (failed \/ Failed)
  /\ UNCHANGED <<src, pos, pc, callVars, base>>

\* reset: another input, the same options.  The model starts over with this one.
Reset ==
  /\ pc = "idle"
  /\ pos' = 0
  /\ rd' = Fresh
  /\ cur' = 0 /\ base' = 0
  /\ got' = NoCall
  /\ failed' = FALSE
  /\ UNCHANGED <<src, pc, callVars>>

\* decoded has bytes that were not returned yet.
Unread == rd.at < rd.block.len

\* decode_concurrent: refused while bytes are unread, then the sticky error.
\* Otherwise the rest of the input is decoded as MtReader does it, which counts
\* the bytes for the EOF chunk from here.
DecodeConcurrent ==
  /\ pc = "idle"
  /\ LET start == [rd EXCEPT !.start = 0, !.block = NoBlock, !.at = 0]
         end == AtEnd(RunFrom(src, start, pos)[Len(src)])
         e == IF Unread THEN "invalid"
              ELSE IF rd.err # "none" THEN rd.err
              ELSE IF end.err = "none" THEN "ok" ELSE end.err
     IN /\ got' = [op |-> "concurrent", res |-> e, from |-> cur, n |-> 0, bytes |-> <<>>]
        /\ pc' = IF Unread \/ rd.err # "none" THEN "idle" ELSE "handed"
  /\ failed' = (failed \/ Failed)
  /\ UNCHANGED <<src, pos, rd, callVars, cur, base>>

\* Leave the loop of a call.
End(e) == pc' = "ret" /\ res' = e

\* The call returns.
Return ==
  /\ pc = "ret"
  /\ op \in {"read", "fillbuf", "skip"}
  /\ pc' = "idle"
  /\ got' = [got EXCEPT !.res = res, !.bytes = buf]
  /\ UNCHANGED <<src, pos, rd, callVars, cur, base, failed>>

----------------------------------------------------------------------------
(* fill_decoded *)

\* The bytes of decoded from decoded_pos on, at most n.
Slice(n) == [j \in 1..(IF Avail < n THEN Avail ELSE n) |-> <<rd.block.id, rd.at + j>>]

\* read copies what is there and moves on.
Copy ==
  /\ pc = "fill"
  /\ op = "read"
  /\ Unread
  /\ buf' = Slice(want)
  /\ rd' = [rd EXCEPT !.at = rd.at + Len(Slice(want))]
  /\ cur' = cur + Len(Slice(want))
  /\ End("ok")
  /\ UNCHANGED <<src, pos, op, want, base, got, failed>>

\* fill_buf returns the rest of the block.
Borrow ==
  /\ pc = "fill"
  /\ op = "fillbuf"
  /\ Unread
  /\ buf' = Slice(Avail)
  /\ End("ok")
  /\ UNCHANGED <<src, pos, rd, op, want, cur, base, got, failed>>

\* A new stream begins where the data is now.
BaseAfter(s) == IF Chunk.t = "sid" /\ s.err = "none" THEN cur' ELSE base

\* The state s behind the chunk in hand: go on, or fail and keep the error.
\* The header read itself fails without keeping it.
After(s, next) ==
  IF Chunk.t = "stub" THEN UNCHANGED rd /\ End("corrupt")
  ELSE /\ rd' = s
       /\ IF s.err # "none" THEN End(s.err) ELSE pc' = next /\ UNCHANGED res

\* One turn of the loop.
FillChunk ==
  /\ pc = "fill"
  /\ ~Unread
  /\ pos < Len(src)
  /\ pos' = pos + 1
  /\ After(HandleChunk(rd, Chunk, pos + 1), "fill")
  /\ UNCHANGED cur
  /\ base' = BaseAfter(rd')
  /\ UNCHANGED <<src, op, want, buf, got, failed>>

\* Fault: the end of the input is always clean.
EofResultLenient == "eof"

\* What the end of the input means where a header is expected.
EofResult == IF rd.expectEof THEN "corrupt" ELSE "eof"

\* The input ends.
FillEnd ==
  /\ pc = "fill"
  /\ op \in {"read", "fillbuf"}
  /\ ~Unread
  /\ pos = Len(src)
  /\ End(EofResult)
  /\ UNCHANGED <<src, pos, rd, op, want, buf, cur, base, got, failed>>

\* The body of the chunk in hand is read, and could be cut short.
BodyRead == /\ pos < Len(src)
            /\ rd.header \/ ~NeedsHeader(Chunk)
            /\ Chunk.t \in {"sid", "comp", "raw", "eof", "skip", "user"}
            /\ Chunk.bad \notin {"short", "long"}

CutChunk == [Chunk EXCEPT !.bad = "cut"]

\* Fault: the error in a body is not kept.
BodyFailsForgotten(s) == /\ BodyRead
                         /\ s.err = "corrupt"
                         /\ pos' = pos + 1
                         /\ rd' = Err(s, "none")

\* Reading a body fails where it would have ended too early, in state s.  The
\* error is kept.
BodyFails(s) == /\ BodyRead
                /\ s.err = "corrupt"
                /\ pos' = pos + 1
                /\ rd' = Err(s, "io")

\* Reading the input fails at a header, before any of its bytes, or in a body.
FillFails ==
  /\ src \in Flaky
  /\ pc = "fill"
  /\ ~Unread
  /\ End("io")
  /\ \/ UNCHANGED <<pos, rd>>
     \/ BodyFails(HandleChunk(rd, CutChunk, pos + 1))
  /\ UNCHANGED <<src, op, want, buf, cur, base, got, failed>>

----------------------------------------------------------------------------
(* skip *)

\* Fault: block_start misses the block that was in decoded.
SkipWholeDropsBlock(s, c) == [s EXCEPT !.start = s.start + c.n, !.block = NoBlock, !.at = 0]

\* A whole block passed over: neither decoded nor checked.
SkipWhole(s, c) == [s EXCEPT !.start = s.start + s.block.len + c.n,
                             !.block = NoBlock, !.at = 0]

\* skip_compressed_or_decode with n bytes to go.
SkipCompressed(s, c, i, n) ==
  IF c.bad \in {"short", "long", "cut", "dlen"} \/ c.n = 0 THEN Err(s, "corrupt")
  ELSE IF c.n > s.max THEN Err(s, "toolarge")
  ELSE IF c.n <= n THEN SkipWhole(s, c)
  ELSE IF c.bad = "body" THEN Err([Passed(s) EXCEPT !.block = NoBlock], "corrupt")
  ELSE Checked(Load(Passed(s), c, i), c, n)

\* skip_uncompressed_or_decode
SkipUncompressed(s, c, i, n) ==
  IF c.bad = "short" THEN Err(s, "corrupt")
  ELSE IF c.n > s.max \/ c.bad = "long" THEN Err(s, "toolarge")
  ELSE IF c.n <= n
       THEN IF c.bad = "cut" THEN Err(SkipWhole(s, c), "corrupt") ELSE SkipWhole(s, c)
  ELSE IF c.bad = "cut" THEN Err(Load(Passed(s), c, i), "corrupt")
  ELSE Checked(Load(Passed(s), c, i), c, n)

SkipHandle(s, c, i, n) ==
  IF ~s.header /\ NeedsHeader(c) THEN Err(s, "corrupt")
  ELSE IF c.t = "comp" THEN SkipCompressed(PastGate(s, c), c, i, n)
  ELSE IF c.t = "raw" THEN SkipUncompressed(PastGate(s, c), c, i, n)
  ELSE HandleMeta(PastGate(s, c), c)

\* The buffer is drained first.
Drained == [rd EXCEPT !.at = rd.block.len]

SkipInBuffer == Avail >= want

\* What is left of the skip ends in the buffer.
SkipDrain ==
  /\ pc = "skip"
  /\ SkipInBuffer
  /\ rd' = [rd EXCEPT !.at = rd.at + want]
  /\ cur' = cur + want
  /\ End("ok")
  /\ UNCHANGED <<src, pos, op, want, buf, base, got, failed>>

\* Fault: a block passed over is not subtracted from the skip.
PassingNone(s, c, n) == 0

\* Bytes of chunk c passed over when s is the state behind it and n were to go.
Passing(s, c, n) == IF c.t \notin {"comp", "raw"} \/ s.err # "none" THEN 0
                    ELSE IF c.n < n THEN c.n ELSE n

\* One turn of the loop.
SkipChunk ==
  /\ pc = "skip"
  /\ ~SkipInBuffer
  /\ pos < Len(src)
  /\ pos' = pos + 1
  /\ LET n == want - Avail
         s == SkipHandle(Drained, Chunk, pos + 1, n)
         k == Passing(s, Chunk, n)
     IN /\ want' = n - k
        /\ cur' = cur + Avail + k
        /\ IF Chunk.t = "stub" THEN rd' = Drained /\ End("corrupt")
           ELSE /\ rd' = s
                /\ IF s.err # "none" THEN End(s.err)
                   ELSE IF n = k THEN End("ok") ELSE UNCHANGED <<pc, res>>
  /\ base' = BaseAfter(rd')
  /\ UNCHANGED <<src, op, buf, got, failed>>

\* The input ends before the skip: kept, unless a header was still due.
SkipEnd ==
  /\ pc = "skip"
  /\ ~SkipInBuffer
  /\ pos = Len(src)
  /\ cur' = cur + Avail
  /\ want' = want - Avail
  /\ IF rd.expectEof THEN rd' = Drained /\ End("corrupt")
     ELSE rd' = Err(Drained, "ueof") /\ End("ueof")
  /\ UNCHANGED <<src, pos, op, buf, base, got, failed>>

\* The same two failures in skip.
SkipFails ==
  /\ src \in Flaky
  /\ pc = "skip"
  /\ ~SkipInBuffer
  /\ cur' = cur + Avail
  /\ want' = want - Avail
  /\ End("io")
  /\ \/ rd' = Drained /\ UNCHANGED pos
     \/ BodyFails(SkipHandle(Drained, CutChunk, pos + 1, want - Avail))
  /\ UNCHANGED <<src, op, buf, base, got, failed>>

----------------------------------------------------------------------------
Init ==
  /\ src \in Streams /\ pos = 0 /\ rd = Fresh
  /\ pc = "idle" /\ op = "none" /\ want = 0 /\ res = "ok" /\ buf = <<>>
  /\ cur = 0 /\ base = 0 /\ got = NoCall /\ failed = FALSE

Calls == \/ \E n \in 0..MaxAsk : Read(n) \/ Skip(n) \/ Consume(n)
         \/ FillBuf \/ Reset \/ DecodeConcurrent

Steps == \/ Return \/ Copy \/ Borrow \/ FillChunk \/ FillEnd \/ FillFails
         \/ SkipDrain \/ SkipChunk \/ SkipEnd \/ SkipFails

Handed == pc = "handed" /\ UNCHANGED vars

Next == Calls \/ Steps \/ Handed

Spec == Init /\ [][Next]_vars

----------------------------------------------------------------------------
(* What makes the Reader correct. *)

Ops == {"none", "read", "fillbuf", "skip", "concurrent"}
Results == ReadErrors \cup {"ok", "eof"}

\* Every variable has its type.
TypeOK ==
  /\ src \in Streams /\ pos \in 0..Len(src)
  /\ rd \in [header : BOOLEAN, expectEof : BOOLEAN, start : Nat,
             block : [id : 0..Len(src), len : Nat], at : Nat, max : Nat,
             err : ReadErrors \cup {"none"}]
  /\ pc \in {"idle", "fill", "skip", "ret", "handed"}
  /\ op \in Ops /\ want \in Nat /\ res \in Results /\ buf \in Seq(Nat \X Nat)
  /\ cur \in Nat /\ base \in Nat /\ failed \in BOOLEAN
  /\ got \in [op : Ops, res : Results, from : Nat, n : Nat, bytes : Seq(Nat \X Nat)]

\* Nothing unverified is handed out: a chunk whose checksum or body is wrong.
Sound(k) == src[k].bad = "no" \/ (src[k].bad = "crc" /\ IgnoreCrc)

\* Every call returns the bytes at its place in the data, whatever mixture of
\* reads, skips and consumes came before, and only bytes of blocks that decoded
\* and whose checksum was right.
ReadsInOrder ==
  /\ got.bytes = SubSeq(Data(src), got.from + 1, got.from + Len(got.bytes))
  /\ \A j \in 1..Len(got.bytes) : Sound(got.bytes[j][1])

\* The end is reported only when all the data has been returned or skipped
\* and every stream begun has been ended.
EndIsEnd == got.res = "eof" => cur = Len(Data(src)) /\ ~rd.expectEof

\* A successful skip passes over exactly n bytes, and a skip reports the end of
\* the input only if fewer are left: skipping is reading and throwing away.
SkipExact ==
  got.op = "skip" /\ pc = "idle" =>
    /\ got.res = "ok" => cur = got.from + got.n
    /\ got.res = "ueof" /\ ~failed => Len(Data(src)) - got.from < got.n

\* current_offset: the offset of the next byte in the stream it belongs to, also
\* after skips over undecoded blocks; the EOF total is compared with it.  And
\* decoded_pos stays within decoded while calls subtract it from the length.
OffsetTracks ==
  rd.err = "none" => /\ rd.at <= rd.block.len
                     /\ pc = "idle" => rd.start + rd.at = cur - base

\* A stream the Reader accepts when it reads it through is accepted by every
\* mixture of reads and skips.
NoSpuriousError ==
  src \notin Flaky /\ SeqResult(src) = "none" /\ got.op \in {"read", "fillbuf", "skip"}
    => got.res \in {"ok", "eof", "ueof"}

\* After a failed call no data is returned, although decoded may hold the block
\* that failed its check.
NoDataAfterError == src \notin Flaky /\ failed => got.bytes = <<>>

\* The doc of decode_concurrent: "calling this after consuming bytes via the
\* single-threaded path returns InvalidInput".
ConcurrentRefused ==
  got.op = "concurrent" /\ got.from > 0 /\ ~failed => got.res = "invalid"
=============================================================================
