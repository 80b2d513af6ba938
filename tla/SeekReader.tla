----------------------------- MODULE SeekReader -----------------------------
(* ReadSeeker, crates/minlz/src/stream/seek.rs: seek_uncompressed and read_at*)
(* over a Reader and an index.  An index entry is a position in the input,   *)
(* counted in chunks, and the place in the data that is decoded from there.  *)
EXTENDS StreamReader, Integers

CONSTANTS Back,       \* the farthest relative seek backwards
          Seekable    \* the inputs that may be given to a ReadSeeker

ASSUME BackAssumption == Back \in Nat
ASSUME SeekableAssumption == Seekable \subseteq Streams

VARIABLES wrapped,  \* the Reader belongs to a ReadSeeker
          index,    \* the entries of its Index
          total,    \* total_uncompressed, -1 if it is not known
          target    \* the offset a seek is after

seekVars == <<wrapped, index, total, target>>
svars == <<vars, seekVars>>

\* The entries index_stream or a Writer can record: the starts of the blocks.
Starts(stream) ==
  {[c |-> k - 1, u |-> Len(Data(SubSeq(stream, 1, k - 1)))] :
     k \in {j \in 1..Len(stream) : stream[j].t \in {"comp", "raw"} /\ stream[j].n > 0}}

\* Fault: the entry behind the offset rather than the one before it.
FindNext(es, o) == LET above == {e \in es : e.u >= o}
                   IN IF above = {} THEN [c |-> 0, u |-> 0]
                      ELSE CHOOSE e \in above : \A d \in above : e.u <= d.u

\* Index::find: the last entry at or before offset o; (0, 0) is implied.
Find(es, o) == LET below == {e \in es : e.u <= o}
               IN IF below = {} THEN [c |-> 0, u |-> 0]
                  ELSE CHOOSE e \in below : \A d \in below : d.u <= e.u

----------------------------------------------------------------------------
(* seek_uncompressed *)

\* Fault: an error of any kind is forgiven.
ForgivenAny == TRUE

\* Only running off the end is forgiven.
Forgiven == rd.err \in {"none", "ueof"}

\* The range checks: what is wrong with offset o, "ok" if nothing.
SeekCheck(o) == IF o < 0 THEN "invalid"
                ELSE IF total # -1 /\ o > total THEN "ueof" ELSE "ok"

\* Enter a seek to offset o for call c, which asks for n bytes; e0 is an error
\* of its arguments.  These errors are not kept.
BeginSeek(c, n, o, e0) ==
  /\ wrapped
  /\ pc = "idle"
  /\ op' = c
  /\ want' = n
  /\ buf' = <<>>
  /\ rd' = IF Forgiven THEN [rd EXCEPT !.err = "none"] ELSE rd
  /\ LET e == IF ~Forgiven THEN rd.err ELSE IF e0 # "ok" THEN e0 ELSE SeekCheck(o)
         to == IF e # "ok" /\ o < 0 THEN 0 ELSE o
     IN /\ res' = e
        /\ pc' = IF e = "ok" THEN "find" ELSE "ret"
        /\ target' = to
        /\ got' = [op |-> c, res |-> "ok", from |-> to, n |-> n, bytes |-> <<>>]
  /\ failed' = ~Forgiven
  /\ UNCHANGED <<src, pos, cur, base, wrapped, index, total>>

\* Offsets a caller may name: past the end too.
Offsets == 0..(Len(Data(src)) + 1)

\* SeekFrom::Start, Current and End; End needs the total.
SeekStart == \E o \in Offsets : BeginSeek("seek", 0, o, "ok")
SeekCurrent == \E d \in (-Back)..Back : BeginSeek("seek", 0, rd.start + rd.at + d, "ok")
SeekEnd == \E d \in (-Back)..1 :
             BeginSeek("seek", 0, total + d, IF total = -1 THEN "unsupported" ELSE "ok")

\* read_at with a buffer of n bytes.
ReadAt(n) == \E o \in Offsets : BeginSeek("readat", n, o, "ok")

\* The header must have been read: from the start of the input, with fill_buf.
SeekHeader ==
  /\ pc = "find"
  /\ ~rd.header
  /\ pos' = 0
  /\ cur' = 0
  /\ pc' = "fill"
  /\ UNCHANGED <<src, rd, callVars, base, got, failed, seekVars>>

\* That fill_buf ends: decoded has bytes, or the input no data.
SeekFilled ==
  /\ pc = "fill"
  /\ op \in {"seek", "readat"}
  /\ Unread \/ pos = Len(src)
  /\ IF ~Unread /\ rd.expectEof THEN End("corrupt") ELSE pc' = "locate" /\ UNCHANGED res
  /\ UNCHANGED <<src, pos, rd, op, want, buf, cur, base, got, failed, seekVars>>

AtLocate == pc = "locate" \/ (pc = "find" /\ rd.header)

InBlock == rd.start <= target /\ target < rd.start + rd.block.len

\* Fast path: the target is in decoded.
SeekInBlock ==
  /\ AtLocate
  /\ InBlock
  /\ rd' = [rd EXCEPT !.at = target - rd.start]
  /\ cur' = target
  /\ End("ok")
  /\ UNCHANGED <<src, pos, op, want, buf, base, got, failed, seekVars>>

\* Fault: the block in decoded is kept across the jump.
JumpedKeeps(u) == [rd EXCEPT !.start = u, !.at = rd.block.len]

\* decoded is cleared, so that the next data chunk starts at u.
Jumped(u) == [rd EXCEPT !.block = NoBlock, !.at = 0, !.start = u]

\* Slow path: to the index entry, and skip the rest.
SeekByIndex ==
  /\ AtLocate
  /\ ~InBlock
  /\ LET e == Find(index, target)
     IN /\ pos' = e.c
        /\ rd' = Jumped(e.u)
        /\ cur' = e.u
        /\ want' = target - e.u
        /\ IF e.u < target THEN pc' = "skip" /\ UNCHANGED res ELSE End("ok")
  /\ base' = 0
  /\ UNCHANGED <<src, op, buf, got, failed, seekVars>>

\* The seek of the input fails, on either way, before anything has changed.
SeekFails ==
  /\ src \in Flaky
  /\ (pc = "find" /\ ~rd.header) \/ (AtLocate /\ ~InBlock)
  /\ End("io")
  /\ UNCHANGED <<src, pos, rd, op, want, buf, cur, base, got, failed, seekVars>>

\* The seek is over: seek returns; read_at goes on to read unless it failed.
SeekReturn ==
  /\ pc = "ret"
  /\ op \in {"seek", "readat", "fillat"}
  /\ IF op = "readat" /\ res = "ok" /\ got.n > 0
     THEN /\ op' = "fillat"
          /\ want' = got.n
          /\ pc' = "fill"
          /\ UNCHANGED got
     ELSE /\ pc' = "idle"
          /\ got' = [got EXCEPT !.res = res, !.bytes = IF res \in ReadErrors THEN <<>> ELSE buf]
          /\ UNCHANGED <<op, want>>
  /\ UNCHANGED <<src, pos, rd, res, buf, cur, base, failed, seekVars>>

\* A read in read_at's loop, which goes on until its buffer is full.
CopyAt ==
  /\ pc = "fill"
  /\ op = "fillat"
  /\ Unread
  /\ buf' = buf \o Slice(want)
  /\ rd' = [rd EXCEPT !.at = rd.at + Len(Slice(want))]
  /\ cur' = cur + Len(Slice(want))
  /\ want' = want - Len(Slice(want))
  /\ IF want' = 0 THEN End("ok") ELSE UNCHANGED <<pc, res>>
  /\ UNCHANGED <<src, pos, op, base, got, failed, seekVars>>

\* read_at reaches the end of the input: a short buffer.
EndAt ==
  /\ pc = "fill"
  /\ op = "fillat"
  /\ ~Unread
  /\ pos = Len(src)
  /\ End(EofResult)
  /\ UNCHANGED <<src, pos, rd, op, want, buf, cur, base, got, failed, seekVars>>

----------------------------------------------------------------------------
SInit == /\ Init
         /\ \/ wrapped = FALSE /\ index = {} /\ total = -1
            \/ /\ wrapped = TRUE
               /\ src \in Seekable
               /\ index \in SUBSET Starts(src)
               /\ total \in {-1, Len(Data(src))}
         /\ target = 0

SeekSteps == \/ SeekHeader \/ SeekFilled \/ SeekInBlock \/ SeekByIndex \/ SeekFails
             \/ SeekReturn \/ CopyAt \/ EndAt

\* A ReadSeeker hands on read; the other calls of the Reader are not reachable.
SNext == \/ /\ \/ ~wrapped /\ Calls
               \/ wrapped /\ \E n \in 0..MaxAsk : Read(n)
               \/ Steps
               \/ Handed
            /\ UNCHANGED seekVars
         \/ SeekStart \/ SeekCurrent \/ SeekEnd
         \/ \E n \in 0..MaxAsk : ReadAt(n)
         \/ SeekSteps

SeekSpec == SInit /\ [][SNext]_svars

----------------------------------------------------------------------------
(* What makes seeking correct. *)

\* current_offset is the place of the next byte whatever calls came before, seeks
\* included.  A seek that fails on the way, because its input does, leaves it
\* where it was although the input has moved.
PositionTracks == OffsetTracks \/ (wrapped /\ src \in Flaky)

\* A seek that succeeds is where it was sent: the offset it returns is that of
\* the next byte, and current_offset agrees.
SeekLands ==
  got.op = "seek" /\ got.res = "ok" /\ pc = "idle" =>
    cur = got.from /\ rd.start + rd.at = got.from

\* On a stream the Reader accepts, a seek or read_at fails only for its
\* arguments, whatever state the reader is in: the end is reported only for
\* offsets behind it, and read_at comes back short only there.
SeekSucceeds ==
  src \notin Flaky /\ SeqResult(src) = "none" /\ got.op \in {"seek", "readat"} /\ pc = "idle" =>
    /\ got.res \in {"ok", "eof", "ueof", "invalid", "unsupported"}
    /\ got.res = "ueof" => got.from > Len(Data(src))
    /\ got.op = "readat" /\ got.res = "ok" => Len(got.bytes) = got.n
    /\ got.op = "readat" /\ got.res = "eof" => got.from + Len(got.bytes) = Len(Data(src))
=============================================================================
