---------------------------- MODULE StreamWriter ----------------------------
(* The single-threaded Writer, crates/minlz/src/stream/writer.rs: write,     *)
(* flush, add_user_chunk, finish, close_index and reset.                     *)
(*                                                                           *)
(* A call is a run of steps, one for each chunk it writes.  The sink holds   *)
(* chunks in the form ReaderChunks reads, with their size in bytes; a data   *)
(* chunk names its bytes by their place in what was written.                 *)
EXTENDS Naturals, Sequences

CONSTANTS BlockSize,      \* block_size
          MaxBlockSize,   \* MAX_BLOCK_SIZE
          Options,        \* the builder's options that are looked at
          IndexSizes,     \* sizes an encoded index may have
          MaxBytes,       \* bound: bytes accepted
          MaxChunks,      \* bound: user chunks
          Faults          \* the faults that may happen

ASSUME SizeAssumption == /\ BlockSize \in 1..MaxBlockSize
                         /\ MaxBlockSize \in Nat
                         /\ \E k \in 0..MaxBlockSize : MaxBlockSize = 2^k
                         /\ IndexSizes \subseteq Nat \ {0}
                         /\ MaxBytes \in Nat
                         /\ MaxChunks \in Nat
ASSUME OptionAssumption ==
  Options \subseteq [padding : 0..MaxBlockSize, uncompressed : BOOLEAN,
                     flushOnWrite : BOOLEAN, genIndex : BOOLEAN, appendIndex : BOOLEAN]
ASSUME FaultAssumption == Faults \subseteq {"io"}

VARIABLES
  opts,                \* the builder's options
  ibuf, wroteHeader, uncomp, comp, index, err,    \* the Writer's fields
  pc, call, work, rest,   \* the call in progress, the chunks it has still to write
                          \* and what is in ibuf when it has
  ret,                 \* what the last call returned
  accepted, chunks,    \* bytes and user chunks the caller has handed over
  wire                 \* the sink

writerVars == <<ibuf, wroteHeader, uncomp, comp, index, err>>
vars == <<opts, writerVars, pc, call, work, rest, ret, accepted, chunks, wire>>

ChunkHeader == 4
Checksum == 4

----------------------------------------------------------------------------
(* Chunks *)

Chunk(t, n, off, size) == [t |-> t, n |-> n, bad |-> "no", off |-> off, size |-> size]

Smallest(S) == CHOOSE x \in S : \A y \in S : x <= y

\* The size the stream identifier announces: the next power of two.
Announced == Smallest({p \in BlockSize..MaxBlockSize : \E k \in 0..p : p = 2^k})

\* The bytes put_uvarint writes, ten at most.
UvarintLen(v) == LET fits(k) == v < 128^k \/ k = 10
                 IN CHOOSE k \in 1..10 : fits(k) /\ \A j \in 1..(k - 1) : ~fits(j)

\* emit_block: a compressed chunk if it is smaller, else the bytes themselves.
BlockChunks(b) ==
  {Chunk("raw", b.n, b.off, ChunkHeader + Checksum + b.n)}
  \cup (IF opts.uncompressed THEN {}
        ELSE {Chunk("comp", b.n, b.off, ChunkHeader + Checksum + k) : k \in 1..(b.n - 1)})

\* write_blocks: n bytes from offset o on, cut at the block size.
Blocks(o, n) ==
  [i \in 1..((n + BlockSize - 1) \div BlockSize) |->
     LET at == (i - 1) * BlockSize
     IN Chunk("data", IF n - at < BlockSize THEN n - at ELSE BlockSize, o + at, 0)]

Header == Chunk("sid", Announced, 0, 10)
UserChunk == Chunk("user", chunks + 1, accepted, ChunkHeader + chunks)

\* ensure_header
WithHeader(s) == IF wroteHeader THEN s ELSE <<Header>> \o s

\* flush_ibuf
Buffered == IF ibuf = 0 THEN <<>> ELSE WithHeader(Blocks(accepted - ibuf, ibuf))

\* What flush_ibuf writes, then ensure_header, then s.
Then(s) == IF ibuf = 0 THEN WithHeader(s) ELSE Buffered \o s

\* emit_padding: the bytes that follow c written ones.  The loop adds multiples
\* until a chunk header fits; more than a block's worth is not written at all.
PaddingSize(c, multiple) ==
  LET add(k) == (k * multiple) - (c % multiple)
      fits == add(Smallest({k \in 1..ChunkHeader : add(k) >= ChunkHeader}))
  IN IF multiple < 2 \/ c % multiple = 0 \/ fits > MaxBlockSize + ChunkHeader THEN 0
     ELSE fits

----------------------------------------------------------------------------
(* Calls *)

\* Begin call c that writes chunks w and leaves r bytes in ibuf.  ibuf is empty
\* while anything is written, and stays so if writing fails.
Begin(c, w, r) ==
  /\ pc = "idle"
  /\ err = "none"
  /\ pc' = "step"
  /\ call' = c
  /\ work' = w
  /\ rest' = r
  /\ ibuf' = 0
  /\ UNCHANGED <<opts, wroteHeader, uncomp, comp, index, err, ret, wire>>

\* The bytes of n that do not stay in ibuf.
Full(n) == IF opts.flushOnWrite THEN n ELSE (n \div BlockSize) * BlockSize

\* Write::write.  Buffered or from the caller's slice, whole blocks are written
\* and the rest stays in ibuf; with flush_on_write nothing stays.
Write(n) ==
  LET full == Full(ibuf + n)
  IN /\ accepted + n <= MaxBytes
     /\ accepted' = accepted + n
     /\ UNCHANGED chunks
     /\ Begin("write", IF full = 0 THEN <<>> ELSE WithHeader(Blocks(accepted - ibuf, full)),
              ibuf + n - full)

\* Write::flush, which flushes the sink too.
Flush == /\ Begin("flush", Append(Buffered, Chunk("sync", 0, 0, 0)), 0)
         /\ UNCHANGED <<accepted, chunks>>

\* add_user_chunk: buffered input goes first.
AddUserChunk ==
  /\ chunks < MaxChunks
  /\ chunks' = chunks + 1
  /\ UNCHANGED accepted
  /\ Begin("chunk", Then(<<UserChunk>>), 0)

\* Every call but reset looks at the kept error; finish and close_index end the
\* Writer all the same.
Refused(c) ==
  /\ pc = "idle"
  /\ err # "none"
  /\ call' = c
  /\ pc' = IF c = "finish" THEN "ended" ELSE "idle"
  /\ ret' = err
  /\ UNCHANGED <<opts, writerVars, work, rest, accepted, chunks, wire>>

\* The chunks of close_inner: "eof" declares the count at that time, "seal"
\* stands for what is worked out behind it.
Closing == Then(<<Chunk("eof", 0, accepted, 0), Chunk("seal", 0, 0, 0)>>)

\* finish and close_index.
Finish == /\ Begin("finish", Closing, 0)
          /\ UNCHANGED <<accepted, chunks>>
CloseIndex == /\ opts.genIndex \/ opts.appendIndex
              /\ Begin("closeindex", Closing, 0)
              /\ UNCHANGED <<accepted, chunks>>

\* close_index without an index gives the Writer up, buffered bytes and all.
CloseIndexRefused ==
  /\ pc = "idle"
  /\ err = "none"
  /\ ~opts.genIndex /\ ~opts.appendIndex
  /\ call' = "closeindex"
  /\ pc' = "ended"
  /\ ret' = "invalid"
  /\ UNCHANGED <<opts, writerVars, work, rest, accepted, chunks, wire>>

\* reset: a new sink.
Reset ==
  /\ pc = "idle"
  /\ ibuf' = 0 /\ wroteHeader' = FALSE /\ uncomp' = 0 /\ comp' = 0
  /\ index' = <<>> /\ err' = "none"
  /\ accepted' = 0 /\ chunks' = 0 /\ wire' = <<>>
  /\ ret' = "ok" /\ call' = "reset"
  /\ UNCHANGED <<opts, pc, work, rest>>

----------------------------------------------------------------------------
(* Steps *)

Item == Head(work)

\* Fault: the pair is recorded when the block has been written.
IndexAddLate(size) == Append(index, [comp |-> comp + size, uncomp |-> uncomp])

\* emit_block records where the block starts before it is written.
IndexAdd(size) == Append(index, [comp |-> comp, uncomp |-> uncomp])

\* Fault: the total is not counted up.
CountedNever(b) == uncomp

\* uncomp_written
Counted(b) == uncomp + b.n

\* The chunks that may come of the item in hand.
Chunks == CASE Item.t = "data" -> BlockChunks(Item)
            [] Item.t = "eof" -> {Chunk("eof", uncomp, Item.off,
                                        ChunkHeader + UvarintLen(uncomp))}
            [] OTHER -> {Item}

Indexed(size) == IF Item.t = "data" /\ (opts.genIndex \/ opts.appendIndex)
                 THEN index' = IndexAdd(size) ELSE UNCHANGED index

\* write_all_tracked, once or for header and body.  The index was counted
\* beforehand.
Emit ==
  /\ pc = "step"
  /\ work # <<>>
  /\ Item.t \notin {"seal", "sync"}
  /\ \E c \in Chunks :
       /\ wire' = Append(wire, c)
       /\ comp' = IF Item.t = "index" THEN comp ELSE comp + c.size
       /\ Indexed(c.size)
  /\ uncomp' = IF Item.t = "data" THEN Counted(Item) ELSE uncomp
  /\ wroteHeader' = (wroteHeader \/ Item.t = "sid")
  /\ work' = Tail(work)
  /\ UNCHANGED <<opts, ibuf, err, pc, call, rest, ret, accepted, chunks>>

\* What a failed write_all leaves on the sink: nothing, the beginning of a chunk
\* header, or a chunk without its end.
Partial(c) == {wire, Append(wire, Chunk("stub", 0, 0, 0)),
               Append(wire, [c EXCEPT !.bad = "cut"])}

\* Fault: the error is returned and not kept.
KeptForgotten == "none"

\* The error write_all_tracked keeps.
Kept == "io"

\* The part of a chunk that is written, and counted, on its own: the header of a
\* chunk with a body.
FirstWrite == CASE Item.t = "data" -> ChunkHeader + Checksum
                [] Item.t \in {"user", "skip"} -> ChunkHeader
                [] OTHER -> 0

\* The sink fails.
EmitFails ==
  /\ "io" \in Faults
  /\ pc = "step"
  /\ work # <<>>
  /\ Item.t \notin {"seal", "sync"}
  /\ \E c \in Chunks : wire' \in Partial(c) /\ Indexed(c.size)
  /\ comp' \in {comp, comp + FirstWrite}
  /\ err' = Kept
  /\ ret' = "io"
  /\ pc' = IF call \in {"finish", "closeindex"} THEN "ended" ELSE "idle"
  /\ work' = <<>>
  /\ UNCHANGED <<opts, ibuf, wroteHeader, uncomp, call, rest, accepted, chunks>>

\* Fault: the index is not counted before the padding is measured.
SealedUncounted(built) == comp

\* comp_written with the index that is still to be written.
Sealed(built) == comp + built

\* Behind the EOF chunk close_inner encodes the index, finish only if it is to be
\* appended, and measures the padding; the index is written behind the padding.
Seal ==
  /\ pc = "step"
  /\ work # <<>>
  /\ Item.t = "seal"
  /\ \E size \in IndexSizes :
       LET built == IF opts.appendIndex THEN size ELSE 0
           pad == PaddingSize(Sealed(built), opts.padding)
       IN /\ comp' = comp + built
          /\ work' = (IF pad = 0 THEN <<>> ELSE <<Chunk("skip", 0, 0, pad)>>)
                     \o (IF opts.appendIndex THEN <<Chunk("index", uncomp, 0, size)>> ELSE <<>>)
                     \o <<Chunk("sync", 0, 0, 0)>>
  /\ UNCHANGED <<opts, ibuf, wroteHeader, uncomp, index, err, pc, call, rest, ret,
                 accepted, chunks, wire>>

\* Flushing the sink; its error is not kept.
Sync ==
  /\ pc = "step"
  /\ work # <<>>
  /\ Item.t = "sync"
  /\ \/ work' = Tail(work) /\ UNCHANGED <<pc, ret>>
     \/ /\ "io" \in Faults
        /\ work' = <<>>
        /\ ret' = "io"
        /\ pc' = IF call = "flush" THEN "idle" ELSE "ended"
  /\ UNCHANGED <<opts, writerVars, call, rest, accepted, chunks, wire>>

\* The call returns.
Return ==
  /\ pc = "step"
  /\ work = <<>>
  /\ ret' = "ok"
  /\ ibuf' = rest
  /\ pc' = IF call \in {"finish", "closeindex"} THEN "ended" ELSE "idle"
  /\ UNCHANGED <<opts, wroteHeader, uncomp, comp, index, err, call, work, rest,
                 accepted, chunks, wire>>

----------------------------------------------------------------------------
Init ==
  /\ opts \in Options
  /\ ibuf = 0 /\ wroteHeader = FALSE /\ uncomp = 0 /\ comp = 0
  /\ index = <<>> /\ err = "none"
  /\ pc = "idle" /\ call = "none" /\ work = <<>> /\ rest = 0 /\ ret = "ok"
  /\ accepted = 0 /\ chunks = 0 /\ wire = <<>>

Calls == \/ \E n \in 0..MaxBytes : Write(n)
         \/ Flush \/ AddUserChunk \/ Finish \/ CloseIndex \/ CloseIndexRefused \/ Reset
         \/ \E c \in {"write", "finish"} : Refused(c)

Steps == Emit \/ EmitFails \/ Seal \/ Sync \/ Return

Ended == pc = "ended" /\ UNCHANGED vars

Next == Calls \/ Steps \/ Ended

Spec == Init /\ [][Next]_vars
----------------------------------------------------------------------------
(* What makes the Writer correct. *)

ChunkRec == [t : {"sid", "data", "comp", "raw", "user", "eof", "seal", "skip", "index",
                  "sync", "stub"},
             n : Nat, bad : {"no", "cut"}, off : Nat, size : Nat]
CallNames == {"none", "write", "flush", "chunk", "finish", "closeindex", "reset"}

\* Every variable has its type; ibuf is never left full.
TypeOK ==
  /\ opts \in Options
  /\ ibuf \in 0..(BlockSize - 1) /\ rest \in 0..(BlockSize - 1)
  /\ wroteHeader \in BOOLEAN /\ uncomp \in Nat /\ comp \in Nat
  /\ index \in Seq([comp : Nat, uncomp : Nat]) /\ err \in {"none", "io"}
  /\ pc \in {"idle", "step", "ended"} /\ call \in CallNames
  /\ work \in Seq(ChunkRec) /\ wire \in Seq(ChunkRec)
  /\ ret \in {"ok", "io", "invalid"} /\ accepted \in 0..MaxBytes /\ chunks \in 0..MaxChunks

\* A Reader with default options.
Reader == INSTANCE ReaderChunks WITH
            MaxBlockUser <- MaxBlockSize, IgnoreCrc <- FALSE, IgnoreStreamId <- FALSE

IsBlock(c) == c.t \in {"comp", "raw"} /\ c.bad = "no"

\* What the chunks of a stream come to: their size, where the blocks start, in the
\* stream and in the data, and the bytes a Reader returns, by their place in what was
\* written.
Tally(stream) ==
  LET upto[k \in 0..Len(stream)] ==
        IF k = 0 THEN [size |-> 0, starts |-> <<>>, bytes |-> <<>>]
        ELSE LET p == upto[k - 1]
                 c == stream[k]
             IN [size |-> p.size + c.size,
                 starts |-> IF IsBlock(c)
                            THEN Append(p.starts, [comp |-> p.size, uncomp |-> c.off])
                            ELSE p.starts,
                 bytes |-> IF Reader!Yields(stream, k)
                           THEN p.bytes \o [j \in 1..c.n |-> c.off + j] ELSE p.bytes]
  IN upto[Len(stream)]

ReadBack == Tally(wire).bytes

Complete == pc = "ended" /\ ret = "ok"

\* What a finished Writer has written, a Reader accepts and returns: every byte,
\* in order, whatever the calls, the block boundaries and the options.
RoundTrip == Complete => /\ Reader!SeqResult(wire) = "none"
                         /\ ReadBack = [i \in 1..accepted |-> i]

\* Whenever the Writer is dropped or its sink fails, what is on the sink is the
\* beginning of the data, and a Reader does not take it for all of it unless it
\* is: without an EOF chunk it reports the stream as corrupt.
TruncationDetected ==
  /\ ReadBack = [i \in 1..Len(ReadBack) |-> i]
  /\ wire # <<>> /\ (\A k \in 1..Len(wire) : wire[k].t # "eof" \/ wire[k].bad # "no")
       => Reader!SeqResult(wire) = "corrupt"

\* With padding the stream, the index behind the padding included, ends on a
\* multiple, and the padding chunk has room for its header.  The check that would
\* leave the padding out "should never happen", and does not.
PaddingAligned ==
  /\ Complete /\ opts.padding > 1 => Tally(wire).size % opts.padding = 0
  /\ \A k \in 1..Len(wire) : wire[k].t = "skip" => wire[k].size >= ChunkHeader

\* The index is given the place of every block, in bytes on the sink and in the
\* data, in order; of a block that failed to be written at most one.
IndexExact ==
  LET given == Tally(wire).starts
  IN opts.genIndex \/ opts.appendIndex =>
       /\ Len(index) \in {Len(given), Len(given) + IF err = "none" THEN 0 ELSE 1}
       /\ SubSeq(index, 1, Len(given)) = given
=============================================================================
