------------------------------ MODULE MtReader ------------------------------
(* Concurrent decoding, crates/minlz/src/stream/mt_reader.rs.                *)
(*                                                                           *)
(* The dispatcher (the caller's thread) reads the chunks.  Metadata and      *)
(* uncompressed chunks it handles itself, compressed ones go to N workers;   *)
(* a slot for each data chunk goes through the bounded order queue to the    *)
(* writer thread, which drains the slots in order into the sink.             *)
(*                                                                           *)
(* As in MtWriter a result channel is named by the position of its slot in   *)
(* the submission order.                                                     *)
EXTENDS ReaderChunks, FiniteSets

CONSTANTS N,         \* threads
          Streams,   \* the streams to decode
          Faults,    \* the faults that may happen
          Flaky      \* and the inputs on which they may

ASSUME NAssumption == N \in Nat \ {0}
ASSUME StreamsAssumption == Streams \subseteq Input
ASSUME FaultAssumption == Faults \subseteq {"io", "workerPanic", "sinkPanic"}
ASSUME FlakyAssumption == Flaky \subseteq Streams

VARIABLES
  stream, pos,        \* the input and how many chunks of it have been read
  \* the dispatcher
  pc, hand,           \* where it is, and the data chunk in hand
  next, cur, tried,   \* next_worker, the channel at hand, channels found full
  header, expectEof, maxBlock,   \* the Reader's fields it works on
  emitted,            \* uncomp_emitted
  dres,               \* dispatch_res
  sent,               \* data chunks in submission order
  \* channels, the error slot and the pools
  order, orderOpen, slot, submitOpen, results, err, compPool, decPool,
  \* workers
  wst, busy,
  \* the writer thread and the sink
  wr, held, out, written, fin,
  ret                 \* what decode_concurrent_into returned

dispVars == <<pc, hand, next, cur, tried, header, expectEof, maxBlock, emitted, dres>>
sinkVars == <<wr, held, out, written, fin>>
vars == <<stream, pos, dispVars, sent, order, orderOpen, slot, submitOpen, results,
          err, compPool, decPool, wst, busy, sinkVars, ret>>

Workers == 0..(N - 1)
MayFail(f) == f \in Faults /\ stream \in Flaky
OrderCap == N + 1
PoolCap == N + 1
Acquire(p) == IF p > 0 THEN p - 1 ELSE 0

Release(p) == IF p < PoolCap THEN p + 1 ELSE p

\* A DecodeJob, or the uncompressed block the dispatcher answers for itself.
\* id is the position of the chunk in the stream and identifies its payload.
Job == [ch : Nat, id : Nat, len : Nat, max : Nat, bad : Defects, raw : BOOLEAN]
NoJob == [ch |-> 0, id |-> 0, len |-> 0, max |-> 0, bad |-> "no", raw |-> FALSE]

ErrorKinds == {"corrupt", "toolarge", "unsupported", "crc", "callback", "io",
               "lost", "closed", "exited", "pool"}

\* A DecodeOutput in its result channel: the block, or the error.
Output == [ch : Nat, id : Nat, len : Nat, e : ErrorKinds \cup {"none"}]

----------------------------------------------------------------------------
(* dispatch_loop *)

\* Leave dispatch_loop with result e; decode_concurrent_into closes the channels.
Leave(e) == dres' = e /\ pc' = "close"

Chunk == stream[pos + 1]

\* The dispatcher reads a chunk: it looks at the error slot first.
AtChunk == pc = "loop" /\ err = "none" /\ pos < Len(stream)

\* The stream-identifier gate in front of the chunk.
Gated == ~header /\ NeedsHeader(Chunk)

\* The error slot is set.
DispatchSeesError ==
  /\ pc = "loop"
  /\ err # "none"
  /\ Leave(err)
  /\ UNCHANGED <<stream, pos, hand, next, cur, tried, header, expectEof, maxBlock,
                 emitted, sent, order, orderOpen, slot, submitOpen, results, err,
                 compPool, decPool, wst, busy, sinkVars, ret>>

\* End of input where a header is expected.
DispatchEnd ==
  /\ pc = "loop"
  /\ err = "none"
  /\ pos = Len(stream)
  /\ Leave(IF expectEof THEN "corrupt" ELSE "none")
  /\ UNCHANGED <<stream, pos, hand, next, cur, tried, header, expectEof, maxBlock,
                 emitted, sent, order, orderOpen, slot, submitOpen, results, err,
                 compPool, decPool, wst, busy, sinkVars, ret>>

\* What the dispatcher itself refuses in a chunk, "none" if nothing.  A data
\* chunk without room for its checksum falls through to the reserved ones.
Refusal ==
  IF Gated THEN "corrupt"
  ELSE IF NeedsHeader(Chunk) /\ (Chunk.t = "reserved" \/ Chunk.bad = "short")
       THEN "unsupported"
  ELSE IF Chunk.t = "comp" THEN
         IF Chunk.bad \in {"long", "cut", "dlen"} \/ Chunk.n = 0 THEN "corrupt" ELSE "none"
  ELSE IF Chunk.t = "raw" THEN
         IF Chunk.bad = "long" THEN "corrupt"
         ELSE IF Chunk.n > maxBlock THEN "toolarge"
         ELSE IF Chunk.bad = "cut" THEN "corrupt"
         ELSE IF Chunk.bad = "crc" /\ ~IgnoreCrc THEN "crc" ELSE "none"
  ELSE IF Chunk.t \in {"eof", "eof0"} THEN
         IF \/ Chunk.bad = "cut"
            \/ Chunk.t = "eof" /\ ~IgnoreStreamId /\ Chunk.n # emitted
         THEN "corrupt" ELSE "none"
  ELSE IF Chunk.t = "sid" THEN
         IF Chunk.bad = "cut" THEN "corrupt"
         ELSE IF Chunk.bad = "magic" THEN "unsupported"
         ELSE IF Chunk.n > MaxBlockUser THEN "toolarge" ELSE "none"
  ELSE IF Chunk.t \in {"noskip", "stub"} \/ Chunk.bad = "cut" THEN "corrupt"
  ELSE IF Chunk.bad = "cb" THEN "callback" ELSE "none"

\* The buffer of a data chunk whose body cannot be read, or holds no length, has
\* been taken from its pool and is dropped.
DropsBuffer(t) == /\ ~Gated
                  /\ Chunk.t = t
                  /\ Chunk.bad = "cut" \/ (t = "comp" /\ (Chunk.bad = "dlen" \/ Chunk.n = 0))
                  /\ t = "raw" => Chunk.n <= maxBlock

\* An early return on the chunk.  An uncompressed block with a wrong checksum
\* goes back to its pool.
DispatchRefuses ==
  /\ AtChunk
  /\ Refusal # "none"
  /\ Leave(Refusal)
  /\ pos' = pos + 1
  /\ header' = (header \/ Chunk.t = "sid")
  /\ compPool' = IF DropsBuffer("comp") THEN Acquire(compPool) ELSE compPool
  /\ decPool' = IF DropsBuffer("raw") THEN Acquire(decPool)
                ELSE IF Refusal = "crc" THEN Release(Acquire(decPool)) ELSE decPool
  /\ UNCHANGED <<stream, hand, next, cur, tried, expectEof, maxBlock, emitted, sent,
                 order, orderOpen, slot, submitOpen, results, err, wst, busy,
                 sinkVars, ret>>

\* Reading the input fails, in a chunk header or in a body.
DispatchReadFails ==
  /\ MayFail("io")
  /\ pc = "loop"
  /\ err = "none"
  /\ Leave("io")
  /\ \/ UNCHANGED <<compPool, decPool>>
     \/ AtChunk /\ Chunk.t = "comp" /\ ~Gated
        /\ compPool' = Acquire(compPool) /\ UNCHANGED decPool
     \/ AtChunk /\ Chunk.t = "raw" /\ ~Gated
        /\ decPool' = Acquire(decPool) /\ UNCHANGED compPool
  /\ UNCHANGED <<stream, pos, hand, next, cur, tried, header, expectEof, maxBlock,
                 emitted, sent, order, orderOpen, slot, submitOpen, results, err,
                 wst, busy, sinkVars, ret>>

\* Fault: a stream identifier does not restart the count.
EmittedAfterKept == emitted

\* A stream identifier restarts the count of a concatenated stream.
EmittedAfter == IF Chunk.t = "sid" THEN 0 ELSE emitted

\* Metadata handled inline.
DispatchMeta ==
  /\ AtChunk
  /\ Refusal = "none"
  /\ Chunk.t \notin {"comp", "raw"}
  /\ pos' = pos + 1
  /\ header' = IF Chunk.t = "sid" THEN TRUE
               ELSE IF Chunk.t \in {"eof", "eof0"} THEN FALSE ELSE header
  /\ expectEof' = IF Chunk.t = "sid" THEN TRUE
                  ELSE IF Chunk.t \in {"eof", "eof0"} THEN FALSE ELSE expectEof
  /\ maxBlock' = IF Chunk.t = "sid" THEN Chunk.n ELSE maxBlock
  /\ emitted' = EmittedAfter
  /\ UNCHANGED <<stream, pc, hand, next, cur, tried, dres, sent, order, orderOpen,
                 slot, submitOpen, results, err, compPool, decPool, wst, busy,
                 sinkVars, ret>>

\* A data chunk is read into a pooled buffer and counted.
DispatchData ==
  /\ AtChunk
  /\ Refusal = "none"
  /\ Chunk.t \in {"comp", "raw"}
  /\ pos' = pos + 1
  /\ hand' = [ch |-> 0, id |-> pos + 1, len |-> Chunk.n, max |-> maxBlock,
              bad |-> Chunk.bad, raw |-> Chunk.t = "raw"]
  /\ emitted' = emitted + Chunk.n
  /\ IF Chunk.t = "raw"
     THEN decPool' = Acquire(decPool) /\ UNCHANGED compPool
     ELSE compPool' = Acquire(compPool) /\ UNCHANGED decPool
  /\ pc' = "order"
  /\ UNCHANGED <<stream, next, cur, tried, header, expectEof, maxBlock, dres, sent,
                 order, orderOpen, slot, submitOpen, results, err, wst, busy,
                 sinkVars, ret>>

\* Fault: the queue takes one slot more.
OrderHasRoomOffByOne == Len(order) <= OrderCap

OrderHasRoom == Len(order) < OrderCap

\* order_tx.send
SendOrder ==
  /\ pc = "order"
  /\ wr # "gone"
  /\ OrderHasRoom
  /\ order' = Append(order, Len(sent) + 1)
  /\ sent' = Append(sent, [id |-> hand.id, len |-> hand.len])
  /\ hand' = [hand EXCEPT !.ch = Len(sent) + 1]
  /\ IF hand.raw
     THEN pc' = "fill" /\ UNCHANGED <<cur, next, tried>>
     ELSE /\ pc' = "try"
          /\ cur' = next
          /\ next' = (next + 1) % N
          /\ tried' = 0
  /\ UNCHANGED <<stream, pos, header, expectEof, maxBlock, emitted, dres, orderOpen,
                 slot, submitOpen, results, err, compPool, decPool, wst, busy,
                 sinkVars, ret>>

\* The writer thread is gone: the buffer is released and the error says so,
\* whatever the error slot holds by now.
SendOrderFails ==
  /\ pc = "order"
  /\ wr = "gone"
  /\ Leave("closed")
  /\ hand' = NoJob
  /\ IF hand.raw
     THEN decPool' = Release(decPool) /\ UNCHANGED compPool
     ELSE compPool' = Release(compPool) /\ UNCHANGED decPool
  /\ UNCHANGED <<stream, pos, next, cur, tried, header, expectEof, maxBlock, emitted,
                 sent, order, orderOpen, slot, submitOpen, results, err, wst, busy,
                 sinkVars, ret>>

\* The receiver of result channel c still exists.
Listening(c) == /\ wr # "gone"
                /\ \/ \E i \in 1..Len(order) : order[i] = c
                   \/ wr = "have" /\ held = c

Answer(j, e) == IF Listening(j.ch)
                THEN results \cup {[ch |-> j.ch, id |-> j.id, len |-> j.len, e |-> e]}
                ELSE results

\* The dispatcher answers for an uncompressed block itself.
Fill ==
  /\ pc = "fill"
  /\ results' = Answer(hand, "none")
  /\ hand' = NoJob
  /\ pc' = "loop"
  /\ UNCHANGED <<stream, pos, next, cur, tried, header, expectEof, maxBlock, emitted,
                 dres, sent, order, orderOpen, slot, submitOpen, err, compPool,
                 decPool, wst, busy, sinkVars, ret>>

\* try_send, or send after waiting.
SubmitJob ==
  /\ pc \in {"try", "blocked"}
  /\ wst[cur] # "gone"
  /\ slot[cur] = NoJob
  /\ slot' = [slot EXCEPT ![cur] = hand]
  /\ hand' = NoJob
  /\ pc' = "loop"
  /\ UNCHANGED <<stream, pos, next, cur, tried, header, expectEof, maxBlock, emitted,
                 dres, sent, order, orderOpen, submitOpen, results, err, compPool,
                 decPool, wst, busy, sinkVars, ret>>

\* try_send returns Full: the next worker, or wait for this one after a round.
SubmitFull ==
  /\ pc = "try"
  /\ wst[cur] # "gone"
  /\ slot[cur] # NoJob
  /\ tried' = tried + 1
  /\ IF tried + 1 >= N
     THEN pc' = "blocked" /\ UNCHANGED <<cur, next>>
     ELSE cur' = next /\ next' = (next + 1) % N /\ UNCHANGED pc
  /\ UNCHANGED <<stream, pos, hand, header, expectEof, maxBlock, emitted, dres, sent,
                 order, orderOpen, slot, submitOpen, results, err, compPool, decPool,
                 wst, busy, sinkVars, ret>>

\* The worker is gone; the job is dropped.
SubmitFails ==
  /\ pc \in {"try", "blocked"}
  /\ wst[cur] = "gone"
  /\ hand' = NoJob
  /\ Leave("pool")
  /\ UNCHANGED <<stream, pos, next, cur, tried, header, expectEof, maxBlock, emitted,
                 sent, order, orderOpen, slot, submitOpen, results, err, compPool,
                 decPool, wst, busy, sinkVars, ret>>

----------------------------------------------------------------------------
(* decode_concurrent_into after dispatch_loop *)

CloseChannels ==
  /\ pc = "close"
  /\ submitOpen' = FALSE
  /\ orderOpen' = FALSE
  /\ pc' = "join"
  /\ UNCHANGED <<stream, pos, hand, next, cur, tried, header, expectEof, maxBlock,
                 emitted, dres, sent, order, slot, results, err, compPool, decPool,
                 wst, busy, sinkVars, ret>>

\* Fault: the pipeline's result is not looked at.
FinalResultIgnoresPipeline == IF dres # "none" THEN dres ELSE "ok"

\* The dispatcher's error takes precedence over the pipeline's.
FinalResult == IF dres # "none" THEN dres
               ELSE IF fin = "ok" THEN "ok"
               ELSE IF fin = "none" THEN "exited" ELSE fin

Join ==
  /\ pc = "join"
  /\ \A w \in Workers : wst[w] = "gone"
  /\ wr = "gone"
  /\ pc' = "ended"
  /\ ret' = FinalResult
  /\ UNCHANGED <<stream, pos, hand, next, cur, tried, header, expectEof, maxBlock,
                 emitted, dres, sent, order, orderOpen, slot, submitOpen, results,
                 err, compPool, decPool, wst, busy, sinkVars>>

----------------------------------------------------------------------------
(* worker_loop *)

WorkerTake(w) ==
  /\ wst[w] = "idle"
  /\ slot[w] # NoJob
  /\ busy' = [busy EXCEPT ![w] = slot[w]]
  /\ slot' = [slot EXCEPT ![w] = NoJob]
  /\ wst' = [wst EXCEPT ![w] = "busy"]
  /\ decPool' = Acquire(decPool)
  /\ UNCHANGED <<stream, pos, dispVars, sent, order, orderOpen, submitOpen, results,
                 err, compPool, sinkVars, ret>>

\* Fault: the worker does not compare the checksum.
DecodedUnchecked(j) == IF j.len > j.max THEN "toolarge"
                       ELSE IF j.bad = "body" THEN "corrupt" ELSE "none"

\* What decoding the job yields.
Decoded(j) == IF j.len > j.max THEN "toolarge"
              ELSE IF j.bad = "body" THEN "corrupt"
              ELSE IF j.bad = "crc" /\ ~IgnoreCrc THEN "crc" ELSE "none"

\* The compressed buffer goes back; the decoded one too unless it is the result.
WorkerFinish(w) ==
  /\ wst[w] = "busy"
  /\ results' = Answer(busy[w], Decoded(busy[w]))
  /\ compPool' = Release(compPool)
  /\ decPool' = IF Decoded(busy[w]) = "none" THEN decPool ELSE Release(decPool)
  /\ busy' = [busy EXCEPT ![w] = NoJob]
  /\ wst' = [wst EXCEPT ![w] = "idle"]
  /\ UNCHANGED <<stream, pos, dispVars, sent, order, orderOpen, slot, submitOpen, err,
                 sinkVars, ret>>

\* The decoder panics: the job is dropped, then the submit channel.
WorkerPanic(w) ==
  /\ MayFail("workerPanic")
  /\ wst[w] = "busy"
  /\ busy' = [busy EXCEPT ![w] = NoJob]
  /\ wst' = [wst EXCEPT ![w] = "unwind"]
  /\ UNCHANGED <<stream, pos, dispVars, sent, order, orderOpen, slot, submitOpen,
                 results, err, compPool, decPool, sinkVars, ret>>

WorkerUnwound(w) ==
  /\ wst[w] = "unwind"
  /\ slot' = [slot EXCEPT ![w] = NoJob]
  /\ wst' = [wst EXCEPT ![w] = "gone"]
  /\ UNCHANGED <<stream, pos, dispVars, sent, order, orderOpen, submitOpen, results,
                 err, compPool, decPool, busy, sinkVars, ret>>

WorkerExit(w) ==
  /\ wst[w] = "idle"
  /\ ~submitOpen
  /\ slot[w] = NoJob
  /\ wst' = [wst EXCEPT ![w] = "gone"]
  /\ UNCHANGED <<stream, pos, dispVars, sent, order, orderOpen, slot, submitOpen,
                 results, err, compPool, decPool, busy, sinkVars, ret>>

----------------------------------------------------------------------------
(* writer_loop *)

WriterTake ==
  /\ wr = "recv"
  /\ order # <<>>
  /\ held' = Head(order)
  /\ order' = Tail(order)
  /\ wr' = "have"
  /\ UNCHANGED <<stream, pos, dispVars, sent, orderOpen, slot, submitOpen, results,
                 err, compPool, decPool, wst, busy, out, written, fin, ret>>

\* Fault: one result channel for all blocks.
AnswersAny(r) == wr = "have" /\ r \in results

Answers(r) == wr = "have" /\ r \in results /\ r.ch = held

\* write_all succeeds; the decoded buffer is released.
WriteBlock(r) ==
  /\ Answers(r)
  /\ r.e = "none"
  /\ out' = Append(out, [id |-> r.id, len |-> r.len])
  /\ written' = written + r.len
  /\ decPool' = Release(decPool)
  /\ results' = results \ {r}
  /\ wr' = "recv"
  /\ UNCHANGED <<stream, pos, dispVars, sent, order, orderOpen, slot, submitOpen, err,
                 compPool, wst, busy, held, fin, ret>>

\* record: the first error wins.  The thread is about to leave with e.
Record(e) == /\ err' = IF err = "none" THEN e ELSE err
             /\ wr' = "failing"
             /\ fin' = e

\* write_all fails; the bytes are counted and the buffer released all the same.
WriteFails(r) ==
  /\ MayFail("io")
  /\ Answers(r)
  /\ r.e = "none"
  /\ Record("io")
  /\ written' = written + r.len
  /\ decPool' = Release(decPool)
  /\ results' = results \ {r}
  /\ UNCHANGED <<stream, pos, dispVars, sent, order, orderOpen, slot, submitOpen,
                 compPool, wst, busy, held, out, ret>>

\* The block could not be decoded.
WriteDecodeError(r) ==
  /\ Answers(r)
  /\ r.e # "none"
  /\ Record(r.e)
  /\ results' = results \ {r}
  /\ UNCHANGED <<stream, pos, dispVars, sent, order, orderOpen, slot, submitOpen,
                 compPool, decPool, wst, busy, held, out, written, ret>>

Answerable(c) == \/ hand.ch = c
                 \/ \E w \in Workers : slot[w].ch = c \/ busy[w].ch = c
                 \/ \E r \in results : r.ch = c

\* Fault: a disconnected result channel is polled again.
GiveUpRetries == UNCHANGED <<err, wr, fin>>

\* The worker exited without producing output.
GiveUp == Record("lost")

WorkerLost ==
  /\ wr = "have"
  /\ ~Answerable(held)
  /\ GiveUp
  /\ UNCHANGED <<stream, pos, dispVars, sent, order, orderOpen, slot, submitOpen,
                 results, compPool, decPool, wst, busy, held, out, written, ret>>

\* The order queue is closed and drained: the sink is flushed and handed back.
WriterEnd ==
  /\ wr = "recv"
  /\ order = <<>>
  /\ ~orderOpen
  /\ \/ /\ fin' = "ok"
        /\ wr' = "gone"
        /\ UNCHANGED err
     \/ MayFail("io") /\ Record("io")
  /\ UNCHANGED <<stream, pos, dispVars, sent, order, orderOpen, slot, submitOpen,
                 results, compPool, decPool, wst, busy, held, out, written, ret>>

\* The thread ends and its receivers go, with the results in them.
DropReceivers == wr' = "gone" /\ order' = <<>> /\ results' = {}

WriterExit ==
  /\ wr = "failing"
  /\ DropReceivers
  /\ UNCHANGED <<stream, pos, dispVars, sent, orderOpen, slot, submitOpen, err,
                 compPool, decPool, wst, busy, held, out, written, fin, ret>>

\* The sink panics in write_all or in the final flush: nothing is recorded and
\* nothing sent.
WriterPanic ==
  /\ MayFail("sinkPanic")
  /\ \/ \E r \in results : Answers(r) /\ r.e = "none"
     \/ wr = "recv" /\ order = <<>> /\ ~orderOpen
  /\ DropReceivers
  /\ UNCHANGED <<stream, pos, dispVars, sent, orderOpen, slot, submitOpen, err,
                 compPool, decPool, wst, busy, held, out, written, fin, ret>>

----------------------------------------------------------------------------
Init ==
  /\ stream \in Streams /\ pos = 0
  /\ pc = "loop" /\ hand = NoJob /\ next = 0 /\ cur = 0 /\ tried = 0
  /\ header = IgnoreStreamId /\ expectEof = FALSE /\ maxBlock = MaxBlockUser
  /\ emitted = 0 /\ dres = "none" /\ sent = <<>>
  /\ order = <<>> /\ orderOpen = TRUE
  /\ slot = [w \in Workers |-> NoJob] /\ submitOpen = TRUE
  /\ results = {} /\ err = "none" /\ compPool = 0 /\ decPool = 0
  /\ wst = [w \in Workers |-> "idle"] /\ busy = [w \in Workers |-> NoJob]
  /\ wr = "recv" /\ held = 0 /\ out = <<>> /\ written = 0 /\ fin = "none"
  /\ ret = "open"

DispatcherStep == \/ DispatchSeesError \/ DispatchEnd \/ DispatchRefuses \/ DispatchReadFails
                  \/ DispatchMeta \/ DispatchData
                  \/ SendOrder \/ SendOrderFails \/ Fill
                  \/ SubmitJob \/ SubmitFull \/ SubmitFails
                  \/ CloseChannels \/ Join

WorkerStep(w) == WorkerTake(w) \/ WorkerFinish(w) \/ WorkerUnwound(w) \/ WorkerExit(w)

WriterStep == \/ WriterTake
              \/ \E r \in results : WriteBlock(r) \/ WriteFails(r) \/ WriteDecodeError(r)
              \/ WorkerLost \/ WriterEnd \/ WriterExit

Panic == WriterPanic \/ \E w \in Workers : WorkerPanic(w)

Terminated == pc = "ended" /\ UNCHANGED vars

Next == \/ DispatcherStep \/ WriterStep \/ Panic \/ Terminated
        \/ \E w \in Workers : WorkerStep(w)

Spec == Init /\ [][Next]_vars

\* Every thread keeps running while it can; reads, decodes and writes return.
Fairness == /\ WF_vars(DispatcherStep)
            /\ WF_vars(WriterStep)
            /\ \A w \in Workers : WF_vars(WorkerStep(w))

FairSpec == Spec /\ Fairness

----------------------------------------------------------------------------
(* What makes the decoder correct. *)

Item == [id : Nat, len : Nat]

DispatcherTypeOK ==
  /\ stream \in Streams /\ pos \in 0..Len(stream)
  /\ pc \in {"loop", "order", "fill", "try", "blocked", "close", "join", "ended"}
  /\ hand \in Job /\ cur \in Workers /\ next \in Workers /\ tried \in Nat
  /\ header \in BOOLEAN /\ expectEof \in BOOLEAN /\ maxBlock \in Nat
  /\ emitted \in Nat /\ dres \in ErrorKinds \cup {"none"}
  /\ ret \in ErrorKinds \cup {"open", "ok"}

ChannelTypeOK ==
  /\ sent \in Seq(Item)
  /\ order \in Seq(Nat) /\ Len(order) <= OrderCap
  /\ orderOpen \in BOOLEAN /\ submitOpen \in BOOLEAN
  /\ results \in SUBSET Output /\ err \in ErrorKinds \cup {"none"}
  /\ compPool \in 0..PoolCap /\ decPool \in 0..PoolCap

ThreadTypeOK ==
  /\ slot \in [Workers -> Job] /\ busy \in [Workers -> Job]
  /\ wst \in [Workers -> {"idle", "busy", "unwind", "gone"}]
  /\ wr \in {"recv", "have", "failing", "gone"} /\ held \in Nat
  /\ out \in Seq(Item) /\ written \in Nat
  /\ fin \in ErrorKinds \cup {"none", "ok"}

\* Every variable has its type; the channels hold at most their capacity.
TypeOK == DispatcherTypeOK /\ ChannelTypeOK /\ ThreadTypeOK

IsPrefixOf(s, t) == Len(s) <= Len(t) /\ \A i \in 1..Len(s) : s[i] = t[i]

\* The chunks the dispatcher has read.
ReadSoFar == SubSeq(stream, 1, pos)

\* The sink never holds anything a single-threaded Reader would not have
\* returned from the same chunks: though the dispatcher reads ahead and dispatches
\* blocks behind a broken one, none of them is written.
SinkPrefix == IsPrefixOf(out, SeqOutput(ReadSoFar))

\* A successful concurrent decode is the single-threaded decode: the same
\* blocks in the same order, from a stream the Reader accepts, and the byte
\* count returned is theirs.
MatchesSequential ==
  ret = "ok" =>
    /\ SeqResult(stream) = "none"
    /\ out = SeqOutput(stream)
    /\ written = Bytes(out)

\* The Reader meets an error in the chunks read so far, or at the end of the input.
ReaderRefuses == \/ RunUpTo(ReadSoFar)[pos].err # "none"
                 \/ pos = Len(stream) /\ SeqResult(stream) # "none"

\* Without faults decoding fails only on a stream the Reader refuses, and not
\* before the chunk on which it does.
NoSpuriousError ==
  stream \notin Flaky /\ pc = "ended" /\ ret # "ok" => ReaderRefuses

LiveComp == (IF pc \in {"order", "try", "blocked"} /\ ~hand.raw THEN 1 ELSE 0)
            + Cardinality({w \in Workers : slot[w] # NoJob})
            + Cardinality({w \in Workers : busy[w] # NoJob})

LiveDec == (IF pc \in {"order", "fill"} /\ hand.raw THEN 1 ELSE 0)
           + Cardinality({w \in Workers : busy[w] # NoJob})
           + Cardinality({r \in results : r.e = "none"})

\* Memory is bounded: with the recycled ones there are never more than N + 3
\* compressed and N + 3 decoded buffers.
BuffersBounded == compPool + LiveComp <= N + 3 /\ decPool + LiveDec <= N + 3

\* decode_concurrent returns, whatever the stream holds and whatever fails.
DecodeReturns == <>(pc = "ended")

\* The session as the caller sees it.
SinkResult == IF ret = "open" THEN "open" ELSE IF ret = "ok" THEN "ok" ELSE "err"

Sink == INSTANCE OrderedSink WITH
          accepted <- sent, delivered <- out, result <- SinkResult

\* Refinement: each step is a step of OrderedSink or none.
KeepsOrderedSink == Sink!Spec

\* "assert_eq!(err.kind(), InvalidData)" of the test that flips a byte in a
\* block: a stream whose only defect is a checksum is refused with that error.
CrcErrorSurfaces ==
  pc = "ended" /\ SeqResult(stream) = "crc" => ret = "crc"
=============================================================================
