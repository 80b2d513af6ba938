------------------------------ MODULE MtWriter ------------------------------
(* The multi-threaded stream writer, crates/minlz/src/stream/mt_writer.rs.   *)
(*                                                                           *)
(* The caller's thread cuts the input into blocks.  For each block it puts a *)
(* slot into the bounded order queue and hands a job to one of N workers     *)
(* through that worker's capacity-1 submit channel; the slot and the job     *)
(* share a fresh one-shot result channel.  The writer thread drains the      *)
(* order queue, waits on each slot's result channel and writes to the sink.  *)
(*                                                                           *)
(* A result channel is identified by the position its slot has in the        *)
(* submission order.  Its sender lives in the job, so the channel is         *)
(* disconnected once no job and no result carries its number.                *)
(*                                                                           *)
(* Bytes are abstracted to their offsets in the data the caller passed in,   *)
(* and the compressed offset of a chunk to the number of chunks before it    *)
(* (every chunk is at least a header long, so the two order chunks alike).   *)
EXTENDS Naturals, Sequences, FiniteSets

CONSTANTS N,            \* concurrency: number of worker threads
          BlockSize,    \* block_size
          MaxBytes,     \* bound on the bytes the caller passes in
          MaxChunks,    \* bound on the user chunks the caller adds
          GenIndex,     \* generate_index
          AppendIndex,  \* append_index
          Padding,      \* padding > 1
          Faults        \* the faults that may happen

AllFaults == {"io", "encode", "workerPanic", "sinkPanic"}

ASSUME NAssumption == N \in Nat \ {0}
ASSUME BlockSizeAssumption == BlockSize \in Nat \ {0}
ASSUME BoundAssumption == MaxBytes \in Nat /\ MaxChunks \in Nat
ASSUME OptionAssumption ==
  /\ GenIndex \in BOOLEAN /\ AppendIndex \in BOOLEAN /\ Padding \in BOOLEAN
  /\ AppendIndex => GenIndex
ASSUME FaultAssumption == Faults \subseteq AllFaults

VARIABLES
  \* the caller's thread
  pc,           \* where it is
  call,         \* the operation in progress
  work,         \* the chunks this call has still to submit
  job,          \* the job in hand, not yet accepted by a worker
  cur,          \* the submit channel tried next
  tried,        \* channels found full for this job
  next,         \* next_worker
  ibuf,         \* bytes in ibuf
  wroteHeader,  \* wrote_header
  uncomp,       \* uncomp_written of the caller
  ret,          \* what finish returned
  \* what the caller did, seen from outside
  accepted,     \* bytes passed in
  chunks,       \* user chunks passed in
  sent,         \* chunks in submission order
  failed,       \* some call returned an error
  unexplained,  \* some error was "pipeline closed unexpectedly"
  \* channels, the error slot and the pools
  order,        \* the order queue
  orderOpen,    \* order_tx not dropped
  slot,         \* one job per submit channel
  submitOpen,   \* submit_txs not cleared
  results,      \* worker outputs waiting in their result channels
  err,          \* the shared error slot
  inPool, outPool,   \* recycled buffers in input_pool and obuf_pool
  \* workers
  wst,          \* "idle", "busy", "unwind" or "gone"
  busy,         \* the job being encoded
  \* the writer thread and the sink
  wr,           \* "recv", "have", "failing" or "gone"
  held,         \* the order item taken from the queue
  out,          \* chunks on the sink, without the trailer
  trailer,      \* padding and index chunks after them
  uncompW,      \* uncomp_written of writer_loop
  index,        \* the offset pairs passed to idx.add
  fin           \* what was sent on finish_tx

callerVars == <<pc, call, work, job, cur, tried, next, ibuf, wroteHeader,
                uncomp, ret>>
ghostVars  == <<accepted, chunks, sent, failed, unexplained>>
writerVars == <<wr, held, out, trailer, uncompW, index, fin>>
vars == <<callerVars, ghostVars, order, orderOpen, slot, submitOpen, results,
          err, inPool, outPool, wst, busy, writerVars>>

Workers == 0..(N - 1)

----------------------------------------------------------------------------
(* Values. *)

Kinds == {"header", "block", "chunk", "eof"}

\* A chunk of the stream, which belongs at offset off of the input.  For a
\* block len is its length, for the EOF chunk the total it declares and for a
\* user chunk its number.
Chunk == [kind : Kinds, off : Nat, len : Nat]

\* An OrderItem: for a block n is its result channel, otherwise the chunk's len.
OrderItem == [kind : Kinds, off : Nat, n : Nat]

\* A BlockJob: ch is the result channel it answers on.
Job == [ch : Nat, off : Nat, len : Nat]
NoJob == [ch |-> 0, off |-> 0, len |-> 0]

\* A WorkerOutput in its result channel.
Output == [ch : Nat, off : Nat, len : Nat, as : {"comp", "raw", "err"}]

Header == [kind |-> "header", off |-> 0, len |-> 0]
Eof == [kind |-> "eof", off |-> accepted, len |-> 0]
UserChunk == [kind |-> "chunk", off |-> accepted, len |-> chunks + 1]
NoItem == [kind |-> "header", off |-> 0, n |-> 0]
BlockSlot(c) == [kind |-> "block", off |-> 0, n |-> c]

\* write_blocks: n bytes from offset o on, cut at the block size.
Blocks(o, n) ==
  [i \in 1..((n + BlockSize - 1) \div BlockSize) |->
     LET at == (i - 1) * BlockSize
     IN [kind |-> "block", off |-> o + at,
         len |-> IF n - at < BlockSize THEN n - at ELSE BlockSize]]

\* ensure_header
WithHeader(s) == IF wroteHeader THEN s ELSE <<Header>> \o s

\* The bytes waiting in ibuf, as flush_ibuf submits them.
Buffered == Blocks(accepted - ibuf, ibuf)

\* BufferPool::acquire and BufferPool::release, as counts.
PoolCap == N + 1
Acquire(p) == IF p > 0 THEN p - 1 ELSE 0
Release(p) == IF p < PoolCap THEN p + 1 ELSE p

OrderCap == N + 1

----------------------------------------------------------------------------
(* The caller: the operations of MtWriter. *)

Idle == pc = "idle"

Begin(c, w, b) == /\ Idle
                  /\ pc' = "step"
                  /\ call' = c
                  /\ work' = w
                  /\ ibuf' = b
                  /\ UNCHANGED <<job, cur, tried, next, wroteHeader, uncomp, ret,
                                 sent, failed, unexplained, order, orderOpen,
                                 slot, submitOpen, results, err, inPool, outPool,
                                 wst, busy, writerVars>>

\* Write::write: whole blocks are submitted, the rest stays in ibuf.
Write(n) ==
  LET full == ((ibuf + n) \div BlockSize) * BlockSize
      blocks == Blocks(accepted - ibuf, full)
  IN /\ accepted + n <= MaxBytes
     /\ err = "none"
     /\ accepted' = accepted + n
     /\ UNCHANGED chunks
     /\ Begin("write", IF full = 0 THEN <<>> ELSE WithHeader(blocks),
              (ibuf + n) % BlockSize)

\* encode_buffer does not look at the error slot before it begins.
EncodeBuffer(n) ==
  /\ accepted + n <= MaxBytes
  /\ accepted' = accepted + n
  /\ UNCHANGED chunks
  /\ Begin("encode", WithHeader(Buffered \o Blocks(accepted, n)), 0)

\* Fault: flush_ibuf submits the buffer and leaves it filled.
FlushKeepsIbuf ==
  /\ err = "none"
  /\ UNCHANGED <<accepted, chunks>>
  /\ Begin("flush", IF ibuf = 0 THEN <<>> ELSE WithHeader(Buffered), ibuf)

\* Write::flush
Flush ==
  /\ err = "none"
  /\ UNCHANGED <<accepted, chunks>>
  /\ Begin("flush", IF ibuf = 0 THEN <<>> ELSE WithHeader(Buffered), 0)

AddUserChunk ==
  /\ chunks < MaxChunks
  /\ err = "none"
  /\ chunks' = chunks + 1
  /\ UNCHANGED accepted
  /\ Begin("chunk", WithHeader(Append(Buffered, UserChunk)), 0)

\* Fault: finish does not flush ibuf.
FinishUnflushed ==
  /\ err = "none"
  /\ UNCHANGED <<accepted, chunks>>
  /\ Begin("finish", WithHeader(<<Eof>>), 0)

\* finish up to the EOF chunk
Finish ==
  /\ err = "none"
  /\ UNCHANGED <<accepted, chunks>>
  /\ Begin("finish", WithHeader(Append(Buffered, Eof)), 0)

\* check_err at the start of write, flush and add_user_chunk.
CallRefused ==
  /\ Idle
  /\ err # "none"
  /\ failed' = TRUE
  /\ UNCHANGED <<callerVars, accepted, chunks, sent, unexplained, order,
                 orderOpen, slot, submitOpen, results, err, inPool, outPool,
                 wst, busy, writerVars>>

\* check_err at the start of finish; self is dropped on the way out.
FinishRefused ==
  /\ Idle
  /\ err # "none"
  /\ failed' = TRUE
  /\ pc' = "close"
  /\ call' = "drop"
  /\ ret' = "err"
  /\ UNCHANGED <<work, job, cur, tried, next, ibuf, wroteHeader, uncomp,
                 accepted, chunks, sent, unexplained, order, orderOpen, slot,
                 submitOpen, results, err, inPool, outPool, wst, busy,
                 writerVars>>

\* The caller drops the writer without finishing it.
DropWriter ==
  /\ Idle
  /\ pc' = "close"
  /\ call' = "drop"
  /\ UNCHANGED <<work, job, cur, tried, next, ibuf, wroteHeader, uncomp, ret,
                 ghostVars, order, orderOpen, slot, submitOpen, results, err,
                 inPool, outPool, wst, busy, writerVars>>

\* The call returns an error.  flush_ibuf leaves ibuf empty; finish drops self.
Fail ==
  /\ failed' = TRUE
  /\ ibuf' = 0
  /\ work' = <<>>
  /\ job' = NoJob
  /\ pc' = IF call = "finish" THEN "close" ELSE "idle"
  /\ call' = IF call = "finish" THEN "drop" ELSE "none"
  /\ ret' = IF call = "finish" THEN "err" ELSE ret

\* collect_pipeline_error: the recorded cause, if there is one by now.
CollectPipelineError == unexplained' = (unexplained \/ err = "none")

\* check_err before each block in write_blocks.
CheckErrFails ==
  /\ pc = "step"
  /\ work # <<>>
  /\ Head(work).kind = "block"
  /\ err # "none"
  /\ Fail
  /\ UNCHANGED <<cur, tried, next, wroteHeader, uncomp, accepted, chunks, sent,
                 unexplained, order, orderOpen, slot, submitOpen, results, err,
                 inPool, outPool, wst, busy, writerVars>>

\* Up to the send on the order queue: ensure_header marks the header as
\* written, submit_block counts the block and copies it into a pooled buffer.
Prepare ==
  /\ pc = "step"
  /\ work # <<>>
  /\ Head(work).kind = "block" => err = "none"
  /\ pc' = "order"
  /\ wroteHeader' = (wroteHeader \/ Head(work).kind = "header")
  /\ IF Head(work).kind = "block"
     THEN /\ uncomp' = uncomp + Head(work).len
          /\ inPool' = Acquire(inPool)
     ELSE UNCHANGED <<uncomp, inPool>>
  /\ UNCHANGED <<call, work, job, cur, tried, next, ibuf, ret, ghostVars, order,
                 orderOpen, slot, submitOpen, results, err, outPool, wst, busy,
                 writerVars>>

\* The chunk being submitted; finish formats the EOF chunk from uncomp_written.
Current == IF Head(work).kind = "eof" THEN [Head(work) EXCEPT !.len = uncomp]
           ELSE Head(work)

\* Fault: the queue takes one item more than its capacity.
OrderHasRoomOffByOne == Len(order) <= OrderCap

\* Fault: channel() for sync_channel(), which takes any number of items.
OrderHasRoomUnbounded == TRUE

\* sync_channel: send waits for room in the order queue.
OrderHasRoom == Len(order) < OrderCap

\* order_tx.send succeeds.  For a block the job is now in hand and the
\* round-robin cursor has moved on.
SendOrder ==
  /\ pc = "order"
  /\ wr # "gone"
  /\ OrderHasRoom
  /\ sent' = Append(sent, Current)
  /\ work' = Tail(work)
  /\ IF Current.kind = "block"
     THEN /\ order' = Append(order, BlockSlot(Len(sent) + 1))
          /\ job' = [ch |-> Len(sent) + 1, off |-> Current.off, len |-> Current.len]
          /\ cur' = next
          /\ next' = (next + 1) % N
          /\ tried' = 0
          /\ pc' = "try"
     ELSE /\ order' = Append(order, [kind |-> Current.kind, off |-> Current.off,
                                     n |-> Current.len])
          /\ pc' = "step"
          /\ UNCHANGED <<job, cur, next, tried>>
  /\ UNCHANGED <<call, ibuf, wroteHeader, uncomp, ret, accepted, chunks, failed,
                 unexplained, orderOpen, slot, submitOpen, results, err, inPool,
                 outPool, wst, busy, writerVars>>

\* order_tx.send finds the writer thread gone; the input buffer is released.
SendOrderFails ==
  /\ pc = "order"
  /\ wr = "gone"
  /\ Fail
  /\ CollectPipelineError
  /\ inPool' = IF Head(work).kind = "block" THEN Release(inPool) ELSE inPool
  /\ UNCHANGED <<cur, tried, next, wroteHeader, uncomp, accepted, chunks, sent,
                 order, orderOpen, slot, submitOpen, results, err, outPool, wst,
                 busy, writerVars>>

\* try_send, and send once it no longer blocks: the worker's channel has room.
\* The locals of submit_block and its fallback go with it.
SubmitJob ==
  /\ pc \in {"try", "blocked"}
  /\ wst[cur] # "gone"
  /\ slot[cur] = NoJob
  /\ slot' = [slot EXCEPT ![cur] = job]
  /\ job' = NoJob
  /\ cur' = 0
  /\ tried' = 0
  /\ pc' = "step"
  /\ next' = IF pc = "try" /\ tried > 0 THEN (cur + 1) % N ELSE next
  /\ UNCHANGED <<call, work, ibuf, wroteHeader, uncomp, ret, ghostVars, order,
                 orderOpen, submitOpen, results, err, inPool,
                 outPool, wst, busy, writerVars>>

\* try_send returns Full.  submit_block hands over to send_block_fallback,
\* which tries the others and then blocks on the one it found full last.
SubmitFull ==
  /\ pc = "try"
  /\ wst[cur] # "gone"
  /\ slot[cur] # NoJob
  /\ tried' = tried + 1
  /\ IF tried > 0 /\ tried + 1 >= N
     THEN pc' = "blocked" /\ UNCHANGED cur
     ELSE cur' = (cur + 1) % N /\ UNCHANGED pc
  /\ UNCHANGED <<call, work, job, next, ibuf, wroteHeader, uncomp, ret,
                 ghostVars, order, orderOpen, slot, submitOpen, results, err,
                 inPool, outPool, wst, busy, writerVars>>

\* The worker is gone: the job is dropped, and its result sender with it.
SubmitFails ==
  /\ pc \in {"try", "blocked"}
  /\ wst[cur] = "gone"
  /\ Fail
  /\ CollectPipelineError
  /\ UNCHANGED <<cur, tried, next, wroteHeader, uncomp, accepted, chunks, sent,
                 order, orderOpen, slot, submitOpen, results, err, inPool,
                 outPool, wst, busy, writerVars>>

\* Everything submitted.  finish goes on to close the pipeline.
Return ==
  /\ pc = "step"
  /\ work = <<>>
  /\ pc' = IF call = "finish" THEN "close" ELSE "idle"
  /\ call' = IF call = "finish" THEN call ELSE "none"
  /\ UNCHANGED <<work, job, cur, tried, next, ibuf, wroteHeader, uncomp, ret,
                 ghostVars, order, orderOpen, slot, submitOpen, results, err,
                 inPool, outPool, wst, busy, writerVars>>

\* drop(order_tx) and submit_txs.clear(): finish does the first one first,
\* Drop the second one.
CloseChannels ==
  /\ pc \in {"close", "close2"}
  /\ pc' = IF pc = "close" THEN "close2" ELSE "join"
  /\ IF pc = "close" <=> call = "finish"
     THEN orderOpen' = FALSE /\ UNCHANGED submitOpen
     ELSE submitOpen' = FALSE /\ UNCHANGED orderOpen
  /\ UNCHANGED <<call, work, job, cur, tried, next, ibuf, wroteHeader, uncomp,
                 ret, ghostVars, order, slot, results, err, inPool, outPool, wst,
                 busy, writerVars>>

\* Fault: finish takes any answer on finish_rx for a success.
FinishResultUnread ==
  IF call # "finish" THEN ret ELSE IF fin # "none" THEN "ok" ELSE "err"

\* What finish receives on finish_rx; a closed channel is an error too.
FinishResult ==
  IF call # "finish" THEN ret ELSE IF fin = "ok" THEN "ok" ELSE "err"

\* All threads joined.
Join ==
  /\ pc = "join"
  /\ \A w \in Workers : wst[w] = "gone"
  /\ wr = "gone"
  /\ pc' = "ended"
  /\ ret' = FinishResult
  /\ UNCHANGED <<call, work, job, cur, tried, next, ibuf, wroteHeader, uncomp,
                 ghostVars, order, orderOpen, slot, submitOpen, results, err,
                 inPool, outPool, wst, busy, writerVars>>

----------------------------------------------------------------------------
(* worker_loop *)

\* submit_rx.recv, and the obuf acquired for the encoding.
WorkerTake(w) ==
  /\ wst[w] = "idle"
  /\ slot[w] # NoJob
  /\ busy' = [busy EXCEPT ![w] = slot[w]]
  /\ slot' = [slot EXCEPT ![w] = NoJob]
  /\ wst' = [wst EXCEPT ![w] = "busy"]
  /\ outPool' = Acquire(outPool)
  /\ UNCHANGED <<callerVars, ghostVars, order, orderOpen, submitOpen, results,
                 err, inPool, writerVars>>

\* The receiver of result channel c still exists.
Listening(c) ==
  /\ wr # "gone"
  /\ \/ \E i \in 1..Len(order) : order[i] = BlockSlot(c)
     \/ wr = "have" /\ held = BlockSlot(c)

\* A compressed block keeps its obuf as the body.
ObufAfter(as) == IF as = "comp" THEN outPool ELSE Release(outPool)

\* The outcome is sent on the job's result channel, or lost with it when the
\* receiver is gone.
WorkerFinish(w, as) ==
  /\ wst[w] = "busy"
  /\ as = "err" => "encode" \in Faults
  /\ results' = IF Listening(busy[w].ch)
                THEN results \cup {[ch |-> busy[w].ch, off |-> busy[w].off,
                                    len |-> busy[w].len, as |-> as]}
                ELSE results
  /\ outPool' = ObufAfter(as)
  /\ busy' = [busy EXCEPT ![w] = NoJob]
  /\ wst' = [wst EXCEPT ![w] = "idle"]
  /\ UNCHANGED <<callerVars, ghostVars, order, orderOpen, slot, submitOpen, err,
                 inPool, writerVars>>

\* The encoder panics: unwinding drops the job first, ...
WorkerPanic(w) ==
  /\ "workerPanic" \in Faults
  /\ wst[w] = "busy"
  /\ busy' = [busy EXCEPT ![w] = NoJob]
  /\ wst' = [wst EXCEPT ![w] = "unwind"]
  /\ UNCHANGED <<callerVars, ghostVars, order, orderOpen, slot, submitOpen,
                 results, err, inPool, outPool, writerVars>>

\* ... then submit_rx with the job that may wait in it.
WorkerUnwound(w) ==
  /\ wst[w] = "unwind"
  /\ slot' = [slot EXCEPT ![w] = NoJob]
  /\ wst' = [wst EXCEPT ![w] = "gone"]
  /\ UNCHANGED <<callerVars, ghostVars, order, orderOpen, submitOpen, results,
                 err, inPool, outPool, busy, writerVars>>

\* submit_rx is closed and empty.
WorkerExit(w) ==
  /\ wst[w] = "idle"
  /\ ~submitOpen
  /\ slot[w] = NoJob
  /\ wst' = [wst EXCEPT ![w] = "gone"]
  /\ UNCHANGED <<callerVars, ghostVars, order, orderOpen, slot, submitOpen,
                 results, err, inPool, outPool, busy, writerVars>>

----------------------------------------------------------------------------
(* writer_loop *)

\* order_rx.recv
WriterTake ==
  /\ wr = "recv"
  /\ order # <<>>
  /\ held' = Head(order)
  /\ order' = Tail(order)
  /\ wr' = "have"
  /\ UNCHANGED <<callerVars, ghostVars, orderOpen, slot, submitOpen, results,
                 err, inPool, outPool, wst, busy, out, trailer, uncompW, index,
                 fin>>

\* OrderItem::Raw
WriteRaw ==
  /\ wr = "have"
  /\ held.kind # "block"
  /\ out' = Append(out, [kind |-> held.kind, off |-> held.off, len |-> held.n])
  /\ wr' = "recv"
  /\ UNCHANGED <<callerVars, ghostVars, order, orderOpen, slot, submitOpen,
                 results, err, inPool, outPool, wst, busy, held, trailer,
                 uncompW, index, fin>>

\* An OffsetPair: where a block starts in the stream and in the data.
IndexEntry == [comp : Nat, uncomp : Nat]

\* Fault: the pair is taken after comp_written has moved on.
IndexAddLate == index' = IF GenIndex
                         THEN Append(index, [comp |-> Len(out) + 1,
                                             uncomp |-> uncompW])
                         ELSE index

\* idx.add(comp_written, uncomp_written), before the counters move.  The
\* pairs offered here always ascend, so its "decreased" error cannot happen.
IndexAdd == index' = IF GenIndex
                     THEN Append(index, [comp |-> Len(out), uncomp |-> uncompW])
                     ELSE index

\* Fault: one result channel is shared by all blocks.
AnswersAny(r) == r \in results

\* The result r is the one in the channel of the slot at hand.
Answers(r) == r \in results /\ r.ch = held.n

\* OrderItem::Block: a result arrived and both writes succeed.  The input
\* buffer goes back to its pool, and the obuf of a compressed block too.
WriteBlock(r) ==
  /\ wr = "have"
  /\ held.kind = "block"
  /\ Answers(r)
  /\ r.as # "err"
  /\ IndexAdd
  /\ out' = Append(out, [kind |-> "block", off |-> r.off, len |-> r.len])
  /\ uncompW' = uncompW + r.len
  /\ results' = results \ {r}
  /\ inPool' = Release(inPool)
  /\ outPool' = IF r.as = "comp" THEN Release(outPool) ELSE outPool
  /\ wr' = "recv"
  /\ UNCHANGED <<callerVars, ghostVars, order, orderOpen, slot, submitOpen, err,
                 wst, busy, held, trailer, fin>>

\* Fault: the thread gives up without recording why.
RecordNothing(e) == /\ UNCHANGED err
                    /\ wr' = "failing"

\* record: the first error wins; every early return ends in the exit below.
Record(e) == /\ err' = IF err = "none" THEN e ELSE err
             /\ wr' = "failing"

\* The worker reported an encode error.
WriteEncodeError(r) ==
  /\ wr = "have"
  /\ held.kind = "block"
  /\ Answers(r)
  /\ r.as = "err"
  /\ results' = results \ {r}
  /\ Record("encode")
  /\ UNCHANGED <<callerVars, ghostVars, order, orderOpen, slot, submitOpen,
                 inPool, outPool, wst, busy, held, out, trailer, uncompW, index,
                 fin>>

\* A write to the sink fails.  If it is the header the buffers are dropped,
\* if it is the body they have been released first.
WriteFails ==
  /\ "io" \in Faults
  /\ wr = "have"
  /\ Record("io")
  /\ \/ /\ held.kind # "block"
        /\ UNCHANGED <<results, inPool, outPool, index>>
     \/ /\ held.kind = "block"
        /\ \E r \in results :
             /\ Answers(r)
             /\ r.as # "err"
             /\ results' = results \ {r}
             /\ \/ UNCHANGED <<inPool, outPool>>
                \/ /\ inPool' = Release(inPool)
                   /\ outPool' = IF r.as = "comp" THEN Release(outPool)
                                 ELSE outPool
        /\ IndexAdd
  /\ UNCHANGED <<callerVars, ghostVars, order, orderOpen, slot, submitOpen, wst,
                 busy, held, out, trailer, uncompW, fin>>

\* Some job, queued or running, or some result will answer on channel c.
Answerable(c) ==
  \/ job.ch = c
  \/ \E w \in Workers : slot[w].ch = c \/ busy[w].ch = c
  \/ \E r \in results : r.ch = c

\* Fault: a block without result is skipped.
GiveUpSkips == wr' = "recv" /\ UNCHANGED err

\* Fault: a disconnected channel is polled again.
GiveUpRetries == wr' = "have" /\ UNCHANGED err

\* The worker exited without producing output.
GiveUp == Record("lost")

\* rx.recv finds the result channel disconnected.
WorkerLost ==
  /\ wr = "have"
  /\ held.kind = "block"
  /\ ~Answerable(held.n)
  /\ GiveUp
  /\ UNCHANGED <<callerVars, ghostVars, order, orderOpen, slot, submitOpen,
                 results, inPool, outPool, wst, busy, held, out, trailer,
                 uncompW, index, fin>>

TrailerChunk == [kind : {"padding", "index"}, off : Nat, len : Nat]

\* What follows the last chunk: padding, unless the size is aligned already,
\* then the index, which declares the total of writer_loop's own counter.
Trailer(padded) ==
  (IF padded THEN <<[kind |-> "padding", off |-> 0, len |-> 0]>> ELSE <<>>)
  \o (IF AppendIndex
      THEN <<[kind |-> "index", off |-> Len(index), len |-> uncompW]>> ELSE <<>>)

\* The order queue is closed and drained.
WriteTrailer ==
  /\ wr = "recv"
  /\ order = <<>>
  /\ ~orderOpen
  /\ \E padded \in {Padding, FALSE} : trailer' = Trailer(padded)
  /\ fin' = "ok"
  /\ wr' = "gone"
  /\ UNCHANGED <<callerVars, ghostVars, order, orderOpen, slot, submitOpen,
                 results, err, inPool, outPool, wst, busy, held, out, uncompW,
                 index>>

\* Writing the padding or the index, or the final flush, fails.
TrailerFails ==
  /\ "io" \in Faults
  /\ wr = "recv"
  /\ order = <<>>
  /\ ~orderOpen
  /\ \E padded \in {Padding, FALSE} : \E k \in 0..Len(Trailer(padded)) :
       trailer' = SubSeq(Trailer(padded), 1, k)
  /\ Record("io")
  /\ UNCHANGED <<callerVars, ghostVars, order, orderOpen, slot, submitOpen,
                 results, inPool, outPool, wst, busy, held, out, uncompW, index,
                 fin>>

\* The writer thread ends: its receivers go, and what waits in them.
DropReceivers == wr' = "gone" /\ order' = <<>> /\ results' = {}

\* The error goes out on finish_tx before order_rx is dropped.
WriterExit ==
  /\ wr = "failing"
  /\ fin' = "err"
  /\ DropReceivers
  /\ UNCHANGED <<callerVars, ghostVars, orderOpen, slot, submitOpen, err,
                 inPool, outPool, wst, busy, held, out, trailer, uncompW, index>>

\* The sink itself panics, in write_all of a chunk, of the padding or of the
\* index, or in the final flush: nothing is recorded or sent.
WriterPanic ==
  /\ "sinkPanic" \in Faults
  /\ \/ /\ wr = "have"
        /\ held.kind = "block" => \E r \in results : Answers(r) /\ r.as # "err"
        /\ UNCHANGED trailer
     \/ /\ wr = "recv"
        /\ order = <<>>
        /\ ~orderOpen
        /\ \E padded \in {Padding, FALSE} : \E k \in 0..Len(Trailer(padded)) :
             trailer' = SubSeq(Trailer(padded), 1, k)
  /\ DropReceivers
  /\ UNCHANGED <<callerVars, ghostVars, orderOpen, slot, submitOpen, err,
                 inPool, outPool, wst, busy, held, out, uncompW, index, fin>>

----------------------------------------------------------------------------
Init ==
  /\ pc = "idle" /\ call = "none" /\ work = <<>> /\ job = NoJob
  /\ cur = 0 /\ tried = 0 /\ next = 0 /\ ibuf = 0
  /\ wroteHeader = FALSE /\ uncomp = 0 /\ ret = "none"
  /\ accepted = 0 /\ chunks = 0 /\ sent = <<>>
  /\ failed = FALSE /\ unexplained = FALSE
  /\ order = <<>> /\ orderOpen = TRUE
  /\ slot = [w \in Workers |-> NoJob] /\ submitOpen = TRUE
  /\ results = {} /\ err = "none" /\ inPool = 0 /\ outPool = 0
  /\ wst = [w \in Workers |-> "idle"] /\ busy = [w \in Workers |-> NoJob]
  /\ wr = "recv" /\ held = NoItem /\ out = <<>> /\ trailer = <<>>
  /\ uncompW = 0 /\ index = <<>> /\ fin = "none"

\* The caller starts an operation: nothing obliges it to.
Start == \/ \E n \in 0..MaxBytes : Write(n) \/ EncodeBuffer(n)
         \/ Flush \/ AddUserChunk \/ Finish
         \/ CallRefused \/ FinishRefused \/ DropWriter

\* The caller's thread inside an operation.
CallerStep == \/ CheckErrFails \/ Prepare \/ SendOrder \/ SendOrderFails
              \/ SubmitJob \/ SubmitFull \/ SubmitFails
              \/ Return \/ CloseChannels \/ Join

WorkerStep(w) == \/ WorkerTake(w)
                 \/ \E as \in {"comp", "raw", "err"} : WorkerFinish(w, as)
                 \/ WorkerUnwound(w)
                 \/ WorkerExit(w)

WriterStep == \/ WriterTake \/ WriteRaw
              \/ \E r \in results : WriteBlock(r) \/ WriteEncodeError(r)
              \/ WriteFails \/ WorkerLost
              \/ WriteTrailer \/ TrailerFails \/ WriterExit

Panic == WriterPanic \/ \E w \in Workers : WorkerPanic(w)

\* All threads are joined; nothing is left to happen.
Terminated == pc = "ended" /\ UNCHANGED vars

Next == \/ Start \/ CallerStep \/ WriterStep \/ Panic \/ Terminated
        \/ \E w \in Workers : WorkerStep(w)

Spec == Init /\ [][Next]_vars

\* Each thread keeps running while it can; sink writes and encodes return.
Fairness == /\ WF_vars(CallerStep)
            /\ WF_vars(WriterStep)
            /\ \A w \in Workers : WF_vars(WorkerStep(w))

FairSpec == Spec /\ Fairness
----------------------------------------------------------------------------
(* What makes the writer correct. *)

CallerTypeOK ==
  /\ pc \in {"idle", "step", "order", "try", "blocked", "close", "close2",
             "join", "ended"}
  /\ call \in {"none", "write", "encode", "flush", "chunk", "finish", "drop"}
  /\ work \in Seq(Chunk)
  /\ job \in Job
  /\ cur \in Workers /\ next \in Workers /\ tried \in Nat
  /\ ibuf \in 0..(BlockSize - 1)
  /\ wroteHeader \in BOOLEAN /\ uncomp \in Nat /\ ret \in {"none", "ok", "err"}

GhostTypeOK ==
  /\ accepted \in Nat /\ chunks \in Nat /\ sent \in Seq(Chunk)
  /\ failed \in BOOLEAN /\ unexplained \in BOOLEAN

SharedTypeOK ==
  /\ order \in Seq(OrderItem) /\ Len(order) <= OrderCap /\ orderOpen \in BOOLEAN
  /\ slot \in [Workers -> Job] /\ submitOpen \in BOOLEAN
  /\ results \in SUBSET Output
  /\ err \in {"none", "io", "encode", "lost"}
  /\ inPool \in 0..PoolCap /\ outPool \in 0..PoolCap

WorkerTypeOK ==
  /\ wst \in [Workers -> {"idle", "busy", "unwind", "gone"}]
  /\ busy \in [Workers -> Job]

WriterTypeOK ==
  /\ wr \in {"recv", "have", "failing", "gone"}
  /\ held \in OrderItem
  /\ out \in Seq(Chunk)
  /\ trailer \in Seq(TrailerChunk)
  /\ uncompW \in Nat
  /\ index \in Seq(IndexEntry)
  /\ fin \in {"none", "ok", "err"}

\* Every variable has its type; the channels hold at most their capacity.
TypeOK == /\ CallerTypeOK
          /\ GhostTypeOK
          /\ SharedTypeOK
          /\ WorkerTypeOK
          /\ WriterTypeOK

\* However the workers overtake each other, the sink receives the chunks in
\* the order in which they were submitted, none skipped and none twice.
WirePrefix ==
  /\ Len(out) <= Len(sent)
  /\ \A i \in 1..Len(out) : out[i] = sent[i]

IsBlock(s, i) == i \in 1..Len(s) /\ s[i].kind = "block"

\* No block of s lies strictly between positions i and j.
Adjacent(s, i, j) == i < j /\ \A k \in (i + 1)..(j - 1) : ~IsBlock(s, k)

\* The blocks on the sink are the input from its first byte on without a gap,
\* even after calls have failed and the caller has gone on; a user chunk and
\* the EOF chunk stand exactly where the caller put them; uncomp_written of
\* writer_loop is where the blocks end.
WireContiguous ==
  /\ \A j \in 1..Len(out) : Adjacent(out, 0, j) => out[j].off = 0
  /\ \A i, j \in 1..Len(out) :
       IsBlock(out, i) /\ Adjacent(out, i, j) => out[j].off = out[i].off + out[i].len
  /\ \A i \in 1..Len(out) :
       IsBlock(out, i) /\ Adjacent(out, i, Len(out) + 1)
         => out[i].off + out[i].len = uncompW

\* An EOF chunk on the sink tells the truth: it is the last chunk, every byte
\* the writer accepted is in front of it and it declares their number.
EofComplete ==
  \A i \in 1..Len(out) : out[i].kind = "eof" =>
    /\ i = Len(out)
    /\ out[i].len = accepted
    /\ uncompW = accepted

\* finish returns the sink only if no earlier call has failed, everything
\* submitted is on the sink and the stream ends in its EOF chunk; a failed
\* block can never be papered over by the calls after it.
NoSilentLoss ==
  ret = "ok" =>
    /\ ~failed
    /\ out = sent
    /\ out # <<>>
    /\ out[1].kind = "header"
    /\ out[Len(out)].kind = "eof"
    /\ \A i \in 1..Len(trailer) : trailer[i].kind = "index" =>
         trailer[i].len = accepted

\* As long as no thread panics, every error names its cause: no call reports
\* "pipeline closed unexpectedly" and no block is given up as lost.
ErrorsExplained ==
  Faults \cap {"workerPanic", "sinkPanic"} = {} => ~unexplained /\ err # "lost"

\* Every pair given to the index is the start of a block chunk and of its data,
\* the pairs ascend, and on a good stream every block has its pair.
IndexExact ==
  /\ \A i \in 1..Len(index) : index[i].comp < Len(out) =>
       /\ IsBlock(out, index[i].comp + 1)
       /\ out[index[i].comp + 1].off = index[i].uncomp
  /\ \A i, j \in 1..Len(index) : i < j => index[i].comp < index[j].comp
  /\ GenIndex => \A k \in 1..Len(out) : IsBlock(out, k) =>
       \E i \in 1..Len(index) : index[i].comp + 1 = k

\* Input buffers in use: in the caller's hand, queued, being encoded, or in a
\* result waiting to be written.
LiveInputs ==
  (IF pc = "order" /\ Head(work).kind = "block" THEN 1 ELSE 0)
  + (IF job # NoJob THEN 1 ELSE 0)
  + Cardinality({w \in Workers : slot[w] # NoJob})
  + Cardinality({w \in Workers : busy[w] # NoJob})
  + Cardinality(results)

LiveOutputs == Cardinality({w \in Workers : busy[w] # NoJob})
               + Cardinality({r \in results : r.as = "comp"})

\* Memory is bounded by the order queue's capacity, whatever the speed of the
\* threads: with the recycled ones there are never more than N + 3 input buffers
\* (the order queue's, the writer's and the caller's) and N + 2 output buffers.
BuffersBounded == /\ inPool + LiveInputs <= N + 3
                  /\ outPool + LiveOutputs <= N + 2

\* Every operation returns, whatever fails: no full queue, exhausted worker,
\* failed sink or panicked thread leaves the caller waiting.
CallsReturn == pc \notin {"idle", "ended"} ~> pc \in {"idle", "ended"}

\* The session as the caller sees it: open until the threads are joined.
SinkResult == IF pc # "ended" THEN "open" ELSE IF ret = "ok" THEN "ok" ELSE "err"

Sink == INSTANCE OrderedSink WITH
          accepted <- sent, delivered <- out, result <- SinkResult

\* Refinement: each step of the pipeline is a step of OrderedSink or none.
KeepsOrderedSink == Sink!Spec
=============================================================================
