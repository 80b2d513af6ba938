--------------------------- MODULE MtWriterProofs ---------------------------
(* Theorems about MtWriter, for every number of workers, block size, bound   *)
(* and set of faults: types and the order of delivery; then the stream on    *)
(* the sink; then the threads' errors and the buffers.                       *)
EXTENDS MtWriter, SequenceTheorems, FiniteSetTheorems, TLAPS

\* The round-robin cursor stays on a worker.
LEMMA NextWorker == \A w \in Workers : (w + 1) % N \in Workers
  BY NAssumption DEF Workers

\* A remainder of the block size is shorter than a block.
LEMMA ModBlock == \A a \in Nat : a % BlockSize \in 0..(BlockSize - 1)
  BY BlockSizeAssumption

\* (i - 1) blocks lie strictly inside n bytes when i is one of the blocks.
LEMMA BlockStart ==
  ASSUME NEW n \in Nat, NEW i \in 1..((n + BlockSize - 1) \div BlockSize)
  PROVE  (i - 1) * BlockSize \in Nat /\ (i - 1) * BlockSize < n
PROOF
<1> DEFINE k == (n + BlockSize - 1) \div BlockSize
<1>1. k \in Nat /\ i \in Nat /\ i >= 1 /\ i <= k
  BY BlockSizeAssumption
<1>2. k * BlockSize <= n + BlockSize - 1
  BY BlockSizeAssumption
<1>3. (i - 1) * BlockSize <= (k - 1) * BlockSize
  BY <1>1, BlockSizeAssumption
<1> QED
  BY <1>1, <1>2, <1>3, BlockSizeAssumption

\* What a call cuts from its data is a sequence of block chunks, none of negative length.
LEMMA BlocksType ==
  ASSUME NEW o \in Nat, NEW n \in Nat
  PROVE  Blocks(o, n) \in Seq(Chunk)
PROOF
<1>1. (n + BlockSize - 1) \div BlockSize \in Nat
  BY BlockSizeAssumption
<1>2. ASSUME NEW i \in 1..((n + BlockSize - 1) \div BlockSize)
      PROVE  LET at == (i - 1) * BlockSize
             IN [kind |-> "block", off |-> o + at,
                 len |-> IF n - at < BlockSize THEN n - at ELSE BlockSize] \in Chunk
  BY <1>2, BlockStart, BlockSizeAssumption DEF Chunk, Kinds
<1> QED
  BY <1>1, <1>2, IsASeq DEF Blocks

\* The pools never hold more than their capacity.
LEMMA PoolRange ==
  \A p \in 0..PoolCap : Acquire(p) \in 0..PoolCap /\ Release(p) \in 0..PoolCap
  BY NAssumption DEF Acquire, Release, PoolCap

\* Handing the caller its next piece of work keeps the caller's state well-typed.
LEMMA StartWorkType ==
  ASSUME TypeOK, NEW n \in Nat, ibuf <= accepted
  PROVE  /\ Buffered \in Seq(Chunk)
         /\ Blocks(accepted - ibuf, n) \in Seq(Chunk)
         /\ Blocks(accepted, n) \in Seq(Chunk)
         /\ \A s \in Seq(Chunk) : WithHeader(s) \in Seq(Chunk)
PROOF
<1>1. accepted - ibuf \in Nat /\ ibuf \in Nat /\ accepted \in Nat
  BY BlockSizeAssumption DEF TypeOK, CallerTypeOK, GhostTypeOK
<1>2. Header \in Chunk
  BY DEF Header, Chunk, Kinds
<1>3. \A s \in Seq(Chunk) : WithHeader(s) \in Seq(Chunk)
  BY <1>2 DEF WithHeader
<1> QED
  BY <1>1, <1>3, BlocksType DEF Buffered

\* What is in ibuf was accepted, so the buffered block has an offset, and the
\* caller waits at the order queue only with a chunk to send.
IbufInv == /\ ibuf <= accepted
           /\ pc = "order" => work # <<>>

TypeInv == TypeOK /\ IbufInv

\* The writer thread's index stays a sequence of offset pairs.
LEMMA IndexType ==
  ASSUME WriterTypeOK
  PROVE  Append(index, [comp |-> Len(out), uncomp |-> uncompW]) \in Seq(IndexEntry)
PROOF
<1>1. [comp |-> Len(out), uncomp |-> uncompW] \in IndexEntry
  BY DEF WriterTypeOK, IndexEntry
<1> QED
  BY <1>1 DEF WriterTypeOK

\* What the writer thread appends for padding and index is well-typed.
LEMMA TrailerType ==
  ASSUME WriterTypeOK, NEW padded
  PROVE  Trailer(padded) \in Seq(TrailerChunk)
PROOF
<1>1. [kind |-> "padding", off |-> 0, len |-> 0] \in TrailerChunk
  BY DEF TrailerChunk
<1>2. [kind |-> "index", off |-> Len(index), len |-> uncompW] \in TrailerChunk
  BY DEF TrailerChunk, WriterTypeOK
<1> QED
  BY <1>1, <1>2 DEF Trailer

\* Every action preserves the types.
LEMMA TypeInvStep == TypeInv /\ [Next]_vars => TypeInv'
PROOF
<1> SUFFICES ASSUME TypeInv, [Next]_vars
             PROVE  TypeInv'
  OBVIOUS
<1> USE DEF TypeInv, TypeOK, IbufInv, callerVars, ghostVars, writerVars, vars
<1>a. \A c \in Nat : BlockSlot(c) \in OrderItem
  BY DEF BlockSlot, OrderItem, Kinds
<1>b. NoJob \in Job
  BY DEF NoJob, Job
<1>1. ASSUME NEW n \in 0..MaxBytes, Write(n)
      PROVE  TypeInv'
  <2>1. n \in Nat /\ accepted + n \in Nat /\ ibuf \in Nat /\ ibuf + n \in Nat
    BY BoundAssumption, BlockSizeAssumption DEF CallerTypeOK, GhostTypeOK
  <2>2. (ibuf + n) % BlockSize \in 0..(BlockSize - 1) /\ (ibuf + n) % BlockSize <= ibuf + n
    BY <2>1, BlockSizeAssumption
  <2>3. ((ibuf + n) \div BlockSize) * BlockSize \in Nat
    BY <2>1, BlockSizeAssumption
  <2>4. work' \in Seq(Chunk)
    BY <1>1, <2>3, StartWorkType DEF Write, Begin
  <2>5. CallerTypeOK'
    BY <1>1, <2>2, <2>4 DEF CallerTypeOK, Write, Begin
  <2>6. GhostTypeOK' /\ IbufInv'
    BY <1>1, <2>1, <2>2 DEF GhostTypeOK, Write, Begin
  <2> QED
    BY <1>1, <2>5, <2>6 DEF SharedTypeOK, WorkerTypeOK, WriterTypeOK, Write, Begin
<1>2. ASSUME NEW n \in 0..MaxBytes, EncodeBuffer(n)
      PROVE  TypeInv'
  <2>1. n \in Nat /\ accepted + n \in Nat /\ 0 \in 0..(BlockSize - 1)
    BY BoundAssumption, BlockSizeAssumption DEF CallerTypeOK, GhostTypeOK
  <2>2. work' \in Seq(Chunk)
    BY <1>2, <2>1, StartWorkType, ConcatProperties DEF EncodeBuffer, Begin
  <2>3. CallerTypeOK'
    BY <1>2, <2>1, <2>2 DEF CallerTypeOK, EncodeBuffer, Begin
  <2>4. GhostTypeOK' /\ IbufInv'
    BY <1>2, <2>1 DEF GhostTypeOK, EncodeBuffer, Begin
  <2> QED
    BY <1>2, <2>3, <2>4 DEF SharedTypeOK, WorkerTypeOK, WriterTypeOK, EncodeBuffer, Begin
<1>3. CASE Flush
  <2>1. 0 \in 0..(BlockSize - 1) /\ 0 <= accepted
    BY BlockSizeAssumption DEF GhostTypeOK
  <2>2. work' \in Seq(Chunk)
    BY <1>3, StartWorkType, AppendProperties DEF Flush, Begin
  <2>3. CallerTypeOK'
    BY <1>3, <2>1, <2>2 DEF CallerTypeOK, Flush, Begin
  <2>4. GhostTypeOK' /\ IbufInv'
    BY <1>3, <2>1 DEF GhostTypeOK, Flush, Begin
  <2> QED
    BY <1>3, <2>3, <2>4 DEF SharedTypeOK, WorkerTypeOK, WriterTypeOK, Flush, Begin
<1>4. CASE AddUserChunk
  <2>0. UserChunk \in Chunk
    BY DEF GhostTypeOK, UserChunk, Chunk, Kinds
  <2>1. 0 \in 0..(BlockSize - 1) /\ 0 <= accepted
    BY BlockSizeAssumption DEF GhostTypeOK
  <2>2. work' \in Seq(Chunk)
    BY <1>4, <2>0, StartWorkType, AppendProperties DEF AddUserChunk, Begin
  <2>3. CallerTypeOK'
    BY <1>4, <2>1, <2>2 DEF CallerTypeOK, AddUserChunk, Begin
  <2>4. GhostTypeOK' /\ IbufInv'
    BY <1>4, <2>1 DEF GhostTypeOK, AddUserChunk, Begin
  <2> QED
    BY <1>4, <2>3, <2>4 DEF SharedTypeOK, WorkerTypeOK, WriterTypeOK, AddUserChunk, Begin
<1>5. CASE Finish
  <2>0. Eof \in Chunk
    BY DEF GhostTypeOK, Eof, Chunk, Kinds
  <2>1. 0 \in 0..(BlockSize - 1) /\ 0 <= accepted
    BY BlockSizeAssumption DEF GhostTypeOK
  <2>2. work' \in Seq(Chunk)
    BY <1>5, <2>0, StartWorkType, AppendProperties DEF Finish, Begin
  <2>3. CallerTypeOK'
    BY <1>5, <2>1, <2>2 DEF CallerTypeOK, Finish, Begin
  <2>4. GhostTypeOK' /\ IbufInv'
    BY <1>5, <2>1 DEF GhostTypeOK, Finish, Begin
  <2> QED
    BY <1>5, <2>3, <2>4 DEF SharedTypeOK, WorkerTypeOK, WriterTypeOK, Finish, Begin
<1>6. CASE CallRefused
  BY <1>6 DEF CallerTypeOK, GhostTypeOK, SharedTypeOK, WorkerTypeOK, WriterTypeOK,
     CallRefused
<1>7. CASE FinishRefused
  BY <1>7 DEF CallerTypeOK, GhostTypeOK, SharedTypeOK, WorkerTypeOK, WriterTypeOK,
     FinishRefused
<1>8. CASE DropWriter
  BY <1>8 DEF CallerTypeOK, GhostTypeOK, SharedTypeOK, WorkerTypeOK, WriterTypeOK,
     DropWriter
<1>9. CASE CheckErrFails
  BY <1>9, <1>b, BlockSizeAssumption DEF CallerTypeOK, GhostTypeOK, SharedTypeOK,
     WorkerTypeOK, WriterTypeOK, CheckErrFails, Fail
<1>10. CASE Prepare
  <2>1. Head(work) \in Chunk
    BY <1>10 DEF Prepare, CallerTypeOK
  <2>2. CallerTypeOK'
    BY <1>10, <2>1 DEF CallerTypeOK, Prepare, Chunk
  <2>3. SharedTypeOK'
    BY <1>10, PoolRange DEF SharedTypeOK, Prepare
  <2> QED
    BY <1>10, <2>2, <2>3 DEF GhostTypeOK, WorkerTypeOK, WriterTypeOK, Prepare
<1>11. CASE SendOrder
  <2>1. Head(work) \in Chunk /\ Tail(work) \in Seq(Chunk)
    BY <1>11 DEF CallerTypeOK, SendOrder
  <2>2. Current \in Chunk
    BY <2>1 DEF Current, Chunk, CallerTypeOK
  <2>3. Len(sent) + 1 \in Nat /\ Append(sent, Current) \in Seq(Chunk)
    BY <2>2 DEF GhostTypeOK
  <2>4. CallerTypeOK'
    <3>1. [ch |-> Len(sent) + 1, off |-> Current.off, len |-> Current.len] \in Job
      BY <2>2, <2>3 DEF Chunk, Job
    <3> QED
      BY <1>11, <2>1, <3>1, NextWorker DEF CallerTypeOK, SendOrder
  <2>5. GhostTypeOK'
    BY <1>11, <2>3 DEF GhostTypeOK, SendOrder
  <2>6. \E x \in OrderItem : order' = Append(order, x)
    BY <1>11, <1>a, <2>2, <2>3 DEF SendOrder, Chunk, OrderItem
  <2>7. order' \in Seq(OrderItem) /\ Len(order') <= OrderCap
    BY <1>11, <2>6, NAssumption DEF SharedTypeOK, SendOrder, OrderHasRoom, OrderCap
  <2>8. SharedTypeOK'
    BY <1>11, <2>7 DEF SharedTypeOK, SendOrder
  <2> QED
    BY <1>11, <2>4, <2>5, <2>8 DEF WorkerTypeOK, WriterTypeOK, SendOrder
<1>12. CASE SendOrderFails
  <2>1. CallerTypeOK' /\ GhostTypeOK' /\ IbufInv'
    BY <1>12, <1>b, BlockSizeAssumption
       DEF CallerTypeOK, GhostTypeOK, SendOrderFails, Fail, CollectPipelineError
  <2>2. SharedTypeOK'
    BY <1>12, PoolRange DEF SharedTypeOK, SendOrderFails
  <2> QED
    BY <1>12, <2>1, <2>2 DEF WorkerTypeOK, WriterTypeOK, SendOrderFails
<1>13. CASE SubmitJob
  <2>1. CallerTypeOK'
    BY <1>13, <1>b, NextWorker, NAssumption DEF CallerTypeOK, SubmitJob, Workers
  <2>2. SharedTypeOK'
    BY <1>13 DEF CallerTypeOK, SharedTypeOK, SubmitJob
  <2> QED
    BY <1>13, <2>1, <2>2 DEF GhostTypeOK, WorkerTypeOK, WriterTypeOK, SubmitJob
<1>14. CASE SubmitFull
  <2>1. CallerTypeOK'
    BY <1>14, NextWorker DEF CallerTypeOK, SubmitFull
  <2> QED
    BY <1>14, <2>1 DEF GhostTypeOK, SharedTypeOK, WorkerTypeOK, WriterTypeOK, SubmitFull
<1>15. CASE SubmitFails
  BY <1>15, <1>b, BlockSizeAssumption
     DEF CallerTypeOK, GhostTypeOK, SharedTypeOK, WorkerTypeOK, WriterTypeOK, SubmitFails, Fail,
         CollectPipelineError
<1>16. CASE Return
  BY <1>16 DEF CallerTypeOK, GhostTypeOK, SharedTypeOK, WorkerTypeOK, WriterTypeOK, Return
<1>17. CASE CloseChannels
  <2>1. CallerTypeOK' /\ IbufInv'
    BY <1>17 DEF CallerTypeOK, CloseChannels
  <2>2. SharedTypeOK'
    BY <1>17 DEF SharedTypeOK, CloseChannels
  <2> QED
    BY <1>17, <2>1, <2>2 DEF GhostTypeOK, WorkerTypeOK, WriterTypeOK, CloseChannels
<1>18. CASE Join
  BY <1>18 DEF CallerTypeOK, GhostTypeOK, SharedTypeOK, WorkerTypeOK, WriterTypeOK,
     Join, FinishResult
<1>19. ASSUME NEW w \in Workers, WorkerTake(w)
       PROVE  TypeInv'
  <2>1. SharedTypeOK'
    BY <1>19, <1>b, PoolRange DEF SharedTypeOK, WorkerTake
  <2>2. WorkerTypeOK'
    BY <1>19 DEF SharedTypeOK, WorkerTypeOK, WorkerTake
  <2> QED
    BY <1>19, <2>1, <2>2 DEF CallerTypeOK, GhostTypeOK, WriterTypeOK, WorkerTake
<1>20. ASSUME NEW w \in Workers, NEW as \in {"comp", "raw", "err"},
              WorkerFinish(w, as)
       PROVE  TypeInv'
  <2>1. [ch |-> busy[w].ch, off |-> busy[w].off, len |-> busy[w].len, as |-> as]
          \in Output
    BY DEF WorkerTypeOK, Job, Output
  <2>2. SharedTypeOK'
    BY <1>20, <2>1, PoolRange DEF SharedTypeOK, WorkerFinish, ObufAfter
  <2>3. WorkerTypeOK'
    BY <1>20, <1>b DEF WorkerTypeOK, WorkerFinish
  <2> QED
    BY <1>20, <2>2, <2>3 DEF CallerTypeOK, GhostTypeOK, WriterTypeOK, WorkerFinish
<1>21. ASSUME NEW w \in Workers, WorkerPanic(w)
       PROVE  TypeInv'
  BY <1>21, <1>b DEF CallerTypeOK, GhostTypeOK, SharedTypeOK, WorkerTypeOK,
     WriterTypeOK, WorkerPanic
<1>22. ASSUME NEW w \in Workers, WorkerUnwound(w)
       PROVE  TypeInv'
  BY <1>22, <1>b DEF CallerTypeOK, GhostTypeOK, SharedTypeOK, WorkerTypeOK,
     WriterTypeOK, WorkerUnwound
<1>23. ASSUME NEW w \in Workers, WorkerExit(w)
       PROVE  TypeInv'
  BY <1>23 DEF CallerTypeOK, GhostTypeOK, SharedTypeOK, WorkerTypeOK, WriterTypeOK,
     WorkerExit
<1>24. CASE WriterTake
  <2>1. /\ Head(order) \in OrderItem
        /\ Tail(order) \in Seq(OrderItem)
        /\ Len(Tail(order)) = Len(order) - 1
    BY <1>24, HeadTailProperties DEF WriterTake, SharedTypeOK
  <2>2. SharedTypeOK'
    BY <1>24, <2>1, NAssumption DEF SharedTypeOK, WriterTake, OrderCap
  <2>3. WriterTypeOK'
    BY <1>24, <2>1 DEF WriterTypeOK, WriterTake
  <2> QED
    BY <1>24, <2>2, <2>3 DEF CallerTypeOK, GhostTypeOK, WorkerTypeOK, WriterTake
<1>25. CASE WriteRaw
  BY <1>25 DEF CallerTypeOK, GhostTypeOK, SharedTypeOK, WorkerTypeOK, WriterTypeOK,
     WriteRaw,
     OrderItem, Chunk
<1>26. ASSUME NEW r \in results, WriteBlock(r)
       PROVE  TypeInv'
  <2>1. r \in Output /\ r.off \in Nat /\ r.len \in Nat
    BY DEF SharedTypeOK, Output
  <2>2. SharedTypeOK'
    BY <1>26, PoolRange DEF SharedTypeOK, WriteBlock
  <2>3. index' \in Seq(IndexEntry)
    BY <1>26, IndexType DEF WriterTypeOK, WriteBlock, IndexAdd
  <2>4. WriterTypeOK'
    BY <1>26, <2>1, <2>3 DEF WriterTypeOK, WriteBlock, Chunk, Kinds
  <2> QED
    BY <1>26, <2>2, <2>4 DEF CallerTypeOK, GhostTypeOK, WorkerTypeOK, WriteBlock
<1>27. ASSUME NEW r \in results, WriteEncodeError(r)
       PROVE  TypeInv'
  BY <1>27 DEF CallerTypeOK, GhostTypeOK, SharedTypeOK, WorkerTypeOK, WriterTypeOK,
     WriteEncodeError, Record
<1>28. CASE WriteFails
  <2>1. index' \in Seq(IndexEntry)
    BY <1>28, IndexType DEF WriterTypeOK, WriteFails, IndexAdd
  <2>2. WriterTypeOK'
    BY <1>28, <2>1 DEF WriterTypeOK, WriteFails, Record
  <2>3. SharedTypeOK'
    BY <1>28, PoolRange DEF SharedTypeOK, WriteFails, Record
  <2> QED
    BY <1>28, <2>2, <2>3 DEF CallerTypeOK, GhostTypeOK, WorkerTypeOK, WriteFails
<1>29. CASE WorkerLost
  BY <1>29 DEF CallerTypeOK, GhostTypeOK, SharedTypeOK, WorkerTypeOK, WriterTypeOK,
     WorkerLost,
     GiveUp, Record
<1>30. CASE WriteTrailer
  <2>1. WriterTypeOK'
    BY <1>30, TrailerType DEF WriterTypeOK, WriteTrailer
  <2> QED
    BY <1>30, <2>1 DEF CallerTypeOK, GhostTypeOK, SharedTypeOK, WorkerTypeOK, WriteTrailer
<1>31. CASE TrailerFails
  <2>1. PICK padded \in {Padding, FALSE} : \E k \in 0..Len(Trailer(padded)) :
          trailer' = SubSeq(Trailer(padded), 1, k)
    BY <1>31 DEF TrailerFails
  <2>2. Trailer(padded) \in Seq(TrailerChunk)
    BY TrailerType DEF WriterTypeOK
  <2>3. PICK k \in 0..Len(Trailer(padded)) : trailer' = SubSeq(Trailer(padded), 1, k)
    BY <2>1
  <2>4. trailer' \in Seq(TrailerChunk)
    BY <2>2, <2>3
  <2>5. WriterTypeOK'
    BY <1>31, <2>4 DEF WriterTypeOK, TrailerFails, Record
  <2>6. SharedTypeOK'
    BY <1>31 DEF SharedTypeOK, TrailerFails, Record
  <2> QED
    BY <1>31, <2>5, <2>6 DEF CallerTypeOK, GhostTypeOK, WorkerTypeOK, TrailerFails
<1>32. CASE WriterExit
  <2>1. SharedTypeOK'
    BY <1>32, NAssumption DEF SharedTypeOK, WriterExit, DropReceivers, OrderCap
  <2>2. WriterTypeOK'
    BY <1>32 DEF WriterTypeOK, WriterExit, DropReceivers
  <2> QED
    BY <1>32, <2>1, <2>2 DEF CallerTypeOK, GhostTypeOK, WorkerTypeOK, WriterExit
<1>33. CASE WriterPanic
  <2>1. SharedTypeOK'
    BY <1>33, NAssumption DEF SharedTypeOK, WriterPanic, DropReceivers, OrderCap
  <2>2. trailer' \in Seq(TrailerChunk)
    <3>1. CASE UNCHANGED trailer
      BY <3>1 DEF WriterTypeOK
    <3>2. ASSUME NEW padded \in {Padding, FALSE}, NEW k \in 0..Len(Trailer(padded)),
                 trailer' = SubSeq(Trailer(padded), 1, k)
          PROVE  trailer' \in Seq(TrailerChunk)
      <4>1. Trailer(padded) \in Seq(TrailerChunk)
        BY TrailerType DEF WriterTypeOK
      <4> QED
        BY <3>2, <4>1
    <3> QED
      BY <1>33, <3>1, <3>2 DEF WriterPanic
  <2>3. WriterTypeOK'
    BY <1>33, <2>2 DEF WriterTypeOK, WriterPanic, DropReceivers
  <2> QED
    BY <1>33, <2>1, <2>3 DEF CallerTypeOK, GhostTypeOK, WorkerTypeOK, WriterPanic
<1>34. CASE UNCHANGED vars
  BY <1>34 DEF CallerTypeOK, GhostTypeOK, SharedTypeOK, WorkerTypeOK, WriterTypeOK
<1> QED
  BY <1>1, <1>2, <1>3, <1>4, <1>5, <1>6, <1>7, <1>8, <1>9, <1>10, <1>11,
     <1>12, <1>13, <1>14, <1>15, <1>16, <1>17, <1>18, <1>19, <1>20, <1>21,
     <1>22, <1>23, <1>24, <1>25, <1>26, <1>27, <1>28, <1>29, <1>30, <1>31,
     <1>32, <1>33, <1>34
     DEF Next, Start, CallerStep, WorkerStep, WriterStep, Panic, Terminated

\* The initial states are well-typed.
LEMMA TypeInvInit == Init => TypeInv
PROOF
<1> SUFFICES ASSUME Init PROVE TypeInv
  OBVIOUS
<1> USE NAssumption, BlockSizeAssumption
<1>1. NoJob \in Job /\ NoItem \in OrderItem
  BY DEF NoJob, Job, NoItem, OrderItem, Kinds
<1>2. 0 \in Workers
  BY DEF Workers
<1>3. CallerTypeOK /\ GhostTypeOK /\ IbufInv
  BY <1>1, <1>2 DEF Init, CallerTypeOK, GhostTypeOK, IbufInv
<1>4. SharedTypeOK
  BY <1>1 DEF Init, SharedTypeOK, OrderCap, PoolCap
<1> QED
  BY <1>1, <1>3, <1>4 DEF Init, TypeInv, TypeOK, WorkerTypeOK, WriterTypeOK

\* The type invariant of the pipeline: channels within their capacity, pools
\* within theirs, the round-robin cursor on a worker, ibuf short of a block.
THEOREM TypeCorrect == Spec => []TypeOK
PROOF
<1>1. TypeInv => TypeOK
  BY DEF TypeInv
<1> QED
  BY <1>1, TypeInvInit, TypeInvStep, PTL DEF Spec

----------------------------------------------------------------------------
(* Order.  While the writer thread runs, what was submitted is what is on   *)
(* the sink, then the item at hand, then the order queue; and every job and *)
(* result carries the block that was submitted under its channel's number.  *)

Running == wr \in {"recv", "have"}

\* Number of items the writer thread has taken from the order queue.
Taken == IF wr = "have" THEN Len(out) + 1 ELSE Len(out)

\* The order item that stands for the i-th submitted chunk.
SlotFor(i) == IF sent[i].kind = "block" THEN BlockSlot(i)
              ELSE [kind |-> sent[i].kind, off |-> sent[i].off, n |-> sent[i].len]

QueueInv ==
  Running => /\ Len(sent) = Taken + Len(order)
             /\ \A i \in 1..Len(order) : order[i] = SlotFor(Taken + i)
             /\ wr = "have" => held = SlotFor(Len(out) + 1)

\* A job or a result carries the block submitted under its number.
JobOk(j) == /\ j.ch \in 1..Len(sent)
            /\ sent[j.ch] = [kind |-> "block", off |-> j.off, len |-> j.len]

JobInv == /\ job = NoJob \/ JobOk(job)
          /\ pc \in {"try", "blocked"} => job # NoJob
          /\ \A w \in Workers : slot[w] = NoJob \/ JobOk(slot[w])
          /\ \A w \in Workers : busy[w] = NoJob \/ JobOk(busy[w])
          /\ \A w \in Workers : wst[w] = "busy" => busy[w] # NoJob
          /\ \A r \in results : JobOk(r)

\* The queue is closed only after the last submission, the threads end before
\* the session does, and the writer thread succeeds only on a drained queue.
CloseInv == /\ ~orderOpen => pc \in {"close2", "join", "ended"}
            /\ pc = "ended" => wr = "gone"
            /\ fin = "ok" => wr = "gone" /\ ~orderOpen /\ out = sent
            /\ ret = "ok" => fin = "ok" /\ pc = "ended"

OrderInv == TypeInv /\ QueueInv /\ JobInv /\ WirePrefix /\ CloseInv

\* A step that leaves the order queue and what it stands for alone keeps it aligned.
LEMMA QueueUnchanged ==
  ASSUME QueueInv, WirePrefix, UNCHANGED <<sent, out, order, wr, held>>
  PROVE  QueueInv' /\ WirePrefix'
  BY DEF QueueInv, WirePrefix, Running, Taken, SlotFor, BlockSlot

\* Once the writer thread has stopped, the queue owes the sink nothing.
LEMMA QueueStopped ==
  ASSUME WirePrefix, UNCHANGED <<sent, out>>, wr' \notin {"recv", "have"}
  PROVE  QueueInv' /\ WirePrefix'
  BY DEF QueueInv, WirePrefix, Running

\* A step that touches no job, result or worker keeps every job matched to its slot.
LEMMA JobsUnchanged ==
  ASSUME JobInv, UNCHANGED <<sent, job, slot, busy, wst>>,
         pc' = pc \/ pc' \notin {"try", "blocked"},
         results' \subseteq results
  PROVE  JobInv'
  BY DEF JobInv, JobOk

\* The initial states satisfy the order invariant.
LEMMA OrderInvInit == Init => OrderInv
PROOF
<1> SUFFICES ASSUME Init PROVE OrderInv
  OBVIOUS
<1>1. TypeInv
  BY TypeInvInit
<1>2. QueueInv /\ WirePrefix
  BY DEF Init, QueueInv, WirePrefix, Running, Taken
<1>3. JobInv
  BY DEF Init, JobInv
<1>4. CloseInv
  BY DEF Init, CloseInv
<1> QED
  BY <1>1, <1>2, <1>3, <1>4 DEF OrderInv

\* A raw item at hand is the next chunk in submission order.
LEMMA RawIsNext ==
  ASSUME TypeInv, QueueInv, wr = "have", held.kind # "block"
  PROVE  [kind |-> held.kind, off |-> held.off, len |-> held.n] = sent[Len(out) + 1]
PROOF
<1>1. sent \in Seq(Chunk) /\ out \in Seq(Chunk) /\ order \in Seq(OrderItem)
  BY DEF TypeInv, TypeOK, GhostTypeOK, SharedTypeOK, WriterTypeOK
<1>2. held = SlotFor(Len(out) + 1) /\ Len(out) + 1 \in 1..Len(sent)
  BY <1>1 DEF QueueInv, Running, Taken
<1>3. sent[Len(out) + 1] \in Chunk
  BY <1>1, <1>2
<1> QED
  BY <1>2, <1>3 DEF SlotFor, BlockSlot, Chunk

\* The result that answers the slot at hand is the next block in submission
\* order: this is where the one-shot result channel per block pays off.
LEMMA ResultIsNext ==
  ASSUME TypeInv, QueueInv, JobInv, wr = "have", held.kind = "block",
         NEW r \in results, Answers(r)
  PROVE  [kind |-> "block", off |-> r.off, len |-> r.len] = sent[Len(out) + 1]
PROOF
<1>1. sent \in Seq(Chunk) /\ out \in Seq(Chunk) /\ order \in Seq(OrderItem)
  BY DEF TypeInv, TypeOK, GhostTypeOK, SharedTypeOK, WriterTypeOK
<1>2. held = SlotFor(Len(out) + 1)
  BY DEF QueueInv, Running
<1>3. held.n = Len(out) + 1
  BY <1>2 DEF SlotFor, BlockSlot
<1> QED
  BY <1>3 DEF Answers, JobInv, JobOk

\* Delivering the next chunk keeps the sink a prefix and the queue aligned.
LEMMA DeliverKeepsOrder ==
  ASSUME TypeInv, QueueInv, WirePrefix, wr = "have", wr' = "recv",
         out' = Append(out, sent[Len(out) + 1]), UNCHANGED <<sent, order>>
  PROVE  QueueInv' /\ WirePrefix'
PROOF
<1>1. sent \in Seq(Chunk) /\ out \in Seq(Chunk) /\ order \in Seq(OrderItem)
  BY DEF TypeInv, TypeOK, GhostTypeOK, SharedTypeOK, WriterTypeOK
<1>2. /\ Len(sent) = Len(out) + 1 + Len(order)
      /\ \A i \in 1..Len(order) : order[i] = SlotFor(Len(out) + 1 + i)
  BY <1>1 DEF QueueInv, Running, Taken
<1>3. /\ Len(out') = Len(out) + 1
      /\ \A i \in 1..Len(out) : out'[i] = out[i]
      /\ out'[Len(out) + 1] = sent[Len(out) + 1]
  BY <1>1, <1>2
<1>4. WirePrefix'
  BY <1>1, <1>2, <1>3 DEF WirePrefix
<1>5. \A i : SlotFor(i)' = SlotFor(i)
  BY DEF SlotFor, BlockSlot
<1>6. QueueInv'
  BY <1>1, <1>2, <1>3, <1>5 DEF QueueInv, Running, Taken
<1> QED
  BY <1>4, <1>6

\* Every action preserves the order invariant.
LEMMA OrderInvStep == OrderInv /\ [Next]_vars => OrderInv'
PROOF
<1> SUFFICES ASSUME OrderInv, [Next]_vars
             PROVE  OrderInv'
  OBVIOUS
<1> USE DEF OrderInv, callerVars, ghostVars, writerVars, vars
<1>a. TypeInv'
  BY TypeInvStep
<1>t. /\ sent \in Seq(Chunk) /\ out \in Seq(Chunk) /\ order \in Seq(OrderItem)
      /\ work \in Seq(Chunk) /\ held \in OrderItem /\ job \in Job
      /\ slot \in [Workers -> Job] /\ busy \in [Workers -> Job]
      /\ wst \in [Workers -> {"idle", "busy", "unwind", "gone"}]
      /\ results \in SUBSET Output /\ cur \in Workers
  BY DEF TypeInv, TypeOK, CallerTypeOK, GhostTypeOK, SharedTypeOK, WorkerTypeOK,
     WriterTypeOK
<1>1. ASSUME NEW n \in 0..MaxBytes, Write(n)
      PROVE  OrderInv'
  <2>1. QueueInv' /\ WirePrefix'
    BY <1>1, QueueUnchanged DEF Write, Begin, Idle
  <2>2. JobInv'
    BY <1>1, JobsUnchanged DEF Write, Begin, Idle
  <2>3. CloseInv'
    BY <1>1 DEF CloseInv, Write, Begin, Idle
  <2> QED
    BY <1>a, <2>1, <2>2, <2>3
<1>2. ASSUME NEW n \in 0..MaxBytes, EncodeBuffer(n)
      PROVE  OrderInv'
  <2>1. QueueInv' /\ WirePrefix'
    BY <1>2, QueueUnchanged DEF EncodeBuffer, Begin, Idle
  <2>2. JobInv'
    BY <1>2, JobsUnchanged DEF EncodeBuffer, Begin, Idle
  <2>3. CloseInv'
    BY <1>2 DEF CloseInv, EncodeBuffer, Begin, Idle
  <2> QED
    BY <1>a, <2>1, <2>2, <2>3
<1>3. CASE Flush
  <2>1. QueueInv' /\ WirePrefix'
    BY <1>3, QueueUnchanged DEF Flush, Begin, Idle
  <2>2. JobInv'
    BY <1>3, JobsUnchanged DEF Flush, Begin, Idle
  <2>3. CloseInv'
    BY <1>3 DEF CloseInv, Flush, Begin, Idle
  <2> QED
    BY <1>a, <2>1, <2>2, <2>3
<1>4. CASE AddUserChunk
  <2>1. QueueInv' /\ WirePrefix'
    BY <1>4, QueueUnchanged DEF AddUserChunk, Begin, Idle
  <2>2. JobInv'
    BY <1>4, JobsUnchanged DEF AddUserChunk, Begin, Idle
  <2>3. CloseInv'
    BY <1>4 DEF CloseInv, AddUserChunk, Begin, Idle
  <2> QED
    BY <1>a, <2>1, <2>2, <2>3
<1>5. CASE Finish
  <2>1. QueueInv' /\ WirePrefix'
    BY <1>5, QueueUnchanged DEF Finish, Begin, Idle
  <2>2. JobInv'
    BY <1>5, JobsUnchanged DEF Finish, Begin, Idle
  <2>3. CloseInv'
    BY <1>5 DEF CloseInv, Finish, Begin, Idle
  <2> QED
    BY <1>a, <2>1, <2>2, <2>3
<1>6. CASE CallRefused
  <2>1. QueueInv' /\ WirePrefix'
    BY <1>6, QueueUnchanged DEF CallRefused, Idle
  <2>2. JobInv'
    BY <1>6, JobsUnchanged DEF CallRefused, Idle
  <2>3. CloseInv'
    BY <1>6 DEF CloseInv, CallRefused, Idle
  <2> QED
    BY <1>a, <2>1, <2>2, <2>3
<1>7. CASE FinishRefused
  <2>1. QueueInv' /\ WirePrefix'
    BY <1>7, QueueUnchanged DEF FinishRefused, Idle
  <2>2. JobInv'
    BY <1>7, JobsUnchanged DEF FinishRefused, Idle
  <2>3. CloseInv'
    BY <1>7 DEF CloseInv, FinishRefused, Idle
  <2> QED
    BY <1>a, <2>1, <2>2, <2>3
<1>8. CASE DropWriter
  <2>1. QueueInv' /\ WirePrefix'
    BY <1>8, QueueUnchanged DEF DropWriter, Idle
  <2>2. JobInv'
    BY <1>8, JobsUnchanged DEF DropWriter, Idle
  <2>3. CloseInv'
    BY <1>8 DEF CloseInv, DropWriter, Idle
  <2> QED
    BY <1>a, <2>1, <2>2, <2>3
<1>9. CASE CheckErrFails
  <2>1. QueueInv' /\ WirePrefix'
    BY <1>9, QueueUnchanged DEF CheckErrFails
  <2>2. JobInv'
    BY <1>9 DEF CheckErrFails, Fail, JobInv, JobOk
  <2>3. CloseInv'
    BY <1>9 DEF CloseInv, CheckErrFails, Fail
  <2> QED
    BY <1>a, <2>1, <2>2, <2>3
<1>10. CASE Prepare
  <2>1. QueueInv' /\ WirePrefix'
    BY <1>10, QueueUnchanged DEF Prepare
  <2>2. JobInv'
    BY <1>10, JobsUnchanged DEF Prepare
  <2>3. CloseInv'
    BY <1>10 DEF CloseInv, Prepare
  <2> QED
    BY <1>a, <2>1, <2>2, <2>3
<1>11. CASE SendOrder
  <2>1. work # <<>> /\ Current \in Chunk
    <3>1. work # <<>> /\ uncomp \in Nat
      BY <1>11 DEF SendOrder, TypeInv, IbufInv, TypeOK, CallerTypeOK
    <3>2. Head(work) \in Chunk
      BY <3>1, <1>t
    <3> QED
      BY <3>1, <3>2 DEF Current, Chunk
  <2>2. /\ Len(sent') = Len(sent) + 1
        /\ \A i \in 1..Len(sent) : sent'[i] = sent[i]
        /\ sent'[Len(sent) + 1] = Current
    BY <1>11, <1>t, <2>1 DEF SendOrder
  <2>3. WirePrefix'
    BY <1>11, <1>t, <2>2 DEF SendOrder, WirePrefix
  <2>4. order' = Append(order, SlotFor(Len(sent))')
    <3>1. sent'[Len(sent')] = Current /\ Len(sent') = Len(sent) + 1
      BY <2>2
    <3>2. SlotFor(Len(sent))' =
            IF Current.kind = "block" THEN BlockSlot(Len(sent) + 1)
            ELSE [kind |-> Current.kind, off |-> Current.off, n |-> Current.len]
      BY <3>1 DEF SlotFor, BlockSlot
    <3> QED
      BY <1>11, <3>2 DEF SendOrder
  <2>5. QueueInv'
    <3> SUFFICES ASSUME Running
                 PROVE  QueueInv'
      BY <1>11 DEF QueueInv, Running, SendOrder
    <3>1. /\ Len(sent) = Taken + Len(order)
          /\ \A i \in 1..Len(order) : order[i] = SlotFor(Taken + i)
          /\ wr = "have" => held = SlotFor(Len(out) + 1)
      BY DEF QueueInv
    <3>2. Taken' = Taken /\ Taken \in Nat /\ wr' = wr /\ held' = held /\ out' = out
      BY <1>11, <1>t DEF SendOrder, Taken
    <3>3. \A i \in 1..Len(sent) : SlotFor(i)' = SlotFor(i)
      BY <2>2 DEF SlotFor, BlockSlot
    <3>4. /\ Len(order') = Len(order) + 1
          /\ \A i \in 1..Len(order) : order'[i] = order[i]
          /\ order'[Len(order) + 1] = SlotFor(Len(sent))'
      BY <2>4, <1>t
    <3>5. wr = "have" => Len(out) + 1 \in 1..Len(sent)
      BY <3>1, <1>t DEF Taken
    <3>6. ASSUME NEW i \in 1..Len(order')
          PROVE  order'[i] = SlotFor(Taken + i)'
      <4>1. CASE i \in 1..Len(order)
        <5>1. Taken + i \in 1..Len(sent)
          BY <3>1, <3>2, <4>1, <1>t
        <5> QED
          BY <3>1, <3>2, <3>3, <3>4, <4>1, <5>1
      <4>2. CASE i = Len(order) + 1
        <5>1. Taken' + i = Len(sent')
          BY <2>2, <3>1, <3>2, <4>2, <1>t
        <5> QED
          BY <3>4, <4>2, <5>1
      <4> QED
        BY <3>4, <4>1, <4>2, <1>t
    <3> QED
      BY <2>2, <3>1, <3>2, <3>3, <3>4, <3>5, <3>6, <1>t DEF QueueInv
  <2>6. JobInv'
    <3>1. \A j : JobOk(j) => JobOk(j)'
      BY <2>2, <1>t DEF JobOk
    <3>2. CASE Current.kind = "block"
      <4>1. JobOk(job)'
        BY <1>11, <1>t, <2>1, <2>2, <3>2 DEF SendOrder, JobOk, Chunk
      <4>2. job' # NoJob
        BY <1>11, <3>2, <1>t DEF SendOrder, NoJob
      <4> QED
        BY <1>11, <3>1, <4>1, <4>2 DEF SendOrder, JobInv
    <3>3. CASE Current.kind # "block"
      BY <1>11, <3>1, <3>3 DEF SendOrder, JobInv
    <3> QED
      BY <3>2, <3>3
  <2>7. CloseInv'
    BY <1>11 DEF CloseInv, SendOrder
  <2> QED
    BY <1>a, <2>3, <2>5, <2>6, <2>7
<1>12. CASE SendOrderFails
  <2>1. QueueInv' /\ WirePrefix'
    BY <1>12, QueueUnchanged DEF SendOrderFails
  <2>2. JobInv'
    BY <1>12 DEF SendOrderFails, Fail, JobInv, JobOk
  <2>3. CloseInv'
    BY <1>12 DEF CloseInv, SendOrderFails, Fail
  <2> QED
    BY <1>a, <2>1, <2>2, <2>3
<1>13. CASE SubmitJob
  <2>1. QueueInv' /\ WirePrefix'
    BY <1>13, QueueUnchanged DEF SubmitJob
  <2>2. JobInv'
    BY <1>13, <1>t DEF SubmitJob, JobInv, JobOk
  <2>3. CloseInv'
    BY <1>13 DEF CloseInv, SubmitJob
  <2> QED
    BY <1>a, <2>1, <2>2, <2>3
<1>14. CASE SubmitFull
  <2>1. QueueInv' /\ WirePrefix'
    BY <1>14, QueueUnchanged DEF SubmitFull
  <2>2. JobInv'
    BY <1>14 DEF SubmitFull, JobInv, JobOk
  <2>3. CloseInv'
    BY <1>14 DEF CloseInv, SubmitFull
  <2> QED
    BY <1>a, <2>1, <2>2, <2>3
<1>15. CASE SubmitFails
  <2>1. QueueInv' /\ WirePrefix'
    BY <1>15, QueueUnchanged DEF SubmitFails
  <2>2. JobInv'
    BY <1>15 DEF SubmitFails, Fail, JobInv, JobOk
  <2>3. CloseInv'
    BY <1>15 DEF CloseInv, SubmitFails, Fail
  <2> QED
    BY <1>a, <2>1, <2>2, <2>3
<1>16. CASE Return
  <2>1. QueueInv' /\ WirePrefix'
    BY <1>16, QueueUnchanged DEF Return
  <2>2. JobInv'
    BY <1>16, JobsUnchanged DEF Return
  <2>3. CloseInv'
    BY <1>16 DEF CloseInv, Return
  <2> QED
    BY <1>a, <2>1, <2>2, <2>3
<1>17. CASE CloseChannels
  <2>1. QueueInv' /\ WirePrefix'
    BY <1>17, QueueUnchanged DEF CloseChannels
  <2>2. JobInv'
    BY <1>17, JobsUnchanged DEF CloseChannels
  <2>3. CloseInv'
    BY <1>17 DEF CloseInv, CloseChannels
  <2> QED
    BY <1>a, <2>1, <2>2, <2>3
<1>18. CASE Join
  <2>1. QueueInv' /\ WirePrefix'
    BY <1>18, QueueUnchanged DEF Join, FinishResult
  <2>2. JobInv'
    BY <1>18, JobsUnchanged DEF Join, FinishResult
  <2>3. CloseInv'
    BY <1>18 DEF CloseInv, Join, FinishResult
  <2> QED
    BY <1>a, <2>1, <2>2, <2>3
<1>19. ASSUME NEW w \in Workers, WorkerTake(w)
       PROVE  OrderInv'
  <2>1. QueueInv' /\ WirePrefix'
    BY <1>19, QueueUnchanged DEF WorkerTake
  <2>2. JobInv'
    BY <1>19, <1>t DEF WorkerTake, JobInv, JobOk
  <2>3. CloseInv'
    BY <1>19 DEF CloseInv, WorkerTake
  <2> QED
    BY <1>a, <2>1, <2>2, <2>3
<1>20. ASSUME NEW w \in Workers, NEW as \in {"comp", "raw", "err"},
              WorkerFinish(w, as)
       PROVE  OrderInv'
  <2>1. QueueInv' /\ WirePrefix'
    BY <1>20, QueueUnchanged DEF WorkerFinish
  <2>2. JobInv'
    <3>1. JobOk(busy[w])
      BY <1>20 DEF WorkerFinish, JobInv
    <3>2. ASSUME NEW r \in results'
          PROVE  JobOk(r)
      <4>1. CASE r \in results
        BY <4>1 DEF JobInv
      <4>2. CASE r = [ch |-> busy[w].ch, off |-> busy[w].off,
                      len |-> busy[w].len, as |-> as]
        BY <3>1, <4>2 DEF JobOk
      <4> QED
        BY <1>20, <4>1, <4>2 DEF WorkerFinish
    <3>3. \A r \in results' : JobOk(r)'
      BY <1>20, <3>2 DEF WorkerFinish, JobOk
    <3> QED
      BY <1>20, <1>t, <3>3 DEF WorkerFinish, JobInv, JobOk
  <2>3. CloseInv'
    BY <1>20 DEF CloseInv, WorkerFinish
  <2> QED
    BY <1>a, <2>1, <2>2, <2>3
<1>21. ASSUME NEW w \in Workers, WorkerPanic(w)
       PROVE  OrderInv'
  <2>1. QueueInv' /\ WirePrefix'
    BY <1>21, QueueUnchanged DEF WorkerPanic
  <2>2. JobInv'
    BY <1>21, <1>t DEF WorkerPanic, JobInv, JobOk
  <2>3. CloseInv'
    BY <1>21 DEF CloseInv, WorkerPanic
  <2> QED
    BY <1>a, <2>1, <2>2, <2>3
<1>22. ASSUME NEW w \in Workers, WorkerUnwound(w)
       PROVE  OrderInv'
  <2>1. QueueInv' /\ WirePrefix'
    BY <1>22, QueueUnchanged DEF WorkerUnwound
  <2>2. JobInv'
    BY <1>22, <1>t DEF WorkerUnwound, JobInv, JobOk
  <2>3. CloseInv'
    BY <1>22 DEF CloseInv, WorkerUnwound
  <2> QED
    BY <1>a, <2>1, <2>2, <2>3
<1>23. ASSUME NEW w \in Workers, WorkerExit(w)
       PROVE  OrderInv'
  <2>1. QueueInv' /\ WirePrefix'
    BY <1>23, QueueUnchanged DEF WorkerExit
  <2>2. JobInv'
    BY <1>23, <1>t DEF WorkerExit, JobInv, JobOk
  <2>3. CloseInv'
    BY <1>23 DEF CloseInv, WorkerExit
  <2> QED
    BY <1>a, <2>1, <2>2, <2>3
<1>24. CASE WriterTake
  <2>1. /\ Len(order) \in Nat /\ Len(order) > 0 /\ held' = order[1]
        /\ Len(order') = Len(order) - 1
        /\ \A i \in 1..Len(order') : order'[i] = order[i + 1]
    BY <1>24, <1>t, HeadTailProperties DEF WriterTake
  <2>2. Running /\ Taken = Len(out) /\ Taken' = Len(out) + 1 /\ out' = out /\ sent' = sent
    BY <1>24 DEF WriterTake, Running, Taken
  <2>3. \A i : SlotFor(i)' = SlotFor(i)
    BY <2>2 DEF SlotFor, BlockSlot
  <2>4. QueueInv'
    <3>0. /\ Len(sent) = Len(out) + Len(order) /\ Len(out) \in Nat
          /\ \A i \in 1..Len(order) : order[i] = SlotFor(Len(out) + i)
      BY <2>2, <1>t DEF QueueInv
    <3>1. ASSUME NEW i \in 1..Len(order')
          PROVE  order'[i] = SlotFor(Taken' + i)
      <4>1. i + 1 \in 1..Len(order) /\ Len(out) + (i + 1) = Taken' + i
        BY <2>1, <2>2, <3>0
      <4> QED
        BY <2>1, <3>0, <4>1
    <3>2. held' = SlotFor(Len(out) + 1)
      BY <2>1, <3>0
    <3>3. Len(sent') = Taken' + Len(order')
      BY <2>1, <2>2, <3>0
    <3> QED
      BY <2>2, <2>3, <3>1, <3>2, <3>3 DEF QueueInv
  <2>5. WirePrefix'
    BY <2>2 DEF WirePrefix
  <2>6. JobInv'
    BY <1>24, JobsUnchanged DEF WriterTake
  <2>7. CloseInv'
    BY <1>24 DEF CloseInv, WriterTake
  <2> QED
    BY <1>a, <2>4, <2>5, <2>6, <2>7
<1>25. CASE WriteRaw
  <2>1. out' = Append(out, sent[Len(out) + 1])
    BY <1>25, RawIsNext DEF WriteRaw, Running
  <2>2. QueueInv' /\ WirePrefix'
    BY <1>25, <2>1, DeliverKeepsOrder DEF WriteRaw
  <2>3. JobInv'
    BY <1>25, JobsUnchanged DEF WriteRaw
  <2>4. CloseInv'
    BY <1>25 DEF CloseInv, WriteRaw
  <2> QED
    BY <1>a, <2>2, <2>3, <2>4
<1>26. ASSUME NEW r \in results, WriteBlock(r)
       PROVE  OrderInv'
  <2>1. out' = Append(out, sent[Len(out) + 1])
    BY <1>26, ResultIsNext DEF WriteBlock
  <2>2. QueueInv' /\ WirePrefix'
    BY <1>26, <2>1, DeliverKeepsOrder DEF WriteBlock
  <2>3. JobInv'
    BY <1>26, JobsUnchanged DEF WriteBlock
  <2>4. CloseInv'
    BY <1>26 DEF CloseInv, WriteBlock
  <2> QED
    BY <1>a, <2>2, <2>3, <2>4
<1>27. ASSUME NEW r \in results, WriteEncodeError(r)
       PROVE  OrderInv'
  <2>1. QueueInv' /\ WirePrefix'
    BY <1>27, QueueStopped DEF WriteEncodeError, Record
  <2>2. JobInv'
    BY <1>27, JobsUnchanged DEF WriteEncodeError, Record
  <2>3. CloseInv'
    BY <1>27 DEF CloseInv, WriteEncodeError, Record
  <2> QED
    BY <1>a, <2>1, <2>2, <2>3
<1>28. CASE WriteFails
  <2>1. QueueInv' /\ WirePrefix'
    BY <1>28, QueueStopped DEF WriteFails, Record
  <2>2. JobInv'
    BY <1>28, JobsUnchanged DEF WriteFails, Record
  <2>3. CloseInv'
    BY <1>28 DEF CloseInv, WriteFails, Record
  <2> QED
    BY <1>a, <2>1, <2>2, <2>3
<1>29. CASE WorkerLost
  <2>1. QueueInv' /\ WirePrefix'
    BY <1>29, QueueStopped DEF WorkerLost, GiveUp, Record
  <2>2. JobInv'
    BY <1>29, JobsUnchanged DEF WorkerLost, GiveUp, Record
  <2>3. CloseInv'
    BY <1>29 DEF CloseInv, WorkerLost, GiveUp, Record
  <2> QED
    BY <1>a, <2>1, <2>2, <2>3
<1>30. CASE WriteTrailer
  <2>1. QueueInv' /\ WirePrefix'
    BY <1>30, QueueStopped DEF WriteTrailer
  <2>2. JobInv'
    BY <1>30, JobsUnchanged DEF WriteTrailer
  <2>3. out = sent
    <3>1. Len(out) = Len(sent)
      BY <1>30, <1>t DEF WriteTrailer, QueueInv, Running, Taken
    <3> QED
      BY <3>1, <1>t, SeqEqual DEF WirePrefix
  <2>4. CloseInv'
    BY <1>30, <2>3 DEF CloseInv, WriteTrailer
  <2> QED
    BY <1>a, <2>1, <2>2, <2>4
<1>31. CASE TrailerFails
  <2>1. QueueInv' /\ WirePrefix'
    BY <1>31, QueueStopped DEF TrailerFails, Record
  <2>2. JobInv'
    BY <1>31, JobsUnchanged DEF TrailerFails, Record
  <2>3. CloseInv'
    BY <1>31 DEF CloseInv, TrailerFails, Record
  <2> QED
    BY <1>a, <2>1, <2>2, <2>3
<1>32. CASE WriterExit
  <2>1. QueueInv' /\ WirePrefix'
    BY <1>32, QueueStopped DEF WriterExit, DropReceivers
  <2>2. JobInv'
    BY <1>32, JobsUnchanged DEF WriterExit, DropReceivers
  <2>3. CloseInv'
    BY <1>32 DEF CloseInv, WriterExit, DropReceivers
  <2> QED
    BY <1>a, <2>1, <2>2, <2>3
<1>33. CASE WriterPanic
  <2>1. QueueInv' /\ WirePrefix'
    BY <1>33, QueueStopped DEF WriterPanic, DropReceivers
  <2>2. JobInv'
    BY <1>33, JobsUnchanged DEF WriterPanic, DropReceivers
  <2>3. CloseInv'
    BY <1>33 DEF CloseInv, WriterPanic, DropReceivers
  <2> QED
    BY <1>a, <2>1, <2>2, <2>3
<1>34. CASE UNCHANGED vars
  <2>1. QueueInv' /\ WirePrefix'
    BY <1>34, QueueUnchanged DEF vars
  <2>2. JobInv'
    BY <1>34, JobsUnchanged DEF vars
  <2>3. CloseInv'
    BY <1>34 DEF CloseInv, vars
  <2> QED
    BY <1>a, <2>1, <2>2, <2>3
<1> QED
  BY <1>1, <1>2, <1>3, <1>4, <1>5, <1>6, <1>7, <1>8, <1>9, <1>10, <1>11,
     <1>12, <1>13, <1>14, <1>15, <1>16, <1>17, <1>18, <1>19, <1>20, <1>21,
     <1>22, <1>23, <1>24, <1>25, <1>26, <1>27, <1>28, <1>29, <1>30, <1>31,
     <1>32, <1>33, <1>34
     DEF Next, Start, CallerStep, WorkerStep, WriterStep, Panic, Terminated

\* The sink receives the chunks in submission order, whatever the workers do.
THEOREM WireOrder == Spec => []WirePrefix
PROOF
<1>1. OrderInv => WirePrefix
  BY DEF OrderInv
<1> QED
  BY <1>1, OrderInvInit, OrderInvStep, PTL DEF Spec

----------------------------------------------------------------------------
(* Refinement.  A successful order send accepts, a successful write         *)
(* delivers, the final join ends the session; every other step stutters.    *)

\* A step that leaves the wire, the slots and the result alone is a stutter of OrderedSink.
LEMMA SinkUnchanged ==
  ASSUME UNCHANGED <<sent, out>>,
         \/ UNCHANGED <<pc, ret>>
         \/ pc # "ended" /\ pc' # "ended"
  PROVE  UNCHANGED Sink!sinkVars
  BY DEF Sink!sinkVars, SinkResult

\* Writing the next slot to the wire is a Deliver of OrderedSink.
LEMMA SinkDeliver ==
  ASSUME OrderInv, wr = "have", UNCHANGED <<sent, pc, ret>>,
         out' = Append(out, sent[Len(out) + 1])
  PROVE  Sink!Deliver
PROOF
<1>1. sent \in Seq(Chunk) /\ out \in Seq(Chunk) /\ order \in Seq(OrderItem)
  BY DEF OrderInv, TypeInv, TypeOK, GhostTypeOK, SharedTypeOK, WriterTypeOK
<1>2. Len(out) < Len(sent)
  BY <1>1 DEF OrderInv, QueueInv, Running, Taken
<1>3. SinkResult = "open" /\ SinkResult' = SinkResult
  BY DEF OrderInv, CloseInv, SinkResult
<1> QED
  BY <1>2, <1>3 DEF Sink!Deliver

\* Every step of the pipeline is a step or a stutter of OrderedSink.
LEMMA SinkStep ==
  ASSUME OrderInv, [Next]_vars
  PROVE  [Sink!Next]_(Sink!sinkVars)
PROOF
<1> USE DEF callerVars, ghostVars, writerVars, vars
<1>1. ASSUME NEW n \in 0..MaxBytes, Write(n) \/ EncodeBuffer(n)
      PROVE  UNCHANGED Sink!sinkVars
  BY <1>1, SinkUnchanged DEF Write, EncodeBuffer, Begin, Idle
<1>2. ASSUME Flush \/ AddUserChunk \/ Finish
      PROVE  UNCHANGED Sink!sinkVars
  BY <1>2, SinkUnchanged DEF Flush, AddUserChunk, Finish, Begin, Idle
<1>3. ASSUME CallRefused \/ FinishRefused \/ DropWriter
      PROVE  UNCHANGED Sink!sinkVars
  BY <1>3, SinkUnchanged DEF CallRefused, FinishRefused, DropWriter, Idle
<1>4. ASSUME CheckErrFails \/ SendOrderFails \/ SubmitFails
      PROVE  UNCHANGED Sink!sinkVars
  BY <1>4, SinkUnchanged DEF CheckErrFails, SendOrderFails, SubmitFails, Fail
<1>5. ASSUME Prepare \/ SubmitJob \/ SubmitFull \/ Return \/ CloseChannels
      PROVE  UNCHANGED Sink!sinkVars
  BY <1>5, SinkUnchanged DEF Prepare, SubmitJob, SubmitFull, Return, CloseChannels
<1>6. ASSUME SendOrder
      PROVE  Sink!Accept
  <2>1. sent \in Seq(Chunk) /\ sent' = Append(sent, Current) /\ out' = out
    BY <1>6 DEF SendOrder, OrderInv, TypeInv, TypeOK, GhostTypeOK
  <2>2. sent' \in Seq(Chunk)
    BY TypeInvStep DEF OrderInv, TypeInv, TypeOK, GhostTypeOK
  <2>3. Len(sent') = Len(sent) + 1 /\ \A i \in 1..Len(sent) : sent'[i] = sent[i]
    BY <2>1, <2>2
  <2>4. SinkResult = "open" /\ SinkResult' = SinkResult
    BY <1>6 DEF SendOrder, SinkResult
  <2> QED
    BY <2>1, <2>3, <2>4 DEF Sink!Accept
<1>7. ASSUME Join
      PROVE  Sink!EndOk \/ Sink!EndErr
  <2>1. SinkResult = "open" /\ UNCHANGED <<sent, out>> /\ ret # "ok"
    BY <1>7 DEF Join, SinkResult, OrderInv, CloseInv
  <2>2. CASE ret' = "ok"
    <3>1. fin = "ok" /\ pc' = "ended"
      BY <1>7, <2>1, <2>2 DEF Join, FinishResult
    <3>2. out = sent
      BY <3>1 DEF OrderInv, CloseInv
    <3> QED
      BY <2>1, <2>2, <3>1, <3>2 DEF Sink!EndOk, SinkResult
  <2>3. CASE ret' # "ok"
    BY <1>7, <2>1, <2>3 DEF Join, Sink!EndErr, SinkResult
  <2> QED
    BY <2>2, <2>3
<1>8. ASSUME NEW w \in Workers, WorkerStep(w) \/ WorkerPanic(w)
      PROVE  UNCHANGED Sink!sinkVars
  BY <1>8, SinkUnchanged
     DEF WorkerStep, WorkerTake, WorkerFinish, WorkerPanic, WorkerUnwound, WorkerExit
<1>9. ASSUME WriteRaw
      PROVE  Sink!Deliver
  BY <1>9, RawIsNext, SinkDeliver DEF WriteRaw, OrderInv
<1>10. ASSUME NEW r \in results, WriteBlock(r)
       PROVE  Sink!Deliver
  BY <1>10, ResultIsNext, SinkDeliver DEF WriteBlock, OrderInv
<1>11. ASSUME NEW r \in results, WriteEncodeError(r)
       PROVE  UNCHANGED Sink!sinkVars
  BY <1>11, SinkUnchanged DEF WriteEncodeError
<1>12. ASSUME WriterTake \/ WriteFails \/ WorkerLost \/ WriteTrailer \/ TrailerFails
              \/ WriterExit \/ WriterPanic
       PROVE  UNCHANGED Sink!sinkVars
  BY <1>12, SinkUnchanged
     DEF WriterTake, WriteFails, WorkerLost, WriteTrailer, TrailerFails, WriterExit,
         WriterPanic
<1>13. ASSUME UNCHANGED vars
       PROVE  UNCHANGED Sink!sinkVars
  BY <1>13, SinkUnchanged
<1> QED
  BY <1>1, <1>2, <1>3, <1>4, <1>5, <1>6, <1>7, <1>8, <1>9, <1>10, <1>11, <1>12, <1>13
     DEF Next, Start, CallerStep, WriterStep, Panic, Terminated, Sink!Next

\* The pipeline implements OrderedSink: submission order is delivery order, and
\* finish succeeds only with everything delivered.
THEOREM ImplementsOrderedSink == Spec => KeepsOrderedSink
PROOF
<1>1. Init => Sink!Init
  BY DEF Init, Sink!Init, SinkResult
<1> QED
  BY <1>1, OrderInvInit, OrderInvStep, SinkStep, PTL DEF Spec, KeepsOrderedSink, Sink!Spec

----------------------------------------------------------------------------
(* What MtWriter puts on the sink is the stream its caller meant, whatever   *)
(* fails and however the caller goes on after a failure: WireContiguous,     *)
(* EofComplete, IndexExact and NoSilentLoss as theorems.                     *)

----------------------------------------------------------------------------
(* The inductive invariant.                                                  *)

\* Where the data in front of the next chunk ends.
End(c) == IF c.kind = "block" THEN c.off + c.len ELSE c.off
EndOf(s) == IF s = <<>> THEN 0 ELSE End(s[Len(s)])

\* The first n chunks of s stand one behind the other from the first byte on.
Linked(s, n) == /\ n >= 1 => s[1].off = 0
                /\ \A i \in 1..(n - 1) : s[i + 1].off = End(s[i])

\* s takes the stream from offset a to offset b.
Leads(s, a, b) ==
  IF s = <<>> THEN a = b
  ELSE /\ s[1].off = a
       /\ \A i \in 1..(Len(s) - 1) : s[i + 1].off = End(s[i])
       /\ End(s[Len(s)]) = b

InCall == pc \in {"step", "order", "try", "blocked"}
Closing == pc \in {"close", "close2", "join", "ended"}
Submitting == pc \in {"try", "blocked"}

\* The error slot is filled only by a writer thread that has stopped.
ErrInv == /\ err # "none" => ~Running
          /\ wr = "failing" => err # "none"

\* The job in hand is for the chunk submitted last, and nobody else has it.
NewestInv ==
  /\ ~Submitting => job = NoJob
  /\ Submitting => /\ job.ch = Len(sent) /\ Len(out) < Len(sent)
                   /\ \A w \in Workers : slot[w].ch < Len(sent) /\ busy[w].ch < Len(sent)
                   /\ \A r \in results : r.ch < Len(sent)

\* As long as no call has failed: what was submitted, what this call has still
\* to submit and what waits in ibuf are the data in order; uncomp_written runs
\* one block ahead between the count and the submission.
LinkInv ==
  /\ ~InCall => work = <<>>
  /\ ~failed => /\ Linked(sent, Len(sent))
                /\ Leads(work, EndOf(sent), accepted - ibuf)
                /\ uncomp = EndOf(sent) + (IF pc = "order" /\ Head(work).kind = "block"
                                           THEN Head(work).len ELSE 0)

\* The block submitted as number c will never get a result.
Dead(c) == sent[c].kind = "block" /\ ~Answerable(c)

\* Once a call has failed the chunks may have gaps, but behind a block that the
\* writer thread cannot get past.
GapInv ==
  failed /\ Running => \E c \in (Len(out) + 1)..Len(sent) : Dead(c) /\ Linked(sent, c)

\* The stream header comes first, once.
HeaderInv ==
  ~failed => /\ sent # <<>> => sent[1].kind = "header"
             /\ sent = <<>> /\ work # <<>> => Head(work).kind = "header"
             /\ sent = <<>> => (wroteHeader <=> pc = "order")
             /\ ~wroteHeader => sent = <<>>

\* The EOF chunk is the last thing ever submitted.
EofInv ==
  /\ \A i \in 1..Len(work) : work[i].kind = "eof" =>
       i = Len(work) /\ call = "finish" /\ ibuf = 0
  /\ \A i \in 1..Len(sent) : sent[i].kind = "eof" =>
       /\ i = Len(sent) /\ work = <<>> /\ ibuf = 0
       /\ (pc = "step" /\ call = "finish") \/ Closing
       /\ ~failed => sent[i].len = accepted
       /\ i <= Len(out) => ~failed
  /\ call = "finish" =>
       /\ pc # "idle"
       /\ \/ work # <<>> /\ work[Len(work)].kind = "eof"
          \/ work = <<>> /\ sent # <<>> /\ sent[Len(sent)].kind = "eof"

\* The sink's end is where writer_loop believes it to be.
WireInv ==
  /\ WireContiguous
  /\ uncompW = EndOf(out)
  /\ Adjacent(out, 0, Len(out) + 1) => uncompW = 0

\* Nothing follows the trailer; finish succeeds only without a failed call.
EndInv ==
  /\ trailer # <<>> => ~Running
  /\ \A i \in 1..Len(trailer) : trailer[i].kind = "index" => trailer[i].len = uncompW
  /\ fin = "ok" => ~failed
  /\ ret = "ok" => call = "finish"

IndexInv ==
  /\ IndexExact
  /\ \A i \in 1..Len(index) : index[i].comp <= Len(out)
  /\ Running => \A i \in 1..Len(index) : index[i].comp < Len(out)

\* The inductive invariant of this module.
StreamInv == /\ OrderInv /\ ErrInv /\ NewestInv /\ LinkInv /\ GapInv
             /\ HeaderInv /\ EofInv /\ WireInv /\ EndInv /\ IndexInv

----------------------------------------------------------------------------
(* Sequences of chunks.                                                      *)

\* A chunk ends at a number of bytes.
LEMMA EndType == \A c \in Chunk : End(c) \in Nat
  BY DEF End, Chunk

\* So does a sequence of chunks.
LEMMA EndOfType == \A s \in Seq(Chunk) : EndOf(s) \in Nat
  BY EndType DEF EndOf

\* The parts of a stream, one behind the other, lead where the whole does.
LEMMA LeadsConcat ==
  ASSUME NEW s \in Seq(Chunk), NEW t \in Seq(Chunk), NEW a \in Nat, NEW b \in Nat,
         NEW c \in Nat, Leads(s, a, b), Leads(t, b, c)
  PROVE  Leads(s \o t, a, c)
PROOF
<1> DEFINE u == s \o t
<1>1. /\ u \in Seq(Chunk) /\ Len(u) = Len(s) + Len(t)
      /\ \A i \in 1..Len(s) : u[i] = s[i]
      /\ \A i \in 1..Len(t) : u[Len(s) + i] = t[i]
      /\ Len(s) \in Nat /\ Len(t) \in Nat
  BY ConcatProperties
<1>2. CASE s = <<>>
  <2>1. u = t
    BY <1>2
  <2> QED
    BY <1>2, <2>1 DEF Leads
<1>3. CASE t = <<>>
  <2>1. u = s
    BY <1>3
  <2> QED
    BY <1>3, <2>1 DEF Leads
<1>4. CASE s # <<>> /\ t # <<>>
  <2>1. Len(s) >= 1 /\ Len(t) >= 1 /\ u # <<>>
    BY <1>4, <1>1
  <2> HIDE DEF u
  <2>2. u[1].off = a /\ End(u[Len(u)]) = c
    <3>1. u[1] = s[1] /\ u[Len(u)] = t[Len(t)]
      BY <1>1, <2>1
    <3> QED
      BY <3>1, <1>4 DEF Leads
  <2>3. ASSUME NEW i \in 1..(Len(u) - 1)
        PROVE  u[i + 1].off = End(u[i])
    <3>1. CASE i < Len(s)
      <4>1. i \in 1..(Len(s) - 1) /\ u[i] = s[i] /\ u[i + 1] = s[i + 1]
        BY <3>1, <1>1
      <4> QED
        BY <4>1, <1>4 DEF Leads
    <3>2. CASE i = Len(s)
      <4>1. u[i] = s[Len(s)] /\ u[i + 1] = t[1]
        BY <3>2, <1>1, <2>1
      <4> QED
        BY <4>1, <1>4 DEF Leads
    <3>3. CASE i > Len(s)
      <4>1. PICK k \in 1..(Len(t) - 1) : i = Len(s) + k
        <5>1. i - Len(s) \in 1..(Len(t) - 1)
          BY <3>3, <1>1
        <5>2. i = Len(s) + (i - Len(s))
          BY <1>1
        <5> QED
          BY <5>1, <5>2
      <4>2. u[i] = t[k] /\ u[i + 1] = t[k + 1]
        <5>1. i + 1 = Len(s) + (k + 1) /\ k \in 1..Len(t) /\ k + 1 \in 1..Len(t)
          BY <4>1, <1>1
        <5> QED
          BY <5>1, <4>1, <1>1
      <4> QED
        BY <4>2, <1>4 DEF Leads
    <3> QED
      BY <3>1, <3>2, <3>3, <1>1
  <2> QED
    BY <2>1, <2>2, <2>3 DEF Leads, u
<1> QED
  BY <1>2, <1>3, <1>4

\* One chunk leads to its end.
LEMMA LeadsOne ==
  ASSUME NEW x \in Chunk
  PROVE  <<x>> \in Seq(Chunk) /\ Leads(<<x>>, x.off, End(x))
  BY DEF Leads

\* The first chunk taken off, the rest leads on from its end.
LEMMA LeadsTail ==
  ASSUME NEW s \in Seq(Chunk), NEW a \in Nat, NEW b \in Nat, Leads(s, a, b), s # <<>>
  PROVE  /\ Head(s).off = a
         /\ Leads(Tail(s), End(Head(s)), b)
PROOF
<1>1. /\ Head(s) = s[1] /\ Len(s) \in Nat /\ Len(s) >= 1
      /\ Tail(s) \in Seq(Chunk) /\ Len(Tail(s)) = Len(s) - 1
      /\ \A i \in 1..Len(Tail(s)) : Tail(s)[i] = s[i + 1]
  BY HeadTailProperties
<1>2. CASE Tail(s) = <<>>
  <2>0. Len(<<>>) = 0
    OBVIOUS
  <2>a. Len(s) - 1 = 0
    BY <1>1, <1>2, <2>0, Zenon
  <2>b. Len(s) \in Nat
    BY <1>1
  <2>1. Len(s) = 1
    BY <2>a, <2>b
  <2>2. s[1].off = a /\ End(s[Len(s)]) = b
    BY DEF Leads
  <2>3. End(Head(s)) = b
    BY <1>1, <2>1, <2>2
  <2> QED
    BY <1>1, <1>2, <2>2, <2>3 DEF Leads
<1>3. CASE Tail(s) # <<>>
  <2>1. Len(Tail(s)) >= 1
    BY <1>1, <1>3
  <2>2. Tail(s)[1].off = End(s[1]) /\ Tail(s)[Len(Tail(s))] = s[Len(s)]
    BY <2>1, <1>1 DEF Leads
  <2>3. ASSUME NEW i \in 1..(Len(Tail(s)) - 1)
        PROVE  Tail(s)[i + 1].off = End(Tail(s)[i])
    <3>1. Tail(s)[i] = s[i + 1] /\ Tail(s)[i + 1] = s[(i + 1) + 1] /\ i + 1 \in 1..(Len(s) - 1)
      BY <1>1
    <3> QED
      BY <3>1 DEF Leads
  <2> QED
    BY <1>1, <1>3, <2>2, <2>3 DEF Leads
<1> QED
  BY <1>2, <1>3

\* What write_blocks cuts from n bytes at offset o covers them without a gap.
LEMMA BlocksLead ==
  ASSUME NEW o \in Nat, NEW n \in Nat
  PROVE  /\ Blocks(o, n) \in Seq(Chunk)
         /\ Leads(Blocks(o, n), o, o + n)
         /\ \A i \in 1..Len(Blocks(o, n)) : Blocks(o, n)[i].kind = "block"
         /\ n > 0 => Blocks(o, n) # <<>>
PROOF
<1> DEFINE k == (n + BlockSize - 1) \div BlockSize
           s == Blocks(o, n)
<1>1. k \in Nat /\ k * BlockSize <= n + BlockSize - 1 /\ n + BlockSize - 1 < k * BlockSize + BlockSize
  BY BlockSizeAssumption
<1>2. /\ s \in Seq(Chunk) /\ Len(s) = k
      /\ \A i \in 1..k : s[i] = LET at == (i - 1) * BlockSize
                                 IN [kind |-> "block", off |-> o + at,
                                     len |-> IF n - at < BlockSize THEN n - at ELSE BlockSize]
  BY <1>1, BlocksType DEF Blocks
<1>3. n = 0 => k = 0
  BY BlockSizeAssumption
<1>4. n > 0 => k >= 1
  BY <1>1, BlockSizeAssumption
<1> HIDE DEF k, s
<1>5. CASE n = 0
  <2>1. s = <<>>
    BY <1>2, <1>3, <1>5
  <2> QED
    BY <1>2, <1>5, <2>1 DEF Leads, s
<1>6. CASE n > 0
  <2>1. s # <<>> /\ k >= 1
    BY <1>2, <1>4, <1>6
  <2>2. s[1].off = o
    BY <1>2, <2>1, <1>1, BlockSizeAssumption
  <2>3. ASSUME NEW i \in 1..(k - 1)
        PROVE  s[i + 1].off = End(s[i])
    <3>1. /\ i * BlockSize \in Nat /\ (i - 1) * BlockSize \in Nat
          /\ i * BlockSize = (i - 1) * BlockSize + BlockSize
          /\ (k - 1) * BlockSize + BlockSize = k * BlockSize
      BY <1>1, BlockSizeAssumption
    <3>2. i * BlockSize <= (k - 1) * BlockSize
      BY <1>1, BlockSizeAssumption
    <3>3. ~(n - (i - 1) * BlockSize < BlockSize)
      BY <1>1, <3>1, <3>2, BlockSizeAssumption
    <3>4. s[i].kind = "block" /\ s[i].off = o + (i - 1) * BlockSize /\ s[i].len = BlockSize
      BY <1>1, <1>2, <3>3
    <3>5. s[i + 1].off = o + i * BlockSize
      BY <1>1, <1>2
    <3> QED
      BY <3>1, <3>4, <3>5, BlockSizeAssumption DEF End
  <2>4. End(s[Len(s)]) = o + n
    <3>1. (k - 1) * BlockSize + BlockSize = k * BlockSize /\ (k - 1) * BlockSize \in Nat
      BY <1>1, <2>1, BlockSizeAssumption
    <3>2. n - (k - 1) * BlockSize <= BlockSize
      BY <1>1, <3>1, BlockSizeAssumption
    <3>3. s[k].kind = "block" /\ s[k].off = o + (k - 1) * BlockSize
      BY <1>1, <1>2, <2>1
    <3>4. s[k].len = n - (k - 1) * BlockSize
      BY <1>1, <1>2, <2>1, <3>1, <3>2, BlockSizeAssumption
    <3> QED
      BY <1>2, <3>1, <3>3, <3>4 DEF End
  <2>5. \A i \in 1..k : s[i].kind = "block"
    BY <1>2
  <2> QED
    BY <1>2, <2>1, <2>2, <2>3, <2>4, <2>5 DEF Leads, s
<1> QED
  BY <1>5, <1>6

----------------------------------------------------------------------------
(* The steps.  Start is the caller's operations that hand over work, Refuse   *)
(* the ones that do not, Abort the ways in which a call fails.               *)

Beginning == \/ \E n \in 0..MaxBytes : Write(n) \/ EncodeBuffer(n)
             \/ Flush \/ AddUserChunk \/ Finish
Refusing == CallRefused \/ FinishRefused \/ DropWriter
Aborting == CheckErrFails \/ SendOrderFails \/ SubmitFails

\* A call begins: only the caller's own state changes.
LEMMA BeginningFrame ==
  ASSUME Beginning
  PROVE  /\ pc = "idle" /\ pc' = "step" /\ call' # "none" /\ call' # "drop"
         /\ call' = "finish" => Finish
         /\ UNCHANGED <<job, cur, tried, next, wroteHeader, uncomp, ret, sent, failed,
                        unexplained, order, orderOpen, slot, submitOpen, results, err,
                        inPool, outPool, wst, busy, wr, held, out, trailer, uncompW,
                        index, fin>>
  BY DEF Beginning, Write, EncodeBuffer, Flush, AddUserChunk, Finish, Begin, Idle,
     writerVars

\* What a call that is refused leaves alone.
LEMMA RefusingFrame ==
  ASSUME Refusing
  PROVE  /\ pc = "idle" /\ pc' \in {"idle", "close"} /\ call' \in {call, "drop"}
         /\ pc' = "close" \/ pc' = pc
         /\ ret' \in {ret, "err"}
         /\ err # "none" \/ failed' = failed
         /\ failed => failed'
         /\ UNCHANGED <<job, cur, tried, next, ibuf, work, accepted, chunks, wroteHeader,
                        uncomp, sent, unexplained, order, orderOpen, slot, submitOpen,
                        results, err, inPool, outPool, wst, busy, wr, held, out, trailer,
                        uncompW, index, fin>>
  BY DEF Refusing, CallRefused, FinishRefused, DropWriter, Idle, callerVars, ghostVars,
     writerVars

\* A call fails: the work it had left is dropped, and the job in hand.
LEMMA AbortingFrame ==
  ASSUME Aborting
  PROVE  /\ InCall
         /\ failed' = TRUE /\ ibuf' = 0 /\ work' = <<>> /\ job' = NoJob
         /\ pc' = (IF call = "finish" THEN "close" ELSE "idle")
         /\ call' = (IF call = "finish" THEN "drop" ELSE "none")
         /\ ret' \in {ret, "err"}
         /\ Submitting \/ err # "none" \/ wr = "gone"
         /\ pc = "step" => work # <<>>
         /\ UNCHANGED <<cur, tried, next, wroteHeader, uncomp, accepted, chunks, sent,
                        order, orderOpen, slot, submitOpen, results, err, outPool, wst,
                        busy, wr, held, out, trailer, uncompW, index, fin>>
  BY DEF Aborting, CheckErrFails, SendOrderFails, SubmitFails, Fail, InCall,
     Submitting, writerVars

\* The steps of a worker touch no variable of the caller or of the writer thread.
LEMMA WorkerFrame ==
  ASSUME NEW w \in Workers, WorkerStep(w) \/ WorkerPanic(w)
  PROVE  UNCHANGED <<callerVars, ghostVars, order, orderOpen, submitOpen, err, inPool,
                     writerVars>>
  BY DEF WorkerStep, WorkerTake, WorkerFinish, WorkerPanic, WorkerUnwound, WorkerExit

\* The writer thread stops without having ended the stream.
Stopping == \/ \E r \in results : WriteEncodeError(r)
            \/ WriteFails \/ WorkerLost \/ WriterExit \/ WriterPanic

\* What the writer thread's last steps leave alone.
LEMMA StoppingFrame ==
  ASSUME Stopping
  PROVE  /\ wr' \notin {"recv", "have"}
         /\ results' \subseteq results
         /\ fin' \in {fin, "err"}
         /\ UNCHANGED <<callerVars, ghostVars, orderOpen, slot, submitOpen, wst, busy,
                        held, out, uncompW>>
  BY DEF Stopping, WriteEncodeError, WriteFails, WorkerLost, GiveUp, Record,
     WriterExit, WriterPanic,
     DropReceivers

\* Every step is one of these.
LEMMA StepKinds ==
  ASSUME [Next]_vars
  PROVE  \/ Beginning \/ Refusing \/ Aborting
         \/ Prepare \/ SendOrder \/ SubmitJob \/ SubmitFull \/ Return \/ CloseChannels \/ Join
         \/ \E w \in Workers : WorkerStep(w) \/ WorkerPanic(w)
         \/ WriterTake \/ WriteRaw \/ \E r \in results : WriteBlock(r)
         \/ WriteTrailer \/ TrailerFails \/ Stopping
         \/ UNCHANGED vars
  BY DEF Next, Start, CallerStep, WriterStep, Panic, Terminated, Beginning, Refusing,
     Aborting,
     Stopping

\* The error slot is filled by the step that stops the writer thread.
LEMMA ErrInvStep ==
  ASSUME StreamInv, [Next]_vars
  PROVE  ErrInv'
PROOF
<1> USE DEF StreamInv, ErrInv, Running
<1>0. wr \in {"recv", "have", "failing", "gone"}
  BY DEF OrderInv, TypeInv, TypeOK, WriterTypeOK
<1>1. CASE UNCHANGED <<err, wr>>
  BY <1>1
<1>2. CASE WriterTake \/ WriteRaw \/ (\E r \in results : WriteBlock(r)) \/ WriteTrailer
  BY <1>2 DEF WriterTake, WriteRaw, WriteBlock, WriteTrailer
<1>3. CASE TrailerFails \/ Stopping
  BY <1>3 DEF TrailerFails, Stopping, WriteEncodeError, WriteFails, WorkerLost, GiveUp,
     Record,
     WriterExit, WriterPanic, DropReceivers
<1>4. CASE Prepare \/ SendOrder \/ SubmitJob \/ SubmitFull \/ Return \/ CloseChannels \/ Join
  BY <1>4, <1>1 DEF Prepare, SendOrder, SubmitJob, SubmitFull, Return, CloseChannels,
     Join, writerVars
<1> QED
  BY <1>1, <1>2, <1>3, <1>4, StepKinds, BeginningFrame, RefusingFrame, AbortingFrame,
     WorkerFrame
  DEF vars, writerVars

\* The channel of a job or result was handed out before.
LEMMA ChannelsBelow ==
  ASSUME OrderInv
  PROVE  /\ Len(sent) \in Nat
         /\ \A w \in Workers : /\ slot[w].ch \in 0..Len(sent)
                               /\ busy[w].ch \in 0..Len(sent)
         /\ \A r \in results : r.ch \in 1..Len(sent)
PROOF
<1>1. Len(sent) \in Nat
  BY DEF OrderInv, TypeInv, TypeOK, GhostTypeOK
<1>2. NoJob.ch = 0
  BY DEF NoJob
<1>3. ASSUME NEW w \in Workers
      PROVE  slot[w].ch \in 0..Len(sent) /\ busy[w].ch \in 0..Len(sent)
  <2>1. /\ slot[w] = NoJob \/ slot[w].ch \in 1..Len(sent)
        /\ busy[w] = NoJob \/ busy[w].ch \in 1..Len(sent)
    BY DEF OrderInv, JobInv, JobOk
  <2> QED
    BY <1>1, <1>2, <2>1
<1>4. \A r \in results : r.ch \in 1..Len(sent)
  BY DEF OrderInv, JobInv, JobOk
<1> QED
  BY <1>1, <1>3, <1>4

\* The chunk the writer thread puts on the sink is the next one; when a job is
\* in hand it is not that job's block.
LEMMA DeliverNext ==
  ASSUME StreamInv, WriteRaw \/ \E r \in results : WriteBlock(r)
  PROVE  /\ Running
         /\ Len(out) + 1 \in 1..Len(sent)
         /\ sent[Len(out) + 1] \in Chunk
         /\ out' = Append(out, sent[Len(out) + 1])
         /\ Submitting => Len(out) + 1 < Len(sent)
         /\ ~Dead(Len(out) + 1)
         /\ wr' = "recv" /\ results' \subseteq results
         /\ UNCHANGED <<callerVars, ghostVars, order, orderOpen, slot, submitOpen, err,
                        wst, busy, held, trailer, fin>>
PROOF
<1>1. sent \in Seq(Chunk) /\ out \in Seq(Chunk) /\ order \in Seq(OrderItem)
  BY DEF StreamInv, OrderInv, TypeInv, TypeOK, GhostTypeOK, SharedTypeOK, WriterTypeOK
<1>2. wr = "have" /\ Running
  BY DEF WriteRaw, WriteBlock, Running
<1>3. Len(out) + 1 \in 1..Len(sent) /\ held = SlotFor(Len(out) + 1)
  BY <1>1, <1>2 DEF StreamInv, OrderInv, QueueInv, Taken
<1>4. sent[Len(out) + 1] \in Chunk
  BY <1>1, <1>3
<1>5. CASE WriteRaw
  <2>1. out' = Append(out, sent[Len(out) + 1])
    BY <1>5, RawIsNext DEF WriteRaw, StreamInv, OrderInv
  <2>2. sent[Len(out) + 1].kind # "block"
    BY <1>3, <1>5 DEF WriteRaw, SlotFor, BlockSlot
  <2>3. Submitting => Len(out) + 1 # Len(sent)
    <3>1. Submitting => sent[Len(sent)].kind = "block"
      BY DEF StreamInv, NewestInv, OrderInv, JobInv, JobOk, Submitting
    <3> QED
      BY <2>2, <3>1
  <2> QED
    BY <1>1, <1>2, <1>3, <1>4, <1>5, <2>1, <2>2, <2>3 DEF WriteRaw, Dead
<1>6. ASSUME NEW r \in results, WriteBlock(r)
      PROVE  /\ out' = Append(out, sent[Len(out) + 1])
             /\ Submitting => Len(out) + 1 < Len(sent)
             /\ ~Dead(Len(out) + 1)
             /\ wr' = "recv" /\ results' \subseteq results
             /\ UNCHANGED <<callerVars, ghostVars, order, orderOpen, slot, submitOpen, err,
                            wst, busy, held, trailer, fin>>
  <2>1. out' = Append(out, sent[Len(out) + 1])
    BY <1>6, ResultIsNext DEF WriteBlock, StreamInv, OrderInv
  <2>2. r.ch = Len(out) + 1
    BY <1>3, <1>6 DEF WriteBlock, Answers, SlotFor, BlockSlot
  <2>3. Submitting => r.ch < Len(sent)
    BY DEF StreamInv, NewestInv
  <2>4. ~Dead(Len(out) + 1)
    BY <2>2 DEF Dead, Answerable
  <2> QED
    BY <1>6, <2>1, <2>2, <2>3, <2>4 DEF WriteBlock
<1> QED
  BY <1>2, <1>3, <1>4, <1>5, <1>6

\* The job in hand stays the newest.
LEMMA NewestInvStep ==
  ASSUME StreamInv, [Next]_vars
  PROVE  NewestInv'
PROOF
<1> USE DEF StreamInv, NewestInv, Submitting
<1>t. /\ sent \in Seq(Chunk) /\ out \in Seq(Chunk) /\ Len(sent) \in Nat /\ Len(out) \in Nat
      /\ slot \in [Workers -> Job] /\ busy \in [Workers -> Job] /\ cur \in Workers
      /\ job \in Job /\ wst \in [Workers -> {"idle", "busy", "unwind", "gone"}]
  BY DEF OrderInv, TypeInv, TypeOK, CallerTypeOK, GhostTypeOK, SharedTypeOK, WorkerTypeOK,
     WriterTypeOK
<1>1. CASE /\ UNCHANGED <<job, sent, out, slot, busy>> /\ results' \subseteq results
           /\ Submitting' = Submitting
  BY <1>1
<1>2. CASE /\ job' = NoJob /\ ~Submitting'
  BY <1>2
<1>3. CASE SendOrder
  <2>1. WirePrefix
    BY DEF OrderInv
  <2>2. CASE Current.kind = "block"
    <3>1. job'.ch = Len(sent) + 1 /\ UNCHANGED <<slot, busy, results, out>> /\ pc' = "try"
          /\ sent' = Append(sent, Current)
      BY <1>3, <2>2 DEF SendOrder, writerVars
    <3>2. Len(sent') = Len(sent) + 1
      BY <3>1, <1>t
    <3> QED
      BY <3>1, <3>2, <2>1, <1>t, ChannelsBelow DEF WirePrefix
  <2>3. CASE Current.kind # "block"
    BY <1>3, <2>3, <1>2 DEF SendOrder
  <2> QED
    BY <2>2, <2>3
<1>4. CASE SubmitJob
  BY <1>4, <1>2 DEF SubmitJob
<1>5. ASSUME NEW w \in Workers, WorkerStep(w) \/ WorkerPanic(w)
      PROVE  NewestInv'
  <2>1. UNCHANGED <<pc, job, sent, out>>
    BY <1>5, WorkerFrame DEF callerVars, ghostVars, writerVars
  <2>2. CASE Submitting
    <3>1. NoJob.ch < Len(sent)
      BY <2>2, <1>t DEF NoJob
    <3>2. \A v \in Workers : slot'[v].ch < Len(sent) /\ busy'[v].ch < Len(sent)
      BY <1>5, <2>2, <3>1, <1>t
      DEF WorkerStep, WorkerTake, WorkerFinish, WorkerPanic, WorkerUnwound, WorkerExit
    <3>3. \A r \in results' : r.ch < Len(sent)
      BY <1>5, <2>2, <3>1, <1>t
      DEF WorkerStep, WorkerTake, WorkerFinish, WorkerPanic, WorkerUnwound, WorkerExit
    <3> QED
      BY <2>1, <2>2, <3>2, <3>3
  <2> QED
    BY <2>1, <2>2
<1>6. CASE WriteRaw \/ \E r \in results : WriteBlock(r)
  <2>1. out' = Append(out, sent[Len(out) + 1]) /\ (Submitting => Len(out) + 1 < Len(sent))
        /\ sent[Len(out) + 1] \in Chunk
        /\ UNCHANGED <<job, pc, sent, slot, busy>> /\ results' \subseteq results
    BY <1>6, DeliverNext DEF callerVars, ghostVars
  <2>2. Len(out') = Len(out) + 1
    BY <2>1, <1>t
  <2> QED
    BY <2>1, <2>2
<1>7. CASE SubmitFull
  BY <1>7, <1>1 DEF SubmitFull, writerVars, ghostVars
<1>8. CASE Prepare \/ Return \/ CloseChannels \/ Join
  BY <1>8, <1>2 DEF Prepare, Return, CloseChannels, Join
<1>9. CASE WriterTake \/ WriteTrailer \/ TrailerFails
  BY <1>9, <1>1 DEF WriterTake, WriteTrailer, TrailerFails, callerVars, ghostVars
<1>10. CASE Stopping
  BY <1>10, <1>1, StoppingFrame DEF callerVars, ghostVars
<1>11. CASE Beginning
  BY <1>11, <1>2, BeginningFrame
<1>12. CASE Refusing
  BY <1>12, <1>2, RefusingFrame
<1>13. CASE Aborting
  BY <1>13, <1>2, AbortingFrame
<1>14. CASE UNCHANGED vars
  BY <1>14, <1>1 DEF vars, callerVars, ghostVars, writerVars
<1> QED
  BY <1>3, <1>4, <1>5, <1>6, <1>7, <1>8, <1>9, <1>10, <1>11, <1>12, <1>13, <1>14,
     StepKinds

\* The header in front moves nothing.
LEMMA WithHeaderLeads ==
  ASSUME StreamInv, ~failed, NEW s \in Seq(Chunk), NEW b \in Nat,
         Leads(s, EndOf(sent), b)
  PROVE  WithHeader(s) \in Seq(Chunk) /\ Leads(WithHeader(s), EndOf(sent), b)
PROOF
<1>1. Header \in Chunk /\ Header.off = 0 /\ End(Header) = 0
  BY DEF Header, Chunk, Kinds, End
<1>2. CASE wroteHeader
  BY <1>2 DEF WithHeader
<1>3. CASE ~wroteHeader
  <2>1. EndOf(sent) = 0
    BY <1>3 DEF StreamInv, HeaderInv, EndOf
  <2>2. <<Header>> \in Seq(Chunk) /\ Leads(<<Header>>, 0, 0)
    BY <1>1, LeadsOne
  <2>3. Leads(s, 0, b) /\ 0 \in Nat
    BY <2>1
  <2>4. Leads(<<Header>> \o s, 0, b)
    BY <2>2, <2>3, LeadsConcat
  <2>5. <<Header>> \o s \in Seq(Chunk)
    BY <2>2, ConcatProperties
  <2> QED
    BY <1>3, <2>1, <2>4, <2>5 DEF WithHeader
<1> QED
  BY <1>2, <1>3

\* Every call hands over work that leads from what was submitted to what will
\* be left in ibuf.
LEMMA BeginningLeads ==
  ASSUME StreamInv, ~failed, Beginning
  PROVE  Leads(work', EndOf(sent), accepted' - ibuf')
PROOF
<1>1. /\ accepted \in Nat /\ ibuf \in Nat /\ ibuf <= accepted /\ accepted - ibuf \in Nat
      /\ chunks \in Nat /\ sent \in Seq(Chunk)
  BY BlockSizeAssumption
  DEF StreamInv, OrderInv, TypeInv, TypeOK, IbufInv, CallerTypeOK, GhostTypeOK
<1>2. EndOf(sent) = accepted - ibuf
  BY BeginningFrame DEF StreamInv, LinkInv, InCall, Leads
<1>3. Buffered \in Seq(Chunk) /\ Leads(Buffered, EndOf(sent), accepted)
  <2>1. (accepted - ibuf) + ibuf = accepted
    BY <1>1
  <2> QED
    BY <1>1, <1>2, <2>1, BlocksLead DEF Buffered
<1>4. ASSUME NEW n \in 0..MaxBytes, Write(n)
      PROVE  Leads(work', EndOf(sent), accepted' - ibuf')
  <2> DEFINE full == ((ibuf + n) \div BlockSize) * BlockSize
             rest == (ibuf + n) % BlockSize
  <2>1. n \in Nat /\ full \in Nat /\ rest \in Nat /\ full + rest = ibuf + n
    BY <1>1, BoundAssumption, BlockSizeAssumption
  <2>2. /\ work' = IF full = 0 THEN <<>> ELSE WithHeader(Blocks(accepted - ibuf, full))
        /\ accepted' = accepted + n /\ ibuf' = rest
    BY <1>4 DEF Write, Begin
  <2> HIDE DEF full, rest
  <2>3. accepted' - ibuf' = EndOf(sent) + full
    BY <1>1, <1>2, <2>1, <2>2
  <2>4. Leads(Blocks(accepted - ibuf, full), EndOf(sent), EndOf(sent) + full)
        /\ Blocks(accepted - ibuf, full) \in Seq(Chunk)
    BY <1>1, <1>2, <2>1, BlocksLead
  <2>5. CASE full = 0
    BY <1>1, <1>2, <2>2, <2>3, <2>5 DEF Leads
  <2>6. CASE full # 0
    BY <1>1, <1>2, <2>1, <2>2, <2>3, <2>4, <2>6, WithHeaderLeads
  <2> QED
    BY <2>5, <2>6
<1>5. ASSUME NEW n \in 0..MaxBytes, EncodeBuffer(n)
      PROVE  Leads(work', EndOf(sent), accepted' - ibuf')
  <2>1. n \in Nat /\ accepted + n \in Nat
    BY <1>1, BoundAssumption
  <2>2. Blocks(accepted, n) \in Seq(Chunk) /\ Leads(Blocks(accepted, n), accepted, accepted + n)
    BY <1>1, <2>1, BlocksLead
  <2>3. /\ Buffered \o Blocks(accepted, n) \in Seq(Chunk)
        /\ Leads(Buffered \o Blocks(accepted, n), EndOf(sent), accepted + n)
    BY <1>1, <1>2, <1>3, <2>1, <2>2, LeadsConcat, ConcatProperties
  <2>4. Leads(WithHeader(Buffered \o Blocks(accepted, n)), EndOf(sent), accepted + n)
    BY <1>1, <2>1, <2>3, WithHeaderLeads
  <2>5. accepted' - ibuf' = accepted + n
    BY <1>1, <1>5, <2>1 DEF EncodeBuffer, Begin
  <2> QED
    BY <1>5, <2>4, <2>5 DEF EncodeBuffer, Begin
<1>6. CASE Flush
  <2>1. accepted' - ibuf' = accepted
    BY <1>1, <1>6 DEF Flush, Begin
  <2>2. Leads(WithHeader(Buffered), EndOf(sent), accepted)
    BY <1>1, <1>3, WithHeaderLeads
  <2>3. CASE ibuf = 0
    <3>1. work' = <<>>
      BY <1>6, <2>3 DEF Flush, Begin
    <3> QED
      BY <1>1, <1>2, <2>1, <2>3, <3>1 DEF Leads
  <2>4. CASE ibuf # 0
    BY <1>6, <2>1, <2>2, <2>4 DEF Flush, Begin
  <2> QED
    BY <2>3, <2>4
<1>7. ASSUME NEW x \in Chunk, x.off = accepted, End(x) = accepted,
             work' = WithHeader(Append(Buffered, x)), accepted' - ibuf' = accepted
      PROVE  Leads(work', EndOf(sent), accepted' - ibuf')
  <2>1. Append(Buffered, x) = Buffered \o <<x>>
    BY <1>3, <1>7, AppendIsConcat
  <2>2. <<x>> \in Seq(Chunk) /\ Leads(<<x>>, accepted, accepted)
    BY <1>7, LeadsOne
  <2>3. /\ Buffered \o <<x>> \in Seq(Chunk)
        /\ Leads(Buffered \o <<x>>, EndOf(sent), accepted)
    BY <1>1, <1>2, <1>3, <2>2, LeadsConcat, ConcatProperties
  <2> QED
    BY <1>1, <1>7, <2>1, <2>3, WithHeaderLeads
<1>8. CASE AddUserChunk
  <2>1. UserChunk \in Chunk /\ UserChunk.off = accepted /\ End(UserChunk) = accepted
    BY <1>1 DEF UserChunk, Chunk, Kinds, End
  <2>2. accepted' - ibuf' = accepted /\ work' = WithHeader(Append(Buffered, UserChunk))
    BY <1>1, <1>8 DEF AddUserChunk, Begin
  <2> QED
    BY <1>7, <2>1, <2>2
<1>9. CASE Finish
  <2>1. Eof \in Chunk /\ Eof.off = accepted /\ End(Eof) = accepted
    BY <1>1 DEF Eof, Chunk, Kinds, End
  <2>2. accepted' - ibuf' = accepted /\ work' = WithHeader(Append(Buffered, Eof))
    BY <1>1, <1>9 DEF Finish, Begin
  <2> QED
    BY <1>7, <2>1, <2>2
<1> QED
  BY <1>4, <1>5, <1>6, <1>8, <1>9 DEF Beginning

\* The parts of LinkInv that hold until a call fails.
LEMMA LinkInvStep ==
  ASSUME StreamInv, [Next]_vars
  PROVE  LinkInv'
PROOF
<1> USE DEF StreamInv
<1>t. /\ sent \in Seq(Chunk) /\ work \in Seq(Chunk) /\ uncomp \in Nat /\ accepted \in Nat
      /\ ibuf \in Nat /\ accepted - ibuf \in Nat /\ (pc = "order" => work # <<>>)
      /\ EndOf(sent) \in Nat
  BY BlockSizeAssumption, EndOfType
  DEF OrderInv, TypeInv, TypeOK, IbufInv, CallerTypeOK, GhostTypeOK
<1>1. CASE /\ UNCHANGED <<sent, work, accepted, ibuf, uncomp>> /\ (failed => failed')
           /\ (pc' = "order") = (pc = "order") /\ (InCall' = InCall \/ work = <<>>)
  BY <1>1 DEF LinkInv, Linked, Leads, EndOf, End
<1>2. CASE Beginning
  <2>1. ~failed => Leads(work', EndOf(sent), accepted' - ibuf')
    BY <1>2, BeginningLeads
  <2>2. UNCHANGED <<sent, uncomp, failed>> /\ pc = "idle" /\ pc' = "step"
    BY <1>2, BeginningFrame
  <2>3. ~failed => Linked(sent, Len(sent)) /\ uncomp = EndOf(sent)
    BY <2>2, <1>t DEF LinkInv
  <2> QED
    BY <2>1, <2>2, <2>3, <1>t DEF LinkInv, InCall
<1>3. CASE Aborting
  BY <1>3, AbortingFrame DEF LinkInv
<1>4. CASE Prepare
  BY <1>4, <1>t DEF Prepare, LinkInv, InCall, ghostVars
<1>5. CASE SendOrder
  <2>1. /\ work # <<>> /\ pc = "order" /\ pc' \in {"try", "step"}
        /\ UNCHANGED <<accepted, ibuf, uncomp, failed>>
        /\ sent' = Append(sent, Current) /\ work' = Tail(work)
    BY <1>5, <1>t DEF SendOrder
  <2>2. InCall'
    BY <2>1 DEF InCall
  <2> SUFFICES ASSUME ~failed
               PROVE  /\ Linked(sent', Len(sent'))
                      /\ Leads(work', EndOf(sent'), accepted - ibuf)
                      /\ uncomp = EndOf(sent')
    BY <2>1, <2>2, <1>t, EndOfType DEF LinkInv
  <2>3. Head(work) \in Chunk
    BY <2>1, <1>t
  <2>4. /\ Current \in Chunk /\ Current.off = Head(work).off /\ Current.kind = Head(work).kind
        /\ End(Current) = End(Head(work))
    BY <2>3, <1>t DEF Current, Chunk, End
  <2>a. sent' # <<>>
    BY <2>1, <2>4, <1>t, AppendProperties
  <2>5. /\ Len(sent') = Len(sent) + 1 /\ Len(sent) \in Nat /\ sent' # <<>>
        /\ \A i \in 1..Len(sent) : sent'[i] = sent[i]
        /\ sent'[Len(sent) + 1] = Current
    BY <2>1, <2>4, <2>a, <1>t
  <2>6. EndOf(sent') = End(Head(work))
    BY <2>4, <2>5 DEF EndOf
  <2>7. Head(work).off = EndOf(sent) /\ Leads(Tail(work), End(Head(work)), accepted - ibuf)
    BY <2>1, <1>t, LeadsTail DEF LinkInv
  <2>8. Linked(sent', Len(sent'))
    <3>1. Linked(sent, Len(sent))
      BY DEF LinkInv
    <3>2. CASE Len(sent) = 0
      <4>1. EndOf(sent) = 0
        BY <3>2, <1>t DEF EndOf
      <4> QED
        BY <4>1, <3>2, <2>4, <2>5, <2>7 DEF Linked
    <3>3. CASE Len(sent) >= 1
      <4>1. EndOf(sent) = End(sent[Len(sent)])
        BY <3>3, <1>t DEF EndOf
      <4>2. ASSUME NEW i \in 1..Len(sent)
            PROVE  sent'[i + 1].off = End(sent'[i])
        <5>1. CASE i = Len(sent)
          BY <5>1, <4>1, <2>4, <2>5, <2>7
        <5>2. CASE i # Len(sent)
          BY <5>2, <3>1, <2>5 DEF Linked
        <5> QED
          BY <5>1, <5>2
      <4>3. sent'[1].off = 0
        BY <3>1, <3>3, <2>5 DEF Linked
      <4> QED
        BY <4>2, <4>3, <2>5 DEF Linked
    <3> QED
      BY <3>2, <3>3, <2>5
  <2>9. uncomp = EndOf(sent')
    BY <2>1, <2>3, <2>6, <2>7, <1>t DEF LinkInv, End, Chunk
  <2> QED
    BY <2>1, <2>6, <2>7, <2>8, <2>9
<1>6. CASE SubmitJob \/ SubmitFull
  BY <1>6, <1>1 DEF SubmitJob, SubmitFull, InCall, ghostVars
<1>7. CASE Return \/ CloseChannels \/ Join
  BY <1>7, <1>1 DEF Return, CloseChannels, Join, InCall, ghostVars
<1>8. CASE Refusing
  BY <1>8, <1>1, RefusingFrame DEF InCall, LinkInv
<1>9. CASE UNCHANGED <<callerVars, ghostVars>>
  BY <1>9, <1>1 DEF callerVars, ghostVars, InCall
<1>10. CASE WriterTake \/ WriteTrailer \/ TrailerFails
  BY <1>10, <1>9 DEF WriterTake, WriteTrailer, TrailerFails
<1> QED
  BY <1>2, <1>3, <1>4, <1>5, <1>6, <1>7, <1>8, <1>9, <1>10, StepKinds, WorkerFrame,
     StoppingFrame,
     DeliverNext DEF vars

\* A channel nobody will answer on stays so.
LEMMA DeadStays ==
  ASSUME StreamInv, [Next]_vars, NEW c \in 1..Len(sent), Dead(c)
  PROVE  Dead(c)'
PROOF
<1> USE DEF StreamInv
<1>t. /\ sent \in Seq(Chunk) /\ Len(sent) \in Nat /\ cur \in Workers /\ work \in Seq(Chunk)
      /\ slot \in [Workers -> Job] /\ busy \in [Workers -> Job] /\ uncomp \in Nat
      /\ (pc = "order" => work # <<>>)
  BY DEF OrderInv, TypeInv, TypeOK, IbufInv, CallerTypeOK, GhostTypeOK, SharedTypeOK,
     WorkerTypeOK
<1>0. NoJob.ch # c
  BY DEF NoJob
<1>1. CASE /\ UNCHANGED <<sent, slot, busy>> /\ job' \in {job, NoJob} /\ results' \subseteq results
  BY <1>0, <1>1 DEF Dead, Answerable
<1>2. CASE SendOrder
  <2>1. Head(work) \in Chunk
    BY <1>2, <1>t DEF SendOrder
  <2>2. Current \in Chunk
    BY <2>1, <1>t DEF Current, Chunk
  <2>3. sent'[c] = sent[c] /\ UNCHANGED <<slot, busy, results>> /\ (job' = job \/ job'.ch = Len(sent) + 1)
    BY <1>2, <2>2, <1>t DEF SendOrder
  <2> QED
    BY <2>3, <1>t DEF Dead, Answerable
<1>3. CASE SubmitJob
  <2>1. \A w \in Workers : slot'[w] \in {job, slot[w]}
    BY <1>3, <1>t DEF SubmitJob
  <2> QED
    BY <1>0, <1>3, <2>1 DEF SubmitJob, Dead, Answerable, ghostVars
<1>4. ASSUME NEW w \in Workers, WorkerStep(w) \/ WorkerPanic(w)
      PROVE  Dead(c)'
  <2>1. UNCHANGED <<sent, job>>
    BY <1>4, WorkerFrame DEF callerVars, ghostVars
  <2>2. \A v \in Workers : slot'[v] \in {slot[v], NoJob} /\ busy'[v] \in {busy[v], slot[v], NoJob}
    BY <1>4, <1>t DEF WorkerStep, WorkerTake, WorkerFinish, WorkerPanic, WorkerUnwound,
       WorkerExit
  <2>3. \A r \in results' : r \in results \/ r.ch = busy[w].ch
    BY <1>4 DEF WorkerStep, WorkerTake, WorkerFinish, WorkerPanic, WorkerUnwound,
       WorkerExit
  <2> QED
    BY <1>0, <2>1, <2>2, <2>3 DEF Dead, Answerable
<1>5. CASE Prepare \/ SubmitFull \/ Return \/ CloseChannels \/ Join
  BY <1>5, <1>1 DEF Prepare, SubmitFull, Return, CloseChannels, Join, ghostVars
<1>6. CASE WriterTake \/ WriteTrailer \/ TrailerFails \/ Stopping \/ UNCHANGED vars
           \/ WriteRaw \/ \E r \in results : WriteBlock(r)
  <2>1. UNCHANGED <<sent, slot, busy, job>> /\ results' \subseteq results
    BY <1>6, StoppingFrame, DeliverNext
    DEF WriterTake, WriteTrailer, TrailerFails, callerVars, ghostVars, vars
  <2> QED
    BY <2>1, <1>1
<1> QED
  BY <1>1, <1>2, <1>3, <1>4, <1>5, <1>6, StepKinds, BeginningFrame, RefusingFrame,
     AbortingFrame

\* A prefix of what was submitted stays linked, whatever is submitted behind it.
LEMMA LinkedStays ==
  ASSUME StreamInv, [Next]_vars, NEW c \in 1..Len(sent), Linked(sent, c)
  PROVE  /\ Linked(sent', c) /\ Len(sent') \in Nat /\ Len(sent') >= Len(sent)
         /\ \A i \in 1..Len(sent) : sent'[i] = sent[i]
         /\ sent' = sent \/ SendOrder
PROOF
<1>t. /\ sent \in Seq(Chunk) /\ Len(sent) \in Nat /\ work \in Seq(Chunk) /\ uncomp \in Nat
      /\ (pc = "order" => work # <<>>)
  BY DEF StreamInv, OrderInv, TypeInv, TypeOK, IbufInv, CallerTypeOK, GhostTypeOK
<1>1. CASE SendOrder
  <2>1. Head(work) \in Chunk
    BY <1>1, <1>t DEF SendOrder
  <2>2. Current \in Chunk
    BY <2>1, <1>t DEF Current, Chunk
  <2>3. Len(sent') = Len(sent) + 1 /\ \A i \in 1..Len(sent) : sent'[i] = sent[i]
    BY <1>1, <2>2, <1>t DEF SendOrder
  <2>4. sent'[1].off = 0
    BY <2>3, <1>t DEF Linked
  <2>5. ASSUME NEW i \in 1..(c - 1)
        PROVE  sent'[i + 1].off = End(sent'[i])
    <3>1. i \in 1..Len(sent) /\ i + 1 \in 1..Len(sent)
      BY <1>t
    <3> QED
      BY <2>3, <3>1 DEF Linked
  <2> QED
    BY <1>1, <2>3, <2>4, <2>5, <1>t DEF Linked
<1>2. CASE sent' = sent
  BY <1>2, <1>t
<1>3. CASE Prepare \/ SubmitJob \/ SubmitFull \/ Return \/ CloseChannels \/ Join
  BY <1>3, <1>2 DEF Prepare, SubmitJob, SubmitFull, Return, CloseChannels, Join, ghostVars
<1>4. CASE WriterTake \/ WriteTrailer \/ TrailerFails
  BY <1>4, <1>2 DEF WriterTake, WriteTrailer, TrailerFails, ghostVars
<1> QED
  BY <1>1, <1>2, <1>3, <1>4, StepKinds, BeginningFrame, RefusingFrame, AbortingFrame,
     WorkerFrame,
     StoppingFrame, DeliverNext DEF vars, ghostVars

\* A gap stays behind a block the writer thread cannot get past.
LEMMA GapInvStep ==
  ASSUME StreamInv, [Next]_vars
  PROVE  GapInv'
PROOF
<1> USE DEF StreamInv
<1>t. /\ sent \in Seq(Chunk) /\ out \in Seq(Chunk) /\ Len(sent) \in Nat /\ Len(out) \in Nat
      /\ wr \in {"recv", "have", "failing", "gone"} /\ failed \in BOOLEAN
  BY DEF OrderInv, TypeInv, TypeOK, GhostTypeOK, WriterTypeOK
<1>1. CASE failed /\ Running /\ (out' = out \/ (WriteRaw \/ \E r \in results : WriteBlock(r)))
  <2>1. PICK c \in (Len(out) + 1)..Len(sent) : Dead(c) /\ Linked(sent, c)
    BY <1>1 DEF GapInv
  <2>2. c \in 1..Len(sent)
    BY <1>t
  <2>3. Dead(c)' /\ Linked(sent', c) /\ c \in 1..Len(sent')
    BY <2>1, <2>2, DeadStays, LinkedStays, <1>t
  <2>4. c >= Len(out') + 1 /\ Len(out') \in Nat
    <3>1. CASE out' = out
      BY <3>1, <2>1, <1>t
    <3>2. CASE WriteRaw \/ \E r \in results : WriteBlock(r)
      <4>1. out' = Append(out, sent[Len(out) + 1]) /\ ~Dead(Len(out) + 1)
        BY <3>2, DeliverNext
      <4>2. Len(out') = Len(out) + 1
        BY <4>1, <3>2, <1>t, DeliverNext
      <4> QED
        BY <2>1, <4>1, <4>2, <1>t
    <3> QED
      BY <1>1, <3>1, <3>2
  <2>5. c \in (Len(out') + 1)..Len(sent')
    BY <2>3, <2>4
  <2> QED
    BY <2>3, <2>5 DEF GapInv
<1>2. CASE ~failed' \/ ~Running'
  BY <1>2 DEF GapInv
<1>3. CASE Aborting /\ ~failed /\ Running
  <2>1. Submitting /\ UNCHANGED <<sent, out, slot, busy, results>> /\ job' = NoJob
    BY <1>3, AbortingFrame DEF ErrInv, Running
  <2>2. /\ job.ch = Len(sent) /\ Len(out) < Len(sent)
        /\ \A w \in Workers : slot[w].ch < Len(sent) /\ busy[w].ch < Len(sent)
        /\ \A r \in results : r.ch < Len(sent)
    BY <2>1 DEF NewestInv
  <2>3. sent[Len(sent)].kind = "block"
    BY <2>1, <2>2 DEF OrderInv, JobInv, JobOk, Submitting
  <2>4. NoJob.ch < Len(sent)
    BY <2>2, <1>t DEF NoJob
  <2>5. Dead(Len(sent))'
    BY <2>1, <2>2, <2>3, <2>4, <1>t DEF Dead, Answerable
  <2>6. Linked(sent, Len(sent))
    BY <1>3 DEF LinkInv
  <2>7. Len(sent) \in (Len(out) + 1)..Len(sent)
    BY <2>2, <1>t
  <2> QED
    BY <2>1, <2>5, <2>6, <2>7 DEF GapInv
<1>4. CASE Aborting \/ Refusing
  BY <1>4, <1>1, <1>2, <1>3, AbortingFrame, RefusingFrame DEF ErrInv, Running
<1>5. CASE UNCHANGED <<failed, wr, out>>
  BY <1>5, <1>1, <1>2 DEF Running
<1>6. CASE WriterTake \/ WriteRaw \/ \E r \in results : WriteBlock(r)
  <2>1. failed' = failed /\ Running
    BY <1>6, DeliverNext DEF WriterTake, ghostVars, Running
  <2>2. WriterTake => out' = out
    BY DEF WriterTake
  <2> QED
    BY <1>6, <1>1, <1>2, <2>1, <2>2
<1>7. CASE WriteTrailer \/ TrailerFails \/ Stopping
  BY <1>7, <1>2, StoppingFrame DEF WriteTrailer, TrailerFails, Record, Running
<1>8. CASE Prepare \/ SendOrder \/ SubmitJob \/ SubmitFull \/ Return \/ CloseChannels \/ Join
  BY <1>8, <1>5 DEF Prepare, SendOrder, SubmitJob, SubmitFull, Return, CloseChannels,
     Join, ghostVars,
     writerVars
<1>9. CASE Beginning \/ UNCHANGED vars \/ \E w \in Workers : WorkerStep(w) \/ WorkerPanic(w)
  BY <1>9, <1>5, BeginningFrame, WorkerFrame DEF vars, ghostVars, writerVars
<1> QED
  BY <1>4, <1>6, <1>7, <1>8, <1>9, StepKinds

\* No EOF chunk among the chunks of s.
NoEof(s) == \A i \in 1..Len(s) : s[i].kind # "eof"

\* Concatenating and shortening keep that.
LEMMA NoEofConcat ==
  ASSUME NEW s \in Seq(Chunk), NEW u \in Seq(Chunk), NoEof(s), NoEof(u)
  PROVE  NoEof(s \o u)
PROOF
<1>1. /\ Len(s \o u) = Len(s) + Len(u) /\ Len(s) \in Nat /\ Len(u) \in Nat
      /\ \A i \in 1..Len(s) : (s \o u)[i] = s[i]
      /\ \A i \in 1..Len(u) : (s \o u)[Len(s) + i] = u[i]
  BY ConcatProperties
<1>2. ASSUME NEW i \in 1..Len(s \o u)
      PROVE  (s \o u)[i].kind # "eof"
  <2>1. CASE i <= Len(s)
    BY <1>1, <2>1 DEF NoEof
  <2>2. CASE i > Len(s)
    <3>1. i - Len(s) \in 1..Len(u) /\ i = Len(s) + (i - Len(s))
      BY <1>1, <2>2
    <3> QED
      BY <1>1, <3>1 DEF NoEof
  <2> QED
    BY <1>1, <2>1, <2>2
<1> QED
  BY <1>2 DEF NoEof

\* Only finish hands over an EOF chunk, and as the last one.
LEMMA BeginningKinds ==
  ASSUME StreamInv, Beginning
  PROVE  /\ work' \in Seq(Chunk)
         /\ ~Finish => NoEof(work')
         /\ Finish => /\ ibuf' = 0 /\ call' = "finish" /\ work' # <<>>
                      /\ work'[Len(work')].kind = "eof"
                      /\ \A i \in 1..Len(work') : work'[i].kind = "eof" => i = Len(work')
         /\ ~wroteHeader /\ work' # <<>> => Head(work').kind = "header"
PROOF
<1>1. /\ accepted \in Nat /\ ibuf \in Nat /\ ibuf <= accepted /\ accepted - ibuf \in Nat
      /\ chunks \in Nat
  BY BlockSizeAssumption
  DEF StreamInv, OrderInv, TypeInv, TypeOK, IbufInv, CallerTypeOK, GhostTypeOK
<1>2. \A o, n \in Nat : Blocks(o, n) \in Seq(Chunk) /\ NoEof(Blocks(o, n))
  BY BlocksLead DEF NoEof
<1>3. Buffered \in Seq(Chunk) /\ NoEof(Buffered)
  BY <1>1, <1>2 DEF Buffered
<1>4. /\ Header \in Chunk /\ Header.kind = "header" /\ <<Header>> \in Seq(Chunk)
      /\ NoEof(<<Header>>) /\ NoEof(<<>>) /\ <<>> \in Seq(Chunk)
  BY DEF Header, Chunk, Kinds, NoEof
<1>5. ASSUME NEW s \in Seq(Chunk)
      PROVE  /\ WithHeader(s) \in Seq(Chunk)
             /\ NoEof(s) => NoEof(WithHeader(s))
             /\ ~wroteHeader => Head(WithHeader(s)).kind = "header"
  <2>1. CASE wroteHeader
    BY <2>1 DEF WithHeader
  <2>2. CASE ~wroteHeader
    <3>1. WithHeader(s) = <<Header>> \o s
      BY <2>2 DEF WithHeader
    <3>2. <<Header>> \o s \in Seq(Chunk) /\ (NoEof(s) => NoEof(<<Header>> \o s))
      BY <1>4, NoEofConcat, ConcatProperties
    <3>3. Len(<<Header>> \o s) >= 1 /\ (<<Header>> \o s)[1] = Header
      BY <1>4, ConcatProperties
    <3>4. Head(<<Header>> \o s) = Header
      BY <3>2, <3>3
    <3> QED
      BY <3>1, <3>2, <3>4, <1>4
  <2> QED
    BY <2>1, <2>2
<1>6. ASSUME NEW n \in 0..MaxBytes, Write(n)
      PROVE  /\ work' \in Seq(Chunk) /\ NoEof(work')
             /\ ~wroteHeader /\ work' # <<>> => Head(work').kind = "header"
  <2>1. n \in Nat /\ ((ibuf + n) \div BlockSize) * BlockSize \in Nat
    BY <1>1, BoundAssumption, BlockSizeAssumption
  <2> QED
    BY <1>1, <1>2, <1>4, <1>5, <1>6, <2>1 DEF Write, Begin
<1>7. ASSUME NEW n \in 0..MaxBytes, EncodeBuffer(n)
      PROVE  /\ work' \in Seq(Chunk) /\ NoEof(work')
             /\ ~wroteHeader /\ work' # <<>> => Head(work').kind = "header"
  <2>1. n \in Nat
    BY BoundAssumption
  <2>2. Buffered \o Blocks(accepted, n) \in Seq(Chunk) /\ NoEof(Buffered \o Blocks(accepted, n))
    BY <1>1, <1>2, <1>3, <2>1, NoEofConcat, ConcatProperties
  <2> QED
    BY <1>5, <1>7, <2>2 DEF EncodeBuffer, Begin
<1>8. ASSUME Flush
      PROVE  /\ work' \in Seq(Chunk) /\ NoEof(work')
             /\ ~wroteHeader /\ work' # <<>> => Head(work').kind = "header"
  BY <1>3, <1>4, <1>5, <1>8 DEF Flush, Begin
<1>9. ASSUME AddUserChunk
      PROVE  /\ work' \in Seq(Chunk) /\ NoEof(work')
             /\ ~wroteHeader /\ work' # <<>> => Head(work').kind = "header"
  <2>1. <<UserChunk>> \in Seq(Chunk) /\ NoEof(<<UserChunk>>) /\ UserChunk \in Chunk
    BY <1>1 DEF UserChunk, Chunk, Kinds, NoEof
  <2>2. Append(Buffered, UserChunk) = Buffered \o <<UserChunk>>
    BY <1>3, <2>1, AppendIsConcat
  <2>3. Buffered \o <<UserChunk>> \in Seq(Chunk) /\ NoEof(Buffered \o <<UserChunk>>)
    BY <1>3, <2>1, NoEofConcat, ConcatProperties
  <2> QED
    BY <1>5, <1>9, <2>2, <2>3 DEF AddUserChunk, Begin
<1>10. ASSUME Finish
       PROVE  /\ work' \in Seq(Chunk) /\ ibuf' = 0 /\ call' = "finish" /\ work' # <<>>
              /\ work'[Len(work')].kind = "eof"
              /\ \A i \in 1..Len(work') : work'[i].kind = "eof" => i = Len(work')
              /\ ~wroteHeader => Head(work').kind = "header"
  <2>1. Eof \in Chunk /\ Eof.kind = "eof"
    BY <1>1 DEF Eof, Chunk, Kinds
  <2>2. work' = WithHeader(Append(Buffered, Eof)) /\ ibuf' = 0 /\ call' = "finish"
    BY <1>10 DEF Finish, Begin
  <2>3. PICK s \in Seq(Chunk) : NoEof(s) /\ work' = Append(s, Eof)
    <3>1. CASE wroteHeader
      BY <1>3, <2>2, <3>1 DEF WithHeader
    <3>2. CASE ~wroteHeader
      <4>1. work' = <<Header>> \o Append(Buffered, Eof)
        BY <2>2, <3>2 DEF WithHeader
      <4>2. Append(Buffered, Eof) = Buffered \o <<Eof>>
        BY <1>3, <2>1, AppendIsConcat
      <4>3. <<Header>> \o Buffered \in Seq(Chunk) /\ NoEof(<<Header>> \o Buffered)
        BY <1>3, <1>4, NoEofConcat, ConcatProperties
      <4>4. <<Header>> \o (Buffered \o <<Eof>>) = (<<Header>> \o Buffered) \o <<Eof>>
        BY <1>3, <1>4, <2>1, ConcatAssociative, LeadsOne
      <4>5. (<<Header>> \o Buffered) \o <<Eof>> = Append(<<Header>> \o Buffered, Eof)
        BY <2>1, <4>3, AppendIsConcat
      <4> QED
        BY <4>1, <4>2, <4>3, <4>4, <4>5
    <3> QED
      BY <3>1, <3>2
  <2>4. /\ Len(work') = Len(s) + 1 /\ Len(s) \in Nat /\ work' \in Seq(Chunk) /\ work' # <<>>
        /\ \A i \in 1..Len(s) : work'[i] = s[i]
        /\ work'[Len(s) + 1] = Eof
    BY <2>1, <2>3, AppendProperties
  <2>5. \A i \in 1..Len(work') : work'[i].kind = "eof" => i = Len(work')
    BY <2>3, <2>4 DEF NoEof
  <2>6. ~wroteHeader => Head(work').kind = "header"
    <3>1. Append(Buffered, Eof) \in Seq(Chunk)
      BY <1>3, <2>1
    <3> QED
      BY <1>5, <2>2, <3>1
  <2> QED
    BY <2>1, <2>2, <2>4, <2>5, <2>6
<1>11. Finish => ~(\E n \in 0..MaxBytes : Write(n) \/ EncodeBuffer(n)) /\ ~Flush /\ ~AddUserChunk
  BY DEF Finish, Write, EncodeBuffer, Flush, AddUserChunk, Begin
<1> QED
  BY <1>6, <1>7, <1>8, <1>9, <1>10, <1>11 DEF Beginning

\* What a successful send on the order queue does to the caller's view.
LEMMA SendOrderFrame ==
  ASSUME StreamInv, SendOrder
  PROVE  /\ pc = "order" /\ work # <<>> /\ pc' \in {"try", "step"}
         /\ Head(work) \in Chunk /\ Head(work) = work[1] /\ Current \in Chunk
         /\ Current.kind = Head(work).kind
         /\ pc' = "try" <=> Current.kind = "block"
         /\ sent' \in Seq(Chunk) /\ sent' # <<>>
         /\ Len(sent') = Len(sent) + 1 /\ Len(sent) \in Nat
         /\ \A i \in 1..Len(sent) : sent'[i] = sent[i]
         /\ sent'[Len(sent) + 1] = Current
         /\ work' \in Seq(Chunk) /\ Len(work') = Len(work) - 1 /\ Len(work) \in Nat
         /\ Len(work) >= 1
         /\ \A i \in 1..Len(work') : work'[i] = work[i + 1]
         /\ work' = Tail(work)
         /\ UNCHANGED <<call, ibuf, wroteHeader, uncomp, ret, accepted, chunks, failed,
                        unexplained, orderOpen, slot, submitOpen, results, err, inPool,
                        outPool, wst, busy, wr, held, out, trailer, uncompW, index, fin>>
PROOF
<1>t. /\ sent \in Seq(Chunk) /\ work \in Seq(Chunk) /\ uncomp \in Nat
      /\ (pc = "order" => work # <<>>)
  BY DEF StreamInv, OrderInv, TypeInv, TypeOK, IbufInv, CallerTypeOK, GhostTypeOK
<1>1. /\ pc = "order" /\ work # <<>> /\ pc' \in {"try", "step"}
      /\ pc' = "try" <=> Current.kind = "block"
      /\ sent' = Append(sent, Current) /\ work' = Tail(work)
      /\ UNCHANGED <<call, ibuf, wroteHeader, uncomp, ret, accepted, chunks, failed,
                     unexplained, orderOpen, slot, submitOpen, results, err, inPool,
                     outPool, wst, busy, wr, held, out, trailer, uncompW, index, fin>>
  BY <1>t DEF SendOrder, writerVars
<1>2. /\ Head(work) \in Chunk /\ Head(work) = work[1]
      /\ work' \in Seq(Chunk) /\ Len(work') = Len(work) - 1 /\ Len(work) \in Nat
      /\ Len(work) >= 1 /\ \A i \in 1..Len(work') : work'[i] = work[i + 1]
  BY <1>1, <1>t, HeadTailProperties
<1>3. Current \in Chunk /\ Current.kind = Head(work).kind
  BY <1>2, <1>t DEF Current, Chunk
<1>4. /\ sent' \in Seq(Chunk) /\ sent' # <<>>
      /\ Len(sent') = Len(sent) + 1 /\ Len(sent) \in Nat
      /\ \A i \in 1..Len(sent) : sent'[i] = sent[i]
      /\ sent'[Len(sent) + 1] = Current
  BY <1>1, <1>3, <1>t, AppendProperties
<1> QED
  BY <1>1, <1>2, <1>3, <1>4

\* Every step keeps the stream identifier first.
LEMMA HeaderInvStep ==
  ASSUME StreamInv, [Next]_vars
  PROVE  HeaderInv'
PROOF
<1> USE DEF StreamInv, HeaderInv
<1>t. failed \in BOOLEAN /\ wroteHeader \in BOOLEAN
  BY DEF OrderInv, TypeInv, TypeOK, CallerTypeOK, GhostTypeOK
<1>1. CASE UNCHANGED <<sent, work, wroteHeader>> /\ (failed => failed')
           /\ (pc' = "order") = (pc = "order")
  BY <1>1
<1>2. CASE Beginning
  BY <1>2, <1>t, BeginningFrame, BeginningKinds
<1>3. CASE Aborting
  BY <1>3, AbortingFrame
<1>4. CASE Prepare
  BY <1>4, <1>t DEF Prepare, ghostVars
<1>5. CASE SendOrder
  <2>1. CASE sent = <<>>
    <3>1. Len(sent) = 0
      BY <2>1
    <3> QED
      BY <1>5, <2>1, <3>1, SendOrderFrame
  <2>2. CASE sent # <<>>
    <3>1. Len(sent) >= 1
      BY <2>2 DEF OrderInv, TypeInv, TypeOK, GhostTypeOK
    <3> QED
      BY <1>5, <2>2, <3>1, SendOrderFrame
  <2> QED
    BY <2>1, <2>2
<1>6. CASE SubmitJob \/ SubmitFull \/ Return \/ CloseChannels \/ Join
  BY <1>6, <1>1 DEF SubmitJob, SubmitFull, Return, CloseChannels, Join, ghostVars
<1>7. CASE Refusing
  BY <1>7, <1>1, RefusingFrame
<1>8. CASE UNCHANGED <<callerVars, ghostVars>>
  BY <1>8, <1>1 DEF callerVars, ghostVars
<1>9. CASE WriterTake \/ WriteTrailer \/ TrailerFails
  BY <1>9, <1>8 DEF WriterTake, WriteTrailer, TrailerFails
<1> QED
  BY <1>2, <1>3, <1>4, <1>5, <1>6, <1>7, <1>8, <1>9, StepKinds, WorkerFrame,
     StoppingFrame,
     DeliverNext DEF vars

\* The EOF chunk declares what was accepted and stays the last chunk.
LEMMA EofInvStep ==
  ASSUME StreamInv, [Next]_vars
  PROVE  EofInv'
PROOF
<1> USE DEF StreamInv, InCall, Closing
<1>t. /\ sent \in Seq(Chunk) /\ out \in Seq(Chunk) /\ work \in Seq(Chunk) /\ Len(sent) \in Nat
      /\ Len(out) \in Nat /\ failed \in BOOLEAN /\ accepted \in Nat /\ ibuf \in Nat
      /\ Len(out) <= Len(sent) /\ Len(<<>>) = 0
  BY BlockSizeAssumption
  DEF OrderInv, TypeInv, TypeOK, CallerTypeOK, GhostTypeOK, WriterTypeOK, WirePrefix
<1>1. CASE /\ UNCHANGED <<sent, work, call, ibuf, accepted, failed, out, pc>>
  BY <1>1 DEF EofInv
<1>2. CASE Beginning
  <2>1. /\ pc = "idle" /\ pc' = "step" /\ UNCHANGED <<sent, failed, out>>
        /\ (call' = "finish" => Finish)
    BY <1>2, BeginningFrame
  <2>2. \A i \in 1..Len(sent) : sent[i].kind # "eof"
    BY <2>1 DEF EofInv
  <2>3. /\ ~Finish => NoEof(work')
        /\ Finish => /\ ibuf' = 0 /\ call' = "finish" /\ work' # <<>>
                     /\ work'[Len(work')].kind = "eof"
                     /\ \A i \in 1..Len(work') : work'[i].kind = "eof" => i = Len(work')
    BY <1>2, BeginningKinds
  <2> QED
    BY <2>1, <2>2, <2>3 DEF EofInv, NoEof
<1>3. CASE Aborting
  <2>1. \A i \in 1..Len(sent) : sent[i].kind # "eof"
    BY <1>3, AbortingFrame DEF EofInv
  <2> QED
    BY <1>3, <2>1, <1>t, AbortingFrame DEF EofInv
<1>4. CASE Refusing
  <2>1. (\A i \in 1..Len(sent) : sent[i].kind # "eof") /\ call # "finish"
    BY <1>4, RefusingFrame DEF EofInv
  <2>2. work = <<>>
    BY <1>4, RefusingFrame DEF LinkInv
  <2> QED
    BY <1>4, <2>1, <2>2, <1>t, RefusingFrame DEF EofInv
<1>5. CASE Prepare \/ SubmitJob \/ SubmitFull
  <2>1. \A i \in 1..Len(sent) : sent[i].kind # "eof"
    BY <1>5 DEF EofInv, Prepare, SubmitJob, SubmitFull
  <2>2. UNCHANGED <<sent, work, call, ibuf, accepted, failed, out>> /\ pc' # "idle"
    BY <1>5 DEF Prepare, SubmitJob, SubmitFull, ghostVars, writerVars
  <2> QED
    BY <2>1, <2>2 DEF EofInv
<1>6. CASE Return \/ CloseChannels \/ Join
  <2>1. UNCHANGED <<sent, work, ibuf, accepted, failed, out>> /\ call' \in {call, "none"}
    BY <1>6 DEF Return, CloseChannels, Join, ghostVars, writerVars
  <2>2. work = <<>>
    BY <1>6 DEF LinkInv, Return, CloseChannels, Join
  <2>3. pc' = "idle" => call # "finish" /\ call' = "none" /\ pc = "step"
    BY <1>6 DEF Return, CloseChannels, Join
  <2>4. pc' # "idle" => Closing' /\ call' = call
    BY <1>6 DEF Return, CloseChannels, Join
  <2> QED
    BY <2>1, <2>2, <2>3, <2>4, <1>t DEF EofInv
<1>7. CASE SendOrder
  <2>1. \A i \in 1..Len(sent) : sent[i].kind # "eof"
    BY <1>7, SendOrderFrame DEF EofInv
  <2>2. ASSUME Current.kind = "eof"
        PROVE  /\ Len(work) = 1 /\ call = "finish" /\ ibuf = 0 /\ work' = <<>>
               /\ pc' = "step"
               /\ ~failed => Current.len = accepted
    <3>1. work[1].kind = "eof" /\ Len(work) >= 1 /\ pc' = "step" /\ work[1] \in Chunk
      BY <1>7, <2>2, SendOrderFrame
    <3>a. 1 \in 1..Len(work)
      BY <3>1, <1>7, SendOrderFrame
    <3>2. Len(work) = 1 /\ call = "finish" /\ ibuf = 0
      BY <3>1, <3>a DEF EofInv
    <3>3. work' = <<>>
      BY <1>7, <3>2, SendOrderFrame
    <3>4. ~failed => Current.len = accepted
      <4>1. Current.len = uncomp
        BY <1>7, <2>2, SendOrderFrame DEF Current, Chunk
      <4>2. ~failed => /\ uncomp = EndOf(sent) + 0
                       /\ Leads(work, EndOf(sent), accepted - 0)
        BY <1>7, <2>2, <3>2, SendOrderFrame DEF LinkInv
      <4>3. ~failed => work[1].off = EndOf(sent) /\ End(work[1]) = accepted - 0
        BY <4>2, <3>2, <1>7, SendOrderFrame DEF Leads
      <4>4. End(work[1]) = work[1].off
        BY <3>1 DEF End
      <4> QED
        BY <4>1, <4>2, <4>3, <4>4, <1>t, EndOfType
    <3> QED
      BY <3>1, <3>2, <3>3, <3>4
  <2>3. \A i \in 1..Len(work') : work'[i].kind = "eof" =>
          i = Len(work') /\ call' = "finish" /\ ibuf' = 0
    <3>1. ASSUME NEW i \in 1..Len(work'), work'[i].kind = "eof"
          PROVE  i = Len(work') /\ call' = "finish" /\ ibuf' = 0
      <4>1. i + 1 \in 1..Len(work) /\ work[i + 1].kind = "eof"
        BY <1>7, <3>1, SendOrderFrame
      <4>2. i + 1 = Len(work) /\ call = "finish" /\ ibuf = 0
        BY <4>1 DEF EofInv
      <4> QED
        BY <4>2, <1>7, SendOrderFrame
    <3> QED
      BY <3>1
  <2>4. \A i \in 1..Len(sent') : sent'[i].kind = "eof" => i = Len(sent') /\ Current.kind = "eof"
    BY <1>7, <2>1, SendOrderFrame
  <2>5. \A i \in 1..Len(sent') : sent'[i].kind = "eof" =>
          /\ i = Len(sent') /\ work' = <<>> /\ ibuf' = 0
          /\ (pc' = "step" /\ call' = "finish") \/ Closing'
          /\ ~failed' => sent'[i].len = accepted'
          /\ i <= Len(out') => ~failed'
    BY <1>7, <2>2, <2>4, <1>t, SendOrderFrame
  <2>6. call' = "finish" =>
          /\ pc' # "idle"
          /\ \/ work' # <<>> /\ work'[Len(work')].kind = "eof"
             \/ work' = <<>> /\ sent' # <<>> /\ sent'[Len(sent')].kind = "eof"
    <3> SUFFICES ASSUME call = "finish"
                 PROVE  \/ work' # <<>> /\ work'[Len(work')].kind = "eof"
                        \/ work' = <<>> /\ sent' # <<>> /\ sent'[Len(sent')].kind = "eof"
      BY <1>7, SendOrderFrame
    <3>1. work[Len(work)].kind = "eof"
      BY <1>7, SendOrderFrame DEF EofInv
    <3>2. CASE Len(work) = 1
      <4>1. Current.kind = "eof"
        BY <1>7, <3>1, <3>2, SendOrderFrame
      <4> QED
        BY <1>7, <2>2, <4>1, SendOrderFrame
    <3>3. CASE Len(work) > 1
      <4>1. Len(work') >= 1 /\ work'[Len(work')] = work[Len(work)]
        BY <1>7, <3>3, SendOrderFrame
      <4> QED
        BY <3>1, <4>1, <1>t
    <3> QED
      BY <1>7, <3>2, <3>3, SendOrderFrame
  <2> QED
    BY <2>3, <2>5, <2>6 DEF EofInv
<1>8. CASE WriteRaw \/ \E r \in results : WriteBlock(r)
  <2>1. UNCHANGED <<sent, work, call, ibuf, accepted, failed, pc>> /\ Running
        /\ out' = Append(out, sent[Len(out) + 1]) /\ sent[Len(out) + 1] \in Chunk
        /\ ~Dead(Len(out) + 1) /\ Len(out) + 1 \in 1..Len(sent)
    BY <1>8, DeliverNext DEF callerVars, ghostVars
  <2>2. Len(out') = Len(out) + 1
    BY <2>1, <1>t
  <2>3. failed => Len(out) + 1 # Len(sent)
    BY <2>1, <1>t DEF GapInv
  <2>4. \A i \in 1..Len(sent) : sent[i].kind = "eof" => (i <= Len(out') => ~failed)
    BY <2>2, <2>3, <1>t DEF EofInv
  <2> QED
    BY <2>1, <2>4 DEF EofInv
<1>9. CASE WriterTake \/ WriteTrailer \/ TrailerFails \/ Stopping
  <2>1. UNCHANGED <<callerVars, ghostVars, out>>
    BY <1>9, StoppingFrame DEF WriterTake, WriteTrailer, TrailerFails
  <2> QED
    BY <1>1, <2>1 DEF callerVars, ghostVars
<1>10. CASE UNCHANGED vars \/ \E w \in Workers : WorkerStep(w) \/ WorkerPanic(w)
  BY <1>10, <1>1, WorkerFrame DEF vars, callerVars, ghostVars, writerVars
<1> QED
  BY <1>2, <1>3, <1>4, <1>5, <1>6, <1>7, <1>8, <1>9, <1>10, StepKinds

\* The writer thread knows how far the data goes: what it puts on the sink next
\* begins where the data on the sink ends.
LEMMA NextOffset ==
  ASSUME StreamInv, WriteRaw \/ \E r \in results : WriteBlock(r)
  PROVE  sent[Len(out) + 1].off = uncompW
PROOF
<1> USE DEF StreamInv
<1>t. /\ sent \in Seq(Chunk) /\ out \in Seq(Chunk) /\ Len(sent) \in Nat /\ Len(out) \in Nat
      /\ failed \in BOOLEAN /\ \A i \in 1..Len(out) : out[i] = sent[i]
  BY DEF OrderInv, TypeInv, TypeOK, GhostTypeOK, WriterTypeOK, WirePrefix
<1>1. Running /\ Len(out) + 1 \in 1..Len(sent)
  BY DeliverNext
<1>2. PICK c \in (Len(out) + 1)..Len(sent) : Linked(sent, c)
  BY <1>1, <1>t DEF GapInv, LinkInv
<1>3. CASE Len(out) = 0
  <2>1. uncompW = 0
    BY <1>3, <1>t DEF WireInv, EndOf
  <2>2. sent[1].off = 0
    BY <1>2, <1>t DEF Linked
  <2> QED
    BY <1>3, <2>1, <2>2
<1>4. CASE Len(out) # 0
  <2>1. out # <<>> /\ uncompW = End(out[Len(out)])
    BY <1>4, <1>t DEF WireInv, EndOf
  <2>2. Len(out) \in 1..(c - 1) /\ out[Len(out)] = sent[Len(out)]
    BY <1>2, <1>4, <1>t
  <2>3. sent[Len(out) + 1].off = End(sent[Len(out)])
    BY <1>2, <2>2 DEF Linked
  <2> QED
    BY <2>1, <2>2, <2>3
<1> QED
  BY <1>3, <1>4

\* Appending what begins at uncompW to a contiguous sink keeps it so.
LEMMA WireAppend ==
  ASSUME out \in Seq(Chunk), uncompW \in Nat, WireInv, NEW x \in Chunk, x.off = uncompW,
         out' = Append(out, x), uncompW' = End(x)
  PROVE  WireInv'
PROOF
<1> DEFINE L == Len(out)
<1>1. /\ L \in Nat /\ Len(out') = L + 1 /\ out' # <<>> /\ out' \in Seq(Chunk)
      /\ \A i \in 1..L : out'[i] = out[i]
      /\ out'[L + 1] = x
  BY AppendProperties
<1> HIDE DEF L
<1>2. Len(out) = L
  BY DEF L
<1>3. \A i \in 1..L : IsBlock(out', i) <=> IsBlock(out, i)
  BY <1>1, <1>2 DEF IsBlock
<1>4. IsBlock(out', L + 1) <=> x.kind = "block"
  BY <1>1 DEF IsBlock
<1>5. \A i \in 0..L, j \in 1..(L + 1) : Adjacent(out', i, j) <=> Adjacent(out, i, j)
  BY <1>1, <1>3 DEF Adjacent
<1>6. \A i \in 0..L : Adjacent(out', i, L + 2) <=> x.kind # "block" /\ Adjacent(out, i, L + 1)
  BY <1>1, <1>3, <1>4 DEF Adjacent
<1>7. uncompW' = EndOf(out')
  BY <1>1 DEF EndOf
<1>8. \A j \in 1..(L + 1) : Adjacent(out', 0, j) => out'[j].off = 0
  <2>1. ASSUME NEW j \in 1..(L + 1), Adjacent(out', 0, j)
        PROVE  out'[j].off = 0
    <3>1. Adjacent(out, 0, j)
      BY <1>1, <1>5, <2>1
    <3>2. CASE j \in 1..L
      BY <1>1, <1>2, <3>1, <3>2 DEF WireInv, WireContiguous
    <3>3. CASE j = L + 1
      BY <1>1, <1>2, <3>1, <3>3 DEF WireInv
    <3> QED
      BY <1>1, <3>2, <3>3
  <2> QED
    BY <2>1
<1>9. \A i, j \in 1..(L + 1) :
        IsBlock(out', i) /\ Adjacent(out', i, j) => out'[j].off = out'[i].off + out'[i].len
  <2>1. ASSUME NEW i \in 1..(L + 1), NEW j \in 1..(L + 1), IsBlock(out', i), Adjacent(out', i, j)
        PROVE  out'[j].off = out'[i].off + out'[i].len
    <3>1. i < j /\ i \in 1..L /\ i \in 0..L
      BY <1>1, <2>1 DEF Adjacent
    <3>2. Adjacent(out, i, j) /\ IsBlock(out, i) /\ out'[i] = out[i]
      BY <1>1, <1>3, <1>5, <2>1, <3>1
    <3>3. CASE j \in 1..L
      BY <1>1, <1>2, <3>1, <3>2, <3>3 DEF WireInv, WireContiguous
    <3>4. CASE j = L + 1
      <4>1. out[i].off + out[i].len = uncompW
        BY <1>2, <3>1, <3>2, <3>4 DEF WireInv, WireContiguous
      <4> QED
        BY <1>1, <3>2, <3>4, <4>1
    <3> QED
      BY <1>1, <3>3, <3>4
  <2> QED
    BY <2>1
<1>10. \A i \in 1..(L + 1) :
         IsBlock(out', i) /\ Adjacent(out', i, L + 2) => out'[i].off + out'[i].len = uncompW'
  <2>1. ASSUME NEW i \in 1..(L + 1), IsBlock(out', i), Adjacent(out', i, L + 2)
        PROVE  out'[i].off + out'[i].len = uncompW'
    <3>1. CASE i = L + 1
      BY <1>1, <1>4, <2>1, <3>1 DEF End
    <3>2. CASE i \in 1..L
      <4>1. x.kind # "block" /\ Adjacent(out, i, L + 1) /\ IsBlock(out, i) /\ out'[i] = out[i]
        BY <1>1, <1>3, <1>6, <2>1, <3>2
      <4>2. out[i].off + out[i].len = uncompW
        BY <1>2, <3>2, <4>1 DEF WireInv, WireContiguous
      <4> QED
        BY <4>1, <4>2 DEF End
    <3> QED
      BY <1>1, <3>1, <3>2
  <2> QED
    BY <2>1
<1>11. Adjacent(out', 0, L + 2) => uncompW' = 0
  BY <1>1, <1>2, <1>6 DEF WireInv, End
<1>12. (L + 1) + 1 = L + 2
  BY <1>1
<1> QED
  BY <1>1, <1>7, <1>8, <1>9, <1>10, <1>11, <1>12 DEF WireInv, WireContiguous

\* Every step keeps the blocks on the wire end to end.
LEMMA WireInvStep ==
  ASSUME StreamInv, [Next]_vars
  PROVE  WireInv'
PROOF
<1>1. CASE UNCHANGED <<out, uncompW>>
  BY <1>1 DEF StreamInv, WireInv, WireContiguous, EndOf, End, IsBlock, Adjacent
<1>2. CASE WriteRaw \/ \E r \in results : WriteBlock(r)
  <2>1. /\ sent[Len(out) + 1] \in Chunk /\ out' = Append(out, sent[Len(out) + 1])
        /\ sent[Len(out) + 1].off = uncompW
    BY <1>2, DeliverNext, NextOffset
  <2>2. out \in Seq(Chunk) /\ uncompW \in Nat
    BY DEF StreamInv, OrderInv, TypeInv, TypeOK, WriterTypeOK
  <2>3. uncompW' = End(sent[Len(out) + 1])
    <3>1. CASE WriteRaw
      <4>1. sent[Len(out) + 1].kind = held.kind /\ held.kind # "block" /\ uncompW' = uncompW
        BY <3>1, RawIsNext DEF WriteRaw, StreamInv, OrderInv
      <4> QED
        BY <2>1, <4>1 DEF End
    <3>2. ASSUME NEW r \in results, WriteBlock(r)
          PROVE  uncompW' = End(sent[Len(out) + 1])
      <4>1. /\ sent[Len(out) + 1].kind = "block" /\ sent[Len(out) + 1].len = r.len
            /\ uncompW' = uncompW + r.len
        BY <3>2, ResultIsNext DEF WriteBlock, StreamInv, OrderInv
      <4> QED
        BY <2>1, <4>1 DEF End
    <3> QED
      BY <1>2, <3>1, <3>2
  <2> QED
    BY <2>1, <2>2, <2>3, WireAppend DEF StreamInv
<1>3. CASE Prepare \/ SendOrder \/ SubmitJob \/ SubmitFull \/ Return \/ CloseChannels \/ Join
  BY <1>3, <1>1 DEF Prepare, SendOrder, SubmitJob, SubmitFull, Return, CloseChannels,
     Join, writerVars
<1>4. CASE WriterTake \/ WriteTrailer \/ TrailerFails
  BY <1>4, <1>1 DEF WriterTake, WriteTrailer, TrailerFails
<1> QED
  BY <1>1, <1>2, <1>3, <1>4, StepKinds, BeginningFrame, RefusingFrame, AbortingFrame,
     WorkerFrame,
     StoppingFrame DEF vars, writerVars

\* The index chunk of the trailer declares how far the data on the sink goes.
LEMMA TrailerTotal ==
  ASSUME uncompW \in Nat, index \in Seq(IndexEntry), NEW padded \in BOOLEAN
  PROVE  \A i \in 1..Len(Trailer(padded)) :
           Trailer(padded)[i].kind = "index" => Trailer(padded)[i].len = uncompW
PROOF
<1> DEFINE pad == [kind |-> "padding", off |-> 0, len |-> 0]
           idx == [kind |-> "index", off |-> Len(index), len |-> uncompW]
           s == IF padded THEN <<pad>> ELSE <<>>
           u == IF AppendIndex THEN <<idx>> ELSE <<>>
<1>1. pad.kind # "index" /\ idx.len = uncompW /\ pad \in TrailerChunk /\ idx \in TrailerChunk
  BY DEF TrailerChunk
<1>2. Trailer(padded) = s \o u
  BY DEF Trailer
<1> HIDE DEF pad, idx
<1>3. /\ s \in Seq(TrailerChunk) /\ u \in Seq(TrailerChunk)
      /\ \A i \in 1..Len(s) : s[i] = pad
      /\ \A i \in 1..Len(u) : u[i] = idx
  <2>1. /\ <<>> \in Seq(TrailerChunk) /\ Len(<<>>) = 0
        /\ <<pad>> \in Seq(TrailerChunk) /\ Len(<<pad>>) = 1 /\ <<pad>>[1] = pad
        /\ <<idx>> \in Seq(TrailerChunk) /\ Len(<<idx>>) = 1 /\ <<idx>>[1] = idx
    BY <1>1
  <2>2. s = <<>> \/ s = <<pad>>
    OBVIOUS
  <2>3. u = <<>> \/ u = <<idx>>
    OBVIOUS
  <2> HIDE DEF s, u
  <2>4. s \in Seq(TrailerChunk) /\ \A i \in 1..Len(s) : s[i] = pad
    <3>1. CASE s = <<>>
      <4>1. Len(s) = 0
        BY <2>1, <3>1, Zenon
      <4> QED
        BY <2>1, <3>1, <4>1
    <3>2. CASE s = <<pad>>
      <4>1. Len(s) = 1 /\ s[1] = pad
        BY <2>1, <3>2, Zenon
      <4>2. \A i \in 1..1 : i = 1
        OBVIOUS
      <4> QED
        BY <2>1, <3>2, <4>1, <4>2, Zenon
    <3> QED
      BY <2>2, <3>1, <3>2
  <2>5. u \in Seq(TrailerChunk) /\ \A i \in 1..Len(u) : u[i] = idx
    <3>1. CASE u = <<>>
      <4>1. Len(u) = 0
        BY <2>1, <3>1, Zenon
      <4> QED
        BY <2>1, <3>1, <4>1
    <3>2. CASE u = <<idx>>
      <4>1. Len(u) = 1 /\ u[1] = idx
        BY <2>1, <3>2, Zenon
      <4>2. \A i \in 1..1 : i = 1
        OBVIOUS
      <4> QED
        BY <2>1, <3>2, <4>1, <4>2, Zenon
    <3> QED
      BY <2>3, <3>1, <3>2
  <2> QED
    BY <2>4, <2>5
<1> HIDE DEF s, u
<1>4. /\ Len(s \o u) = Len(s) + Len(u) /\ Len(s) \in Nat /\ Len(u) \in Nat
      /\ \A i \in 1..Len(s) : (s \o u)[i] = s[i]
      /\ \A i \in 1..Len(u) : (s \o u)[Len(s) + i] = u[i]
  BY <1>3, ConcatProperties
<1>5. ASSUME NEW i \in 1..Len(s \o u)
      PROVE  (s \o u)[i] \in {pad, idx}
  <2>1. CASE i <= Len(s)
    BY <1>3, <1>4, <2>1
  <2>2. CASE i > Len(s)
    <3>1. i - Len(s) \in 1..Len(u) /\ i = Len(s) + (i - Len(s))
      BY <1>4, <2>2
    <3> QED
      BY <1>3, <1>4, <3>1
  <2> QED
    BY <1>4, <2>1, <2>2
<1> QED
  BY <1>1, <1>2, <1>5

\* Nothing is written behind a trailer, and a failed call rules a good end out.
LEMMA EndInvStep ==
  ASSUME StreamInv, [Next]_vars
  PROVE  EndInv'
PROOF
<1> USE DEF StreamInv
<1>t. /\ uncompW \in Nat /\ index \in Seq(IndexEntry) /\ Padding \in BOOLEAN /\ FALSE \in BOOLEAN
      /\ sent \in Seq(Chunk) /\ out \in Seq(Chunk) /\ Len(sent) \in Nat /\ Len(out) \in Nat
      /\ Len(<<>>) = 0 /\ failed \in BOOLEAN
  BY OptionAssumption DEF OrderInv, TypeInv, TypeOK, GhostTypeOK, WriterTypeOK
<1>a. pc \notin {"close2", "join", "ended"} => fin # "ok" /\ ret # "ok"
  BY DEF OrderInv, CloseInv
<1>1. CASE UNCHANGED <<trailer, uncompW, failed, fin, ret, call, wr>>
  BY <1>1 DEF EndInv, Running
<1>2. CASE Aborting
  BY <1>2, <1>a, AbortingFrame DEF EndInv, Running, InCall
<1>3. CASE Refusing
  BY <1>3, <1>a, RefusingFrame DEF EndInv, Running
<1>4. CASE Beginning
  BY <1>4, <1>a, BeginningFrame DEF EndInv, Running
<1>5. CASE Return
  BY <1>5, <1>a DEF EndInv, Running, Return, ghostVars, writerVars
<1>6. CASE Join
  <2>1. /\ ret # "ok" /\ ret' = FinishResult
        /\ UNCHANGED <<trailer, uncompW, failed, fin, call, wr>>
    BY <1>6 DEF Join, OrderInv, CloseInv, ghostVars, writerVars
  <2> QED
    BY <2>1 DEF EndInv, Running, FinishResult
<1>7. CASE WriterTake \/ WriteRaw \/ \E r \in results : WriteBlock(r)
  <2>1. Running /\ UNCHANGED <<trailer, failed, fin, ret, call>>
    BY <1>7, DeliverNext DEF WriterTake, Running, callerVars, ghostVars
  <2>2. trailer' = <<>>
    BY <2>1 DEF EndInv
  <2> QED
    BY <2>1, <2>2, <1>t DEF EndInv
<1>8. CASE Stopping
  <2>1. /\ wr' \notin {"recv", "have"} /\ fin' \in {fin, "err"}
        /\ UNCHANGED <<uncompW, failed, ret, call>>
    BY <1>8, StoppingFrame DEF callerVars, ghostVars
  <2>2. \A i \in 1..Len(trailer') : trailer'[i].kind = "index" => trailer'[i].len = uncompW
    <3>1. CASE UNCHANGED trailer
      BY <3>1 DEF EndInv
    <3>2. ASSUME NEW padded \in BOOLEAN, NEW k \in 0..Len(Trailer(padded)),
                 trailer' = SubSeq(Trailer(padded), 1, k)
          PROVE  \A i \in 1..Len(trailer') :
                   trailer'[i].kind = "index" => trailer'[i].len = uncompW
      <4>1. Trailer(padded) \in Seq(TrailerChunk)
        BY TrailerType DEF OrderInv, TypeInv, TypeOK
      <4>2. \A i \in 1..Len(trailer') : trailer'[i] = Trailer(padded)[i]
                                       /\ i \in 1..Len(Trailer(padded))
        BY <3>2, <4>1
      <4> QED
        BY <4>2, <1>t, TrailerTotal
    <3>3. \/ UNCHANGED trailer
          \/ \E padded \in BOOLEAN : \E k \in 0..Len(Trailer(padded)) :
               trailer' = SubSeq(Trailer(padded), 1, k)
      BY <1>8, <1>t DEF Stopping, WriteEncodeError, WriteFails, WorkerLost, GiveUp,
         WriterExit, WriterPanic
    <3> QED
      BY <3>1, <3>2, <3>3
  <2> QED
    BY <2>1, <2>2 DEF EndInv, Running
<1>9. CASE WriteTrailer
  <2>1. /\ wr = "recv" /\ order = <<>> /\ wr' = "gone" /\ UNCHANGED <<uncompW, failed, ret, call>>
        /\ \E padded \in BOOLEAN : trailer' = Trailer(padded)
    BY <1>9, <1>t DEF WriteTrailer, callerVars, ghostVars
  <2>2. \A i \in 1..Len(trailer') : trailer'[i].kind = "index" => trailer'[i].len = uncompW
    BY <2>1, <1>t, TrailerTotal
  <2>3. Len(sent) = Len(out)
    BY <2>1, <1>t DEF OrderInv, QueueInv, Running, Taken
  <2>4. ~failed
    BY <2>1, <2>3, <1>t DEF GapInv, Running
  <2> QED
    BY <2>1, <2>2, <2>4 DEF EndInv, Running
<1>10. CASE TrailerFails
  <2>1. /\ wr' = "failing" /\ UNCHANGED <<uncompW, failed, ret, call, fin>>
    BY <1>10 DEF TrailerFails, Record, callerVars, ghostVars
  <2>2. PICK padded \in BOOLEAN : \E k \in 0..Len(Trailer(padded)) :
          trailer' = SubSeq(Trailer(padded), 1, k)
    BY <1>10, <1>t DEF TrailerFails
  <2>3. Trailer(padded) \in Seq(TrailerChunk)
    BY TrailerType DEF OrderInv, TypeInv, TypeOK
  <2>4. PICK k \in 0..Len(Trailer(padded)) : trailer' = SubSeq(Trailer(padded), 1, k)
    BY <2>2
  <2>5. Len(trailer') = k /\ \A i \in 1..k : trailer'[i] = Trailer(padded)[i]
    BY <2>3, <2>4
  <2>6. \A i \in 1..Len(trailer') : trailer'[i].kind = "index" => trailer'[i].len = uncompW
    BY <2>3, <2>4, <2>5, <1>t, TrailerTotal
  <2> QED
    BY <2>1, <2>6 DEF EndInv, Running
<1>11. CASE Prepare \/ SendOrder \/ SubmitJob \/ SubmitFull \/ CloseChannels
  BY <1>11, <1>1 DEF Prepare, SendOrder, SubmitJob, SubmitFull, CloseChannels,
     ghostVars, writerVars
<1>12. CASE UNCHANGED vars \/ \E w \in Workers : WorkerStep(w) \/ WorkerPanic(w)
  BY <1>12, <1>1, WorkerFrame DEF vars, callerVars, ghostVars, writerVars
<1> QED
  BY <1>2, <1>3, <1>4, <1>5, <1>6, <1>7, <1>8, <1>9, <1>10, <1>11, <1>12, StepKinds

\* The pairs of the index hold numbers.
LEMMA IndexComp ==
  ASSUME index \in Seq(IndexEntry)
  PROVE  \A i \in 1..Len(index) : index[i].comp \in Nat
PROOF
<1>1. \A i \in 1..Len(index) : index[i] \in IndexEntry
  OBVIOUS
<1> QED
  BY <1>1 DEF IndexEntry

\* A pair for the next chunk keeps the index ascending and below the sink's end.
LEMMA IndexAppend ==
  ASSUME index \in Seq(IndexEntry), out \in Seq(Chunk), uncompW \in Nat, IndexInv, Running,
         index' = Append(index, [comp |-> Len(out), uncomp |-> uncompW])
  PROVE  /\ Len(index') = Len(index) + 1 /\ Len(index) \in Nat
         /\ \A i \in 1..Len(index) : index'[i] = index[i] /\ index[i].comp \in Nat
         /\ index'[Len(index) + 1] = [comp |-> Len(out), uncomp |-> uncompW]
         /\ \A i, j \in 1..Len(index') : i < j => index'[i].comp < index'[j].comp
         /\ \A i \in 1..Len(index') : index'[i].comp <= Len(out)
PROOF
<1> DEFINE x == [comp |-> Len(out), uncomp |-> uncompW]
<1>1. x \in IndexEntry /\ x.comp = Len(out) /\ Len(out) \in Nat
  BY DEF IndexEntry
<1> HIDE DEF x
<1>2. /\ Len(index') = Len(index) + 1 /\ Len(index) \in Nat
      /\ \A i \in 1..Len(index) : index'[i] = index[i]
      /\ index'[Len(index) + 1] = x
  BY <1>1 DEF x
<1>3. \A i \in 1..Len(index) : index[i].comp \in Nat
  BY IndexComp
<1>4. \A i \in 1..Len(index) : index[i].comp < Len(out)
  BY DEF IndexInv
<1>5. \A i, j \in 1..Len(index) : i < j => index[i].comp < index[j].comp
  BY DEF IndexInv, IndexExact
<1>6. ASSUME NEW i \in 1..(Len(index) + 1), NEW j \in 1..(Len(index) + 1), i < j
      PROVE  index'[i].comp < index'[j].comp
  <2>1. i \in 1..Len(index)
    BY <1>2, <1>6
  <2>2. CASE j = Len(index) + 1
    BY <2>1, <2>2, <1>1, <1>2, <1>4
  <2>3. CASE j # Len(index) + 1
    BY <2>1, <2>3, <1>2, <1>5, <1>6
  <2> QED
    BY <2>2, <2>3
<1>7. \A i \in 1..(Len(index) + 1) : index'[i].comp <= Len(out)
  BY <1>1, <1>2, <1>3, <1>4
<1> QED
  BY <1>2, <1>3, <1>6, <1>7 DEF x

\* Every pair in the index keeps pointing at its block, and no block is left out.
LEMMA IndexInvStep ==
  ASSUME StreamInv, [Next]_vars
  PROVE  IndexInv'
PROOF
<1> USE DEF StreamInv
<1>t. /\ uncompW \in Nat /\ index \in Seq(IndexEntry) /\ sent \in Seq(Chunk) /\ out \in Seq(Chunk)
      /\ Len(sent) \in Nat /\ Len(out) \in Nat /\ Len(index) \in Nat
      /\ \A i \in 1..Len(index) : index[i].comp \in Nat
      /\ wr \in {"recv", "have", "failing", "gone"}
  BY IndexComp DEF OrderInv, TypeInv, TypeOK, GhostTypeOK, WriterTypeOK
<1>1. CASE UNCHANGED <<index, out>> /\ (Running' => Running)
  BY <1>1 DEF IndexInv, IndexExact, IsBlock
<1>2. CASE WriteRaw \/ \E r \in results : WriteBlock(r)
  <2>1. /\ sent[Len(out) + 1] \in Chunk /\ out' = Append(out, sent[Len(out) + 1])
        /\ sent[Len(out) + 1].off = uncompW /\ Running
    BY <1>2, DeliverNext, NextOffset
  <2>2. /\ Len(out') = Len(out) + 1 /\ \A i \in 1..Len(out) : out'[i] = out[i]
        /\ out'[Len(out) + 1] = sent[Len(out) + 1]
    BY <2>1, <1>t
  <2>3. \A i \in 1..Len(index) : /\ index[i].comp < Len(out)
                                 /\ IsBlock(out, index[i].comp + 1)
                                 /\ out[index[i].comp + 1].off = index[i].uncomp
    BY <2>1 DEF IndexInv, IndexExact
  <2>4. \A i \in 1..Len(index) : /\ index[i].comp < Len(out')
                                 /\ IsBlock(out', index[i].comp + 1)
                                 /\ out'[index[i].comp + 1].off = index[i].uncomp
    BY <2>2, <2>3, <1>t DEF IsBlock
  <2>5. \A k \in 1..Len(out) : IsBlock(out', k) <=> IsBlock(out, k)
    BY <2>2, <1>t DEF IsBlock
  <2>6. GenIndex => \A k \in 1..Len(out) : IsBlock(out', k) =>
          \E i \in 1..Len(index) : index[i].comp + 1 = k
    BY <2>5 DEF IndexInv, IndexExact
  <2>7. CASE index' = index /\ ~(GenIndex /\ IsBlock(out', Len(out) + 1))
    <3>1. GenIndex => \A k \in 1..Len(out') : IsBlock(out', k) =>
            \E i \in 1..Len(index) : index[i].comp + 1 = k
      <4>1. \A k \in 1..Len(out') : k = Len(out) + 1 \/ k \in 1..Len(out)
        BY <2>2, <1>t
      <4> QED
        BY <2>6, <2>7, <4>1
    <3>2. \A i, j \in 1..Len(index) : i < j => index[i].comp < index[j].comp
      BY DEF IndexInv, IndexExact
    <3>3. \A i \in 1..Len(index) : index[i].comp <= Len(out')
      BY <2>4, <2>2, <1>t
    <3> QED
      BY <2>7, <2>4, <3>1, <3>2, <3>3 DEF IndexInv, IndexExact
  <2>8. CASE /\ index' = Append(index, [comp |-> Len(out), uncomp |-> uncompW])
             /\ IsBlock(out', Len(out) + 1)
    <3>1. /\ Len(index') = Len(index) + 1
          /\ \A i \in 1..Len(index) : index'[i] = index[i]
          /\ index'[Len(index) + 1].comp = Len(out) /\ index'[Len(index) + 1].uncomp = uncompW
          /\ \A i, j \in 1..Len(index') : i < j => index'[i].comp < index'[j].comp
          /\ \A i \in 1..Len(index') : index'[i].comp <= Len(out)
      BY <2>1, <2>8, <1>t, IndexAppend
    <3>2. \A i \in 1..Len(index') : /\ index'[i].comp < Len(out')
                                    /\ IsBlock(out', index'[i].comp + 1)
                                    /\ out'[index'[i].comp + 1].off = index'[i].uncomp
      BY <3>1, <2>1, <2>2, <2>4, <2>8, <1>t
    <3>3. GenIndex => \A k \in 1..Len(out') : IsBlock(out', k) =>
            \E i \in 1..Len(index') : index'[i].comp + 1 = k
      <4> SUFFICES ASSUME GenIndex, NEW k \in 1..Len(out'), IsBlock(out', k)
                   PROVE  \E i \in 1..Len(index') : index'[i].comp + 1 = k
        OBVIOUS
      <4>1. CASE k = Len(out) + 1
        BY <4>1, <3>1, <1>t
      <4>2. CASE k # Len(out) + 1
        <5>1. k \in 1..Len(out)
          BY <4>2, <2>2, <1>t
        <5>2. PICK i \in 1..Len(index) : index[i].comp + 1 = k
          BY <5>1, <2>6
        <5> QED
          BY <5>2, <3>1, <1>t
      <4> QED
        BY <4>1, <4>2
    <3>4. \A i \in 1..Len(index') : index'[i].comp <= Len(out')
      <4>1. \A i \in 1..Len(index) : index'[i].comp \in Nat
        BY <3>1, <1>t
      <4>2. \A i \in 1..Len(index') : i = Len(index) + 1 \/ i \in 1..Len(index)
        BY <3>1, <1>t
      <4>3. \A i \in 1..Len(index') : index'[i].comp \in Nat
        BY <4>1, <4>2, <3>1, <1>t
      <4> QED
        BY <3>2, <4>3, <2>2, <1>t
    <3> QED
      BY <3>1, <3>2, <3>3, <3>4 DEF IndexInv, IndexExact
  <2>9. CASE WriteRaw
    <3>1. sent[Len(out) + 1].kind # "block" /\ index' = index
      BY <2>9, RawIsNext DEF WriteRaw, OrderInv
    <3> QED
      BY <3>1, <2>2, <2>7 DEF IsBlock
  <2>10. ASSUME NEW r \in results, WriteBlock(r)
         PROVE  IndexInv'
    <3>1. sent[Len(out) + 1].kind = "block"
      BY <2>10, ResultIsNext DEF WriteBlock, OrderInv
    <3>2. IsBlock(out', Len(out) + 1)
      BY <3>1, <2>2, <1>t DEF IsBlock
    <3>3. IndexAdd
      BY <2>10 DEF WriteBlock
    <3> QED
      BY <3>2, <3>3, <2>7, <2>8 DEF IndexAdd
  <2> QED
    BY <1>2, <2>9, <2>10
<1>3. CASE Stopping
  <2>1. wr' \notin {"recv", "have"} /\ out' = out
    BY <1>3, StoppingFrame
  <2>2. CASE index' = index
    BY <2>1, <2>2, <1>1 DEF Running
  <2>3. CASE WriteFails /\ index' # index
    <3>1. wr = "have" /\ index' = Append(index, [comp |-> Len(out), uncomp |-> uncompW])
      BY <2>3 DEF WriteFails, IndexAdd
    <3>2. /\ Len(index') = Len(index) + 1
          /\ \A i \in 1..Len(index) : index'[i] = index[i]
          /\ index'[Len(index) + 1].comp = Len(out)
          /\ \A i, j \in 1..Len(index') : i < j => index'[i].comp < index'[j].comp
          /\ \A i \in 1..Len(index') : index'[i].comp <= Len(out)
      BY <3>1, <1>t, IndexAppend DEF Running
    <3>3. \A i \in 1..Len(index') : index'[i].comp < Len(out') =>
            /\ IsBlock(out', index'[i].comp + 1)
            /\ out'[index'[i].comp + 1].off = index'[i].uncomp
      <4>1. ASSUME NEW i \in 1..Len(index'), index'[i].comp < Len(out)
            PROVE  i \in 1..Len(index) /\ index'[i] = index[i]
        BY <4>1, <3>2, <1>t
      <4> QED
        BY <4>1, <2>1 DEF IndexInv, IndexExact
    <3>4. GenIndex => \A k \in 1..Len(out') : IsBlock(out', k) =>
            \E i \in 1..Len(index') : index'[i].comp + 1 = k
      <4> SUFFICES ASSUME GenIndex, NEW k \in 1..Len(out), IsBlock(out, k)
                   PROVE  \E i \in 1..Len(index') : index'[i].comp + 1 = k
        BY <2>1
      <4>1. PICK i \in 1..Len(index) : index[i].comp + 1 = k
        BY DEF IndexInv, IndexExact
      <4> QED
        BY <4>1, <3>2, <1>t
    <3> QED
      BY <2>1, <3>2, <3>3, <3>4 DEF IndexInv, IndexExact, Running
  <2> QED
    BY <1>3, <2>2, <2>3 DEF Stopping, WriteEncodeError, WorkerLost, WriterExit,
       WriterPanic
<1>4. CASE WriterTake \/ WriteTrailer \/ TrailerFails
  BY <1>4, <1>1 DEF WriterTake, WriteTrailer, TrailerFails, Running
<1>5. CASE Prepare \/ SendOrder \/ SubmitJob \/ SubmitFull \/ Return \/ CloseChannels \/ Join
  BY <1>5, <1>1 DEF Prepare, SendOrder, SubmitJob, SubmitFull, Return, CloseChannels,
     Join, writerVars,
     Running
<1> QED
  BY <1>1, <1>2, <1>3, <1>4, <1>5, StepKinds, BeginningFrame, RefusingFrame,
     AbortingFrame,
     WorkerFrame DEF vars, writerVars, Running

----------------------------------------------------------------------------
(* What follows for the stream.                                              *)

\* The initial states satisfy the stream invariant.
LEMMA StreamInvInit == Init => StreamInv
PROOF
<1> SUFFICES ASSUME Init PROVE StreamInv
  OBVIOUS
<1>1. OrderInv
  BY OrderInvInit
<1>2. Len(<<>>) = 0
  OBVIOUS
<1>3. ErrInv /\ NewestInv /\ GapInv /\ HeaderInv
  BY DEF Init, ErrInv, NewestInv, GapInv, HeaderInv, Running, Submitting
<1>4. LinkInv
  BY <1>2 DEF Init, LinkInv, InCall, Linked, Leads, EndOf
<1>5. EofInv /\ EndInv /\ IndexInv
  BY <1>2 DEF Init, EofInv, EndInv, IndexInv, IndexExact
<1>6. WireInv
  BY <1>2 DEF Init, WireInv, WireContiguous, EndOf
<1> QED
  BY <1>1, <1>3, <1>4, <1>5, <1>6 DEF StreamInv

\* Every step preserves it.
LEMMA StreamInvStep == StreamInv /\ [Next]_vars => StreamInv'
PROOF
<1> SUFFICES ASSUME StreamInv, [Next]_vars
             PROVE  StreamInv'
  OBVIOUS
<1>1. OrderInv'
  BY OrderInvStep DEF StreamInv
<1> QED
  BY <1>1, ErrInvStep, NewestInvStep, LinkInvStep, GapInvStep, HeaderInvStep, EofInvStep,
     WireInvStep, EndInvStep, IndexInvStep DEF StreamInv

\* In every state with the stream invariant an EOF chunk on the sink is true.
LEMMA StreamEof == StreamInv => EofComplete
PROOF
<1> SUFFICES ASSUME StreamInv, NEW i \in 1..Len(out), out[i].kind = "eof"
             PROVE  i = Len(out) /\ out[i].len = accepted /\ uncompW = accepted
  BY DEF EofComplete
<1>t. /\ sent \in Seq(Chunk) /\ out \in Seq(Chunk) /\ Len(sent) \in Nat /\ Len(out) \in Nat
      /\ accepted \in Nat /\ Len(out) <= Len(sent) /\ out[i] = sent[i]
  BY DEF StreamInv, OrderInv, TypeInv, TypeOK, GhostTypeOK, WriterTypeOK, WirePrefix
<1>1. /\ i = Len(sent) /\ work = <<>> /\ ibuf = 0 /\ ~failed /\ sent[i].len = accepted
  BY <1>t DEF StreamInv, EofInv
<1>2. i = Len(out) /\ out # <<>> /\ sent # <<>>
  BY <1>1, <1>t
<1>3. EndOf(sent) = accepted - 0
  BY <1>1 DEF StreamInv, LinkInv, Leads
<1>4. uncompW = EndOf(sent)
  BY <1>1, <1>2, <1>t DEF StreamInv, WireInv, EndOf
<1> QED
  BY <1>1, <1>2, <1>3, <1>4, <1>t

\* In every state with the stream invariant a good end is a complete stream.
LEMMA StreamLoss == StreamInv => NoSilentLoss
PROOF
<1> SUFFICES ASSUME StreamInv, ret = "ok"
             PROVE  /\ ~failed /\ out = sent /\ out # <<>>
                    /\ out[1].kind = "header" /\ out[Len(out)].kind = "eof"
                    /\ \A i \in 1..Len(trailer) : trailer[i].kind = "index" =>
                         trailer[i].len = accepted
  BY DEF NoSilentLoss
<1>1. fin = "ok" /\ pc = "ended" /\ out = sent /\ ~failed /\ call = "finish"
  BY DEF StreamInv, OrderInv, CloseInv, EndInv
<1>2. work = <<>>
  BY <1>1 DEF StreamInv, LinkInv, InCall
<1>3. sent # <<>> /\ sent[Len(sent)].kind = "eof"
  BY <1>1, <1>2 DEF StreamInv, EofInv
<1>4. sent[1].kind = "header"
  BY <1>1, <1>3 DEF StreamInv, HeaderInv
<1>5. Len(out) \in 1..Len(out)
  BY <1>1, <1>3 DEF StreamInv, OrderInv, TypeInv, TypeOK, GhostTypeOK
<1>6. uncompW = accepted
  BY <1>1, <1>3, <1>5, StreamEof DEF EofComplete
<1> QED
  BY <1>1, <1>3, <1>4, <1>6 DEF StreamInv, EndInv

\* The blocks on the sink are the input from its first byte on without a gap,
\* whatever fails and however the caller goes on after it.
THEOREM SinkHasNoGap == Spec => []WireContiguous
PROOF
<1>1. StreamInv => WireContiguous
  BY DEF StreamInv, WireInv
<1> QED
  BY <1>1, StreamInvInit, StreamInvStep, PTL DEF Spec

\* An EOF chunk on the sink is the last chunk, and all the accepted bytes, of
\* which it declares the number, are in front of it.
THEOREM EofTellsTheTruth == Spec => []EofComplete
  BY StreamEof, StreamInvInit, StreamInvStep, PTL DEF Spec

\* Every pair given to the index is the start of a block and of its data, and
\* on a good stream every block has its pair.
THEOREM IndexPointsAtBlocks == Spec => []IndexExact
PROOF
<1>1. StreamInv => IndexExact
  BY DEF StreamInv, IndexInv
<1> QED
  BY <1>1, StreamInvInit, StreamInvStep, PTL DEF Spec

\* finish returns the sink only when no call has failed and the whole stream,
\* from its header to its EOF chunk, is on it.
THEOREM FinishHidesNoLoss == Spec => []NoSilentLoss
  BY StreamLoss, StreamInvInit, StreamInvStep, PTL DEF Spec

----------------------------------------------------------------------------
(* The threads and the buffers of MtWriter: ErrorsExplained and              *)
(* BuffersBounded as theorems.                                               *)

----------------------------------------------------------------------------
(* Errors.  Without panics threads end only when they are told to, and every *)
(* block that was submitted and is not on the sink has someone to answer for *)
(* it: the only way to the error slot is a sink or an encoder that failed.   *)

NoPanics == Faults \cap {"workerPanic", "sinkPanic"} = {}

\* A worker has a job exactly while it encodes.
IdleInv == \A w \in Workers : wst[w] # "busy" => busy[w] = NoJob

\* Each block the writer thread has still to write can be answered for.
AnswerInv == Running => \A c \in (Len(out) + 1)..Len(sent) :
                          sent[c].kind = "block" => Answerable(c)

ThreadInv == /\ wr = "gone" => err # "none" \/ fin = "ok"
             /\ \A w \in Workers : wst[w] # "unwind"
             /\ \A w \in Workers : wst[w] = "gone" => ~submitOpen
             /\ ~submitOpen => Closing

CauseInv == StreamInv /\ IdleInv /\ (NoPanics => ErrorsExplained /\ ThreadInv /\ AnswerInv)

\* Without panics neither thread panics.
LEMMA NoPanicSteps ==
  ASSUME NoPanics
  PROVE  ~WriterPanic /\ \A w \in Workers : ~WorkerPanic(w)
PROOF
<1>1. "sinkPanic" \notin Faults /\ "workerPanic" \notin Faults
  BY DEF NoPanics
<1> QED
  BY <1>1 DEF WriterPanic, WorkerPanic

\* A worker that stops encoding has put its job down.
LEMMA IdleInvStep ==
  ASSUME CauseInv, [Next]_vars
  PROVE  IdleInv'
PROOF
<1> USE DEF CauseInv, IdleInv
<1>t. busy \in [Workers -> Job] /\ wst \in [Workers -> {"idle", "busy", "unwind", "gone"}]
  BY DEF StreamInv, OrderInv, TypeInv, TypeOK, WorkerTypeOK
<1>1. CASE UNCHANGED <<wst, busy>>
  BY <1>1
<1>2. ASSUME NEW w \in Workers, WorkerStep(w) \/ WorkerPanic(w)
      PROVE  IdleInv'
  BY <1>2, <1>t
  DEF WorkerStep, WorkerTake, WorkerFinish, WorkerPanic, WorkerUnwound, WorkerExit
<1>3. CASE Prepare \/ SendOrder \/ SubmitJob \/ SubmitFull \/ Return \/ CloseChannels \/ Join
  BY <1>3, <1>1 DEF Prepare, SendOrder, SubmitJob, SubmitFull, Return, CloseChannels, Join
<1>4. CASE WriterTake \/ WriteTrailer \/ TrailerFails
  BY <1>4, <1>1 DEF WriterTake, WriteTrailer, TrailerFails
<1> QED
  BY <1>1, <1>2, <1>3, <1>4, StepKinds, BeginningFrame, RefusingFrame, AbortingFrame,
     StoppingFrame, DeliverNext DEF vars

\* Without panics no worker is found gone while a call is in progress, and the
\* writer thread is found gone only with its error recorded.
LEMMA NeverGone ==
  ASSUME CauseInv, NoPanics
  PROVE  /\ ~SubmitFails
         /\ SendOrderFails => err # "none"
PROOF
<1>1. cur \in Workers
  BY DEF CauseInv, StreamInv, OrderInv, TypeInv, TypeOK, CallerTypeOK
<1>2. ~SubmitFails
  BY <1>1 DEF CauseInv, ThreadInv, SubmitFails, Closing
<1>3. ASSUME SendOrderFails
      PROVE  err # "none"
  <2>1. wr = "gone" /\ pc = "order"
    BY <1>3 DEF SendOrderFails
  <2>2. fin # "ok"
    BY <2>1 DEF CauseInv, StreamInv, OrderInv, CloseInv
  <2> QED
    BY <2>1, <2>2 DEF CauseInv, ThreadInv
<1> QED
  BY <1>2, <1>3

\* Without panics the writer thread never waits on a channel without a sender.
LEMMA NeverLost == CauseInv /\ NoPanics => ~WorkerLost
PROOF
<1> SUFFICES ASSUME CauseInv, NoPanics, WorkerLost
             PROVE  FALSE
  OBVIOUS
<1>t. sent \in Seq(Chunk) /\ out \in Seq(Chunk) /\ order \in Seq(OrderItem)
  BY DEF CauseInv, StreamInv, OrderInv, TypeInv, TypeOK, GhostTypeOK, SharedTypeOK,
     WriterTypeOK
<1>1. wr = "have" /\ held.kind = "block" /\ ~Answerable(held.n) /\ Running
  BY DEF WorkerLost, Running
<1>2. held = SlotFor(Len(out) + 1) /\ Len(out) + 1 \in (Len(out) + 1)..Len(sent)
  BY <1>1, <1>t DEF CauseInv, StreamInv, OrderInv, QueueInv, Taken
<1>3. sent[Len(out) + 1].kind = "block" /\ held.n = Len(out) + 1
  BY <1>1, <1>2 DEF SlotFor, BlockSlot
<1> QED
  BY <1>1, <1>2, <1>3 DEF CauseInv, AnswerInv

\* The threads end only when they are told to.
LEMMA ThreadInvStep ==
  ASSUME CauseInv, NoPanics, [Next]_vars
  PROVE  ThreadInv'
PROOF
<1> USE DEF CauseInv, ThreadInv, Closing
<1>t. wst \in [Workers -> {"idle", "busy", "unwind", "gone"}]
      /\ wr \in {"recv", "have", "failing", "gone"}
  BY DEF StreamInv, OrderInv, TypeInv, TypeOK, WorkerTypeOK, WriterTypeOK
<1>1. CASE UNCHANGED <<wr, err, fin, wst, submitOpen>> /\ (Closing => Closing')
  BY <1>1
<1>2. CASE Beginning
  BY <1>2, <1>1, BeginningFrame
<1>3. CASE Refusing
  BY <1>3, <1>1, RefusingFrame
<1>4. CASE Aborting
  BY <1>4, <1>1, AbortingFrame DEF InCall
<1>5. CASE Prepare \/ SendOrder \/ SubmitJob \/ SubmitFull \/ Return \/ Join
  BY <1>5, <1>1 DEF Prepare, SendOrder, SubmitJob, SubmitFull, Return, Join, writerVars
<1>6. CASE CloseChannels
  BY <1>6 DEF CloseChannels, writerVars
<1>7. ASSUME NEW w \in Workers, WorkerStep(w) \/ WorkerPanic(w)
      PROVE  ThreadInv'
  <2>1. UNCHANGED <<wr, err, fin, submitOpen, pc>> /\ WorkerStep(w)
    BY <1>7, WorkerFrame, NoPanicSteps DEF callerVars, writerVars
  <2>2. \A v \in Workers : /\ wst'[v] # "unwind"
                           /\ wst'[v] = "gone" => wst[v] = "gone" \/ ~submitOpen
    BY <2>1, <1>t DEF WorkerStep, WorkerTake, WorkerFinish, WorkerUnwound, WorkerExit
  <2> QED
    BY <2>1, <2>2
<1>8. CASE WriteRaw \/ (\E r \in results : WriteBlock(r)) \/ WriterTake \/ WriteTrailer \/ TrailerFails
  <2>1. UNCHANGED <<wst, submitOpen, pc>>
    BY <1>8 DEF WriteRaw, WriteBlock, WriterTake, WriteTrailer, TrailerFails, callerVars
  <2>2. wr' \in {"recv", "have", "failing"} \/ fin' = "ok"
    BY <1>8 DEF WriteRaw, WriteBlock, WriterTake, WriteTrailer, TrailerFails, Record
  <2> QED
    BY <2>1, <2>2
<1>9. CASE Stopping
  <2>1. UNCHANGED <<wst, submitOpen, pc>>
    BY <1>9, StoppingFrame DEF callerVars
  <2>2. wr' = "gone" => err' # "none"
    BY <1>9, NoPanicSteps
    DEF Stopping, WriteEncodeError, WriteFails, WorkerLost, GiveUp, Record, WriterExit, StreamInv,
        ErrInv
  <2> QED
    BY <2>1, <2>2
<1>10. CASE UNCHANGED vars
  BY <1>10, <1>1 DEF vars, callerVars, writerVars
<1> QED
  BY <1>2, <1>3, <1>4, <1>5, <1>6, <1>7, <1>8, <1>9, <1>10, StepKinds

\* The first result for the block at hand does not answer for any other.
LEMMA AnswerInvStep ==
  ASSUME CauseInv, NoPanics, [Next]_vars
  PROVE  AnswerInv'
PROOF
<1> USE DEF CauseInv
<1>t. /\ sent \in Seq(Chunk) /\ out \in Seq(Chunk) /\ order \in Seq(OrderItem)
      /\ Len(sent) \in Nat /\ Len(out) \in Nat /\ Len(order) \in Nat /\ cur \in Workers
      /\ slot \in [Workers -> Job] /\ busy \in [Workers -> Job]
      /\ wst \in [Workers -> {"idle", "busy", "unwind", "gone"}]
  BY DEF StreamInv, OrderInv, TypeInv, TypeOK, CallerTypeOK, GhostTypeOK, SharedTypeOK,
     WorkerTypeOK, WriterTypeOK
<1>0. NoJob.ch = 0
  BY DEF NoJob
<1>1. CASE UNCHANGED <<sent, out, job, slot, busy, results>> /\ (Running' => Running)
  BY <1>1 DEF AnswerInv, Answerable
<1>2. CASE Aborting
  <2>1. CheckErrFails \/ SendOrderFails
    BY <1>2, NeverGone DEF Aborting
  <2>2. job = NoJob
    BY <2>1 DEF CheckErrFails, SendOrderFails, StreamInv, NewestInv, Submitting
  <2> QED
    BY <1>2, <2>2, <1>1, AbortingFrame DEF Running
<1>3. CASE SendOrder
  <2>1. /\ sent' # <<>> /\ Len(sent') = Len(sent) + 1 /\ \A i \in 1..Len(sent) : sent'[i] = sent[i]
        /\ sent'[Len(sent) + 1] = Current /\ UNCHANGED <<slot, busy, results, out, wr>>
        /\ pc = "order" /\ (Current.kind = "block" => job'.ch = Len(sent) + 1)
    BY <1>3, SendOrderFrame DEF SendOrder, StreamInv
  <2>2. job = NoJob
    BY <2>1 DEF StreamInv, NewestInv, Submitting
  <2>3. ASSUME Running', NEW c \in (Len(out') + 1)..Len(sent'), sent'[c].kind = "block"
        PROVE  Answerable(c)'
    <3>1. CASE c = Len(sent) + 1
      BY <3>1, <2>1, <2>3 DEF Answerable
    <3>2. CASE c # Len(sent) + 1
      <4>1. c \in (Len(out) + 1)..Len(sent) /\ sent[c].kind = "block" /\ Running /\ c # 0
        BY <3>2, <2>1, <2>3, <1>t DEF Running
      <4>2. Answerable(c) /\ job.ch # c
        BY <4>1, <2>2, <1>0 DEF AnswerInv
      <4> QED
        BY <4>2, <2>1 DEF Answerable
    <3> QED
      BY <3>1, <3>2
  <2> QED
    BY <2>3 DEF AnswerInv
<1>4. CASE SubmitJob
  <2>1. /\ slot'[cur] = job /\ slot[cur] = NoJob /\ \A w \in Workers : w # cur => slot'[w] = slot[w]
        /\ UNCHANGED <<sent, out, busy, results, wr>>
    BY <1>4, <1>t DEF SubmitJob, ghostVars, writerVars
  <2>2. ASSUME NEW c \in (Len(out) + 1)..Len(sent), Answerable(c)
        PROVE  Answerable(c)'
    <3>1. c # 0
      BY <1>t
    <3> QED
      BY <2>1, <2>2, <3>1, <1>0, <1>t DEF Answerable
  <2> QED
    BY <2>1, <2>2 DEF AnswerInv, Running
<1>5. ASSUME NEW w \in Workers, WorkerStep(w) \/ WorkerPanic(w)
      PROVE  AnswerInv'
  <2>1. UNCHANGED <<sent, out, job, wr, order, held>> /\ WorkerStep(w)
    BY <1>5, WorkerFrame, NoPanicSteps DEF callerVars, ghostVars, writerVars
  <2>2. ASSUME Running, NEW c \in (Len(out) + 1)..Len(sent), sent[c].kind = "block", Answerable(c)
        PROVE  Answerable(c)'
    <3>0. c # 0 /\ c \in Nat
      BY <1>t
    <3>1. CASE WorkerTake(w)
      <4>1. /\ busy[w] = NoJob /\ busy'[w] = slot[w] /\ UNCHANGED results
            /\ \A v \in Workers : v # w => slot'[v] = slot[v] /\ busy'[v] = busy[v]
        BY <3>1, <1>t DEF WorkerTake, IdleInv
      <4> QED
        BY <4>1, <2>1, <2>2, <3>0, <1>0 DEF Answerable
    <3>2. ASSUME NEW as \in {"comp", "raw", "err"}, WorkerFinish(w, as)
          PROVE  Answerable(c)'
      <4>1. Listening(c)
        <5>1. CASE c <= Taken
          <6>1. wr = "have" /\ c = Len(out) + 1
            BY <5>1, <2>2, <1>t DEF Taken
          <6>2. held = SlotFor(c)
            BY <6>1 DEF StreamInv, OrderInv, QueueInv, Running
          <6> QED
            BY <6>1, <6>2, <2>2 DEF Listening, SlotFor
        <5>2. CASE c > Taken
          <6>1. Taken \in Nat /\ Len(sent) = Taken + Len(order)
            BY <2>2, <1>t DEF StreamInv, OrderInv, QueueInv, Taken
          <6>2. c - Taken \in 1..Len(order) /\ Taken + (c - Taken) = c
            BY <5>2, <6>1, <2>2, <1>t
          <6>3. order[c - Taken] = SlotFor(c)
            BY <6>2, <2>2 DEF StreamInv, OrderInv, QueueInv
          <6>4. wr # "gone"
            BY <2>2 DEF Running
          <6> QED
            BY <6>2, <6>3, <6>4, <2>2 DEF Listening, SlotFor
        <5> QED
          BY <5>1, <5>2, <1>t DEF Taken
      <4>2. /\ results \subseteq results' /\ UNCHANGED slot
            /\ \A v \in Workers : v # w => busy'[v] = busy[v]
        BY <3>2, <1>t DEF WorkerFinish
      <4>3. busy[w].ch = c => \E r \in results' : r.ch = c
        <5> DEFINE x == [ch |-> busy[w].ch, off |-> busy[w].off, len |-> busy[w].len, as |-> as]
        <5>1. busy[w].ch = c => x \in results'
          BY <3>2, <4>1 DEF WorkerFinish
        <5>2. x.ch = busy[w].ch
          OBVIOUS
        <5> QED
          BY <5>1, <5>2
      <4> QED
        BY <4>2, <4>3, <2>1, <2>2 DEF Answerable
    <3>3. CASE WorkerUnwound(w)
      BY <3>3 DEF WorkerUnwound, ThreadInv
    <3>4. CASE WorkerExit(w)
      BY <3>4, <2>1, <2>2 DEF WorkerExit, Answerable
    <3> QED
      BY <2>1, <3>1, <3>2, <3>3, <3>4 DEF WorkerStep
  <2> QED
    BY <2>1, <2>2 DEF AnswerInv, Running
<1>6. CASE WriteRaw \/ \E r \in results : WriteBlock(r)
  <2>1. /\ Running /\ out' = Append(out, sent[Len(out) + 1]) /\ sent[Len(out) + 1] \in Chunk
        /\ UNCHANGED <<sent, job, slot, busy>>
    BY <1>6, DeliverNext DEF callerVars, ghostVars
  <2>2. Len(out') = Len(out) + 1
    BY <2>1, <1>t
  <2>3. \A r \in results : r \in results' \/ r.ch = Len(out) + 1
    <3>1. ASSUME NEW r \in results, WriteBlock(r)
          PROVE  r.ch = Len(out) + 1 /\ results' = results \ {r}
      <4>1. wr = "have" /\ held.kind = "block" /\ r.ch = held.n /\ results' = results \ {r}
        BY <3>1 DEF WriteBlock, Answers
      <4>2. held = SlotFor(Len(out) + 1)
        BY <4>1 DEF StreamInv, OrderInv, QueueInv, Running
      <4> QED
        BY <4>1, <4>2 DEF SlotFor, BlockSlot
    <3> QED
      BY <1>6, <3>1 DEF WriteRaw
  <2>4. ASSUME NEW c \in (Len(out') + 1)..Len(sent), Answerable(c)
        PROVE  Answerable(c)'
    <3>1. c # Len(out) + 1
      BY <2>2, <1>t
    <3> QED
      BY <3>1, <2>1, <2>3, <2>4 DEF Answerable
  <2>5. \A c \in (Len(out') + 1)..Len(sent) : c \in (Len(out) + 1)..Len(sent)
    BY <2>2, <1>t
  <2> QED
    BY <2>1, <2>4, <2>5 DEF AnswerInv
<1>7. CASE WriteTrailer \/ TrailerFails \/ Stopping
  BY <1>7, StoppingFrame DEF WriteTrailer, TrailerFails, Record, AnswerInv, Running
<1>8. CASE Prepare \/ SubmitFull \/ Return \/ CloseChannels \/ Join
  BY <1>8, <1>1 DEF Prepare, SubmitFull, Return, CloseChannels, Join, ghostVars,
     writerVars, Running
<1>9. CASE WriterTake
  BY <1>9, <1>1 DEF WriterTake, callerVars, ghostVars, Running
<1>10. CASE Beginning \/ Refusing \/ UNCHANGED vars
  BY <1>10, <1>1, BeginningFrame, RefusingFrame DEF vars, callerVars, ghostVars,
     writerVars, Running
<1> QED
  BY <1>2, <1>3, <1>4, <1>5, <1>6, <1>7, <1>8, <1>9, <1>10, StepKinds

\* No step reports an error without its cause.
LEMMA ErrorsStep ==
  ASSUME CauseInv, NoPanics, [Next]_vars
  PROVE  ErrorsExplained'
PROOF
<1>1. ~unexplained /\ err # "lost"
  BY DEF CauseInv, ErrorsExplained, NoPanics
<1>2. unexplained \in BOOLEAN
  BY DEF CauseInv, StreamInv, OrderInv, TypeInv, TypeOK, GhostTypeOK
<1>3. ~unexplained'
  <2>1. CASE Aborting
    BY <2>1, <1>1, NeverGone
    DEF Aborting, CheckErrFails, SendOrderFails, SubmitFails, CollectPipelineError
  <2>2. CASE Prepare \/ SendOrder \/ SubmitJob \/ SubmitFull \/ Return \/ CloseChannels \/ Join
    BY <2>2, <1>1 DEF Prepare, SendOrder, SubmitJob, SubmitFull, Return, CloseChannels,
       Join, ghostVars
  <2>3. CASE WriterTake \/ WriteTrailer \/ TrailerFails
    BY <2>3, <1>1 DEF WriterTake, WriteTrailer, TrailerFails, ghostVars
  <2> QED
    BY <1>1, <2>1, <2>2, <2>3, StepKinds, BeginningFrame, RefusingFrame, WorkerFrame,
       StoppingFrame, DeliverNext DEF vars, ghostVars, CauseInv
<1>4. err' # "lost"
  <2>1. CASE Prepare \/ SendOrder \/ SubmitJob \/ SubmitFull \/ Return \/ CloseChannels \/ Join
    BY <2>1, <1>1 DEF Prepare, SendOrder, SubmitJob, SubmitFull, Return, CloseChannels,
       Join
  <2>2. CASE WriterTake \/ WriteTrailer \/ TrailerFails
    BY <2>2, <1>1 DEF WriterTake, WriteTrailer, TrailerFails, Record
  <2>3. CASE Stopping
    BY <2>3, <1>1, NeverLost
    DEF Stopping, WriteEncodeError, WriteFails, Record, WriterExit, WriterPanic
  <2> QED
    BY <1>1, <2>1, <2>2, <2>3, StepKinds, BeginningFrame, RefusingFrame, AbortingFrame,
       WorkerFrame, DeliverNext DEF vars, CauseInv
<1> QED
  BY <1>3, <1>4 DEF ErrorsExplained

\* As long as no thread panics every error a call returns names its cause: none
\* is "pipeline closed unexpectedly", and no block is given up as lost.
THEOREM ErrorsNameTheirCause == Spec => []ErrorsExplained
PROOF
<1>1. Init => CauseInv
  <2> SUFFICES ASSUME Init PROVE CauseInv
    OBVIOUS
  <2>1. StreamInv
    BY StreamInvInit
  <2>2. IdleInv /\ ErrorsExplained
    BY DEF Init, IdleInv, ErrorsExplained
  <2>3. ThreadInv
    BY DEF Init, ThreadInv
  <2>4. Len(<<>>) = 0 /\ (0 + 1)..0 = {}
    OBVIOUS
  <2>5. AnswerInv
    BY <2>4 DEF Init, AnswerInv
  <2> QED
    BY <2>1, <2>2, <2>3, <2>5 DEF CauseInv
<1>2. CauseInv /\ [Next]_vars => CauseInv'
  BY StreamInvStep, IdleInvStep, ErrorsStep, ThreadInvStep, AnswerInvStep DEF CauseInv,
     NoPanics
<1>3. CauseInv => ErrorsExplained
  BY DEF CauseInv, ErrorsExplained, NoPanics
<1> QED
  BY <1>1, <1>2, <1>3, PTL DEF Spec

----------------------------------------------------------------------------
(* Buffers.  Every job alive belongs to a block the writer thread has still  *)
(* to write, so the order queue bounds the jobs; a pool allocates only when  *)
(* it is empty, so the jobs bound the buffers.                               *)

UsedBy(f) == {w \in Workers : f[w] # NoJob}

\* Buffers and jobs by where they are: prepared or submitted by the caller,
\* queued, being encoded, answered, and answered with an output buffer.
Prepared == IF pc = "order" /\ Head(work).kind = "block" THEN 1 ELSE 0
Submitted == IF job # NoJob THEN 1 ELSE 0
Queued == Cardinality(UsedBy(slot))
Encoding == Cardinality(UsedBy(busy))
Answered == Cardinality(results)
Bodies == Cardinality({r \in results : r.as = "comp"})

LiveJobs == Submitted + Queued + Encoding + Answered

\* The blocks the writer thread has still to write.
Owed == {c \in (Len(out) + 1)..Len(sent) : sent[c].kind = "block"}

\* At most one item is neither on the sink nor in the order queue.
LagInv == wr # "gone" => Len(sent) <= Len(out) + 1 + Len(order)

BufferInv == /\ IsFiniteSet(results)
             /\ wr # "gone" => LiveJobs <= Cardinality(Owed)
             /\ LiveJobs <= N + 2
             /\ inPool + Prepared + LiveJobs <= N + 3
             /\ outPool + Encoding + Bodies <= N + 2

\* Putting job j down in place w changes the count of places in use by one at most.
LEMMA UsedCount ==
  ASSUME NEW f \in [Workers -> Job], NEW w \in Workers, NEW j \in Job
  PROVE  /\ Cardinality(UsedBy(f)) \in Nat
         /\ f[w] = NoJob /\ j # NoJob
              => Cardinality(UsedBy([f EXCEPT ![w] = j])) = Cardinality(UsedBy(f)) + 1
         /\ f[w] # NoJob /\ j = NoJob
              => Cardinality(UsedBy([f EXCEPT ![w] = j])) = Cardinality(UsedBy(f)) - 1
         /\ (f[w] = NoJob <=> j = NoJob)
              => Cardinality(UsedBy([f EXCEPT ![w] = j])) = Cardinality(UsedBy(f))
PROOF
<1> DEFINE g == [f EXCEPT ![w] = j]
           F == UsedBy(f)
           G == UsedBy(g)
<1>1. IsFiniteSet(Workers)
  BY NAssumption, FS_Interval DEF Workers
<1>2. F \in SUBSET Workers /\ G \in SUBSET Workers
  BY DEF UsedBy
<1>3. IsFiniteSet(F) /\ Cardinality(F) \in Nat /\ IsFiniteSet(G) /\ Cardinality(G) \in Nat
  <2> HIDE DEF F, G
  <2> QED
    BY <1>1, <1>2, FS_Subset, FS_CardinalityType
<1>4. w \in F <=> f[w] # NoJob
  BY DEF UsedBy
<1>5. CASE j = NoJob
  <2>1. G = F \ {w}
    BY <1>5 DEF UsedBy
  <2> HIDE DEF F, G
  <2>2. Cardinality(G) = IF w \in F THEN Cardinality(F) - 1 ELSE Cardinality(F)
    BY <1>3, <2>1, FS_RemoveElement
  <2> QED
    BY <1>3, <1>4, <1>5, <2>2 DEF F, G
<1>6. CASE j # NoJob
  <2>1. G = F \cup {w}
    BY <1>6 DEF UsedBy
  <2> HIDE DEF F, G
  <2>2. Cardinality(G) = IF w \in F THEN Cardinality(F) ELSE Cardinality(F) + 1
    BY <1>3, <2>1, FS_AddElement
  <2> QED
    BY <1>3, <1>4, <1>6, <2>2 DEF F, G
<1> QED
  BY <1>5, <1>6

\* A worker's queue that is not empty counts.
LEMMA QueuedOne ==
  ASSUME slot \in [Workers -> Job], NEW w \in Workers, slot[w] # NoJob
  PROVE  Queued >= 1
PROOF
<1>1. IsFiniteSet(UsedBy(slot)) /\ UsedBy(slot) # {}
  <2>1. IsFiniteSet(Workers)
    BY NAssumption, FS_Interval DEF Workers
  <2>2. UsedBy(slot) \in SUBSET Workers /\ w \in UsedBy(slot)
    BY DEF UsedBy
  <2> QED
    BY <2>1, <2>2, FS_Subset
<1>2. Queued # 0 /\ Queued \in Nat
  BY <1>1, FS_EmptySet, FS_CardinalityType DEF Queued
<1> QED
  BY <1>2

\* A set of results loses no more than it had, and the ones with a body with it.
LEMMA ResultCount ==
  ASSUME NEW R, IsFiniteSet(R), NEW S \in SUBSET R
  PROVE  /\ IsFiniteSet(S) /\ Cardinality(S) \in Nat /\ Cardinality(R) \in Nat
         /\ Cardinality(S) <= Cardinality(R)
         /\ Cardinality({x \in S : x.as = "comp"}) \in Nat
         /\ Cardinality({x \in R : x.as = "comp"}) \in Nat
         /\ Cardinality({x \in S : x.as = "comp"}) <= Cardinality({x \in R : x.as = "comp"})
         /\ Cardinality({x \in R : x.as = "comp"}) <= Cardinality(R)
PROOF
<1> DEFINE A == {x \in S : x.as = "comp"}
           B == {x \in R : x.as = "comp"}
<1>1. A \in SUBSET B /\ B \in SUBSET R
  OBVIOUS
<1> HIDE DEF A, B
<1>2. IsFiniteSet(S) /\ IsFiniteSet(A) /\ IsFiniteSet(B)
  BY <1>1, FS_Subset
<1> QED
  BY <1>1, <1>2, FS_Subset, FS_CardinalityType DEF A, B

\* One result more.
LEMMA ResultAdded ==
  ASSUME NEW R, IsFiniteSet(R), NEW x
  PROVE  /\ IsFiniteSet(R \cup {x})
         /\ Cardinality(R \cup {x}) <= Cardinality(R) + 1
         /\ Cardinality({y \in R \cup {x} : y.as = "comp"})
              <= Cardinality({y \in R : y.as = "comp"}) + 1
         /\ x.as # "comp" => Cardinality({y \in R \cup {x} : y.as = "comp"})
                              = Cardinality({y \in R : y.as = "comp"})
PROOF
<1> DEFINE B == {y \in R : y.as = "comp"}
           C == {y \in R \cup {x} : y.as = "comp"}
<1>1. B \in SUBSET R /\ C = IF x.as = "comp" THEN B \cup {x} ELSE B
  OBVIOUS
<1> HIDE DEF B, C
<1>2. IsFiniteSet(B) /\ Cardinality(B) \in Nat /\ Cardinality(R) \in Nat
  BY <1>1, FS_Subset, FS_CardinalityType
<1>3. Cardinality(C) <= Cardinality(B) + 1 /\ (x.as # "comp" => Cardinality(C) = Cardinality(B))
  <2>1. Cardinality(B \cup {x}) = IF x \in B THEN Cardinality(B) ELSE Cardinality(B) + 1
    BY <1>2, FS_AddElement
  <2>2. CASE x.as = "comp"
    BY <1>1, <1>2, <2>1, <2>2
  <2>3. CASE x.as # "comp"
    BY <1>1, <1>2, <2>3
  <2> QED
    BY <2>2, <2>3
<1>4. IsFiniteSet(R \cup {x}) /\ Cardinality(R \cup {x}) <= Cardinality(R) + 1
  BY <1>2, FS_AddElement
<1> QED
  BY <1>3, <1>4 DEF B, C

\* One result less.
LEMMA ResultTaken ==
  ASSUME NEW R, IsFiniteSet(R), NEW x \in R
  PROVE  /\ Cardinality(R \ {x}) = Cardinality(R) - 1
         /\ x.as = "comp" => Cardinality({y \in R \ {x} : y.as = "comp"})
                              = Cardinality({y \in R : y.as = "comp"}) - 1
         /\ x.as # "comp" => Cardinality({y \in R \ {x} : y.as = "comp"})
                              = Cardinality({y \in R : y.as = "comp"})
PROOF
<1> DEFINE B == {y \in R : y.as = "comp"}
           C == {y \in R \ {x} : y.as = "comp"}
<1>1. B \in SUBSET R /\ C = B \ {x} /\ (x \in B <=> x.as = "comp")
  OBVIOUS
<1> HIDE DEF B, C
<1>2. IsFiniteSet(B) /\ Cardinality(B) \in Nat /\ Cardinality(R) \in Nat
  BY <1>1, FS_Subset, FS_CardinalityType
<1>3. /\ x.as = "comp" => Cardinality(C) = Cardinality(B) - 1
      /\ x.as # "comp" => Cardinality(C) = Cardinality(B)
  <2>1. Cardinality(B \ {x}) = IF x \in B THEN Cardinality(B) - 1 ELSE Cardinality(B)
    BY <1>2, FS_RemoveElement
  <2>2. CASE x.as = "comp"
    BY <1>1, <1>2, <2>1, <2>2
  <2>3. CASE x.as # "comp"
    BY <1>1, <1>2, <2>1, <2>3
  <2> QED
    BY <2>2, <2>3
<1>4. Cardinality(R \ {x}) = Cardinality(R) - 1
  BY <1>2, FS_RemoveElement
<1> QED
  BY <1>3, <1>4 DEF B, C

\* No more blocks are owed than items stand between the caller and the sink.
LEMMA OwedCount ==
  ASSUME sent \in Seq(Chunk), out \in Seq(Chunk)
  PROVE  /\ IsFiniteSet(Owed) /\ Cardinality(Owed) \in Nat
         /\ \A n \in Nat : Len(sent) <= Len(out) + n => Cardinality(Owed) <= n
PROOF
<1>1. Len(sent) \in Nat /\ Len(out) \in Nat /\ Len(out) + 1 \in Int /\ Len(sent) \in Int
  OBVIOUS
<1> DEFINE I == (Len(out) + 1)..Len(sent)
<1>2. IsFiniteSet(I) /\ Cardinality(I) = IF Len(out) + 1 > Len(sent) THEN 0
                                          ELSE Len(sent) - (Len(out) + 1) + 1
  BY <1>1, FS_Interval
<1>3. Owed \in SUBSET I
  BY DEF Owed
<1> HIDE DEF I
<1>4. IsFiniteSet(Owed) /\ Cardinality(Owed) \in Nat /\ Cardinality(Owed) <= Cardinality(I)
  BY <1>2, <1>3, FS_Subset, FS_CardinalityType
<1> QED
  BY <1>1, <1>2, <1>4

\* The same in the next state.
LEMMA OwedCountNext ==
  sent' \in Seq(Chunk) /\ out' \in Seq(Chunk)
    => \A n \in Nat : Len(sent') <= Len(out') + n => Cardinality(Owed') <= n
PROOF
<1>1. sent \in Seq(Chunk) /\ out \in Seq(Chunk)
        => \A n \in Nat : Len(sent) <= Len(out) + n => Cardinality(Owed) <= n
  BY OwedCount
<1>2. (sent \in Seq(Chunk) /\ out \in Seq(Chunk)
         => \A n \in Nat : Len(sent) <= Len(out) + n => Cardinality(Owed) <= n)'
  BY <1>1, PTL
<1> QED
  BY <1>2

\* The counts are numbers.
LEMMA CountTypes ==
  ASSUME TypeInv, IsFiniteSet(results)
  PROVE  /\ Prepared \in Nat /\ Submitted \in Nat /\ Queued \in Nat /\ Encoding \in Nat
         /\ Answered \in Nat /\ Bodies \in Nat /\ Bodies <= Answered
         /\ Cardinality(Owed) \in Nat /\ inPool \in Nat /\ outPool \in Nat
PROOF
<1>1. Prepared \in Nat /\ Submitted \in Nat
  BY DEF Prepared, Submitted
<1>2. Answered \in Nat /\ Bodies \in Nat /\ Bodies <= Answered
  BY ResultCount DEF Answered, Bodies
<1>3. slot \in [Workers -> Job] /\ busy \in [Workers -> Job] /\ NoJob \in Job /\ 0 \in Workers
  <2>1. slot \in [Workers -> Job] /\ busy \in [Workers -> Job]
    BY DEF TypeInv, TypeOK, SharedTypeOK, WorkerTypeOK
  <2>2. NoJob \in Job /\ 0 \in Workers
    BY NAssumption DEF NoJob, Job, Workers
  <2> QED
    BY <2>1, <2>2
<1>4. Queued \in Nat /\ Encoding \in Nat
  BY <1>3, UsedCount DEF Queued, Encoding
<1>5. Cardinality(Owed) \in Nat
  BY OwedCount DEF TypeInv, TypeOK, GhostTypeOK, WriterTypeOK
<1>6. inPool \in Nat /\ outPool \in Nat
  BY NAssumption DEF TypeInv, TypeOK, SharedTypeOK, PoolCap
<1> QED
  BY <1>1, <1>2, <1>4, <1>5, <1>6

\* The bounds of the invariant are the ones of the property.
LEMMA BufferInvBounds == TypeInv /\ BufferInv => BuffersBounded
PROOF
<1> SUFFICES ASSUME TypeInv, BufferInv PROVE BuffersBounded
  OBVIOUS
<1>1. LiveInputs = Prepared + Submitted + Queued + Encoding + Answered
  BY DEF LiveInputs, Prepared, Submitted, Queued, Encoding, Answered, UsedBy
<1>2. LiveOutputs = Encoding + Bodies
  BY DEF LiveOutputs, Encoding, Bodies, UsedBy
<1> QED
  BY <1>1, <1>2, CountTypes, NAssumption DEF BufferInv, BuffersBounded, LiveJobs

\* The order queue stays at most one item behind.
LEMMA LagInvStep ==
  ASSUME StreamInv, LagInv, [Next]_vars
  PROVE  LagInv'
PROOF
<1>t. /\ Len(sent) \in Nat /\ Len(out) \in Nat /\ Len(order) \in Nat
      /\ wr \in {"recv", "have", "failing", "gone"}
  BY DEF StreamInv, OrderInv, TypeInv, TypeOK, GhostTypeOK, SharedTypeOK, WriterTypeOK
<1>a. OrderInv'
  BY OrderInvStep DEF StreamInv
<1>b. /\ Len(sent') \in Nat /\ Len(out') \in Nat /\ Len(order') \in Nat
      /\ wr' \in {"recv", "have", "failing", "gone"}
  BY <1>a DEF OrderInv, TypeInv, TypeOK, GhostTypeOK, SharedTypeOK, WriterTypeOK
<1>1. CASE Running'
  <2>1. Len(sent') = Taken' + Len(order') /\ Taken' <= Len(out') + 1 /\ Taken' \in Nat
    BY <1>1, <1>a, <1>b DEF OrderInv, QueueInv, Taken
  <2> QED
    BY <2>1, <1>b DEF LagInv
<1>2. CASE wr' = "gone"
  BY <1>2 DEF LagInv
<1>3. CASE UNCHANGED <<sent, out, order>> /\ wr # "gone"
  BY <1>3 DEF LagInv
<1>4. CASE UNCHANGED <<sent, out, order, wr>>
  BY <1>4 DEF LagInv
<1>5. CASE SendOrder
  <2>1. /\ wr # "gone" /\ out' = out /\ Len(sent') = Len(sent) + 1
    BY <1>5, SendOrderFrame DEF StreamInv, SendOrder
  <2>2. \E x : order' = Append(order, x)
    BY <1>5 DEF SendOrder
  <2>3. Len(order') = Len(order) + 1
    BY <2>2, <1>t DEF StreamInv, OrderInv, TypeInv, TypeOK, SharedTypeOK
  <2> QED
    BY <2>1, <2>3, <1>t DEF LagInv
<1>6. CASE Prepare \/ SubmitJob \/ SubmitFull \/ Return \/ CloseChannels \/ Join
  BY <1>6, <1>4 DEF Prepare, SubmitJob, SubmitFull, Return, CloseChannels, Join,
     ghostVars, writerVars
<1>7. CASE Stopping \/ TrailerFails
  BY <1>7, <1>2, <1>3
  DEF Stopping, TrailerFails, WriteEncodeError, WriteFails, WorkerLost, WriterExit, WriterPanic,
      DropReceivers, ghostVars
<1>8. CASE WriterTake \/ WriteTrailer \/ WriteRaw \/ \E r \in results : WriteBlock(r)
  BY <1>8, <1>1, <1>2 DEF WriterTake, WriteTrailer, WriteRaw, WriteBlock, Running
<1> QED
  BY <1>4, <1>5, <1>6, <1>7, <1>8, StepKinds, BeginningFrame, RefusingFrame,
     AbortingFrame,
     WorkerFrame DEF vars, ghostVars, writerVars

\* A pool takes one buffer at most, and gives one out unless it is empty.
LEMMA PoolMove ==
  \A p \in Nat : /\ Release(p) \in Nat /\ Release(p) <= p + 1
                 /\ Acquire(p) = IF p > 0 THEN p - 1 ELSE 0
  BY NAssumption DEF Release, Acquire, PoolCap

\* A step that moves no job and only drops what it drops.
LEMMA BufferQuiet ==
  ASSUME TypeInv, BufferInv, UNCHANGED <<slot, busy, inPool, outPool, sent, out>>,
         results' \in SUBSET results, job' = job \/ job' = NoJob,
         pc' # "order" \/ UNCHANGED <<pc, work>>, wr' # "gone" => wr # "gone"
  PROVE  BufferInv'
PROOF
<1>1. Prepared' <= Prepared /\ Prepared' \in Nat
  BY DEF Prepared
<1>2. Submitted' <= Submitted /\ Submitted' \in Nat
  BY DEF Submitted
<1>3. Queued' = Queued /\ Encoding' = Encoding /\ Owed' = Owed
  BY DEF Queued, Encoding, UsedBy, Owed
<1>4. /\ IsFiniteSet(results') /\ Answered' \in Nat /\ Bodies' \in Nat
      /\ Answered' <= Answered /\ Bodies' <= Bodies
  BY ResultCount DEF BufferInv, Answered, Bodies
<1>5. IsFiniteSet(results)
  BY DEF BufferInv
<1> QED
  BY <1>1, <1>2, <1>3, <1>4, <1>5, CountTypes, NAssumption DEF BufferInv, LiveJobs

\* Preparing a block takes an input buffer, a new one only from an empty pool.
LEMMA BufferPrepare ==
  ASSUME TypeInv, BufferInv, Prepare
  PROVE  BufferInv'
PROOF
<1> USE DEF BufferInv
<1>t. /\ Prepared \in Nat /\ Submitted \in Nat /\ Queued \in Nat /\ Encoding \in Nat
      /\ Answered \in Nat /\ Bodies \in Nat /\ inPool \in Nat
  BY CountTypes
<1>1. UNCHANGED <<work, job, slot, busy, results, outPool, sent, out, wr>> /\ pc = "step"
  BY DEF Prepare, ghostVars, writerVars
<1>2. /\ Submitted' = Submitted /\ Queued' = Queued /\ Encoding' = Encoding /\ Owed' = Owed
      /\ Answered' = Answered /\ Bodies' = Bodies /\ Prepared = 0
  BY <1>1 DEF Submitted, Queued, Encoding, UsedBy, Owed, Answered, Bodies, Prepared
<1>3. CASE Head(work).kind = "block"
  <2>1. Prepared' = 1
    BY <1>1, <1>3 DEF Prepare, Prepared
  <2>2. inPool' = IF inPool > 0 THEN inPool - 1 ELSE 0
    BY <1>3, <1>t, PoolMove DEF Prepare
  <2>3. inPool' + Prepared' + LiveJobs' <= N + 3
    BY <1>2, <1>t, <2>1, <2>2, NAssumption DEF LiveJobs
  <2> QED
    BY <1>1, <1>2, <2>3 DEF LiveJobs
<1>4. CASE Head(work).kind # "block"
  <2>1. Prepared' = 0 /\ inPool' = inPool
    BY <1>1, <1>4 DEF Prepare, Prepared
  <2> QED
    BY <1>1, <1>2, <2>1 DEF LiveJobs
<1> QED
  BY <1>3, <1>4

\* The order queue has room, so the job it lets through is one of N + 2.
LEMMA BufferSendOrder ==
  ASSUME StreamInv, LagInv, BufferInv, SendOrder
  PROVE  BufferInv'
PROOF
<1>0. TypeInv
  BY DEF StreamInv, OrderInv
<1>t. /\ Prepared \in Nat /\ Submitted \in Nat /\ Queued \in Nat /\ Encoding \in Nat
      /\ Answered \in Nat /\ Bodies \in Nat /\ inPool \in Nat /\ Cardinality(Owed) \in Nat
  BY <1>0, CountTypes DEF BufferInv
<1>n. N \in Nat
  BY NAssumption
<1>a. /\ sent \in Seq(Chunk) /\ out \in Seq(Chunk) /\ Len(order) \in Nat
      /\ Len(sent) \in Nat /\ Len(out) \in Nat
  BY DEF StreamInv, OrderInv, TypeInv, TypeOK, GhostTypeOK, SharedTypeOK, WriterTypeOK
<1>1. /\ UNCHANGED <<slot, busy, results, inPool, outPool, out, wr>>
      /\ pc = "order" /\ pc' \in {"try", "step"} /\ wr # "gone" /\ Len(order) < OrderCap
      /\ Current.kind = Head(work).kind
      /\ Current.kind # "block" => job' = job
      /\ sent' \in Seq(Chunk) /\ Len(sent') = Len(sent) + 1
      /\ \A i \in 1..Len(sent) : sent'[i] = sent[i]
      /\ sent'[Len(sent) + 1] = Current
  BY <1>0, SendOrderFrame DEF StreamInv, SendOrder, OrderHasRoom
<1>2. /\ Queued' = Queued /\ Encoding' = Encoding /\ Answered' = Answered /\ Bodies' = Bodies
      /\ Prepared' = 0
  BY <1>1 DEF Queued, Encoding, UsedBy, Answered, Bodies, Prepared
<1>3. Cardinality(Owed') <= N + 2
  <2>1. Len(sent') <= Len(out') + (N + 2)
    BY <1>1, <1>a, NAssumption DEF LagInv, OrderCap
  <2>2. \A n \in Nat : Len(sent') <= Len(out') + n => Cardinality(Owed') <= n
    <3>1. sent' \in Seq(Chunk) /\ out' \in Seq(Chunk)
      BY <1>1, <1>a
    <3> QED
      BY <3>1, OwedCountNext
  <2> QED
    BY <2>1, <2>2, NAssumption
<1>4. CASE Current.kind = "block"
  <2>1. Owed' = Owed \cup {Len(sent) + 1} /\ Len(sent) + 1 \notin Owed
    <3>1. Len(sent) + 1 \notin Owed
      BY <1>a DEF Owed
    <3>2. WirePrefix
      BY DEF StreamInv, OrderInv
    <3>3. (Len(out') + 1)..Len(sent') = ((Len(out) + 1)..Len(sent)) \cup {Len(sent) + 1}
      BY <1>1, <1>a, <3>2 DEF WirePrefix
    <3>4. \A c \in (Len(out) + 1)..Len(sent) : sent'[c] = sent[c]
      BY <1>1, <1>a
    <3> QED
      BY <3>1, <3>3, <3>4, <1>1, <1>4 DEF Owed
  <2>2. Cardinality(Owed') = Cardinality(Owed) + 1
    BY <2>1, <1>a, OwedCount, FS_AddElement
  <2>a. Prepared = 1
    BY <1>1, <1>4 DEF Prepared
  <2>3. PICK m \in Nat : Submitted' = m /\ m <= Submitted + 1
    BY DEF Submitted
  <2>4. PICK k \in Nat : LiveJobs' = k /\ k <= LiveJobs + 1 /\ LiveJobs \in Nat
    BY <1>2, <1>t, <2>3 DEF LiveJobs
  <2>5. LiveJobs <= Cardinality(Owed)
    BY <1>1 DEF BufferInv
  <2>6. LiveJobs' <= Cardinality(Owed')
    BY <2>2, <2>4, <2>5, <1>t
  <2>7. LiveJobs' <= N + 2
    BY <2>2, <2>4, <2>6, <1>3, <1>t, NAssumption
  <2>8. inPool' + Prepared' + LiveJobs' <= N + 3
    <3>1. inPool + Prepared + LiveJobs <= N + 3 /\ inPool' = inPool /\ Prepared' = 0
      BY <1>1, <1>2 DEF BufferInv
    <3> QED
      BY <3>1, <2>a, <2>4, <1>t, <1>n
  <2>9. outPool' + Encoding' + Bodies' <= N + 2 /\ IsFiniteSet(results')
    BY <1>1, <1>2 DEF BufferInv
  <2> QED
    BY <2>6, <2>7, <2>8, <2>9 DEF BufferInv
<1>5. CASE Current.kind # "block"
  <2>1. Owed' = Owed
    <3>1. (Len(out') + 1)..Len(sent') \subseteq ((Len(out) + 1)..Len(sent)) \cup {Len(sent) + 1}
      BY <1>1, <1>a
    <3>2. \A c \in (Len(out) + 1)..Len(sent) : sent'[c] = sent[c] /\ c \in (Len(out') + 1)..Len(sent')
      BY <1>1, <1>a
    <3> QED
      BY <3>1, <3>2, <1>1, <1>5 DEF Owed
  <2>2. Submitted' = Submitted
    BY <1>1, <1>5 DEF Submitted
  <2> QED
    BY <1>1, <1>2, <1>t, <2>1, <2>2, NAssumption DEF LiveJobs, BufferInv
<1> QED
  BY <1>4, <1>5

\* A job that a worker's channel takes, that a worker takes from it, or that is
\* dropped: no place is used twice.
LEMMA BufferWorker ==
  ASSUME StreamInv, BufferInv,
         SubmitJob \/ \E w \in Workers : WorkerStep(w) \/ WorkerPanic(w)
  PROVE  BufferInv'
PROOF
<1>0. TypeInv
  BY DEF StreamInv, OrderInv
<1>t. /\ Prepared \in Nat /\ Submitted \in Nat /\ Queued \in Nat /\ Encoding \in Nat
      /\ Answered \in Nat /\ Bodies \in Nat /\ Bodies <= Answered /\ inPool \in Nat
      /\ outPool \in Nat /\ Cardinality(Owed) \in Nat /\ N \in Nat
  BY <1>0, CountTypes, NAssumption DEF BufferInv
<1>a. slot \in [Workers -> Job] /\ busy \in [Workers -> Job] /\ job \in Job /\ cur \in Workers
  BY <1>0 DEF TypeInv, TypeOK, CallerTypeOK, SharedTypeOK, WorkerTypeOK
<1>b. NoJob \in Job
  BY DEF NoJob, Job
<1>1. CASE SubmitJob
  <2>1. /\ UNCHANGED <<busy, results, inPool, outPool, sent, out, wr>>
        /\ pc' = "step" /\ job' = NoJob /\ slot' = [slot EXCEPT ![cur] = job]
        /\ slot[cur] = NoJob /\ job # NoJob
    BY <1>1 DEF SubmitJob, ghostVars, writerVars, StreamInv, OrderInv, JobInv
  <2>2. /\ Encoding' = Encoding /\ Answered' = Answered /\ Bodies' = Bodies /\ Owed' = Owed
        /\ Prepared' = 0 /\ Submitted' = 0 /\ Submitted = 1
    BY <2>1 DEF Encoding, UsedBy, Answered, Bodies, Owed, Prepared, Submitted
  <2>3. Queued' = Queued + 1
    BY <2>1, <1>a, UsedCount DEF Queued
  <2> QED
    BY <2>1, <2>2, <2>3, <1>b, <1>t DEF LiveJobs, BufferInv
<1>2. ASSUME NEW w \in Workers, WorkerStep(w) \/ WorkerPanic(w)
      PROVE  BufferInv'
  <2>1. UNCHANGED <<pc, work, job, sent, out, wr, inPool>>
    BY <1>2, WorkerFrame DEF callerVars, ghostVars, writerVars
  <2>2. Prepared' = Prepared /\ Submitted' = Submitted /\ Owed' = Owed
    BY <2>1 DEF Prepared, Submitted, Owed
  <2>3. CASE WorkerTake(w)
    <3>1. /\ slot[w] # NoJob /\ busy' = [busy EXCEPT ![w] = slot[w]] /\ slot[w] \in Job
          /\ slot' = [slot EXCEPT ![w] = NoJob] /\ results' = results
          /\ outPool' = IF outPool > 0 THEN outPool - 1 ELSE 0
      BY <2>3, <1>a, <1>t, PoolMove DEF WorkerTake
    <3>2. Queued' = Queued - 1
      BY <3>1, <1>a, <1>b, UsedCount DEF Queued
    <3>3. PICK b \in 0..1 : Encoding' = Encoding + 1 - b
      <4>1. Encoding' = Encoding + 1 \/ Encoding' = Encoding
        BY <3>1, <1>a, UsedCount DEF Encoding
      <4> QED
        BY <4>1, <1>t
    <3>4. Answered' = Answered /\ Bodies' = Bodies
      BY <3>1 DEF Answered, Bodies
    <3>5. LiveJobs' = LiveJobs - b /\ LiveJobs \in Nat
      BY <2>2, <3>2, <3>3, <3>4, <1>t, <1>b DEF LiveJobs
    <3>6. outPool' + Encoding' + Bodies' <= N + 2
      <4>1. CASE outPool > 0
        <5>1. outPool' = outPool - 1 /\ outPool + Encoding + Bodies <= N + 2
          BY <4>1, <3>1 DEF BufferInv
        <5> QED
          BY <5>1, <3>3, <3>4, <1>t, <1>b
      <4>2. CASE outPool = 0
        <5>1. outPool' = 0 /\ LiveJobs <= N + 2
          BY <4>2, <3>1 DEF BufferInv
        <5>2. Encoding + 1 + Bodies <= LiveJobs
          <6>1. Queued >= 1
            BY <3>1, <1>a, QueuedOne
          <6> QED
            BY <6>1, <1>t DEF LiveJobs
        <5> QED
          BY <5>1, <5>2, <3>3, <3>4, <3>5, <1>t, <1>b
      <4> QED
        BY <4>1, <4>2, <1>t
    <3> QED
      BY <2>1, <2>2, <3>1, <3>3, <3>5, <3>6, <1>t DEF BufferInv
  <2>4. ASSUME NEW as \in {"comp", "raw", "err"}, WorkerFinish(w, as)
        PROVE  BufferInv'
    <3> DEFINE x == [ch |-> busy[w].ch, off |-> busy[w].off, len |-> busy[w].len, as |-> as]
    <3>1. /\ busy' = [busy EXCEPT ![w] = NoJob] /\ slot' = slot /\ busy[w] # NoJob
          /\ results' = results \/ results' = results \cup {x}
          /\ outPool' = ObufAfter(as)
      BY <2>4 DEF WorkerFinish, StreamInv, OrderInv, JobInv
    <3>2. x.as = as
      OBVIOUS
    <3> HIDE DEF x
    <3>3. Encoding' = Encoding - 1
      BY <3>1, <1>a, <1>b, UsedCount DEF Encoding
    <3>4. Queued' = Queued
      BY <3>1 DEF Queued
    <3>5. /\ IsFiniteSet(results') /\ Answered' <= Answered + 1
          /\ Bodies' <= Bodies + 1 /\ (as # "comp" => Bodies' = Bodies)
      <4>1. CASE results' = results
        <5>1. Answered' = Answered /\ Bodies' = Bodies
          BY <4>1 DEF Answered, Bodies
        <5> QED
          BY <5>1, <4>1, <1>t DEF BufferInv
      <4>2. CASE results' = results \cup {x}
        BY <4>2, <3>2, ResultAdded DEF Answered, Bodies, BufferInv
      <4> QED
        BY <3>1, <4>1, <4>2
    <3>6. Answered' \in Nat /\ Bodies' \in Nat
      BY <3>5, ResultCount DEF Answered, Bodies
    <3>a. PICK a \in Nat, b \in Nat : /\ Answered' = a /\ a <= Answered + 1
                                      /\ Bodies' = b /\ b <= Bodies + 1
                                      /\ as # "comp" => b = Bodies
      BY <3>5, <3>6
    <3>7. LiveJobs' = LiveJobs - 1 + a - Answered
      BY <2>2, <3>3, <3>4, <3>a, <1>t, <1>b DEF LiveJobs
    <3>b. LiveJobs \in Nat
      BY <1>t DEF LiveJobs
    <3>8. PICK o \in Nat : /\ outPool' = o /\ o <= outPool + 1
                           /\ as = "comp" => o = outPool
      <4>1. CASE as = "comp"
        BY <4>1, <3>1, <1>t DEF ObufAfter
      <4>2. CASE as # "comp"
        <5>1. outPool' = Release(outPool)
          BY <4>2, <3>1 DEF ObufAfter
        <5>2. Release(outPool) \in Nat /\ Release(outPool) <= outPool + 1
          BY <1>t, PoolMove
        <5> QED
          BY <4>2, <5>1, <5>2
      <4> QED
        BY <4>1, <4>2
    <3>9. outPool' + Encoding' + Bodies' <= N + 2
      <4>1. outPool + Encoding + Bodies <= N + 2
        BY DEF BufferInv
      <4>2. CASE as = "comp"
        BY <4>1, <4>2, <3>3, <3>a, <3>8, <1>t
      <4>3. CASE as # "comp"
        BY <4>1, <4>3, <3>3, <3>a, <3>8, <1>t
      <4> QED
        BY <4>2, <4>3
    <3> QED
      BY <2>1, <2>2, <3>5, <3>a, <3>b, <3>7, <3>9, <1>t DEF BufferInv
  <2>5. CASE WorkerPanic(w) \/ WorkerUnwound(w)
    <3>1. /\ busy' = busy \/ busy' = [busy EXCEPT ![w] = NoJob]
          /\ slot' = slot \/ slot' = [slot EXCEPT ![w] = NoJob]
          /\ results' = results /\ outPool' = outPool
      BY <2>5 DEF WorkerPanic, WorkerUnwound
    <3>2. PICK b \in Nat : Queued' = Queued - b
      <4>1. CASE slot' = slot
        BY <4>1, <1>t DEF Queued
      <4>2. CASE slot' = [slot EXCEPT ![w] = NoJob]
        <5>1. Queued' = Queued - 1 \/ Queued' = Queued
          BY <4>2, <1>a, <1>b, UsedCount DEF Queued
        <5> QED
          BY <5>1, <1>t
      <4> QED
        BY <3>1, <4>1, <4>2
    <3>3. PICK d \in Nat : Encoding' = Encoding - d
      <4>1. CASE busy' = busy
        BY <4>1, <1>t DEF Encoding
      <4>2. CASE busy' = [busy EXCEPT ![w] = NoJob]
        <5>1. Encoding' = Encoding - 1 \/ Encoding' = Encoding
          BY <4>2, <1>a, <1>b, UsedCount DEF Encoding
        <5> QED
          BY <5>1, <1>t
      <4> QED
        BY <3>1, <4>1, <4>2
    <3>4. Answered' = Answered /\ Bodies' = Bodies
      BY <3>1 DEF Answered, Bodies
    <3> QED
      BY <2>1, <2>2, <3>1, <3>2, <3>3, <3>4, <1>t DEF LiveJobs, BufferInv
  <2>6. CASE WorkerExit(w)
    BY <2>6, <1>0, BufferQuiet DEF WorkerExit, callerVars, ghostVars, writerVars
  <2> QED
    BY <1>2, <2>3, <2>4, <2>5, <2>6 DEF WorkerStep
<1> QED
  BY <1>1, <1>2

\* The writer thread puts a chunk on the sink: a raw one leaves the jobs alone, a
\* block takes one job and one owed block away and returns its buffers.
LEMMA BufferDeliver ==
  ASSUME StreamInv, BufferInv, WriteRaw \/ \E r \in results : WriteBlock(r)
  PROVE  BufferInv'
PROOF
<1>0. TypeInv
  BY DEF StreamInv, OrderInv
<1>t. /\ Prepared \in Nat /\ Submitted \in Nat /\ Queued \in Nat /\ Encoding \in Nat
      /\ Answered \in Nat /\ Bodies \in Nat /\ inPool \in Nat /\ outPool \in Nat
      /\ Cardinality(Owed) \in Nat /\ N \in Nat /\ IsFiniteSet(results)
  BY <1>0, CountTypes, NAssumption DEF BufferInv
<1>a. /\ sent \in Seq(Chunk) /\ out \in Seq(Chunk) /\ Len(sent) \in Nat /\ Len(out) \in Nat
  BY DEF StreamInv, OrderInv, TypeInv, TypeOK, GhostTypeOK, WriterTypeOK
<1>1. /\ UNCHANGED <<pc, work, job, slot, busy, sent>> /\ wr # "gone"
      /\ Len(out) + 1 \in 1..Len(sent)
      /\ sent[Len(out) + 1] \in Chunk /\ out' = Append(out, sent[Len(out) + 1])
  BY DeliverNext DEF callerVars, ghostVars, Running
<1>2. Prepared' = Prepared /\ Submitted' = Submitted /\ Queued' = Queued /\ Encoding' = Encoding
  BY <1>1 DEF Prepared, Submitted, Queued, Encoding
<1>3. Len(out') = Len(out) + 1
  BY <1>1, <1>a
<1>4. Owed' = Owed \ {Len(out) + 1}
  <2>1. (Len(out') + 1)..Len(sent') = ((Len(out) + 1)..Len(sent)) \ {Len(out) + 1}
    BY <1>1, <1>3, <1>a
  <2> QED
    BY <2>1, <1>1 DEF Owed
<1>5. /\ inPool + Prepared + LiveJobs <= N + 3 /\ outPool + Encoding + Bodies <= N + 2
      /\ LiveJobs <= Cardinality(Owed) /\ LiveJobs <= N + 2
  BY <1>1 DEF BufferInv
<1>6. CASE WriteRaw
  <2>1. sent[Len(out) + 1].kind # "block" /\ UNCHANGED <<results, inPool, outPool>>
    BY <1>6, RawIsNext DEF WriteRaw, StreamInv, OrderInv
  <2>2. Owed' = Owed
    BY <1>4, <2>1 DEF Owed
  <2>3. Answered' = Answered /\ Bodies' = Bodies
    BY <2>1 DEF Answered, Bodies
  <2> QED
    BY <1>2, <1>5, <1>t, <2>1, <2>2, <2>3 DEF LiveJobs, BufferInv
<1>7. ASSUME NEW r \in results, WriteBlock(r)
      PROVE  BufferInv'
  <2>1. /\ results' = results \ {r} /\ inPool' = Release(inPool)
        /\ outPool' = IF r.as = "comp" THEN Release(outPool) ELSE outPool
    BY <1>7 DEF WriteBlock
  <2>2. sent[Len(out) + 1].kind = "block"
    BY <1>7, ResultIsNext DEF WriteBlock, StreamInv, OrderInv
  <2>3. Len(out) + 1 \in Owed
    BY <1>1, <2>2, <1>a DEF Owed
  <2>4. Cardinality(Owed') = Cardinality(Owed) - 1
    BY <1>4, <2>3, <1>a, OwedCount, FS_RemoveElement
  <2>5. IsFiniteSet(results') /\ Answered' = Answered - 1
    BY <2>1, <1>t, ResultTaken, FS_RemoveElement DEF Answered
  <2>6. (r.as = "comp" => Bodies' = Bodies - 1) /\ (r.as # "comp" => Bodies' = Bodies)
    BY <2>1, <1>t, ResultTaken DEF Bodies
  <2>7. PICK i \in Nat : inPool' = i /\ i <= inPool + 1
    <3>1. Release(inPool) \in Nat /\ Release(inPool) <= inPool + 1
      BY <1>t, PoolMove
    <3> QED
      BY <2>1, <3>1
  <2>8. LiveJobs' = LiveJobs - 1 /\ LiveJobs \in Nat
    BY <1>2, <2>5, <1>t DEF LiveJobs
  <2>9. outPool' + Encoding' + Bodies' <= N + 2
    <3>1. CASE r.as = "comp"
      <4>1. PICK o \in Nat : outPool' = o /\ o <= outPool + 1
        <5>1. Release(outPool) \in Nat /\ Release(outPool) <= outPool + 1
          BY <1>t, PoolMove
        <5> QED
          BY <2>1, <3>1, <5>1
      <4>2. Bodies' = Bodies - 1
        BY <2>6, <3>1
      <4> QED
        BY <4>1, <4>2, <1>2, <1>5, <1>t
    <3>2. CASE r.as # "comp"
      <4>1. Bodies' = Bodies /\ outPool' = outPool
        BY <2>1, <2>6, <3>2
      <4> QED
        BY <4>1, <1>2, <1>5
    <3> QED
      BY <3>1, <3>2
  <2>10. inPool' + Prepared' + LiveJobs' <= N + 3
    BY <2>7, <2>8, <1>2, <1>5, <1>t
  <2>11. LiveJobs' <= N + 2 /\ LiveJobs' <= Cardinality(Owed')
    BY <2>4, <2>8, <1>5, <1>t
  <2> QED
    BY <2>5, <2>9, <2>10, <2>11 DEF BufferInv
<1> QED
  BY <1>6, <1>7

\* A failed write loses the result at hand, whose buffers may go back first.
LEMMA BufferWriteFails ==
  ASSUME TypeInv, BufferInv, WriteFails
  PROVE  BufferInv'
PROOF
<1>t. /\ Prepared \in Nat /\ Submitted \in Nat /\ Queued \in Nat /\ Encoding \in Nat
      /\ Answered \in Nat /\ Bodies \in Nat /\ inPool \in Nat /\ outPool \in Nat
      /\ Cardinality(Owed) \in Nat /\ N \in Nat /\ IsFiniteSet(results)
  BY CountTypes, NAssumption DEF BufferInv
<1>1. /\ UNCHANGED <<pc, work, job, slot, busy, sent, out>> /\ wr # "gone"
  BY DEF WriteFails, callerVars, ghostVars
<1>2. CASE UNCHANGED <<results, inPool, outPool>>
  BY <1>1, <1>2, BufferQuiet
<1>3. ASSUME NEW r \in results, results' = results \ {r}, UNCHANGED <<inPool, outPool>>
      PROVE  BufferInv'
  BY <1>1, <1>3, BufferQuiet
<1>4. ASSUME NEW r \in results, results' = results \ {r}, inPool' = Release(inPool),
             outPool' = IF r.as = "comp" THEN Release(outPool) ELSE outPool
      PROVE  BufferInv'
  <2>1. /\ Prepared' = Prepared /\ Submitted' = Submitted /\ Queued' = Queued
        /\ Encoding' = Encoding /\ Owed' = Owed
    BY <1>1 DEF Prepared, Submitted, Queued, Encoding, Owed
  <2>2. IsFiniteSet(results') /\ Answered' = Answered - 1
    BY <1>4, <1>t, ResultTaken, FS_RemoveElement DEF Answered
  <2>3. (r.as = "comp" => Bodies' = Bodies - 1) /\ (r.as # "comp" => Bodies' = Bodies)
    BY <1>4, <1>t, ResultTaken DEF Bodies
  <2>4. /\ inPool + Prepared + LiveJobs <= N + 3 /\ outPool + Encoding + Bodies <= N + 2
        /\ LiveJobs <= Cardinality(Owed) /\ LiveJobs <= N + 2
    BY <1>1 DEF BufferInv
  <2>5. LiveJobs' = LiveJobs - 1 /\ LiveJobs \in Nat
    BY <2>1, <2>2, <1>t DEF LiveJobs
  <2>6. PICK i \in Nat : inPool' = i /\ i <= inPool + 1
    <3>1. Release(inPool) \in Nat /\ Release(inPool) <= inPool + 1
      BY <1>t, PoolMove
    <3> QED
      BY <1>4, <3>1
  <2>7. outPool' + Encoding' + Bodies' <= N + 2
    <3>1. CASE r.as = "comp"
      <4>1. PICK o \in Nat : outPool' = o /\ o <= outPool + 1
        <5>1. Release(outPool) \in Nat /\ Release(outPool) <= outPool + 1
          BY <1>t, PoolMove
        <5> QED
          BY <1>4, <3>1, <5>1
      <4>2. Bodies' = Bodies - 1
        BY <2>3, <3>1
      <4> QED
        BY <4>1, <4>2, <2>1, <2>4, <1>t
    <3>2. CASE r.as # "comp"
      <4>1. Bodies' = Bodies /\ outPool' = outPool
        BY <1>4, <2>3, <3>2
      <4> QED
        BY <4>1, <2>1, <2>4
    <3> QED
      BY <3>1, <3>2
  <2>8. inPool' + Prepared' + LiveJobs' <= N + 3
    BY <2>1, <2>4, <2>5, <2>6, <1>t
  <2>9. LiveJobs' <= N + 2 /\ LiveJobs' <= Cardinality(Owed')
    BY <2>1, <2>4, <2>5, <1>t
  <2> QED
    BY <2>2, <2>7, <2>8, <2>9 DEF BufferInv
<1> QED
  BY <1>2, <1>3, <1>4 DEF WriteFails

\* A block the writer thread is gone for gives its input buffer back.
LEMMA BufferSendOrderFails ==
  ASSUME TypeInv, BufferInv, SendOrderFails
  PROVE  BufferInv'
PROOF
<1>t. /\ Prepared \in Nat /\ Submitted \in Nat /\ Queued \in Nat /\ Encoding \in Nat
      /\ Answered \in Nat /\ Bodies \in Nat /\ inPool \in Nat /\ outPool \in Nat /\ N \in Nat
  BY CountTypes, NAssumption DEF BufferInv
<1>1. /\ UNCHANGED <<slot, busy, results, outPool, sent, out, wr>> /\ pc = "order"
      /\ wr = "gone" /\ pc' \in {"close", "idle"} /\ job' = NoJob
      /\ inPool' = IF Head(work).kind = "block" THEN Release(inPool) ELSE inPool
  BY DEF SendOrderFails, Fail, writerVars
<1>2. CASE Head(work).kind # "block"
  BY <1>1, <1>2, BufferQuiet
<1>3. CASE Head(work).kind = "block"
  <2>1. /\ Prepared' = 0 /\ Prepared = 1 /\ Submitted' = 0 /\ Queued' = Queued
        /\ Encoding' = Encoding /\ Answered' = Answered /\ Bodies' = Bodies
    BY <1>1, <1>3 DEF Prepared, Submitted, Queued, Encoding, Answered, Bodies
  <2>2. PICK i \in Nat : inPool' = i /\ i <= inPool + 1
    <3>1. Release(inPool) \in Nat /\ Release(inPool) <= inPool + 1
      BY <1>t, PoolMove
    <3> QED
      BY <1>1, <1>3, <3>1
  <2>3. LiveJobs' = LiveJobs - Submitted /\ LiveJobs \in Nat
    BY <2>1, <1>t DEF LiveJobs
  <2>4. /\ inPool + Prepared + LiveJobs <= N + 3 /\ outPool + Encoding + Bodies <= N + 2
        /\ LiveJobs <= N + 2 /\ IsFiniteSet(results)
    BY DEF BufferInv
  <2>5. inPool' + Prepared' + LiveJobs' <= N + 3 /\ LiveJobs' <= N + 2
    BY <2>1, <2>2, <2>3, <2>4, <1>t
  <2> QED
    BY <1>1, <2>1, <2>4, <2>5 DEF BufferInv
<1> QED
  BY <1>2, <1>3

\* Every step keeps the buffers within their bounds.
LEMMA BufferInvStep ==
  ASSUME StreamInv, LagInv, BufferInv, [Next]_vars
  PROVE  BufferInv'
PROOF
<1>0. TypeInv
  BY DEF StreamInv, OrderInv
<1>1. CASE Prepare
  BY <1>0, <1>1, BufferPrepare
<1>2. CASE SendOrder
  BY <1>2, BufferSendOrder
<1>3. CASE SubmitJob \/ \E w \in Workers : WorkerStep(w) \/ WorkerPanic(w)
  BY <1>3, BufferWorker
<1>4. CASE WriteRaw \/ \E r \in results : WriteBlock(r)
  BY <1>4, BufferDeliver
<1>5. CASE Aborting
  <2>1. CASE SendOrderFails
    BY <1>0, <2>1, BufferSendOrderFails
  <2>2. CASE CheckErrFails \/ SubmitFails
    <3>1. /\ UNCHANGED <<slot, busy, inPool, outPool, sent, out, results, wr>>
          /\ job' = NoJob /\ pc' # "order"
      BY <2>2 DEF CheckErrFails, SubmitFails, Fail, writerVars
    <3> QED
      BY <1>0, <3>1, BufferQuiet
  <2> QED
    BY <1>5, <2>1, <2>2 DEF Aborting
<1>6. CASE Stopping
  <2>1. CASE WriteFails
    BY <1>0, <2>1, BufferWriteFails
  <2>2. CASE (\E r \in results : WriteEncodeError(r)) \/ WorkerLost \/ WriterExit \/ WriterPanic
    <3>1. /\ UNCHANGED <<slot, busy, inPool, outPool, sent, out, job, pc, work>>
          /\ results' \in SUBSET results /\ wr # "gone"
      BY <2>2 DEF WriteEncodeError, WorkerLost, WriterExit, WriterPanic, DropReceivers,
         callerVars, ghostVars
    <3> QED
      BY <1>0, <3>1, BufferQuiet
  <2> QED
    BY <1>6, <2>1, <2>2 DEF Stopping
<1>7. CASE WriterTake \/ WriteTrailer \/ TrailerFails \/ UNCHANGED vars
  <2>1. /\ UNCHANGED <<slot, busy, inPool, outPool, sent, out, job, pc, work, results>>
        /\ wr' # "gone" => wr # "gone"
    BY <1>7 DEF WriterTake, WriteTrailer, TrailerFails, vars, callerVars, ghostVars,
       writerVars
  <2> QED
    BY <1>0, <2>1, BufferQuiet
<1>8. CASE SubmitFull \/ Return \/ CloseChannels \/ Join
  <2>1. /\ UNCHANGED <<slot, busy, inPool, outPool, sent, out, job, work, results, wr>>
        /\ pc' # "order"
    BY <1>8 DEF SubmitFull, Return, CloseChannels, Join, ghostVars, writerVars
  <2> QED
    BY <1>0, <2>1, BufferQuiet
<1>9. CASE Beginning \/ Refusing
  <2>1. /\ UNCHANGED <<slot, busy, inPool, outPool, sent, out, job, results, wr>>
        /\ pc' # "order"
    BY <1>9, BeginningFrame, RefusingFrame
  <2> QED
    BY <1>0, <2>1, BufferQuiet
<1> QED
  BY <1>1, <1>2, <1>3, <1>4, <1>5, <1>6, <1>7, <1>8, <1>9, StepKinds

\* Memory is bounded: with the recycled ones there are never more than N + 3
\* input buffers and N + 2 output buffers, whatever fails.
THEOREM BuffersStayBounded == Spec => []BuffersBounded
PROOF
<1>1. Init => BufferInv /\ LagInv
  <2> SUFFICES ASSUME Init PROVE BufferInv /\ LagInv
    OBVIOUS
  <2>1. /\ IsFiniteSet({}) /\ Cardinality({}) = 0 /\ Len(<<>>) = 0 /\ N \in Nat
    BY FS_EmptySet, NAssumption
  <2>2. /\ results = {} /\ UsedBy(slot) = {} /\ UsedBy(busy) = {}
        /\ {r \in results : r.as = "comp"} = {} /\ Prepared = 0 /\ Submitted = 0
        /\ inPool = 0 /\ outPool = 0 /\ sent = <<>> /\ out = <<>> /\ order = <<>>
    BY DEF Init, UsedBy, Prepared, Submitted
  <2>3. Owed = {}
    <3>1. (0 + 1)..0 = {}
      OBVIOUS
    <3> QED
      BY <2>1, <2>2, <3>1 DEF Owed
  <2>4. Queued = 0 /\ Encoding = 0 /\ Answered = 0 /\ Bodies = 0
    BY <2>1, <2>2 DEF Queued, Encoding, Answered, Bodies
  <2>5. LagInv
    BY <2>1, <2>2 DEF LagInv
  <2>6. BufferInv
    BY <2>1, <2>2, <2>3, <2>4 DEF BufferInv, LiveJobs
  <2> QED
    BY <2>5, <2>6
<1>2. StreamInv => TypeInv
  BY DEF StreamInv, OrderInv
<1> QED
  BY <1>1, <1>2, StreamInvInit, StreamInvStep, LagInvStep, BufferInvStep,
     BufferInvBounds, PTL
  DEF Spec
=============================================================================
