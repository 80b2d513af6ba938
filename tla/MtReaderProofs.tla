--------------------------- MODULE MtReaderProofs ---------------------------
(* Theorems about MtReader, for every number of threads, set of streams and  *)
(* set of faults: types and the order of delivery; then the single-threaded  *)
(* Reader as the reference; then the threads' errors and the buffers.        *)
EXTENDS MtReader, SequenceTheorems, FiniteSetTheorems, TLAPS

\* The round-robin cursor stays on a worker.
LEMMA NextWorker == 0 \in Workers /\ \A w \in Workers : (w + 1) % N \in Workers
  BY NAssumption DEF Workers

\* The pools never hold more than their capacity.
LEMMA PoolRange ==
  0 \in 0..PoolCap
  /\ \A p \in 0..PoolCap : Acquire(p) \in 0..PoolCap /\ Release(p) \in 0..PoolCap
  BY NAssumption DEF Acquire, Release, PoolCap

\* The chunk that is read is one of the stream.
LEMMA ChunkType ==
  ASSUME stream \in Streams, pos \in 0..Len(stream), pos < Len(stream)
  PROVE  Chunk \in WireChunk /\ stream \in Seq(WireChunk)
         /\ pos + 1 \in 0..Len(stream) /\ pos + 1 \in Nat
PROOF
<1>1. stream \in Seq(WireChunk) /\ Len(stream) \in Nat
  BY StreamsAssumption DEF Input
<1>2. pos + 1 \in 1..Len(stream)
  BY <1>1
<1> QED
  BY <1>1, <1>2 DEF Chunk

\* An error is one of the errors.
LEMMA ErrorType ==
  /\ Refusal \in ErrorKinds \cup {"none"}
  /\ \A j : Decoded(j) \in ErrorKinds \cup {"none"}
  /\ {"none", "io", "lost", "closed", "pool", "corrupt"} \subseteq ErrorKinds \cup {"none"}
  /\ {"io", "lost", "exited"} \subseteq ErrorKinds
  BY DEF Refusal, Decoded, ErrorKinds

\* Answering for a job adds an output, or nothing.
LEMMA AnswerType ==
  ASSUME results \in SUBSET Output, NEW j \in Job, NEW e \in ErrorKinds \cup {"none"}
  PROVE  Answer(j, e) \in SUBSET Output
  BY DEF Answer, Output, Job

\* The absent job is one of the values a slot may hold.
LEMMA NoJobIsJob == NoJob \in Job
  BY DEF NoJob, Job, Defects

\* The initial states are well-typed.
LEMMA TypeInit == Init => TypeOK
PROOF
<1> SUFFICES ASSUME Init PROVE TypeOK
  OBVIOUS
<1>1. DispatcherTypeOK
  <2>1. Len(stream) \in Nat
    BY StreamsAssumption DEF Init, Input
  <2>2. header \in BOOLEAN /\ expectEof \in BOOLEAN
    BY ReaderAssumption, Zenon DEF Init
  <2>3. pos \in 0..Len(stream) /\ maxBlock \in Nat /\ tried \in Nat /\ emitted \in Nat
    BY <2>1, ReaderAssumption DEF Init
  <2> QED
    BY <2>2, <2>3, NextWorker, NoJobIsJob, Zenon DEF Init, DispatcherTypeOK
<1>2. ChannelTypeOK
  BY PoolRange, NAssumption DEF Init, ChannelTypeOK, OrderCap
<1>3. ThreadTypeOK
  BY NoJobIsJob DEF Init, ThreadTypeOK
<1> QED
  BY <1>1, <1>2, <1>3 DEF TypeOK

\* Every action preserves the types.
LEMMA TypeStep == TypeOK /\ [Next]_vars => TypeOK'
PROOF
<1> SUFFICES ASSUME TypeOK, [Next]_vars
             PROVE  TypeOK'
  OBVIOUS
<1> USE DEF TypeOK, dispVars, sinkVars, vars
<1>1. CASE DispatchSeesError
  BY <1>1 DEF DispatcherTypeOK, ChannelTypeOK, ThreadTypeOK, DispatchSeesError, Leave
<1>2. CASE DispatchEnd
  BY <1>2, ErrorType DEF DispatcherTypeOK, ChannelTypeOK, ThreadTypeOK, DispatchEnd, Leave
<1>3. CASE DispatchRefuses
  <2>1. ChannelTypeOK'
    BY <1>3, PoolRange DEF ChannelTypeOK, DispatchRefuses
  <2>2. DispatcherTypeOK'
    BY <1>3, ChunkType, ErrorType DEF DispatcherTypeOK, DispatchRefuses, AtChunk, Leave
  <2> QED
    BY <1>3, <2>1, <2>2 DEF ThreadTypeOK, DispatchRefuses
<1>4. CASE DispatchReadFails
  <2>1. DispatcherTypeOK'
    BY <1>4, ErrorType DEF DispatcherTypeOK, DispatchReadFails, Leave
  <2>2. compPool' \in 0..PoolCap /\ decPool' \in 0..PoolCap
    BY <1>4, PoolRange DEF DispatchReadFails, ChannelTypeOK
  <2> QED
    BY <1>4, <2>1, <2>2 DEF ChannelTypeOK, ThreadTypeOK, DispatchReadFails
<1>5. CASE DispatchMeta
  <2>1. DispatcherTypeOK'
    BY <1>5, ChunkType DEF DispatcherTypeOK, DispatchMeta, AtChunk, EmittedAfter, WireChunk
  <2> QED
    BY <1>5, <2>1 DEF ChannelTypeOK, ThreadTypeOK, DispatchMeta
<1>6. CASE DispatchData
  <2>1. hand' \in Job /\ emitted' \in Nat
    BY <1>6, ChunkType DEF DispatcherTypeOK, DispatchData, AtChunk, WireChunk, Job
  <2>2. DispatcherTypeOK'
    BY <1>6, <2>1, ChunkType DEF DispatcherTypeOK, DispatchData, AtChunk
  <2>3. ChannelTypeOK'
    BY <1>6, PoolRange DEF ChannelTypeOK, DispatchData
  <2> QED
    BY <1>6, <2>2, <2>3 DEF ThreadTypeOK, DispatchData
<1>7. CASE SendOrder
  <2>1. hand' \in Job /\ [id |-> hand.id, len |-> hand.len] \in Item /\ Len(sent) + 1 \in Nat
    <3>1. Len(sent) \in Nat
      BY DEF ChannelTypeOK
    <3>2. hand' = [hand EXCEPT !.ch = Len(sent) + 1] /\ hand \in Job
      BY <1>7 DEF DispatcherTypeOK, SendOrder
    <3> QED
      BY <3>1, <3>2 DEF Job, Item
  <2>2. DispatcherTypeOK'
    BY <1>7, <2>1, NextWorker DEF DispatcherTypeOK, SendOrder
  <2>3. Len(order') <= OrderCap /\ order' \in Seq(Nat)
    BY <1>7, <2>1, NAssumption DEF ChannelTypeOK, SendOrder, OrderHasRoom, OrderCap
  <2>4. ChannelTypeOK'
    BY <1>7, <2>1, <2>3 DEF ChannelTypeOK, SendOrder
  <2> QED
    BY <1>7, <2>2, <2>4 DEF ThreadTypeOK, SendOrder
<1>8. CASE SendOrderFails
  BY <1>8, ErrorType, PoolRange, NoJobIsJob DEF DispatcherTypeOK, ChannelTypeOK,
     ThreadTypeOK, SendOrderFails, Leave
<1>9. CASE Fill
  BY <1>9, AnswerType, NoJobIsJob DEF DispatcherTypeOK, ChannelTypeOK, ThreadTypeOK, Fill
<1>10. CASE SubmitJob
  BY <1>10, NoJobIsJob DEF DispatcherTypeOK, ChannelTypeOK, ThreadTypeOK, SubmitJob
<1>11. CASE SubmitFull
  BY <1>11, NextWorker DEF DispatcherTypeOK, ChannelTypeOK, ThreadTypeOK, SubmitFull
<1>12. CASE SubmitFails
  BY <1>12, ErrorType, NoJobIsJob DEF DispatcherTypeOK, ChannelTypeOK, ThreadTypeOK,
     SubmitFails, Leave
<1>13. CASE CloseChannels
  BY <1>13 DEF DispatcherTypeOK, ChannelTypeOK, ThreadTypeOK, CloseChannels
<1>14. CASE Join
  BY <1>14, ErrorType DEF DispatcherTypeOK, ChannelTypeOK, ThreadTypeOK, Join, FinalResult
<1>15. ASSUME NEW w \in Workers, WorkerTake(w)
       PROVE  TypeOK'
  <2>1. ThreadTypeOK'
    BY <1>15, NoJobIsJob DEF ThreadTypeOK, WorkerTake
  <2> QED
    BY <1>15, <2>1, PoolRange DEF DispatcherTypeOK, ChannelTypeOK, WorkerTake
<1>16. ASSUME NEW w \in Workers, WorkerFinish(w)
       PROVE  TypeOK'
  <2>1. busy[w] \in Job
    BY DEF ThreadTypeOK
  <2>2. ChannelTypeOK'
    BY <1>16, <2>1, AnswerType, ErrorType, PoolRange DEF ChannelTypeOK, WorkerFinish
  <2> QED
    BY <1>16, <2>2, NoJobIsJob DEF DispatcherTypeOK, ThreadTypeOK, WorkerFinish
<1>17. ASSUME NEW w \in Workers, WorkerPanic(w) \/ WorkerUnwound(w) \/ WorkerExit(w)
       PROVE  TypeOK'
  <2>1. ThreadTypeOK'
    BY <1>17, NoJobIsJob DEF ThreadTypeOK, WorkerPanic, WorkerUnwound, WorkerExit
  <2> QED
    BY <1>17, <2>1 DEF DispatcherTypeOK, ChannelTypeOK, WorkerPanic, WorkerUnwound,
       WorkerExit
<1>18. CASE WriterTake
  <2>1. order' \in Seq(Nat) /\ Len(order') <= OrderCap /\ held' \in Nat
    BY <1>18, NAssumption DEF WriterTake, ChannelTypeOK, OrderCap
  <2> QED
    BY <1>18, <2>1 DEF DispatcherTypeOK, ChannelTypeOK, ThreadTypeOK, WriterTake
<1>19. ASSUME NEW r \in results, WriteBlock(r)
       PROVE  TypeOK'
  <2>1. [id |-> r.id, len |-> r.len] \in Item /\ r.len \in Nat
    BY DEF ChannelTypeOK, Output, Item
  <2>2. ThreadTypeOK'
    BY <1>19, <2>1 DEF ThreadTypeOK, WriteBlock
  <2> QED
    BY <1>19, <2>2, PoolRange DEF DispatcherTypeOK, ChannelTypeOK, WriteBlock
<1>20. ASSUME NEW r \in results, WriteFails(r)
       PROVE  TypeOK'
  <2>1. r.len \in Nat
    BY DEF ChannelTypeOK, Output
  <2> QED
    <3>1. ThreadTypeOK'
      BY <1>20, <2>1, ErrorType DEF ThreadTypeOK, WriteFails, Record
    <3>2. ChannelTypeOK'
      BY <1>20, PoolRange, ErrorType DEF ChannelTypeOK, WriteFails, Record
    <3> QED
      BY <1>20, <3>1, <3>2 DEF DispatcherTypeOK, WriteFails
<1>21. ASSUME NEW r \in results, WriteDecodeError(r)
       PROVE  TypeOK'
  <2>1. r.e \in ErrorKinds
    BY <1>21 DEF ChannelTypeOK, Output, WriteDecodeError
  <2> QED
    BY <1>21, <2>1 DEF DispatcherTypeOK, ChannelTypeOK, ThreadTypeOK, WriteDecodeError,
       Record
<1>22. CASE WorkerLost \/ WriterEnd
  BY <1>22, ErrorType DEF DispatcherTypeOK, ChannelTypeOK, ThreadTypeOK, WorkerLost,
     GiveUp, WriterEnd, Record
<1>23. CASE WriterExit \/ WriterPanic
  <2>1. <<>> \in Seq(Nat) /\ Len(<<>>) <= OrderCap
    BY NAssumption DEF OrderCap
  <2>2. ChannelTypeOK'
    BY <1>23, <2>1 DEF ChannelTypeOK, WriterExit, WriterPanic, DropReceivers
  <2> QED
    BY <1>23, <2>2 DEF DispatcherTypeOK, ThreadTypeOK, WriterExit, WriterPanic,
       DropReceivers
<1>24. CASE UNCHANGED vars
  BY <1>24 DEF DispatcherTypeOK, ChannelTypeOK, ThreadTypeOK
<1> QED
  BY <1>1, <1>2, <1>3, <1>4, <1>5, <1>6, <1>7, <1>8, <1>9, <1>10, <1>11, <1>12, <1>13,
     <1>14, <1>15, <1>16, <1>17, <1>18, <1>19, <1>20, <1>21, <1>22, <1>23, <1>24
     DEF Next, DispatcherStep, WorkerStep, WriterStep, Panic, Terminated

\* The type invariant of the pipeline: the channels and the pools within their
\* capacity, the round-robin cursor on a worker, every thread in a state of its
\* program.
THEOREM TypeCorrect == Spec => []TypeOK
  BY TypeInit, TypeStep, PTL DEF Spec

----------------------------------------------------------------------------
(* Order.  While the writer thread runs, what was dispatched is what is in  *)
(* the sink, then the block at hand, then the order queue; and every job    *)
(* and result carries the block dispatched under its channel's number.      *)

Running == wr \in {"recv", "have"}

\* Number of slots the writer thread has taken from the order queue.
Taken == IF wr = "have" THEN Len(out) + 1 ELSE Len(out)

\* The queue holds the numbers of the slots not yet taken, in order.
QueueInv ==
  Running => /\ Len(sent) = Taken + Len(order)
             /\ \A i \in 1..Len(order) : order[i] = Taken + i
             /\ wr = "have" => held = Len(out) + 1

InOrder == IsPrefixOf(out, sent)

ItemOf(j) == [id |-> j.id, len |-> j.len]

\* A job or a result carries the block dispatched under its number.
JobOk(j) == j.ch \in 1..Len(sent) /\ sent[j.ch] = ItemOf(j)

Submitting == pc \in {"try", "blocked"}

HandInv == /\ pc = "fill" \/ Submitting => JobOk(hand)
           /\ pc = "fill" => hand.raw
           /\ Submitting => ~hand.raw
           /\ pc = "order" \/ pc = "fill" \/ Submitting \/ hand = NoJob

JobInv == /\ \A w \in Workers : slot[w] = NoJob \/ (JobOk(slot[w]) /\ ~slot[w].raw)
          /\ \A w \in Workers : busy[w] = NoJob \/ (JobOk(busy[w]) /\ ~busy[w].raw)
          /\ \A w \in Workers : wst[w] = "busy" => busy[w] # NoJob
          /\ \A r \in results : JobOk(r)

\* The queue is closed only after the last dispatch, the threads end before the
\* call returns, and the writer thread succeeds only on a drained queue.
CloseInv == /\ ~orderOpen => pc \in {"join", "ended"}
            /\ pc = "ended" => wr = "gone"
            /\ fin = "ok" => wr = "gone" /\ ~orderOpen /\ out = sent
            /\ ret = "ok" => fin = "ok" /\ dres = "none" /\ pc = "ended"
            /\ pc # "ended" => ret = "open"

OrderInv == TypeOK /\ QueueInv /\ InOrder /\ HandInv /\ JobInv /\ CloseInv

----------------------------------------------------------------------------
(* Actions that touch the same things. *)

\* The ways out of dispatch_loop at a chunk.
Leaving == DispatchSeesError \/ DispatchEnd \/ DispatchRefuses \/ DispatchReadFails

\* The ways out of dispatch_loop with a block in hand.
Aborting == SendOrderFails \/ SubmitFails

\* The steps that end the writer thread without success.
Stopping == \/ \E r \in results : WriteFails(r) \/ WriteDecodeError(r)
            \/ WorkerLost \/ WriterExit \/ WriterPanic
            \/ WriterEnd /\ wr' = "failing"

\* What leaving the loop at a chunk changes: the result, the position, the pools.
LEMMA LeavingFrame ==
  ASSUME Leaving
  PROVE  /\ pc = "loop" /\ pc' = "close"
         /\ UNCHANGED <<stream, hand, next, cur, tried, expectEof, maxBlock, emitted, sent,
                        order, orderOpen, slot, submitOpen, results, err, wst, busy,
                        sinkVars, ret>>
PROOF
<1>1. CASE DispatchSeesError \/ DispatchEnd
  BY <1>1 DEF DispatchSeesError, DispatchEnd, Leave, sinkVars
<1>2. CASE DispatchRefuses
  BY <1>2 DEF DispatchRefuses, AtChunk, Leave, sinkVars
<1>3. CASE DispatchReadFails
  BY <1>3 DEF DispatchReadFails, Leave, sinkVars
<1> QED
  BY <1>1, <1>2, <1>3 DEF Leaving

\* What leaving it with a block in hand changes: the block goes.
LEMMA AbortingFrame ==
  ASSUME Aborting
  PROVE  /\ pc = "order" \/ Submitting
         /\ pc' = "close" /\ hand' = NoJob
         /\ UNCHANGED <<stream, pos, next, cur, tried, header, expectEof, maxBlock, emitted,
                        sent, order, orderOpen, slot, submitOpen, results, err, wst, busy,
                        sinkVars, ret>>
  BY DEF Aborting, SendOrderFails, SubmitFails, Leave, sinkVars, Submitting

\* What the end of the writer thread leaves alone.
LEMMA StoppingFrame ==
  ASSUME TypeOK, Stopping
  PROVE  /\ wr # "gone" /\ wr' \in {"failing", "gone"} /\ results' \subseteq results
         /\ fin' \in {fin} \cup ErrorKinds
         /\ UNCHANGED <<stream, pos, dispVars, sent, orderOpen, slot, submitOpen, compPool,
                        wst, busy, held, out, ret>>
PROOF
<1>1. CASE \E r \in results : WriteFails(r)
  BY <1>1 DEF WriteFails, Record, Answers, ErrorKinds
<1>2. ASSUME NEW r \in results, WriteDecodeError(r)
      PROVE  /\ wr = "have" /\ wr' = "failing" /\ results' \subseteq results
             /\ fin' \in ErrorKinds
             /\ UNCHANGED <<stream, pos, dispVars, sent, orderOpen, slot, submitOpen,
                            compPool, wst, busy, held, out, ret>>
  BY <1>2 DEF WriteDecodeError, Record, Answers, TypeOK, ChannelTypeOK, Output
<1>3. CASE WorkerLost
  BY <1>3 DEF WorkerLost, GiveUp, Record, ErrorKinds
<1>4. CASE WriterExit \/ WriterPanic
  BY <1>4 DEF WriterExit, WriterPanic, DropReceivers, Answers
<1>5. CASE WriterEnd /\ wr' = "failing"
  BY <1>5 DEF WriterEnd, Record, ErrorKinds
<1> QED
  BY <1>1, <1>2, <1>3, <1>4, <1>5 DEF Stopping

\* The steps of a worker that end it.
WorkerStops(w) == WorkerPanic(w) \/ WorkerUnwound(w) \/ WorkerExit(w)

\* Every step is one of these.
LEMMA NextCases ==
  ASSUME [Next]_vars
  PROVE  \/ Leaving \/ Aborting \/ Stopping
         \/ DispatchMeta \/ DispatchData \/ SendOrder \/ Fill \/ SubmitJob \/ SubmitFull
         \/ CloseChannels \/ Join
         \/ \E w \in Workers : WorkerTake(w) \/ WorkerFinish(w) \/ WorkerStops(w)
         \/ WriterTake \/ (\E r \in results : WriteBlock(r))
         \/ WriterEnd /\ wr' = "gone"
         \/ UNCHANGED vars
PROOF
<1>1. WriterEnd => wr' \in {"gone", "failing"}
  BY DEF WriterEnd, Record
<1> QED
  BY <1>1 DEF Next, DispatcherStep, WorkerStep, WriterStep, Panic, Terminated, Leaving,
     Aborting, Stopping, WorkerStops

\* A step that leaves the order queue and what it stands for alone keeps it aligned.
LEMMA QueueUnchanged ==
  ASSUME QueueInv, InOrder, UNCHANGED <<sent, out, order, wr, held>>
  PROVE  QueueInv' /\ InOrder'
  BY DEF QueueInv, InOrder, IsPrefixOf, Running, Taken

\* Once the writer thread has stopped, the queue owes the sink nothing.
LEMMA QueueStopped ==
  ASSUME InOrder, UNCHANGED <<sent, out>>, wr' \notin {"recv", "have"}
  PROVE  QueueInv' /\ InOrder'
  BY DEF QueueInv, InOrder, IsPrefixOf, Running

\* A step that touches no job or worker keeps every job matched to its slot.
LEMMA JobsUnchanged ==
  ASSUME JobInv, UNCHANGED <<sent, slot, busy, wst>>, results' \subseteq results
  PROVE  JobInv'
  BY DEF JobInv, JobOk, ItemOf

\* The same for the block in hand.
LEMMA HandUnchanged ==
  ASSUME HandInv, UNCHANGED <<sent, hand, pc>>
  PROVE  HandInv'
  BY DEF HandInv, JobOk, ItemOf, Submitting

\* The initial states satisfy the order invariant.
LEMMA OrderInvInit == Init => OrderInv
PROOF
<1> SUFFICES ASSUME Init PROVE OrderInv
  OBVIOUS
<1>0. Len(<<>>) = 0
  OBVIOUS
<1>1. QueueInv /\ InOrder
  BY <1>0 DEF Init, QueueInv, InOrder, IsPrefixOf, Running, Taken
<1>2. HandInv /\ JobInv
  BY DEF Init, HandInv, JobInv, Submitting
<1>3. CloseInv
  BY DEF Init, CloseInv
<1> QED
  BY <1>1, <1>2, <1>3, TypeInit DEF OrderInv

\* The result that answers the slot at hand is the next block in submission
\* order: this is what the one-shot result channel per block is for.
LEMMA ResultIsNext ==
  ASSUME OrderInv, NEW r \in results, Answers(r)
  PROVE  ItemOf(r) = sent[Len(out) + 1] /\ r.ch = Len(out) + 1 /\ Len(out) < Len(sent)
PROOF
<1>1. wr = "have" /\ r.ch = held /\ JobOk(r)
  BY DEF Answers, OrderInv, JobInv
<1>2. held = Len(out) + 1
  BY <1>1 DEF OrderInv, QueueInv, Running
<1>3. Len(out) \in Nat /\ Len(sent) \in Nat
  BY DEF OrderInv, TypeOK, ChannelTypeOK, ThreadTypeOK
<1> QED
  BY <1>1, <1>2, <1>3 DEF JobOk

\* What sending a slot does to what was dispatched.
LEMMA SendOrderFrame ==
  ASSUME OrderInv, SendOrder
  PROVE  /\ Len(sent) \in Nat /\ Len(sent') = Len(sent) + 1
         /\ \A i \in 1..Len(sent) : sent'[i] = sent[i]
         /\ sent'[Len(sent) + 1] = ItemOf(hand)
         /\ Len(order) \in Nat /\ Len(order') = Len(order) + 1
         /\ \A i \in 1..Len(order) : order'[i] = order[i]
         /\ order'[Len(order) + 1] = Len(sent) + 1
         /\ hand' = [hand EXCEPT !.ch = Len(sent) + 1]
         /\ hand'.ch = Len(sent) + 1 /\ ItemOf(hand') = ItemOf(hand)
         /\ hand'.raw = hand.raw /\ hand'.bad = hand.bad /\ hand'.max = hand.max
PROOF
<1>1. /\ sent \in Seq(Item) /\ order \in Seq(Nat) /\ hand \in Job
      /\ sent' = Append(sent, [id |-> hand.id, len |-> hand.len])
      /\ order' = Append(order, Len(sent) + 1)
      /\ hand' = [hand EXCEPT !.ch = Len(sent) + 1]
  BY DEF OrderInv, TypeOK, DispatcherTypeOK, ChannelTypeOK, SendOrder
<1>2. Len(sent) \in Nat /\ Len(order) \in Nat
  BY <1>1
<1>3. /\ hand'.ch = Len(sent) + 1 /\ hand'.id = hand.id /\ hand'.len = hand.len
      /\ hand'.raw = hand.raw /\ hand'.bad = hand.bad /\ hand'.max = hand.max
  BY <1>1 DEF Job
<1>4. [id |-> hand.id, len |-> hand.len] \in Item /\ Len(sent) + 1 \in Nat
  BY <1>1, <1>2 DEF Job, Item
<1>5. /\ Len(sent') = Len(sent) + 1
      /\ \A i \in 1..Len(sent) : sent'[i] = sent[i]
      /\ sent'[Len(sent) + 1] = [id |-> hand.id, len |-> hand.len]
  BY <1>1, <1>4
<1>6. /\ Len(order') = Len(order) + 1
      /\ \A i \in 1..Len(order) : order'[i] = order[i]
      /\ order'[Len(order) + 1] = Len(sent) + 1
  BY <1>1, <1>4
<1> QED
  BY <1>1, <1>2, <1>3, <1>5, <1>6 DEF ItemOf

\* Sending a slot keeps the queue aligned and every job matched to its slot.
LEMMA SendOrderKeeps ==
  ASSUME OrderInv, SendOrder
  PROVE  QueueInv' /\ InOrder' /\ HandInv' /\ JobInv' /\ CloseInv'
PROOF
<1>t. Len(out) \in Nat
  BY DEF OrderInv, TypeOK, ThreadTypeOK
<1>1. /\ wr' = wr /\ out' = out /\ held' = held /\ wst' = wst /\ slot' = slot
      /\ busy' = busy /\ results' = results /\ orderOpen' = orderOpen /\ fin' = fin
      /\ ret' = ret /\ dres' = dres /\ pc = "order"
      /\ IF hand.raw THEN pc' = "fill" ELSE pc' = "try"
  BY DEF SendOrder, sinkVars
<1>2. Taken' = Taken /\ Taken \in Nat
  BY <1>1, <1>t DEF Taken
<1>3. QueueInv'
  <2> SUFFICES ASSUME Running
               PROVE  /\ Len(sent') = Taken + Len(order')
                      /\ \A i \in 1..Len(order') : order'[i] = Taken + i
                      /\ wr = "have" => held = Len(out) + 1
    BY <1>1, <1>2 DEF QueueInv, Running
  <2>1. /\ Len(sent) = Taken + Len(order)
        /\ \A i \in 1..Len(order) : order[i] = Taken + i
        /\ wr = "have" => held = Len(out) + 1
    BY DEF OrderInv, QueueInv
  <2>2. ASSUME NEW i \in 1..Len(order')
        PROVE  order'[i] = Taken + i
    <3>1. i \in 1..Len(order) \/ i = Len(order) + 1
      BY SendOrderFrame
    <3> QED
      BY <3>1, <2>1, <1>2, SendOrderFrame
  <2>3. Len(sent') = Taken + Len(order')
    BY <2>1, <1>2, SendOrderFrame
  <2> QED
    BY <2>1, <2>2, <2>3
<1>4. InOrder'
  BY <1>1, <1>t, SendOrderFrame DEF OrderInv, InOrder, IsPrefixOf
<1>5. \A j : JobOk(j) => (j.ch \in 1..Len(sent') /\ sent'[j.ch] = ItemOf(j))
  BY SendOrderFrame DEF JobOk
<1>6. JobInv'
  BY <1>1, <1>5 DEF OrderInv, JobInv, JobOk, ItemOf
<1>7. HandInv'
  <2>1. hand'.ch \in 1..Len(sent') /\ sent'[hand'.ch] = ItemOf(hand')
    BY SendOrderFrame
  <2>2. hand'.raw = hand.raw
    BY SendOrderFrame
  <2> QED
    BY <1>1, <2>1, <2>2 DEF HandInv, JobOk, ItemOf, Submitting
<1>8. CloseInv'
  BY <1>1 DEF OrderInv, CloseInv
<1> QED
  BY <1>3, <1>4, <1>6, <1>7, <1>8

\* Taking the next slot keeps the queue aligned.
LEMMA WriterTakeKeeps ==
  ASSUME OrderInv, WriterTake
  PROVE  QueueInv' /\ InOrder'
PROOF
<1>1. /\ order \in Seq(Nat) /\ order # <<>> /\ Len(out) \in Nat /\ Len(sent) \in Nat
      /\ wr = "recv" /\ wr' = "have" /\ out' = out /\ sent' = sent
      /\ held' = Head(order) /\ order' = Tail(order)
  BY DEF OrderInv, TypeOK, ChannelTypeOK, ThreadTypeOK, WriterTake
<1>2. /\ Len(order) \in Nat /\ Len(order) > 0 /\ held' = order[1]
      /\ Len(order') = Len(order) - 1
      /\ \A i \in 1..Len(order') : order'[i] = order[i + 1]
  BY <1>1, HeadTailProperties
<1>3. /\ Len(sent) = Len(out) + Len(order)
      /\ \A i \in 1..Len(order) : order[i] = Len(out) + i
  BY <1>1 DEF OrderInv, QueueInv, Running, Taken
<1>4. ASSUME NEW i \in 1..Len(order')
      PROVE  order'[i] = (Len(out) + 1) + i
  <2>1. i + 1 \in 1..Len(order)
    BY <1>2
  <2>2. order'[i] = order[i + 1] /\ order[i + 1] = Len(out) + (i + 1)
    BY <1>2, <1>3, <2>1
  <2>3. Len(out) + (i + 1) = (Len(out) + 1) + i
    BY <1>1
  <2> QED
    BY <2>2, <2>3
<1>5. held' = Len(out) + 1 /\ Len(sent) = (Len(out) + 1) + Len(order')
  BY <1>1, <1>2, <1>3
<1> QED
  BY <1>1, <1>4, <1>5 DEF OrderInv, QueueInv, Running, Taken, InOrder, IsPrefixOf

\* Delivering the next block keeps the sink a prefix and the queue aligned.
LEMMA WriteBlockKeeps ==
  ASSUME OrderInv, NEW r \in results, WriteBlock(r)
  PROVE  /\ QueueInv' /\ InOrder'
         /\ out' = Append(out, sent[Len(out) + 1]) /\ Len(out) \in Nat
         /\ Len(out') = Len(out) + 1 /\ sent[Len(out) + 1] \in Item
PROOF
<1>1. /\ Answers(r) /\ wr = "have" /\ wr' = "recv" /\ order' = order /\ sent' = sent
      /\ out' = Append(out, ItemOf(r))
  BY DEF WriteBlock, Answers, ItemOf
<1>2. ItemOf(r) = sent[Len(out) + 1] /\ Len(out) < Len(sent)
  BY <1>1, ResultIsNext
<1>3. out \in Seq(Item) /\ sent \in Seq(Item) /\ order \in Seq(Nat)
  BY DEF OrderInv, TypeOK, ChannelTypeOK, ThreadTypeOK
<1>4. sent[Len(out) + 1] \in Item /\ Len(out) \in Nat
  BY <1>2, <1>3
<1>5. /\ Len(out') = Len(out) + 1
      /\ \A i \in 1..Len(out) : out'[i] = out[i]
      /\ out'[Len(out) + 1] = sent[Len(out) + 1]
  BY <1>1, <1>2, <1>3, <1>4
<1>6. InOrder'
  <2>1. Len(out') <= Len(sent')
    BY <1>1, <1>2, <1>3, <1>5
  <2>2. ASSUME NEW i \in 1..Len(out') PROVE out'[i] = sent'[i]
    <3>1. i \in 1..Len(out) \/ i = Len(out) + 1
      BY <1>4, <1>5
    <3> QED
      BY <1>1, <1>5, <3>1 DEF OrderInv, InOrder, IsPrefixOf
  <2> QED
    BY <2>1, <2>2 DEF InOrder, IsPrefixOf
<1>7. QueueInv'
  <2>1. /\ Len(sent) = (Len(out) + 1) + Len(order)
        /\ \A i \in 1..Len(order) : order[i] = (Len(out) + 1) + i
    BY <1>1 DEF OrderInv, QueueInv, Running, Taken
  <2> QED
    BY <1>1, <1>5, <2>1 DEF QueueInv, Running, Taken
<1> QED
  BY <1>1, <1>2, <1>4, <1>5, <1>6, <1>7

\* The writer thread succeeds on a drained queue.
LEMMA DrainedKeeps ==
  ASSUME OrderInv, WriterEnd, wr' = "gone"
  PROVE  out = sent /\ CloseInv'
PROOF
<1>1. wr = "recv" /\ order = <<>> /\ ~orderOpen /\ fin' = "ok"
  BY DEF WriterEnd, Record
<1>2. out \in Seq(Item) /\ sent \in Seq(Item) /\ Len(<<>>) = 0
  BY DEF OrderInv, TypeOK, ChannelTypeOK, ThreadTypeOK
<1>3. Len(out) = Len(sent)
  <2>1. Len(sent) = Len(out) + Len(order)
    BY <1>1 DEF OrderInv, QueueInv, Running, Taken
  <2>2. Len(order) = 0 /\ Len(out) \in Nat
    BY <1>1, <1>2
  <2> QED
    BY <2>1, <2>2
<1>4. out = sent
  BY <1>2, <1>3, SeqEqual DEF OrderInv, InOrder, IsPrefixOf
<1> QED
  BY <1>1, <1>4 DEF OrderInv, CloseInv, WriterEnd, dispVars, Record

\* Every action preserves the order invariant.
LEMMA OrderInvStep == OrderInv /\ [Next]_vars => OrderInv'
PROOF
<1> SUFFICES ASSUME OrderInv, [Next]_vars
             PROVE  OrderInv'
  OBVIOUS
<1>a. TypeOK'
  BY TypeStep DEF OrderInv
<1>t. /\ slot \in [Workers -> Job] /\ busy \in [Workers -> Job] /\ cur \in Workers
      /\ wst \in [Workers -> {"idle", "busy", "unwind", "gone"}] /\ hand \in Job
  BY DEF OrderInv, TypeOK, DispatcherTypeOK, ThreadTypeOK
<1> SUFFICES QueueInv' /\ InOrder' /\ HandInv' /\ JobInv' /\ CloseInv'
  BY <1>a DEF OrderInv
<1> USE DEF OrderInv, dispVars, sinkVars, vars
<1>1. CASE Leaving
  <2>1. CloseInv' /\ HandInv'
    BY <1>1, LeavingFrame DEF CloseInv, HandInv, Submitting
  <2> QED
    BY <1>1, <2>1, LeavingFrame, QueueUnchanged, JobsUnchanged
<1>2. CASE Aborting
  <2>1. CloseInv' /\ HandInv'
    BY <1>2, AbortingFrame DEF CloseInv, HandInv, Submitting
  <2> QED
    BY <1>2, <2>1, AbortingFrame, QueueUnchanged, JobsUnchanged
<1>3. CASE Stopping
  <2>1. CloseInv'
    BY <1>3, StoppingFrame DEF CloseInv, ErrorKinds
  <2>2. QueueInv' /\ InOrder'
    BY <1>3, StoppingFrame, QueueStopped
  <2>3. JobInv' /\ HandInv'
    BY <1>3, StoppingFrame, JobsUnchanged, HandUnchanged
  <2> QED
    BY <2>1, <2>2, <2>3
<1>4. CASE DispatchMeta
  <2>1. CloseInv'
    BY <1>4 DEF CloseInv, DispatchMeta
  <2> QED
    BY <1>4, <2>1, QueueUnchanged, JobsUnchanged, HandUnchanged DEF DispatchMeta
<1>5. CASE DispatchData
  <2>1. CloseInv' /\ HandInv'
    BY <1>5 DEF CloseInv, HandInv, Submitting, DispatchData, AtChunk
  <2> QED
    BY <1>5, <2>1, QueueUnchanged, JobsUnchanged DEF DispatchData
<1>6. CASE SendOrder
  BY <1>6, SendOrderKeeps
<1>7. CASE Fill
  <2>1. CloseInv' /\ HandInv'
    BY <1>7 DEF CloseInv, HandInv, Submitting, Fill
  <2>2. JobInv'
    <3>1. JobOk(hand) /\ sent' = sent
      BY <1>7 DEF HandInv, Fill
    <3>2. ASSUME NEW r \in results' PROVE r.ch \in 1..Len(sent) /\ sent[r.ch] = ItemOf(r)
      BY <1>7, <3>1 DEF Fill, Answer, JobInv, JobOk, ItemOf
    <3> QED
      BY <1>7, <3>1, <3>2 DEF Fill, JobInv, JobOk, ItemOf
  <2> QED
    BY <1>7, <2>1, <2>2, QueueUnchanged DEF Fill
<1>8. CASE SubmitJob
  <2>1. CloseInv' /\ HandInv'
    BY <1>8 DEF CloseInv, HandInv, Submitting, SubmitJob
  <2>2. JobInv'
    BY <1>8, <1>t DEF SubmitJob, HandInv, JobInv, JobOk, ItemOf, Submitting
  <2> QED
    BY <1>8, <2>1, <2>2, QueueUnchanged DEF SubmitJob
<1>9. CASE SubmitFull
  <2>1. CloseInv' /\ HandInv'
    BY <1>9 DEF CloseInv, HandInv, JobOk, ItemOf, Submitting, SubmitFull
  <2> QED
    BY <1>9, <2>1, QueueUnchanged, JobsUnchanged DEF SubmitFull
<1>10. CASE CloseChannels
  <2>1. CloseInv' /\ HandInv'
    BY <1>10 DEF CloseInv, HandInv, Submitting, CloseChannels
  <2> QED
    BY <1>10, <2>1, QueueUnchanged, JobsUnchanged DEF CloseChannels
<1>11. CASE Join
  <2>1. CloseInv' /\ HandInv'
    BY <1>11 DEF CloseInv, HandInv, Submitting, Join, FinalResult, TypeOK, DispatcherTypeOK,
       ThreadTypeOK, ErrorKinds
  <2> QED
    BY <1>11, <2>1, QueueUnchanged, JobsUnchanged DEF Join
<1>12. ASSUME NEW w \in Workers, WorkerTake(w)
       PROVE  QueueInv' /\ InOrder' /\ HandInv' /\ JobInv' /\ CloseInv'
  <2>1. JobInv'
    BY <1>12, <1>t DEF WorkerTake, JobInv, JobOk, ItemOf
  <2>2. CloseInv'
    BY <1>12 DEF WorkerTake, CloseInv
  <2> QED
    BY <1>12, <2>1, <2>2, QueueUnchanged, HandUnchanged DEF WorkerTake
<1>13. ASSUME NEW w \in Workers, WorkerFinish(w)
       PROVE  QueueInv' /\ InOrder' /\ HandInv' /\ JobInv' /\ CloseInv'
  <2>1. JobInv'
    <3>1. JobOk(busy[w]) /\ sent' = sent
      BY <1>13 DEF JobInv, WorkerFinish
    <3>2. ASSUME NEW r \in results' PROVE r.ch \in 1..Len(sent) /\ sent[r.ch] = ItemOf(r)
      BY <1>13, <3>1 DEF WorkerFinish, Answer, JobInv, JobOk, ItemOf
    <3> QED
      BY <1>13, <1>t, <3>1, <3>2 DEF WorkerFinish, JobInv, JobOk, ItemOf
  <2>2. CloseInv'
    BY <1>13 DEF WorkerFinish, CloseInv
  <2> QED
    BY <1>13, <2>1, <2>2, QueueUnchanged, HandUnchanged DEF WorkerFinish
<1>14. ASSUME NEW w \in Workers, WorkerStops(w)
       PROVE  QueueInv' /\ InOrder' /\ HandInv' /\ JobInv' /\ CloseInv'
  <2>1. JobInv'
    BY <1>14, <1>t DEF WorkerStops, WorkerPanic, WorkerUnwound, WorkerExit, JobInv, JobOk,
       ItemOf
  <2>2. CloseInv'
    BY <1>14 DEF WorkerStops, WorkerPanic, WorkerUnwound, WorkerExit, CloseInv
  <2> QED
    BY <1>14, <2>1, <2>2, QueueUnchanged, HandUnchanged
       DEF WorkerStops, WorkerPanic, WorkerUnwound, WorkerExit
<1>15. CASE WriterTake
  <2>1. CloseInv'
    BY <1>15 DEF WriterTake, CloseInv
  <2> QED
    BY <1>15, <2>1, WriterTakeKeeps, JobsUnchanged, HandUnchanged DEF WriterTake
<1>16. ASSUME NEW r \in results, WriteBlock(r)
       PROVE  QueueInv' /\ InOrder' /\ HandInv' /\ JobInv' /\ CloseInv'
  <2>1. CloseInv'
    BY <1>16 DEF WriteBlock, Answers, CloseInv
  <2> QED
    BY <1>16, <2>1, WriteBlockKeeps, JobsUnchanged, HandUnchanged DEF WriteBlock
<1>17. CASE WriterEnd /\ wr' = "gone"
  BY <1>17, DrainedKeeps, QueueStopped, JobsUnchanged, HandUnchanged DEF WriterEnd
<1>18. CASE UNCHANGED vars
  <2>1. CloseInv'
    BY <1>18 DEF CloseInv
  <2> QED
    BY <1>18, <2>1, QueueUnchanged, JobsUnchanged, HandUnchanged
<1> QED
  BY <1>1, <1>2, <1>3, <1>4, <1>5, <1>6, <1>7, <1>8, <1>9, <1>10, <1>11, <1>12, <1>13,
     <1>14, <1>15, <1>16, <1>17, <1>18, NextCases

----------------------------------------------------------------------------
(* Refinement.  A slot that goes through the order queue is accepted, a     *)
(* block that is written delivered, the final join ends the session; every  *)
(* other step stutters.                                                     *)

\* A step that leaves the slots, the sink and the result alone stutters.
LEMMA SinkUnchanged ==
  ASSUME UNCHANGED <<sent, out, ret>>
  PROVE  UNCHANGED Sink!sinkVars
  BY DEF Sink!sinkVars, SinkResult

\* Every step of the pipeline is a step or a stutter of OrderedSink.
LEMMA SinkStep ==
  ASSUME OrderInv, [Next]_vars
  PROVE  [Sink!Next]_(Sink!sinkVars)
PROOF
<1> USE DEF dispVars, sinkVars, vars
<1>1. CASE Leaving \/ Aborting \/ Stopping
  BY <1>1, LeavingFrame, AbortingFrame, StoppingFrame, SinkUnchanged DEF OrderInv
<1>2. CASE \/ DispatchMeta \/ DispatchData \/ Fill \/ SubmitJob \/ SubmitFull
           \/ CloseChannels
  BY <1>2, SinkUnchanged DEF DispatchMeta, DispatchData, Fill, SubmitJob, SubmitFull,
     CloseChannels
<1>3. CASE SendOrder
  <2>1. Len(sent') = Len(sent) + 1 /\ \A i \in 1..Len(sent) : sent'[i] = sent[i]
    BY <1>3, SendOrderFrame
  <2>2. SinkResult = "open" /\ SinkResult' = SinkResult /\ out' = out
    BY <1>3 DEF SendOrder, SinkResult, OrderInv, CloseInv
  <2> QED
    BY <2>1, <2>2 DEF Sink!Accept, Sink!Next
<1>4. CASE Join
  <2>1. SinkResult = "open" /\ UNCHANGED <<sent, out>> /\ ret' # "open"
    BY <1>4 DEF Join, FinalResult, SinkResult, OrderInv, CloseInv, TypeOK,
       DispatcherTypeOK, ThreadTypeOK, ErrorKinds
  <2>2. CASE ret' = "ok"
    <3>1. fin = "ok"
      BY <1>4, <2>2 DEF Join, FinalResult, OrderInv, TypeOK, DispatcherTypeOK, ErrorKinds
    <3> QED
      BY <2>1, <2>2, <3>1 DEF Sink!EndOk, Sink!Next, SinkResult, OrderInv, CloseInv
  <2>3. CASE ret' # "ok"
    BY <2>1, <2>3 DEF Sink!EndErr, Sink!Next, SinkResult
  <2> QED
    BY <2>2, <2>3
<1>5. ASSUME NEW w \in Workers, WorkerTake(w) \/ WorkerFinish(w) \/ WorkerStops(w)
      PROVE  UNCHANGED Sink!sinkVars
  BY <1>5, SinkUnchanged
     DEF WorkerTake, WorkerFinish, WorkerStops, WorkerPanic, WorkerUnwound, WorkerExit
<1>6. CASE WriterTake \/ (WriterEnd /\ wr' = "gone") \/ UNCHANGED vars
  BY <1>6, SinkUnchanged DEF WriterTake, WriterEnd
<1>7. ASSUME NEW r \in results, WriteBlock(r)
      PROVE  Sink!Deliver
  <2>1. out' = Append(out, sent[Len(out) + 1]) /\ Len(out) < Len(sent)
    BY <1>7, WriteBlockKeeps, ResultIsNext DEF WriteBlock
  <2>2. SinkResult = "open" /\ SinkResult' = SinkResult /\ sent' = sent
    BY <1>7 DEF WriteBlock, Answers, SinkResult, OrderInv, CloseInv
  <2> QED
    BY <2>1, <2>2 DEF Sink!Deliver
<1> QED
  BY <1>1, <1>2, <1>3, <1>4, <1>5, <1>6, <1>7, NextCases DEF Sink!Next

\* decode_concurrent implements OrderedSink: blocks reach the sink in the order
\* in which the dispatcher met them, whichever worker is faster, and the call
\* succeeds only with every one of them delivered.
THEOREM ImplementsOrderedSink == Spec => KeepsOrderedSink
PROOF
<1>1. Init => Sink!Init
  BY DEF Init, Sink!Init, SinkResult
<1> QED
  BY <1>1, OrderInvInit, OrderInvStep, SinkStep, PTL DEF Spec, KeepsOrderedSink, Sink!Spec

----------------------------------------------------------------------------
(* MtReader against the single-threaded Reader, for every number of threads, *)
(* set of streams and set of faults.                                         *)

----------------------------------------------------------------------------
(* The reference.  RunUpTo and SeqOutput are defined by recursion along the   *)
(* chunks; the pipeline reads one chunk after the other, so what they are on  *)
(* the chunks read so far follows from what they were one chunk earlier.      *)

\* r satisfies the recursion of RunUpTo along st.
IsRun(r, st) ==
  r = [k \in 0..Len(st) |->
         IF k = 0 THEN Fresh
         ELSE IF r[k - 1].err # "none" THEN r[k - 1]
         ELSE HandleChunk(r[k - 1], st[k], k)]

\* o satisfies the recursion of SeqOutput along st.
IsOuts(o, st) ==
  o = [k \in 0..Len(st) |->
         IF k = 0 THEN <<>>
         ELSE IF Yields(st, k) THEN Append(o[k - 1], [id |-> k, len |-> st[k].n])
         ELSE o[k - 1]]

\* Both recursions have a solution, and one only.
Readable(st) == /\ IsRun(RunUpTo(st), st)
                /\ \A q : IsRun(q, st) => q = RunUpTo(st)
                /\ \E o : /\ IsOuts(o, st)
                          /\ \A q : IsOuts(q, st) => q = o

\* The Reader behind the last chunk of st.
Behind(st) == RunUpTo(st)[Len(st)]

\* One turn of the Reader, which stops at its first error.
Turn(s, c, i) == IF s.err # "none" THEN s ELSE HandleChunk(s, c, i)

\* A solution of the recursion is what RunUpTo chooses.
LEMMA RunIsRun ==
  ASSUME NEW st, NEW r, IsRun(r, st)
  PROVE  IsRun(RunUpTo(st), st)
  BY Zenon DEF IsRun, RunUpTo, RunFrom

\* The last element of a solution is what SeqOutput returns.
LEMMA OutsIsOuts ==
  ASSUME NEW st, NEW o, IsOuts(o, st), \A q : IsOuts(q, st) => q = o
  PROVE  SeqOutput(st) = o[Len(st)]
  BY Zenon DEF IsOuts, SeqOutput

\* Reading nothing.
LEMMA ReadNothing ==
  Readable(<<>>) /\ Behind(<<>>) = Fresh /\ SeqOutput(<<>>) = <<>>
PROOF
<1>0. Len(<<>>) = 0 /\ 0..0 = {0}
  OBVIOUS
<1> DEFINE r == [k \in {0} |-> Fresh]
           o == [k \in {0} |-> <<>>]
<1>1. IsRun(r, <<>>) /\ \A q : IsRun(q, <<>>) => q = r
  BY <1>0 DEF IsRun
<1>2. IsOuts(o, <<>>) /\ \A q : IsOuts(q, <<>>) => q = o
  BY <1>0 DEF IsOuts
<1>3. RunUpTo(<<>>) = r
  BY <1>1, RunIsRun
<1>4. Behind(<<>>) = Fresh
  BY <1>0, <1>3 DEF Behind
<1>5. SeqOutput(<<>>) = <<>>
  BY <1>0, <1>2, OutsIsOuts
<1>6. Readable(<<>>)
  BY <1>1, <1>2, <1>3 DEF Readable
<1> QED
  BY <1>4, <1>5, <1>6

\* What a chunk behind st adds to the run.
LEMMA RunMore ==
  ASSUME NEW st \in Seq(WireChunk), NEW c \in WireChunk, IsRun(RunUpTo(st), st),
         \A q : IsRun(q, st) => q = RunUpTo(st)
  PROVE  LET more == Append(st, c)
         IN  /\ IsRun(RunUpTo(more), more)
             /\ \A q : IsRun(q, more) => q = RunUpTo(more)
             /\ \A k \in 0..Len(st) : RunUpTo(more)[k] = RunUpTo(st)[k]
             /\ Behind(more) = Turn(Behind(st), c, Len(st) + 1)
PROOF
<1> DEFINE more == Append(st, c)
           L == Len(st)
           r == RunUpTo(st)
           s == [k \in 0..(L + 1) |-> IF k = L + 1 THEN Turn(r[L], c, L + 1) ELSE r[k]]
<1>1. /\ L \in Nat /\ Len(more) = L + 1 /\ more[L + 1] = c
      /\ \A k \in 1..L : more[k] = st[k]
  OBVIOUS
<1> HIDE DEF more
<1>2. ASSUME NEW q, NEW p, NEW k \in 1..L, q[k - 1] = p[k - 1]
      PROVE  (IF q[k - 1].err # "none" THEN q[k - 1] ELSE HandleChunk(q[k - 1], more[k], k))
             = (IF p[k - 1].err # "none" THEN p[k - 1] ELSE HandleChunk(p[k - 1], st[k], k))
  BY <1>1, <1>2
<1>3. ASSUME NEW q, IsRun(q, more)
      PROVE  q = s
  <2> DEFINE p == [k \in 0..L |-> q[k]]
  <2>1. /\ q = [k \in 0..(L + 1) |->
                  IF k = 0 THEN Fresh
                  ELSE IF q[k - 1].err # "none" THEN q[k - 1]
                  ELSE HandleChunk(q[k - 1], more[k], k)]
    BY <1>1, <1>3 DEF IsRun
  <2>2. ASSUME NEW k \in 0..L
        PROVE  p[k] = IF k = 0 THEN Fresh
                      ELSE IF p[k - 1].err # "none" THEN p[k - 1]
                      ELSE HandleChunk(p[k - 1], st[k], k)
    <3>1. k \in 0..(L + 1) /\ p[k] = q[k]
      BY <1>1
    <3>2. CASE k = 0
      BY <2>1, <3>1, <3>2
    <3>3. CASE k # 0
      <4>1. k \in 1..L /\ k - 1 \in 0..L
        BY <1>1, <3>3
      <4>2. p[k - 1] = q[k - 1]
        BY <4>1
      <4> HIDE DEF p
      <4>3. q[k] = IF q[k - 1].err # "none" THEN q[k - 1]
                   ELSE HandleChunk(q[k - 1], more[k], k)
        BY <2>1, <3>1, <3>3
      <4> QED
        BY <1>2, <3>1, <3>3, <4>1, <4>2, <4>3
    <3> QED
      BY <3>2, <3>3
  <2>3. IsRun(p, st)
    BY <2>2 DEF IsRun
  <2>4. p = r
    BY <2>3
  <2>5. \A k \in 0..L : q[k] = r[k]
    BY <2>4
  <2>6. q[L + 1] = Turn(r[L], c, L + 1)
    <3>1. L + 1 \in 0..(L + 1) /\ L + 1 # 0 /\ (L + 1) - 1 = L /\ L \in 0..L
      BY <1>1
    <3>2. q[L] = r[L]
      BY <2>5, <3>1
    <3>3. q[L + 1] = IF q[L].err # "none" THEN q[L] ELSE HandleChunk(q[L], c, L + 1)
      BY <2>1, <3>1, <1>1
    <3> QED
      BY <3>2, <3>3 DEF Turn
  <2>7. \A k \in 0..(L + 1) : q[k] = s[k]
    BY <2>5, <2>6, <1>1
  <2> QED
    BY <2>1, <2>7
<1>4. IsRun(s, more)
  <2>1. r = [k \in 0..L |->
               IF k = 0 THEN Fresh
               ELSE IF r[k - 1].err # "none" THEN r[k - 1]
               ELSE HandleChunk(r[k - 1], st[k], k)]
    BY DEF IsRun
  <2>2. ASSUME NEW k \in 0..(L + 1)
        PROVE  s[k] = IF k = 0 THEN Fresh
                      ELSE IF s[k - 1].err # "none" THEN s[k - 1]
                      ELSE HandleChunk(s[k - 1], more[k], k)
    <3>1. CASE k = 0
      <4>1. s[0] = r[0] /\ 0 \in 0..L
        BY <1>1
      <4> HIDE DEF s
      <4> QED
        BY <2>1, <3>1, <4>1
    <3>2. CASE k \in 1..L
      <4>1. s[k] = r[k] /\ s[k - 1] = r[k - 1] /\ k \in 0..L /\ k # 0
        BY <1>1, <3>2
      <4> HIDE DEF s
      <4>2. r[k] = IF r[k - 1].err # "none" THEN r[k - 1]
                   ELSE HandleChunk(r[k - 1], st[k], k)
        BY <2>1, <4>1
      <4> QED
        BY <1>2, <3>2, <4>1, <4>2
    <3>3. CASE k = L + 1
      <4>1. s[L + 1] = Turn(r[L], c, L + 1) /\ s[L] = r[L] /\ (L + 1) - 1 = L /\ L + 1 # 0
        BY <1>1
      <4> HIDE DEF s
      <4> QED
        BY <1>1, <3>3, <4>1 DEF Turn
    <3> QED
      BY <1>1, <3>1, <3>2, <3>3
  <2> HIDE DEF s
  <2>3. s = [k \in 0..(L + 1) |-> s[k]]
    BY DEF s
  <2> QED
    BY <1>1, <2>2, <2>3 DEF IsRun
<1>5. RunUpTo(more) = s
  BY <1>3, <1>4, RunIsRun
<1>6. \A k \in 0..L : s[k] = r[k]
  BY <1>1
<1>7. s[L + 1] = Turn(r[L], c, L + 1)
  BY <1>1
<1> HIDE DEF s
<1> QED
  BY <1>1, <1>3, <1>4, <1>5, <1>6, <1>7 DEF Behind, more

\* What a chunk behind st adds to the output: its block, unless the Reader has
\* met an error by then.
LEMMA ReadMore ==
  ASSUME NEW st \in Seq(WireChunk), NEW c \in WireChunk, Readable(st)
  PROVE  LET more == Append(st, c)
         IN  /\ Readable(more)
             /\ Behind(more) = Turn(Behind(st), c, Len(st) + 1)
             /\ SeqOutput(more) =
                  IF c.t \in {"comp", "raw"} /\ Behind(more).err = "none"
                  THEN Append(SeqOutput(st), [id |-> Len(st) + 1, len |-> c.n])
                  ELSE SeqOutput(st)
PROOF
<1> DEFINE more == Append(st, c)
           L == Len(st)
           new == [id |-> L + 1, len |-> c.n]
           good == c.t \in {"comp", "raw"} /\ Behind(more).err = "none"
<1>1. /\ L \in Nat /\ Len(more) = L + 1 /\ more[L + 1] = c
      /\ \A k \in 1..L : more[k] = st[k]
  OBVIOUS
<1>2. /\ IsRun(RunUpTo(more), more)
      /\ \A q : IsRun(q, more) => q = RunUpTo(more)
      /\ \A k \in 0..L : RunUpTo(more)[k] = RunUpTo(st)[k]
      /\ Behind(more) = Turn(Behind(st), c, L + 1)
  BY RunMore DEF Readable
<1> HIDE DEF more
<1>3. PICK o : IsOuts(o, st) /\ \A q : IsOuts(q, st) => q = o
  BY DEF Readable
<1> DEFINE last == IF good THEN Append(o[L], new) ELSE o[L]
           s == [k \in 0..(L + 1) |-> IF k = L + 1 THEN last ELSE o[k]]
<1>4. \A k \in 1..L : Yields(more, k) <=> Yields(st, k)
  BY <1>1, <1>2 DEF Yields
<1>5. Yields(more, L + 1) <=> good
  BY <1>1 DEF Yields, Behind
<1> HIDE DEF good
<1>6. ASSUME NEW q, NEW p, NEW k \in 1..L, q[k - 1] = p[k - 1]
      PROVE  (IF Yields(more, k) THEN Append(q[k - 1], [id |-> k, len |-> more[k].n])
              ELSE q[k - 1])
             = (IF Yields(st, k) THEN Append(p[k - 1], [id |-> k, len |-> st[k].n])
                ELSE p[k - 1])
  BY <1>1, <1>4, <1>6
<1>7. ASSUME NEW q, IsOuts(q, more)
      PROVE  q = s
  <2> DEFINE p == [k \in 0..L |-> q[k]]
  <2>1. q = [k \in 0..(L + 1) |->
               IF k = 0 THEN <<>>
               ELSE IF Yields(more, k) THEN Append(q[k - 1], [id |-> k, len |-> more[k].n])
               ELSE q[k - 1]]
    BY <1>1, <1>7 DEF IsOuts
  <2>2. ASSUME NEW k \in 0..L
        PROVE  p[k] = IF k = 0 THEN <<>>
                      ELSE IF Yields(st, k)
                           THEN Append(p[k - 1], [id |-> k, len |-> st[k].n])
                      ELSE p[k - 1]
    <3>1. k \in 0..(L + 1) /\ p[k] = q[k]
      BY <1>1
    <3>2. CASE k = 0
      BY <2>1, <3>1, <3>2
    <3>3. CASE k # 0
      <4>1. k \in 1..L /\ k - 1 \in 0..L
        BY <1>1, <3>3
      <4>2. p[k - 1] = q[k - 1]
        BY <4>1
      <4> HIDE DEF p
      <4>3. q[k] = IF Yields(more, k) THEN Append(q[k - 1], [id |-> k, len |-> more[k].n])
                   ELSE q[k - 1]
        BY <2>1, <3>1, <3>3
      <4> QED
        BY <1>6, <3>1, <3>3, <4>1, <4>2, <4>3
    <3> QED
      BY <3>2, <3>3
  <2>3. IsOuts(p, st)
    BY <2>2 DEF IsOuts
  <2>4. p = o
    BY <1>3, <2>3
  <2>5. \A k \in 0..L : q[k] = o[k]
    BY <2>4
  <2>6. q[L + 1] = last
    <3>1. L + 1 \in 0..(L + 1) /\ L + 1 # 0 /\ (L + 1) - 1 = L /\ L \in 0..L
      BY <1>1
    <3>2. q[L] = o[L]
      BY <2>5, <3>1
    <3>3. q[L + 1] = IF Yields(more, L + 1) THEN Append(q[L], new) ELSE q[L]
      BY <2>1, <3>1, <1>1
    <3> QED
      BY <3>2, <3>3, <1>5
  <2>7. \A k \in 0..(L + 1) : q[k] = s[k]
    BY <2>5, <2>6, <1>1
  <2> QED
    BY <2>1, <2>7
<1>8. IsOuts(s, more)
  <2>1. o = [k \in 0..L |->
               IF k = 0 THEN <<>>
               ELSE IF Yields(st, k) THEN Append(o[k - 1], [id |-> k, len |-> st[k].n])
               ELSE o[k - 1]]
    BY <1>3 DEF IsOuts
  <2>2. ASSUME NEW k \in 0..(L + 1)
        PROVE  s[k] = IF k = 0 THEN <<>>
                      ELSE IF Yields(more, k)
                           THEN Append(s[k - 1], [id |-> k, len |-> more[k].n])
                      ELSE s[k - 1]
    <3>1. CASE k = 0
      <4>1. s[0] = o[0] /\ 0 \in 0..L
        BY <1>1
      <4> HIDE DEF s
      <4> QED
        BY <2>1, <3>1, <4>1
    <3>2. CASE k \in 1..L
      <4>1. s[k] = o[k] /\ s[k - 1] = o[k - 1] /\ k \in 0..L /\ k # 0
        BY <1>1, <3>2
      <4> HIDE DEF s
      <4>2. o[k] = IF Yields(st, k) THEN Append(o[k - 1], [id |-> k, len |-> st[k].n])
                   ELSE o[k - 1]
        BY <2>1, <4>1
      <4> QED
        BY <1>6, <3>2, <4>1, <4>2
    <3>3. CASE k = L + 1
      <4>1. s[L + 1] = last /\ s[L] = o[L] /\ (L + 1) - 1 = L /\ L + 1 # 0
        BY <1>1
      <4> HIDE DEF s
      <4> QED
        BY <1>1, <1>5, <3>3, <4>1
    <3> QED
      BY <1>1, <3>1, <3>2, <3>3
  <2> HIDE DEF s
  <2>3. s = [k \in 0..(L + 1) |-> s[k]]
    BY DEF s
  <2> QED
    BY <1>1, <2>2, <2>3 DEF IsOuts
<1>9. s[L + 1] = last
  BY <1>1
<1> HIDE DEF s, last
<1>10. SeqOutput(more) = last
  BY <1>1, <1>7, <1>8, <1>9, OutsIsOuts
<1>11. SeqOutput(st) = o[L]
  BY <1>3, OutsIsOuts
<1>12. Readable(more)
  BY <1>2, <1>7, <1>8 DEF Readable
<1> QED
  BY <1>2, <1>10, <1>11, <1>12 DEF last, good, more

----------------------------------------------------------------------------
(* The bytes of a sequence of blocks. *)

\* f satisfies the recursion of Bytes along b.
IsSum(f, b) == f = [k \in 0..Len(b) |-> IF k = 0 THEN 0 ELSE f[k - 1] + b[k].len]

\* It has a solution, and one only.
Countable(b) == \E f : IsSum(f, b) /\ \A q : IsSum(q, b) => q = f

\* The last element of a solution is what Bytes returns.
LEMMA SumIsSum ==
  ASSUME NEW b, NEW f, IsSum(f, b), \A q : IsSum(q, b) => q = f
  PROVE  Bytes(b) = f[Len(b)]
  BY Zenon DEF IsSum, Bytes

\* Nothing has no bytes.
LEMMA CountNothing == Countable(<<>>) /\ Bytes(<<>>) = 0
PROOF
<1>0. Len(<<>>) = 0 /\ 0..0 = {0}
  OBVIOUS
<1> DEFINE f == [k \in {0} |-> 0]
<1>1. IsSum(f, <<>>) /\ \A q : IsSum(q, <<>>) => q = f
  BY <1>0 DEF IsSum
<1> QED
  BY <1>0, <1>1, SumIsSum DEF Countable

\* One block more has its bytes more.
LEMMA CountMore ==
  ASSUME NEW b \in Seq(Item), NEW x \in Item, Countable(b)
  PROVE  Countable(Append(b, x)) /\ Bytes(Append(b, x)) = Bytes(b) + x.len
PROOF
<1> DEFINE more == Append(b, x)
           L == Len(b)
<1>1. /\ L \in Nat /\ Len(more) = L + 1 /\ more[L + 1] = x
      /\ \A k \in 1..L : more[k] = b[k]
  OBVIOUS
<1> HIDE DEF more
<1>2. PICK f : IsSum(f, b) /\ \A q : IsSum(q, b) => q = f
  BY DEF Countable
<1> DEFINE s == [k \in 0..(L + 1) |-> IF k = L + 1 THEN f[L] + x.len ELSE f[k]]
<1>3. ASSUME NEW q, NEW p, NEW k \in 1..L, q[k - 1] = p[k - 1]
      PROVE  q[k - 1] + more[k].len = p[k - 1] + b[k].len
  BY <1>1, <1>3
<1>4. ASSUME NEW q, IsSum(q, more)
      PROVE  q = s
  <2> DEFINE p == [k \in 0..L |-> q[k]]
  <2>1. q = [k \in 0..(L + 1) |-> IF k = 0 THEN 0 ELSE q[k - 1] + more[k].len]
    BY <1>1, <1>4 DEF IsSum
  <2>2. ASSUME NEW k \in 0..L
        PROVE  p[k] = IF k = 0 THEN 0 ELSE p[k - 1] + b[k].len
    <3>1. k \in 0..(L + 1) /\ p[k] = q[k]
      BY <1>1
    <3>2. CASE k = 0
      BY <2>1, <3>1, <3>2
    <3>3. CASE k # 0
      <4>1. k \in 1..L /\ k - 1 \in 0..L
        BY <1>1, <3>3
      <4>2. p[k - 1] = q[k - 1]
        BY <4>1
      <4> HIDE DEF p
      <4>3. q[k] = q[k - 1] + more[k].len
        BY <2>1, <3>1, <3>3
      <4> QED
        BY <1>3, <3>1, <3>3, <4>1, <4>2, <4>3
    <3> QED
      BY <3>2, <3>3
  <2>3. IsSum(p, b)
    BY <2>2 DEF IsSum
  <2>4. p = f
    BY <1>2, <2>3
  <2>5. \A k \in 0..L : q[k] = f[k]
    BY <2>4
  <2>6. q[L + 1] = f[L] + x.len
    <3>1. L + 1 \in 0..(L + 1) /\ L + 1 # 0 /\ (L + 1) - 1 = L /\ L \in 0..L
      BY <1>1
    <3> QED
      BY <2>1, <2>5, <3>1, <1>1
  <2>7. \A k \in 0..(L + 1) : q[k] = s[k]
    BY <2>5, <2>6, <1>1
  <2> QED
    BY <2>1, <2>7
<1>5. IsSum(s, more)
  <2>1. f = [k \in 0..L |-> IF k = 0 THEN 0 ELSE f[k - 1] + b[k].len]
    BY <1>2 DEF IsSum
  <2>2. ASSUME NEW k \in 0..(L + 1)
        PROVE  s[k] = IF k = 0 THEN 0 ELSE s[k - 1] + more[k].len
    <3>1. CASE k = 0
      <4>1. s[0] = f[0] /\ 0 \in 0..L
        BY <1>1
      <4> HIDE DEF s
      <4> QED
        BY <2>1, <3>1, <4>1
    <3>2. CASE k \in 1..L
      <4>1. s[k] = f[k] /\ s[k - 1] = f[k - 1] /\ k \in 0..L /\ k # 0
        BY <1>1, <3>2
      <4> HIDE DEF s
      <4>2. f[k] = f[k - 1] + b[k].len
        BY <2>1, <4>1
      <4> QED
        BY <1>3, <3>2, <4>1, <4>2
    <3>3. CASE k = L + 1
      <4>1. s[L + 1] = f[L] + x.len /\ s[L] = f[L] /\ (L + 1) - 1 = L /\ L + 1 # 0
        BY <1>1
      <4> HIDE DEF s
      <4> QED
        BY <1>1, <3>3, <4>1
    <3> QED
      BY <1>1, <3>1, <3>2, <3>3
  <2> HIDE DEF s
  <2>3. s = [k \in 0..(L + 1) |-> s[k]]
    BY DEF s
  <2> QED
    BY <1>1, <2>2, <2>3 DEF IsSum
<1>6. s[L + 1] = f[L] + x.len
  BY <1>1
<1> HIDE DEF s
<1>7. Bytes(more) = f[L] + x.len /\ Bytes(b) = f[L]
  BY <1>1, <1>2, <1>4, <1>5, <1>6, SumIsSum
<1>8. Countable(more)
  BY <1>4, <1>5 DEF Countable
<1> QED
  BY <1>7, <1>8 DEF more

----------------------------------------------------------------------------
(* The inductive invariant. *)

ReaderState == [header : BOOLEAN, expectEof : BOOLEAN, start : Nat, block : Item,
                at : Nat, max : Nat, err : ErrorKinds \cup {"none"}]

\* The single-threaded Reader behind the chunks read so far, and what it returned.
Ref == Behind(ReadSoFar)
Outs == SeqOutput(ReadSoFar)

RefInv == Readable(ReadSoFar) /\ Ref \in ReaderState /\ Outs \in Seq(Item)

\* Blocks dispatched, the one in hand included.
Dispatched == IF pc = "order" THEN Len(sent) + 1 ELSE Len(sent)

\* As long as neither has met an error, the dispatcher's view of the stream is the
\* Reader's.
MirrorInv ==
  dres = "none" /\ Ref.err = "none" =>
    /\ header = Ref.header
    /\ expectEof = Ref.expectEof
    /\ maxBlock = Ref.max
    /\ emitted = Ref.start + Ref.block.len
    /\ Len(Outs) = Dispatched

\* The dispatcher goes past a block only the worker finds broken.
AheadInv == dres = "none" /\ Ref.err # "none" => Len(Outs) < Dispatched

\* What was dispatched is what the Reader returned, up to the first broken block.
SameInv == /\ \A i \in 1..Len(Outs) : i <= Len(sent) => Outs[i] = sent[i]
           /\ pc = "order" /\ Len(Outs) > Len(sent) => Outs[Len(sent) + 1] = ItemOf(hand)

Undecodable(j) == ~j.raw /\ Decoded(j) # "none"

\* The block behind what the Reader returned is broken, and its result says so.
UndecodableInv ==
  /\ pc = "order" /\ Len(Outs) = Len(sent) => Undecodable(hand)
  /\ (pc = "fill" \/ Submitting) /\ hand.ch = Len(Outs) + 1 => Undecodable(hand)
  /\ \A w \in Workers : /\ slot[w].ch = Len(Outs) + 1 => Undecodable(slot[w])
                        /\ busy[w].ch = Len(Outs) + 1 => Undecodable(busy[w])
  /\ \A r \in results : r.ch = Len(Outs) + 1 => r.e # "none"

\* The writer thread is not ahead of the Reader, and counts what it writes.
WrittenInv == /\ Len(out) <= Len(Outs)
              /\ Countable(out)
              /\ Running \/ fin = "ok" => written = Bytes(out)

Left == pc \in {"close", "join", "ended"}

\* The dispatcher ends without an error at the end of a finished stream only.
EndInv == /\ ~Left => dres = "none"
          /\ Left /\ dres = "none" => pos = Len(stream) /\ ~expectEof

ReferenceInv == /\ OrderInv /\ RefInv /\ MirrorInv /\ AheadInv /\ SameInv /\ UndecodableInv
                /\ WrittenInv /\ EndInv

----------------------------------------------------------------------------
(* The dispatcher and the Reader look at the same chunk. *)

\* The Reader stays well-typed.
LEMMA HandleType ==
  ASSUME NEW s \in ReaderState, NEW c \in WireChunk, NEW i \in Nat
  PROVE  HandleChunk(s, c, i) \in ReaderState
PROOF
<1>0. NoBlock \in Item /\ [id |-> i, len |-> c.n] \in Item /\ c.n \in Nat
  BY DEF NoBlock, Item, WireChunk
<1>1. /\ {"corrupt", "toolarge", "unsupported", "crc", "callback", "none"}
           \subseteq ErrorKinds \cup {"none"}
  BY DEF ErrorKinds
<1>2. \A q \in ReaderState : /\ Err(q, "corrupt") \in ReaderState
                             /\ Err(q, "toolarge") \in ReaderState
                             /\ Err(q, "unsupported") \in ReaderState
                             /\ Err(q, "crc") \in ReaderState
                             /\ Err(q, "callback") \in ReaderState
  BY <1>1 DEF Err, ReaderState
<1>3. \A q \in ReaderState : /\ Passed(q) \in ReaderState
                             /\ Load(q, c, i) \in ReaderState
                             /\ [q EXCEPT !.block = NoBlock] \in ReaderState
                             /\ [q EXCEPT !.at = 0] \in ReaderState
  <2>1. \A q \in ReaderState : q.start + q.block.len \in Nat
    BY DEF ReaderState, Item
  <2> QED
    BY <1>0, <2>1 DEF Passed, Load, ReaderState
<1>4. PastGate(s, c) \in ReaderState
  BY DEF PastGate, ReaderState
<1>5. \A q \in ReaderState : Checked(q, c, 0) \in ReaderState
  BY <1>2, <1>3 DEF Checked
<1>6. \A q \in ReaderState : HandleCompressed(q, c, i) \in ReaderState
  BY <1>2, <1>3, <1>5 DEF HandleCompressed
<1>7. \A q \in ReaderState : HandleUncompressed(q, c, i) \in ReaderState
  BY <1>2, <1>3, <1>5 DEF HandleUncompressed
<1>8. \A q \in ReaderState : HandleEof(q, c) \in ReaderState
  <2>1. \A q \in ReaderState :
          [q EXCEPT !.expectEof = FALSE, !.header = FALSE] \in ReaderState
    BY DEF ReaderState
  <2> QED
    BY <1>2, <2>1 DEF HandleEof
<1>9. \A q \in ReaderState : HandleStreamIdentifier(q, c) \in ReaderState
  <2>1. \A q \in ReaderState :
          [q EXCEPT !.max = c.n, !.start = 0, !.block = NoBlock, !.at = 0,
                    !.expectEof = TRUE] \in ReaderState
    BY <1>0 DEF ReaderState
  <2> QED
    BY <1>2, <2>1 DEF HandleStreamIdentifier
<1>10. \A q \in ReaderState : HandleSkippable(q, c) \in ReaderState
  BY <1>2 DEF HandleSkippable
<1>11. \A q \in ReaderState : HandleMeta(q, c) \in ReaderState
  BY <1>2, <1>8, <1>9, <1>10 DEF HandleMeta
<1> QED
  BY <1>2, <1>4, <1>6, <1>7, <1>11 DEF HandleChunk

\* The Reader in state s sees the stream as the dispatcher does.
Sees(s) == /\ s \in ReaderState /\ s.err = "none"
           /\ header = s.header /\ expectEof = s.expectEof /\ maxBlock = s.max
           /\ emitted = s.start + s.block.len

\* What the gate and the replaced block leave of the Reader's state.
LEMMA GateFields ==
  ASSUME NEW s, Sees(s), NEW c \in WireChunk
  PROVE  LET q == PastGate(s, c)
             p == Passed(PastGate(s, c))
         IN  /\ q \in ReaderState /\ q.err = "none" /\ q.max = maxBlock
             /\ q.expectEof = expectEof /\ q.start + q.block.len = emitted
             /\ (c.t = "sid" => q.header = TRUE) /\ (c.t # "sid" => q.header = header)
             /\ p \in ReaderState /\ p.err = "none" /\ p.max = maxBlock
             /\ p.expectEof = expectEof /\ p.header = q.header /\ p.start = emitted
PROOF
<1> DEFINE q == PastGate(s, c)
<1>1. s \in ReaderState
  BY DEF Sees
<1>2. q \in ReaderState
  BY <1>1 DEF PastGate, ReaderState
<1>3. /\ q.err = s.err /\ q.max = s.max /\ q.expectEof = s.expectEof /\ q.start = s.start
      /\ q.block = s.block
  BY <1>1 DEF PastGate, ReaderState
<1>4. (c.t = "sid" => q.header = TRUE) /\ (c.t # "sid" => q.header = s.header)
  BY <1>1 DEF PastGate, ReaderState
<1> HIDE DEF q
<1>5. q.start + q.block.len = emitted /\ emitted \in Nat
  BY <1>1, <1>3 DEF Sees, ReaderState, Item
<1>6. Passed(q) \in ReaderState
  BY <1>2, <1>5 DEF Passed, ReaderState
<1>7. /\ Passed(q).err = q.err /\ Passed(q).max = q.max /\ Passed(q).header = q.header
      /\ Passed(q).expectEof = q.expectEof /\ Passed(q).start = q.start + q.block.len
  BY <1>2 DEF Passed, ReaderState
<1> QED
  BY <1>2, <1>3, <1>4, <1>5, <1>6, <1>7 DEF Sees, q

\* What an error does to the Reader's state.
LEMMA ErrFields ==
  ASSUME NEW s \in ReaderState, NEW e
  PROVE  Err(s, e).err = e
  BY DEF Err, ReaderState

\* What the dispatcher refuses, the Reader refuses.
LEMMA BothRefuse ==
  ASSUME TypeOK, AtChunk, NEW s, Sees(s), Refusal # "none"
  PROVE  HandleChunk(s, Chunk, pos + 1).err # "none"
PROOF
<1>1. Chunk \in WireChunk
  BY ChunkType DEF TypeOK, DispatcherTypeOK, AtChunk
<1> DEFINE c == Chunk
           q == PastGate(s, c)
           p == Passed(q)
<1>2. /\ q \in ReaderState /\ q.max = maxBlock /\ q.start + q.block.len = emitted
      /\ p \in ReaderState /\ p.max = maxBlock
      /\ s \in ReaderState
  BY <1>1, GateFields DEF Sees
<1>3. \A e : Err(s, e).err = e /\ Err(q, e).err = e /\ Err(p, e).err = e
  BY <1>2, ErrFields
<1>4. ~s.header <=> ~header
  BY DEF Sees
<1>5. CASE ~header /\ NeedsHeader(c)
  BY <1>3, <1>4, <1>5 DEF HandleChunk
<1>6. CASE ~(~header /\ NeedsHeader(c)) /\ c.t = "comp"
  <2>1. c.bad \in {"short", "long", "cut", "dlen"} \/ c.n = 0
    BY <1>6 DEF Refusal, Gated, NeedsHeader
  <2>2. HandleChunk(s, c, pos + 1) = HandleCompressed(q, c, pos + 1)
    BY <1>4, <1>6 DEF HandleChunk
  <2>3. HandleCompressed(q, c, pos + 1) \in {Err(q, "corrupt"), Err(p, "corrupt")}
    BY <2>1 DEF HandleCompressed
  <2> QED
    BY <1>3, <2>2, <2>3
<1>7. CASE ~(~header /\ NeedsHeader(c)) /\ c.t = "raw"
  <2>1. \/ c.bad \in {"short", "long", "cut"} \/ c.n > maxBlock
        \/ c.bad = "crc" /\ ~IgnoreCrc
    BY <1>7 DEF Refusal, Gated, NeedsHeader
  <2>2. HandleChunk(s, c, pos + 1) = HandleUncompressed(q, c, pos + 1)
    BY <1>4, <1>7 DEF HandleChunk
  <2> DEFINE l == Load(p, c, pos + 1)
  <2>3. \A e : Err(l, e).err = e
    <3>1. l \in ReaderState
      <4>1. [id |-> pos + 1, len |-> c.n] \in Item
        BY <1>1, ChunkType DEF TypeOK, DispatcherTypeOK, AtChunk, Item, WireChunk
      <4> QED
        BY <1>2, <4>1 DEF Load, ReaderState
    <3> QED
      BY <3>1, ErrFields
  <2>4. HandleUncompressed(q, c, pos + 1) \in {Err(q, "corrupt"), Err(p, "toolarge"),
                                               Err(l, "corrupt"), Err(l, "crc")}
    BY <1>2, <2>1 DEF HandleUncompressed, Checked
  <2> HIDE DEF l
  <2> QED
    BY <1>3, <2>2, <2>3, <2>4
<1>8. CASE c.t = "reserved" /\ header
  BY <1>3, <1>4, <1>8 DEF HandleChunk, HandleMeta, NeedsHeader
<1>9. CASE c.t \in {"eof", "eof0"}
  <2>1. c.bad = "cut" \/ (c.t = "eof" /\ ~IgnoreStreamId /\ c.n # emitted)
    BY <1>9 DEF Refusal, Gated, NeedsHeader
  <2>2. HandleChunk(s, c, pos + 1) = HandleEof(q, c)
    BY <1>9 DEF HandleChunk, HandleMeta, NeedsHeader
  <2> QED
    BY <1>2, <1>3, <2>1, <2>2 DEF HandleEof
<1>10. CASE c.t = "sid"
  <2>1. c.bad \in {"cut", "magic"} \/ c.n > MaxBlockUser
    BY <1>10 DEF Refusal, Gated, NeedsHeader
  <2>2. HandleChunk(s, c, pos + 1) = HandleStreamIdentifier(q, c)
    BY <1>10 DEF HandleChunk, HandleMeta, NeedsHeader
  <2> QED
    BY <1>3, <2>1, <2>2 DEF HandleStreamIdentifier
<1>11. CASE c.t \in {"skip", "user", "noskip", "stub"}
  <2>1. c.t \in {"noskip", "stub"} \/ c.bad \in {"cut", "cb"}
    BY <1>11 DEF Refusal, Gated, NeedsHeader
  <2>2. HandleChunk(s, c, pos + 1) =
          IF c.t = "stub" THEN Err(q, "corrupt") ELSE HandleSkippable(q, c)
    BY <1>11 DEF HandleChunk, HandleMeta, NeedsHeader
  <2> QED
    BY <1>3, <2>1, <2>2 DEF HandleSkippable
<1>12. c.t \in ChunkTypes
  BY <1>1 DEF WireChunk
<1> QED
  BY <1>5, <1>6, <1>7, <1>8, <1>9, <1>10, <1>11, <1>12 DEF ChunkTypes, NeedsHeader

\* Metadata the dispatcher accepts leaves it with the Reader's view.
LEMMA BothAccept ==
  ASSUME TypeOK, NEW s, Sees(s), DispatchMeta
  PROVE  LET q == HandleChunk(s, Chunk, pos + 1)
         IN  /\ q.err = "none" /\ header' = q.header /\ expectEof' = q.expectEof
             /\ maxBlock' = q.max /\ emitted' = q.start + q.block.len
PROOF
<1> DEFINE c == Chunk
           q == PastGate(s, c)
           h == HandleChunk(s, c, pos + 1)
<1>1. /\ AtChunk /\ Refusal = "none" /\ c.t \notin {"comp", "raw"}
      /\ header' = IF c.t = "sid" THEN TRUE
                   ELSE IF c.t \in {"eof", "eof0"} THEN FALSE ELSE header
      /\ expectEof' = IF c.t = "sid" THEN TRUE
                      ELSE IF c.t \in {"eof", "eof0"} THEN FALSE ELSE expectEof
      /\ maxBlock' = IF c.t = "sid" THEN c.n ELSE maxBlock
      /\ emitted' = IF c.t = "sid" THEN 0 ELSE emitted
  BY DEF DispatchMeta, EmittedAfter
<1>2. Chunk \in WireChunk
  BY <1>1, ChunkType DEF TypeOK, DispatcherTypeOK, AtChunk
<1>3. /\ q \in ReaderState /\ q.err = "none" /\ q.max = maxBlock
      /\ q.expectEof = expectEof /\ q.start + q.block.len = emitted
      /\ (c.t = "sid" => q.header = TRUE) /\ (c.t # "sid" => q.header = header)
  BY <1>2, GateFields
<1>4. ~s.header <=> ~header
  BY DEF Sees
<1> HIDE DEF q
<1>5. CASE c.t \in {"eof", "eof0"}
  <2>1. ~(c.bad = "cut" \/ (c.t = "eof" /\ ~IgnoreStreamId /\ c.n # emitted))
    BY <1>1, <1>5 DEF Refusal, Gated, NeedsHeader
  <2>2. h = HandleEof(q, c)
    BY <1>5 DEF HandleChunk, HandleMeta, NeedsHeader, q
  <2>3. h = [q EXCEPT !.expectEof = FALSE, !.header = FALSE]
    BY <1>3, <2>1, <2>2 DEF HandleEof
  <2> HIDE DEF h
  <2>4. /\ h.err = q.err /\ h.header = FALSE /\ h.expectEof = FALSE /\ h.max = q.max
        /\ h.start = q.start /\ h.block = q.block
    BY <1>3, <2>3 DEF ReaderState
  <2> QED
    BY <1>1, <1>3, <1>5, <2>4 DEF h
<1>6. CASE c.t = "sid"
  <2>1. c.bad \notin {"cut", "magic"} /\ ~(c.n > MaxBlockUser)
    BY <1>1, <1>6 DEF Refusal, Gated, NeedsHeader
  <2>2. h = HandleStreamIdentifier(q, c)
    BY <1>6 DEF HandleChunk, HandleMeta, NeedsHeader, q
  <2>3. h = [q EXCEPT !.max = c.n, !.start = 0, !.block = NoBlock, !.at = 0,
                      !.expectEof = TRUE]
    BY <2>1, <2>2 DEF HandleStreamIdentifier
  <2> HIDE DEF h
  <2>4. /\ h.err = q.err /\ h.header = q.header /\ h.expectEof = TRUE /\ h.max = c.n
        /\ h.start = 0 /\ h.block.len = 0
    BY <1>3, <2>3 DEF ReaderState, NoBlock
  <2>5. emitted' = h.start + h.block.len
    BY <1>1, <1>6, <2>4
  <2>6. header' = h.header /\ expectEof' = h.expectEof /\ maxBlock' = h.max
    BY <1>1, <1>3, <1>6, <2>4, Zenon
  <2> QED
    BY <1>3, <2>4, <2>5, <2>6 DEF h
<1>7. CASE c.t \in {"skip", "user"}
  <2>1. c.bad \notin {"cut", "cb"}
    BY <1>1, <1>7 DEF Refusal, Gated, NeedsHeader
  <2>2. h = q
    BY <1>7, <2>1 DEF HandleChunk, HandleMeta, HandleSkippable, NeedsHeader, q
  <2> QED
    BY <1>1, <1>3, <1>7, <2>2
<1>8. c.t \in {"eof", "eof0", "sid", "skip", "user"}
  <2>1. c.t \notin {"reserved", "noskip", "stub"}
    BY <1>1 DEF Refusal, Gated, NeedsHeader
  <2> QED
    BY <1>1, <1>2, <2>1 DEF WireChunk, ChunkTypes
<1> QED
  BY <1>5, <1>6, <1>7, <1>8

\* A data chunk the dispatcher accepts: the Reader returns it, or it is broken and
\* the worker will say so.
LEMMA BothRead ==
  ASSUME TypeOK, NEW s, Sees(s), DispatchData
  PROVE  LET q == HandleChunk(s, Chunk, pos + 1)
         IN  IF q.err = "none"
             THEN /\ header' = q.header /\ expectEof' = q.expectEof
                  /\ maxBlock' = q.max /\ emitted' = q.start + q.block.len
                  /\ ~Undecodable(hand')
             ELSE Undecodable(hand')
PROOF
<1> DEFINE c == Chunk
           q == PastGate(s, c)
           p == Passed(q)
           l == Load(p, c, pos + 1)
           h == HandleChunk(s, c, pos + 1)
<1>1. /\ AtChunk /\ Refusal = "none" /\ c.t \in {"comp", "raw"}
      /\ hand' = [ch |-> 0, id |-> pos + 1, len |-> c.n, max |-> maxBlock,
                  bad |-> c.bad, raw |-> c.t = "raw"]
      /\ emitted' = emitted + c.n
      /\ UNCHANGED <<header, expectEof, maxBlock>>
  BY DEF DispatchData
<1>2. Chunk \in WireChunk /\ [id |-> pos + 1, len |-> c.n] \in Item
  BY <1>1, ChunkType DEF TypeOK, DispatcherTypeOK, AtChunk, Item, WireChunk
<1>3. /\ p \in ReaderState /\ p.err = "none" /\ p.max = maxBlock /\ p.expectEof = expectEof
      /\ p.header = header /\ p.start = emitted /\ q.max = maxBlock
  BY <1>1, <1>2, GateFields
<1>4. header /\ s.header /\ c.bad # "short"
  BY <1>1 DEF Refusal, Gated, NeedsHeader, Sees
<1> HIDE DEF p
<1>5. l \in ReaderState
  BY <1>2, <1>3 DEF Load, ReaderState
<1>6. /\ l.err = "none" /\ l.max = maxBlock /\ l.header = header /\ l.expectEof = expectEof
      /\ l.start = emitted /\ l.block.len = c.n
  BY <1>2, <1>3 DEF Load, ReaderState
<1> HIDE DEF l
<1> DEFINE k == [l EXCEPT !.at = 0]
<1>7. /\ k.err = "none" /\ k.max = maxBlock /\ k.header = header /\ k.expectEof = expectEof
      /\ k.start = emitted /\ k.block.len = c.n
  BY <1>5, <1>6 DEF ReaderState
<1> HIDE DEF k
<1>8. /\ hand'.len = c.n /\ hand'.max = maxBlock /\ hand'.bad = c.bad
      /\ (c.t = "comp" <=> ~hand'.raw)
  BY <1>1
<1>9. CASE c.t = "raw"
  <2>1. /\ c.bad \notin {"short", "long", "cut"} /\ ~(c.n > maxBlock)
        /\ ~(c.bad = "crc" /\ ~IgnoreCrc)
    BY <1>1, <1>4, <1>9 DEF Refusal, Gated, NeedsHeader
  <2>2. h = HandleUncompressed(q, c, pos + 1)
    BY <1>4, <1>9 DEF HandleChunk
  <2>3. h = k
    BY <1>3, <2>1, <2>2 DEF HandleUncompressed, Checked, k, l, p
  <2>4. ~Undecodable(hand')
    BY <1>8, <1>9 DEF Undecodable
  <2> QED
    BY <1>1, <1>7, <2>3, <2>4
<1>10. CASE c.t = "comp"
  <2>1. c.bad \notin {"short", "long", "cut", "dlen"} /\ c.n # 0
    BY <1>1, <1>4, <1>10 DEF Refusal, Gated, NeedsHeader
  <2>2. h = HandleCompressed(q, c, pos + 1)
    BY <1>4, <1>10 DEF HandleChunk
  <2>3. CASE c.n > maxBlock \/ c.bad = "body" \/ (c.bad = "crc" /\ ~IgnoreCrc)
    <3>1. Decoded(hand') # "none"
      BY <1>8, <2>3 DEF Decoded
    <3>2. h.err # "none"
      <4>1. [p EXCEPT !.block = NoBlock] \in ReaderState
        BY <1>3 DEF ReaderState, NoBlock, Item
      <4>2. h \in {Err(p, "toolarge"), Err([p EXCEPT !.block = NoBlock], "corrupt"),
                   Err(l, "crc")}
        BY <1>3, <2>1, <2>2, <2>3 DEF HandleCompressed, Checked, l, p
      <4> QED
        BY <1>3, <1>5, <4>1, <4>2, ErrFields
    <3> QED
      BY <1>8, <1>10, <3>1, <3>2 DEF Undecodable
  <2>4. CASE ~(c.n > maxBlock \/ c.bad = "body" \/ (c.bad = "crc" /\ ~IgnoreCrc))
    <3>1. h = k
      BY <1>3, <2>1, <2>2, <2>4 DEF HandleCompressed, Checked, k, l, p
    <3>2. ~Undecodable(hand')
      BY <1>8, <2>4 DEF Undecodable, Decoded
    <3> QED
      BY <1>1, <1>7, <3>1, <3>2
  <2> QED
    BY <2>3, <2>4
<1> QED
  BY <1>1, <1>9, <1>10

----------------------------------------------------------------------------
(* The invariant is inductive. *)

\* While no chunk is read the reference stands still.
LEMMA RefUnchanged ==
  ASSUME UNCHANGED <<stream, pos>>
  PROVE  Ref' = Ref /\ Outs' = Outs /\ (RefInv => RefInv')
  BY DEF Ref, Outs, RefInv, ReadSoFar

\* What was read is a sequence of chunks.
LEMMA ReadSoFarType ==
  ASSUME TypeOK
  PROVE  /\ ReadSoFar \in Seq(WireChunk) /\ Len(ReadSoFar) = pos /\ pos \in Nat
         /\ Len(stream) \in Nat /\ stream \in Seq(WireChunk)
         /\ \A i \in 1..pos : ReadSoFar[i] = stream[i]
PROOF
<1>1. stream \in Seq(WireChunk) /\ pos \in 0..Len(stream)
  BY StreamsAssumption DEF TypeOK, DispatcherTypeOK, Input
<1>2. Len(stream) \in Nat /\ pos \in Nat /\ pos <= Len(stream)
  BY <1>1
<1>3. \A i \in 1..pos : stream[i] \in WireChunk
  BY <1>1, <1>2
<1> QED
  BY <1>1, <1>2, <1>3, SubSeqProperties DEF ReadSoFar

\* Reading a chunk turns the reference once.
LEMMA ReadStep ==
  ASSUME TypeOK, RefInv, AtChunk, pos' = pos + 1, stream' = stream
  PROVE  /\ RefInv'
         /\ Ref' = Turn(Ref, Chunk, pos + 1)
         /\ Outs' = IF Chunk.t \in {"comp", "raw"} /\ Ref'.err = "none"
                    THEN Append(Outs, [id |-> pos + 1, len |-> Chunk.n]) ELSE Outs
PROOF
<1>1. /\ Chunk \in WireChunk /\ stream \in Seq(WireChunk) /\ pos + 1 \in 0..Len(stream)
      /\ pos + 1 \in Nat
  BY ChunkType DEF TypeOK, DispatcherTypeOK, AtChunk
<1>2. /\ ReadSoFar \in Seq(WireChunk) /\ Len(ReadSoFar) = pos /\ pos \in Nat
      /\ Len(stream) \in Nat /\ \A i \in 1..pos : ReadSoFar[i] = stream[i]
  BY ReadSoFarType
<1>3. ReadSoFar' = Append(ReadSoFar, Chunk)
  <2> DEFINE a == SubSeq(stream, 1, pos + 1)
             b == Append(ReadSoFar, Chunk)
  <2>1. /\ b \in Seq(WireChunk) /\ Len(b) = pos + 1 /\ b[pos + 1] = Chunk
        /\ \A i \in 1..pos : b[i] = ReadSoFar[i]
    BY <1>1, <1>2
  <2>2. \A i \in 1..(pos + 1) : stream[i] \in WireChunk
    BY <1>1, <1>2
  <2>3. /\ a \in Seq(WireChunk) /\ Len(a) = pos + 1
        /\ \A i \in 1..(pos + 1) : a[i] = stream[i]
    BY <1>1, <1>2, <2>2, SubSeqProperties
  <2>4. \A i \in 1..(pos + 1) : a[i] = b[i]
    <3> HIDE DEF a, b
    <3> TAKE i \in 1..(pos + 1)
    <3>1. i \in 1..pos \/ i = pos + 1
      BY <1>2
    <3> QED
      BY <1>2, <2>1, <2>3, <3>1 DEF Chunk
  <2>5. a = b
    <3> HIDE DEF a, b
    <3> QED
      BY <2>1, <2>3, <2>4, SeqEqual
  <2>6. ReadSoFar' = a
    BY DEF ReadSoFar
  <2> QED
    BY <2>5, <2>6
<1>4. /\ Readable(ReadSoFar)'
      /\ Behind(ReadSoFar') = Turn(Behind(ReadSoFar), Chunk, pos + 1)
      /\ SeqOutput(ReadSoFar') =
           IF Chunk.t \in {"comp", "raw"} /\ Behind(ReadSoFar').err = "none"
           THEN Append(SeqOutput(ReadSoFar), [id |-> pos + 1, len |-> Chunk.n])
           ELSE SeqOutput(ReadSoFar)
  BY <1>1, <1>2, <1>3, ReadMore DEF RefInv
<1>5. Turn(Ref, Chunk, pos + 1) \in ReaderState
  BY <1>1, HandleType DEF Turn, RefInv
<1>6. [id |-> pos + 1, len |-> Chunk.n] \in Item
  BY <1>1 DEF Item, WireChunk
<1> QED
  BY <1>4, <1>5, <1>6 DEF Ref, Outs, RefInv

\* The initial states satisfy the invariant.
LEMMA ReferenceInit == Init => ReferenceInv
PROOF
<1> SUFFICES ASSUME Init PROVE ReferenceInv
  OBVIOUS
<1>1. OrderInv
  BY OrderInvInit
<1>2. ReadSoFar = <<>>
  BY <1>1, ReadSoFarType, EmptySeq DEF Init, OrderInv
<1>3. Ref = Fresh /\ Outs = <<>> /\ Readable(ReadSoFar) /\ Len(<<>>) = 0
  BY <1>2, ReadNothing DEF Ref, Outs
<1>4. Fresh \in ReaderState
  BY ReaderAssumption DEF Fresh, ReaderState, NoBlock, Item, ErrorKinds
<1>5. RefInv
  BY <1>3, <1>4 DEF RefInv
<1>6. MirrorInv
  <2>1. /\ Ref.header = IgnoreStreamId /\ Ref.expectEof = FALSE /\ Ref.max = MaxBlockUser
        /\ Ref.start = 0 /\ Ref.block.len = 0
    BY <1>3 DEF Fresh, NoBlock
  <2>2. emitted = Ref.start + Ref.block.len
    BY <2>1 DEF Init
  <2>3. Len(Outs) = Dispatched
    BY <1>3 DEF Init, Dispatched
  <2> QED
    BY <2>1, <2>2, <2>3, Zenon DEF Init, MirrorInv
<1>7. AheadInv
  BY <1>3 DEF AheadInv, Fresh
<1>8. SameInv /\ WrittenInv
  BY <1>3, CountNothing DEF Init, SameInv, WrittenInv
<1>9. UndecodableInv /\ EndInv
  BY <1>3 DEF Init, UndecodableInv, EndInv, Submitting, NoJob, Left
<1> QED
  BY <1>1, <1>5, <1>6, <1>7, <1>8, <1>9 DEF ReferenceInv

\* The numbers the invariant compares.
LEMMA LengthTypes ==
  ASSUME ReferenceInv
  PROVE  /\ Len(out) \in Nat /\ Len(sent) \in Nat /\ Len(Outs) \in Nat
         /\ out \in Seq(Item) /\ sent \in Seq(Item) /\ Outs \in Seq(Item)
         /\ slot \in [Workers -> Job] /\ busy \in [Workers -> Job] /\ cur \in Workers
         /\ wst \in [Workers -> {"idle", "busy", "unwind", "gone"}] /\ hand \in Job
  BY DEF ReferenceInv, OrderInv, TypeOK, DispatcherTypeOK, ChannelTypeOK, ThreadTypeOK, RefInv

\* As long as nothing is wrong the Reader sees what the dispatcher sees.
LEMMA RefSees ==
  ASSUME ReferenceInv, pc = "loop", Ref.err = "none"
  PROVE  Sees(Ref) /\ Len(Outs) = Len(sent)
  BY DEF ReferenceInv, EndInv, MirrorInv, Sees, RefInv, Dispatched, Left

\* The steps of the workers and the writer thread leave the dispatcher alone.
LEMMA DispatcherQuiet ==
  ASSUME ReferenceInv, UNCHANGED <<stream, pos, dispVars, sent>>
  PROVE  /\ RefInv' /\ MirrorInv' /\ AheadInv' /\ SameInv' /\ EndInv'
         /\ Outs' = Outs
PROOF
<1>1. Ref' = Ref /\ Outs' = Outs /\ RefInv'
  BY RefUnchanged DEF ReferenceInv
<1>2. /\ pc' = pc /\ dres' = dres /\ hand' = hand /\ header' = header
      /\ expectEof' = expectEof /\ maxBlock' = maxBlock /\ emitted' = emitted
      /\ pos' = pos /\ stream' = stream /\ sent' = sent
  BY DEF dispVars
<1>3. MirrorInv' /\ AheadInv'
  BY <1>1, <1>2 DEF ReferenceInv, MirrorInv, AheadInv, Dispatched
<1>4. SameInv' /\ EndInv'
  BY <1>1, <1>2 DEF ReferenceInv, SameInv, EndInv, ItemOf, Left
<1> QED
  BY <1>1, <1>3, <1>4

\* The dispatcher's steps leave the sink alone.
LEMMA WriterQuiet ==
  ASSUME ReferenceInv, UNCHANGED sinkVars, Len(Outs') \in Nat, Len(Outs) <= Len(Outs')
  PROVE  WrittenInv'
  BY LengthTypes DEF ReferenceInv, WrittenInv, sinkVars, Running

\* Jobs that nobody touches stay as broken as they are.
LEMMA JobsQuiet ==
  ASSUME ReferenceInv, UNCHANGED <<slot, busy>>, results' \subseteq results, Outs' = Outs,
         pc' \notin {"order", "fill", "try", "blocked"} \/ UNCHANGED <<pc, hand, sent>>
  PROVE  UndecodableInv'
  BY DEF ReferenceInv, UndecodableInv, Submitting, Undecodable, Decoded

\* The dispatcher leaves with an error.
LEMMA LeaveKeeps ==
  ASSUME ReferenceInv, dres' # "none", pc' = "close", Outs' = Outs, sent' = sent
  PROVE  MirrorInv' /\ AheadInv' /\ SameInv' /\ EndInv'
  BY DEF ReferenceInv, MirrorInv, AheadInv, SameInv, EndInv, Left

\* Behind a chunk the dispatcher refuses the Reader has an error, and returned nothing.
LEMMA RefuseStep ==
  ASSUME ReferenceInv, DispatchRefuses
  PROVE  RefInv' /\ Ref'.err # "none" /\ Outs' = Outs
PROOF
<1>1. /\ AtChunk /\ pos' = pos + 1 /\ stream' = stream /\ Refusal # "none" /\ pc = "loop"
  BY DEF DispatchRefuses, AtChunk
<1>2. /\ RefInv' /\ Ref' = Turn(Ref, Chunk, pos + 1)
      /\ Outs' = IF Chunk.t \in {"comp", "raw"} /\ Ref'.err = "none"
                 THEN Append(Outs, [id |-> pos + 1, len |-> Chunk.n]) ELSE Outs
  BY <1>1, ReadStep DEF ReferenceInv, OrderInv
<1>3. CASE Ref.err = "none"
  BY <1>1, <1>2, <1>3, RefSees, BothRefuse DEF Turn, ReferenceInv, OrderInv
<1>4. CASE Ref.err # "none"
  BY <1>2, <1>4 DEF Turn
<1> QED
  BY <1>2, <1>3, <1>4

\* The ways out of dispatch_loop.
LEMMA LeavingKeeps ==
  ASSUME ReferenceInv, Leaving \/ Aborting
  PROVE  /\ RefInv' /\ MirrorInv' /\ AheadInv' /\ SameInv' /\ UndecodableInv' /\ WrittenInv'
         /\ EndInv'
PROOF
<1>0. /\ pc' = "close" /\ UNCHANGED <<stream, sent, slot, busy, results, sinkVars>>
  BY LeavingFrame, AbortingFrame
<1>1. CASE DispatchRefuses
  <2>1. AtChunk /\ pos' = pos + 1 /\ Refusal # "none" /\ dres' = Refusal /\ pc = "loop"
    BY <1>1 DEF DispatchRefuses, Leave, AtChunk
  <2>2. RefInv' /\ Outs' = Outs
    BY <1>1, RefuseStep
  <2> QED
    BY <1>0, <2>1, <2>2, LeaveKeeps, JobsQuiet, WriterQuiet, LengthTypes
<1>2. CASE DispatchEnd
  <2>1. /\ pc = "loop" /\ pos = Len(stream) /\ UNCHANGED <<pos, header, expectEof, maxBlock,
                                                          emitted>>
        /\ dres' = IF expectEof THEN "corrupt" ELSE "none"
    BY <1>2 DEF DispatchEnd, Leave
  <2>2. RefInv' /\ Ref' = Ref /\ Outs' = Outs
    BY <1>0, <2>1, RefUnchanged DEF ReferenceInv
  <2>3. dres = "none" /\ Dispatched' = Dispatched
    BY <1>0, <2>1 DEF ReferenceInv, EndInv, Dispatched, Left
  <2>4. MirrorInv' /\ AheadInv'
    BY <2>1, <2>2, <2>3 DEF ReferenceInv, MirrorInv, AheadInv
  <2>5. SameInv' /\ EndInv'
    BY <1>0, <2>1, <2>2 DEF ReferenceInv, SameInv, EndInv, Left
  <2> QED
    BY <1>0, <2>2, <2>4, <2>5, JobsQuiet, WriterQuiet, LengthTypes
<1>3. CASE DispatchSeesError \/ DispatchReadFails \/ Aborting
  <2>1. dres' # "none" /\ pos' = pos
    BY <1>3 DEF DispatchSeesError, DispatchReadFails, Aborting, SendOrderFails, SubmitFails,
       Leave
  <2>2. RefInv' /\ Outs' = Outs
    BY <1>0, <2>1, RefUnchanged DEF ReferenceInv
  <2> QED
    BY <1>0, <2>1, <2>2, LeaveKeeps, JobsQuiet, WriterQuiet, LengthTypes
<1> QED
  BY <1>1, <1>2, <1>3 DEF Leaving

\* Metadata is read.
LEMMA MetaKeeps ==
  ASSUME ReferenceInv, DispatchMeta
  PROVE  /\ RefInv' /\ MirrorInv' /\ AheadInv' /\ SameInv' /\ UndecodableInv' /\ WrittenInv'
         /\ EndInv'
PROOF
<1>1. /\ AtChunk /\ Refusal = "none" /\ Chunk.t \notin {"comp", "raw"} /\ pos' = pos + 1
      /\ pc = "loop" /\ UNCHANGED <<stream, pc, hand, dres, sent, slot, busy, results,
                                    sinkVars>>
  BY DEF DispatchMeta, AtChunk
<1>2. RefInv' /\ Ref' = Turn(Ref, Chunk, pos + 1) /\ Outs' = Outs
  BY <1>1, ReadStep DEF ReferenceInv, OrderInv
<1>3. dres = "none" /\ Dispatched' = Dispatched
  BY <1>1 DEF ReferenceInv, EndInv, Dispatched, Left
<1>4. MirrorInv' /\ AheadInv'
  <2>1. CASE Ref.err = "none"
    <3>1. Ref' = HandleChunk(Ref, Chunk, pos + 1)
      BY <1>2, <2>1 DEF Turn
    <3>2. /\ Ref'.err = "none" /\ header' = Ref'.header /\ expectEof' = Ref'.expectEof
          /\ maxBlock' = Ref'.max /\ emitted' = Ref'.start + Ref'.block.len
      BY <1>1, <2>1, <3>1, RefSees, BothAccept DEF ReferenceInv, OrderInv
    <3>3. Len(Outs') = Dispatched'
      BY <1>2, <1>3, <2>1 DEF ReferenceInv, MirrorInv
    <3> QED
      BY <3>2, <3>3 DEF MirrorInv, AheadInv
  <2>2. CASE Ref.err # "none"
    BY <1>2, <1>3, <2>2 DEF ReferenceInv, MirrorInv, AheadInv, Turn
  <2> QED
    BY <2>1, <2>2
<1>5. SameInv' /\ EndInv'
  BY <1>1, <1>2 DEF ReferenceInv, SameInv, EndInv, Left
<1> QED
  BY <1>1, <1>2, <1>4, <1>5, JobsQuiet, WriterQuiet, LengthTypes

\* A data chunk is read.
LEMMA DataKeeps ==
  ASSUME ReferenceInv, DispatchData
  PROVE  /\ RefInv' /\ MirrorInv' /\ AheadInv' /\ SameInv' /\ UndecodableInv' /\ WrittenInv'
         /\ EndInv'
PROOF
<1>1. /\ AtChunk /\ Refusal = "none" /\ Chunk.t \in {"comp", "raw"} /\ pos' = pos + 1
      /\ pc = "loop" /\ pc' = "order"
      /\ UNCHANGED <<stream, dres, sent, slot, busy, results, sinkVars>>
      /\ hand' = [ch |-> 0, id |-> pos + 1, len |-> Chunk.n, max |-> maxBlock,
                  bad |-> Chunk.bad, raw |-> Chunk.t = "raw"]
  BY DEF DispatchData, AtChunk
<1>2. /\ RefInv' /\ Ref' = Turn(Ref, Chunk, pos + 1)
      /\ Outs' = IF Ref'.err = "none"
                 THEN Append(Outs, [id |-> pos + 1, len |-> Chunk.n]) ELSE Outs
  BY <1>1, ReadStep DEF ReferenceInv, OrderInv
<1>3. dres = "none" /\ Dispatched' = Len(sent) + 1 /\ EndInv'
  BY <1>1 DEF ReferenceInv, EndInv, Dispatched, Left
<1>t. Len(Outs) \in Nat /\ Len(sent) \in Nat /\ Len(out) \in Nat /\ Outs \in Seq(Item)
  BY LengthTypes
<1>n. \A w \in Workers : slot[w].ch <= Len(sent) /\ busy[w].ch <= Len(sent)
  BY LengthTypes DEF ReferenceInv, OrderInv, JobInv, JobOk, NoJob
<1>r. \A r \in results : r.ch <= Len(sent)
  BY LengthTypes DEF ReferenceInv, OrderInv, JobInv, JobOk
<1>4. CASE Ref.err = "none" /\ Ref'.err = "none"
  <2>1. Sees(Ref) /\ Len(Outs) = Len(sent) /\ Ref' = HandleChunk(Ref, Chunk, pos + 1)
    BY <1>1, <1>2, <1>4, RefSees DEF Turn
  <2>2. /\ header' = Ref'.header /\ expectEof' = Ref'.expectEof
        /\ maxBlock' = Ref'.max /\ emitted' = Ref'.start + Ref'.block.len
    BY <1>4, <2>1, BothRead DEF ReferenceInv, OrderInv
  <2>3. /\ Outs' = Append(Outs, ItemOf(hand')) /\ ItemOf(hand') \in Item
    <3>1. [id |-> pos + 1, len |-> Chunk.n] \in Item
      BY <1>1, ChunkType DEF ReferenceInv, OrderInv, TypeOK, DispatcherTypeOK, AtChunk, Item,
         WireChunk
    <3> QED
      BY <1>1, <1>2, <1>4, <3>1 DEF ItemOf
  <2>4. /\ Len(Outs') = Len(sent) + 1 /\ \A i \in 1..Len(sent) : Outs'[i] = Outs[i]
        /\ Outs'[Len(sent) + 1] = ItemOf(hand')
    BY <1>t, <2>1, <2>3
  <2>5. MirrorInv' /\ AheadInv'
    BY <1>3, <1>4, <2>2, <2>4 DEF MirrorInv, AheadInv
  <2>6. SameInv'
    BY <1>1, <1>t, <2>1, <2>4 DEF ReferenceInv, SameInv, ItemOf
  <2>7. UndecodableInv'
    <3>1. \A w \in Workers : slot'[w].ch <= Len(sent) /\ busy'[w].ch <= Len(sent)
      BY <1>1, <1>n
    <3>2. \A r \in results' : r.ch <= Len(sent)
      BY <1>1, <1>r
    <3>3. \A k : k <= Len(sent) => k # Len(Outs') + 1
      BY <1>t, <2>4
    <3> QED
      BY <1>1, <1>t, <2>4, <3>1, <3>2, <3>3 DEF UndecodableInv, Submitting
  <2> QED
    BY <1>1, <1>2, <1>3, <1>t, <2>1, <2>4, <2>5, <2>6, <2>7, WriterQuiet
<1>5. CASE Ref'.err # "none"
  <2>1. Outs' = Outs
    BY <1>2, <1>5
  <2>2. Len(Outs) <= Len(sent)
    BY <1>1, <1>3, <1>t, RefSees DEF ReferenceInv, AheadInv, Dispatched
  <2>3. Len(Outs) = Len(sent) => Undecodable(hand')
    <3>1. CASE Ref.err = "none"
      BY <1>1, <1>2, <1>5, <3>1, RefSees, BothRead DEF Turn, ReferenceInv, OrderInv
    <3>2. CASE Ref.err # "none"
      BY <1>1, <1>3, <1>t, <3>2 DEF ReferenceInv, AheadInv, Dispatched
    <3> QED
      BY <3>1, <3>2
  <2>4. MirrorInv' /\ AheadInv'
    BY <1>3, <1>5, <1>t, <2>1, <2>2 DEF MirrorInv, AheadInv
  <2>5. SameInv'
    BY <1>1, <1>t, <2>1, <2>2 DEF ReferenceInv, SameInv
  <2>6. UndecodableInv'
    <3>1. \A w \in Workers : /\ slot[w].ch = Len(Outs) + 1 => Undecodable(slot[w])
                             /\ busy[w].ch = Len(Outs) + 1 => Undecodable(busy[w])
      BY DEF ReferenceInv, UndecodableInv
    <3>2. \A r \in results : r.ch = Len(Outs) + 1 => r.e # "none"
      BY DEF ReferenceInv, UndecodableInv
    <3> QED
      BY <1>1, <2>1, <2>3, <3>1, <3>2 DEF UndecodableInv, Submitting, Undecodable, Decoded
  <2> QED
    BY <1>1, <1>2, <1>3, <1>t, <2>1, <2>4, <2>5, <2>6, WriterQuiet
<1>6. Ref.err # "none" => Ref'.err # "none"
  BY <1>2 DEF Turn
<1> QED
  BY <1>4, <1>5, <1>6

\* A slot goes through the order queue.
LEMMA SlotKeeps ==
  ASSUME ReferenceInv, SendOrder
  PROVE  /\ RefInv' /\ MirrorInv' /\ AheadInv' /\ SameInv' /\ UndecodableInv' /\ WrittenInv'
         /\ EndInv'
PROOF
<1>1. /\ pc = "order" /\ pc' \in {"fill", "try"}
      /\ UNCHANGED <<stream, pos, dres, header, expectEof, maxBlock, emitted, slot, busy,
                     results, sinkVars>>
  BY DEF SendOrder
<1>2. RefInv' /\ Ref' = Ref /\ Outs' = Outs
  BY <1>1, RefUnchanged DEF ReferenceInv
<1>t. Len(Outs) \in Nat /\ Len(sent) \in Nat /\ Len(out) \in Nat /\ Outs \in Seq(Item)
  BY LengthTypes
<1>3. /\ Len(sent') = Len(sent) + 1 /\ \A i \in 1..Len(sent) : sent'[i] = sent[i]
      /\ sent'[Len(sent) + 1] = ItemOf(hand)
      /\ hand'.ch = Len(sent) + 1 /\ hand'.raw = hand.raw /\ hand'.bad = hand.bad
      /\ hand'.max = hand.max /\ hand'.len = hand.len
  BY SendOrderFrame, LengthTypes DEF ReferenceInv, ItemOf
<1>4. Dispatched' = Dispatched
  BY <1>1, <1>3 DEF Dispatched
<1>5. MirrorInv' /\ AheadInv'
  BY <1>1, <1>2, <1>4 DEF ReferenceInv, MirrorInv, AheadInv
<1>6. EndInv'
  BY <1>1 DEF ReferenceInv, EndInv, Left
<1>7. SameInv'
  <2>1. ASSUME NEW i \in 1..Len(Outs), i <= Len(sent')
        PROVE  Outs[i] = sent'[i]
    <3>1. i \in 1..Len(sent) \/ (i = Len(sent) + 1 /\ Len(Outs) > Len(sent))
      BY <1>3, <1>t, <2>1
    <3> QED
      BY <1>1, <1>3, <1>t, <3>1 DEF ReferenceInv, SameInv
  <2> QED
    BY <1>1, <1>2, <2>1 DEF SameInv
<1>8. UndecodableInv'
  <2>1. hand'.ch = Len(Outs) + 1 => Undecodable(hand')
    <3>1. hand'.ch = Len(Outs) + 1 => Len(Outs) = Len(sent)
      BY <1>3, <1>t
    <3>2. Undecodable(hand) => Undecodable(hand')
      BY <1>3 DEF Undecodable, Decoded
    <3> QED
      BY <1>1, <3>1, <3>2 DEF ReferenceInv, UndecodableInv
  <2> QED
    BY <1>1, <1>2, <2>1 DEF ReferenceInv, UndecodableInv, Submitting, Undecodable, Decoded
<1> QED
  BY <1>1, <1>2, <1>5, <1>6, <1>7, <1>8, <1>t, WriterQuiet

\* The block in hand goes to a worker or to its result channel.
LEMMA HandedKeeps ==
  ASSUME ReferenceInv, Fill \/ SubmitJob
  PROVE  /\ RefInv' /\ MirrorInv' /\ AheadInv' /\ SameInv' /\ UndecodableInv' /\ WrittenInv'
         /\ EndInv'
PROOF
<1>1. /\ pc = "fill" \/ Submitting
      /\ pc' = "loop" /\ hand' = NoJob
      /\ UNCHANGED <<stream, pos, dres, header, expectEof, maxBlock, emitted, sent, busy,
                     sinkVars>>
  BY DEF Fill, SubmitJob, Submitting
<1>2. RefInv' /\ Ref' = Ref /\ Outs' = Outs
  BY <1>1, RefUnchanged DEF ReferenceInv
<1>3. Dispatched' = Dispatched /\ dres = "none"
  BY <1>1 DEF Dispatched, Submitting, ReferenceInv, EndInv, Left
<1>4. MirrorInv' /\ AheadInv'
  BY <1>1, <1>2, <1>3 DEF ReferenceInv, MirrorInv, AheadInv
<1>5. SameInv' /\ EndInv'
  BY <1>1, <1>2, <1>3 DEF ReferenceInv, SameInv, EndInv, Left
<1>6. UndecodableInv'
  <2>1. hand.ch = Len(Outs) + 1 => Undecodable(hand)
    BY <1>1 DEF ReferenceInv, UndecodableInv
  <2>2. ASSUME NEW w \in Workers
        PROVE  /\ slot'[w].ch = Len(Outs) + 1 => Undecodable(slot'[w])
               /\ busy'[w].ch = Len(Outs) + 1 => Undecodable(busy'[w])
    <3>1. slot'[w] = slot[w] \/ slot'[w] = hand
      BY LengthTypes DEF Fill, SubmitJob
    <3> QED
      BY <1>1, <2>1, <3>1 DEF ReferenceInv, UndecodableInv
  <2>3. ASSUME NEW r \in results', r.ch = Len(Outs) + 1
        PROVE  r.e # "none"
    <3>1. CASE r \in results
      BY <2>3, <3>1 DEF ReferenceInv, UndecodableInv
    <3>2. CASE r \notin results
      <4>1. Fill /\ r.ch = hand.ch
        BY <3>2 DEF Fill, SubmitJob, Answer
      <4>2. hand.raw
        BY <4>1 DEF Fill, ReferenceInv, OrderInv, HandInv
      <4> QED
        BY <2>1, <2>3, <4>1, <4>2 DEF Undecodable
    <3> QED
      BY <3>1, <3>2
  <2> QED
    BY <1>1, <1>2, <2>2, <2>3 DEF UndecodableInv, Submitting, Undecodable, Decoded
<1> QED
  BY <1>1, <1>2, <1>4, <1>5, <1>6, LengthTypes, WriterQuiet

\* The dispatcher waits, closes its channels or returns.
LEMMA WaitingKeeps ==
  ASSUME ReferenceInv, SubmitFull \/ CloseChannels \/ Join
  PROVE  /\ RefInv' /\ MirrorInv' /\ AheadInv' /\ SameInv' /\ UndecodableInv' /\ WrittenInv'
         /\ EndInv'
PROOF
<1>1. /\ UNCHANGED <<stream, pos, hand, dres, header, expectEof, maxBlock, emitted, sent,
                     slot, busy, results, sinkVars>>
      /\ \/ Submitting /\ pc' \in {"try", "blocked"}
         \/ Left /\ pc' \in {"join", "ended"}
  BY DEF SubmitFull, CloseChannels, Join, Submitting, Left
<1>2. RefInv' /\ Ref' = Ref /\ Outs' = Outs
  BY <1>1, RefUnchanged DEF ReferenceInv
<1>3. Dispatched' = Dispatched
  BY <1>1 DEF Dispatched, Submitting, Left
<1>4. MirrorInv' /\ AheadInv'
  BY <1>1, <1>2, <1>3 DEF ReferenceInv, MirrorInv, AheadInv
<1>5. SameInv' /\ EndInv'
  BY <1>1, <1>2 DEF ReferenceInv, SameInv, EndInv, Left, Submitting
<1>6. UndecodableInv'
  <2>1. pc' = "fill" \/ pc' \in {"try", "blocked"} => pc = "fill" \/ Submitting
    BY <1>1 DEF Left, Submitting
  <2> QED
    BY <1>1, <1>2, <2>1 DEF ReferenceInv, UndecodableInv, Submitting, Undecodable, Decoded
<1> QED
  BY <1>1, <1>2, <1>4, <1>5, <1>6, LengthTypes, WriterQuiet

\* A worker's step moves a job, answers for it or drops it.
LEMMA WorkersKeep ==
  ASSUME ReferenceInv, NEW w \in Workers, WorkerTake(w) \/ WorkerFinish(w) \/ WorkerStops(w)
  PROVE  /\ RefInv' /\ MirrorInv' /\ AheadInv' /\ SameInv' /\ UndecodableInv' /\ WrittenInv'
         /\ EndInv'
PROOF
<1>1. UNCHANGED <<stream, pos, dispVars, sent, sinkVars>>
  BY DEF WorkerTake, WorkerFinish, WorkerStops, WorkerPanic, WorkerUnwound, WorkerExit
<1>2. /\ RefInv' /\ MirrorInv' /\ AheadInv' /\ SameInv' /\ EndInv' /\ Outs' = Outs
  BY <1>1, DispatcherQuiet
<1>3. WrittenInv'
  BY <1>1, <1>2, LengthTypes, WriterQuiet
<1>4. UndecodableInv'
  <2>1. NoJob.ch # Len(Outs) + 1
    BY LengthTypes DEF NoJob
  <2>2. ASSUME NEW v \in Workers
        PROVE  /\ slot'[v].ch = Len(Outs) + 1 => Undecodable(slot'[v])
               /\ busy'[v].ch = Len(Outs) + 1 => Undecodable(busy'[v])
    <3>1. /\ slot'[v] = slot[v] \/ slot'[v] = NoJob
          /\ busy'[v] = busy[v] \/ busy'[v] = NoJob \/ busy'[v] = slot[v]
      BY LengthTypes DEF WorkerTake, WorkerFinish, WorkerStops, WorkerPanic, WorkerUnwound,
         WorkerExit
    <3> QED
      BY <2>1, <3>1 DEF ReferenceInv, UndecodableInv
  <2>3. ASSUME NEW r \in results', r.ch = Len(Outs) + 1
        PROVE  r.e # "none"
    <3>1. CASE r \in results
      BY <2>3, <3>1 DEF ReferenceInv, UndecodableInv
    <3>2. CASE r \notin results
      <4>1. r.ch = busy[w].ch /\ r.e = Decoded(busy[w])
        BY <3>2 DEF WorkerTake, WorkerFinish, WorkerStops, WorkerPanic, WorkerUnwound,
           WorkerExit, Answer
      <4> QED
        BY <2>3, <4>1 DEF ReferenceInv, UndecodableInv, Undecodable
    <3> QED
      BY <3>1, <3>2
  <2>4. pc' = pc /\ hand' = hand /\ sent' = sent
    BY <1>1 DEF dispVars
  <2> QED
    BY <1>2, <2>2, <2>3, <2>4 DEF ReferenceInv, UndecodableInv, Submitting, Undecodable, Decoded
<1> QED
  BY <1>2, <1>3, <1>4

\* The writer thread delivers a block the Reader returns.
LEMMA DeliverKeeps ==
  ASSUME ReferenceInv, NEW r \in results, WriteBlock(r)
  PROVE  WrittenInv'
PROOF
<1>1. /\ Answers(r) /\ r.e = "none" /\ written' = written + r.len /\ wr' = "recv"
      /\ wr = "have" /\ UNCHANGED <<stream, pos, fin>>
      /\ out' = Append(out, ItemOf(r))
  BY DEF WriteBlock, Answers, ItemOf
<1>2. r.ch = Len(out) + 1 /\ Len(out') = Len(out) + 1 /\ Len(out) \in Nat
  BY <1>1, ResultIsNext, WriteBlockKeeps DEF ReferenceInv
<1>3. Outs' = Outs /\ Len(Outs) \in Nat /\ out \in Seq(Item)
  BY <1>1, RefUnchanged, LengthTypes
<1>4. Len(out) # Len(Outs)
  BY <1>1, <1>2 DEF ReferenceInv, UndecodableInv
<1>5. Len(out') <= Len(Outs')
  BY <1>2, <1>3, <1>4 DEF ReferenceInv, WrittenInv
<1>6. ItemOf(r) \in Item /\ ItemOf(r).len = r.len
  BY DEF ItemOf, Item, ReferenceInv, OrderInv, TypeOK, ChannelTypeOK, Output
<1>7. Countable(out') /\ Bytes(out') = Bytes(out) + r.len
  BY <1>1, <1>3, <1>6, CountMore DEF ReferenceInv, WrittenInv
<1>8. written = Bytes(out)
  BY <1>1 DEF ReferenceInv, WrittenInv, Running
<1> QED
  BY <1>1, <1>5, <1>7, <1>8 DEF WrittenInv

\* The writer thread's steps.
LEMMA WriterKeeps ==
  ASSUME ReferenceInv,
         \/ Stopping \/ WriterTake \/ (\E r \in results : WriteBlock(r))
         \/ WriterEnd /\ wr' = "gone"
  PROVE  /\ RefInv' /\ MirrorInv' /\ AheadInv' /\ SameInv' /\ UndecodableInv' /\ WrittenInv'
         /\ EndInv'
PROOF
<1>1. UNCHANGED <<stream, pos, dispVars, sent, slot, busy>> /\ results' \subseteq results
  BY StoppingFrame DEF ReferenceInv, OrderInv, WriterTake, WriteBlock, WriterEnd
<1>2. /\ RefInv' /\ MirrorInv' /\ AheadInv' /\ SameInv' /\ EndInv' /\ Outs' = Outs
  BY <1>1, DispatcherQuiet
<1>3. UndecodableInv'
  BY <1>1, <1>2, JobsQuiet DEF dispVars
<1>4. CASE Stopping
  <2>1. /\ wr # "gone" /\ wr' \in {"failing", "gone"} /\ out' = out
        /\ fin' \in {fin} \cup ErrorKinds
    BY <1>4, StoppingFrame DEF ReferenceInv, OrderInv
  <2>2. fin' # "ok"
    BY <2>1 DEF ReferenceInv, OrderInv, CloseInv, ErrorKinds
  <2> QED
    BY <1>2, <1>3, <2>1, <2>2 DEF ReferenceInv, WrittenInv, Running
<1>5. CASE WriterTake
  BY <1>2, <1>3, <1>5 DEF WriterTake, ReferenceInv, WrittenInv, Running
<1>6. CASE WriterEnd /\ wr' = "gone"
  BY <1>2, <1>3, <1>6 DEF WriterEnd, ReferenceInv, WrittenInv, Running
<1>7. CASE \E r \in results : WriteBlock(r)
  BY <1>2, <1>3, <1>7, DeliverKeeps
<1> QED
  BY <1>4, <1>5, <1>6, <1>7

\* Every action preserves the invariant.
LEMMA ReferenceStep == ReferenceInv /\ [Next]_vars => ReferenceInv'
PROOF
<1> SUFFICES ASSUME ReferenceInv, [Next]_vars
             PROVE  ReferenceInv'
  OBVIOUS
<1>1. OrderInv'
  BY OrderInvStep DEF ReferenceInv
<1>2. CASE UNCHANGED vars
  <2>1. UNCHANGED <<stream, pos, dispVars, sent, slot, busy, results, sinkVars, pc, hand>>
    BY <1>2 DEF vars, dispVars
  <2>2. RefInv' /\ MirrorInv' /\ AheadInv' /\ SameInv' /\ EndInv' /\ Outs' = Outs
    BY <2>1, DispatcherQuiet
  <2> QED
    BY <1>1, <2>1, <2>2, JobsQuiet, WriterQuiet, LengthTypes DEF ReferenceInv
<1> QED
  BY <1>1, <1>2, LeavingKeeps, MetaKeeps, DataKeeps, SlotKeeps, HandedKeeps, WaitingKeeps,
     WorkersKeep, WriterKeeps, NextCases DEF ReferenceInv

----------------------------------------------------------------------------
(* What it is for. *)

\* The sink holds what the Reader returned.
LEMMA SinkIsReaders ==
  ASSUME ReferenceInv
  PROVE  /\ Len(out) <= Len(Outs) /\ \A i \in 1..Len(out) : out[i] = Outs[i]
PROOF
<1>1. Len(out) <= Len(Outs) /\ Len(out) <= Len(sent)
  BY DEF ReferenceInv, OrderInv, WrittenInv, InOrder, IsPrefixOf
<1>2. ASSUME NEW i \in 1..Len(out) PROVE out[i] = Outs[i]
  <2>1. i \in 1..Len(Outs) /\ i <= Len(sent)
    BY <1>1, LengthTypes
  <2> QED
    BY <2>1 DEF ReferenceInv, OrderInv, InOrder, IsPrefixOf, SameInv
<1> QED
  BY <1>1, <1>2

\* Whatever the workers' speeds, the faults and the read-ahead, the sink never holds
\* anything a single-threaded Reader would not have returned from the chunks read.
THEOREM SinkHoldsWhatTheReaderReturns == Spec => []SinkPrefix
PROOF
<1>1. ReferenceInv => SinkPrefix
  BY SinkIsReaders DEF SinkPrefix, IsPrefixOf, Outs
<1> QED
  BY <1>1, ReferenceInit, ReferenceStep, PTL DEF Spec

\* A successful concurrent decode is the single-threaded decode of the whole stream,
\* and the byte count it returns is that of the blocks in the sink.
THEOREM SuccessMatchesTheReader == Spec => []MatchesSequential
PROOF
<1>1. ASSUME ReferenceInv, ret = "ok"
      PROVE  /\ SeqResult(stream) = "none" /\ out = SeqOutput(stream)
             /\ written = Bytes(out)
  <2>1. fin = "ok" /\ dres = "none" /\ pc = "ended" /\ out = sent
    BY <1>1 DEF ReferenceInv, OrderInv, CloseInv
  <2>2. pos = Len(stream) /\ ~expectEof
    BY <1>1, <2>1 DEF ReferenceInv, EndInv, Left
  <2>3. ReadSoFar = stream
    <3>1. /\ ReadSoFar \in Seq(WireChunk) /\ Len(ReadSoFar) = Len(stream)
          /\ stream \in Seq(WireChunk)
          /\ \A i \in 1..Len(stream) : ReadSoFar[i] = stream[i]
      BY <1>1, <2>2, ReadSoFarType DEF ReferenceInv, OrderInv
    <3> QED
      BY <3>1, SeqEqual
  <2>4. Ref.err = "none" /\ Len(Outs) = Len(out)
    <3>1. Dispatched = Len(out)
      BY <2>1 DEF Dispatched
    <3>2. Len(out) <= Len(Outs)
      BY <1>1, SinkIsReaders
    <3>3. Ref.err = "none"
      BY <1>1, <2>1, <3>1, <3>2, LengthTypes DEF ReferenceInv, AheadInv
    <3> QED
      BY <1>1, <2>1, <3>1, <3>3 DEF ReferenceInv, MirrorInv
  <2>5. out = Outs
    BY <1>1, <2>4, SinkIsReaders, LengthTypes, SeqEqual
  <2>6. AtEnd(Ref) = Ref
    BY <1>1, <2>1, <2>2, <2>4 DEF AtEnd, ReferenceInv, MirrorInv
  <2>7. SeqResult(stream) = "none"
    BY <2>3, <2>4, <2>6 DEF SeqResult, Ref, Behind
  <2>8. written = Bytes(out)
    BY <1>1, <2>1 DEF ReferenceInv, WrittenInv
  <2> QED
    BY <2>3, <2>5, <2>7, <2>8 DEF Outs
<1>2. ReferenceInv => MatchesSequential
  BY <1>1 DEF MatchesSequential
<1> QED
  BY <1>2, ReferenceInit, ReferenceStep, PTL DEF Spec

----------------------------------------------------------------------------
(* The threads and the buffers of MtReader: NoSpuriousError and               *)
(* BuffersBounded as theorems.                                               *)

----------------------------------------------------------------------------
(* Errors.  Without faults threads end only when they are told to, and every *)
(* block that was dispatched and is not in the sink has someone to answer    *)
(* for it: the only way to an error is a chunk the Reader refuses too.       *)

NoFaults == stream \notin Flaky

\* The Reader has met an error by the end of what was read.
Refused == Ref.err # "none" \/ (pos = Len(stream) /\ Ref.expectEof)

\* A worker has a job exactly while it decodes, and the block in hand has no channel
\* before its slot is sent.
IdleInv == /\ \A w \in Workers : wst[w] # "busy" => busy[w] = NoJob
           /\ pc = "order" => hand.ch = 0

\* Each block the writer thread has still to write can be answered for.
AnswerInv == Running => \A c \in (Len(out) + 1)..Len(sent) : Answerable(c)

\* The threads end only when they are told to, or with an error on record.
ThreadInv == /\ wr \in {"failing", "gone"} => err # "none" \/ fin = "ok"
             /\ \A w \in Workers : wst[w] # "unwind"
             /\ \A w \in Workers : wst[w] = "gone" => ~submitOpen
             /\ ~submitOpen => pc \in {"join", "ended"}

\* While the Reader has met no error there is no broken block in the pipeline.
CleanInv == Ref.err = "none" =>
              /\ pc = "order" \/ Submitting => ~Undecodable(hand)
              /\ \A w \in Workers : ~Undecodable(slot[w]) /\ ~Undecodable(busy[w])
              /\ \A r \in results : r.e = "none"

\* An error is one of the Reader's, and nothing else fails the call.
BlameInv == /\ err # "none" \/ dres # "none" => Refused
            /\ pc = "ended" /\ ret # "ok" => dres # "none" \/ err # "none"

CauseInv == /\ ReferenceInv /\ IdleInv
            /\ NoFaults => ThreadInv /\ AnswerInv /\ CleanInv /\ BlameInv

\* The stream being decoded does not change.
LEMMA StreamFixed == ASSUME ReferenceInv, [Next]_vars PROVE stream' = stream
PROOF
<1>1. CASE \/ DispatchMeta \/ DispatchData \/ SendOrder \/ Fill \/ SubmitJob \/ SubmitFull
           \/ CloseChannels \/ Join
  BY <1>1 DEF DispatchMeta, DispatchData, SendOrder, Fill, SubmitJob, SubmitFull,
     CloseChannels, Join
<1>2. CASE \E w \in Workers : WorkerTake(w) \/ WorkerFinish(w) \/ WorkerStops(w)
  BY <1>2 DEF WorkerTake, WorkerFinish, WorkerStops, WorkerPanic, WorkerUnwound, WorkerExit
<1>3. CASE WriterTake \/ WriterEnd \/ (\E r \in results : WriteBlock(r)) \/ UNCHANGED vars
  BY <1>3 DEF WriterTake, WriterEnd, WriteBlock, vars
<1> QED
  BY <1>1, <1>2, <1>3, NextCases, LeavingFrame, AbortingFrame, StoppingFrame
  DEF ReferenceInv, OrderInv

\* What a worker's step leaves alone.
LEMMA WorkerFrame ==
  ASSUME NEW w \in Workers, WorkerTake(w) \/ WorkerFinish(w) \/ WorkerStops(w)
  PROVE  UNCHANGED <<stream, pos, dispVars, sent, order, orderOpen, submitOpen, err,
                     sinkVars, ret>>
  BY DEF WorkerTake, WorkerFinish, WorkerStops, WorkerPanic, WorkerUnwound, WorkerExit

\* On an input without faults nothing fails by itself.
LEMMA NoFaultSteps ==
  ASSUME NoFaults
  PROVE  /\ ~DispatchReadFails /\ ~WriterPanic
         /\ \A w \in Workers : ~WorkerPanic(w)
         /\ \A r \in results : ~WriteFails(r)
         /\ ~(WriterEnd /\ wr' = "failing")
  BY DEF NoFaults, MayFail, DispatchReadFails, WriterPanic, WorkerPanic, WriteFails, WriterEnd

\* An error the Reader has met stays.
LEMMA RefusedStays ==
  ASSUME ReferenceInv, [Next]_vars
  PROVE  /\ Refused => Refused'
         /\ Ref.err # "none" => Ref'.err # "none"
PROOF
<1>1. CASE UNCHANGED <<stream, pos>>
  BY <1>1, RefUnchanged DEF Refused
<1>2. CASE AtChunk /\ pos' = pos + 1 /\ stream' = stream
  <2>1. Ref' = Turn(Ref, Chunk, pos + 1)
    BY <1>2, ReadStep DEF ReferenceInv, OrderInv
  <2>2. Ref.err # "none" => Ref'.err # "none"
    BY <2>1 DEF Turn
  <2>3. pos # Len(stream)
    BY <1>2, ReadSoFarType DEF AtChunk, ReferenceInv, OrderInv
  <2> QED
    BY <2>2, <2>3 DEF Refused
<1>3. CASE \/ SendOrder \/ Fill \/ SubmitJob \/ SubmitFull \/ CloseChannels \/ Join
  BY <1>1, <1>3 DEF SendOrder, Fill, SubmitJob, SubmitFull, CloseChannels, Join
<1>4. CASE DispatchMeta \/ DispatchData
  BY <1>2, <1>4 DEF DispatchMeta, DispatchData
<1>5. CASE Leaving
  BY <1>1, <1>2, <1>5 DEF Leaving, DispatchSeesError, DispatchEnd, DispatchRefuses,
     DispatchReadFails
<1>6. CASE WriterTake \/ WriterEnd \/ (\E r \in results : WriteBlock(r)) \/ UNCHANGED vars
  BY <1>1, <1>6 DEF WriterTake, WriterEnd, WriteBlock, vars
<1> QED
  BY <1>1, <1>3, <1>4, <1>5, <1>6, NextCases, AbortingFrame, StoppingFrame, WorkerFrame
  DEF ReferenceInv, OrderInv

\* A worker that stops decoding has put its job down.
LEMMA IdleInvStep ==
  ASSUME CauseInv, [Next]_vars
  PROVE  IdleInv'
PROOF
<1> USE DEF CauseInv, IdleInv
<1>t. busy \in [Workers -> Job] /\ wst \in [Workers -> {"idle", "busy", "unwind", "gone"}]
  BY LengthTypes
<1>1. CASE UNCHANGED <<wst, busy>> /\ (pc' # "order" \/ UNCHANGED <<pc, hand>>)
  BY <1>1
<1>2. ASSUME NEW w \in Workers, WorkerTake(w) \/ WorkerFinish(w) \/ WorkerStops(w)
      PROVE  IdleInv'
  <2>1. pc' = pc /\ hand' = hand
    BY <1>2, WorkerFrame DEF dispVars
  <2> QED
    BY <1>2, <1>t, <2>1
    DEF WorkerTake, WorkerFinish, WorkerStops, WorkerPanic, WorkerUnwound, WorkerExit
<1>3. CASE SendOrder \/ Fill \/ SubmitJob \/ SubmitFull \/ CloseChannels \/ Join \/ DispatchMeta
  BY <1>1, <1>3 DEF SendOrder, Fill, SubmitJob, SubmitFull, CloseChannels, Join, DispatchMeta
<1>4. CASE DispatchData
  BY <1>4 DEF DispatchData
<1>5. CASE WriterTake \/ WriterEnd \/ (\E r \in results : WriteBlock(r)) \/ UNCHANGED vars
  BY <1>1, <1>5 DEF WriterTake, WriterEnd, WriteBlock, vars, dispVars
<1>6. CASE Stopping
  BY <1>1, <1>6, StoppingFrame DEF dispVars, ReferenceInv, OrderInv
<1> QED
  BY <1>1, <1>2, <1>3, <1>4, <1>5, <1>6, NextCases, LeavingFrame, AbortingFrame

\* Without faults no worker is found gone while a block is in hand, and the writer
\* thread is found gone only with its error recorded.
LEMMA NeverGone ==
  ASSUME CauseInv, NoFaults
  PROVE  /\ ~SubmitFails
         /\ SendOrderFails => err # "none"
PROOF
<1>1. cur \in Workers
  BY LengthTypes DEF CauseInv
<1>2. ~SubmitFails
  BY <1>1 DEF CauseInv, ThreadInv, SubmitFails
<1>3. ASSUME SendOrderFails
      PROVE  err # "none"
  <2>1. wr = "gone" /\ pc = "order"
    BY <1>3 DEF SendOrderFails
  <2>2. fin # "ok"
    BY <2>1 DEF CauseInv, ReferenceInv, OrderInv, CloseInv
  <2> QED
    BY <2>1, <2>2 DEF CauseInv, ThreadInv
<1> QED
  BY <1>2, <1>3

\* Without faults the writer thread never waits on a channel without a sender.
LEMMA NeverLost == CauseInv /\ NoFaults => ~WorkerLost
PROOF
<1> SUFFICES ASSUME CauseInv, NoFaults, WorkerLost
             PROVE  FALSE
  OBVIOUS
<1>1. wr = "have" /\ ~Answerable(held) /\ Running
  BY DEF WorkerLost, Running
<1>2. /\ held = Len(out) + 1 /\ Len(sent) = Len(out) + 1 + Len(order)
  BY <1>1 DEF CauseInv, ReferenceInv, OrderInv, QueueInv, Taken
<1>3. Len(out) \in Nat /\ Len(sent) \in Nat /\ Len(order) \in Nat
  BY LengthTypes DEF CauseInv, ReferenceInv, OrderInv, TypeOK, ChannelTypeOK
<1>4. held \in (Len(out) + 1)..Len(sent)
  BY <1>2, <1>3
<1> QED
  BY <1>1, <1>4 DEF CauseInv, AnswerInv

\* Without faults the writer thread stops on a broken block only, or once it has.
LEMMA StoppingQuietly ==
  ASSUME CauseInv, NoFaults, Stopping
  PROVE  /\ WriterExit \/ \E r \in results : WriteDecodeError(r)
         /\ err' # "none" \/ fin' = "ok"
         /\ err' # "none" => err # "none" \/ Ref.err # "none"
PROOF
<1>1. WriterExit \/ \E r \in results : WriteDecodeError(r)
  BY NeverLost, NoFaultSteps DEF Stopping
<1>2. CASE WriterExit
  BY <1>1, <1>2 DEF WriterExit, CauseInv, ThreadInv
<1>3. ASSUME NEW r \in results, WriteDecodeError(r)
      PROVE  err' # "none" /\ Ref.err # "none"
  BY <1>3 DEF WriteDecodeError, Record, CauseInv, CleanInv
<1> QED
  BY <1>1, <1>2, <1>3

\* The threads end only when they are told to.
LEMMA ThreadInvStep ==
  ASSUME CauseInv, NoFaults, [Next]_vars
  PROVE  ThreadInv'
PROOF
<1> USE DEF CauseInv, ThreadInv
<1>t. wst \in [Workers -> {"idle", "busy", "unwind", "gone"}]
  BY LengthTypes
<1>1. CASE /\ UNCHANGED <<wr, err, fin, wst, submitOpen>>
           /\ pc \in {"join", "ended"} => pc' \in {"join", "ended"}
  BY <1>1
<1>2. CASE Leaving
  BY <1>1, <1>2, LeavingFrame DEF sinkVars
<1>3. CASE Aborting
  BY <1>1, <1>3, AbortingFrame DEF sinkVars, Submitting
<1>4. CASE \/ SendOrder \/ Fill \/ SubmitJob \/ SubmitFull \/ Join \/ DispatchMeta
           \/ DispatchData
  BY <1>1, <1>4 DEF SendOrder, Fill, SubmitJob, SubmitFull, Join, DispatchMeta, DispatchData,
     AtChunk, sinkVars
<1>5. CASE CloseChannels
  BY <1>5 DEF CloseChannels, sinkVars
<1>6. ASSUME NEW w \in Workers, WorkerTake(w) \/ WorkerFinish(w) \/ WorkerStops(w)
      PROVE  ThreadInv'
  <2>1. UNCHANGED <<wr, err, fin, submitOpen, pc>>
    BY <1>6, WorkerFrame DEF dispVars, sinkVars
  <2>2. \A v \in Workers : /\ wst'[v] # "unwind"
                           /\ wst'[v] = "gone" => wst[v] = "gone" \/ ~submitOpen
    BY <1>6, <1>t, NoFaultSteps
    DEF WorkerTake, WorkerFinish, WorkerStops, WorkerUnwound, WorkerExit
  <2> QED
    BY <2>1, <2>2
<1>7. CASE WriterTake \/ (\E r \in results : WriteBlock(r)) \/ (WriterEnd /\ wr' = "gone")
  <2>1. UNCHANGED <<wst, submitOpen, pc>>
    BY <1>7 DEF WriterTake, WriteBlock, WriterEnd, dispVars
  <2>2. wr' \in {"recv", "have"} \/ fin' = "ok"
    BY <1>7 DEF WriterTake, WriteBlock, WriterEnd, Record
  <2> QED
    BY <2>1, <2>2
<1>8. CASE Stopping
  <2>1. UNCHANGED <<wst, submitOpen, pc>>
    BY <1>8, StoppingFrame DEF dispVars, ReferenceInv, OrderInv
  <2> QED
    BY <1>8, <2>1, StoppingQuietly
<1>9. CASE UNCHANGED vars
  BY <1>1, <1>9 DEF vars, dispVars, sinkVars
<1> QED
  BY <1>2, <1>3, <1>4, <1>5, <1>6, <1>7, <1>8, <1>9, NextCases

\* A block the writer thread has still to write has its receiver.
LEMMA OwedListens ==
  ASSUME OrderInv, Running, NEW c \in (Len(out) + 1)..Len(sent)
  PROVE  Listening(c)
PROOF
<1>t. Len(out) \in Nat /\ Len(sent) \in Nat /\ Len(order) \in Nat
  BY DEF OrderInv, TypeOK, ChannelTypeOK, ThreadTypeOK
<1>1. CASE c <= Taken
  <2>1. wr = "have" /\ c = Len(out) + 1
    BY <1>1, <1>t DEF Taken
  <2>2. held = c
    BY <2>1 DEF OrderInv, QueueInv
  <2> QED
    BY <2>1, <2>2 DEF Listening
<1>2. CASE c > Taken
  <2>1. Taken \in Nat /\ Len(sent) = Taken + Len(order)
    BY <1>t DEF OrderInv, QueueInv, Taken
  <2>2. c - Taken \in 1..Len(order) /\ Taken + (c - Taken) = c
    BY <1>2, <2>1, <1>t
  <2>3. order[c - Taken] = c
    BY <2>2 DEF OrderInv, QueueInv
  <2>4. wr # "gone"
    BY DEF Running
  <2> QED
    BY <2>2, <2>3, <2>4 DEF Listening
<1> QED
  BY <1>1, <1>2, <1>t DEF Taken

\* Answering for job j leaves a result under its number.
LEMMA AnswerAdds ==
  ASSUME NEW j, NEW e, NEW c, j.ch = c, Listening(c)
  PROVE  \E r \in Answer(j, e) : r.ch = c
PROOF
<1> DEFINE x == [ch |-> j.ch, id |-> j.id, len |-> j.len, e |-> e]
<1>1. x.ch = j.ch
  OBVIOUS
<1>2. x \in Answer(j, e)
  BY DEF Answer
<1> QED
  BY <1>1, <1>2

\* No step leaves a block that is still to be written without someone to answer.
LEMMA AnswerInvStep ==
  ASSUME CauseInv, NoFaults, [Next]_vars
  PROVE  AnswerInv'
PROOF
<1> USE DEF CauseInv
<1>t. /\ sent \in Seq(Item) /\ out \in Seq(Item) /\ Len(sent) \in Nat /\ Len(out) \in Nat
      /\ cur \in Workers /\ slot \in [Workers -> Job] /\ busy \in [Workers -> Job]
      /\ wst \in [Workers -> {"idle", "busy", "unwind", "gone"}] /\ NoJob.ch = 0
  BY LengthTypes DEF NoJob
<1>0. OrderInv
  BY DEF ReferenceInv
<1>1. CASE UNCHANGED <<sent, out, hand, slot, busy, results>> /\ (Running' => Running)
  BY <1>1 DEF AnswerInv, Answerable
<1>2. CASE Aborting
  <2>1. SendOrderFails
    BY <1>2, NeverGone DEF Aborting
  <2> QED
    BY <2>1 DEF SendOrderFails, AnswerInv, Running, sinkVars
<1>3. CASE DispatchData
  <2>1. /\ hand = NoJob /\ UNCHANGED <<sent, out, slot, busy, results, wr>>
    BY <1>3 DEF DispatchData, AtChunk, ReferenceInv, OrderInv, HandInv, Submitting, sinkVars
  <2>2. ASSUME NEW c \in (Len(out) + 1)..Len(sent), Answerable(c)
        PROVE  Answerable(c)'
    <3>1. c # 0
      BY <1>t
    <3> QED
      BY <2>1, <2>2, <3>1, <1>t DEF Answerable
  <2> QED
    BY <2>1, <2>2 DEF AnswerInv, Running
<1>4. CASE SendOrder
  <2>1. /\ Len(sent') = Len(sent) + 1 /\ UNCHANGED <<slot, busy, results, out, wr>>
        /\ pc = "order" /\ hand'.ch = Len(sent) + 1 /\ hand.ch = 0
    BY <1>0, <1>4, SendOrderFrame DEF SendOrder, sinkVars, IdleInv
  <2>2. ASSUME Running', NEW c \in (Len(out') + 1)..Len(sent')
        PROVE  Answerable(c)'
    <3>1. CASE c = Len(sent) + 1
      BY <3>1, <2>1 DEF Answerable
    <3>2. CASE c # Len(sent) + 1
      <4>1. c \in (Len(out) + 1)..Len(sent) /\ Running /\ c # 0
        BY <3>2, <2>1, <2>2, <1>t DEF Running
      <4>2. Answerable(c) /\ hand.ch # c
        BY <4>1, <2>1 DEF AnswerInv
      <4> QED
        BY <4>2, <2>1 DEF Answerable
    <3> QED
      BY <3>1, <3>2
  <2> QED
    BY <2>2 DEF AnswerInv
<1>5. CASE Fill
  <2>1. UNCHANGED <<sent, out, slot, busy, wr>> /\ results \subseteq results'
        /\ results' = Answer(hand, "none")
    BY <1>5 DEF Fill, Answer, sinkVars
  <2>2. ASSUME Running, NEW c \in (Len(out) + 1)..Len(sent), Answerable(c)
        PROVE  Answerable(c)'
    <3>1. hand.ch = c => \E r \in results' : r.ch = c
      BY <1>0, <2>1, <2>2, OwedListens, AnswerAdds
    <3> QED
      BY <2>1, <2>2, <3>1 DEF Answerable
  <2> QED
    BY <2>1, <2>2 DEF AnswerInv, Running
<1>6. CASE SubmitJob
  <2>1. /\ slot'[cur] = hand /\ slot[cur] = NoJob
        /\ \A w \in Workers : w # cur => slot'[w] = slot[w]
        /\ UNCHANGED <<sent, out, busy, results, wr>>
    BY <1>6, <1>t DEF SubmitJob, sinkVars
  <2>2. ASSUME NEW c \in (Len(out) + 1)..Len(sent), Answerable(c)
        PROVE  Answerable(c)'
    <3>1. c # 0
      BY <1>t
    <3> QED
      BY <2>1, <2>2, <3>1, <1>t DEF Answerable
  <2> QED
    BY <2>1, <2>2 DEF AnswerInv, Running
<1>7. ASSUME NEW w \in Workers, WorkerTake(w) \/ WorkerFinish(w) \/ WorkerStops(w)
      PROVE  AnswerInv'
  <2>1. UNCHANGED <<sent, out, hand, wr>>
    BY <1>7, WorkerFrame DEF dispVars, sinkVars
  <2>2. ASSUME Running, NEW c \in (Len(out) + 1)..Len(sent), Answerable(c)
        PROVE  Answerable(c)'
    <3>0. c # 0
      BY <1>t
    <3>1. CASE WorkerTake(w)
      <4>1. /\ busy[w] = NoJob /\ busy'[w] = slot[w] /\ UNCHANGED results
            /\ \A v \in Workers : v # w => slot'[v] = slot[v] /\ busy'[v] = busy[v]
        BY <3>1, <1>t DEF WorkerTake, IdleInv
      <4> QED
        BY <4>1, <2>1, <2>2, <3>0, <1>t DEF Answerable
    <3>2. CASE WorkerFinish(w)
      <4>1. /\ results \subseteq results' /\ UNCHANGED slot
            /\ \A v \in Workers : v # w => busy'[v] = busy[v]
            /\ results' = Answer(busy[w], Decoded(busy[w]))
        BY <3>2, <1>t DEF WorkerFinish, Answer
      <4>2. busy[w].ch = c => \E r \in results' : r.ch = c
        BY <1>0, <2>2, <4>1, OwedListens, AnswerAdds
      <4> QED
        BY <4>1, <4>2, <2>1, <2>2 DEF Answerable
    <3>3. CASE WorkerExit(w)
      BY <3>3, <2>1, <2>2 DEF WorkerExit, Answerable
    <3>4. ~WorkerUnwound(w) /\ ~WorkerPanic(w)
      BY NoFaultSteps DEF WorkerUnwound, ThreadInv
    <3> QED
      BY <1>7, <3>1, <3>2, <3>3, <3>4 DEF WorkerStops
  <2> QED
    BY <2>1, <2>2 DEF AnswerInv, Running
<1>8. ASSUME NEW r \in results, WriteBlock(r)
      PROVE  AnswerInv'
  <2>1. /\ Running /\ UNCHANGED <<sent, hand, slot, busy>> /\ results' = results \ {r}
        /\ Answers(r)
    BY <1>8 DEF WriteBlock, Answers, dispVars, Running
  <2>2. Len(out') = Len(out) + 1 /\ r.ch = Len(out) + 1
    BY <1>0, <1>8, <2>1, WriteBlockKeeps, ResultIsNext
  <2>3. ASSUME NEW c \in (Len(out') + 1)..Len(sent)
        PROVE  Answerable(c)'
    <3>1. c # Len(out) + 1 /\ c \in (Len(out) + 1)..Len(sent)
      BY <2>2, <1>t
    <3>2. Answerable(c)
      BY <2>1, <3>1 DEF AnswerInv
    <3> QED
      BY <2>1, <2>2, <3>1, <3>2 DEF Answerable
  <2> QED
    BY <2>1, <2>3 DEF AnswerInv
<1>9. CASE Stopping \/ (WriterEnd /\ wr' = "gone")
  BY <1>0, <1>9, StoppingFrame DEF AnswerInv, Running, OrderInv
<1>10. CASE DispatchMeta \/ SubmitFull \/ CloseChannels \/ Join
  BY <1>1, <1>10 DEF DispatchMeta, SubmitFull, CloseChannels, Join, sinkVars, Running
<1>11. CASE Leaving \/ WriterTake \/ UNCHANGED vars
  BY <1>1, <1>11, LeavingFrame DEF WriterTake, vars, dispVars, sinkVars, Running
<1> QED
  BY <1>2, <1>3, <1>4, <1>5, <1>6, <1>7, <1>8, <1>9, <1>10, <1>11, NextCases

\* A block that is put into the pipeline is as the Reader finds it.
LEMMA CleanInvStep ==
  ASSUME CauseInv, NoFaults, [Next]_vars
  PROVE  CleanInv'
PROOF
<1> USE DEF CauseInv
<1> SUFFICES ASSUME Ref'.err = "none"
             PROVE  CleanInv'
  BY DEF CleanInv
<1>0. Ref.err = "none"
  BY RefusedStays
<1>t. /\ cur \in Workers /\ slot \in [Workers -> Job] /\ busy \in [Workers -> Job]
  BY LengthTypes
<1>a. /\ pc = "order" \/ Submitting => ~Undecodable(hand)
      /\ \A w \in Workers : ~Undecodable(slot[w]) /\ ~Undecodable(busy[w])
      /\ \A r \in results : r.e = "none"
  BY <1>0 DEF CleanInv
<1>b. ~Undecodable(NoJob)
  BY DEF Undecodable, Decoded, NoJob
<1>1. CASE /\ UNCHANGED <<slot, busy>> /\ results' \subseteq results
           /\ pc' \in {"order", "try", "blocked"}
                => hand' = hand /\ pc \in {"order", "try", "blocked"}
  BY <1>1, <1>a DEF CleanInv, Submitting, Undecodable, Decoded
<1>2. CASE DispatchData
  <2>1. /\ AtChunk /\ pos' = pos + 1 /\ pc = "loop" /\ pc' = "order"
        /\ UNCHANGED <<stream, slot, busy, results>>
    BY <1>2 DEF DispatchData, AtChunk
  <2>2. Ref' = HandleChunk(Ref, Chunk, pos + 1)
    BY <1>0, <2>1, ReadStep DEF ReferenceInv, OrderInv, Turn
  <2>3. ~Undecodable(hand')
    BY <1>0, <1>2, <2>1, <2>2, RefSees, BothRead DEF ReferenceInv, OrderInv
  <2> QED
    BY <1>a, <2>1, <2>3 DEF CleanInv, Undecodable, Decoded
<1>3. CASE SendOrder
  <2>1. /\ pc = "order" /\ UNCHANGED <<slot, busy, results>>
        /\ hand'.raw = hand.raw /\ hand'.bad = hand.bad /\ hand'.max = hand.max
        /\ hand'.len = hand.len
    BY <1>3, SendOrderFrame DEF SendOrder, ReferenceInv, ItemOf
  <2>2. ~Undecodable(hand')
    BY <1>a, <2>1 DEF Undecodable, Decoded
  <2> QED
    BY <1>a, <2>1, <2>2 DEF CleanInv, Undecodable, Decoded
<1>4. CASE Fill
  <2>1. /\ pc' = "loop" /\ UNCHANGED <<slot, busy>> /\ \A r \in results' : r.e = "none"
    BY <1>4, <1>a DEF Fill, Answer
  <2> QED
    BY <1>a, <2>1 DEF CleanInv, Submitting, Undecodable, Decoded
<1>5. CASE SubmitJob
  <2>1. /\ pc' = "loop" /\ UNCHANGED <<busy, results>> /\ Submitting
        /\ \A w \in Workers : slot'[w] \in {slot[w], hand}
    BY <1>5, <1>t DEF SubmitJob, Submitting
  <2>2. \A w \in Workers : ~Undecodable(slot'[w])
    BY <1>a, <2>1
  <2> QED
    BY <1>a, <2>1, <2>2 DEF CleanInv, Submitting, Undecodable, Decoded
<1>6. ASSUME NEW w \in Workers, WorkerTake(w) \/ WorkerFinish(w) \/ WorkerStops(w)
      PROVE  CleanInv'
  <2>1. pc' = pc /\ hand' = hand
    BY <1>6, WorkerFrame DEF dispVars
  <2>2. \A v \in Workers : /\ slot'[v] \in {slot[v], NoJob}
                           /\ busy'[v] \in {busy[v], slot[v], NoJob}
    BY <1>6, <1>t DEF WorkerTake, WorkerFinish, WorkerStops, WorkerPanic, WorkerUnwound,
       WorkerExit
  <2>3. \A v \in Workers : ~Undecodable(slot'[v]) /\ ~Undecodable(busy'[v])
    BY <1>a, <1>b, <2>2
  <2>4. \A r \in results' : r.e = "none"
    <3>1. CASE WorkerFinish(w)
      <4>1. Decoded(busy[w]) = "none"
        BY <3>1, <1>a DEF WorkerFinish, Undecodable, ReferenceInv, OrderInv, JobInv
      <4> QED
        BY <3>1, <4>1, <1>a DEF WorkerFinish, Answer
    <3>2. CASE results' = results
      BY <3>2, <1>a
    <3> QED
      BY <1>6, <3>1, <3>2 DEF WorkerTake, WorkerStops, WorkerPanic, WorkerUnwound, WorkerExit
  <2> QED
    BY <1>a, <2>1, <2>3, <2>4 DEF CleanInv, Submitting, Undecodable, Decoded
<1>7. CASE \/ DispatchMeta \/ SubmitFull \/ CloseChannels \/ Join \/ WriterTake
           \/ (WriterEnd /\ wr' = "gone") \/ (\E r \in results : WriteBlock(r))
           \/ UNCHANGED vars
  BY <1>1, <1>7 DEF DispatchMeta, SubmitFull, CloseChannels, Join, WriterTake, WriterEnd,
     WriteBlock, AtChunk, vars, dispVars
<1>8. CASE Leaving \/ Aborting
  BY <1>1, <1>8, LeavingFrame, AbortingFrame
<1>9. CASE Stopping
  BY <1>1, <1>9, StoppingFrame DEF ReferenceInv, OrderInv, dispVars
<1> QED
  BY <1>2, <1>3, <1>4, <1>5, <1>6, <1>7, <1>8, <1>9, NextCases

\* No step reports an error the Reader does not meet.
LEMMA BlameInvStep ==
  ASSUME CauseInv, NoFaults, [Next]_vars
  PROVE  BlameInv'
PROOF
<1> USE DEF CauseInv
<1>0. Refused => Refused'
  BY RefusedStays
<1>1. CASE UNCHANGED <<err, dres>> /\ (pc' = "ended" => pc = "ended" /\ ret' = ret)
  BY <1>0, <1>1 DEF BlameInv
<1>2. CASE Leaving
  <2>1. err' = err /\ pc' = "close"
    BY <1>2, LeavingFrame
  <2>2. dres' # "none" => Refused'
    <3>1. CASE DispatchSeesError
      BY <1>0, <3>1 DEF DispatchSeesError, BlameInv
    <3>2. CASE DispatchEnd
      <4>1. /\ pc = "loop" /\ pos = Len(stream)
            /\ dres' = IF expectEof THEN "corrupt" ELSE "none"
        BY <3>2 DEF DispatchEnd, Leave
      <4>2. Ref.err = "none" => Ref.expectEof = expectEof
        BY <4>1, RefSees DEF Sees
      <4> QED
        BY <1>0, <4>1, <4>2 DEF Refused
    <3>3. CASE DispatchRefuses
      BY <3>3, RefuseStep DEF Refused
    <3> QED
      BY <1>2, <3>1, <3>2, <3>3, NoFaultSteps DEF Leaving
  <2> QED
    BY <1>0, <2>1, <2>2 DEF BlameInv
<1>3. CASE Aborting
  <2>1. SendOrderFails /\ err # "none" /\ err' = err /\ pc' = "close"
    BY <1>3, NeverGone, AbortingFrame DEF Aborting
  <2> QED
    BY <1>0, <2>1 DEF BlameInv
<1>4. CASE Stopping
  <2>1. dres' = dres /\ pc' = pc /\ ret' = ret
    BY <1>4, StoppingFrame DEF dispVars, ReferenceInv, OrderInv
  <2>2. (err' # "none" => Refused) /\ (err # "none" => err' # "none")
    BY <1>4, StoppingQuietly DEF BlameInv, Refused, WriterExit, WriteDecodeError, Record
  <2> QED
    BY <1>0, <2>1, <2>2 DEF BlameInv
<1>5. CASE Join
  <2>1. /\ UNCHANGED <<err, dres>> /\ wr = "gone"
        /\ ret' = IF dres # "none" THEN dres
                  ELSE IF fin = "ok" THEN "ok"
                  ELSE IF fin = "none" THEN "exited" ELSE fin
    BY <1>5 DEF Join, FinalResult
  <2>2. ret' # "ok" => dres # "none" \/ err # "none"
    BY <2>1 DEF ThreadInv
  <2> QED
    BY <1>0, <2>1, <2>2 DEF BlameInv
<1>6. CASE \/ DispatchMeta \/ DispatchData \/ SendOrder \/ Fill \/ SubmitJob \/ SubmitFull
           \/ CloseChannels
  BY <1>1, <1>6 DEF DispatchMeta, DispatchData, SendOrder, Fill, SubmitJob, SubmitFull,
     CloseChannels, AtChunk
<1>7. CASE \E w \in Workers : WorkerTake(w) \/ WorkerFinish(w) \/ WorkerStops(w)
  BY <1>1, <1>7, WorkerFrame DEF dispVars
<1>8. CASE \/ WriterTake \/ (WriterEnd /\ wr' = "gone") \/ (\E r \in results : WriteBlock(r))
           \/ UNCHANGED vars
  BY <1>1, <1>8 DEF WriterTake, WriterEnd, WriteBlock, Record, vars, dispVars
<1> QED
  BY <1>2, <1>3, <1>4, <1>5, <1>6, <1>7, <1>8, NextCases

\* On an input that does not fail by itself, with no panic, a concurrent decode
\* fails only where the Reader does: no schedule of the threads turns a stream the
\* Reader accepts into an error.
THEOREM ErrorsAreTheReaders == Spec => []NoSpuriousError
PROOF
<1>1. Init => CauseInv
  <2> SUFFICES ASSUME Init PROVE CauseInv
    OBVIOUS
  <2>1. ReferenceInv
    BY ReferenceInit
  <2>2. IdleInv /\ ThreadInv
    BY DEF Init, IdleInv, ThreadInv
  <2>3. Len(<<>>) = 0 /\ (0 + 1)..0 = {}
    OBVIOUS
  <2>4. AnswerInv
    BY <2>3 DEF Init, AnswerInv
  <2>5. ~Undecodable(NoJob)
    BY DEF Undecodable, Decoded, NoJob
  <2>6. CleanInv
    BY <2>5 DEF Init, CleanInv, Submitting
  <2>7. BlameInv
    BY DEF Init, BlameInv
  <2> QED
    BY <2>1, <2>2, <2>4, <2>6, <2>7 DEF CauseInv
<1>2. CauseInv /\ [Next]_vars => CauseInv'
  <2> SUFFICES ASSUME CauseInv, [Next]_vars PROVE CauseInv'
    OBVIOUS
  <2>1. ReferenceInv' /\ IdleInv'
    BY ReferenceStep, IdleInvStep DEF CauseInv
  <2>2. NoFaults' => NoFaults
    BY StreamFixed DEF NoFaults, CauseInv
  <2> QED
    BY <2>1, <2>2, ThreadInvStep, AnswerInvStep, CleanInvStep, BlameInvStep DEF CauseInv
<1>3. CauseInv => NoSpuriousError
  <2> SUFFICES ASSUME CauseInv, NoFaults, pc = "ended", ret # "ok"
               PROVE  ReaderRefuses
    BY DEF NoSpuriousError, NoFaults
  <2>1. Refused
    BY DEF CauseInv, BlameInv
  <2>2. /\ ReadSoFar \in Seq(WireChunk) /\ Len(ReadSoFar) = pos /\ stream \in Seq(WireChunk)
        /\ \A i \in 1..pos : ReadSoFar[i] = stream[i]
    BY ReadSoFarType DEF CauseInv, ReferenceInv, OrderInv
  <2>3. Ref = RunUpTo(ReadSoFar)[pos] /\ Ref \in ReaderState
    BY <2>2 DEF Ref, Behind, CauseInv, ReferenceInv, RefInv
  <2>4. CASE Ref.err # "none"
    BY <2>3, <2>4 DEF ReaderRefuses
  <2>5. CASE Ref.err = "none" /\ pos = Len(stream) /\ Ref.expectEof
    <3>1. ReadSoFar = stream
      BY <2>2, <2>5, SeqEqual
    <3>2. SeqResult(stream) = AtEnd(Ref).err
      BY <2>2, <2>3, <2>5, <3>1 DEF SeqResult
    <3>3. AtEnd(Ref).err = "corrupt"
      BY <2>3, <2>5, ErrFields DEF AtEnd
    <3> QED
      BY <2>5, <3>2, <3>3 DEF ReaderRefuses
  <2> QED
    BY <2>1, <2>4, <2>5 DEF Refused
<1> QED
  BY <1>1, <1>2, <1>3, PTL DEF Spec

----------------------------------------------------------------------------
(* Buffers.  Every job alive belongs to a block the writer thread has still  *)
(* to write, so the order queue bounds the jobs; a pool allocates only when  *)
(* it is empty, so the jobs bound the buffers.                               *)

UsedBy(f) == {w \in Workers : f[w] # NoJob}

\* Jobs by where they are: with the dispatcher, queued, being decoded, answered, and
\* answered with a block.
InHand == IF pc = "fill" \/ Submitting THEN 1 ELSE 0
Queued == Cardinality(UsedBy(slot))
Decoding == Cardinality(UsedBy(busy))
Answered == Cardinality(results)
Blocks == Cardinality({r \in results : r.e = "none"})

LiveJobs == InHand + Queued + Decoding + Answered

\* The dispatcher's buffer, by its kind.
CompHand == IF pc \in {"order", "try", "blocked"} /\ ~hand.raw THEN 1 ELSE 0
DecHand == IF pc \in {"order", "fill"} /\ hand.raw THEN 1 ELSE 0

\* At most one slot is neither in the sink nor in the order queue.
LagInv == wr # "gone" => Len(sent) <= Len(out) + 1 + Len(order)

BufferInv == /\ IsFiniteSet(results)
             /\ wr # "gone" => LiveJobs + Len(out) <= Len(sent)
             /\ LiveJobs <= N + 2
             /\ compPool + CompHand + Queued + Decoding <= N + 3
             /\ decPool + DecHand + Decoding + Blocks <= N + 3

\* Putting job j down in place w changes the count of places in use by one at most.
LEMMA UsedCount ==
  ASSUME NEW f \in [Workers -> Job], NEW w \in Workers, NEW j \in Job
  PROVE  /\ Cardinality(UsedBy(f)) \in Nat
         /\ f[w] = NoJob /\ j # NoJob
              => Cardinality(UsedBy([f EXCEPT ![w] = j])) = Cardinality(UsedBy(f)) + 1
         /\ f[w] # NoJob /\ j = NoJob
              => Cardinality(UsedBy([f EXCEPT ![w] = j])) = Cardinality(UsedBy(f)) - 1
         /\ (f[w] = NoJob <=> j = NoJob)
              => Cardinality(UsedBy([f EXCEPT ![w] = j])) = Cardinality(UsedBy(f))
PROOF
<1> DEFINE g == [f EXCEPT ![w] = j]
           F == UsedBy(f)
           G == UsedBy(g)
<1>1. IsFiniteSet(Workers)
  BY NAssumption, FS_Interval DEF Workers
<1>2. F \in SUBSET Workers /\ G \in SUBSET Workers
  BY DEF UsedBy
<1>3. IsFiniteSet(F) /\ Cardinality(F) \in Nat /\ IsFiniteSet(G) /\ Cardinality(G) \in Nat
  <2> HIDE DEF F, G
  <2> QED
    BY <1>1, <1>2, FS_Subset, FS_CardinalityType
<1>4. w \in F <=> f[w] # NoJob
  BY DEF UsedBy
<1>5. CASE j = NoJob
  <2>1. G = F \ {w}
    BY <1>5 DEF UsedBy
  <2> HIDE DEF F, G
  <2>2. Cardinality(G) = IF w \in F THEN Cardinality(F) - 1 ELSE Cardinality(F)
    BY <1>3, <2>1, FS_RemoveElement
  <2> QED
    BY <1>3, <1>4, <1>5, <2>2 DEF F, G
<1>6. CASE j # NoJob
  <2>1. G = F \cup {w}
    BY <1>6 DEF UsedBy
  <2> HIDE DEF F, G
  <2>2. Cardinality(G) = IF w \in F THEN Cardinality(F) ELSE Cardinality(F) + 1
    BY <1>3, <2>1, FS_AddElement
  <2> QED
    BY <1>3, <1>4, <1>6, <2>2 DEF F, G
<1> QED
  BY <1>5, <1>6

\* A worker's queue that is not empty counts.
LEMMA QueuedOne ==
  ASSUME slot \in [Workers -> Job], NEW w \in Workers, slot[w] # NoJob
  PROVE  Queued >= 1
PROOF
<1>1. IsFiniteSet(UsedBy(slot)) /\ UsedBy(slot) # {}
  <2>1. IsFiniteSet(Workers)
    BY NAssumption, FS_Interval DEF Workers
  <2>2. UsedBy(slot) \in SUBSET Workers /\ w \in UsedBy(slot)
    BY DEF UsedBy
  <2> QED
    BY <2>1, <2>2, FS_Subset
<1>2. Queued # 0 /\ Queued \in Nat
  BY <1>1, FS_EmptySet, FS_CardinalityType DEF Queued
<1> QED
  BY <1>2

\* A set of results loses no more than it had, and the blocks among them.
LEMMA ResultCount ==
  ASSUME NEW R, IsFiniteSet(R), NEW S \in SUBSET R
  PROVE  /\ IsFiniteSet(S) /\ Cardinality(S) \in Nat /\ Cardinality(R) \in Nat
         /\ Cardinality(S) <= Cardinality(R)
         /\ Cardinality({x \in S : x.e = "none"}) \in Nat
         /\ Cardinality({x \in R : x.e = "none"}) \in Nat
         /\ Cardinality({x \in S : x.e = "none"}) <= Cardinality({x \in R : x.e = "none"})
         /\ Cardinality({x \in R : x.e = "none"}) <= Cardinality(R)
PROOF
<1> DEFINE A == {x \in S : x.e = "none"}
           B == {x \in R : x.e = "none"}
<1>1. A \in SUBSET B /\ B \in SUBSET R
  OBVIOUS
<1> HIDE DEF A, B
<1>2. IsFiniteSet(S) /\ IsFiniteSet(A) /\ IsFiniteSet(B)
  BY <1>1, FS_Subset
<1> QED
  BY <1>1, <1>2, FS_Subset, FS_CardinalityType DEF A, B

\* One result more.
LEMMA ResultAdded ==
  ASSUME NEW R, IsFiniteSet(R), NEW x
  PROVE  /\ IsFiniteSet(R \cup {x})
         /\ Cardinality(R \cup {x}) <= Cardinality(R) + 1
         /\ Cardinality({y \in R \cup {x} : y.e = "none"})
              <= Cardinality({y \in R : y.e = "none"}) + 1
         /\ x.e # "none" => Cardinality({y \in R \cup {x} : y.e = "none"})
                              = Cardinality({y \in R : y.e = "none"})
PROOF
<1> DEFINE B == {y \in R : y.e = "none"}
           C == {y \in R \cup {x} : y.e = "none"}
<1>1. B \in SUBSET R /\ C = IF x.e = "none" THEN B \cup {x} ELSE B
  OBVIOUS
<1> HIDE DEF B, C
<1>2. IsFiniteSet(B) /\ Cardinality(B) \in Nat /\ Cardinality(R) \in Nat
  BY <1>1, FS_Subset, FS_CardinalityType
<1>3. Cardinality(C) <= Cardinality(B) + 1 /\ (x.e # "none" => Cardinality(C) = Cardinality(B))
  <2>1. Cardinality(B \cup {x}) = IF x \in B THEN Cardinality(B) ELSE Cardinality(B) + 1
    BY <1>2, FS_AddElement
  <2>2. CASE x.e = "none"
    BY <1>1, <1>2, <2>1, <2>2
  <2>3. CASE x.e # "none"
    BY <1>1, <1>2, <2>3
  <2> QED
    BY <2>2, <2>3
<1>4. IsFiniteSet(R \cup {x}) /\ Cardinality(R \cup {x}) <= Cardinality(R) + 1
  BY <1>2, FS_AddElement
<1> QED
  BY <1>3, <1>4 DEF B, C

\* One result less.
LEMMA ResultTaken ==
  ASSUME NEW R, IsFiniteSet(R), NEW x \in R
  PROVE  /\ Cardinality(R \ {x}) = Cardinality(R) - 1
         /\ x.e = "none" => Cardinality({y \in R \ {x} : y.e = "none"})
                              = Cardinality({y \in R : y.e = "none"}) - 1
         /\ x.e # "none" => Cardinality({y \in R \ {x} : y.e = "none"})
                              = Cardinality({y \in R : y.e = "none"})
PROOF
<1> DEFINE B == {y \in R : y.e = "none"}
           C == {y \in R \ {x} : y.e = "none"}
<1>1. B \in SUBSET R /\ C = B \ {x} /\ (x \in B <=> x.e = "none")
  OBVIOUS
<1> HIDE DEF B, C
<1>2. IsFiniteSet(B) /\ Cardinality(B) \in Nat /\ Cardinality(R) \in Nat
  BY <1>1, FS_Subset, FS_CardinalityType
<1>3. /\ x.e = "none" => Cardinality(C) = Cardinality(B) - 1
      /\ x.e # "none" => Cardinality(C) = Cardinality(B)
  <2>1. Cardinality(B \ {x}) = IF x \in B THEN Cardinality(B) - 1 ELSE Cardinality(B)
    BY <1>2, FS_RemoveElement
  <2>2. CASE x.e = "none"
    BY <1>1, <1>2, <2>1, <2>2
  <2>3. CASE x.e # "none"
    BY <1>1, <1>2, <2>1, <2>3
  <2> QED
    BY <2>2, <2>3
<1>4. Cardinality(R \ {x}) = Cardinality(R) - 1
  BY <1>2, FS_RemoveElement
<1> QED
  BY <1>3, <1>4 DEF B, C

\* The counts are numbers.
LEMMA CountTypes ==
  ASSUME TypeOK, IsFiniteSet(results)
  PROVE  /\ InHand \in Nat /\ Queued \in Nat /\ Decoding \in Nat /\ Answered \in Nat
         /\ Blocks \in Nat /\ Blocks <= Answered /\ CompHand \in Nat /\ DecHand \in Nat
         /\ CompHand <= 1 /\ DecHand <= 1
         /\ compPool \in Nat /\ decPool \in Nat /\ N \in Nat /\ LiveJobs \in Nat
         /\ Len(sent) \in Nat /\ Len(out) \in Nat /\ Len(order) \in Nat
PROOF
<1>1. /\ InHand \in Nat /\ CompHand \in Nat /\ DecHand \in Nat /\ CompHand <= 1
      /\ DecHand <= 1
  BY DEF InHand, CompHand, DecHand
<1>2. Answered \in Nat /\ Blocks \in Nat /\ Blocks <= Answered
  BY ResultCount DEF Answered, Blocks
<1>3. slot \in [Workers -> Job] /\ busy \in [Workers -> Job]
  BY DEF TypeOK, ThreadTypeOK
<1>4. Queued \in Nat /\ Decoding \in Nat
  BY <1>3, NextWorker, NoJobIsJob, UsedCount DEF Queued, Decoding
<1>5. compPool \in Nat /\ decPool \in Nat /\ N \in Nat
  BY NAssumption DEF TypeOK, ChannelTypeOK, PoolCap
<1>6. Len(sent) \in Nat /\ Len(out) \in Nat /\ Len(order) \in Nat
  BY DEF TypeOK, ChannelTypeOK, ThreadTypeOK
<1>7. LiveJobs \in Nat
  BY <1>1, <1>2, <1>4 DEF LiveJobs
<1> QED
  BY <1>1, <1>2, <1>4, <1>5, <1>6, <1>7

\* The bounds of the invariant are the ones of the property.
LEMMA BufferInvBounds == TypeOK /\ BufferInv => BuffersBounded
PROOF
<1> SUFFICES ASSUME TypeOK, BufferInv PROVE BuffersBounded
  OBVIOUS
<1>1. LiveComp = CompHand + Queued + Decoding
  BY DEF LiveComp, CompHand, Queued, Decoding, UsedBy
<1>2. LiveDec = DecHand + Decoding + Blocks
  BY DEF LiveDec, DecHand, Decoding, Blocks, UsedBy
<1>3. /\ CompHand \in Nat /\ DecHand \in Nat /\ Queued \in Nat /\ Decoding \in Nat
      /\ Blocks \in Nat /\ compPool \in Nat /\ decPool \in Nat /\ N \in Nat
  BY CountTypes DEF BufferInv
<1> QED
  BY <1>1, <1>2, <1>3 DEF BufferInv, BuffersBounded

\* The order queue stays at most one slot behind.
LEMMA LagInvStep ==
  ASSUME OrderInv, LagInv, [Next]_vars
  PROVE  LagInv'
PROOF
<1>t. /\ Len(sent) \in Nat /\ Len(out) \in Nat /\ Len(order) \in Nat
  BY DEF OrderInv, TypeOK, ChannelTypeOK, ThreadTypeOK
<1>a. OrderInv'
  BY OrderInvStep
<1>b. /\ Len(sent') \in Nat /\ Len(out') \in Nat /\ Len(order') \in Nat
  BY <1>a DEF OrderInv, TypeOK, ChannelTypeOK, ThreadTypeOK
<1>1. CASE Running'
  <2>1. Len(sent') = Taken' + Len(order') /\ Taken' <= Len(out') + 1 /\ Taken' \in Nat
    BY <1>1, <1>a, <1>b DEF OrderInv, QueueInv, Taken
  <2> QED
    BY <2>1, <1>b DEF LagInv
<1>2. CASE wr' = "gone"
  BY <1>2 DEF LagInv
<1>3. CASE UNCHANGED <<sent, out, order>> /\ wr # "gone"
  BY <1>3 DEF LagInv
<1>4. CASE UNCHANGED <<sent, out, order, wr>>
  BY <1>4 DEF LagInv
<1>5. CASE SendOrder
  <2>1. /\ wr # "gone" /\ out' = out /\ Len(sent') = Len(sent) + 1
        /\ Len(order') = Len(order) + 1
    BY <1>5, SendOrderFrame DEF SendOrder, sinkVars
  <2> QED
    BY <2>1, <1>t DEF LagInv
<1>6. CASE \/ DispatchMeta \/ DispatchData \/ Fill \/ SubmitJob \/ SubmitFull \/ CloseChannels
           \/ Join
  BY <1>4, <1>6 DEF DispatchMeta, DispatchData, Fill, SubmitJob, SubmitFull, CloseChannels,
     Join, sinkVars
<1>7. CASE Stopping
  BY <1>7, <1>2, <1>3, StoppingFrame
  DEF Stopping, WriteFails, WriteDecodeError, WorkerLost, GiveUp, WriterExit, WriterPanic,
      WriterEnd, DropReceivers, OrderInv
<1>8. CASE \/ WriterTake \/ (WriterEnd /\ wr' = "gone") \/ (\E r \in results : WriteBlock(r))
  BY <1>8, <1>1, <1>2 DEF WriterTake, WriteBlock, Running
<1> QED
  BY <1>4, <1>5, <1>6, <1>7, <1>8, NextCases, LeavingFrame, AbortingFrame, WorkerFrame
  DEF vars, dispVars, sinkVars

\* A pool takes one buffer at most, and gives one out unless it is empty.
LEMMA PoolMove ==
  \A p \in Nat : /\ Release(p) \in Nat /\ Release(p) <= p + 1
                 /\ Acquire(p) \in Nat /\ Acquire(p) <= p
                 /\ Acquire(p) = IF p > 0 THEN p - 1 ELSE 0
  BY NAssumption DEF Release, Acquire, PoolCap

\* A step that moves no job and only drops what it drops.
LEMMA BufferQuiet ==
  ASSUME TypeOK, BufferInv, UNCHANGED <<slot, busy, sent, out>>,
         results' \in SUBSET results, wr' # "gone" => wr # "gone",
         compPool' \in Nat, compPool' <= compPool, decPool' \in Nat, decPool' <= decPool,
         \/ pc' \notin {"order", "fill", "try", "blocked"}
         \/ hand' = hand /\ (pc' = pc \/ (Submitting /\ pc' = "blocked"))
  PROVE  BufferInv'
PROOF
<1>t. /\ InHand \in Nat /\ Queued \in Nat /\ Decoding \in Nat /\ Answered \in Nat
      /\ Blocks \in Nat /\ CompHand \in Nat /\ DecHand \in Nat /\ LiveJobs \in Nat
      /\ compPool \in Nat /\ decPool \in Nat /\ N \in Nat /\ Len(sent) \in Nat
      /\ Len(out) \in Nat
  BY CountTypes DEF BufferInv
<1>1. /\ InHand' <= InHand /\ InHand' \in Nat /\ CompHand' <= CompHand /\ CompHand' \in Nat
      /\ DecHand' <= DecHand /\ DecHand' \in Nat
  BY DEF InHand, CompHand, DecHand, Submitting
<1>2. Queued' = Queued /\ Decoding' = Decoding
  BY DEF Queued, Decoding, UsedBy
<1>3. /\ IsFiniteSet(results') /\ Answered' \in Nat /\ Blocks' \in Nat
      /\ Answered' <= Answered /\ Blocks' <= Blocks /\ IsFiniteSet(results)
  BY ResultCount DEF BufferInv, Answered, Blocks
<1>a. PICK h \in Nat, a \in Nat : InHand' = h /\ h <= InHand /\ Answered' = a /\ a <= Answered
  BY <1>1, <1>3
<1>b. PICK c \in Nat, i \in Nat : /\ CompHand' = c /\ c <= CompHand
                                 /\ compPool' = i /\ i <= compPool
  BY <1>1
<1>c. PICK d \in Nat, k \in Nat, b \in Nat : /\ DecHand' = d /\ d <= DecHand
                                             /\ decPool' = k /\ k <= decPool
                                             /\ Blocks' = b /\ b <= Blocks
  BY <1>1, <1>3
<1>4. LiveJobs' \in Nat /\ LiveJobs' <= LiveJobs
  BY <1>2, <1>a, <1>t DEF LiveJobs
<1>5. LiveJobs' <= N + 2 /\ (wr' # "gone" => LiveJobs' + Len(out') <= Len(sent'))
  BY <1>4, <1>t DEF BufferInv
<1>6. compPool' + CompHand' + Queued' + Decoding' <= N + 3
  <2>1. compPool + CompHand + Queued + Decoding <= N + 3
    BY DEF BufferInv
  <2> QED
    BY <1>2, <1>b, <1>t, <2>1
<1>7. decPool' + DecHand' + Decoding' + Blocks' <= N + 3
  <2>1. decPool + DecHand + Decoding + Blocks <= N + 3
    BY DEF BufferInv
  <2> QED
    BY <1>2, <1>c, <1>t, <2>1
<1> QED
  BY <1>3, <1>5, <1>6, <1>7 DEF BufferInv

\* A refused chunk: the buffer it was read into is dropped, or goes back to the pool
\* it may have been allocated for.
LEMMA BufferLeaving ==
  ASSUME OrderInv, BufferInv, Leaving
  PROVE  BufferInv'
PROOF
<1>t. /\ InHand \in Nat /\ Queued \in Nat /\ Decoding \in Nat /\ Answered \in Nat
      /\ Blocks \in Nat /\ Blocks <= Answered /\ CompHand \in Nat /\ DecHand \in Nat
      /\ CompHand <= 1 /\ DecHand <= 1 /\ LiveJobs \in Nat /\ compPool \in Nat
      /\ decPool \in Nat /\ N \in Nat /\ Len(sent) \in Nat /\ Len(out) \in Nat
      /\ Len(order) \in Nat
  BY CountTypes DEF BufferInv, OrderInv
<1>i. /\ IsFiniteSet(results) /\ (wr # "gone" => LiveJobs + Len(out) <= Len(sent))
      /\ LiveJobs <= N + 2
      /\ compPool + CompHand + Queued + Decoding <= N + 3
      /\ decPool + DecHand + Decoding + Blocks <= N + 3
  BY DEF BufferInv
<1>p. /\ Acquire(compPool) \in Nat /\ Acquire(compPool) <= compPool
      /\ Acquire(decPool) \in Nat /\ Acquire(decPool) <= decPool
      /\ (decPool > 0 => Acquire(decPool) = decPool - 1) /\ (decPool = 0 => Acquire(decPool) = 0)
  BY <1>t DEF Acquire
<1>1. /\ pc = "loop" /\ pc' = "close" /\ UNCHANGED <<slot, busy, sent, out, results, wr, hand>>
  BY LeavingFrame DEF sinkVars
<1>2. CASE compPool' \in Nat /\ compPool' <= compPool /\ decPool' \in Nat /\ decPool' <= decPool
  BY <1>1, <1>2, BufferQuiet DEF OrderInv
<1>3. CASE DispatchSeesError \/ DispatchEnd
  BY <1>2, <1>3, <1>t DEF DispatchSeesError, DispatchEnd
<1>4. CASE DispatchReadFails
  <2>1. compPool' \in {compPool, Acquire(compPool)} /\ decPool' \in {decPool, Acquire(decPool)}
    BY <1>4 DEF DispatchReadFails
  <2> QED
    BY <1>2, <1>t, <1>p, <2>1
<1>5. CASE DispatchRefuses /\ decPool' # Release(Acquire(decPool))
  <2>1. compPool' \in {compPool, Acquire(compPool)} /\ decPool' \in {decPool, Acquire(decPool)}
    BY <1>5 DEF DispatchRefuses
  <2> QED
    BY <1>2, <1>t, <1>p, <2>1
<1>6. CASE DispatchRefuses /\ decPool' = Release(Acquire(decPool))
  <2>1. compPool' \in {compPool, Acquire(compPool)}
    BY <1>6 DEF DispatchRefuses
  <2>2. PICK i \in Nat : compPool' = i /\ i <= compPool
    BY <1>t, <1>p, <2>1
  <2>3. PICK k \in Nat : decPool' = k /\ (k <= decPool \/ k <= 1)
    <3>1. Release(Acquire(decPool)) \in Nat
          /\ Release(Acquire(decPool)) <= Acquire(decPool) + 1
      BY <1>p, PoolMove
    <3> QED
      BY <1>6, <1>t, <1>p, <3>1
  <2>4. /\ InHand' = 0 /\ CompHand' = 0 /\ DecHand' = 0 /\ InHand = 0 /\ CompHand = 0
        /\ DecHand = 0
    BY <1>1 DEF InHand, CompHand, DecHand, Submitting
  <2>5. Queued' = Queued /\ Decoding' = Decoding /\ Answered' = Answered /\ Blocks' = Blocks
    BY <1>1 DEF Queued, Decoding, UsedBy, Answered, Blocks
  <2>6. LiveJobs' = LiveJobs
    BY <2>4, <2>5 DEF LiveJobs
  <2>7. Decoding + Blocks <= LiveJobs
    BY <1>t DEF LiveJobs
  <2>8. decPool' + DecHand' + Decoding' + Blocks' <= N + 3
    BY <1>t, <1>i, <2>3, <2>4, <2>5, <2>7
  <2>9. compPool' + CompHand' + Queued' + Decoding' <= N + 3
    BY <1>t, <1>i, <2>2, <2>4, <2>5
  <2> QED
    BY <1>1, <1>i, <2>6, <2>8, <2>9 DEF BufferInv
<1> QED
  BY <1>3, <1>4, <1>5, <1>6 DEF Leaving

\* Reading a data chunk takes a buffer, a new one only from an empty pool.
LEMMA BufferRead ==
  ASSUME OrderInv, BufferInv, DispatchData
  PROVE  BufferInv'
PROOF
<1>t. /\ InHand \in Nat /\ Queued \in Nat /\ Decoding \in Nat /\ Answered \in Nat
      /\ Blocks \in Nat /\ Blocks <= Answered /\ CompHand \in Nat /\ DecHand \in Nat
      /\ CompHand <= 1 /\ DecHand <= 1 /\ LiveJobs \in Nat /\ compPool \in Nat
      /\ decPool \in Nat /\ N \in Nat /\ Len(sent) \in Nat /\ Len(out) \in Nat
      /\ Len(order) \in Nat
  BY CountTypes DEF BufferInv, OrderInv
<1>i. /\ IsFiniteSet(results) /\ (wr # "gone" => LiveJobs + Len(out) <= Len(sent))
      /\ LiveJobs <= N + 2
      /\ compPool + CompHand + Queued + Decoding <= N + 3
      /\ decPool + DecHand + Decoding + Blocks <= N + 3
  BY DEF BufferInv
<1>1. /\ pc = "loop" /\ pc' = "order" /\ UNCHANGED <<slot, busy, sent, out, results, wr>>
      /\ hand'.raw = (Chunk.t = "raw")
      /\ IF Chunk.t = "raw"
         THEN decPool' = Acquire(decPool) /\ UNCHANGED compPool
         ELSE compPool' = Acquire(compPool) /\ UNCHANGED decPool
  BY DEF DispatchData, AtChunk, sinkVars
<1>2. InHand' = 0 /\ InHand = 0 /\ CompHand = 0 /\ DecHand = 0
  BY <1>1 DEF InHand, CompHand, DecHand, Submitting
<1>3. Queued' = Queued /\ Decoding' = Decoding /\ Answered' = Answered /\ Blocks' = Blocks
  BY <1>1 DEF Queued, Decoding, UsedBy, Answered, Blocks
<1>4. LiveJobs' = LiveJobs
  BY <1>2, <1>3 DEF LiveJobs
<1>5. Decoding + Blocks <= LiveJobs /\ Queued + Decoding <= LiveJobs
  BY <1>t DEF LiveJobs
<1>6. CASE Chunk.t = "raw"
  <2>1. CompHand' = 0 /\ DecHand' = 1 /\ compPool' = compPool
    BY <1>1, <1>6 DEF CompHand, DecHand
  <2>2. decPool' = IF decPool > 0 THEN decPool - 1 ELSE 0
    BY <1>1, <1>6, <1>t, PoolMove
  <2>3. decPool' + DecHand' + Decoding' + Blocks' <= N + 3
    BY <1>2, <1>3, <1>5, <1>t, <1>i, <2>1, <2>2
  <2> QED
    BY <1>1, <1>2, <1>3, <1>4, <1>t, <1>i, <2>1, <2>3 DEF BufferInv
<1>7. CASE Chunk.t # "raw"
  <2>1. CompHand' = 1 /\ DecHand' = 0 /\ decPool' = decPool
    BY <1>1, <1>7 DEF CompHand, DecHand
  <2>2. compPool' = IF compPool > 0 THEN compPool - 1 ELSE 0
    BY <1>1, <1>7, <1>t, PoolMove
  <2>3. compPool' + CompHand' + Queued' + Decoding' <= N + 3
    BY <1>2, <1>3, <1>5, <1>t, <1>i, <2>1, <2>2
  <2> QED
    BY <1>1, <1>2, <1>3, <1>4, <1>t, <1>i, <2>1, <2>3 DEF BufferInv
<1> QED
  BY <1>6, <1>7

\* The order queue has room, so the job it lets through is one of N + 2.
LEMMA BufferSendOrder ==
  ASSUME OrderInv, LagInv, BufferInv, SendOrder
  PROVE  BufferInv'
PROOF
<1>t. /\ InHand \in Nat /\ Queued \in Nat /\ Decoding \in Nat /\ Answered \in Nat
      /\ Blocks \in Nat /\ Blocks <= Answered /\ CompHand \in Nat /\ DecHand \in Nat
      /\ CompHand <= 1 /\ DecHand <= 1 /\ LiveJobs \in Nat /\ compPool \in Nat
      /\ decPool \in Nat /\ N \in Nat /\ Len(sent) \in Nat /\ Len(out) \in Nat
      /\ Len(order) \in Nat
  BY CountTypes DEF BufferInv, OrderInv
<1>i. /\ IsFiniteSet(results) /\ (wr # "gone" => LiveJobs + Len(out) <= Len(sent))
      /\ LiveJobs <= N + 2
      /\ compPool + CompHand + Queued + Decoding <= N + 3
      /\ decPool + DecHand + Decoding + Blocks <= N + 3
  BY DEF BufferInv
<1>1. /\ UNCHANGED <<slot, busy, results, compPool, decPool, out, wr>>
      /\ pc = "order" /\ pc' = IF hand.raw THEN "fill" ELSE "try"
      /\ wr # "gone" /\ Len(order) < N + 1
      /\ hand'.raw = hand.raw /\ Len(sent') = Len(sent) + 1
  BY SendOrderFrame DEF SendOrder, OrderHasRoom, OrderCap, sinkVars
<1>2. InHand' = 1 /\ InHand = 0 /\ CompHand' = CompHand /\ DecHand' = DecHand
  BY <1>1 DEF InHand, CompHand, DecHand, Submitting
<1>3. Queued' = Queued /\ Decoding' = Decoding /\ Answered' = Answered /\ Blocks' = Blocks
  BY <1>1 DEF Queued, Decoding, UsedBy, Answered, Blocks
<1>4. LiveJobs' = LiveJobs + 1
  BY <1>2, <1>3, <1>t DEF LiveJobs
<1>5. LiveJobs' + Len(out') <= Len(sent')
  BY <1>1, <1>4, <1>t, <1>i
<1>6. LiveJobs' <= N + 2
  BY <1>1, <1>4, <1>5, <1>t DEF LagInv
<1> QED
  BY <1>1, <1>2, <1>3, <1>5, <1>6, <1>i DEF BufferInv

\* A block the writer thread is gone for gives its buffer back.
LEMMA BufferSendOrderFails ==
  ASSUME OrderInv, BufferInv, SendOrderFails
  PROVE  BufferInv'
PROOF
<1>t. /\ InHand \in Nat /\ Queued \in Nat /\ Decoding \in Nat /\ Answered \in Nat
      /\ Blocks \in Nat /\ Blocks <= Answered /\ CompHand \in Nat /\ DecHand \in Nat
      /\ CompHand <= 1 /\ DecHand <= 1 /\ LiveJobs \in Nat /\ compPool \in Nat
      /\ decPool \in Nat /\ N \in Nat /\ Len(sent) \in Nat /\ Len(out) \in Nat
      /\ Len(order) \in Nat
  BY CountTypes DEF BufferInv, OrderInv
<1>i. /\ IsFiniteSet(results) /\ (wr # "gone" => LiveJobs + Len(out) <= Len(sent))
      /\ LiveJobs <= N + 2
      /\ compPool + CompHand + Queued + Decoding <= N + 3
      /\ decPool + DecHand + Decoding + Blocks <= N + 3
  BY DEF BufferInv
<1>1. /\ UNCHANGED <<slot, busy, results, sent, out, wr>> /\ pc = "order" /\ pc' = "close"
      /\ IF hand.raw
         THEN decPool' = Release(decPool) /\ UNCHANGED compPool
         ELSE compPool' = Release(compPool) /\ UNCHANGED decPool
  BY DEF SendOrderFails, Leave, sinkVars
<1>2. /\ InHand' = 0 /\ InHand = 0 /\ CompHand' = 0 /\ DecHand' = 0
      /\ hand.raw => DecHand = 1
      /\ ~hand.raw => CompHand = 1
  BY <1>1 DEF InHand, CompHand, DecHand, Submitting
<1>3. Queued' = Queued /\ Decoding' = Decoding /\ Answered' = Answered /\ Blocks' = Blocks
  BY <1>1 DEF Queued, Decoding, UsedBy, Answered, Blocks
<1>4. LiveJobs' = LiveJobs
  BY <1>2, <1>3 DEF LiveJobs
<1>5. /\ Release(decPool) \in Nat /\ Release(decPool) <= decPool + 1
      /\ Release(compPool) \in Nat /\ Release(compPool) <= compPool + 1
  BY <1>t, PoolMove
<1>6. PICK k \in Nat : decPool' = k /\ k <= decPool + DecHand
  BY <1>1, <1>2, <1>5, <1>t
<1>7. PICK i \in Nat : compPool' = i /\ i <= compPool + CompHand
  BY <1>1, <1>2, <1>5, <1>t
<1>8. decPool' + DecHand' + Decoding' + Blocks' <= N + 3
  BY <1>2, <1>3, <1>6, <1>t, <1>i
<1>9. compPool' + CompHand' + Queued' + Decoding' <= N + 3
  BY <1>2, <1>3, <1>7, <1>t, <1>i
<1> QED
  BY <1>1, <1>4, <1>8, <1>9, <1>i DEF BufferInv

\* Answering for a job adds a result at most, and a block only if it is one.
LEMMA AnswerCount ==
  ASSUME IsFiniteSet(results), NEW j, NEW e, results' = Answer(j, e)
  PROVE  /\ IsFiniteSet(results')
         /\ \E a \in Nat, b \in Nat :
              /\ Answered' = a /\ a <= Answered + 1
              /\ Blocks' = b /\ b <= Blocks + 1
              /\ e # "none" => b = Blocks
PROOF
<1> DEFINE x == [ch |-> j.ch, id |-> j.id, len |-> j.len, e |-> e]
<1>1. results' = results \/ results' = results \cup {x}
  BY DEF Answer
<1>2. x.e = e
  OBVIOUS
<1> HIDE DEF x
<1>t. Answered \in Nat /\ Blocks \in Nat
  BY ResultCount DEF Answered, Blocks
<1>3. CASE results' = results
  <2>1. Answered' = Answered /\ Blocks' = Blocks
    BY <1>3 DEF Answered, Blocks
  <2> QED
    BY <1>3, <1>t, <2>1
<1>4. CASE results' = results \cup {x}
  <2>1. /\ IsFiniteSet(results') /\ Answered' <= Answered + 1 /\ Blocks' <= Blocks + 1
        /\ e # "none" => Blocks' = Blocks
    BY <1>2, <1>4, ResultAdded DEF Answered, Blocks
  <2>2. Answered' \in Nat /\ Blocks' \in Nat
    BY <2>1, ResultCount DEF Answered, Blocks
  <2> QED
    BY <2>1, <2>2
<1> QED
  BY <1>1, <1>3, <1>4

\* The dispatcher's block becomes a result, or a worker's job.
LEMMA BufferHanded ==
  ASSUME OrderInv, BufferInv, Fill \/ SubmitJob
  PROVE  BufferInv'
PROOF
<1>t. /\ InHand \in Nat /\ Queued \in Nat /\ Decoding \in Nat /\ Answered \in Nat
      /\ Blocks \in Nat /\ Blocks <= Answered /\ CompHand \in Nat /\ DecHand \in Nat
      /\ CompHand <= 1 /\ DecHand <= 1 /\ LiveJobs \in Nat /\ compPool \in Nat
      /\ decPool \in Nat /\ N \in Nat /\ Len(sent) \in Nat /\ Len(out) \in Nat
  BY CountTypes DEF BufferInv, OrderInv
<1>i. /\ IsFiniteSet(results) /\ (wr # "gone" => LiveJobs + Len(out) <= Len(sent))
      /\ LiveJobs <= N + 2
      /\ compPool + CompHand + Queued + Decoding <= N + 3
      /\ decPool + DecHand + Decoding + Blocks <= N + 3
  BY DEF BufferInv
<1>a. slot \in [Workers -> Job] /\ busy \in [Workers -> Job] /\ hand \in Job /\ cur \in Workers
  BY DEF OrderInv, TypeOK, DispatcherTypeOK, ThreadTypeOK
<1>1. /\ UNCHANGED <<busy, sent, out, wr, compPool, decPool>> /\ pc' = "loop"
      /\ pc = "fill" \/ Submitting
  BY DEF Fill, SubmitJob, sinkVars, Submitting
<1>2. InHand' = 0 /\ InHand = 1 /\ CompHand' = 0 /\ DecHand' = 0 /\ Decoding' = Decoding
  BY <1>1 DEF InHand, CompHand, DecHand, Decoding, Submitting
<1>3. CASE Fill
  <2>1. slot' = slot /\ results' = Answer(hand, "none") /\ DecHand = 1
    BY <1>3 DEF Fill, DecHand, OrderInv, HandInv
  <2>2. IsFiniteSet(results')
    BY <1>i, <2>1, AnswerCount
  <2>3. PICK a \in Nat, b \in Nat : /\ Answered' = a /\ a <= Answered + 1
                                    /\ Blocks' = b /\ b <= Blocks + 1
    BY <1>i, <2>1, AnswerCount
  <2>4. Queued' = Queued
    BY <2>1 DEF Queued
  <2>5. PICK l \in Nat : LiveJobs' = l /\ l <= LiveJobs
    BY <1>2, <1>t, <2>3, <2>4 DEF LiveJobs
  <2>6. decPool' + DecHand' + Decoding' + Blocks' <= N + 3
    BY <1>1, <1>2, <1>t, <1>i, <2>1, <2>3
  <2>7. compPool' + CompHand' + Queued' + Decoding' <= N + 3
    BY <1>1, <1>2, <1>t, <1>i, <2>4
  <2>8. LiveJobs' <= N + 2 /\ (wr' # "gone" => LiveJobs' + Len(out') <= Len(sent'))
    BY <1>1, <1>t, <1>i, <2>5
  <2> QED
    BY <2>2, <2>6, <2>7, <2>8 DEF BufferInv
<1>4. CASE SubmitJob
  <2>1. /\ slot' = [slot EXCEPT ![cur] = hand] /\ slot[cur] = NoJob /\ results' = results
        /\ Submitting
    BY <1>4 DEF SubmitJob, Submitting
  <2>2. hand # NoJob /\ CompHand = 1
    BY <2>1 DEF OrderInv, HandInv, JobOk, NoJob, CompHand, Submitting
  <2>3. Queued' = Queued + 1
    BY <1>a, <2>1, <2>2, UsedCount DEF Queued
  <2>4. Answered' = Answered /\ Blocks' = Blocks
    BY <2>1 DEF Answered, Blocks
  <2>5. LiveJobs' = LiveJobs
    BY <1>2, <1>t, <2>3, <2>4 DEF LiveJobs
  <2>6. decPool' + DecHand' + Decoding' + Blocks' <= N + 3
    BY <1>1, <1>2, <1>t, <1>i, <2>4
  <2>7. compPool' + CompHand' + Queued' + Decoding' <= N + 3
    BY <1>1, <1>2, <1>t, <1>i, <2>2, <2>3
  <2> QED
    BY <1>1, <1>i, <2>1, <2>5, <2>6, <2>7 DEF BufferInv
<1> QED
  BY <1>3, <1>4

\* A worker takes a job and a decoded buffer, a new one only from an empty pool.
LEMMA BufferTake ==
  ASSUME OrderInv, BufferInv, NEW w \in Workers, WorkerTake(w)
  PROVE  BufferInv'
PROOF
<1>t. /\ InHand \in Nat /\ Queued \in Nat /\ Decoding \in Nat /\ Answered \in Nat
      /\ Blocks \in Nat /\ Blocks <= Answered /\ CompHand \in Nat /\ DecHand \in Nat
      /\ CompHand <= 1 /\ DecHand <= 1 /\ LiveJobs \in Nat /\ compPool \in Nat
      /\ decPool \in Nat /\ N \in Nat /\ Len(sent) \in Nat /\ Len(out) \in Nat
  BY CountTypes DEF BufferInv, OrderInv
<1>i. /\ IsFiniteSet(results) /\ (wr # "gone" => LiveJobs + Len(out) <= Len(sent))
      /\ LiveJobs <= N + 2
      /\ compPool + CompHand + Queued + Decoding <= N + 3
      /\ decPool + DecHand + Decoding + Blocks <= N + 3
  BY DEF BufferInv
<1>a. slot \in [Workers -> Job] /\ busy \in [Workers -> Job] /\ hand \in Job /\ cur \in Workers
  BY DEF OrderInv, TypeOK, DispatcherTypeOK, ThreadTypeOK
<1>1. /\ UNCHANGED <<pc, hand, sent, out, wr, compPool, results>>
      /\ slot[w] # NoJob /\ busy' = [busy EXCEPT ![w] = slot[w]] /\ slot[w] \in Job
      /\ slot' = [slot EXCEPT ![w] = NoJob]
      /\ decPool' = IF decPool > 0 THEN decPool - 1 ELSE 0
  BY <1>a DEF WorkerTake, Acquire, dispVars, sinkVars
<1>2. InHand' = InHand /\ CompHand' = CompHand /\ DecHand' = DecHand
  BY <1>1 DEF InHand, CompHand, DecHand, Submitting
<1>3. Answered' = Answered /\ Blocks' = Blocks
  BY <1>1 DEF Answered, Blocks
<1>4. Queued' = Queued - 1 /\ Queued >= 1
  BY <1>1, <1>a, NoJobIsJob, UsedCount, QueuedOne DEF Queued
<1>5. PICK d \in Nat : Decoding' = d /\ d <= Decoding + 1
  <2>1. Decoding' = Decoding + 1 \/ Decoding' = Decoding
    BY <1>1, <1>a, UsedCount DEF Decoding
  <2> QED
    BY <1>t, <2>1
<1>6. PICK l \in Nat : LiveJobs' = l /\ l <= LiveJobs
  BY <1>2, <1>3, <1>4, <1>5, <1>t DEF LiveJobs
<1>7. compPool' + CompHand' + Queued' + Decoding' <= N + 3
  BY <1>1, <1>2, <1>4, <1>5, <1>t, <1>i
<1>8. decPool' + DecHand' + Decoding' + Blocks' <= N + 3
  <2>1. CASE decPool > 0
    <3>1. decPool' = decPool - 1
      BY <1>1, <2>1
    <3> QED
      BY <1>2, <1>3, <1>5, <1>t, <1>i, <3>1
  <2>2. CASE decPool = 0
    <3>1. decPool' = 0
      BY <1>1, <2>2
    <3>2. Decoding + 1 + Blocks <= LiveJobs
      BY <1>4, <1>t DEF LiveJobs
    <3> QED
      BY <1>2, <1>3, <1>5, <1>t, <1>i, <3>1, <3>2
  <2> QED
    BY <1>t, <2>1, <2>2
<1>9. LiveJobs' <= N + 2 /\ (wr' # "gone" => LiveJobs' + Len(out') <= Len(sent'))
  BY <1>1, <1>6, <1>t, <1>i
<1> QED
  BY <1>1, <1>i, <1>7, <1>8, <1>9 DEF BufferInv

\* A worker answers: the compressed buffer goes back, the decoded one is the result
\* or goes back too.
LEMMA BufferFinish ==
  ASSUME OrderInv, BufferInv, NEW w \in Workers, WorkerFinish(w)
  PROVE  BufferInv'
PROOF
<1>t. /\ InHand \in Nat /\ Queued \in Nat /\ Decoding \in Nat /\ Answered \in Nat
      /\ Blocks \in Nat /\ Blocks <= Answered /\ CompHand \in Nat /\ DecHand \in Nat
      /\ CompHand <= 1 /\ DecHand <= 1 /\ LiveJobs \in Nat /\ compPool \in Nat
      /\ decPool \in Nat /\ N \in Nat /\ Len(sent) \in Nat /\ Len(out) \in Nat
  BY CountTypes DEF BufferInv, OrderInv
<1>i. /\ IsFiniteSet(results) /\ (wr # "gone" => LiveJobs + Len(out) <= Len(sent))
      /\ LiveJobs <= N + 2
      /\ compPool + CompHand + Queued + Decoding <= N + 3
      /\ decPool + DecHand + Decoding + Blocks <= N + 3
  BY DEF BufferInv
<1>a. slot \in [Workers -> Job] /\ busy \in [Workers -> Job] /\ hand \in Job /\ cur \in Workers
  BY DEF OrderInv, TypeOK, DispatcherTypeOK, ThreadTypeOK
<1> DEFINE e == Decoded(busy[w])
<1>1. /\ UNCHANGED <<pc, hand, sent, out, wr, slot>> /\ busy[w] # NoJob
      /\ busy' = [busy EXCEPT ![w] = NoJob] /\ results' = Answer(busy[w], e)
      /\ compPool' = Release(compPool)
      /\ decPool' = IF e = "none" THEN decPool ELSE Release(decPool)
  BY DEF WorkerFinish, dispVars, sinkVars, OrderInv, JobInv
<1> HIDE DEF e
<1>2. InHand' = InHand /\ CompHand' = CompHand /\ DecHand' = DecHand /\ Queued' = Queued
  BY <1>1 DEF InHand, CompHand, DecHand, Submitting, Queued
<1>3. Decoding' = Decoding - 1 /\ Decoding >= 1
  <2>1. Decoding' = Decoding - 1
    BY <1>1, <1>a, NoJobIsJob, UsedCount DEF Decoding
  <2>2. Decoding' \in Nat
    <3>1. busy' \in [Workers -> Job]
      BY <1>1, <1>a, NoJobIsJob
    <3> QED
      BY <3>1, NextWorker, NoJobIsJob, UsedCount DEF Decoding
  <2> QED
    BY <1>t, <2>1, <2>2
<1>4. IsFiniteSet(results')
  BY <1>i, <1>1, AnswerCount
<1>5. PICK a \in Nat, b \in Nat : /\ Answered' = a /\ a <= Answered + 1
                                  /\ Blocks' = b /\ b <= Blocks + 1
                                  /\ e # "none" => b = Blocks
  BY <1>i, <1>1, AnswerCount
<1>6. PICK l \in Nat : LiveJobs' = l /\ l <= LiveJobs
  BY <1>2, <1>3, <1>5, <1>t DEF LiveJobs
<1>7. PICK i \in Nat : compPool' = i /\ i <= compPool + 1
  BY <1>1, <1>t, PoolMove
<1>8. compPool' + CompHand' + Queued' + Decoding' <= N + 3
  BY <1>2, <1>3, <1>7, <1>t, <1>i
<1>9. decPool' + DecHand' + Decoding' + Blocks' <= N + 3
  <2>1. CASE e = "none"
    <3>1. decPool' = decPool
      BY <1>1, <2>1
    <3> QED
      BY <1>2, <1>3, <1>5, <1>t, <1>i, <3>1
  <2>2. CASE e # "none"
    <3>1. PICK k \in Nat : decPool' = k /\ k <= decPool + 1
      <4>1. Release(decPool) \in Nat /\ Release(decPool) <= decPool + 1
        BY <1>t, PoolMove
      <4> QED
        BY <1>1, <2>2, <4>1
    <3>2. Blocks' = Blocks
      BY <1>5, <2>2
    <3> QED
      BY <1>2, <1>3, <1>t, <1>i, <3>1, <3>2
  <2> QED
    BY <2>1, <2>2
<1>10. LiveJobs' <= N + 2 /\ (wr' # "gone" => LiveJobs' + Len(out') <= Len(sent'))
  BY <1>1, <1>6, <1>t, <1>i
<1> QED
  BY <1>4, <1>8, <1>9, <1>10 DEF BufferInv

\* A worker that ends drops what it had.
LEMMA BufferWorkerStops ==
  ASSUME OrderInv, BufferInv, NEW w \in Workers, WorkerStops(w)
  PROVE  BufferInv'
PROOF
<1>t. /\ InHand \in Nat /\ Queued \in Nat /\ Decoding \in Nat /\ Answered \in Nat
      /\ Blocks \in Nat /\ Blocks <= Answered /\ CompHand \in Nat /\ DecHand \in Nat
      /\ CompHand <= 1 /\ DecHand <= 1 /\ LiveJobs \in Nat /\ compPool \in Nat
      /\ decPool \in Nat /\ N \in Nat /\ Len(sent) \in Nat /\ Len(out) \in Nat
  BY CountTypes DEF BufferInv, OrderInv
<1>i. /\ IsFiniteSet(results) /\ (wr # "gone" => LiveJobs + Len(out) <= Len(sent))
      /\ LiveJobs <= N + 2
      /\ compPool + CompHand + Queued + Decoding <= N + 3
      /\ decPool + DecHand + Decoding + Blocks <= N + 3
  BY DEF BufferInv
<1>a. slot \in [Workers -> Job] /\ busy \in [Workers -> Job] /\ hand \in Job /\ cur \in Workers
  BY DEF OrderInv, TypeOK, DispatcherTypeOK, ThreadTypeOK
<1>1. /\ UNCHANGED <<pc, hand, sent, out, wr, results, compPool, decPool>>
      /\ busy' = busy \/ busy' = [busy EXCEPT ![w] = NoJob]
      /\ slot' = slot \/ slot' = [slot EXCEPT ![w] = NoJob]
  BY DEF WorkerStops, WorkerPanic, WorkerUnwound, WorkerExit, dispVars, sinkVars
<1>2. /\ InHand' = InHand /\ CompHand' = CompHand /\ DecHand' = DecHand
      /\ Answered' = Answered /\ Blocks' = Blocks
  BY <1>1 DEF InHand, CompHand, DecHand, Submitting, Answered, Blocks
<1>b. slot' \in [Workers -> Job] /\ busy' \in [Workers -> Job]
  BY <1>1, <1>a, NoJobIsJob
<1>c. Queued' \in Nat /\ Decoding' \in Nat
  BY <1>b, NextWorker, NoJobIsJob, UsedCount DEF Queued, Decoding
<1>3. PICK q \in Nat : Queued' = q /\ q <= Queued
  <2>1. CASE slot' = slot
    BY <2>1, <1>t DEF Queued
  <2>2. CASE slot' = [slot EXCEPT ![w] = NoJob]
    <3>1. Queued' = Queued - 1 \/ Queued' = Queued
      BY <2>2, <1>a, NoJobIsJob, UsedCount DEF Queued
    <3> QED
      BY <3>1, <1>c, <1>t
  <2> QED
    BY <1>1, <2>1, <2>2
<1>4. PICK d \in Nat : Decoding' = d /\ d <= Decoding
  <2>1. CASE busy' = busy
    BY <2>1, <1>t DEF Decoding
  <2>2. CASE busy' = [busy EXCEPT ![w] = NoJob]
    <3>1. Decoding' = Decoding - 1 \/ Decoding' = Decoding
      BY <2>2, <1>a, NoJobIsJob, UsedCount DEF Decoding
    <3> QED
      BY <3>1, <1>c, <1>t
  <2> QED
    BY <1>1, <2>1, <2>2
<1>5. PICK l \in Nat : LiveJobs' = l /\ l <= LiveJobs
  BY <1>2, <1>3, <1>4, <1>t DEF LiveJobs
<1>6. compPool' + CompHand' + Queued' + Decoding' <= N + 3
  BY <1>1, <1>2, <1>3, <1>4, <1>t, <1>i
<1>7. decPool' + DecHand' + Decoding' + Blocks' <= N + 3
  BY <1>1, <1>2, <1>4, <1>t, <1>i
<1>8. LiveJobs' <= N + 2 /\ (wr' # "gone" => LiveJobs' + Len(out') <= Len(sent'))
  BY <1>1, <1>5, <1>t, <1>i
<1> QED
  BY <1>1, <1>i, <1>6, <1>7, <1>8 DEF BufferInv

\* A block that is written, or fails to be, returns its buffer and is a job no more.
LEMMA BufferWrite ==
  ASSUME OrderInv, BufferInv, NEW r \in results, WriteBlock(r) \/ WriteFails(r)
  PROVE  BufferInv'
PROOF
<1>t. /\ InHand \in Nat /\ Queued \in Nat /\ Decoding \in Nat /\ Answered \in Nat
      /\ Blocks \in Nat /\ Blocks <= Answered /\ CompHand \in Nat /\ DecHand \in Nat
      /\ CompHand <= 1 /\ DecHand <= 1 /\ LiveJobs \in Nat /\ compPool \in Nat
      /\ decPool \in Nat /\ N \in Nat /\ Len(sent) \in Nat /\ Len(out) \in Nat
  BY CountTypes DEF BufferInv, OrderInv
<1>i. /\ IsFiniteSet(results) /\ (wr # "gone" => LiveJobs + Len(out) <= Len(sent))
      /\ LiveJobs <= N + 2
      /\ compPool + CompHand + Queued + Decoding <= N + 3
      /\ decPool + DecHand + Decoding + Blocks <= N + 3
  BY DEF BufferInv
<1>1. /\ UNCHANGED <<pc, hand, sent, slot, busy, compPool>> /\ wr # "gone" /\ r.e = "none"
      /\ decPool' = Release(decPool) /\ results' = results \ {r}
  BY DEF WriteBlock, WriteFails, Answers, dispVars
<1>2. /\ InHand' = InHand /\ CompHand' = CompHand /\ DecHand' = DecHand
      /\ Queued' = Queued /\ Decoding' = Decoding
  BY <1>1 DEF InHand, CompHand, DecHand, Submitting, Queued, Decoding
<1>3. Answered' = Answered - 1 /\ Blocks' = Blocks - 1 /\ IsFiniteSet(results')
  BY <1>1, <1>i, ResultTaken, FS_RemoveElement DEF Answered, Blocks
<1>4. LiveJobs' = LiveJobs - 1
  BY <1>2, <1>3, <1>t DEF LiveJobs
<1>5. PICK k \in Nat : decPool' = k /\ k <= decPool + 1
  BY <1>1, <1>t, PoolMove
<1>6. PICK o \in Nat : Len(out') = o /\ o <= Len(out) + 1
  BY <1>t, WriteBlockKeeps DEF WriteFails
<1>7. compPool' + CompHand' + Queued' + Decoding' <= N + 3
  BY <1>1, <1>2, <1>i
<1>8. decPool' + DecHand' + Decoding' + Blocks' <= N + 3
  BY <1>2, <1>3, <1>5, <1>t, <1>i
<1>9. LiveJobs' <= N + 2 /\ LiveJobs' + Len(out') <= Len(sent')
  BY <1>1, <1>4, <1>6, <1>t, <1>i
<1> QED
  BY <1>3, <1>7, <1>8, <1>9 DEF BufferInv

\* Every step keeps the buffers within their bounds.
LEMMA BufferInvStep ==
  ASSUME OrderInv, LagInv, BufferInv, [Next]_vars
  PROVE  BufferInv'
PROOF
<1>0. TypeOK /\ compPool \in Nat /\ decPool \in Nat
  BY CountTypes DEF OrderInv, BufferInv
<1>1. CASE Aborting
  <2>1. CASE SubmitFails
    <3>1. /\ UNCHANGED <<slot, busy, compPool, decPool, sent, out, results, wr>>
          /\ pc' = "close"
      BY <2>1 DEF SubmitFails, Leave, sinkVars
    <3> QED
      BY <1>0, <3>1, BufferQuiet
  <2> QED
    BY <1>1, <2>1, BufferSendOrderFails DEF Aborting
<1>2. CASE Stopping
  <2>1. CASE \E r \in results : WriteFails(r)
    BY <2>1, BufferWrite
  <2>2. CASE \/ (\E r \in results : WriteDecodeError(r)) \/ WorkerLost \/ WriterExit
             \/ WriterPanic \/ (WriterEnd /\ wr' = "failing")
    <3>1. UNCHANGED <<compPool, decPool>>
      BY <2>2 DEF WriteDecodeError, WorkerLost, WriterExit, WriterPanic, WriterEnd
    <3>2. /\ UNCHANGED <<slot, busy, sent, out, pc, hand>> /\ results' \in SUBSET results
          /\ wr # "gone"
      BY <1>2, <1>0, StoppingFrame DEF dispVars
    <3> QED
      BY <1>0, <3>1, <3>2, BufferQuiet
  <2> QED
    BY <1>2, <2>1, <2>2 DEF Stopping
<1>3. CASE DispatchMeta \/ CloseChannels \/ Join \/ SubmitFull
  <2>1. /\ UNCHANGED <<slot, busy, compPool, decPool, sent, out, hand, results, wr>>
        /\ \/ pc' \notin {"order", "fill", "try", "blocked"}
           \/ pc' = pc \/ (Submitting /\ pc' = "blocked")
    BY <1>3 DEF DispatchMeta, SubmitFull, CloseChannels, Join, sinkVars, Submitting
  <2> QED
    BY <1>0, <2>1, BufferQuiet
<1>4. CASE WriterTake \/ (WriterEnd /\ wr' = "gone") \/ UNCHANGED vars
  <2>1. /\ UNCHANGED <<slot, busy, compPool, decPool, sent, out, pc, hand, results>>
        /\ wr' # "gone" => wr # "gone"
    BY <1>4 DEF WriterTake, WriterEnd, vars, dispVars, sinkVars
  <2> QED
    BY <1>0, <2>1, BufferQuiet
<1> QED
  BY <1>1, <1>2, <1>3, <1>4, NextCases, BufferLeaving, BufferRead, BufferSendOrder,
     BufferHanded, BufferTake, BufferFinish, BufferWorkerStops, BufferWrite

\* Memory is bounded: with the recycled ones there are never more than N + 3
\* compressed and N + 3 decoded buffers, whatever fails.
THEOREM BuffersStayBounded == Spec => []BuffersBounded
PROOF
<1>1. Init => BufferInv /\ LagInv
  <2> SUFFICES ASSUME Init PROVE BufferInv /\ LagInv
    OBVIOUS
  <2>1. /\ IsFiniteSet({}) /\ Cardinality({}) = 0 /\ Len(<<>>) = 0 /\ N \in Nat
    BY FS_EmptySet, NAssumption
  <2>2. /\ results = {} /\ UsedBy(slot) = {} /\ UsedBy(busy) = {}
        /\ {r \in results : r.e = "none"} = {} /\ InHand = 0 /\ CompHand = 0 /\ DecHand = 0
        /\ compPool = 0 /\ decPool = 0 /\ sent = <<>> /\ out = <<>> /\ order = <<>>
    BY DEF Init, UsedBy, InHand, CompHand, DecHand, Submitting
  <2>3. Queued = 0 /\ Decoding = 0 /\ Answered = 0 /\ Blocks = 0
    BY <2>1, <2>2 DEF Queued, Decoding, Answered, Blocks
  <2>4. LagInv
    BY <2>1, <2>2 DEF LagInv
  <2>5. BufferInv
    BY <2>1, <2>2, <2>3 DEF BufferInv, LiveJobs
  <2> QED
    BY <2>4, <2>5
<1>2. OrderInv => TypeOK
  BY DEF OrderInv
<1> QED
  BY <1>1, <1>2, OrderInvInit, OrderInvStep, LagInvStep, BufferInvStep, BufferInvBounds, PTL
  DEF Spec
=============================================================================
