------------------------- MODULE StreamWriterProofs -------------------------
(* Theorems about StreamWriter: what a Reader makes of the sink, for every   *)
(* block size, all options and every sequence of calls and failures.         *)
EXTENDS StreamWriter, Induction, SequenceTheorems, TLAPS

----------------------------------------------------------------------------
(* The inductive invariant *)

\* The Reader behind the last chunk of a stream, and of what is on the sink.
Behind(st) == Reader!RunUpTo(st)[Len(st)]
Got == Behind(wire)

\* Where a Reader is in the data.
At(s) == s.start + s.block.len

Indexing == opts.genIndex \/ opts.appendIndex
Closes == call \in {"finish", "closeindex"}

\* The EOF chunk is on the sink.
Done == wroteHeader /\ ~Got.expectEof

\* The data the call in progress writes ends here.
Target == accepted - rest

\* A block to be written continues the one before it, the first what is written, and
\* the last ends at the target.
DataOk(i) ==
  LET c == work[i]
      first == i = 1 \/ work[i - 1].t # "data"
      last == i = Len(work) \/ work[i + 1].t # "data"
  IN /\ c.n \in 1..BlockSize
     /\ \A j \in 1..(i - 1) : work[j].t \in {"sid", "data"}
     /\ c.off = IF first THEN uncomp ELSE work[i - 1].off + work[i - 1].n
     /\ last => c.off + c.n = Target

\* What a call writes, in the order it does.
ItemOk(i) ==
  LET c == work[i]
  IN /\ c.bad = "no"
     /\ c.t \in {"sid", "data", "user", "eof", "seal", "skip", "index", "sync"}
     /\ c.t = "sid" => i = 1 /\ ~wroteHeader /\ c = Header
     /\ c.t = "data" => DataOk(i)
     /\ c.t \in {"data", "user"} => ~Done
     /\ c.t = "eof" => Len(work) = i + 1 /\ work[i + 1].t = "seal" /\ Closes /\ ~Done
     /\ c.t = "seal" => i = Len(work) /\ Closes /\ (i = 1 => Done)
     /\ c.t \in {"skip", "index"} => Done /\ Closes
     /\ c.t = "skip" => i = 1 /\ c.size >= ChunkHeader
     /\ c.t = "index" => (i = 1 \/ (i = 2 /\ work[1].t = "skip"))
     /\ c.t = "sync" => i = Len(work)

\* The index that comp counts and the sink has not got.
Owed == IF work # <<>> /\ work[1].t = "index" THEN work[1].size
        ELSE IF Len(work) > 1 /\ work[1].t = "skip" /\ work[2].t = "index" THEN work[2].size
        ELSE 0

\* The padding still to be written.
Unpadded == IF work # <<>> /\ work[1].t = "skip" THEN work[1].size ELSE 0

\* The call in progress.
WorkInv ==
  /\ pc # "step" => work = <<>>
  /\ pc = "step" =>
       /\ err = "none" /\ ibuf = 0
       /\ \A i \in 1..Len(work) : ItemOk(i)
       /\ (\A i \in 1..Len(work) : work[i].t # "data") => uncomp = Target
       /\ call # "write" => rest = 0
       /\ work # <<>> /\ ~wroteHeader => work[1].t \in {"sid", "sync"}
       /\ Closes /\ work = <<>> => Done
       /\ Closes /\ ~Done => work # <<>> /\ Len(work) > 1 /\ work[Len(work)].t = "seal"
                             /\ work[Len(work) - 1].t = "eof"
       /\ Done => Closes
  /\ pc = "idle" /\ err = "none" => uncomp + ibuf = accepted /\ ~Done

\* While nothing has failed, the Reader has taken all there is on the sink.
GotInv ==
  err = "none" =>
    /\ wroteHeader <=> wire # <<>>
    /\ Got.err = "none" /\ Got.header = Got.expectEof
    /\ IF wroteHeader THEN Got.max = Announced /\ At(Got) = uncomp
                      ELSE uncomp = 0
    /\ Tally(wire).bytes = [i \in 1..uncomp |-> i]
    /\ Done => \E k \in 1..Len(wire) : wire[k].t = "eof" /\ wire[k].bad = "no"

\* The count of written bytes and the index agree with the sink.
CountInv ==
  err = "none" => /\ comp = Tally(wire).size + Owed
                  /\ Indexing => index = Tally(wire).starts

\* Behind the seal the padding that is left makes the count a multiple.
PadInv ==
  /\ \A k \in 1..Len(wire) : wire[k].t = "skip" => wire[k].size >= ChunkHeader
  /\ /\ pc = "step" /\ Done /\ opts.padding > 1
     /\ \A i \in 1..Len(work) : work[i].t # "seal"
     => (comp + Unpadded) % opts.padding = 0

\* A failure leaves the sink for good.
FailInv == err # "none" => TruncationDetected /\ IndexExact

EndInv == Complete => /\ err = "none" /\ Done /\ uncomp = accepted
                      /\ opts.padding > 1 => comp % opts.padding = 0

SinkInv == /\ TypeOK /\ WorkInv /\ GotInv /\ CountInv /\ PadInv /\ FailInv /\ EndInv

----------------------------------------------------------------------------
(* Reading a stream chunk by chunk *)

Held == [id : Nat, len : Nat]
ReaderState == [header : BOOLEAN, expectEof : BOOLEAN, start : Nat, block : Held,
                at : Nat, max : Nat,
                err : {"none", "corrupt", "toolarge", "unsupported", "crc", "callback"}]

\* The Reader stays well-typed.
LEMMA HandleType ==
  ASSUME NEW s \in ReaderState, NEW c \in ChunkRec, NEW i \in Nat
  PROVE  Reader!HandleChunk(s, c, i) \in ReaderState
PROOF
<1>0. Reader!NoBlock \in Held /\ [id |-> i, len |-> c.n] \in Held /\ c.n \in Nat
  BY DEF Reader!NoBlock, Held, ChunkRec
<1>2. \A q \in ReaderState : /\ Reader!Err(q, "corrupt") \in ReaderState
                             /\ Reader!Err(q, "toolarge") \in ReaderState
                             /\ Reader!Err(q, "unsupported") \in ReaderState
                             /\ Reader!Err(q, "crc") \in ReaderState
                             /\ Reader!Err(q, "callback") \in ReaderState
  BY DEF Reader!Err, ReaderState
<1>3. \A q \in ReaderState : /\ Reader!Passed(q) \in ReaderState
                             /\ Reader!Load(q, c, i) \in ReaderState
                             /\ [q EXCEPT !.block = Reader!NoBlock] \in ReaderState
                             /\ [q EXCEPT !.at = 0] \in ReaderState
  <2>1. \A q \in ReaderState : q.start + q.block.len \in Nat
    BY DEF ReaderState, Held
  <2> QED
    BY <1>0, <2>1 DEF Reader!Passed, Reader!Load, ReaderState
<1>4. Reader!PastGate(s, c) \in ReaderState
  BY DEF Reader!PastGate, ReaderState
<1>5. \A q \in ReaderState : Reader!Checked(q, c, 0) \in ReaderState
  BY <1>2, <1>3 DEF Reader!Checked
<1>6. \A q \in ReaderState : Reader!HandleCompressed(q, c, i) \in ReaderState
  BY <1>2, <1>3, <1>5 DEF Reader!HandleCompressed
<1>7. \A q \in ReaderState : Reader!HandleUncompressed(q, c, i) \in ReaderState
  BY <1>2, <1>3, <1>5 DEF Reader!HandleUncompressed
<1>8. \A q \in ReaderState : Reader!HandleEof(q, c) \in ReaderState
  <2>1. \A q \in ReaderState :
          [q EXCEPT !.expectEof = FALSE, !.header = FALSE] \in ReaderState
    BY DEF ReaderState
  <2> QED
    BY <1>2, <2>1 DEF Reader!HandleEof
<1>9. \A q \in ReaderState : Reader!HandleStreamIdentifier(q, c) \in ReaderState
  <2>1. \A q \in ReaderState :
          [q EXCEPT !.max = c.n, !.start = 0, !.block = Reader!NoBlock, !.at = 0,
                    !.expectEof = TRUE] \in ReaderState
    BY <1>0 DEF ReaderState
  <2> QED
    BY <1>2, <2>1 DEF Reader!HandleStreamIdentifier
<1>10. \A q \in ReaderState : Reader!HandleSkippable(q, c) \in ReaderState
  BY <1>2 DEF Reader!HandleSkippable
<1>11. \A q \in ReaderState : Reader!HandleMeta(q, c) \in ReaderState
  BY <1>2, <1>8, <1>9, <1>10 DEF Reader!HandleMeta
<1> QED
  BY <1>2, <1>4, <1>6, <1>7, <1>11 DEF Reader!HandleChunk

\* One turn of the Reader, which stops at its first error.
Turn(s, c, i) == IF s.err # "none" THEN s ELSE Reader!HandleChunk(s, c, i)

\* The turns a stream asks for.
Turns(st) == [k \in 1..Len(st) |-> [s \in ReaderState |-> Turn(s, st[k], k)]]

\* Turns lead from states of the Reader to states of the Reader.
LEMMA TurnsType ==
  ASSUME NEW st \in Seq(ChunkRec)
  PROVE  /\ Turns(st) \in [1..Len(st) -> [ReaderState -> ReaderState]]
         /\ Reader!Fresh \in ReaderState
PROOF
<1>1. ASSUME NEW k \in 1..Len(st), NEW s \in ReaderState PROVE Turn(s, st[k], k) \in ReaderState
  <2>1. st[k] \in ChunkRec /\ k \in Nat
    OBVIOUS
  <2> QED
    BY <2>1, HandleType DEF Turn
<1>2. MaxBlockSize \in Nat
  BY SizeAssumption
<1> QED
  BY <1>1, <1>2 DEF Turns, Reader!Fresh, Reader!NoBlock, ReaderState, Held

\* RunUpTo takes these turns.
LEMMA RunIs ==
  ASSUME NEW st \in Seq(ChunkRec)
  PROVE  \E f \in [0..Len(st) -> ReaderState] :
           /\ Iterates(f, Len(st), Reader!Fresh, Turns(st))
           /\ \A k \in 0..Len(st) : Reader!RunUpTo(st)[k] = f[k]
PROOF
<1> DEFINE n == Len(st)
           P(r) == r = [k \in 0..n |-> IF k = 0 THEN Reader!Fresh
                                       ELSE IF r[k - 1].err # "none" THEN r[k - 1]
                                       ELSE Reader!HandleChunk(r[k - 1], st[k], k)]
           h == CHOOSE r : P(r)
<1>1. n \in Nat
  OBVIOUS
<1>2. Reader!RunUpTo(st) = h
  BY Zenon DEF Reader!RunUpTo, Reader!RunFrom
<1>3. PICK f \in [0..n -> ReaderState] : Iterates(f, n, Reader!Fresh, Turns(st))
  BY <1>1, TurnsType, StepsExist
<1>4. ASSUME NEW k \in 1..n, NEW s \in ReaderState PROVE Turns(st)[k][s] = Turn(s, st[k], k)
  BY DEF Turns
<1>5. ASSUME NEW k \in 0..n
      PROVE  f[k] = IF k = 0 THEN Reader!Fresh
                    ELSE IF f[k - 1].err # "none" THEN f[k - 1]
                    ELSE Reader!HandleChunk(f[k - 1], st[k], k)
  <2>1. CASE k = 0
    BY <1>3, <2>1 DEF Iterates
  <2>2. CASE k # 0
    <3>1. k \in 1..n /\ k - 1 \in 0..n
      BY <1>1, <2>2
    <3>2. f[k - 1] \in ReaderState /\ f[k] = Turns(st)[k][f[k - 1]]
      BY <1>3, <3>1 DEF Iterates
    <3> QED
      BY <1>4, <2>2, <3>1, <3>2 DEF Turn
  <2> QED
    BY <2>1, <2>2
<1>6. P(f)
  <2> HIDE DEF n
  <2>1. f = [k \in 0..n |-> f[k]]
    OBVIOUS
  <2> QED
    BY <1>5, <2>1
<1>7. P(h)
  <2> HIDE DEF P
  <2> QED
    BY <1>6, Zenon
<1> HIDE DEF h
<1>8. ASSUME NEW k \in 0..n
      PROVE  h[k] = IF k = 0 THEN Reader!Fresh
                    ELSE IF h[k - 1].err # "none" THEN h[k - 1]
                    ELSE Reader!HandleChunk(h[k - 1], st[k], k)
  BY <1>7
<1>9. h[0] = Reader!Fresh
  <2>1. 0 \in 0..n
    BY <1>1
  <2> QED
    BY <1>8, <2>1
<1>10. ASSUME NEW k \in 1..n, h[k - 1] \in ReaderState PROVE h[k] = Turns(st)[k][h[k - 1]]
  <2>1. k \in 0..n /\ k # 0
    BY <1>1
  <2>2. h[k] = Turn(h[k - 1], st[k], k)
    BY <1>8, <2>1 DEF Turn
  <2> QED
    BY <1>4, <1>10, <2>2
<1>11. \A k \in 0..n : h[k] = f[k]
  <2>1. TakesSteps(h, n, ReaderState, Reader!Fresh, Turns(st))
    BY <1>9, <1>10 DEF TakesSteps
  <2> HIDE DEF n
  <2> QED
    BY <1>1, <1>3, <2>1, StepsAgree
<1> QED
  BY <1>2, <1>3, <1>11

\* The Reader behind one more chunk.
LEMMA RunMore ==
  ASSUME NEW st \in Seq(ChunkRec), NEW c \in ChunkRec
  PROVE  /\ Behind(st) \in ReaderState
         /\ \A k \in 0..Len(st) : Reader!RunUpTo(Append(st, c))[k] = Reader!RunUpTo(st)[k]
         /\ Behind(Append(st, c)) = Turn(Behind(st), c, Len(st) + 1)
         /\ Behind(Append(st, c)) \in ReaderState
PROOF
<1> DEFINE n == Len(st)
           more == Append(st, c)
<1>1. n \in Nat /\ more \in Seq(ChunkRec) /\ Len(more) = n + 1 /\ more[n + 1] = c
      /\ \A k \in 1..n : more[k] = st[k]
  OBVIOUS
<1> HIDE DEF more
<1>2. PICK f \in [0..n -> ReaderState] :
        /\ Iterates(f, n, Reader!Fresh, Turns(st))
        /\ \A k \in 0..n : Reader!RunUpTo(st)[k] = f[k]
  BY RunIs
<1>3. PICK g \in [0..(n + 1) -> ReaderState] :
        /\ Iterates(g, n + 1, Reader!Fresh, Turns(more))
        /\ \A k \in 0..(n + 1) : Reader!RunUpTo(more)[k] = g[k]
  BY <1>1, RunIs
<1>4. ASSUME NEW k \in 1..(n + 1)
      PROVE  g[k - 1] \in ReaderState /\ g[k] = Turn(g[k - 1], more[k], k)
  <2>1. k - 1 \in 0..(n + 1) /\ k \in 1..Len(more)
    BY <1>1
  <2>2. g[k - 1] \in ReaderState /\ g[k] = Turns(more)[k][g[k - 1]]
    BY <1>3, <2>1 DEF Iterates
  <2> QED
    BY <2>1, <2>2 DEF Turns
<1>5. TakesSteps(g, n, ReaderState, Reader!Fresh, Turns(st))
  <2>1. g[0] = Reader!Fresh
    BY <1>3 DEF Iterates
  <2>2. ASSUME NEW k \in 1..n, g[k - 1] \in ReaderState
        PROVE  g[k] = Turns(st)[k][g[k - 1]]
    <3>1. k \in 1..(n + 1) /\ more[k] = st[k]
      BY <1>1
    <3>2. Turns(st)[k][g[k - 1]] = Turn(g[k - 1], st[k], k)
      BY <2>2 DEF Turns
    <3> QED
      BY <1>4, <3>1, <3>2
  <2> QED
    BY <2>1, <2>2 DEF TakesSteps
<1>6. \A k \in 0..n : g[k] = f[k]
  <2> HIDE DEF n
  <2> QED
    BY <1>1, <1>2, <1>5, StepsAgree
<1>7. n \in 0..n /\ n \in 0..(n + 1) /\ n + 1 \in 0..(n + 1) /\ n + 1 \in 1..(n + 1)
      /\ (n + 1) - 1 = n
  BY <1>1
<1>8. Behind(st) = f[n] /\ f[n] \in ReaderState
  BY <1>2, <1>7 DEF Behind
<1>9. Behind(more) = g[n + 1] /\ g[n + 1] \in ReaderState
  BY <1>1, <1>3, <1>7 DEF Behind
<1>10. g[n + 1] = Turn(f[n], c, n + 1)
  BY <1>1, <1>4, <1>6, <1>7
<1>11. \A k \in 0..n : Reader!RunUpTo(more)[k] = Reader!RunUpTo(st)[k]
  <2>1. \A k \in 0..n : k \in 0..(n + 1)
    BY <1>1
  <2> QED
    BY <1>2, <1>3, <1>6, <2>1
<1> QED
  BY <1>8, <1>9, <1>10, <1>11 DEF more

\* Nothing read.
LEMMA RunNone == Behind(<<>>) = Reader!Fresh
PROOF
<1>1. <<>> \in Seq(ChunkRec) /\ Len(<<>>) = 0 /\ 0 \in 0..0
  OBVIOUS
<1>2. PICK f \in [0..Len(<<>>) -> ReaderState] :
        /\ Iterates(f, Len(<<>>), Reader!Fresh, Turns(<<>>))
        /\ \A k \in 0..Len(<<>>) : Reader!RunUpTo(<<>>)[k] = f[k]
  BY <1>1, RunIs
<1> QED
  BY <1>1, <1>2 DEF Behind, Iterates

----------------------------------------------------------------------------
(* What the chunks come to *)

Place == [comp : Nat, uncomp : Nat]
TallyRec == [size : Nat, starts : Seq(Place), bytes : Seq(Nat)]
Zero == [size |-> 0, starts |-> <<>>, bytes |-> <<>>]

\* One more chunk, of which a Reader returns the bytes or not.
Count(p, c, yields) ==
  [size |-> p.size + c.size,
   starts |-> IF IsBlock(c) THEN Append(p.starts, [comp |-> p.size, uncomp |-> c.off]) ELSE p.starts,
   bytes |-> IF yields THEN p.bytes \o [j \in 1..c.n |-> c.off + j] ELSE p.bytes]

Counts(st) == [k \in 1..Len(st) |-> [p \in TallyRec |-> Count(p, st[k], Reader!Yields(st, k))]]

\* Counting stays well-typed.
LEMMA CountType ==
  ASSUME NEW p \in TallyRec, NEW c \in ChunkRec, NEW y \in BOOLEAN
  PROVE  Count(p, c, y) \in TallyRec
PROOF
<1>1. /\ p.size \in Nat /\ p.starts \in Seq(Place) /\ p.bytes \in Seq(Nat)
      /\ c.size \in Nat /\ c.off \in Nat /\ c.n \in Nat
  BY DEF TallyRec, ChunkRec
<1>2. [comp |-> p.size, uncomp |-> c.off] \in Place
  BY <1>1 DEF Place
<1>3. Append(p.starts, [comp |-> p.size, uncomp |-> c.off]) \in Seq(Place)
  BY <1>1, <1>2
<1>4. [j \in 1..c.n |-> c.off + j] \in Seq(Nat)
  BY <1>1
<1>5. p.bytes \o [j \in 1..c.n |-> c.off + j] \in Seq(Nat)
  BY <1>1, <1>4
<1>6. p.size + c.size \in Nat
  BY <1>1
<1> QED
  BY <1>1, <1>3, <1>5, <1>6 DEF Count, TallyRec

\* Tally counts chunk by chunk.
LEMMA TallyIs ==
  ASSUME NEW st \in Seq(ChunkRec)
  PROVE  \E f \in [0..Len(st) -> TallyRec] :
           Iterates(f, Len(st), Zero, Counts(st)) /\ Tally(st) = f[Len(st)]
PROOF
<1> DEFINE n == Len(st)
           P(r) == r = [k \in 0..n |->
                          IF k = 0 THEN [size |-> 0, starts |-> <<>>, bytes |-> <<>>]
                          ELSE LET p == r[k - 1]
                                   c == st[k]
                               IN [size |-> p.size + c.size,
                                   starts |-> IF IsBlock(c)
                                              THEN Append(p.starts, [comp |-> p.size, uncomp |-> c.off])
                                              ELSE p.starts,
                                   bytes |-> IF Reader!Yields(st, k)
                                             THEN p.bytes \o [j \in 1..c.n |-> c.off + j] ELSE p.bytes]]
           h == CHOOSE r : P(r)
<1>1. n \in Nat
  OBVIOUS
<1>2. Tally(st) = h[n]
  BY Zenon DEF Tally
<1>3. Counts(st) \in [1..n -> [TallyRec -> TallyRec]] /\ Zero \in TallyRec
  <2>1. ASSUME NEW k \in 1..n, NEW p \in TallyRec
        PROVE  Count(p, st[k], Reader!Yields(st, k)) \in TallyRec
    <3>1. st[k] \in ChunkRec /\ Reader!Yields(st, k) \in BOOLEAN
      BY DEF Reader!Yields
    <3> QED
      BY <3>1, CountType
  <2>2. Zero \in TallyRec
    BY DEF Zero, TallyRec
  <2> QED
    BY <2>1, <2>2 DEF Counts
<1>4. PICK f \in [0..n -> TallyRec] : Iterates(f, n, Zero, Counts(st))
  BY <1>1, <1>3, StepsExist
<1>5. ASSUME NEW k \in 1..n, NEW p \in TallyRec
      PROVE  Counts(st)[k][p] = Count(p, st[k], Reader!Yields(st, k))
  BY DEF Counts
<1>6. \A r : P(r) <=> r = [k \in 0..n |-> IF k = 0 THEN Zero
                                          ELSE Count(r[k - 1], st[k], Reader!Yields(st, k))]
  BY Zenon DEF Count, Zero
<1> HIDE DEF P
<1>7. ASSUME NEW k \in 0..n
      PROVE  f[k] = IF k = 0 THEN Zero ELSE Count(f[k - 1], st[k], Reader!Yields(st, k))
  <2>1. CASE k = 0
    BY <1>4, <2>1 DEF Iterates
  <2>2. CASE k # 0
    <3>1. k \in 1..n /\ k - 1 \in 0..n
      BY <1>1, <2>2
    <3>2. f[k - 1] \in TallyRec /\ f[k] = Counts(st)[k][f[k - 1]]
      BY <1>4, <3>1 DEF Iterates
    <3> QED
      BY <1>5, <2>2, <3>1, <3>2
  <2> QED
    BY <2>1, <2>2
<1>8. P(f)
  <2> HIDE DEF n
  <2>1. f = [k \in 0..n |-> f[k]]
    OBVIOUS
  <2> QED
    BY <1>6, <1>7, <2>1
<1>9. P(h)
  BY <1>8, Zenon
<1> HIDE DEF h
<1>10. ASSUME NEW k \in 0..n
       PROVE  h[k] = IF k = 0 THEN Zero ELSE Count(h[k - 1], st[k], Reader!Yields(st, k))
  BY <1>6, <1>9
<1>11. TakesSteps(h, n, TallyRec, Zero, Counts(st))
  <2>1. 0 \in 0..n /\ \A k \in 1..n : k \in 0..n /\ k # 0
    BY <1>1
  <2>2. h[0] = Zero
    BY <1>10, <2>1
  <2>3. ASSUME NEW k \in 1..n, h[k - 1] \in TallyRec PROVE h[k] = Counts(st)[k][h[k - 1]]
    BY <1>5, <1>10, <2>1, <2>3
  <2> QED
    BY <2>2, <2>3 DEF TakesSteps
<1>12. \A k \in 0..n : h[k] = f[k]
  <2> HIDE DEF n
  <2> QED
    BY <1>1, <1>4, <1>11, StepsAgree
<1>13. n \in 0..n
  BY <1>1
<1> QED
  BY <1>2, <1>4, <1>12, <1>13

\* A chunk yields its bytes if the Reader is past it without an error.
Good(st, c) == c.t \in {"comp", "raw"} /\ Behind(Append(st, c)).err = "none"

\* What one more chunk adds.
LEMMA TallyMore ==
  ASSUME NEW st \in Seq(ChunkRec), NEW c \in ChunkRec
  PROVE  /\ Tally(st) \in TallyRec
         /\ Tally(Append(st, c)) = Count(Tally(st), c, Good(st, c))
PROOF
<1> DEFINE n == Len(st)
           more == Append(st, c)
<1>1. n \in Nat /\ more \in Seq(ChunkRec) /\ Len(more) = n + 1 /\ more[n + 1] = c
      /\ \A k \in 1..n : more[k] = st[k]
  OBVIOUS
<1>2. /\ \A k \in 0..n : Reader!RunUpTo(more)[k] = Reader!RunUpTo(st)[k]
      /\ Good(st, c) <=> (c.t \in {"comp", "raw"} /\ Reader!RunUpTo(more)[n + 1].err = "none")
  BY <1>1, RunMore DEF Good, Behind
<1> HIDE DEF more
<1>3. PICK f \in [0..n -> TallyRec] : Iterates(f, n, Zero, Counts(st)) /\ Tally(st) = f[n]
  BY TallyIs
<1>4. PICK g \in [0..(n + 1) -> TallyRec] :
        Iterates(g, n + 1, Zero, Counts(more)) /\ Tally(more) = g[n + 1]
  BY <1>1, TallyIs
<1>5. ASSUME NEW k \in 1..(n + 1)
      PROVE  g[k - 1] \in TallyRec /\ g[k] = Count(g[k - 1], more[k], Reader!Yields(more, k))
  <2>1. k - 1 \in 0..(n + 1) /\ k \in 1..Len(more)
    BY <1>1
  <2>2. g[k - 1] \in TallyRec /\ g[k] = Counts(more)[k][g[k - 1]]
    BY <1>4, <2>1 DEF Iterates
  <2> QED
    BY <2>1, <2>2 DEF Counts
<1>6. TakesSteps(g, n, TallyRec, Zero, Counts(st))
  <2>1. g[0] = Zero
    BY <1>4 DEF Iterates
  <2>2. ASSUME NEW k \in 1..n, g[k - 1] \in TallyRec
        PROVE  g[k] = Counts(st)[k][g[k - 1]]
    <3>1. k \in 1..(n + 1) /\ more[k] = st[k] /\ k \in 0..n
      BY <1>1
    <3>2. Reader!Yields(more, k) = Reader!Yields(st, k)
      BY <1>2, <3>1 DEF Reader!Yields
    <3>3. Counts(st)[k][g[k - 1]] = Count(g[k - 1], st[k], Reader!Yields(st, k))
      BY <2>2 DEF Counts
    <3> QED
      BY <1>5, <3>1, <3>2, <3>3
  <2> QED
    BY <2>1, <2>2 DEF TakesSteps
<1>7. \A k \in 0..n : g[k] = f[k]
  <2> HIDE DEF n
  <2> QED
    BY <1>1, <1>3, <1>6, StepsAgree
<1>8. n \in 0..n /\ n + 1 \in 1..(n + 1) /\ (n + 1) - 1 = n
  BY <1>1
<1>9. Reader!Yields(more, n + 1) = Good(st, c)
  <2>1. Good(st, c) \in BOOLEAN
    BY DEF Good
  <2> QED
    BY <1>1, <1>2, <2>1 DEF Reader!Yields
<1>10. g[n + 1] = Count(f[n], c, Good(st, c))
  BY <1>1, <1>5, <1>7, <1>8, <1>9
<1>11. Tally(st) \in TallyRec
  BY <1>3, <1>8
<1> QED
  BY <1>3, <1>4, <1>10, <1>11 DEF more

\* Nothing counted.
LEMMA TallyNone == Tally(<<>>) = Zero
PROOF
<1>1. <<>> \in Seq(ChunkRec) /\ Len(<<>>) = 0 /\ 0 \in 0..0
  OBVIOUS
<1>2. PICK f \in [0..Len(<<>>) -> TallyRec] :
        Iterates(f, Len(<<>>), Zero, Counts(<<>>)) /\ Tally(<<>>) = f[Len(<<>>)]
  BY <1>1, TallyIs
<1> QED
  BY <1>1, <1>2 DEF Iterates

----------------------------------------------------------------------------
(* Sizes *)

\* A set of natural numbers has a smallest one.
LEMMA SmallestIs ==
  ASSUME NEW S \in SUBSET Nat, S # {}
  PROVE  Smallest(S) \in S /\ \A y \in S : Smallest(S) <= y
PROOF
<1>1. \E x \in S : \A y \in S : x <= y
  BY LeastNatural
<1> QED
  BY <1>1 DEF Smallest

\* The announced size has room for a block and is one a Reader allows.
LEMMA AnnouncedFits == Announced \in Nat /\ BlockSize <= Announced /\ Announced <= MaxBlockSize
PROOF
<1> DEFINE S == {p \in BlockSize..MaxBlockSize : \E k \in 0..p : p = 2^k}
<1>1. BlockSize \in Nat /\ MaxBlockSize \in Nat /\ BlockSize <= MaxBlockSize
  BY SizeAssumption
<1>2. S \in SUBSET Nat
  BY <1>1
<1>3. MaxBlockSize \in S
  BY <1>1, SizeAssumption
<1>4. Smallest(S) \in S
  <2> HIDE DEF S
  <2> QED
    BY <1>2, <1>3, SmallestIs
<1>5. Announced \in BlockSize..MaxBlockSize
  <2>1. Announced = Smallest(S)
    BY DEF Announced
  <2>2. \A x \in S : x \in BlockSize..MaxBlockSize
    OBVIOUS
  <2> HIDE DEF S
  <2> QED
    BY <1>4, <2>1, <2>2
<1> QED
  BY <1>1, <1>5

\* A number takes one to ten bytes.
LEMMA UvarintType == ASSUME NEW v PROVE UvarintLen(v) \in Nat
PROOF
<1> DEFINE fits(k) == v < 128^k \/ k = 10
           S == {k \in 1..10 : fits(k)}
<1>1. UvarintLen(v) = CHOOSE k \in 1..10 : fits(k) /\ \A j \in 1..(k - 1) : ~fits(j)
  BY DEF UvarintLen
<1>2. S \in SUBSET Nat /\ 10 \in S
  OBVIOUS
<1>3. PICK n \in S : \A m \in S : n <= m
  <2> HIDE DEF S
  <2> QED
    BY <1>2, LeastNatural
<1>4. n \in 1..10 /\ fits(n)
  BY <1>3
<1>5. ASSUME NEW j \in 1..(n - 1) PROVE ~fits(j)
  <2>1. j \in 1..10 /\ ~(n <= j)
    BY <1>4
  <2>2. j \notin S
    BY <1>3, <2>1
  <2> QED
    BY <2>1, <2>2
<1> HIDE DEF fits
<1>6. \E k \in 1..10 : fits(k) /\ \A j \in 1..(k - 1) : ~fits(j)
  BY <1>4, <1>5
<1>7. UvarintLen(v) \in 1..10
  BY <1>1, <1>6
<1> QED
  BY <1>7

\* The padding behind c bytes has room for its header, is within a block, and makes c
\* a multiple: the check that would leave it out never does.
LEMMA PaddingFits ==
  ASSUME NEW c \in Nat, NEW m \in 2..MaxBlockSize
  PROVE  /\ PaddingSize(c, m) \in Nat
         /\ PaddingSize(c, m) # 0 => PaddingSize(c, m) >= ChunkHeader
         /\ (c + PaddingSize(c, m)) % m = 0
PROOF
<1> DEFINE r == c % m
           add(k) == (k * m) - r
           S == {k \in 1..ChunkHeader : add(k) >= ChunkHeader}
           k0 == Smallest(S)
<1>1. MaxBlockSize \in Nat /\ m \in Nat /\ m >= 2 /\ m <= MaxBlockSize /\ ChunkHeader = 4
  BY SizeAssumption DEF ChunkHeader
<1>2. r \in 0..(m - 1) /\ c \div m \in Nat /\ c = m * (c \div m) + r
  BY <1>1
<1>3. PaddingSize(c, m) = IF m < 2 \/ r = 0 \/ add(k0) > MaxBlockSize + ChunkHeader THEN 0
                          ELSE add(k0)
  BY DEF PaddingSize
<1> HIDE DEF r
<1>4. /\ add(1) = m - r /\ add(2) = m + m - r /\ add(3) = m + m + m - r
      /\ add(4) = m + m + m + m - r
  BY <1>1, <1>2
<1>5. S \in SUBSET Nat /\ 4 \in S
  BY <1>1, <1>2, <1>4
<1>6. k0 \in S /\ \A y \in S : k0 <= y
  <2> HIDE DEF S
  <2> QED
    BY <1>5, SmallestIs
<1>7. PICK k : k = k0
  OBVIOUS
<1> HIDE DEF k0
<1>8. k \in 1..4 /\ add(k) >= 4 /\ \A y \in 1..4 : add(y) >= 4 => k <= y
  BY <1>1, <1>6, <1>7
<1>9. add(k) \in Nat /\ add(k) <= MaxBlockSize + 4
  <2>1. k = 1 \/ k = 2 \/ k = 3 \/ k = 4
    BY <1>8
  <2>2. k = 2 => ~(add(1) >= 4)
    BY <1>8
  <2>3. k = 3 => ~(add(2) >= 4)
    BY <1>8
  <2>4. k = 4 => ~(add(3) >= 4)
    BY <1>8
  <2>5. add(k) >= 4
    BY <1>8
  <2> HIDE DEF add
  <2> QED
    BY <1>1, <1>2, <1>4, <2>1, <2>2, <2>3, <2>4, <2>5
<1>10. (c + add(k)) % m = 0
  <2>1. PICK q \in Nat : q = c \div m
    BY <1>2
  <2>2. c = m * q + r
    BY <1>2, <2>1
  <2>3. m * (q + k) = m * q + m * k /\ k * m = m * k
    BY <1>1, <1>8
  <2>4. PICK x \in Nat : x = m * q
    BY <1>1
  <2>5. PICK y \in Nat : y = m * k
    BY <1>1, <1>8
  <2>6. c + (y - r) = x + y
    BY <1>2, <2>2, <2>4
  <2>7. c + add(k) = m * (q + k)
    BY <2>3, <2>4, <2>5, <2>6
  <2>8. q + k \in Nat /\ m > 0
    BY <1>1, <1>8
  <2>9. (m * (q + k)) % m = 0
    BY <1>1, <2>8
  <2> QED
    BY <2>7, <2>9
<1> HIDE DEF add
<1>11. CASE r = 0
  <2>1. PaddingSize(c, m) = 0
    BY <1>3, <1>11
  <2>2. (c + 0) % m = 0
    BY <1>11 DEF r
  <2> QED
    BY <2>1, <2>2
<1>12. CASE r # 0
  <2>1. PaddingSize(c, m) = add(k)
    BY <1>1, <1>3, <1>7, <1>9, <1>12
  <2> QED
    BY <1>1, <1>8, <1>9, <1>10, <2>1
<1> QED
  BY <1>11, <1>12

\* Full blocks leave less than a block.
LEMMA FullLeaves ==
  ASSUME NEW n \in Nat
  PROVE  Full(n) \in Nat /\ Full(n) <= n /\ n - Full(n) \in 0..(BlockSize - 1)
PROOF
<1>1. BlockSize \in Nat /\ BlockSize > 0
  BY SizeAssumption
<1>2. CASE opts.flushOnWrite
  BY <1>1, <1>2 DEF Full
<1>3. CASE ~opts.flushOnWrite
  <2>1. n = BlockSize * (n \div BlockSize) + (n % BlockSize) /\ n % BlockSize \in 0..(BlockSize - 1)
        /\ n \div BlockSize \in Nat
    BY <1>1
  <2>2. PICK q \in Nat : q = n \div BlockSize
    BY <2>1
  <2>3. PICK x \in Nat : x = BlockSize * q
    BY <1>1
  <2>4. Full(n) = x
    BY <1>1, <1>3, <2>2, <2>3 DEF Full
  <2> QED
    BY <1>1, <2>1, <2>2, <2>3, <2>4
<1> QED
  BY <1>2, <1>3

\* n bytes from o on are cut into blocks that follow each other.
LEMMA BlocksCut ==
  ASSUME NEW o \in Nat, NEW n \in Nat
  PROVE  LET b == Blocks(o, n)
         IN  /\ b \in Seq(ChunkRec)
             /\ \A i \in 1..Len(b) : /\ b[i].t = "data" /\ b[i].bad = "no"
                                     /\ b[i].n \in 1..BlockSize
             /\ n = 0 => b = <<>>
             /\ n # 0 => /\ Len(b) > 0 /\ b[1].off = o
                         /\ b[Len(b)].off + b[Len(b)].n = o + n
             /\ \A i \in 1..(Len(b) - 1) : b[i + 1].off = b[i].off + b[i].n
PROOF
<1> DEFINE B == BlockSize
           N == (n + B - 1) \div B
           at(i) == (i - 1) * B
           len(i) == IF n - at(i) < B THEN n - at(i) ELSE B
           b == Blocks(o, n)
<1>1. B \in Nat /\ B > 0
  BY SizeAssumption
<1>2. PICK q \in Nat : q = N
  <2>1. n + B - 1 \in Nat
    BY <1>1
  <2> QED
    BY <1>1, <2>1
<1>3. b = [i \in 1..q |-> Chunk("data", len(i), o + at(i), 0)]
  BY <1>2 DEF Blocks
<1>4. B * q <= n + B - 1 /\ n + B - 1 < B * q + B
  <2>1. n + B - 1 \in Nat
    BY <1>1
  <2>2. n + B - 1 = B * ((n + B - 1) \div B) + ((n + B - 1) % B)
        /\ (n + B - 1) % B \in 0..(B - 1)
    BY <1>1, <2>1
  <2>3. PICK x \in Nat : x = B * q
    BY <1>1
  <2> QED
    BY <1>1, <1>2, <2>2, <2>3
<1> HIDE DEF N, b
<1>5. ASSUME NEW i \in 1..q
      PROVE  /\ at(i) \in Nat /\ at(i) + B = i * B /\ at(i) < n
             /\ i # q => at(i) + B < n
             /\ i = q => n <= at(i) + B
  <2>1. i \in Nat /\ i - 1 \in Nat /\ i <= q
    BY <1>2
  <2>2. (i - 1) * B \in Nat /\ (i - 1) * B + B = i * B /\ i * B \in Nat
    BY <1>1, <2>1
  <2>3. PICK k \in Nat : q = i + k /\ (i # q => k >= 1)
    BY <1>2, <2>1
  <2>4. B * q = i * B + k * B /\ k * B \in Nat /\ (k >= 1 => k * B >= B)
    <3>1. B * (i + k) = i * B + k * B
      BY <1>1, <2>1
    <3>2. k * B \in Nat
      BY <1>1
    <3>3. k >= 1 => k * B >= B
      <4>1. SUFFICES ASSUME k >= 1 PROVE k * B >= B
        OBVIOUS
      <4>2. PICK j \in Nat : k = j + 1
        BY <4>1
      <4>3. (j + 1) * B = j * B + B /\ j * B \in Nat
        BY <1>1
      <4> QED
        BY <1>1, <4>2, <4>3
    <3> QED
      BY <2>3, <3>1, <3>2, <3>3
  <2>5. PICK x \in Nat : x = i * B
    BY <2>2
  <2>6. PICK y \in Nat : y = k * B
    BY <2>4
  <2>7. PICK z \in Nat : z = B * q
    BY <1>1, <1>2
  <2>8. PICK w \in Nat : w = (i - 1) * B
    BY <2>2
  <2>9. z = x + y /\ w + B = x /\ z <= n + B - 1 /\ n + B - 1 < z + B /\ (k >= 1 => y >= B)
        /\ (i = q => y = 0)
    <3>1. i = q => k = 0
      BY <2>1, <2>3
    <3>2. k = 0 => k * B = 0
      BY <1>1
    <3> QED
      BY <1>4, <2>2, <2>4, <2>5, <2>6, <2>7, <2>8, <3>1, <3>2
  <2>10. w < n /\ (i # q => w + B < n) /\ (i = q => n <= w + B)
    BY <1>1, <2>3, <2>9
  <2> QED
    BY <2>2, <2>8, <2>10
<1>6. ASSUME NEW i \in 1..q
      PROVE  len(i) \in 1..B /\ (i # q => len(i) = B) /\ (i = q => at(i) + len(i) = n)
  <2>1. PICK w \in Nat : w = at(i)
    BY <1>5
  <2>2. w < n /\ (i # q => w + B < n) /\ (i = q => n <= w + B)
    BY <1>5, <2>1
  <2>3. len(i) = IF n - w < B THEN n - w ELSE B
    BY <2>1
  <2> HIDE DEF len
  <2>4. len(i) \in 1..B /\ (i # q => len(i) = B) /\ (i = q => w + len(i) = n)
    BY <1>1, <2>2, <2>3
  <2> HIDE DEF at
  <2> QED
    BY <2>1, <2>4
<1>7. ASSUME NEW i \in 1..q PROVE i + 1 \in 1..q => at(i + 1) = at(i) + B
  <2>1. (i + 1) - 1 = i /\ at(i) + B = i * B
    BY <1>5
  <2> QED
    BY <2>1
<1>8. q > 0 => at(1) = 0 /\ 1 \in 1..q
  BY <1>1
<1>9. n = 0 => q = 0
  <2>1. q # 0 => q \in 1..q
    BY <1>2
  <2> QED
    BY <1>5, <2>1
<1>10. n # 0 => q > 0
  <2>1. q = 0 => B * q = 0
    BY <1>1
  <2> QED
    BY <1>1, <1>2, <1>4, <2>1
<1>11. \A i \in 1..q : at(i) \in Nat
  BY <1>5
<1> HIDE DEF at, len
<1>12. /\ Len(b) = q
       /\ \A i \in 1..q : b[i] = [t |-> "data", n |-> len(i), bad |-> "no", off |-> o + at(i),
                                  size |-> 0]
  BY <1>2, <1>3 DEF Chunk
<1>13. ASSUME NEW i \in 1..q
       PROVE  /\ b[i].t = "data" /\ b[i].bad = "no" /\ b[i].n = len(i) /\ b[i].off = o + at(i)
              /\ len(i) \in Nat /\ len(i) \in 1..B /\ b[i] \in ChunkRec
  <2>1. len(i) \in Nat /\ len(i) \in 1..B /\ o + at(i) \in Nat
    BY <1>1, <1>6, <1>11
  <2> QED
    BY <1>12, <2>1 DEF ChunkRec
<1>14. b \in Seq(ChunkRec)
  <2>1. b = [i \in 1..q |-> b[i]]
    BY <1>3, <1>12
  <2> QED
    BY <1>2, <1>13, <2>1
<1>15. n = 0 => b = <<>>
  BY <1>9, <1>12, <1>14
<1>16. n # 0 => Len(b) > 0 /\ b[1].off = o /\ b[Len(b)].off + b[Len(b)].n = o + n
  <2>1. SUFFICES ASSUME n # 0 PROVE q > 0 /\ b[1].off = o /\ b[q].off + b[q].n = o + n
    BY <1>12
  <2>2. q > 0 /\ 1 \in 1..q /\ q \in 1..q /\ at(1) = 0
    BY <1>2, <1>8, <1>10, <2>1
  <2>3. b[1].off = o
    BY <1>13, <2>2
  <2>4. b[q].off = o + at(q) /\ b[q].n = len(q) /\ at(q) + len(q) = n /\ at(q) \in Nat
        /\ len(q) \in Nat
    BY <1>6, <1>11, <1>13, <2>2
  <2> QED
    BY <2>2, <2>3, <2>4
<1>17. ASSUME NEW i \in 1..(q - 1) PROVE b[i + 1].off = b[i].off + b[i].n
  <2>1. i \in 1..q /\ i + 1 \in 1..q /\ i # q
    BY <1>2
  <2>2. /\ b[i + 1].off = o + at(i + 1) /\ b[i].off = o + at(i) /\ b[i].n = B
        /\ at(i + 1) = at(i) + B /\ at(i) \in Nat
    BY <1>6, <1>7, <1>11, <1>13, <2>1
  <2> QED
    BY <1>1, <2>2
<1> QED
  BY <1>12, <1>13, <1>14, <1>15, <1>16, <1>17 DEF b

----------------------------------------------------------------------------
(* One chunk and the Reader *)

\* What passing the gate and an error do to a Reader.
LEMMA GateFields ==
  ASSUME NEW s \in ReaderState, NEW c \in ChunkRec
  PROVE  LET g == Reader!PastGate(s, c)
         IN  /\ g \in ReaderState /\ g.header = (s.header \/ c.t = "sid")
             /\ g.expectEof = s.expectEof /\ g.start = s.start /\ g.block = s.block
             /\ g.at = s.at /\ g.max = s.max /\ g.err = s.err
             /\ Reader!Err(g, "corrupt").err = "corrupt"
             /\ Reader!Err(Reader!Passed(g), "corrupt").err = "corrupt"
PROOF
<1> DEFINE g == Reader!PastGate(s, c)
<1>1. s.header \in BOOLEAN /\ (s.header \/ c.t = "sid") \in BOOLEAN
  BY DEF ReaderState
<1>2. /\ g \in ReaderState /\ g.header = (s.header \/ c.t = "sid")
      /\ g.expectEof = s.expectEof /\ g.start = s.start /\ g.block = s.block
      /\ g.at = s.at /\ g.max = s.max /\ g.err = s.err
  BY <1>1 DEF Reader!PastGate, ReaderState
<1> HIDE DEF g
<1>3. Reader!Err(g, "corrupt").err = "corrupt"
  BY <1>2 DEF Reader!Err, ReaderState
<1>4. Reader!Passed(g) \in ReaderState
  <2>1. g.start + g.block.len \in Nat
    BY <1>2 DEF ReaderState, Held
  <2> QED
    BY <1>2, <2>1 DEF Reader!Passed, ReaderState
<1>5. Reader!Err(Reader!Passed(g), "corrupt").err = "corrupt"
  BY <1>4 DEF Reader!Err, ReaderState
<1> QED
  BY <1>2, <1>3, <1>5 DEF g

\* A block that is not too large.
LEMMA ReadsBlock ==
  ASSUME NEW s \in ReaderState, NEW c \in ChunkRec, NEW i \in Nat, s.err = "none", s.header,
         c.t \in {"comp", "raw"}, c.bad = "no", c.n > 0, c.n <= s.max
  PROVE  LET q == Turn(s, c, i)
         IN  /\ q.err = "none" /\ q.header = TRUE /\ q.expectEof = s.expectEof
             /\ q.max = s.max /\ At(q) = At(s) + c.n
PROOF
<1> DEFINE g == Reader!PastGate(s, c)
           p == Reader!Passed(g)
           l == Reader!Load(p, c, i)
           q == Turn(s, c, i)
<1>1. /\ g \in ReaderState /\ g.header = TRUE /\ g.expectEof = s.expectEof /\ g.start = s.start
      /\ g.block = s.block /\ g.max = s.max /\ g.err = "none"
  BY GateFields DEF ReaderState
<1>2. c.n \in Nat /\ s.start \in Nat /\ s.block \in Held /\ s.block.len \in Nat /\ s.max \in Nat
  BY DEF ChunkRec, ReaderState, Held
<1>3. q = Reader!Checked(l, c, 0)
  BY <1>1, <1>2 DEF Turn, Reader!HandleChunk, Reader!HandleCompressed, Reader!HandleUncompressed
<1>4. q = [l EXCEPT !.at = 0]
  BY <1>3 DEF Reader!Checked
<1> HIDE DEF g, q
<1>5. /\ p \in ReaderState /\ p.start = s.start + s.block.len /\ p.header = TRUE
      /\ p.expectEof = s.expectEof /\ p.max = s.max /\ p.err = "none"
  BY <1>1, <1>2 DEF Reader!Passed, ReaderState
<1> HIDE DEF p
<1>6. /\ l \in ReaderState /\ l.start = p.start /\ l.header = TRUE /\ l.block.len = c.n
      /\ l.expectEof = s.expectEof /\ l.max = s.max /\ l.err = "none"
  BY <1>2, <1>5 DEF Reader!Load, ReaderState, Held
<1> HIDE DEF l
<1>7. /\ q.start = l.start /\ q.header = TRUE /\ q.block = l.block
      /\ q.expectEof = s.expectEof /\ q.max = s.max /\ q.err = "none"
  BY <1>4, <1>6 DEF ReaderState
<1>8. At(q) = At(s) + c.n
  BY <1>2, <1>5, <1>6, <1>7 DEF At
<1> QED
  BY <1>7, <1>8 DEF q

\* A chunk that is passed over.
LEMMA ReadsOther ==
  ASSUME NEW s \in ReaderState, NEW c \in ChunkRec, NEW i \in Nat, s.err = "none",
         c.t \in {"user", "skip", "index"}, c.bad = "no"
  PROVE  LET q == Turn(s, c, i)
         IN  /\ q.err = "none" /\ q.header = s.header /\ q.expectEof = s.expectEof
             /\ q.max = s.max /\ At(q) = At(s)
PROOF
<1> DEFINE g == Reader!PastGate(s, c)
           q == Turn(s, c, i)
<1>1. /\ g.header = s.header /\ g.expectEof = s.expectEof /\ g.start = s.start
      /\ g.block = s.block /\ g.max = s.max /\ g.err = "none"
  BY GateFields DEF ReaderState
<1>2. q = g
  BY DEF Turn, Reader!HandleChunk, Reader!NeedsHeader, Reader!HandleMeta, Reader!HandleSkippable
<1> HIDE DEF g, q
<1> QED
  BY <1>1, <1>2 DEF At, q

\* The EOF chunk with the right total.
LEMMA ReadsEof ==
  ASSUME NEW s \in ReaderState, NEW c \in ChunkRec, NEW i \in Nat, s.err = "none",
         c.t = "eof", c.bad = "no", c.n = At(s)
  PROVE  LET q == Turn(s, c, i)
         IN  /\ q.err = "none" /\ q.header = FALSE /\ q.expectEof = FALSE
             /\ q.max = s.max /\ At(q) = At(s)
PROOF
<1> DEFINE g == Reader!PastGate(s, c)
           q == Turn(s, c, i)
<1>1. /\ g \in ReaderState /\ g.start = s.start
      /\ g.block = s.block /\ g.max = s.max /\ g.err = "none"
  BY GateFields
<1>2. q = [g EXCEPT !.expectEof = FALSE, !.header = FALSE]
  BY <1>1 DEF Turn, Reader!HandleChunk, Reader!NeedsHeader, Reader!HandleMeta, Reader!HandleEof, At
<1> HIDE DEF g, q
<1>3. /\ q.err = "none" /\ q.header = FALSE /\ q.expectEof = FALSE /\ q.max = g.max
      /\ q.start = g.start /\ q.block = g.block
  BY <1>1, <1>2 DEF ReaderState
<1> QED
  BY <1>1, <1>3 DEF At, q

\* The stream identifier.
LEMMA ReadsSid ==
  ASSUME NEW s \in ReaderState, NEW c \in ChunkRec, NEW i \in Nat, s.err = "none",
         c.t = "sid", c.bad = "no", c.n <= MaxBlockSize
  PROVE  LET q == Turn(s, c, i)
         IN  /\ q.err = "none" /\ q.header = TRUE /\ q.expectEof = TRUE
             /\ q.max = c.n /\ At(q) = 0
PROOF
<1> DEFINE g == Reader!PastGate(s, c)
           q == Turn(s, c, i)
<1>0. c.n \in Nat /\ MaxBlockSize \in Nat
  BY SizeAssumption DEF ChunkRec
<1>1. g \in ReaderState /\ g.header = TRUE /\ g.err = "none"
  BY GateFields DEF ReaderState
<1>2. q = [g EXCEPT !.max = c.n, !.start = 0, !.block = Reader!NoBlock, !.at = 0,
                    !.expectEof = TRUE]
  BY <1>0 DEF Turn, Reader!HandleChunk, Reader!NeedsHeader, Reader!HandleMeta,
              Reader!HandleStreamIdentifier
<1> HIDE DEF g, q
<1>3. /\ q.err = "none" /\ q.header = TRUE /\ q.expectEof = TRUE /\ q.max = c.n
      /\ q.start = 0 /\ q.block = Reader!NoBlock
  BY <1>1, <1>2 DEF ReaderState
<1>4. At(q) = 0
  BY <1>3 DEF At, Reader!NoBlock
<1> QED
  BY <1>3, <1>4 DEF q

\* The beginning of a chunk, at the end of the input.
LEMMA ReadsCut ==
  ASSUME NEW s \in ReaderState, NEW c \in ChunkRec, NEW i \in Nat, s.err = "none",
         c.t = "stub" \/ c.bad = "cut", c.t \notin {"data", "seal", "sync"},
         c.t = "raw" => c.n <= s.max
  PROVE  Turn(s, c, i).err = "corrupt"
PROOF
<1> DEFINE g == Reader!PastGate(s, c)
           q == Turn(s, c, i)
<1>0. c.n \in Nat /\ s.max \in Nat
      /\ c.t \in {"sid", "comp", "raw", "user", "eof", "skip", "index", "stub"}
  BY DEF ChunkRec, ReaderState
<1>1. /\ g \in ReaderState /\ g.max = s.max /\ g.err = "none"
      /\ Reader!Err(g, "corrupt").err = "corrupt"
      /\ Reader!Err(Reader!Passed(g), "corrupt").err = "corrupt"
  BY GateFields
<1>2. Reader!Err(s, "corrupt").err = "corrupt"
  BY DEF Reader!Err, ReaderState
<1>3. Reader!Err(Reader!Load(Reader!Passed(g), c, i), "corrupt").err = "corrupt"
  <2>1. g.start + g.block.len \in Nat
    BY <1>1 DEF ReaderState, Held
  <2>2. Reader!Passed(g) \in ReaderState
    BY <1>1, <2>1 DEF Reader!Passed, ReaderState
  <2>3. Reader!Load(Reader!Passed(g), c, i) \in ReaderState
    BY <1>0, <2>2 DEF Reader!Load, ReaderState, Held
  <2> QED
    BY <2>3 DEF Reader!Err, ReaderState
<1> HIDE DEF g
<1>4. q = IF ~s.header /\ Reader!NeedsHeader(c) THEN Reader!Err(s, "corrupt")
          ELSE IF c.t = "comp" THEN Reader!HandleCompressed(g, c, i)
          ELSE IF c.t = "raw" THEN Reader!HandleUncompressed(g, c, i)
          ELSE Reader!HandleMeta(g, c)
  BY DEF Turn, Reader!HandleChunk, g
<1> HIDE DEF q
<1>5. CASE ~s.header /\ Reader!NeedsHeader(c)
  BY <1>2, <1>4, <1>5 DEF q
<1>6. CASE ~(~s.header /\ Reader!NeedsHeader(c)) /\ c.t = "comp"
  BY <1>1, <1>4, <1>6 DEF q, Reader!HandleCompressed
<1>7. CASE ~(~s.header /\ Reader!NeedsHeader(c)) /\ c.t = "raw"
  <2>1. q = Reader!Err(Reader!Load(Reader!Passed(g), c, i), "corrupt")
    BY <1>0, <1>1, <1>4, <1>7 DEF Reader!HandleUncompressed
  <2> QED
    BY <1>3, <2>1 DEF q
<1>8. CASE ~(~s.header /\ Reader!NeedsHeader(c)) /\ c.t \notin {"comp", "raw"}
  <2>1. q = Reader!HandleMeta(g, c)
    BY <1>4, <1>8
  <2>2. q = Reader!Err(g, "corrupt")
    BY <1>0, <1>8, <2>1 DEF Reader!HandleMeta, Reader!HandleEof, Reader!HandleStreamIdentifier,
                           Reader!HandleSkippable
  <2> QED
    BY <1>1, <2>2 DEF q
<1> QED
  BY <1>5, <1>6, <1>7, <1>8

----------------------------------------------------------------------------
(* Writing a chunk *)

\* The Reader behind any stream is well-typed, and so is what it comes to.
LEMMA BehindType ==
  ASSUME NEW st \in Seq(ChunkRec)
  PROVE  Behind(st) \in ReaderState /\ Tally(st) \in TallyRec
PROOF
<1>1. Len(st) \in 0..Len(st)
  OBVIOUS
<1>2. PICK f \in [0..Len(st) -> ReaderState] : \A k \in 0..Len(st) : Reader!RunUpTo(st)[k] = f[k]
  BY RunIs
<1>3. PICK g \in [0..Len(st) -> TallyRec] : Tally(st) = g[Len(st)]
  BY TallyIs
<1>4. f[Len(st)] \in ReaderState /\ g[Len(st)] \in TallyRec
  BY <1>1
<1> QED
  BY <1>1, <1>2, <1>3, <1>4 DEF Behind

\* The chunk that comes of an item.
LEMMA ItemChunk ==
  ASSUME TypeOK, work # <<>>, Item.t \notin {"seal", "sync"}, Item.bad = "no",
         Item.t \in {"sid", "data", "user", "eof", "seal", "skip", "index", "sync"},
         Item.t = "data" => Item.n \in 1..BlockSize, NEW c \in Chunks
  PROVE  /\ c \in ChunkRec /\ c.bad = "no"
         /\ Item.t = "data" => c.t \in {"comp", "raw"} /\ c.n = Item.n /\ c.off = Item.off
         /\ Item.t = "eof" => c.t = "eof" /\ c.n = uncomp
         /\ Item.t \notin {"data", "eof"} => c = Item
PROOF
<1>1. Item \in ChunkRec /\ uncomp \in Nat
  BY DEF TypeOK, Item
<1>2. CASE Item.t = "data"
  <2>1. c \in BlockChunks(Item)
    BY <1>2 DEF Chunks
  <2>2. PICK z \in Nat, ty \in {"raw", "comp"} : c = Chunk(ty, Item.n, Item.off, z)
    <3>1. Item.n \in Nat /\ ChunkHeader + Checksum + Item.n \in Nat
          /\ \A k \in 1..(Item.n - 1) : ChunkHeader + Checksum + k \in Nat
      BY <1>1, <1>2 DEF ChunkRec, ChunkHeader, Checksum
    <3> QED
      BY <2>1, <3>1 DEF BlockChunks
  <2> QED
    BY <1>1, <1>2, <2>2 DEF Chunk, ChunkRec
<1>3. CASE Item.t = "eof"
  <2>1. c = Chunk("eof", uncomp, Item.off, ChunkHeader + UvarintLen(uncomp))
    BY <1>3 DEF Chunks
  <2>2. ChunkHeader + UvarintLen(uncomp) \in Nat
    BY UvarintType DEF ChunkHeader
  <2> QED
    BY <1>1, <1>3, <2>1, <2>2 DEF Chunk, ChunkRec
<1>4. CASE Item.t \notin {"data", "eof"}
  BY <1>1, <1>4 DEF Chunks
<1> QED
  BY <1>2, <1>3, <1>4

\* The rest of the call, when its first item has been dealt with.
LEMMA TailKeeps ==
  ASSUME TypeOK, WorkInv, pc = "step", work # <<>>, Item.t \notin {"seal", "sync"},
         work' = Tail(work), UNCHANGED <<pc, err, ibuf, call, rest, accepted>>,
         wroteHeader' = TRUE, Done' = (Done \/ Item.t = "eof"),
         uncomp' = IF Item.t = "data" THEN uncomp + Item.n ELSE uncomp
  PROVE  WorkInv'
PROOF
<1>0. PICK L \in Nat : L = Len(work)
  BY DEF TypeOK
<1>1. /\ work \in Seq(ChunkRec) /\ L \in Nat /\ L > 0 /\ 1 \in 1..L /\ Item = work[1]
      /\ Len(work') = L - 1 /\ \A i \in 1..(L - 1) : i + 1 \in 1..L /\ work'[i] = work[i + 1]
  BY <1>0 DEF TypeOK, Item
<1>2. /\ err = "none" /\ ibuf = 0 /\ \A i \in 1..L : ItemOk(i)
      /\ (\A i \in 1..L : work[i].t # "data") => uncomp = Target
      /\ call # "write" => rest = 0
      /\ Closes /\ work = <<>> => Done
      /\ Closes /\ ~Done => L > 1 /\ work[L].t = "seal" /\ work[L - 1].t = "eof"
      /\ Done => Closes
  BY <1>0 DEF WorkInv
<1>3. Target' = Target /\ Closes' = Closes
  BY DEF Target, Closes
<1>4. ASSUME NEW i \in 1..(L - 1), work[i + 1].t = "data"
      PROVE  DataOk(i)'
  <2>1. i \in Nat /\ i + 1 \in 1..L /\ 1 \in 1..i /\ (i + 1) - 1 = i /\ i + 1 # 1
        /\ work'[i] = work[i + 1] /\ work[i + 1] \in ChunkRec
    BY <1>1
  <2>2. DataOk(i + 1)
    BY <1>2, <1>4, <2>1 DEF ItemOk
  <2>3. /\ work[i + 1].n \in 1..BlockSize
        /\ \A j \in 1..i : work[j].t \in {"sid", "data"}
        /\ work[i + 1].off = IF work[i].t # "data" THEN uncomp ELSE work[i].off + work[i].n
        /\ (i + 1 = L \/ work[(i + 1) + 1].t # "data") => work[i + 1].off + work[i + 1].n = Target
    BY <1>0, <2>1, <2>2 DEF DataOk
  <2>4. \A j \in 1..(i - 1) : work'[j].t \in {"sid", "data"}
    <3>1. \A j \in 1..(i - 1) : j \in 1..(L - 1) /\ j + 1 \in 1..i
      BY <1>1, <2>1
    <3> QED
      BY <1>1, <2>3, <3>1
  <2>5. i # L - 1 => work'[i + 1] = work[(i + 1) + 1]
    <3>1. i # L - 1 => i + 1 \in 1..(L - 1)
      OBVIOUS
    <3> QED
      BY <1>1, <3>1
  <2>6. work[i + 1].off = IF i = 1 \/ work'[i - 1].t # "data" THEN uncomp'
                          ELSE work'[i - 1].off + work'[i - 1].n
    <3>1. CASE i = 1
      <4>1. Item.t = "sid" => ItemOk(1)
        BY <1>1, <1>2
      <4>2. CASE Item.t = "data"
        <5>1. DataOk(1)
          BY <1>1, <1>2, <4>2 DEF ItemOk
        <5>2. Item.off = uncomp
          BY <1>1, <5>1 DEF DataOk
        <5> QED
          BY <1>1, <2>3, <3>1, <4>2, <5>2
      <4>3. CASE Item.t # "data"
        BY <1>1, <2>3, <3>1, <4>3
      <4> QED
        BY <4>2, <4>3
    <3>2. CASE i # 1
      <4>1. i - 1 \in 1..(L - 1) /\ (i - 1) + 1 = i /\ i \in 1..i /\ i \in 1..L
        BY <1>1, <2>1, <3>2
      <4>2. work'[i - 1] = work[i]
        BY <1>1, <4>1
      <4>3. work[i].t # "sid"
        BY <1>2, <3>2, <4>1 DEF ItemOk
      <4>4. work[i].t = "data"
        BY <2>3, <4>1, <4>3
      <4> QED
        BY <2>3, <3>2, <4>2, <4>4
    <3> QED
      BY <3>1, <3>2
  <2>7. (i = L - 1 \/ work'[i + 1].t # "data") => work[i + 1].off + work[i + 1].n = Target
    <3>1. i + 1 = L <=> i = L - 1
      OBVIOUS
    <3> QED
      BY <2>3, <2>5, <3>1
  <2> QED
    BY <1>1, <1>3, <2>1, <2>3, <2>4, <2>6, <2>7 DEF DataOk
<1>5. ASSUME NEW i \in 1..(L - 1) PROVE ItemOk(i)'
  <2>1. i \in Nat /\ i + 1 \in 1..L /\ work'[i] = work[i + 1] /\ i + 1 # 1
    BY <1>1
  <2>2. ItemOk(i + 1)
    BY <1>2, <2>1
  <2> DEFINE c == work[i + 1]
  <2>3. /\ c.bad = "no" /\ c.t # "sid" /\ c.t # "skip"
        /\ c.t \in {"sid", "data", "user", "eof", "seal", "skip", "index", "sync"}
        /\ c.t = "eof" => L = i + 2 /\ work[i + 2].t = "seal" /\ Closes /\ ~Done
        /\ c.t = "seal" => i + 1 = L /\ Closes
        /\ c.t = "index" => Done /\ Closes /\ i = 1
        /\ c.t = "sync" => i + 1 = L
        /\ c.t \in {"data", "user"} => ~Done
    <3>1. (i + 1) + 1 = i + 2 /\ (i + 1 = 2 <=> i = 1)
      OBVIOUS
    <3> QED
      BY <1>0, <2>1, <2>2, <3>1 DEF ItemOk
  <2>4. Item.t = "eof" => L = 2 /\ work[2].t = "seal" /\ i = 1
    <3>1. SUFFICES ASSUME Item.t = "eof" PROVE L = 2 /\ work[2].t = "seal" /\ i = 1
      OBVIOUS
    <3>2. ItemOk(1) /\ 1 + 1 = 2
      BY <1>1, <1>2
    <3>3. L = 2 /\ work[2].t = "seal"
      BY <1>0, <1>1, <3>1, <3>2 DEF ItemOk
    <3> QED
      BY <3>3
  <2>5. c.t = "eof" => i + 1 \in 1..(L - 1) /\ work'[i + 1] = work[i + 2]
    <3>1. c.t = "eof" => i + 1 \in 1..(L - 1) /\ (i + 1) + 1 = i + 2
      BY <1>1, <2>3
    <3> QED
      BY <1>1, <3>1
  <2>6. c.t = "seal" /\ i = 1 => Done'
    <3>1. SUFFICES ASSUME c.t = "seal", i = 1, ~Done PROVE Item.t = "eof"
      OBVIOUS
    <3>2. L = 2 /\ L - 1 = 1
      BY <1>1, <2>3, <3>1
    <3> QED
      BY <1>1, <1>2, <2>3, <3>1, <3>2
  <2>7. c.t \in {"data", "user", "eof"} => ~Done'
    <3>1. c.t \in {"data", "user", "eof"} => Item.t # "eof"
      BY <2>1, <2>4
    <3> QED
      BY <2>3, <3>1
  <2>8. c.t = "data" => DataOk(i)'
    BY <1>4
  <2> HIDE DEF c
  <2>9. work'[i] = c
    BY <2>1 DEF c
  <2>10. i + 2 = L => i + 1 = L - 1
    OBVIOUS
  <2>11. i + 1 = L => i = L - 1
    OBVIOUS
  <2>12. /\ c.t = "eof" => /\ Len(work') = i + 1 /\ work'[i + 1].t = "seal"
                          /\ Closes' /\ ~Done'
         /\ c.t = "seal" => i = Len(work') /\ Closes' /\ (i = 1 => Done')
         /\ c.t \in {"skip", "index"} => Done' /\ Closes'
         /\ c.t = "index" => i = 1
         /\ c.t = "sync" => i = Len(work')
         /\ c.t \in {"data", "user"} => ~Done'
    BY <1>1, <1>3, <2>3, <2>5, <2>6, <2>7, <2>10, <2>11
  <2> QED
    BY <2>3, <2>8, <2>9, <2>12 DEF ItemOk
<1>6. ASSUME \A i \in 1..(L - 1) : work'[i].t # "data" PROVE uncomp' = Target
  <2>1. \A i \in 2..L : work[i].t # "data"
    <3>1. SUFFICES ASSUME NEW i \in 2..L PROVE work[i].t # "data"
      OBVIOUS
    <3>2. i - 1 \in 1..(L - 1) /\ (i - 1) + 1 = i
      BY <1>1
    <3> QED
      BY <1>1, <1>6, <3>2
  <2>2. CASE Item.t = "data"
    <3>1. DataOk(1)
      BY <1>1, <1>2, <2>2 DEF ItemOk
    <3>2. L = 1 \/ work[1 + 1].t # "data"
      <4>1. L # 1 => 1 + 1 \in 2..L
        BY <1>1
      <4> QED
        BY <2>1, <4>1
    <3>3. Item.off = uncomp /\ Item.off + Item.n = Target
      BY <1>1, <3>1, <3>2 DEF DataOk
    <3> QED
      BY <2>2, <3>3
  <2>3. CASE Item.t # "data"
    <3>1. \A i \in 1..L : i = 1 \/ i \in 2..L
      BY <1>1
    <3> QED
      BY <1>1, <1>2, <2>1, <2>3, <3>1
  <2> QED
    BY <2>2, <2>3
<1>7. Closes /\ L = 1 => Done
  BY <1>1, <1>2
<1>8. Closes /\ ~Done' => /\ L - 1 > 1 /\ work'[L - 1].t = "seal" /\ work'[L - 2].t = "eof"
  <2>1. SUFFICES ASSUME Closes, ~Done'
                 PROVE  L - 1 > 1 /\ work'[L - 1].t = "seal" /\ work'[L - 2].t = "eof"
    OBVIOUS
  <2>2. ~Done /\ Item.t # "eof" /\ L > 1 /\ work[L].t = "seal" /\ work[L - 1].t = "eof"
    BY <1>2, <2>1
  <2>3. L - 1 # 1
    BY <1>1, <2>2
  <2>4. L - 1 \in 1..(L - 1) /\ (L - 1) + 1 = L /\ L - 2 \in 1..(L - 1) /\ (L - 2) + 1 = L - 1
    BY <1>1, <2>2, <2>3
  <2>5. work'[L - 1] = work[L] /\ work'[L - 2] = work[L - 1]
    BY <1>1, <2>4
  <2> QED
    BY <1>1, <2>2, <2>3, <2>5
<1>9. Done' => Closes
  <2>1. Item.t = "eof" => Closes
    BY <1>1, <1>2 DEF ItemOk
  <2> QED
    BY <1>2, <2>1
<1>10. work' = <<>> <=> L = 1
  <2>1. work' \in Seq(ChunkRec)
    BY <1>1
  <2>2. work' = <<>> <=> Len(work') = 0
    BY <2>1, EmptySeq
  <2>3. Len(work') = 0 <=> L = 1
    BY <1>0, <1>1
  <2> QED
    BY <2>2, <2>3
<1>11. (L - 1) - 1 = L - 2
  BY <1>1
<1> QED
  BY <1>1, <1>2, <1>3, <1>5, <1>6, <1>7, <1>8, <1>9, <1>10, <1>11 DEF WorkInv

\* The places that follow each other.
LEMMA Joins ==
  ASSUME NEW m \in Nat, NEW n \in Nat
  PROVE  [i \in 1..m |-> i] \o [j \in 1..n |-> m + j] = [i \in 1..(m + n) |-> i]
PROOF
<1> DEFINE a == [i \in 1..m |-> i]
           b == [j \in 1..n |-> m + j]
           c == [i \in 1..(m + n) |-> i]
<1>1. a \in Seq(Nat) /\ Len(a) = m /\ \A i \in 1..m : a[i] = i
  OBVIOUS
<1>2. b \in Seq(Nat) /\ Len(b) = n /\ \A j \in 1..n : b[j] = m + j
  OBVIOUS
<1>3. c \in Seq(Nat) /\ Len(c) = m + n /\ \A i \in 1..(m + n) : c[i] = i
  OBVIOUS
<1> HIDE DEF a, b, c
<1>4. a \o b \in Seq(Nat) /\ Len(a \o b) = m + n
  BY <1>1, <1>2
<1>5. ASSUME NEW i \in 1..(m + n) PROVE (a \o b)[i] = i
  <2>1. CASE i <= m
    BY <1>1, <1>2, <2>1
  <2>2. CASE i > m
    <3>1. i - m \in 1..n /\ m + (i - m) = i
      BY <2>2
    <3>2. (a \o b)[i] = b[i - m]
      BY <1>1, <1>2, <2>2
    <3> QED
      BY <1>2, <3>1, <3>2
  <2>3. i <= m \/ i > m
    OBVIOUS
  <2> QED
    BY <2>1, <2>2, <2>3
<1>6. a \o b = c
  BY <1>3, <1>4, <1>5, SeqEqual
<1> QED
  BY <1>6 DEF a, b, c

\* The item in hand.
LEMMA HeadOk ==
  ASSUME TypeOK, WorkInv, pc = "step", work # <<>>, Item.t \notin {"seal", "sync"}
  PROVE  /\ Item \in ChunkRec /\ Item = work[1] /\ 1 \in 1..Len(work) /\ err = "none"
         /\ Item.bad = "no" /\ Item.t \in {"sid", "data", "user", "eof", "skip", "index"}
         /\ (Item.t = "sid") <=> ~wroteHeader
         /\ Item.t = "sid" => Item = Header
         /\ Item.t = "data" => Item.n \in 1..BlockSize /\ Item.off = uncomp
         /\ Item.t \in {"data", "user", "eof"} => ~Done
         /\ Item.t \in {"skip", "index"} => Done
         /\ Item.t = "skip" => Item.size >= ChunkHeader
PROOF
<1>1. Item \in ChunkRec /\ Item = work[1] /\ 1 \in 1..Len(work)
  BY DEF TypeOK, Item
<1>2. ItemOk(1) /\ err = "none" /\ (~wroteHeader => work[1].t \in {"sid", "sync"})
  BY <1>1 DEF WorkInv
<1>3. Item.t = "data" => DataOk(1)
  BY <1>1, <1>2 DEF ItemOk
<1>4. Item.t = "data" => Item.n \in 1..BlockSize /\ Item.off = uncomp
  BY <1>1, <1>3 DEF DataOk
<1> QED
  BY <1>1, <1>2, <1>4 DEF ItemOk

\* The data written when the item in hand is.
Reach == IF Item.t = "data" THEN uncomp + Item.n ELSE uncomp

\* What the Reader makes of one more chunk of the call.
LEMMA SinkMore ==
  ASSUME TypeOK, WorkInv, GotInv, pc = "step", work # <<>>, Item.t \notin {"seal", "sync"},
         NEW c \in Chunks
  PROVE  LET st == Append(wire, c)
             q == Behind(st)
             t == Tally(wire)
         IN  /\ c \in ChunkRec /\ st \in Seq(ChunkRec) /\ st # <<>>
             /\ q.err = "none" /\ q.header = q.expectEof /\ q.max = Announced
             /\ At(q) = Reach
             /\ ~q.expectEof <=> (Done \/ Item.t = "eof")
             /\ Tally(st).size = t.size + c.size
             /\ Tally(st).starts = IF Item.t = "data"
                                   THEN Append(t.starts, [comp |-> t.size, uncomp |-> uncomp])
                                   ELSE t.starts
             /\ Tally(st).bytes = [i \in 1..Reach |-> i]
PROOF
<1> DEFINE st == Append(wire, c)
           q == Behind(st)
           t == Tally(wire)
           k == Len(wire) + 1
<1>1. /\ Item \in ChunkRec /\ err = "none"
      /\ Item.bad = "no" /\ Item.t \in {"sid", "data", "user", "eof", "skip", "index"}
      /\ (Item.t = "sid") <=> ~wroteHeader
      /\ Item.t = "sid" => Item = Header
      /\ Item.t = "data" => Item.n \in 1..BlockSize /\ Item.off = uncomp
      /\ Item.t \in {"data", "user", "eof"} => ~Done
  BY HeadOk
<1>2. /\ c \in ChunkRec /\ c.bad = "no"
      /\ Item.t = "data" => c.t \in {"comp", "raw"} /\ c.n = Item.n /\ c.off = Item.off
      /\ Item.t = "eof" => c.t = "eof" /\ c.n = uncomp
      /\ Item.t \notin {"data", "eof"} => c = Item
  BY <1>1, ItemChunk
<1>3. wire \in Seq(ChunkRec) /\ k \in Nat /\ uncomp \in Nat /\ wroteHeader \in BOOLEAN
  BY DEF TypeOK
<1>4. st \in Seq(ChunkRec) /\ st # <<>>
  BY <1>2, <1>3
<1>5. Got \in ReaderState /\ q = Turn(Got, c, k)
  BY <1>2, <1>3, RunMore DEF Got
<1>6. Tally(st) = Count(t, c, Good(wire, c)) /\ t \in TallyRec
  BY <1>2, <1>3, TallyMore
<1>7. Good(wire, c) <=> c.t \in {"comp", "raw"} /\ q.err = "none"
  BY DEF Good
<1>8. /\ wroteHeader <=> wire # <<>>
      /\ Got.err = "none" /\ Got.header = Got.expectEof
      /\ wroteHeader => Got.max = Announced /\ At(Got) = uncomp
      /\ ~wroteHeader => uncomp = 0
      /\ t.bytes = [i \in 1..uncomp |-> i]
  BY <1>1 DEF GotInv
<1>9. Announced \in Nat /\ BlockSize <= Announced /\ Announced <= MaxBlockSize /\ BlockSize \in Nat
  BY AnnouncedFits, SizeAssumption
<1>10. Got.expectEof \in BOOLEAN /\ Got.header \in BOOLEAN
  BY <1>5 DEF ReaderState
<1>11. wroteHeader => (Done <=> ~Got.expectEof)
  BY DEF Done
<1> HIDE DEF q, st, t, k
<1>12. /\ Tally(st).size = t.size + c.size
       /\ Tally(st).starts = IF IsBlock(c) THEN Append(t.starts, [comp |-> t.size, uncomp |-> c.off])
                             ELSE t.starts
       /\ Tally(st).bytes = IF Good(wire, c) THEN t.bytes \o [j \in 1..c.n |-> c.off + j] ELSE t.bytes
  BY <1>6 DEF Count
<1>13. CASE Item.t = "sid"
  <2>1. c = Header /\ c.t = "sid" /\ c.n = Announced /\ ~wroteHeader
    BY <1>1, <1>2, <1>13 DEF Header, Chunk
  <2>2. q.err = "none" /\ q.header = TRUE /\ q.expectEof = TRUE /\ q.max = Announced /\ At(q) = 0
    <3>1. Got \in ReaderState /\ Got.err = "none" /\ c \in ChunkRec /\ k \in Nat /\ c.bad = "no"
          /\ c.t = "sid" /\ c.n <= MaxBlockSize
      BY <1>2, <1>3, <1>5, <1>8, <1>9, <2>1
    <3>2. LET r == Turn(Got, c, k)
          IN  r.err = "none" /\ r.header = TRUE /\ r.expectEof = TRUE /\ r.max = c.n /\ At(r) = 0
      BY <3>1, ReadsSid, Zenon
    <3> QED
      BY <1>5, <2>1, <3>2
  <2>3. ~Good(wire, c) /\ ~IsBlock(c)
    BY <1>7, <2>1 DEF IsBlock
  <2>4. ~Done /\ Reach = uncomp /\ uncomp = 0
    BY <1>8, <1>13, <2>1 DEF Done, Reach
  <2> QED
    BY <1>2, <1>4, <1>8, <1>12, <1>13, <2>2, <2>3, <2>4 DEF q, st, t
<1>14. CASE Item.t = "data"
  <2>1. wroteHeader /\ ~Done /\ Got.header /\ Got.expectEof = TRUE
    BY <1>1, <1>3, <1>8, <1>10, <1>11, <1>14
  <2>2. c.n \in 1..BlockSize /\ c.off = uncomp /\ c.n \in Nat
    BY <1>1, <1>2, <1>9, <1>14
  <2>3. c.n > 0 /\ c.n <= Got.max
    BY <1>8, <1>9, <2>1, <2>2
  <2>4. q.err = "none" /\ q.header = TRUE /\ q.expectEof = TRUE /\ q.max = Announced
        /\ At(q) = uncomp + c.n
    <3>1. Got \in ReaderState /\ Got.err = "none" /\ Got.header /\ c \in ChunkRec /\ k \in Nat
          /\ c.t \in {"comp", "raw"} /\ c.bad = "no" /\ c.n > 0 /\ c.n <= Got.max
      BY <1>2, <1>3, <1>5, <1>8, <1>14, <2>1, <2>3
    <3>2. LET r == Turn(Got, c, k)
          IN  /\ r.err = "none" /\ r.header = TRUE /\ r.expectEof = Got.expectEof
              /\ r.max = Got.max /\ At(r) = At(Got) + c.n
      BY <3>1, ReadsBlock, Zenon
    <3> QED
      BY <1>5, <1>8, <2>1, <3>2
  <2>5. Good(wire, c) /\ IsBlock(c)
    BY <1>2, <1>7, <1>14, <2>4 DEF IsBlock
  <2>6. Reach = uncomp + c.n
    BY <1>2, <1>14 DEF Reach
  <2>7. Tally(st).bytes = [i \in 1..Reach |-> i]
    BY <1>3, <1>8, <1>12, <2>2, <2>5, <2>6, Joins
  <2> QED
    BY <1>2, <1>4, <1>12, <1>14, <2>1, <2>2, <2>4, <2>5, <2>6, <2>7 DEF q, st, t
<1>15. CASE Item.t = "eof"
  <2>1. wroteHeader /\ c.n = At(Got) /\ c.t = "eof"
    BY <1>1, <1>2, <1>3, <1>8, <1>15
  <2>2. q.err = "none" /\ q.header = FALSE /\ q.expectEof = FALSE /\ q.max = Announced
        /\ At(q) = uncomp
    BY <1>2, <1>3, <1>5, <1>8, <2>1, ReadsEof
  <2>3. ~Good(wire, c) /\ ~IsBlock(c) /\ Reach = uncomp
    BY <1>7, <1>15, <2>1 DEF IsBlock, Reach
  <2> QED
    BY <1>2, <1>4, <1>8, <1>12, <1>15, <2>2, <2>3 DEF q, st, t
<1>16. CASE Item.t \in {"user", "skip", "index"}
  <2>1. wroteHeader /\ c = Item /\ c.t \in {"user", "skip", "index"}
    BY <1>1, <1>2, <1>3, <1>16
  <2>2. q.err = "none" /\ q.header = Got.header /\ q.expectEof = Got.expectEof
        /\ q.max = Announced /\ At(q) = uncomp
    BY <1>2, <1>3, <1>5, <1>8, <2>1, ReadsOther
  <2>3. ~Good(wire, c) /\ ~IsBlock(c) /\ Reach = uncomp
    BY <1>7, <1>16, <2>1 DEF IsBlock, Reach
  <2> QED
    BY <1>2, <1>4, <1>8, <1>11, <1>12, <1>16, <2>1, <2>2, <2>3 DEF q, st, t
<1> QED
  BY <1>1, <1>13, <1>14, <1>15, <1>16

\* What is still to be written behind the padding and of it, when one item is.
LEMMA OwedTail ==
  ASSUME TypeOK, WorkInv, pc = "step", work # <<>>, Item.t \notin {"seal", "sync"},
         work' = Tail(work)
  PROVE  /\ Owed' = IF Item.t = "index" THEN 0 ELSE Owed
         /\ Item.t = "index" => Owed = Item.size
         /\ Unpadded' = 0
         /\ Unpadded = IF Item.t = "skip" THEN Item.size ELSE 0
PROOF
<1>0. PICK L \in Nat : L = Len(work)
  BY DEF TypeOK
<1>1. /\ work \in Seq(ChunkRec) /\ L > 0 /\ 1 \in 1..L /\ Item = work[1]
      /\ work' \in Seq(ChunkRec) /\ Len(work') = L - 1
      /\ \A i \in 1..(L - 1) : work'[i] = work[i + 1]
  BY <1>0 DEF TypeOK, Item
<1>2. work' # <<>> <=> L > 1
  <2>1. work' = <<>> <=> Len(work') = 0
    BY <1>1, EmptySeq
  <2>2. Len(work') = 0 <=> ~(L > 1)
    BY <1>1
  <2> QED
    BY <2>1, <2>2
<1>3. \A i \in 1..L : ItemOk(i)
  BY <1>0 DEF WorkInv
<1>4. L > 1 => /\ work'[1] = work[2] /\ work[2].t # "skip"
               /\ work[2].t = "index" => Item.t = "skip"
  <2>1. SUFFICES ASSUME L > 1
                 PROVE  /\ work'[1] = work[2] /\ work[2].t # "skip"
                        /\ work[2].t = "index" => Item.t = "skip"
    OBVIOUS
  <2>2. 2 \in 1..L /\ 1 \in 1..(L - 1) /\ 1 + 1 = 2
    BY <2>1
  <2>3. ItemOk(2)
    BY <1>3, <2>2
  <2> QED
    BY <1>1, <2>2, <2>3 DEF ItemOk
<1>5. L > 2 => work'[2] = work[3] /\ work[3].t # "index"
  <2>1. SUFFICES ASSUME L > 2 PROVE work'[2] = work[3] /\ work[3].t # "index"
    OBVIOUS
  <2>2. 3 \in 1..L /\ 2 \in 1..(L - 1) /\ 2 + 1 = 3
    BY <2>1
  <2>3. ItemOk(3)
    BY <1>3, <2>2
  <2> QED
    BY <1>1, <2>2, <2>3 DEF ItemOk
<1>6. Owed' = IF L > 1 /\ work[2].t = "index" THEN work[2].size ELSE 0
  <2>1. Len(work') > 1 => L > 1
    BY <1>1
  <2> QED
    BY <1>2, <1>4, <2>1 DEF Owed
<1>7. Owed = IF Item.t = "index" THEN Item.size
             ELSE IF L > 1 /\ Item.t = "skip" /\ work[2].t = "index" THEN work[2].size ELSE 0
  BY <1>0, <1>1 DEF Owed
<1>8. Unpadded' = 0
  BY <1>2, <1>4 DEF Unpadded
<1>9. Unpadded = IF Item.t = "skip" THEN Item.size ELSE 0
  BY <1>1 DEF Unpadded
<1> QED
  BY <1>4, <1>6, <1>7, <1>8, <1>9

\* Writing a chunk keeps the invariant.
LEMMA EmitKeeps == SinkInv /\ Emit => SinkInv'
PROOF
<1> SUFFICES ASSUME SinkInv, Emit PROVE SinkInv'
  OBVIOUS
<1>1. TypeOK /\ WorkInv /\ GotInv /\ CountInv /\ PadInv
  BY DEF SinkInv
<1>2. /\ pc = "step" /\ work # <<>> /\ Item.t \notin {"seal", "sync"}
      /\ uncomp' = Reach /\ wroteHeader' = (wroteHeader \/ Item.t = "sid")
      /\ work' = Tail(work)
      /\ UNCHANGED <<opts, ibuf, err, pc, call, rest, ret, accepted, chunks>>
  BY DEF Emit, Reach, Counted
<1>3. PICK c \in Chunks : /\ wire' = Append(wire, c)
                          /\ comp' = IF Item.t = "index" THEN comp ELSE comp + c.size
                          /\ Indexed(c.size)
  BY DEF Emit
<1>4. /\ Item \in ChunkRec /\ Item = work[1] /\ err = "none"
      /\ Item.bad = "no" /\ Item.t \in {"sid", "data", "user", "eof", "skip", "index"}
      /\ (Item.t = "sid") <=> ~wroteHeader
      /\ Item.t = "data" => Item.n \in 1..BlockSize /\ Item.off = uncomp
      /\ Item.t \in {"data", "user", "eof"} => ~Done
      /\ Item.t = "skip" => Item.size >= ChunkHeader
  BY <1>1, <1>2, HeadOk
<1>5. /\ c.bad = "no" /\ c.size \in Nat
      /\ Item.t = "data" => c.t \in {"comp", "raw"}
      /\ Item.t = "eof" => c.t = "eof"
      /\ Item.t \notin {"data", "eof"} => c = Item
  <2>1. c \in ChunkRec /\ c.bad = "no" /\ (Item.t = "data" => c.t \in {"comp", "raw"})
        /\ (Item.t = "eof" => c.t = "eof") /\ (Item.t \notin {"data", "eof"} => c = Item)
    BY <1>1, <1>2, <1>4, ItemChunk
  <2> QED
    BY <2>1 DEF ChunkRec
<1>6. /\ c \in ChunkRec /\ wire' \in Seq(ChunkRec) /\ wire' # <<>>
      /\ Got'.err = "none" /\ Got'.header = Got'.expectEof /\ Got'.max = Announced
      /\ At(Got') = Reach
      /\ ~Got'.expectEof <=> (Done \/ Item.t = "eof")
      /\ Tally(wire').size = Tally(wire).size + c.size
      /\ Tally(wire').starts = IF Item.t = "data"
                               THEN Append(Tally(wire).starts,
                                           [comp |-> Tally(wire).size, uncomp |-> uncomp])
                               ELSE Tally(wire).starts
      /\ Tally(wire').bytes = [i \in 1..Reach |-> i]
  BY <1>1, <1>2, <1>3, SinkMore DEF Got
<1>7. wroteHeader' = TRUE /\ Done' = (Done \/ Item.t = "eof")
  BY <1>1, <1>2, <1>4, <1>6 DEF Done, TypeOK
<1>8. WorkInv'
  <2>1. uncomp' = IF Item.t = "data" THEN uncomp + Item.n ELSE uncomp
    BY <1>2 DEF Reach
  <2> QED
    BY <1>1, <1>2, <1>7, <2>1, TailKeeps
<1>9. /\ comp \in Nat /\ uncomp \in Nat /\ index \in Seq(Place) /\ wire \in Seq(ChunkRec)
      /\ work \in Seq(ChunkRec) /\ BlockSize \in Nat /\ Tally(wire) \in TallyRec
  BY <1>1, SizeAssumption, BehindType DEF TypeOK, Place
<1>10. Tally(wire).size \in Nat /\ Tally(wire).starts \in Seq(Place)
  BY <1>9 DEF TallyRec
<1>11. /\ Owed' = IF Item.t = "index" THEN 0 ELSE Owed
       /\ Item.t = "index" => Owed = Item.size
       /\ Unpadded' = 0
       /\ Unpadded = IF Item.t = "skip" THEN Item.size ELSE 0
  BY <1>1, <1>2, OwedTail
<1>12. /\ index' = IF Item.t = "data" /\ Indexing
                   THEN Append(index, [comp |-> comp, uncomp |-> uncomp]) ELSE index
  BY <1>3 DEF Indexed, IndexAdd, Indexing
<1>13. TypeOK'
  <2>1. comp' \in Nat
    BY <1>3, <1>5, <1>9
  <2>2. uncomp' \in Nat
    BY <1>2, <1>4, <1>9 DEF Reach
  <2>3. work' \in Seq(ChunkRec)
    BY <1>2, <1>9
  <2>4. [comp |-> comp, uncomp |-> uncomp] \in Place
    BY <1>9 DEF Place
  <2>5. index' \in Seq(Place)
    BY <1>9, <1>12, <2>4
  <2> QED
    BY <1>1, <1>2, <1>6, <1>7, <2>1, <2>2, <2>3, <2>5 DEF TypeOK, Place
<1>14. GotInv'
  <2>1. Done' => \E k \in 1..Len(wire') : wire'[k].t = "eof" /\ wire'[k].bad = "no"
    <3>1. Len(wire') = Len(wire) + 1 /\ wire'[Len(wire) + 1] = c /\ Len(wire) \in Nat
          /\ \A k \in 1..Len(wire) : k \in 1..(Len(wire) + 1) /\ wire'[k] = wire[k]
      BY <1>3, <1>6, <1>9
    <3>2. CASE Done
      <4>1. PICK k \in 1..Len(wire) : wire[k].t = "eof" /\ wire[k].bad = "no"
        BY <1>1, <1>4, <3>2 DEF GotInv
      <4> QED
        BY <3>1, <4>1
    <3>3. CASE Item.t = "eof"
      <4>1. Len(wire) + 1 \in 1..(Len(wire) + 1)
        BY <3>1
      <4> QED
        BY <1>5, <3>1, <3>3, <4>1
    <3> QED
      BY <1>7, <3>2, <3>3
  <2>2. err' = "none" /\ (wire' # <<>>)
    BY <1>2, <1>4, <1>6
  <2> QED
    BY <1>2, <1>6, <1>7, <2>1, <2>2 DEF GotInv
<1>15. CountInv'
  <2>1. comp = Tally(wire).size + Owed /\ (Indexing => index = Tally(wire).starts)
    BY <1>1, <1>4 DEF CountInv
  <2>2. Indexing' = Indexing
    BY <1>2 DEF Indexing
  <2>3. Item.t = "index" => comp' = Tally(wire').size + Owed'
    BY <1>3, <1>5, <1>6, <1>9, <1>10, <1>11, <2>1
  <2>4. Owed \in Nat
    <3>0. work \in Seq(ChunkRec)
      BY <1>9
    <3>1. \A k \in 1..Len(work) : work[k].size \in Nat
      <4>1. \A k \in 1..Len(work) : work[k] \in ChunkRec
        BY <3>0
      <4>2. \A d \in ChunkRec : d.size \in Nat
        BY DEF ChunkRec
      <4> QED
        BY <4>1, <4>2
    <3>2. 1 \in 1..Len(work) /\ (Len(work) > 1 => 2 \in 1..Len(work))
      BY <1>2, <1>9
    <3> QED
      BY <3>1, <3>2 DEF Owed
  <2>5. Item.t # "index" => comp' = Tally(wire').size + Owed'
    BY <1>3, <1>5, <1>6, <1>9, <1>10, <1>11, <2>1, <2>4
  <2>6. Item.t = "data" => Owed = 0
    BY <1>4 DEF Owed
  <2>7. Indexing => index' = Tally(wire').starts
    BY <1>6, <1>10, <1>12, <2>1, <2>6
  <2> QED
    BY <2>2, <2>3, <2>5, <2>7 DEF CountInv
<1>16. PadInv'
  <2>1. \A k \in 1..Len(wire') : wire'[k].t = "skip" => wire'[k].size >= ChunkHeader
    <3>1. SUFFICES ASSUME NEW k \in 1..Len(wire'), wire'[k].t = "skip"
                   PROVE  wire'[k].size >= ChunkHeader
      OBVIOUS
    <3>2. CASE k \in 1..Len(wire)
      <4>1. wire'[k] = wire[k]
        BY <1>3, <1>6, <1>9, <3>2
      <4> QED
        BY <1>1, <3>1, <3>2, <4>1 DEF PadInv
    <3>3. CASE k \notin 1..Len(wire)
      <4>1. k = Len(wire) + 1 /\ wire'[k] = c
        BY <1>3, <1>6, <1>9, <3>3
      <4> QED
        BY <1>4, <1>5, <3>1, <4>1
    <3> QED
      BY <3>2, <3>3
  <2>2. ASSUME Done', opts.padding > 1, \A i \in 1..Len(work') : work'[i].t # "seal"
        PROVE  (comp' + Unpadded') % opts.padding = 0
    <3>0. PICK L \in Nat : L = Len(work)
      BY <1>9
    <3>1. L > 0 /\ 1 \in 1..L /\ Len(work') = L - 1 /\ \A i \in 1..(L - 1) : work'[i] = work[i + 1]
      BY <1>2, <1>9, <3>0
    <3>2. Item.t # "eof"
      <4>1. SUFFICES ASSUME Item.t = "eof" PROVE FALSE
        OBVIOUS
      <4>2. ItemOk(1)
        BY <1>1, <1>2, <3>0, <3>1 DEF WorkInv
      <4>3. L = 2 /\ work[2].t = "seal"
        <5>1. work[1].t = "eof" /\ 1 + 1 = 2
          BY <1>4, <4>1
        <5> QED
          BY <3>0, <4>2, <5>1 DEF ItemOk
      <4>4. 1 \in 1..(L - 1) /\ work'[1] = work[2]
        BY <3>1, <4>3
      <4> QED
        BY <2>2, <3>1, <4>3, <4>4
    <3>3. Done /\ Item.t \in {"skip", "index"}
      BY <1>4, <1>7, <2>2, <3>2 DEF Done
    <3>4. \A i \in 1..L : work[i].t # "seal"
      <4>1. SUFFICES ASSUME NEW i \in 1..L, i # 1 PROVE work[i].t # "seal"
        BY <1>2, <1>4
      <4>2. i - 1 \in 1..(L - 1) /\ (i - 1) + 1 = i
        BY <4>1
      <4>3. work'[i - 1] = work[i]
        BY <3>1, <4>2
      <4> QED
        BY <2>2, <3>1, <4>2, <4>3
    <3>5. (comp + Unpadded) % opts.padding = 0
      BY <1>1, <1>2, <2>2, <3>0, <3>3, <3>4 DEF PadInv
    <3>6. Item.t = "skip" => comp' = comp + Item.size /\ Unpadded = Item.size
      BY <1>3, <1>5, <1>11
    <3>7. Item.t = "index" => comp' = comp /\ Unpadded = 0
      BY <1>3, <1>11
    <3>8. comp' + Unpadded' = comp + Unpadded
      <4>1. Item.size \in Nat
        BY <1>4 DEF ChunkRec
      <4> QED
        BY <1>9, <1>11, <3>3, <3>6, <3>7, <4>1
    <3> QED
      BY <3>5, <3>8
  <2> QED
    BY <1>2, <2>1, <2>2 DEF PadInv
<1>17. FailInv' /\ EndInv'
  BY <1>2, <1>4 DEF FailInv, EndInv, Complete
<1> QED
  BY <1>8, <1>13, <1>14, <1>15, <1>16, <1>17 DEF SinkInv

\* How reading a stream ends.
LEMMA Outcome ==
  ASSUME NEW st \in Seq(ChunkRec)
  PROVE  Reader!SeqResult(st) = IF Behind(st).err = "none" /\ Behind(st).expectEof
                                THEN "corrupt" ELSE Behind(st).err
PROOF
<1>1. Behind(st) \in ReaderState
  BY BehindType
<1>2. \A s \in ReaderState : Reader!AtEnd(s).err = IF s.err = "none" /\ s.expectEof
                                                   THEN "corrupt" ELSE s.err
  BY DEF Reader!AtEnd, Reader!Err, ReaderState
<1>3. Reader!SeqResult(st) = Reader!AtEnd(Behind(st)).err
  BY DEF Reader!SeqResult, Behind
<1> QED
  BY <1>1, <1>2, <1>3

\* What has been taken so far is the beginning of the data, and is not taken for all
\* of it before the EOF chunk is there.
LEMMA SoFar ==
  ASSUME TypeOK, GotInv, err = "none"
  PROVE  TruncationDetected
PROOF
<1>1. /\ uncomp \in Nat /\ wire \in Seq(ChunkRec) /\ wroteHeader \in BOOLEAN
      /\ Got \in ReaderState
  BY BehindType DEF TypeOK, Got
<1>2. ReadBack = [i \in 1..uncomp |-> i] /\ Len([i \in 1..uncomp |-> i]) = uncomp
  BY <1>1 DEF GotInv, ReadBack
<1>3. ASSUME wire # <<>>, \A k \in 1..Len(wire) : wire[k].t # "eof" \/ wire[k].bad # "no"
      PROVE  Reader!SeqResult(wire) = "corrupt"
  <2>1. wroteHeader /\ ~Done /\ Got.err = "none"
    BY <1>3 DEF GotInv
  <2>2. Got.expectEof = TRUE
    BY <1>1, <2>1 DEF Done, ReaderState
  <2> QED
    BY <1>1, <2>1, <2>2, Outcome DEF Got
<1> QED
  BY <1>2, <1>3 DEF TruncationDetected

\* A failing sink keeps the invariant.
LEMMA EmitFailsKeeps == SinkInv /\ EmitFails => SinkInv'
PROOF
<1> SUFFICES ASSUME SinkInv, EmitFails PROVE SinkInv'
  OBVIOUS
<1>1. TypeOK /\ WorkInv /\ GotInv /\ CountInv /\ PadInv
  BY DEF SinkInv
<1>2. /\ pc = "step" /\ work # <<>> /\ Item.t \notin {"seal", "sync"}
      /\ comp' \in {comp, comp + FirstWrite} /\ err' = "io" /\ ret' = "io"
      /\ pc' \in {"idle", "ended"} /\ work' = <<>>
      /\ UNCHANGED <<opts, ibuf, wroteHeader, uncomp, call, rest, accepted, chunks>>
  BY DEF EmitFails, Kept
<1>3. PICK c \in Chunks : wire' \in Partial(c) /\ Indexed(c.size)
  BY DEF EmitFails
<1>4. /\ Item \in ChunkRec /\ err = "none"
      /\ Item.bad = "no" /\ Item.t \in {"sid", "data", "user", "eof", "skip", "index"}
      /\ (Item.t = "sid") <=> ~wroteHeader
      /\ Item.t = "data" => Item.n \in 1..BlockSize /\ Item.off = uncomp
      /\ Item.t = "skip" => Item.size >= ChunkHeader
  BY <1>1, <1>2, HeadOk
<1>5. /\ c \in ChunkRec /\ c.bad = "no"
      /\ Item.t = "data" => c.t \in {"comp", "raw"} /\ c.n = Item.n
      /\ Item.t = "eof" => c.t = "eof"
      /\ Item.t \notin {"data", "eof"} => c = Item
  BY <1>1, <1>2, <1>4, ItemChunk
<1>6. /\ comp \in Nat /\ uncomp \in Nat /\ index \in Seq(Place) /\ wire \in Seq(ChunkRec)
      /\ BlockSize \in Nat /\ Tally(wire) \in TallyRec /\ Got \in ReaderState
  BY <1>1, SizeAssumption, BehindType DEF TypeOK, Place, Got
<1>7. Tally(wire).starts \in Seq(Place)
  BY <1>6 DEF TallyRec
<1>8. PICK d \in ChunkRec :
        /\ wire' \in {wire, Append(wire, d)}
        /\ d.t = "stub" \/ d.bad = "cut"
        /\ d.t \in {"sid", "comp", "raw", "user", "eof", "skip", "index", "stub"}
        /\ d.t = "raw" => d.n <= Got.max
        /\ d.t = "skip" => d.size >= ChunkHeader
  <2> DEFINE stub == Chunk("stub", 0, 0, 0)
             cut == [c EXCEPT !.bad = "cut"]
  <2>1. stub \in ChunkRec /\ stub.t = "stub"
    BY DEF Chunk, ChunkRec
  <2>2. cut \in ChunkRec /\ cut.bad = "cut" /\ cut.t = c.t /\ cut.n = c.n /\ cut.size = c.size
    BY <1>5 DEF ChunkRec
  <2>3. c.t \in {"sid", "comp", "raw", "user", "eof", "skip", "index"}
    BY <1>4, <1>5
  <2>4. c.t = "raw" => c.n <= Got.max
    <3>1. SUFFICES ASSUME c.t = "raw" PROVE c.n <= Got.max
      OBVIOUS
    <3>2. Item.t = "data"
      BY <1>4, <1>5, <3>1
    <3>3. wroteHeader /\ Got.max = Announced
      BY <1>1, <1>4, <3>2 DEF GotInv, TypeOK
    <3>4. Announced \in Nat /\ BlockSize <= Announced
      BY AnnouncedFits
    <3>5. c.n \in 1..BlockSize
      BY <1>4, <1>5, <3>2
    <3> QED
      BY <1>6, <3>3, <3>4, <3>5
  <2>5. c.t = "skip" => c.size >= ChunkHeader
    BY <1>4, <1>5
  <2>6. wire' \in {wire, Append(wire, stub), Append(wire, cut)}
    BY <1>3 DEF Partial
  <2> HIDE DEF stub, cut
  <2>7. CASE wire' = Append(wire, stub)
    BY <2>1, <2>7
  <2>8. CASE wire' # Append(wire, stub)
    BY <2>2, <2>3, <2>4, <2>5, <2>6, <2>8
  <2> QED
    BY <2>7, <2>8
<1>9. /\ wire' \in Seq(ChunkRec) /\ Tally(wire').starts = Tally(wire).starts
      /\ Tally(wire').bytes = Tally(wire).bytes
      /\ wire' # wire => Behind(wire').err = "corrupt"
  <2>1. CASE wire' = wire
    BY <1>6, <2>1
  <2>2. CASE wire' = Append(wire, d)
    <3>1. wire' \in Seq(ChunkRec)
      BY <1>6, <2>2
    <3>2. Behind(wire') = Turn(Got, d, Len(wire) + 1) /\ Len(wire) + 1 \in Nat
      BY <1>6, <2>2, RunMore DEF Got
    <3>3. Got.err = "none"
      BY <1>1, <1>4 DEF GotInv
    <3>4. Behind(wire').err = "corrupt"
      <4>1. /\ Got \in ReaderState /\ d \in ChunkRec /\ Len(wire) + 1 \in Nat
            /\ d.t = "stub" \/ d.bad = "cut"
            /\ d.t \notin {"data", "seal", "sync"}
            /\ d.t = "raw" => d.n <= Got.max
        BY <1>6, <1>8, <3>2
      <4>2. Turn(Got, d, Len(wire) + 1).err = "corrupt"
        BY <3>3, <4>1, ReadsCut, Zenon
      <4> QED
        BY <3>2, <4>2
    <3>5. Tally(wire') = Count(Tally(wire), d, Good(wire, d))
      BY <1>6, <2>2, TallyMore
    <3>6. ~Good(wire, d) /\ ~IsBlock(d)
      BY <1>8, <2>2, <3>4 DEF Good, IsBlock
    <3> QED
      BY <3>1, <3>4, <3>5, <3>6 DEF Count
  <2> QED
    BY <1>8, <2>1, <2>2
<1>10. TypeOK'
  <2>1. comp' \in Nat
    BY <1>2, <1>6 DEF FirstWrite, ChunkHeader, Checksum
  <2>2. [comp |-> comp, uncomp |-> uncomp] \in Place
    BY <1>6 DEF Place
  <2>3. index' \in Seq(Place)
    <3>1. index' = index \/ index' = Append(index, [comp |-> comp, uncomp |-> uncomp])
      BY <1>3 DEF Indexed, IndexAdd
    <3> QED
      BY <1>6, <2>2, <3>1
  <2>4. work' \in Seq(ChunkRec)
    BY <1>2
  <2> QED
    BY <1>1, <1>2, <1>9, <2>1, <2>3, <2>4 DEF TypeOK, Place
<1>11. WorkInv' /\ GotInv' /\ CountInv' /\ EndInv'
  BY <1>2 DEF WorkInv, GotInv, CountInv, EndInv, Complete
<1>12. PadInv'
  <2>1. \A k \in 1..Len(wire') : wire'[k].t = "skip" => wire'[k].size >= ChunkHeader
    <3>1. SUFFICES ASSUME NEW k \in 1..Len(wire'), wire'[k].t = "skip"
                   PROVE  wire'[k].size >= ChunkHeader
      OBVIOUS
    <3>2. CASE k \in 1..Len(wire)
      <4>1. wire'[k] = wire[k]
        BY <1>6, <1>8, <3>2
      <4> QED
        BY <1>1, <3>1, <3>2, <4>1 DEF PadInv
    <3>3. CASE k \notin 1..Len(wire)
      <4>1. wire' = Append(wire, d)
        BY <1>8, <3>1, <3>3
      <4>2. k = Len(wire) + 1 /\ wire'[k] = d
        BY <1>6, <3>3, <4>1
      <4> QED
        BY <1>8, <3>1, <4>2
    <3> QED
      BY <3>2, <3>3
  <2> QED
    BY <1>2, <2>1 DEF PadInv
<1>13. TruncationDetected'
  <2>1. TruncationDetected
    BY <1>1, <1>4, SoFar
  <2>2. CASE wire' = wire
    BY <2>1, <2>2 DEF TruncationDetected, ReadBack
  <2>3. CASE wire' # wire
    <3>1. ReadBack' = [i \in 1..Len(ReadBack') |-> i]
      BY <1>9, <2>1 DEF TruncationDetected, ReadBack
    <3>2. Reader!SeqResult(wire') = "corrupt"
      BY <1>9, <2>3, Outcome
    <3> QED
      BY <3>1, <3>2 DEF TruncationDetected
  <2> QED
    BY <2>2, <2>3
<1>14. IndexExact'
  <2>1. SUFFICES ASSUME Indexing
                 PROVE  /\ Len(index') \in {Len(index), Len(index) + 1}
                        /\ SubSeq(index', 1, Len(index)) = index
    <3>1. Indexing' = Indexing
      BY <1>2 DEF Indexing
    <3>2. Indexing => Tally(wire').starts = index
      BY <1>1, <1>4, <1>9 DEF CountInv
    <3>3. err' # "none"
      BY <1>2
    <3> QED
      BY <2>1, <3>1, <3>2, <3>3 DEF IndexExact, Indexing
  <2>2. index' = index \/ index' = Append(index, [comp |-> comp, uncomp |-> uncomp])
    BY <1>3 DEF Indexed, IndexAdd
  <2>3. [comp |-> comp, uncomp |-> uncomp] \in Place
    BY <1>6 DEF Place
  <2> QED
    BY <1>6, <2>2, <2>3
<1> QED
  BY <1>10, <1>11, <1>12, <1>13, <1>14 DEF SinkInv, FailInv

----------------------------------------------------------------------------
(* The other steps *)

\* What the Reader has taken is not changed by what does not write.
LEMMA Quiet ==
  ASSUME SinkInv, UNCHANGED <<err, wire, wroteHeader, uncomp, opts, index>>
  PROVE  /\ Got' = Got /\ Done' = Done /\ GotInv' /\ FailInv'
         /\ \A k \in 1..Len(wire') : wire'[k].t = "skip" => wire'[k].size >= ChunkHeader
PROOF
<1>1. Got' = Got
  BY DEF Got
<1>2. Done' = Done
  BY <1>1 DEF Done
<1>3. GotInv /\ FailInv /\ PadInv
  BY DEF SinkInv
<1>4. GotInv'
  BY <1>1, <1>2, <1>3 DEF GotInv
<1>5. TruncationDetected' = TruncationDetected
  BY DEF TruncationDetected, ReadBack
<1>6. IndexExact' = IndexExact
  BY DEF IndexExact
<1>7. FailInv'
  BY <1>3, <1>5, <1>6 DEF FailInv
<1> QED
  BY <1>1, <1>2, <1>3, <1>4, <1>7 DEF PadInv

Joined(w, a, b, S) ==
  /\ w \in Seq(S) /\ Len(w) = Len(a) + Len(b)
  /\ \A i \in 1..Len(a) : w[i] = a[i]
  /\ \A i \in 1..Len(b) : w[Len(a) + i] = b[i]

\* One sequence behind another.
LEMMA Parts ==
  ASSUME NEW S, NEW a \in Seq(S), NEW b \in Seq(S)
  PROVE  Joined(a \o b, a, b, S)
PROOF
<1>1. Len(a) \in Nat /\ Len(b) \in Nat
  OBVIOUS
<1>2. a \o b \in Seq(S) /\ Len(a \o b) = Len(a) + Len(b)
  OBVIOUS
<1>3. \A i \in 1..Len(a) : (a \o b)[i] = a[i]
  OBVIOUS
<1>4. ASSUME NEW i \in 1..Len(b) PROVE (a \o b)[Len(a) + i] = b[i]
  <2>1. Len(a) + i \in 1..(Len(a) + Len(b)) /\ Len(a) + i > Len(a) /\ (Len(a) + i) - Len(a) = i
    BY <1>1
  <2> QED
    BY <1>1, <2>1
<1> QED
  BY <1>2, <1>3, <1>4 DEF Joined

\* Padding, index and sync, where there are any.
SealShape(w, skip, idx, sync, p, x) ==
  /\ w \in Seq(ChunkRec) /\ Len(w) > 0
  /\ \A i \in 1..Len(w) :
       \/ w[i] = skip /\ i = 1
       \/ w[i] = idx /\ (i = 1 \/ (i = 2 /\ w[1].t = "skip"))
       \/ w[i] = sync /\ i = Len(w)
  /\ IF p = 0 THEN w[1] # skip ELSE w[1] = skip
  /\ x # 0 => IF p = 0 THEN w[1] = idx ELSE Len(w) > 1 /\ w[2] = idx
  /\ x = 0 => w[1] # idx /\ (Len(w) > 1 => w[2] # idx)

\* What close_inner puts behind the EOF chunk.
LEMMA SealedWork ==
  ASSUME NEW skip \in ChunkRec, NEW idx \in ChunkRec, NEW sync \in ChunkRec,
         skip.t = "skip", idx.t = "index", sync.t = "sync",
         NEW p \in Nat, NEW x \in Nat, NEW w,
         w = ((IF p = 0 THEN <<>> ELSE <<skip>>) \o (IF x = 0 THEN <<>> ELSE <<idx>>)) \o <<sync>>
  PROVE  SealShape(w, skip, idx, sync, p, x)
PROOF
<1> USE DEF SealShape
<1>0. skip # idx /\ skip # sync /\ idx # sync
  OBVIOUS
<1> DEFINE a == IF p = 0 THEN <<>> ELSE <<skip>>
           b == IF x = 0 THEN <<>> ELSE <<idx>>
           s == <<sync>>
           ab == a \o b
<1>1. /\ a \in Seq(ChunkRec) /\ (p = 0 => Len(a) = 0)
      /\ p # 0 => Len(a) = 1 /\ a[1] = skip
  BY <1>0
<1>2. /\ b \in Seq(ChunkRec) /\ (x = 0 => Len(b) = 0)
      /\ x # 0 => Len(b) = 1 /\ b[1] = idx
  OBVIOUS
<1>3. s \in Seq(ChunkRec) /\ Len(s) = 1 /\ s[1] = sync
  OBVIOUS
<1>4. w = ab \o s
  BY Zenon
<1> HIDE DEF a, b, s, ab
<1>5. /\ ab \in Seq(ChunkRec) /\ Len(ab) = Len(a) + Len(b)
      /\ \A i \in 1..Len(a) : ab[i] = a[i]
      /\ \A i \in 1..Len(b) : ab[Len(a) + i] = b[i]
  <2>1. Joined(a \o b, a, b, ChunkRec)
    BY <1>1, <1>2, Parts, Zenon
  <2> QED
    BY <2>1, Zenon DEF ab, Joined
<1>6. /\ w \in Seq(ChunkRec) /\ Len(w) = Len(ab) + 1
      /\ \A i \in 1..Len(ab) : w[i] = ab[i]
      /\ w[Len(ab) + 1] = sync
  <2>1. 1 \in 1..Len(s)
    BY <1>3
  <2>2. /\ ab \o s \in Seq(ChunkRec) /\ Len(ab \o s) = Len(ab) + Len(s)
        /\ \A i \in 1..Len(ab) : (ab \o s)[i] = ab[i]
        /\ \A i \in 1..Len(s) : (ab \o s)[Len(ab) + i] = s[i]
    <3>1. Joined(ab \o s, ab, s, ChunkRec)
      BY <1>3, <1>5, Parts, Zenon
    <3> QED
      BY <3>1, Zenon DEF Joined
  <2>3. (ab \o s)[Len(ab) + 1] = sync
    BY <1>3, <2>1, <2>2
  <2> QED
    BY <1>3, <1>4, <2>2, <2>3
<1>7. CASE p = 0 /\ x # 0
  <2>1. Len(ab) = 1 /\ ab[1] = idx
    <3>1. Len(a) = 0 /\ Len(b) = 1 /\ b[1] = idx
      BY <1>1, <1>2, <1>7
    <3>2. 1 \in 1..1 /\ 0 + 1 = 1
      OBVIOUS
    <3> QED
      BY <1>5, <3>1, <3>2
  <2>2. Len(w) = 2 /\ w[1] = idx /\ w[2] = sync
    <3>1. 1 \in 1..1 /\ 1 \in 1..2 /\ 2 \in 1..2 /\ 1 + 1 = 2 /\ 2 + 1 = 3
      OBVIOUS
    <3> QED
      BY <1>6, <2>1, <3>1
  <2>3. \A i \in 1..2 : i = 1 \/ i = 2
    OBVIOUS
  <2>4. \A i \in 1..Len(w) :
          \/ w[i] = skip /\ i = 1
          \/ w[i] = idx /\ (i = 1 \/ (i = 2 /\ w[1].t = "skip"))
          \/ w[i] = sync /\ i = Len(w)
    BY <2>2, <2>3
  <2>5. Len(w) > 0 /\ (Len(w) = 3 => Len(w) > 1)
    BY <2>2
  <2> QED
    BY <1>0, <1>6, <1>7, <2>2, <2>4, <2>5
<1>8. CASE p = 0 /\ x = 0
  <2>1. Len(ab) = 0
    BY <1>1, <1>2, <1>5, <1>8
  <2>2. Len(w) = 1 /\ w[1] = sync
    BY <1>6, <2>1
  <2>3. \A i \in 1..1 : i = 1
    OBVIOUS
  <2> QED
    BY <1>0, <1>6, <1>8, <2>2, <2>3
<1>9. CASE p # 0 /\ x # 0
  <2>1. Len(ab) = 2 /\ ab[1] = skip /\ ab[2] = idx
    <3>1. Len(a) = 1 /\ Len(b) = 1 /\ a[1] = skip /\ b[1] = idx
      BY <1>1, <1>2, <1>9
    <3>2. 1 \in 1..1 /\ 1 + 1 = 2
      OBVIOUS
    <3> QED
      BY <1>5, <3>1, <3>2
  <2>2. Len(w) = 3 /\ w[1] = skip /\ w[2] = idx /\ w[3] = sync
    <3>1. 1 \in 1..1 /\ 1 \in 1..2 /\ 2 \in 1..2 /\ 1 + 1 = 2 /\ 2 + 1 = 3
      OBVIOUS
    <3> QED
      BY <1>6, <2>1, <3>1
  <2>3. \A i \in 1..3 : i = 1 \/ i = 2 \/ i = 3
    OBVIOUS
  <2>4. \A i \in 1..Len(w) :
          \/ w[i] = skip /\ i = 1
          \/ w[i] = idx /\ (i = 1 \/ (i = 2 /\ w[1].t = "skip"))
          \/ w[i] = sync /\ i = Len(w)
    BY <2>2, <2>3
  <2>5. Len(w) > 0 /\ (Len(w) = 3 => Len(w) > 1)
    BY <2>2
  <2> QED
    BY <1>0, <1>6, <1>9, <2>2, <2>4, <2>5
<1>10. CASE p # 0 /\ x = 0
  <2>1. Len(ab) = 1 /\ ab[1] = skip
    BY <1>1, <1>2, <1>5, <1>10
  <2>2. Len(w) = 2 /\ w[1] = skip /\ w[2] = sync
    <3>1. 1 \in 1..1 /\ 1 \in 1..2 /\ 2 \in 1..2 /\ 1 + 1 = 2 /\ 2 + 1 = 3
      OBVIOUS
    <3> QED
      BY <1>6, <2>1, <3>1
  <2>3. \A i \in 1..2 : i = 1 \/ i = 2
    OBVIOUS
  <2> QED
    BY <1>0, <1>6, <1>10, <2>2, <2>3
<1> QED
  BY <1>7, <1>8, <1>9, <1>10

\* Working out the padding keeps the invariant.
LEMMA SealKeeps == SinkInv /\ Seal => SinkInv'
PROOF
<1> SUFFICES ASSUME SinkInv, Seal PROVE SinkInv'
  OBVIOUS
<1>1. TypeOK /\ WorkInv /\ GotInv /\ CountInv /\ PadInv
  BY DEF SinkInv
<1>2. /\ pc = "step" /\ work # <<>> /\ Item.t = "seal"
      /\ UNCHANGED <<opts, ibuf, wroteHeader, uncomp, index, err, pc, call, rest, ret,
                     accepted, chunks, wire>>
  BY DEF Seal
<1>3. PICK size \in IndexSizes :
        LET built == IF opts.appendIndex THEN size ELSE 0
            pad == PaddingSize(comp + built, opts.padding)
        IN /\ comp' = comp + built
           /\ work' = (IF pad = 0 THEN <<>> ELSE <<Chunk("skip", 0, 0, pad)>>)
                      \o (IF opts.appendIndex THEN <<Chunk("index", uncomp, 0, size)>> ELSE <<>>)
                      \o <<Chunk("sync", 0, 0, 0)>>
  BY DEF Seal, Sealed
<1>4. /\ comp \in Nat /\ uncomp \in Nat /\ size \in Nat /\ opts.padding \in 0..MaxBlockSize
      /\ opts.appendIndex \in BOOLEAN /\ MaxBlockSize \in Nat
  <2>1. opts \in [padding : 0..MaxBlockSize, uncompressed : BOOLEAN,
                  flushOnWrite : BOOLEAN, genIndex : BOOLEAN, appendIndex : BOOLEAN]
    BY <1>1, OptionAssumption DEF TypeOK
  <2> QED
    BY <1>1, <2>1, SizeAssumption DEF TypeOK
<1>5. PICK built \in Nat : built = IF opts.appendIndex THEN size ELSE 0
  BY <1>4
<1>6. PICK pad : pad = PaddingSize(comp + built, opts.padding)
  OBVIOUS
<1>7. /\ comp' = comp + built
      /\ work' = (IF pad = 0 THEN <<>> ELSE <<Chunk("skip", 0, 0, pad)>>)
                 \o (IF opts.appendIndex THEN <<Chunk("index", uncomp, 0, size)>> ELSE <<>>)
                 \o <<Chunk("sync", 0, 0, 0)>>
  BY <1>3, <1>5, <1>6
<1>8. /\ pad \in Nat /\ (pad # 0 => pad >= ChunkHeader)
      /\ opts.padding > 1 => ((comp + built) + pad) % opts.padding = 0
  <2>1. comp + built \in Nat
    BY <1>4
  <2>2. CASE opts.padding > 1
    <3>1. opts.padding \in 2..MaxBlockSize
      BY <1>4, <2>2
    <3> QED
      BY <1>6, <2>1, <3>1, PaddingFits
  <2>3. CASE ~(opts.padding > 1)
    <3>1. opts.padding < 2
      BY <1>4, <2>3
    <3>2. pad = 0
      BY <1>6, <3>1 DEF PaddingSize
    <3> QED
      BY <2>3, <3>2
  <2> QED
    BY <2>2, <2>3
<1> DEFINE skip == Chunk("skip", 0, 0, pad)
           idx == Chunk("index", uncomp, 0, size)
           sync == Chunk("sync", 0, 0, 0)
<1>9. /\ skip \in ChunkRec /\ skip.t = "skip" /\ skip.bad = "no" /\ skip.size = pad
      /\ idx \in ChunkRec /\ idx.t = "index" /\ idx.bad = "no" /\ idx.size = size
      /\ sync \in ChunkRec /\ sync.t = "sync" /\ sync.bad = "no"
  BY <1>4, <1>8 DEF Chunk, ChunkRec
<1>10. work' = (IF pad = 0 THEN <<>> ELSE <<skip>>)
               \o (IF opts.appendIndex THEN <<idx>> ELSE <<>>) \o <<sync>>
  BY <1>7
<1> HIDE DEF skip, idx, sync
<1>11. /\ work' \in Seq(ChunkRec) /\ Len(work') > 0
       /\ \A i \in 1..Len(work') :
            \/ work'[i] = skip /\ i = 1
            \/ work'[i] = idx /\ (i = 1 \/ (i = 2 /\ work'[1].t = "skip"))
            \/ work'[i] = sync /\ i = Len(work')
       /\ IF pad = 0 THEN work'[1] # skip ELSE work'[1] = skip
       /\ opts.appendIndex => IF pad = 0 THEN work'[1] = idx ELSE Len(work') > 1 /\ work'[2] = idx
       /\ ~opts.appendIndex => work'[1] # idx /\ (Len(work') > 1 => work'[2] # idx)
  <2>1. PICK x \in Nat : x = 0 <=> ~opts.appendIndex
    <3>1. 0 \in Nat /\ 1 \in Nat /\ 1 # 0
      OBVIOUS
    <3> QED
      BY <3>1, Zenon
  <2>2. PICK w : w = work'
    OBVIOUS
  <2>3. w = ((IF pad = 0 THEN <<>> ELSE <<skip>>) \o (IF x = 0 THEN <<>> ELSE <<idx>>)) \o <<sync>>
    BY <1>10, <2>1, <2>2, Zenon
  <2>4. SealShape(w, skip, idx, sync, pad, x)
    <3>1. pad \in Nat
      BY <1>8
    <3> QED
      BY <1>9, <2>3, <3>1, SealedWork
  <2>5. SealShape(work', skip, idx, sync, pad, x)
    BY <2>2, <2>4
  <2> QED
    BY <2>1, <2>5, Zenon DEF SealShape
<1>12. /\ Len(work) = 1 /\ work[1].t = "seal" /\ Closes /\ Done /\ err = "none" /\ ibuf = 0
       /\ uncomp = Target /\ (call # "write" => rest = 0)
  <2>1. work[1] = Item /\ 1 \in 1..Len(work)
    BY <1>1, <1>2 DEF TypeOK, Item
  <2>2. ItemOk(1)
    BY <1>1, <1>2, <2>1 DEF WorkInv
  <2>3. Len(work) = 1 /\ Closes /\ Done
    BY <1>2, <2>1, <2>2 DEF ItemOk
  <2>4. \A i \in 1..Len(work) : work[i].t # "data"
    BY <1>2, <2>1, <2>3
  <2> QED
    BY <1>1, <1>2, <2>1, <2>3, <2>4 DEF WorkInv
<1>13. /\ Got' = Got /\ Done' = Done /\ GotInv' /\ FailInv'
       /\ \A k \in 1..Len(wire') : wire'[k].t = "skip" => wire'[k].size >= ChunkHeader
  BY <1>2, Quiet
<1>14. Closes' = Closes /\ Target' = Target
  BY <1>2 DEF Closes, Target
<1>15. TypeOK'
  BY <1>1, <1>2, <1>4, <1>5, <1>7, <1>11 DEF TypeOK
<1>16. WorkInv'
  <2>1. ASSUME NEW i \in 1..Len(work') PROVE ItemOk(i)'
    <3>1. CASE work'[i] = skip /\ i = 1
      <4>1. work'[i].size >= ChunkHeader
        BY <1>8, <1>9, <1>11, <3>1
      <4> QED
        BY <1>9, <1>12, <1>13, <1>14, <3>1, <4>1 DEF ItemOk
    <3>2. CASE work'[i] = idx /\ (i = 1 \/ (i = 2 /\ work'[1].t = "skip"))
      BY <1>9, <1>12, <1>13, <1>14, <3>2 DEF ItemOk
    <3>3. CASE work'[i] = sync /\ i = Len(work')
      BY <1>9, <1>12, <1>13, <1>14, <3>3 DEF ItemOk
    <3> QED
      BY <1>11, <3>1, <3>2, <3>3
  <2>2. wroteHeader'
    BY <1>2, <1>12 DEF Done
  <2> QED
    BY <1>2, <1>12, <1>13, <1>14, <2>1, <2>2 DEF WorkInv
<1>17. Owed' = built /\ Unpadded' = pad /\ Owed = 0
  <2>1. work' # <<>>
    BY <1>11
  <2>2. Unpadded' = pad
    <3>1. 1 \in 1..Len(work')
      BY <1>11
    <3>2. pad = 0 => work'[1].t # "skip"
      BY <1>9, <1>11, <3>1
    <3> QED
      BY <1>9, <1>11, <2>1, <3>2 DEF Unpadded
  <2>3. CASE opts.appendIndex
    <3>1. built = size
      BY <1>5, <2>3
    <3>2. pad = 0 => work'[1].t = "index" /\ work'[1].size = size
      BY <1>9, <1>11, <2>3
    <3>3. pad # 0 => /\ work'[1].t = "skip" /\ Len(work') > 1 /\ work'[2].t = "index"
                     /\ work'[2].size = size
      BY <1>9, <1>11, <2>3
    <3>4. "skip" # "index"
      OBVIOUS
    <3>5. Owed' = size
      BY <2>1, <3>2, <3>3, <3>4 DEF Owed
    <3> QED
      BY <3>1, <3>5, <1>12, <2>2 DEF Owed
  <2>4. CASE ~opts.appendIndex
    <3>1. \A i \in 1..Len(work') : i \in {1, 2} => work'[i].t # "index"
      BY <1>9, <1>11, <2>4
    <3>2. 1 \in 1..Len(work') /\ (Len(work') > 1 => 2 \in 1..Len(work'))
      BY <1>11
    <3> QED
      <4>1. built = 0
        BY <1>5, <2>4
      <4>2. work'[1].t # "index" /\ (Len(work') > 1 => work'[2].t # "index")
        BY <3>1, <3>2
      <4>3. Owed' = 0
        BY <4>2 DEF Owed
      <4> QED
        BY <1>12, <2>2, <4>1, <4>3 DEF Owed
  <2> QED
    BY <1>12, <2>2, <2>3, <2>4 DEF Owed
<1>18. CountInv'
  <2>1. Tally(wire).size \in Nat
    BY <1>1, BehindType DEF TypeOK, TallyRec
  <2>2. comp = Tally(wire).size + Owed /\ (Indexing => index = Tally(wire).starts)
    BY <1>1, <1>12 DEF CountInv
  <2>3. comp' = Tally(wire').size + Owed'
    BY <1>2, <1>4, <1>7, <1>17, <2>1, <2>2
  <2> QED
    BY <1>2, <2>2, <2>3 DEF CountInv, Indexing
<1>19. PadInv'
  BY <1>2, <1>7, <1>8, <1>13, <1>17 DEF PadInv
<1>20. EndInv'
  BY <1>2 DEF EndInv, Complete
<1> QED
  BY <1>13, <1>15, <1>16, <1>18, <1>19, <1>20 DEF SinkInv

\* Flushing the sink keeps the invariant.
LEMMA SyncKeeps == SinkInv /\ Sync => SinkInv'
PROOF
<1> SUFFICES ASSUME SinkInv, Sync PROVE SinkInv'
  OBVIOUS
<1>1. TypeOK /\ WorkInv /\ GotInv /\ CountInv /\ PadInv
  BY DEF SinkInv
<1>2. /\ pc = "step" /\ work # <<>> /\ Item.t = "sync"
      /\ UNCHANGED <<opts, ibuf, wroteHeader, uncomp, comp, index, err, call, rest, accepted,
                     chunks, wire>>
  BY DEF Sync, writerVars
<1>3. \/ work' = Tail(work) /\ UNCHANGED <<pc, ret>>
      \/ /\ work' = <<>> /\ ret' = "io"
         /\ pc' = IF call = "flush" THEN "idle" ELSE "ended"
  BY DEF Sync
<1>4. work \in Seq(ChunkRec) /\ work[1] = Item /\ 1 \in 1..Len(work)
  BY <1>1, <1>2 DEF TypeOK, Item
<1>5. Len(work) = 1 /\ ItemOk(1)
  <2>1. ItemOk(1)
    BY <1>1, <1>2, <1>4 DEF WorkInv
  <2> QED
    BY <1>2, <1>4, <2>1 DEF ItemOk
<1>6. work' = <<>> /\ Len(work') = 0
  <2>1. Tail(work) \in Seq(ChunkRec) /\ Len(Tail(work)) = 0
    BY <1>2, <1>4, <1>5
  <2>2. Tail(work) = <<>>
    BY <2>1, EmptySeq
  <2>3. work' = <<>>
    BY <1>3, <2>2, Zenon
  <2> QED
    BY <2>3
<1>7. /\ err = "none" /\ ibuf = 0 /\ uncomp = Target /\ (call # "write" => rest = 0)
      /\ Done => Closes
      /\ Closes => Done
  <2>1. \A i \in 1..Len(work) : work[i].t # "data"
    BY <1>2, <1>4, <1>5
  <2>2. ~(Len(work) > 1)
    BY <1>5
  <2> QED
    BY <1>1, <1>2, <2>1, <2>2 DEF WorkInv
<1>8. /\ Done' = Done /\ GotInv' /\ FailInv'
      /\ \A k \in 1..Len(wire') : wire'[k].t = "skip" => wire'[k].size >= ChunkHeader
  BY <1>2, Quiet
<1>9. Closes' = Closes /\ Target' = Target
  BY <1>2 DEF Closes, Target
<1>10. Owed' = 0 /\ Owed = 0 /\ Unpadded' = 0 /\ Unpadded = 0
  BY <1>2, <1>4, <1>5, <1>6 DEF Owed, Unpadded
<1>11. TypeOK'
  <2>1. pc' \in {"idle", "step", "ended"} /\ ret' \in {"ok", "io", "invalid"}
    BY <1>1, <1>3 DEF TypeOK
  <2> QED
    BY <1>1, <1>2, <1>6, <2>1 DEF TypeOK
<1>12. accepted \in Nat /\ uncomp \in Nat /\ rest \in Nat
  BY <1>1, SizeAssumption DEF TypeOK
<1>13. WorkInv'
  <2>1. pc' = "idle" => uncomp' + ibuf' = accepted' /\ ~Done'
    <3>1. SUFFICES ASSUME pc' = "idle" PROVE uncomp' + ibuf' = accepted' /\ ~Done'
      OBVIOUS
    <3>2. call = "flush"
      BY <1>2, <1>3, <3>1
    <3>3. rest = 0 /\ ~Closes
      BY <1>7, <3>2 DEF Closes
    <3> QED
      BY <1>2, <1>7, <1>8, <1>12, <3>3 DEF Target
  <2> QED
    BY <1>2, <1>6, <1>7, <1>8, <1>9, <2>1 DEF WorkInv
<1>14. CountInv'
  BY <1>1, <1>2, <1>10 DEF CountInv, Indexing
<1>15. PadInv'
  <2>1. ASSUME pc' = "step", Done', opts'.padding > 1
        PROVE  (comp' + Unpadded') % opts'.padding = 0
    <3>1. \A i \in 1..Len(work) : work[i].t # "seal"
      BY <1>2, <1>4, <1>5
    <3> QED
      BY <1>1, <1>2, <1>8, <1>10, <2>1, <3>1 DEF PadInv
  <2> QED
    BY <1>8, <2>1 DEF PadInv
<1>16. EndInv'
  BY <1>2, <1>3 DEF EndInv, Complete
<1> QED
  BY <1>8, <1>11, <1>13, <1>14, <1>15, <1>16 DEF SinkInv

\* Returning keeps the invariant.
LEMMA ReturnKeeps == SinkInv /\ Return => SinkInv'
PROOF
<1> SUFFICES ASSUME SinkInv, Return PROVE SinkInv'
  OBVIOUS
<1>1. TypeOK /\ WorkInv /\ GotInv /\ CountInv /\ PadInv
  BY DEF SinkInv
<1>2. /\ pc = "step" /\ work = <<>> /\ ret' = "ok" /\ ibuf' = rest
      /\ pc' = IF Closes THEN "ended" ELSE "idle"
      /\ UNCHANGED <<opts, wroteHeader, uncomp, comp, index, err, call, work, rest, accepted,
                     chunks, wire>>
  BY DEF Return, Closes
<1>3. /\ err = "none" /\ uncomp = Target /\ (call # "write" => rest = 0)
      /\ Done => Closes
      /\ Closes => Done
  <2>1. \A i \in 1..Len(work) : work[i].t # "data"
    BY <1>2
  <2> QED
    BY <1>1, <1>2, <2>1 DEF WorkInv
<1>4. /\ Done' = Done /\ GotInv' /\ FailInv'
      /\ \A k \in 1..Len(wire') : wire'[k].t = "skip" => wire'[k].size >= ChunkHeader
  BY <1>2, Quiet
<1>5. Owed' = Owed /\ Unpadded = 0
  BY <1>2 DEF Owed, Unpadded
<1>6. accepted \in Nat /\ uncomp \in Nat /\ rest \in Nat /\ comp \in Nat
  BY <1>1, SizeAssumption DEF TypeOK
<1>7. TypeOK'
  BY <1>1, <1>2 DEF TypeOK
<1>8. WorkInv'
  BY <1>2, <1>3, <1>4, <1>6 DEF WorkInv, Target
<1>9. CountInv'
  BY <1>1, <1>2, <1>5 DEF CountInv, Indexing
<1>10. PadInv'
  BY <1>2, <1>4 DEF PadInv
<1>11. EndInv'
  <2>1. SUFFICES ASSUME Complete'
                 PROVE  /\ err' = "none" /\ Done' /\ uncomp' = accepted'
                        /\ opts'.padding > 1 => comp' % opts'.padding = 0
    BY DEF EndInv
  <2>2. Closes /\ Done
    BY <1>2, <1>3, <2>1 DEF Complete
  <2>3. rest = 0
    BY <1>3, <2>2 DEF Closes
  <2>4. uncomp = accepted
    BY <1>3, <1>6, <2>3 DEF Target
  <2>5. opts.padding > 1 => comp % opts.padding = 0
    <3>1. opts.padding > 1 => (comp + Unpadded) % opts.padding = 0
      BY <1>1, <1>2, <2>2 DEF PadInv
    <3> QED
      BY <1>5, <1>6, <3>1
  <2> QED
    BY <1>2, <1>3, <1>4, <2>2, <2>4, <2>5
<1> QED
  BY <1>4, <1>7, <1>8, <1>9, <1>10, <1>11 DEF SinkInv

----------------------------------------------------------------------------
(* The calls *)

\* What a call writes last.
TailShape(s) ==
  /\ \/ s = <<>>
     \/ Len(s) = 1 /\ s[1].t \in {"user", "sync"}
     \/ Len(s) = 2 /\ s[1].t = "eof" /\ s[2].t = "seal"
  /\ \A i \in 1..Len(s) : s[i].bad = "no"

Lead == IF wroteHeader THEN <<>> ELSE <<Header>>

\* A call that writes a header if there is none, m bytes in blocks, and then s.
LEMMA PlanOk ==
  ASSUME SinkInv, pc = "idle", err = "none", NEW m \in Nat, NEW s \in Seq(ChunkRec),
         TailShape(s),
         work' = (Lead \o Blocks(uncomp, m)) \o s,
         UNCHANGED <<err, wire, wroteHeader, uncomp>>, ibuf' = 0, pc' = "step",
         Target' = uncomp + m, call' # "write" => rest' = 0,
         Closes' <=> Len(s) = 2
  PROVE  /\ work' \in Seq(ChunkRec) /\ WorkInv'
         /\ Owed' = 0 /\ Unpadded' = 0 /\ ~Done' /\ ~Done
PROOF
<1> DEFINE H == Lead
           B == Blocks(uncomp, m)
           HB == H \o B
           W == work'
<1>1. TypeOK /\ WorkInv
  BY DEF SinkInv
<1>2. uncomp \in Nat /\ wroteHeader \in BOOLEAN
  BY <1>1 DEF TypeOK
<1>3. ~Done /\ ~Done' /\ wroteHeader' = wroteHeader
  <2>1. ~Done
    BY <1>1 DEF WorkInv
  <2> QED
    BY <2>1 DEF Done, Got
<1>4. Header \in ChunkRec /\ Header.t = "sid" /\ Header.bad = "no"
  BY AnnouncedFits DEF Header, Chunk, ChunkRec
<1>5. PICK h \in {0, 1} : /\ H \in Seq(ChunkRec) /\ Len(H) = h
                          /\ h = 0 <=> wroteHeader
                          /\ h = 1 => H[1] = Header
  <2>1. CASE wroteHeader
    <3>1. H = <<>>
      BY <2>1 DEF Lead
    <3> QED
      BY <2>1, <3>1
  <2>2. CASE ~wroteHeader
    <3>1. H = <<Header>>
      BY <2>2 DEF Lead
    <3>2. H \in Seq(ChunkRec) /\ Len(H) = 1 /\ H[1] = Header
      BY <1>4, <3>1
    <3> QED
      BY <2>2, <3>2
  <2> QED
    BY <2>1, <2>2
<1>6. /\ B \in Seq(ChunkRec)
      /\ \A i \in 1..Len(B) : B[i].t = "data" /\ B[i].bad = "no" /\ B[i].n \in 1..BlockSize
      /\ m = 0 => B = <<>>
      /\ m # 0 => /\ Len(B) > 0 /\ B[1].off = uncomp
                  /\ B[Len(B)].off + B[Len(B)].n = uncomp + m
      /\ \A i \in 1..(Len(B) - 1) : B[i + 1].off = B[i].off + B[i].n
  BY <1>2, BlocksCut
<1> HIDE DEF H, B
<1>7. PICK b \in Nat : b = Len(B) /\ (b = 0 <=> m = 0)
  <2>1. Len(B) \in Nat /\ (m = 0 => Len(B) = 0) /\ (m # 0 => Len(B) > 0)
    BY <1>6
  <2> QED
    BY <2>1
<1>8. PICK t \in Nat : t = Len(s)
  OBVIOUS
<1>9. /\ HB \in Seq(ChunkRec) /\ Len(HB) = h + b
      /\ \A i \in 1..h : HB[i] = H[i]
      /\ \A i \in 1..b : HB[h + i] = B[i]
  <2>1. /\ H \o B \in Seq(ChunkRec) /\ Len(H \o B) = Len(H) + Len(B)
        /\ \A i \in 1..Len(H) : (H \o B)[i] = H[i]
        /\ \A i \in 1..Len(B) : (H \o B)[Len(H) + i] = B[i]
    <3>1. Joined(H \o B, H, B, ChunkRec)
      BY <1>5, <1>6, Parts
    <3> QED
      BY <3>1, Zenon DEF Joined
  <2> QED
    BY <1>5, <1>7, <2>1
<1>10. W = HB \o s
  BY DEF H, B
<1> HIDE DEF HB
<1>11. /\ W \in Seq(ChunkRec) /\ Len(W) = (h + b) + t
       /\ \A i \in 1..(h + b) : W[i] = HB[i]
       /\ \A i \in 1..t : W[(h + b) + i] = s[i]
  <2>0. HB \in Seq(ChunkRec)
    BY <1>9
  <2>1. /\ HB \o s \in Seq(ChunkRec) /\ Len(HB \o s) = Len(HB) + Len(s)
        /\ \A i \in 1..Len(HB) : (HB \o s)[i] = HB[i]
        /\ \A i \in 1..Len(s) : (HB \o s)[Len(HB) + i] = s[i]
    <3>1. Joined(HB \o s, HB, s, ChunkRec)
      BY <2>0, Parts
    <3> QED
      BY <3>1, Zenon DEF Joined
  <2> QED
    BY <1>8, <1>9, <1>10, <2>1
<1>12. /\ h = 1 => W[1] = Header
       /\ \A i \in 1..b : W[h + i] = B[i]
  <2>1. h = 1 => 1 \in 1..(h + b) /\ 1 \in 1..h
    OBVIOUS
  <2>2. \A i \in 1..b : h + i \in 1..(h + b)
    OBVIOUS
  <2> QED
    BY <1>5, <1>9, <1>11, <2>1, <2>2
<1>13. \A i \in 1..Len(W) : \/ h = 1 /\ i = 1
                            \/ \E k \in 1..b : i = h + k
                            \/ \E k \in 1..t : i = (h + b) + k
  <2>1. SUFFICES ASSUME NEW i \in 1..((h + b) + t),
                        ~(h = 1 /\ i = 1), ~(\E k \in 1..t : i = (h + b) + k)
                 PROVE  \E k \in 1..b : i = h + k
    BY <1>11
  <2>2. i <= h + b
    <3>1. SUFFICES ASSUME ~(i <= h + b) PROVE FALSE
      OBVIOUS
    <3>2. i - (h + b) \in 1..t /\ i = (h + b) + (i - (h + b))
      BY <3>1
    <3> QED
      BY <2>1, <3>2
  <2>3. i - h \in 1..b /\ i = h + (i - h)
    BY <2>1, <2>2
  <2> QED
    BY <2>3
<1>14. \A k \in 1..t : s[k].t # "data"
  <2>1. SUFFICES ASSUME NEW k \in 1..t PROVE s[k].t # "data"
    OBVIOUS
  <2>2. CASE s = <<>>
    BY <1>8, <2>2
  <2>3. CASE Len(s) = 1 /\ s[1].t \in {"user", "sync"}
    <3>1. k = 1
      BY <1>8, <2>3
    <3> QED
      BY <2>3, <3>1
  <2>4. CASE Len(s) = 2 /\ s[1].t = "eof" /\ s[2].t = "seal"
    <3>1. k = 1 \/ k = 2
      BY <1>8, <2>4
    <3> QED
      BY <2>4, <3>1
  <2> QED
    BY <2>2, <2>3, <2>4 DEF TailShape
<1>15. ASSUME NEW k \in 1..b PROVE DataOk(h + k)'
  <2> DEFINE i == h + k
  <2>1. i \in Nat /\ W[i] = B[k] /\ i \in 1..Len(W)
    <3>1. i \in Nat /\ i \in 1..((h + b) + t)
      OBVIOUS
    <3>2. W[i] = B[k]
      BY <1>12
    <3> QED
      BY <1>11, <3>1, <3>2
  <2>2. W[i].n \in 1..BlockSize
    BY <1>6, <1>7, <2>1
  <2>3. ASSUME NEW j \in 1..(i - 1) PROVE W[j].t \in {"sid", "data"}
    <3>1. CASE h = 1 /\ j = 1
      BY <1>4, <1>12, <3>1
    <3>2. CASE ~(h = 1 /\ j = 1)
      <4>1. j - h \in 1..b /\ h + (j - h) = j
        BY <3>2
      <4>2. W[j] = B[j - h]
        BY <1>12, <4>1
      <4> QED
        BY <1>6, <1>7, <4>1, <4>2
    <3> QED
      BY <3>1, <3>2
  <2>4. W[i].off = IF i = 1 \/ W[i - 1].t # "data" THEN uncomp
                   ELSE W[i - 1].off + W[i - 1].n
    <3>1. CASE k = 1
      <4>1. W[i].off = uncomp
        BY <1>6, <1>7, <2>1, <3>1
      <4>2. CASE h = 0
        BY <3>1, <4>1, <4>2
      <4>3. CASE h = 1
        <5>1. i - 1 = 1
          BY <3>1, <4>3
        <5>2. W[i - 1].t = "sid"
          BY <1>4, <1>12, <4>3, <5>1
        <5> QED
          BY <4>1, <5>2
      <4> QED
        BY <4>2, <4>3
    <3>2. CASE k # 1
      <4>1. k - 1 \in 1..(b - 1) /\ k - 1 \in 1..b /\ (k - 1) + 1 = k /\ h + (k - 1) = i - 1 /\ i # 1
        BY <3>2
      <4>2. W[i - 1] = B[k - 1]
        <5>1. W[h + (k - 1)] = B[k - 1]
          BY <1>12, <4>1
        <5> QED
          BY <4>1, <5>1
      <4>3. B[k - 1].t = "data"
        BY <1>6, <1>7, <4>1
      <4>4. B[(k - 1) + 1].off = B[k - 1].off + B[k - 1].n
        BY <1>6, <1>7, <4>1
      <4>5. W[i].off = B[k - 1].off + B[k - 1].n
        BY <2>1, <4>1, <4>4
      <4> HIDE DEF i
      <4> QED
        BY <4>1, <4>2, <4>3, <4>5
    <3> QED
      BY <3>1, <3>2
  <2>5. i = Len(W) \/ W[i + 1].t # "data" => W[i].off + W[i].n = uncomp + m
    <3>1. CASE k = b
      <4>1. m # 0
        BY <1>7, <3>1
      <4> QED
        BY <1>6, <1>7, <2>1, <3>1, <4>1
    <3>2. CASE k # b
      <4>1. k + 1 \in 1..b /\ h + (k + 1) = i + 1 /\ i # (h + b) + t
        BY <3>2
      <4>2. W[h + (k + 1)] = B[k + 1]
        BY <1>12, <4>1
      <4>3. W[i + 1].t = "data"
        BY <1>6, <1>7, <4>1, <4>2
      <4> QED
        BY <1>11, <4>1, <4>3
    <3> QED
      BY <3>1, <3>2
  <2> HIDE DEF i
  <2>6. DataOk(i)'
    BY <2>1, <2>2, <2>3, <2>4, <2>5 DEF DataOk
  <2> QED
    BY <2>6 DEF i
<1>16. ASSUME NEW i \in 1..Len(W) PROVE ItemOk(i)'
  <2>1. CASE h = 1 /\ i = 1
    <3>1. W[i] = Header /\ ~wroteHeader'
      BY <1>3, <1>5, <1>12, <2>1
    <3> QED
      BY <1>4, <2>1, <3>1 DEF ItemOk
  <2>2. CASE \E k \in 1..b : i = h + k
    <3>1. PICK k \in 1..b : i = h + k
      BY <2>2
    <3>2. DataOk(i)'
      BY <1>15, <3>1
    <3>3. W[i].t = "data" /\ W[i].bad = "no"
      BY <1>6, <1>7, <1>12, <3>1
    <3> QED
      BY <1>3, <3>2, <3>3 DEF ItemOk
  <2>3. CASE \E k \in 1..t : i = (h + b) + k
    <3>1. PICK k \in 1..t : i = (h + b) + k
      BY <2>3
    <3>2. W[i] = s[k] /\ s[k].bad = "no" /\ Len(W) = (h + b) + t
      BY <1>8, <1>11, <3>1 DEF TailShape
    <3>3. CASE Len(s) = 1 /\ s[1].t \in {"user", "sync"}
      <4>1. k = 1 /\ i = Len(W)
        BY <1>8, <3>1, <3>2, <3>3
      <4> QED
        BY <1>3, <3>2, <3>3, <4>1 DEF ItemOk
    <3>4. CASE Len(s) = 2 /\ s[1].t = "eof" /\ s[2].t = "seal"
      <4>1. CASE k = 1
        <5>1. Len(W) = i + 1 /\ i + 1 = (h + b) + 2 /\ 2 \in 1..t
          BY <1>8, <3>1, <3>2, <3>4, <4>1
        <5>2. W[i + 1].t = "seal"
          BY <1>11, <3>4, <5>1
        <5> QED
          BY <1>3, <3>2, <3>4, <4>1, <5>1, <5>2 DEF ItemOk
      <4>2. CASE k = 2
        <5>1. i = Len(W) /\ i # 1
          BY <1>8, <3>1, <3>2, <3>4, <4>2
        <5> QED
          BY <3>2, <3>4, <4>2, <5>1 DEF ItemOk
      <4>3. k = 1 \/ k = 2
        BY <1>8, <3>4
      <4> QED
        BY <4>1, <4>2, <4>3
    <3>5. s # <<>>
      BY <1>8, <3>1
    <3> QED
      BY <3>3, <3>4, <3>5 DEF TailShape
  <2> QED
    BY <1>13, <2>1, <2>2, <2>3
<1>17. (\A i \in 1..Len(W) : W[i].t # "data") => uncomp' = Target'
  <2>1. SUFFICES ASSUME \A i \in 1..Len(W) : W[i].t # "data" PROVE m = 0
    BY <1>2
  <2>2. SUFFICES ASSUME b # 0 PROVE FALSE
    BY <1>7
  <2>3. 1 \in 1..b /\ h + 1 \in 1..((h + b) + t)
    BY <2>2
  <2>4. W[h + 1].t = "data"
    BY <1>6, <1>7, <1>12, <2>3
  <2> QED
    BY <1>11, <2>1, <2>3, <2>4
<1>18. \A i \in 1..Len(W) : W[i].t \notin {"skip", "index"}
  <2>1. SUFFICES ASSUME NEW i \in 1..Len(W) PROVE W[i].t \notin {"skip", "index"}
    OBVIOUS
  <2>2. ItemOk(i)'
    BY <1>16
  <2> QED
    BY <1>3, <2>2 DEF ItemOk
<1>19. ~wroteHeader' /\ W # <<>> => W[1].t \in {"sid", "sync"}
  BY <1>3, <1>4, <1>5, <1>12
<1>20. Closes' => W # <<>> /\ Len(W) > 1 /\ W[Len(W)].t = "seal" /\ W[Len(W) - 1].t = "eof"
  <2>1. SUFFICES ASSUME Closes'
                 PROVE  W # <<>> /\ Len(W) > 1 /\ W[Len(W)].t = "seal" /\ W[Len(W) - 1].t = "eof"
    OBVIOUS
  <2>2. t = 2 /\ s[1].t = "eof" /\ s[2].t = "seal"
    BY <1>8, <2>1 DEF TailShape
  <2>3. 1 \in 1..t /\ 2 \in 1..t /\ Len(W) = (h + b) + 2 /\ Len(W) - 1 = (h + b) + 1 /\ Len(W) > 1
    BY <1>11, <2>2
  <2>4. W[(h + b) + 1] = s[1] /\ W[(h + b) + 2] = s[2]
    BY <1>11, <2>3
  <2>5. W # <<>>
    BY <2>3
  <2>6. W[Len(W)].t = "seal" /\ W[Len(W) - 1].t = "eof"
    BY <2>2, <2>3, <2>4
  <2> QED
    BY <2>3, <2>5, <2>6
<1>21. WorkInv'
  BY <1>3, <1>16, <1>17, <1>19, <1>20 DEF WorkInv
<1>22. Owed' = 0 /\ Unpadded' = 0
  <2>1. W # <<>> => W[1].t \notin {"skip", "index"}
    <3>1. W # <<>> => 1 \in 1..Len(W)
      BY <1>11
    <3> QED
      BY <1>18, <3>1
  <2> QED
    BY <2>1 DEF Owed, Unpadded
<1> QED
  BY <1>3, <1>11, <1>21, <1>22

\* A call that writes nothing, or only flushes the sink.
LEMMA NothingToWrite ==
  ASSUME SinkInv, pc = "idle", err = "none",
         work' = <<>> \/ work' = <<Chunk("sync", 0, 0, 0)>>,
         UNCHANGED <<err, wire, wroteHeader, uncomp>>, ibuf' = 0, pc' = "step",
         Target' = uncomp, call' # "write" => rest' = 0, ~Closes'
  PROVE  /\ work' \in Seq(ChunkRec) /\ WorkInv'
         /\ Owed' = 0 /\ Unpadded' = 0 /\ ~Done' /\ ~Done
PROOF
<1>1. ~Done
  BY DEF SinkInv, WorkInv
<1>2. ~Done'
  BY <1>1 DEF Done, Got
<1> DEFINE sync == Chunk("sync", 0, 0, 0)
<1>3. sync \in ChunkRec /\ sync.t = "sync" /\ sync.bad = "no"
  BY DEF Chunk, ChunkRec
<1> HIDE DEF sync
<1>4. /\ work' \in Seq(ChunkRec)
      /\ \A i \in 1..Len(work') : work'[i] = sync /\ i = Len(work') /\ i = 1
  <2>1. CASE work' = <<>>
    BY <2>1
  <2>2. CASE work' = <<sync>>
    BY <1>3, <2>2
  <2> QED
    BY <2>1, <2>2 DEF sync
<1>5. \A i \in 1..Len(work') : ItemOk(i)'
  BY <1>3, <1>4 DEF ItemOk
<1>6. work' # <<>> => work'[1].t = "sync"
  <2>1. work' # <<>> => 1 \in 1..Len(work')
    BY <1>4
  <2> QED
    BY <1>3, <1>4, <2>1
<1>7. WorkInv'
  BY <1>2, <1>5, <1>6 DEF WorkInv
<1>8. Owed' = 0 /\ Unpadded' = 0
  BY <1>6 DEF Owed, Unpadded
<1> QED
  BY <1>1, <1>2, <1>4, <1>7, <1>8

\* Beginning a call keeps the invariant, if what it sets out to write is in order.
LEMMA BeginKeeps ==
  ASSUME SinkInv, pc = "idle", err = "none", pc' = "step", call' \in CallNames,
         rest' \in 0..(BlockSize - 1), ibuf' = 0,
         UNCHANGED <<opts, wroteHeader, uncomp, comp, index, err, ret, wire>>,
         accepted' \in 0..MaxBytes, chunks' \in 0..MaxChunks,
         work' \in Seq(ChunkRec), WorkInv', Owed' = 0, Unpadded' = 0, ~Done', ~Done
  PROVE  SinkInv'
PROOF
<1>1. TypeOK /\ WorkInv /\ GotInv /\ CountInv /\ PadInv
  BY DEF SinkInv
<1>2. /\ pc = "idle" /\ err = "none" /\ pc' = "step"
      /\ UNCHANGED <<opts, wroteHeader, uncomp, comp, index, err, ret, wire>>
  OBVIOUS
<1>3. /\ GotInv' /\ FailInv'
      /\ \A k \in 1..Len(wire') : wire'[k].t = "skip" => wire'[k].size >= ChunkHeader
  BY <1>2, Quiet
<1>4. BlockSize \in Nat /\ BlockSize > 0
  BY SizeAssumption
<1>5. TypeOK'
  BY <1>1, <1>2, <1>4 DEF TypeOK
<1>6. Owed = 0
  <2>1. work = <<>>
    BY <1>1, <1>2 DEF WorkInv
  <2> QED
    BY <2>1 DEF Owed
<1>7. CountInv'
  BY <1>1, <1>2, <1>6 DEF CountInv, Indexing
<1>8. PadInv' /\ EndInv'
  BY <1>2, <1>3 DEF PadInv, EndInv, Complete
<1> QED
  BY <1>3, <1>5, <1>7, <1>8 DEF SinkInv

\* ensure_header
LEMMA HeaderLead ==
  ASSUME NEW s \in Seq(ChunkRec)
  PROVE  WithHeader(s) = Lead \o s
PROOF
<1>1. <<>> \o s = s
  BY ConcatEmptySeq
<1> QED
  BY <1>1 DEF WithHeader, Lead

\* Between two calls what is in ibuf follows what is written.
LEMMA Between ==
  ASSUME SinkInv, pc = "idle", err = "none"
  PROVE  /\ accepted \in 0..MaxBytes /\ ibuf \in Nat /\ uncomp \in Nat /\ chunks \in 0..MaxChunks
         /\ uncomp + ibuf = accepted /\ accepted - ibuf = uncomp /\ MaxBytes \in Nat
         /\ MaxChunks \in Nat /\ ibuf \in 0..(BlockSize - 1)
         /\ BlockSize \in Nat /\ BlockSize > 0
PROOF
<1>1. /\ accepted \in 0..MaxBytes /\ ibuf \in Nat /\ uncomp \in Nat /\ chunks \in 0..MaxChunks
      /\ ibuf \in 0..(BlockSize - 1)
  BY SizeAssumption DEF SinkInv, TypeOK
<1>2. uncomp + ibuf = accepted
  BY DEF SinkInv, WorkInv
<1> QED
  BY <1>1, <1>2, SizeAssumption

\* What flush_ibuf writes, and what Then adds to it.
LEMMA ThenIs ==
  ASSUME SinkInv, pc = "idle", err = "none", NEW s \in Seq(ChunkRec)
  PROVE  /\ Then(s) = (Lead \o Blocks(uncomp, ibuf)) \o s
         /\ ibuf # 0 => Buffered = Lead \o Blocks(uncomp, ibuf)
PROOF
<1>1. ibuf \in Nat /\ uncomp \in Nat /\ accepted - ibuf = uncomp
  BY Between
<1>2. Blocks(uncomp, ibuf) \in Seq(ChunkRec) /\ (ibuf = 0 => Blocks(uncomp, ibuf) = <<>>)
  BY <1>1, BlocksCut
<1>3. Lead \in Seq(ChunkRec)
  <2>1. Header \in ChunkRec
    BY AnnouncedFits DEF Header, Chunk, ChunkRec
  <2> QED
    BY <2>1 DEF Lead
<1>4. CASE ibuf = 0
  <2>1. Lead \o <<>> = Lead
    BY <1>3, ConcatEmptySeq
  <2>2. Then(s) = Lead \o s
    BY <1>4, HeaderLead DEF Then
  <2> QED
    BY <1>2, <1>4, <2>1, <2>2
<1>5. CASE ibuf # 0
  <2>1. Buffered = WithHeader(Blocks(uncomp, ibuf))
    BY <1>1, <1>5 DEF Buffered
  <2>2. Buffered = Lead \o Blocks(uncomp, ibuf)
    BY <1>2, <2>1, HeaderLead
  <2> QED
    BY <1>5, <2>2 DEF Then
<1> QED
  BY <1>4, <1>5

\* write
LEMMA WriteKeeps == ASSUME SinkInv, NEW n \in 0..MaxBytes, Write(n) PROVE SinkInv'
PROOF
<1> DEFINE full == Full(ibuf + n)
           r == ibuf + n - full
           w == IF full = 0 THEN <<>> ELSE WithHeader(Blocks(accepted - ibuf, full))
<1>1. accepted + n <= MaxBytes /\ accepted' = accepted + n /\ chunks' = chunks
  BY DEF Write
<1>2. /\ pc = "idle" /\ err = "none" /\ pc' = "step" /\ call' = "write" /\ work' = w /\ rest' = r
      /\ ibuf' = 0 /\ UNCHANGED <<opts, wroteHeader, uncomp, comp, index, err, ret, wire>>
  <2>1. /\ pc = "idle" /\ err = "none" /\ pc' = "step" /\ call' = "write"
        /\ ibuf' = 0 /\ UNCHANGED <<opts, wroteHeader, uncomp, comp, index, err, ret, wire>>
    BY DEF Write, Begin
  <2>2. work' = w
    BY Zenon DEF Write, Begin
  <2>3. rest' = r
    BY Zenon DEF Write, Begin
  <2> QED
    BY <2>1, <2>2, <2>3
<1>3. /\ accepted \in 0..MaxBytes /\ ibuf \in Nat /\ uncomp \in Nat /\ chunks \in 0..MaxChunks
      /\ uncomp + ibuf = accepted /\ accepted - ibuf = uncomp /\ MaxBytes \in Nat
      /\ BlockSize \in Nat /\ BlockSize > 0
  BY <1>2, Between
<1>4. n \in Nat /\ ibuf + n \in Nat
  BY <1>3
<1>5. full \in Nat /\ full <= ibuf + n /\ r \in 0..(BlockSize - 1)
  <2>1. full \in Nat /\ full <= ibuf + n /\ (ibuf + n) - full \in 0..(BlockSize - 1)
    BY <1>4, FullLeaves
  <2> HIDE DEF full
  <2>2. (ibuf + n) - full = r
    BY <1>3, <1>4, <2>1
  <2> QED
    BY <2>1, <2>2
<1>6. ~Closes'
  BY <1>2 DEF Closes
<1>7. Target' = uncomp + full
  BY <1>1, <1>2, <1>3, <1>4, <1>5 DEF Target
<1>8. accepted' \in 0..MaxBytes /\ chunks' \in 0..MaxChunks /\ "write" \in CallNames
  BY <1>1, <1>3, <1>4 DEF CallNames
<1> HIDE DEF full, r
<1>9. /\ work' \in Seq(ChunkRec) /\ WorkInv'
      /\ Owed' = 0 /\ Unpadded' = 0 /\ ~Done' /\ ~Done
  <2>1. CASE full = 0
    <3>1. work' = <<>> /\ Target' = uncomp
      BY <1>2, <1>3, <1>7, <2>1
    <3> QED
      BY <1>2, <1>6, <3>1, NothingToWrite
  <2>2. CASE full # 0
    <3>1. Blocks(uncomp, full) \in Seq(ChunkRec)
      BY <1>3, <1>5, BlocksCut
    <3>2. work' = Lead \o Blocks(uncomp, full)
      BY <1>2, <1>3, <2>2, <3>1, HeaderLead
    <3>3. work' = (Lead \o Blocks(uncomp, full)) \o <<>>
      <4>1. Lead \in Seq(ChunkRec)
        <5>1. Header \in ChunkRec
          BY AnnouncedFits DEF Header, Chunk, ChunkRec
        <5> QED
          BY <5>1 DEF Lead
      <4>2. Lead \o Blocks(uncomp, full) \in Seq(ChunkRec)
        BY <3>1, <4>1
      <4> QED
        BY <3>2, <4>2, ConcatEmptySeq
    <3>4. <<>> \in Seq(ChunkRec) /\ Len(<<>>) = 0 /\ TailShape(<<>>)
      BY DEF TailShape
    <3>5. PICK k \in Nat : k = full
      BY <1>5
    <3>6. /\ work' = (Lead \o Blocks(uncomp, k)) \o <<>> /\ Target' = uncomp + k
          /\ (call' # "write" => rest' = 0) /\ (Closes' <=> Len(<<>>) = 2)
      BY <1>2, <1>6, <1>7, <3>3, <3>4, <3>5
    <3> QED
      BY <1>2, <3>4, <3>6, PlanOk
  <2> QED
    BY <2>1, <2>2
<1> QED
  BY <1>2, <1>5, <1>8, <1>9, BeginKeeps

\* flush
LEMMA FlushKeeps == SinkInv /\ Flush => SinkInv'
PROOF
<1> SUFFICES ASSUME SinkInv, Flush PROVE SinkInv'
  OBVIOUS
<1> DEFINE sync == Chunk("sync", 0, 0, 0)
<1>1. accepted' = accepted /\ chunks' = chunks
  BY DEF Flush
<1>2. /\ pc = "idle" /\ err = "none" /\ pc' = "step" /\ call' = "flush"
      /\ work' = Append(Buffered, sync) /\ rest' = 0
      /\ ibuf' = 0 /\ UNCHANGED <<opts, wroteHeader, uncomp, comp, index, err, ret, wire>>
  BY DEF Flush, Begin
<1>3. /\ accepted \in 0..MaxBytes /\ ibuf \in Nat /\ uncomp \in Nat /\ chunks \in 0..MaxChunks
      /\ uncomp + ibuf = accepted /\ BlockSize \in Nat /\ BlockSize > 0
  BY <1>2, Between
<1>4. ~Closes' /\ Target' = uncomp + ibuf
  BY <1>1, <1>2, <1>3 DEF Closes, Target
<1>5. sync \in ChunkRec /\ sync.t = "sync" /\ sync.bad = "no"
  BY DEF Chunk, ChunkRec
<1>6. 0 \in 0..(BlockSize - 1) /\ "flush" \in CallNames
  BY <1>3 DEF CallNames
<1>7. /\ work' \in Seq(ChunkRec) /\ WorkInv'
      /\ Owed' = 0 /\ Unpadded' = 0 /\ ~Done' /\ ~Done
  <2>1. CASE ibuf = 0
    <3>1. Buffered = <<>>
      BY <2>1 DEF Buffered
    <3>2. work' = <<sync>> /\ Target' = uncomp
      BY <1>2, <1>3, <1>4, <2>1, <3>1
    <3> QED
      BY <1>2, <1>4, <3>2, NothingToWrite
  <2> HIDE DEF sync
  <2>2. CASE ibuf # 0
    <3>1. <<sync>> \in Seq(ChunkRec) /\ Len(<<sync>>) = 1 /\ <<sync>>[1] = sync
      BY <1>5
    <3>2. Buffered = Lead \o Blocks(uncomp, ibuf)
      BY <1>2, <2>2, <3>1, ThenIs
    <3>3. Buffered \in Seq(ChunkRec)
      <4>1. Lead \in Seq(ChunkRec)
        <5>1. Header \in ChunkRec
          BY AnnouncedFits DEF Header, Chunk, ChunkRec
        <5> QED
          BY <5>1 DEF Lead
      <4>2. Blocks(uncomp, ibuf) \in Seq(ChunkRec)
        BY <1>3, BlocksCut
      <4> QED
        BY <3>2, <4>1, <4>2
    <3>4. work' = (Lead \o Blocks(uncomp, ibuf)) \o <<sync>>
      <4>1. Append(Buffered, sync) = Buffered \o <<sync>>
        BY <1>5, <3>3, AppendIsConcat
      <4> QED
        BY <1>2, <3>2, <4>1
    <3>5. TailShape(<<sync>>)
      <4>1. \A i \in 1..1 : i = 1
        OBVIOUS
      <4> QED
        BY <1>5, <3>1, <4>1 DEF TailShape
    <3>6. PICK k \in Nat : k = ibuf
      BY <1>3
    <3>7. PICK s \in Seq(ChunkRec) : s = <<sync>> /\ Len(s) = 1
      BY <3>1
    <3>8. /\ work' = (Lead \o Blocks(uncomp, k)) \o s /\ Target' = uncomp + k
          /\ (call' # "write" => rest' = 0) /\ (Closes' <=> Len(s) = 2) /\ TailShape(s)
      BY <1>2, <1>4, <3>4, <3>5, <3>6, <3>7
    <3> QED
      BY <1>2, <3>8, PlanOk
  <2> QED
    BY <2>1, <2>2
<1> QED
  BY <1>1, <1>2, <1>3, <1>6, <1>7, BeginKeeps

\* A call that writes what is buffered, then s.
LEMMA ThenKeeps ==
  ASSUME SinkInv, pc = "idle", err = "none", NEW s \in Seq(ChunkRec), TailShape(s),
         work' = Then(s), call' \in CallNames, rest' = 0, ibuf' = 0, pc' = "step",
         UNCHANGED <<opts, wroteHeader, uncomp, comp, index, err, ret, wire>>,
         accepted' = accepted, chunks' \in 0..MaxChunks, Closes' <=> Len(s) = 2
  PROVE  SinkInv'
PROOF
<1>1. /\ accepted \in 0..MaxBytes /\ ibuf \in Nat /\ uncomp \in Nat
      /\ uncomp + ibuf = accepted /\ BlockSize \in Nat /\ BlockSize > 0 /\ MaxBytes \in Nat
  BY Between
<1>2. PICK k \in Nat : k = ibuf
  BY <1>1
<1>3. work' = (Lead \o Blocks(uncomp, k)) \o s
  BY <1>2, ThenIs
<1>4. Target' = uncomp + k
  BY <1>1, <1>2 DEF Target
<1>5. /\ work' \in Seq(ChunkRec) /\ WorkInv'
      /\ Owed' = 0 /\ Unpadded' = 0 /\ ~Done' /\ ~Done
  <2>1. UNCHANGED <<err, wire, wroteHeader, uncomp>> /\ (call' # "write" => rest' = 0)
    OBVIOUS
  <2> QED
    BY <1>3, <1>4, <2>1, PlanOk
<1>6. rest' \in 0..(BlockSize - 1) /\ accepted' \in 0..MaxBytes
  BY <1>1
<1> QED
  BY <1>5, <1>6, BeginKeeps

\* add_user_chunk
LEMMA AddUserChunkKeeps == SinkInv /\ AddUserChunk => SinkInv'
PROOF
<1> SUFFICES ASSUME SinkInv, AddUserChunk PROVE SinkInv'
  OBVIOUS
<1>1. /\ pc = "idle" /\ err = "none" /\ pc' = "step" /\ call' = "chunk" /\ work' = Then(<<UserChunk>>)
      /\ rest' = 0 /\ ibuf' = 0
      /\ UNCHANGED <<opts, wroteHeader, uncomp, comp, index, err, ret, wire>>
      /\ accepted' = accepted /\ chunks < MaxChunks /\ chunks' = chunks + 1
  BY DEF AddUserChunk, Begin
<1>2. accepted \in 0..MaxBytes /\ chunks \in 0..MaxChunks /\ MaxChunks \in Nat /\ MaxBytes \in Nat
  BY <1>1, Between
<1>3. UserChunk \in ChunkRec /\ UserChunk.t = "user" /\ UserChunk.bad = "no"
  <2>1. chunks + 1 \in Nat /\ accepted \in Nat /\ ChunkHeader + chunks \in Nat
    BY <1>2 DEF ChunkHeader
  <2> QED
    BY <2>1 DEF UserChunk, Chunk, ChunkRec
<1>4. PICK u \in ChunkRec : u = UserChunk /\ u.t = "user" /\ u.bad = "no"
  BY <1>3
<1>5. PICK s \in Seq(ChunkRec) : s = <<u>> /\ Len(s) = 1 /\ s[1] = u
  <2>1. <<u>> \in Seq(ChunkRec) /\ Len(<<u>>) = 1 /\ <<u>>[1] = u
    OBVIOUS
  <2> QED
    BY <2>1
<1>6. TailShape(s)
  <2>1. \A i \in 1..1 : i = 1
    OBVIOUS
  <2> QED
    BY <1>4, <1>5, <2>1 DEF TailShape
<1>7. work' = Then(s)
  BY <1>1, <1>4, <1>5
<1>8. ~Closes' /\ call' \in CallNames
  BY <1>1 DEF Closes, CallNames
<1>9. Closes' <=> Len(s) = 2
  BY <1>5, <1>8
<1>10. chunks' \in 0..MaxChunks
  BY <1>1, <1>2
<1> QED
  BY <1>1, <1>6, <1>7, <1>8, <1>9, <1>10, ThenKeeps

\* finish and close_index
LEMMA ClosingKeeps == SinkInv /\ (Finish \/ CloseIndex) => SinkInv'
PROOF
<1> SUFFICES ASSUME SinkInv, Finish \/ CloseIndex PROVE SinkInv'
  OBVIOUS
<1>1. /\ pc = "idle" /\ err = "none" /\ pc' = "step" /\ call' \in {"finish", "closeindex"}
      /\ work' = Closing /\ rest' = 0 /\ ibuf' = 0
      /\ UNCHANGED <<opts, wroteHeader, uncomp, comp, index, err, ret, wire>>
      /\ accepted' = accepted /\ chunks' = chunks
  BY DEF Finish, CloseIndex, Begin
<1>2. accepted \in 0..MaxBytes /\ chunks \in 0..MaxChunks /\ MaxBytes \in Nat
  BY <1>1, Between
<1>3. PICK e \in ChunkRec : e = Chunk("eof", 0, accepted, 0) /\ e.t = "eof" /\ e.bad = "no"
  <2> DEFINE x == Chunk("eof", 0, accepted, 0)
  <2>1. accepted \in Nat
    BY <1>2
  <2>2. x \in ChunkRec /\ x.t = "eof" /\ x.bad = "no"
    BY <2>1 DEF Chunk, ChunkRec
  <2> HIDE DEF x
  <2>3. \E e \in ChunkRec : e = x /\ e.t = "eof" /\ e.bad = "no"
    BY <2>2
  <2> QED
    BY <2>3 DEF x
<1>4. PICK l \in ChunkRec : l = Chunk("seal", 0, 0, 0) /\ l.t = "seal" /\ l.bad = "no"
  <2> DEFINE x == Chunk("seal", 0, 0, 0)
  <2>1. x \in ChunkRec /\ x.t = "seal" /\ x.bad = "no"
    BY DEF Chunk, ChunkRec
  <2> HIDE DEF x
  <2>2. \E l \in ChunkRec : l = x /\ l.t = "seal" /\ l.bad = "no"
    BY <2>1
  <2> QED
    BY <2>2 DEF x
<1>5. PICK s \in Seq(ChunkRec) : s = <<e, l>> /\ Len(s) = 2 /\ s[1] = e /\ s[2] = l
  <2>1. <<e, l>> \in Seq(ChunkRec) /\ Len(<<e, l>>) = 2 /\ <<e, l>>[1] = e /\ <<e, l>>[2] = l
    OBVIOUS
  <2> QED
    BY <2>1
<1>6. TailShape(s)
  <2>1. \A i \in 1..2 : i = 1 \/ i = 2
    OBVIOUS
  <2> QED
    BY <1>3, <1>4, <1>5, <2>1 DEF TailShape
<1>7. work' = Then(s)
  BY <1>1, <1>3, <1>4, <1>5 DEF Closing
<1>8. Closes' /\ call' \in CallNames
  BY <1>1 DEF Closes, CallNames
<1>9. Closes' <=> Len(s) = 2
  BY <1>5, <1>8
<1> QED
  BY <1>1, <1>2, <1>6, <1>7, <1>8, <1>9, ThenKeeps

\* Nothing on the sink.
LEMMA NothingRead ==
  /\ Behind(<<>>).err = "none" /\ Behind(<<>>).header = FALSE /\ Behind(<<>>).expectEof = FALSE
  /\ Tally(<<>>).size = 0 /\ Tally(<<>>).starts = <<>> /\ Tally(<<>>).bytes = [i \in 1..0 |-> i]
PROOF
<1>1. [i \in 1..0 |-> i] = <<>>
  OBVIOUS
<1>2. Tally(<<>>).size = 0 /\ Tally(<<>>).starts = <<>> /\ Tally(<<>>).bytes = <<>>
  BY TallyNone DEF Zero
<1> QED
  BY <1>1, <1>2, RunNone DEF Reader!Fresh

\* reset
LEMMA ResetKeeps == SinkInv /\ Reset => SinkInv'
PROOF
<1> SUFFICES ASSUME SinkInv, Reset PROVE SinkInv'
  OBVIOUS
<1>1. TypeOK /\ WorkInv
  BY DEF SinkInv
<1>2. /\ pc = "idle" /\ ibuf' = 0 /\ wroteHeader' = FALSE /\ uncomp' = 0 /\ comp' = 0
      /\ index' = <<>> /\ err' = "none" /\ accepted' = 0 /\ chunks' = 0 /\ wire' = <<>>
      /\ ret' = "ok" /\ call' = "reset" /\ UNCHANGED <<opts, pc, work, rest>>
  BY DEF Reset
<1>3. work = <<>>
  BY <1>1, <1>2 DEF WorkInv
<1>4. Got' = Behind(<<>>) /\ ~Done'
  BY <1>2 DEF Got, Done
<1>5. Len(wire') = 0
  BY <1>2
<1>6. TypeOK'
  <2>1. BlockSize \in Nat /\ BlockSize > 0 /\ MaxBytes \in Nat /\ MaxChunks \in Nat
    BY SizeAssumption
  <2>2. ibuf' \in 0..(BlockSize - 1) /\ accepted' \in 0..MaxBytes /\ chunks' \in 0..MaxChunks
    BY <1>2, <2>1
  <2>3. index' \in Seq(Place) /\ wire' \in Seq(ChunkRec) /\ uncomp' \in Nat /\ comp' \in Nat
    BY <1>2
  <2> QED
    BY <1>1, <1>2, <2>2, <2>3 DEF TypeOK, CallNames, Place
<1>7. WorkInv'
  BY <1>2, <1>3, <1>4 DEF WorkInv
<1>8. GotInv'
  BY <1>2, <1>4, NothingRead DEF GotInv
<1>9. CountInv'
  <2>1. Owed' = 0
    BY <1>2, <1>3 DEF Owed
  <2> QED
    BY <1>2, <2>1, NothingRead DEF CountInv
<1>10. PadInv' /\ FailInv' /\ EndInv'
  BY <1>2, <1>5 DEF PadInv, FailInv, EndInv, Complete
<1> QED
  BY <1>6, <1>7, <1>8, <1>9, <1>10 DEF SinkInv

\* The beginning.
LEMMA InitSink == Init => SinkInv
PROOF
<1> SUFFICES ASSUME Init PROVE SinkInv
  OBVIOUS
<1>1. /\ opts \in Options /\ ibuf = 0 /\ wroteHeader = FALSE /\ uncomp = 0 /\ comp = 0
      /\ index = <<>> /\ err = "none" /\ pc = "idle" /\ call = "none" /\ work = <<>> /\ rest = 0
      /\ ret = "ok" /\ accepted = 0 /\ chunks = 0 /\ wire = <<>>
  BY DEF Init
<1>2. Got = Behind(<<>>) /\ ~Done /\ Len(wire) = 0
  BY <1>1 DEF Got, Done
<1>3. TypeOK
  <2>1. BlockSize \in Nat /\ BlockSize > 0 /\ MaxBytes \in Nat /\ MaxChunks \in Nat
    BY SizeAssumption
  <2>2. ibuf \in 0..(BlockSize - 1) /\ rest \in 0..(BlockSize - 1) /\ accepted \in 0..MaxBytes
        /\ chunks \in 0..MaxChunks
    BY <1>1, <2>1
  <2>3. /\ index \in Seq(Place) /\ wire \in Seq(ChunkRec) /\ uncomp \in Nat /\ comp \in Nat
        /\ work \in Seq(ChunkRec)
    BY <1>1
  <2> QED
    BY <1>1, <2>2, <2>3 DEF TypeOK, CallNames, Place
<1>4. WorkInv
  BY <1>1, <1>2 DEF WorkInv
<1>5. GotInv
  BY <1>1, <1>2, NothingRead DEF GotInv
<1>6. CountInv
  <2>1. Owed = 0
    BY <1>1 DEF Owed
  <2> QED
    BY <1>1, <2>1, NothingRead DEF CountInv
<1>7. PadInv /\ FailInv /\ EndInv
  BY <1>1, <1>2 DEF PadInv, FailInv, EndInv, Complete
<1> QED
  BY <1>3, <1>4, <1>5, <1>6, <1>7 DEF SinkInv

\* A call that is refused.
LEMMA RefusedKeeps ==
  SinkInv /\ ((\E c \in {"write", "finish"} : Refused(c)) \/ CloseIndexRefused) => SinkInv'
PROOF
<1> SUFFICES ASSUME SinkInv, (\E c \in {"write", "finish"} : Refused(c)) \/ CloseIndexRefused
             PROVE  SinkInv'
  OBVIOUS
<1>1. TypeOK /\ WorkInv /\ GotInv /\ CountInv /\ PadInv
  BY DEF SinkInv
<1>2. /\ pc = "idle" /\ pc' \in {"idle", "ended"} /\ (pc' = "idle" => err # "none")
      /\ ret' \in {"io", "invalid"} /\ call' \in CallNames
      /\ UNCHANGED <<opts, ibuf, wroteHeader, uncomp, comp, index, err, work, rest, accepted,
                     chunks, wire>>
  <2>1. CASE \E c \in {"write", "finish"} : Refused(c)
    <3>1. err # "none" => err = "io"
      BY <1>1 DEF TypeOK
    <3> QED
      BY <2>1, <3>1 DEF Refused, CallNames, writerVars
  <2>2. CASE CloseIndexRefused
    BY <2>2 DEF CloseIndexRefused, CallNames, writerVars
  <2> QED
    BY <2>1, <2>2
<1>3. /\ GotInv' /\ FailInv'
      /\ \A k \in 1..Len(wire') : wire'[k].t = "skip" => wire'[k].size >= ChunkHeader
  BY <1>2, Quiet
<1>4. TypeOK'
  BY <1>1, <1>2 DEF TypeOK
<1>5. WorkInv'
  BY <1>1, <1>2 DEF WorkInv
<1>6. CountInv'
  BY <1>1, <1>2 DEF CountInv, Indexing, Owed
<1>7. PadInv' /\ EndInv'
  BY <1>2, <1>3 DEF PadInv, EndInv, Complete
<1> QED
  BY <1>3, <1>4, <1>5, <1>6, <1>7 DEF SinkInv

\* A step that changes nothing.
LEMMA StutterKeeps == SinkInv /\ UNCHANGED vars => SinkInv'
PROOF
<1> SUFFICES ASSUME SinkInv, UNCHANGED vars PROVE SinkInv'
  OBVIOUS
<1>1. TypeOK /\ WorkInv /\ GotInv /\ CountInv /\ PadInv /\ EndInv
  BY DEF SinkInv
<1>2. UNCHANGED <<opts, ibuf, wroteHeader, uncomp, comp, index, err, pc, call, work, rest, ret,
                  accepted, chunks, wire>>
  BY DEF vars, writerVars
<1>3. Got' = Got /\ Done' = Done /\ GotInv' /\ FailInv'
  BY <1>2, Quiet
<1>4. TypeOK'
  BY <1>1, <1>2 DEF TypeOK
<1>5. WorkInv'
  <2>1. Target' = Target /\ Closes' = Closes
    BY <1>2 DEF Target, Closes
  <2>2. \A i : DataOk(i)' = DataOk(i)
    BY <1>2, <2>1 DEF DataOk
  <2>3. \A i : ItemOk(i)' = ItemOk(i)
    BY <1>2, <1>3, <2>1, <2>2 DEF ItemOk
  <2> QED
    BY <1>1, <1>2, <1>3, <2>1, <2>3 DEF WorkInv
<1>6. Owed' = Owed /\ Unpadded' = Unpadded
  BY <1>2 DEF Owed, Unpadded
<1>7. CountInv'
  BY <1>1, <1>2, <1>6 DEF CountInv, Indexing
<1>8. PadInv' /\ EndInv'
  BY <1>1, <1>2, <1>3, <1>6 DEF PadInv, EndInv, Complete
<1> QED
  BY <1>3, <1>4, <1>5, <1>7, <1>8 DEF SinkInv

----------------------------------------------------------------------------
(* The theorems *)

\* SinkInv is inductive.
LEMMA SinkHolds == Spec => []SinkInv
PROOF
<1>1. SinkInv /\ [Next]_vars => SinkInv'
  <2> SUFFICES ASSUME SinkInv, [Next]_vars PROVE SinkInv'
    OBVIOUS
  <2>1. CASE \E n \in 0..MaxBytes : Write(n)
    BY <2>1, WriteKeeps
  <2>2. CASE Flush
    BY <2>2, FlushKeeps
  <2>3. CASE AddUserChunk
    BY <2>3, AddUserChunkKeeps
  <2>4. CASE Finish \/ CloseIndex
    BY <2>4, ClosingKeeps
  <2>5. CASE (\E c \in {"write", "finish"} : Refused(c)) \/ CloseIndexRefused
    BY <2>5, RefusedKeeps
  <2>6. CASE Reset
    BY <2>6, ResetKeeps
  <2>7. CASE Emit
    BY <2>7, EmitKeeps
  <2>8. CASE EmitFails
    BY <2>8, EmitFailsKeeps
  <2>9. CASE Seal
    BY <2>9, SealKeeps
  <2>10. CASE Sync
    BY <2>10, SyncKeeps
  <2>11. CASE Return
    BY <2>11, ReturnKeeps
  <2>12. CASE UNCHANGED vars
    BY <2>12, StutterKeeps
  <2> QED
    BY <2>1, <2>2, <2>3, <2>4, <2>5, <2>6, <2>7, <2>8, <2>9, <2>10, <2>11, <2>12
       DEF Next, Calls, Steps, Ended
<1> QED
  BY InitSink, <1>1, PTL DEF Spec

\* What a finished Writer has written, a Reader accepts and returns: every byte in
\* order, for every block size, all options and every sequence of write, flush,
\* add_user_chunk, finish, close_index and reset.
THEOREM FinishedStreamReadsBack == Spec => []RoundTrip
PROOF
<1>1. SinkInv => RoundTrip
  <2> SUFFICES ASSUME SinkInv, Complete
               PROVE  Reader!SeqResult(wire) = "none" /\ ReadBack = [i \in 1..accepted |-> i]
    BY DEF RoundTrip
  <2>1. err = "none" /\ Done /\ uncomp = accepted /\ wire \in Seq(ChunkRec)
    BY DEF SinkInv, EndInv, TypeOK
  <2>2. Got.err = "none" /\ ~Got.expectEof /\ Tally(wire).bytes = [i \in 1..uncomp |-> i]
    BY <2>1 DEF SinkInv, GotInv, Done
  <2> QED
    BY <2>1, <2>2, Outcome DEF Got, ReadBack
<1> QED
  BY <1>1, SinkHolds, PTL

\* Whatever the Writer leaves on the sink, dropped or failed, is the beginning of the
\* data, and a Reader reports it as corrupt while the EOF chunk is missing.
THEOREM TruncationIsDetected == Spec => []TruncationDetected
PROOF
<1>1. SinkInv => TruncationDetected
  <2>1. err = "none" /\ SinkInv => TruncationDetected
    BY SoFar DEF SinkInv
  <2>2. err # "none" /\ SinkInv => TruncationDetected
    BY DEF SinkInv, FailInv
  <2> QED
    BY <2>1, <2>2
<1> QED
  BY <1>1, SinkHolds, PTL

\* With padding the finished stream ends on a multiple, the index included, and a
\* padding chunk has room for its header.
THEOREM PaddingAligns == Spec => []PaddingAligned
PROOF
<1>1. SinkInv => PaddingAligned
  <2> SUFFICES ASSUME SinkInv PROVE PaddingAligned
    OBVIOUS
  <2>1. Complete /\ opts.padding > 1 => Tally(wire).size % opts.padding = 0
    <3> SUFFICES ASSUME Complete, opts.padding > 1 PROVE Tally(wire).size % opts.padding = 0
      OBVIOUS
    <3>1. err = "none" /\ comp % opts.padding = 0 /\ pc = "ended"
      BY DEF SinkInv, EndInv, Complete
    <3>2. work = <<>>
      BY <3>1 DEF SinkInv, WorkInv
    <3>3. comp = Tally(wire).size + 0
      BY <3>1, <3>2 DEF SinkInv, CountInv, Owed
    <3>4. Tally(wire).size \in Nat
      BY BehindType DEF SinkInv, TypeOK, TallyRec
    <3> QED
      BY <3>1, <3>3, <3>4
  <2> QED
    BY <2>1 DEF SinkInv, PadInv, PaddingAligned
<1> QED
  BY <1>1, SinkHolds, PTL

\* The index is given the place of every block, on the sink and in the data, in order;
\* of a block that failed to be written at most one.
THEOREM IndexIsExact == Spec => []IndexExact
PROOF
<1>1. SinkInv => IndexExact
  <2> SUFFICES ASSUME SinkInv PROVE IndexExact
    OBVIOUS
  <2>1. CASE err # "none"
    BY <2>1 DEF SinkInv, FailInv
  <2>2. CASE err = "none"
    <3> SUFFICES ASSUME Indexing
                 PROVE  LET given == Tally(wire).starts
                        IN  /\ Len(index) \in {Len(given), Len(given) + 0}
                            /\ SubSeq(index, 1, Len(given)) = given
      BY <2>2 DEF IndexExact, Indexing
    <3>1. index = Tally(wire).starts
      BY <2>2 DEF SinkInv, CountInv
    <3>2. index \in Seq(Place)
      BY DEF SinkInv, TypeOK, Place
    <3> QED
      BY <3>1, <3>2
  <2> QED
    BY <2>1, <2>2
<1> QED
  BY <1>1, SinkHolds, PTL
=============================================================================
