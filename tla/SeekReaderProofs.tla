-------------------------- MODULE SeekReaderProofs --------------------------
(* The Reader and the ReadSeeker, for every set of inputs and every request. *)
(*                                                                           *)
(* The data of an input is defined by recursion along its chunks.  Unlike a  *)
(* pipeline a seeker comes to a chunk from anywhere, so what is known of the *)
(* data before a chunk is proved by induction, from the least chunk for      *)
(* which it would be wrong.                                                  *)
EXTENDS SeekReader, Induction, SequenceTheorems, TLAPS

----------------------------------------------------------------------------
(* The data before a chunk *)

\* What chunk k of st adds to the data.
BytesOf(st, k) == IF st[k].t \in {"comp", "raw"}
                  THEN [j \in 1..st[k].n |-> <<k, j>>] ELSE <<>>

\* f satisfies the recursion of Data up to chunk n of st.
IsData(f, st, n) ==
  f = [k \in 0..n |-> IF k = 0 THEN <<>> ELSE f[k - 1] \o BytesOf(st, k)]

Byte == Nat \X Nat

\* A chunk's bytes are a sequence as long as the chunk says.
LEMMA BytesOfType ==
  ASSUME NEW st \in Seq(WireChunk), NEW k \in 1..Len(st)
  PROVE  /\ BytesOf(st, k) \in Seq(Byte)
         /\ st[k].t \in {"comp", "raw"} => Len(BytesOf(st, k)) = st[k].n
         /\ st[k].t \notin {"comp", "raw"} => BytesOf(st, k) = <<>>
PROOF
<1>1. st[k] \in WireChunk
  OBVIOUS
<1>2. st[k].n \in Nat
  BY <1>1 DEF WireChunk
<1>3. CASE st[k].t \in {"comp", "raw"}
  <2>1. BytesOf(st, k) = [j \in 1..st[k].n |-> <<k, j>>]
    BY <1>3 DEF BytesOf
  <2>2. \A j \in 1..st[k].n : <<k, j>> \in Byte
    BY DEF Byte
  <2>3. BytesOf(st, k) \in [1..st[k].n -> Byte]
    BY <2>1, <2>2
  <2> QED
    BY <1>2, <1>3, <2>3
<1>4. CASE st[k].t \notin {"comp", "raw"}
  BY <1>4 DEF BytesOf
<1> QED
  BY <1>3, <1>4

\* Two solutions agree as far as both go, if the chunks do.
LEMMA DataUnique ==
  ASSUME NEW st, NEW ts, NEW n \in Nat, NEW m \in Nat, n <= m,
         NEW f, NEW g, IsData(f, st, n), IsData(g, ts, m),
         \A k \in 1..n : BytesOf(st, k) = BytesOf(ts, k)
  PROVE  \A k \in 0..n : f[k] = g[k]
PROOF
<1> DEFINE S == {k \in 0..n : f[k] = g[k]}
<1>1. f[0] = <<>> /\ g[0] = <<>>
  BY DEF IsData
<1>2. 0 \in S
  BY <1>1
<1>3. ASSUME NEW k \in 0..(n - 1), k \in S
      PROVE  k + 1 \in S
  <2>1. k + 1 \in 0..n /\ k + 1 \in 0..m /\ k + 1 # 0 /\ (k + 1) - 1 = k /\ k + 1 \in 1..n
    OBVIOUS
  <2>2. f[k + 1] = f[k] \o BytesOf(st, k + 1)
    BY <2>1 DEF IsData
  <2>3. g[k + 1] = g[k] \o BytesOf(ts, k + 1)
    BY <2>1 DEF IsData
  <2> QED
    BY <1>3, <2>1, <2>2, <2>3
<1> HIDE DEF S
<1>4. \A k \in 0..n : k \in S
  BY <1>2, <1>3, UpTo
<1> QED
  BY <1>4 DEF S

\* There is a solution.
LEMMA DataExists ==
  ASSUME NEW st \in Seq(WireChunk), NEW n \in 0..Len(st)
  PROVE  \E f : IsData(f, st, n) /\ f \in [0..n -> Seq(Byte)]
PROOF
<1> DEFINE S == {m \in 0..Len(st) : \E f : IsData(f, st, m) /\ f \in [0..m -> Seq(Byte)]}
<1>1. 0 \in S
  <2> DEFINE f == [k \in 0..0 |-> <<>>]
  <2>1. IsData(f, st, 0)
    BY DEF IsData
  <2>2. f \in [0..0 -> Seq(Byte)]
    OBVIOUS
  <2> QED
    BY <2>1, <2>2
<1>2. ASSUME NEW m \in 0..(Len(st) - 1), m \in S
      PROVE  m + 1 \in S
  <2>1. PICK f : IsData(f, st, m) /\ f \in [0..m -> Seq(Byte)]
    BY <1>2
  <2> DEFINE g == [k \in 0..(m + 1) |-> IF k = m + 1 THEN f[m] \o BytesOf(st, k) ELSE f[k]]
  <2>2. m \in Nat /\ m + 1 \in 1..Len(st) /\ m \in 0..m
    OBVIOUS
  <2>3. BytesOf(st, m + 1) \in Seq(Byte)
    BY <2>2, BytesOfType
  <2>4. g \in [0..(m + 1) -> Seq(Byte)]
    <3>1. f[m] \o BytesOf(st, m + 1) \in Seq(Byte)
      BY <2>1, <2>2, <2>3
    <3> QED
      BY <2>1, <2>2, <3>1
  <2>5. ASSUME NEW k \in 0..(m + 1)
        PROVE  g[k] = IF k = 0 THEN <<>> ELSE g[k - 1] \o BytesOf(st, k)
    <3>1. CASE k = m + 1
      <4>1. k - 1 = m /\ k # 0 /\ m \in 0..(m + 1) /\ m # m + 1
        BY <2>2, <3>1
      <4>2. g[k] = f[m] \o BytesOf(st, k)
        BY <3>1, Zenon
      <4>3. g[m] = f[m]
        BY <4>1, Zenon
      <4> HIDE DEF g
      <4> QED
        BY <4>1, <4>2, <4>3, Zenon
    <3>2. CASE k # m + 1
      <4>1. k \in 0..m /\ g[k] = f[k] /\ (k # 0 => g[k - 1] = f[k - 1])
        BY <2>2, <3>2
      <4> HIDE DEF g
      <4>2. f[k] = IF k = 0 THEN <<>> ELSE f[k - 1] \o BytesOf(st, k)
        BY <2>1, <4>1 DEF IsData
      <4> QED
        BY <4>1, <4>2
    <3> QED
      BY <3>1, <3>2
  <2> HIDE DEF g
  <2>6. IsData(g, st, m + 1)
    <3>1. g = [k \in 0..(m + 1) |-> g[k]]
      BY <2>4
    <3> QED
      BY <2>5, <3>1 DEF IsData
  <2> QED
    BY <2>2, <2>4, <2>6
<1> HIDE DEF S
<1>3. Len(st) \in Nat
  OBVIOUS
<1>4. \A m \in 0..Len(st) : m \in S
  BY <1>1, <1>2, <1>3, UpTo
<1> QED
  BY <1>4 DEF S


\* A solution is what Data chooses.
LEMMA DataIsData ==
  ASSUME NEW st \in Seq(WireChunk), NEW f, IsData(f, st, Len(st))
  PROVE  Data(st) = f[Len(st)]
PROOF
<1> DEFINE P(g) == g = [k \in 0..Len(st) |->
                          IF k = 0 THEN <<>>
                          ELSE g[k - 1] \o (IF st[k].t \in {"comp", "raw"}
                                            THEN [j \in 1..st[k].n |-> <<k, j>>] ELSE <<>>)]
           h == CHOOSE g : P(g)
<1>1. \A g : P(g) <=> IsData(g, st, Len(st))
  BY Zenon DEF IsData, BytesOf
<1>2. P(f)
  BY <1>1
<1>3. P(h)
  BY <1>2, Zenon
<1>4. Data(st) = h[Len(st)]
  BY Zenon DEF Data
<1> HIDE DEF P, h
<1>5. IsData(h, st, Len(st))
  BY <1>1, <1>3
<1>6. Len(st) \in Nat /\ Len(st) \in 0..Len(st)
  OBVIOUS
<1>7. \A k \in 0..Len(st) : h[k] = f[k]
  BY <1>5, <1>6, DataUnique
<1> QED
  BY <1>4, <1>6, <1>7

\* The data of the first k chunks.
Before(st, k) == Data(SubSeq(st, 1, k))

\* The data grows chunk by chunk.
LEMMA BeforeChunks ==
  ASSUME NEW st \in Seq(WireChunk)
  PROVE  /\ \A k \in 0..Len(st) : Before(st, k) \in Seq(Byte)
         /\ Before(st, 0) = <<>>
         /\ Before(st, Len(st)) = Data(st)
         /\ \A k \in 1..Len(st) : Before(st, k) = Before(st, k - 1) \o BytesOf(st, k)
PROOF
<1>0. Len(st) \in Nat /\ Len(st) \in 0..Len(st)
  OBVIOUS
<1>1. PICK f : IsData(f, st, Len(st)) /\ f \in [0..Len(st) -> Seq(Byte)]
  BY <1>0, DataExists
<1>2. ASSUME NEW k \in 0..Len(st)
      PROVE  Before(st, k) = f[k]
  <2> DEFINE ts == SubSeq(st, 1, k)
  <2>1. ts \in Seq(WireChunk) /\ Len(ts) = k /\ \A i \in 1..k : ts[i] = st[i]
    BY <1>0
  <2> HIDE DEF ts
  <2>2. k \in Nat /\ k <= Len(st) /\ k \in 0..k
    BY <1>0
  <2>3. PICK g : IsData(g, ts, k)
    BY <2>1, <2>2, DataExists
  <2>4. Data(ts) = g[k]
    BY <2>1, <2>3, DataIsData
  <2>5. \A i \in 1..k : BytesOf(ts, i) = BytesOf(st, i)
    BY <2>1 DEF BytesOf
  <2>6. g[k] = f[k]
    BY <1>0, <1>1, <2>2, <2>3, <2>5, DataUnique
  <2> QED
    BY <2>4, <2>6 DEF Before, ts
<1>3. f[0] = <<>> /\ \A k \in 1..Len(st) : f[k] = f[k - 1] \o BytesOf(st, k)
  <2>1. 0 \in 0..Len(st) /\ \A k \in 1..Len(st) : k \in 0..Len(st) /\ k # 0
    BY <1>0
  <2> QED
    BY <1>1, <2>1, Zenon DEF IsData
<1>4. Data(st) = f[Len(st)]
  BY <1>1, DataIsData
<1>5. 0 \in 0..Len(st) /\ \A k \in 1..Len(st) : k \in 0..Len(st) /\ k - 1 \in 0..Len(st)
  BY <1>0
<1> QED
  BY <1>0, <1>1, <1>2, <1>3, <1>4, <1>5, Zenon

\* The place of the first byte of chunk k + 1.
Place(st, k) == Len(Before(st, k))

\* Places go up by the length of a data chunk, and stay where other chunks are.
LEMMA Places ==
  ASSUME NEW st \in Seq(WireChunk)
  PROVE  /\ \A k \in 0..Len(st) : Place(st, k) \in Nat
         /\ Place(st, 0) = 0
         /\ Place(st, Len(st)) = Len(Data(st))
         /\ \A k \in 1..Len(st) :
              Place(st, k) = Place(st, k - 1)
                             + (IF st[k].t \in {"comp", "raw"} THEN st[k].n ELSE 0)
PROOF
<1>1. \A k \in 0..Len(st) : Place(st, k) \in Nat
  BY BeforeChunks DEF Place
<1>2. Place(st, 0) = 0 /\ Place(st, Len(st)) = Len(Data(st))
  BY BeforeChunks DEF Place
<1>3. ASSUME NEW k \in 1..Len(st)
      PROVE  Place(st, k) = Place(st, k - 1)
                            + (IF st[k].t \in {"comp", "raw"} THEN st[k].n ELSE 0)
  <2>1. k - 1 \in 0..Len(st)
    OBVIOUS
  <2>2. Before(st, k - 1) \in Seq(Byte) /\ BytesOf(st, k) \in Seq(Byte)
    BY <2>1, BeforeChunks, BytesOfType
  <2>3. Before(st, k) = Before(st, k - 1) \o BytesOf(st, k)
    BY BeforeChunks
  <2>4. Len(Before(st, k)) = Len(Before(st, k - 1)) + Len(BytesOf(st, k))
    BY <2>2, <2>3
  <2>5. Len(BytesOf(st, k)) = IF st[k].t \in {"comp", "raw"} THEN st[k].n ELSE 0
    BY BytesOfType
  <2> QED
    BY <2>4, <2>5 DEF Place
<1> QED
  BY <1>1, <1>2, <1>3

\* What is in front of a chunk is the beginning of all the data.
LEMMA BeforeIsPrefix ==
  ASSUME NEW st \in Seq(WireChunk), NEW i \in 0..Len(st)
  PROVE  /\ Place(st, i) <= Len(Data(st))
         /\ \A j \in 1..Place(st, i) : Data(st)[j] = Before(st, i)[j]
PROOF
<1> DEFINE L == Len(st)
           S == {d \in 0..(L - i) : /\ Place(st, i) <= Place(st, i + d)
                                    /\ \A j \in 1..Place(st, i) :
                                         Before(st, i + d)[j] = Before(st, i)[j]}
<1>0. L \in Nat /\ i \in Nat /\ L - i \in Nat /\ Place(st, i) \in Nat
  BY Places
<1>1. 0 \in S
  BY <1>0
<1>2. ASSUME NEW d \in 0..((L - i) - 1), d \in S
      PROVE  d + 1 \in S
  <2>1. d + 1 \in 0..(L - i) /\ i + d \in 0..L /\ i + (d + 1) \in 1..L /\ (i + (d + 1)) - 1 = i + d
    BY <1>0
  <2> DEFINE a == Before(st, i + d)
             b == BytesOf(st, i + (d + 1))
  <2>2. a \in Seq(Byte) /\ b \in Seq(Byte) /\ Before(st, i + (d + 1)) = a \o b
    BY <2>1, BeforeChunks, BytesOfType
  <2>3. Place(st, i) <= Len(a) /\ \A j \in 1..Place(st, i) : a[j] = Before(st, i)[j]
    BY <1>2 DEF Place
  <2>4. Place(st, i + (d + 1)) = Len(a \o b)
    BY <2>2 DEF Place
  <2> HIDE DEF a, b
  <2>5. Place(st, i) <= Len(a \o b) /\ \A j \in 1..Place(st, i) : (a \o b)[j] = a[j]
    BY <1>0, <2>2, <2>3
  <2> QED
    BY <2>1, <2>2, <2>3, <2>4, <2>5
<1> HIDE DEF S
<1>m. \A d \in 0..(L - i) : d \in S
  BY <1>0, <1>1, <1>2, UpTo
<1>3. L - i \in S
  BY <1>0, <1>m
<1>4. i + (L - i) = L
  BY <1>0
<1> QED
  BY <1>3, <1>4, Places, BeforeChunks DEF S

\* The bytes of a data chunk are in the data, from its place on.
LEMMA ChunkInData ==
  ASSUME NEW st \in Seq(WireChunk), NEW i \in 1..Len(st), st[i].t \in {"comp", "raw"}
  PROVE  /\ Place(st, i - 1) + st[i].n <= Len(Data(st))
         /\ \A j \in 1..st[i].n : Data(st)[Place(st, i - 1) + j] = <<i, j>>
PROOF
<1>1. i - 1 \in 0..Len(st) /\ i \in 0..Len(st) /\ st[i] \in WireChunk
  OBVIOUS
<1>2. st[i].n \in Nat /\ Place(st, i - 1) \in Nat
  BY <1>1, Places DEF WireChunk
<1>3. Place(st, i) = Place(st, i - 1) + st[i].n
  BY Places
<1>4. Place(st, i) <= Len(Data(st)) /\ \A j \in 1..Place(st, i) : Data(st)[j] = Before(st, i)[j]
  BY <1>1, BeforeIsPrefix
<1> DEFINE a == Before(st, i - 1)
           b == BytesOf(st, i)
<1>5. a \in Seq(Byte) /\ b \in Seq(Byte) /\ Before(st, i) = a \o b
  BY <1>1, BeforeChunks, BytesOfType
<1>6. b = [j \in 1..st[i].n |-> <<i, j>>] /\ Len(b) = st[i].n /\ Len(a) = Place(st, i - 1)
  BY BytesOfType DEF BytesOf, Place
<1> HIDE DEF a, b
<1>7. ASSUME NEW j \in 1..st[i].n
      PROVE  Data(st)[Place(st, i - 1) + j] = <<i, j>>
  <2>1. Place(st, i - 1) + j \in 1..Place(st, i)
    BY <1>2, <1>3
  <2>2. (a \o b)[Len(a) + j] = b[j]
    <3>1. Len(a) \in Nat /\ j \in Nat /\ Len(a) + j \in 1..(Len(a) + Len(b))
      BY <1>2, <1>6
    <3>2. Len(a) + j > Len(a) /\ (Len(a) + j) - Len(a) = j
      BY <3>1
    <3>3. (a \o b)[Len(a) + j] = b[(Len(a) + j) - Len(a)]
      BY <1>5, <3>1, <3>2, ConcatProperties
    <3> QED
      BY <3>2, <3>3
  <2>3. b[j] = <<i, j>>
    BY <1>6
  <2> QED
    BY <1>4, <1>5, <1>6, <2>1, <2>2, <2>3
<1> QED
  BY <1>3, <1>4, <1>7

\* A chunk that is not at the start of the data has a data chunk in front of it.
LEMMA DataInFront ==
  ASSUME NEW st \in Seq(WireChunk), NEW i \in 0..Len(st), Place(st, i) # 0
  PROVE  \E k \in 1..i : st[k].t \in {"comp", "raw"}
PROOF
<1>1. SUFFICES ASSUME \A k \in 1..i : st[k].t \notin {"comp", "raw"}
               PROVE  Place(st, i) = 0
  OBVIOUS
<1> DEFINE S == {k \in 0..i : Place(st, k) = 0}
<1>2. 0 \in S /\ i \in Nat
  BY Places
<1>3. ASSUME NEW k \in 0..(i - 1), k \in S
      PROVE  k + 1 \in S
  <2>1. k + 1 \in 1..Len(st) /\ k + 1 \in 1..i /\ k + 1 \in 0..i /\ (k + 1) - 1 = k
    BY <1>2
  <2>2. Place(st, k + 1) = Place(st, (k + 1) - 1) + 0
    BY <1>1, <2>1, Places
  <2> QED
    BY <1>3, <2>1, <2>2
<1> HIDE DEF S
<1>m. \A k \in 0..i : k \in S
  BY <1>2, <1>3, UpTo
<1>4. i \in S
  BY <1>2, <1>m
<1> QED
  BY <1>4 DEF S

----------------------------------------------------------------------------
(* The inductive invariant *)

ReaderFields == [header : BOOLEAN, expectEof : BOOLEAN, start : Nat,
                 block : [id : Nat, len : Nat], at : Nat, max : Nat,
                 err : ReadErrors \cup {"none"}]
SeekCalls == {"seek", "readat", "fillat"}
CallRec == [op : Ops \cup SeekCalls, res : Results, from : Nat, n : Nat, bytes : Seq(Byte)]

\* Every variable has its type.
SeekTypeOK ==
  /\ src \in Streams /\ pos \in 0..Len(src) /\ rd \in ReaderFields
  /\ pc \in {"idle", "fill", "skip", "ret", "handed", "find", "locate"}
  /\ op \in Ops \cup SeekCalls /\ want \in Nat /\ res \in Results /\ buf \in Seq(Byte)
  /\ cur \in Nat /\ base \in Nat /\ got \in CallRec /\ failed \in BOOLEAN
  /\ wrapped \in BOOLEAN /\ total \in Int /\ target \in Nat

\* The index does not change.
IndexInv == wrapped => src \in Seekable /\ index \subseteq Starts(src)

Working == pc \in {"fill", "skip", "find", "locate"}

\* The Reader can go on, at once or after the next seek.
Alive == rd.err \in {"none", "ueof"}

\* Which call is in which loop, and that a call in a loop, or one that succeeds, has
\* met no error.  A seek looks for the header at the start of the input.
LoopInv ==
  /\ Working \/ (pc = "ret" /\ res = "ok") => rd.err = "none"
  /\ pc \in {"fill", "locate"} /\ op \in {"seek", "readat"} => cur = 0
  /\ pc = "fill" => op \in {"read", "fillbuf"} \cup SeekCalls
  /\ pc = "skip" => op \in {"skip", "seek", "readat"}
  /\ pc \in {"find", "locate"} => op \in {"seek", "readat"}
  /\ Working \/ pc = "ret" =>
       /\ wrapped => op \notin {"skip", "fillbuf"}
       /\ ~wrapped => op \notin SeekCalls
       /\ op # "none"
       /\ got.op = IF op = "fillat" THEN "readat" ELSE op

DataChunk(c) == c.t \in {"comp", "raw"}

\* Chunk c can be handed out.
Intact(c) == c.bad = "no" \/ (c.bad = "crc" /\ IgnoreCrc)

\* Block b is the last data among the first p chunks of st.
InFront(st, p, b) == /\ b.id \in 1..p
                     /\ DataChunk(st[b.id])
                     /\ st[b.id].n = b.len
                     /\ Place(st, b.id) = Place(st, p)
                     /\ Intact(st[b.id])

\* Input, decoded and the place c in the data fit together.  Between two streams
\* decoded is used up.
Aligned(st, p, s, c) == /\ s.at <= s.block.len
                        /\ c + (s.block.len - s.at) = Place(st, p)
                        /\ ~s.header => s.at = s.block.len
                        /\ s.header /\ s.block.len > 0 => InFront(st, p, s.block)

AlignInv == Alive => Aligned(src, pos, rd, cur)

\* block_start and decoded_pos are those of the stream's end while a seek looks
\* for its identifier again, and if the device fails then.  The way to the data
\* leads past the identifier.
Stale == /\ wrapped
         /\ ~rd.header
         /\ pc = "fill" \/ (src \in Flaky /\ pc \notin {"skip", "locate"})
         /\ \E k \in (pos + 1)..Len(src) : DataChunk(src[k])

\* current_offset is the place in the stream.
TrackInv == /\ Alive => rd.start + rd.at = cur - base \/ Stale
            /\ wrapped => base = 0

\* The bytes s are those at place p of the data, from blocks that were checked.
BytesAt(s, p) == /\ s = SubSeq(Data(src), p + 1, p + Len(s))
                 /\ \A j \in 1..Len(s) : Sound(s[j][1])

\* How far the call in progress has come.
ProgressInv ==
  /\ pc = "fill" /\ op \in {"read", "fillbuf", "fillat"} =>
       cur = got.from + Len(buf) /\ (op # "fillat" => buf = <<>>)
  /\ (Working \/ pc = "ret") /\ op \in {"seek", "readat"} => got.from = target /\ buf = <<>>
  /\ pc = "skip" => cur + want = got.from + (IF op = "skip" THEN got.n ELSE 0)
  /\ pc = "ret" /\ res = "ok" /\ op = "skip" => cur = got.from + got.n
  /\ pc = "ret" /\ res = "ok" /\ op \in {"seek", "readat"} =>
       cur = got.from /\ rd.start + rd.at = got.from
  /\ Working \/ pc = "ret" => BytesAt(buf, got.from)

\* An end that is reported is one.
EndInv ==
  /\ pc = "ret" /\ res = "eof" => cur = Len(Data(src)) /\ ~rd.expectEof
  /\ got.res = "eof" => pc = "idle"

\* A Reader that keeps an error has reported it.
KeptInv ==
  ~wrapped => /\ pc = "ret" /\ rd.err # "none" => res = rd.err
              /\ pc = "idle" /\ rd.err # "none" => failed \/ Failed
              /\ pc = "ret" /\ op = "skip" /\ res = "ueof" /\ ~failed =>
                   Len(Data(src)) - got.from < got.n

\* Nothing is left to return.
Spent == rd.err # "none" \/ (pos = Len(src) /\ rd.at >= rd.block.len)

\* After an error nothing is returned until the next seek or reset.
SpentInv ==
  src \notin Flaky =>
    /\ failed => Spent /\ got.bytes = <<>>
    /\ failed /\ (Working \/ pc = "ret") => buf = <<>>
    /\ failed /\ op \in SeekCalls => ~Working /\ (pc = "ret" => res # "ok")
    /\ pc = "idle" /\ Failed => Spent
    /\ pc = "ret" /\ res \in ReadErrors /\ op \notin SeekCalls => Spent

\* Where the Reader is, and what it has returned from there.
CoreInv == SeekTypeOK /\ IndexInv /\ LoopInv /\ AlignInv /\ TrackInv
RestInv == /\ ProgressInv /\ EndInv /\ KeptInv /\ SpentInv
           /\ ReadsInOrder /\ EndIsEnd /\ SkipExact /\ SeekLands
SeekInv == CoreInv /\ RestInv

\* An input is one stream as far as seeking goes: its identifiers come before its
\* data.  Of two streams in a row an index gives offsets the Reader does not count
\* in.
OneStream(st) == \A i, j \in 1..Len(st) :
                   i < j /\ st[j].t = "sid" => st[i].t \notin {"comp", "raw"}
SingleStreams == \A st \in Seekable : OneStream(st)

----------------------------------------------------------------------------
(* What the chunk handlers do *)

AnyChunk == [t : ChunkTypes, n : Nat, bad : Defects]

\* The fields of the states the handlers go through.
LEMMA StateParts ==
  ASSUME NEW s \in ReaderFields, NEW c \in AnyChunk, NEW i \in Nat
  PROVE  /\ PastGate(s, c) \in ReaderFields
         /\ PastGate(s, c).start = s.start /\ PastGate(s, c).block = s.block
         /\ PastGate(s, c).at = s.at /\ PastGate(s, c).err = s.err
         /\ PastGate(s, c).max = s.max /\ PastGate(s, c).expectEof = s.expectEof
         /\ PastGate(s, c).header = (s.header \/ c.t = "sid")
         /\ Passed(s) \in ReaderFields
         /\ Passed(s).start = s.start + s.block.len /\ Passed(s).block = s.block
         /\ Passed(s).at = s.at /\ Passed(s).err = s.err /\ Passed(s).header = s.header
         /\ Passed(s).max = s.max /\ Passed(s).expectEof = s.expectEof
         /\ Load(s, c, i) \in ReaderFields
         /\ Load(s, c, i).start = s.start /\ Load(s, c, i).block = [id |-> i, len |-> c.n]
         /\ Load(s, c, i).at = s.at /\ Load(s, c, i).err = s.err
         /\ Load(s, c, i).header = s.header /\ Load(s, c, i).expectEof = s.expectEof
         /\ [s EXCEPT !.block = NoBlock] \in ReaderFields
PROOF
<1>1. PastGate(s, c) \in ReaderFields
  BY DEF PastGate, ReaderFields
<1>2. /\ PastGate(s, c).start = s.start /\ PastGate(s, c).block = s.block
      /\ PastGate(s, c).at = s.at /\ PastGate(s, c).err = s.err
      /\ PastGate(s, c).max = s.max /\ PastGate(s, c).expectEof = s.expectEof
      /\ PastGate(s, c).header = (s.header \/ c.t = "sid")
  BY DEF PastGate, ReaderFields
<1>3. s.start + s.block.len \in Nat
  BY DEF ReaderFields
<1>4. Passed(s) \in ReaderFields
  BY <1>3 DEF Passed, ReaderFields
<1>5. /\ Passed(s).start = s.start + s.block.len /\ Passed(s).block = s.block
      /\ Passed(s).at = s.at /\ Passed(s).err = s.err /\ Passed(s).header = s.header
      /\ Passed(s).max = s.max /\ Passed(s).expectEof = s.expectEof
  BY DEF Passed, ReaderFields
<1>6. [id |-> i, len |-> c.n] \in [id : Nat, len : Nat] /\ NoBlock \in [id : Nat, len : Nat]
  BY DEF AnyChunk, NoBlock
<1>7. Load(s, c, i) \in ReaderFields /\ [s EXCEPT !.block = NoBlock] \in ReaderFields
  BY <1>6 DEF Load, ReaderFields
<1>8. /\ Load(s, c, i).start = s.start /\ Load(s, c, i).block = [id |-> i, len |-> c.n]
      /\ Load(s, c, i).at = s.at /\ Load(s, c, i).err = s.err
      /\ Load(s, c, i).header = s.header /\ Load(s, c, i).expectEof = s.expectEof
  BY DEF Load, ReaderFields
<1> QED
  BY <1>1, <1>2, <1>4, <1>5, <1>7, <1>8

\* Keeping an error changes nothing else.
LEMMA ErrParts ==
  ASSUME NEW s \in ReaderFields, NEW e \in ReadErrors
  PROVE  /\ Err(s, e) \in ReaderFields /\ Err(s, e).err = e
         /\ Err(s, e).block = s.block /\ Err(s, e).at = s.at /\ Err(s, e).start = s.start
         /\ Err(s, e).header = s.header /\ Err(s, e).expectEof = s.expectEof
  BY DEF Err, ReaderFields

\* The errors a chunk can cause.
ChunkErrors == {"corrupt", "toolarge", "unsupported", "crc", "callback"}

\* Chunk c leads to an error, and the state is r.
Failing(r) == r \in ReaderFields /\ r.err \in ChunkErrors

\* An error of a chunk.
LEMMA ErrFails ==
  ASSUME NEW s \in ReaderFields, NEW e \in ChunkErrors
  PROVE  Failing(Err(s, e))
PROOF
<1>1. e \in ReadErrors
  BY DEF ChunkErrors, ReadErrors
<1> QED
  BY <1>1, ErrParts DEF Failing

\* A chunk that is not data, passed without an error from s to r.
MetaEffect(s, c, r) ==
  /\ r \in ReaderFields
  /\ r.err = "none"
  /\ c.t = "sid" => r.header /\ r.start = 0 /\ r.block = NoBlock /\ r.at = 0
  /\ c.t # "sid" => /\ r.start = s.start /\ r.block = s.block /\ r.at = s.at
                    /\ r.header => s.header

\* What is not data.
LEMMA MetaAlive ==
  ASSUME NEW s \in ReaderFields, s.err = "none", NEW c \in AnyChunk
  PROVE  LET r == HandleMeta(PastGate(s, c), c)
         IN  Failing(r) \/ (c.t # "stub" /\ MetaEffect(s, c, r))
PROOF
<1> DEFINE q == PastGate(s, c)
<1>1. /\ q \in ReaderFields /\ q.start = s.start /\ q.block = s.block /\ q.at = s.at
      /\ q.err = "none" /\ q.header = (s.header \/ c.t = "sid")
  BY StateParts
<1> HIDE DEF q
<1>2. /\ Failing(Err(q, "corrupt")) /\ Failing(Err(q, "unsupported"))
      /\ Failing(Err(q, "toolarge")) /\ Failing(Err(q, "callback"))
  BY <1>1, ErrFails DEF ChunkErrors
<1>3. CASE c.t \in {"eof", "eof0"}
  <2> DEFINE r == [q EXCEPT !.expectEof = FALSE, !.header = FALSE]
  <2>1. /\ r \in ReaderFields /\ r.start = q.start /\ r.block = q.block /\ r.at = q.at
        /\ r.err = q.err /\ r.header = FALSE
    BY <1>1 DEF ReaderFields
  <2>2. HandleMeta(q, c) = r \/ HandleMeta(q, c) = Err(q, "corrupt")
    BY <1>3 DEF HandleMeta, HandleEof
  <2> HIDE DEF r
  <2>3. MetaEffect(s, c, r)
    BY <1>1, <1>3, <2>1 DEF MetaEffect
  <2> QED
    BY <1>2, <1>3, <2>2, <2>3 DEF q
<1>4. CASE c.t = "sid"
  <2> DEFINE r == [q EXCEPT !.max = c.n, !.start = 0, !.block = NoBlock, !.at = 0,
                            !.expectEof = TRUE]
  <2>1. NoBlock \in [id : Nat, len : Nat] /\ c.n \in Nat
    BY DEF NoBlock, AnyChunk
  <2>2. r \in ReaderFields
    BY <1>1, <2>1 DEF ReaderFields
  <2>3. /\ r.start = 0 /\ r.block = NoBlock /\ r.at = 0 /\ r.err = q.err
        /\ r.header = q.header
    BY <1>1 DEF ReaderFields
  <2>4. HandleMeta(q, c) \in {r, Err(q, "corrupt"), Err(q, "unsupported"), Err(q, "toolarge")}
    BY <1>4 DEF HandleMeta, HandleStreamIdentifier
  <2> HIDE DEF r
  <2>5. MetaEffect(s, c, r)
    BY <1>1, <1>4, <2>2, <2>3 DEF MetaEffect
  <2> QED
    BY <1>2, <1>4, <2>4, <2>5 DEF q
<1>5. CASE c.t \notin {"eof", "eof0", "sid"}
  <2>1. \/ HandleMeta(q, c) \in {Err(q, "corrupt"), Err(q, "unsupported"), Err(q, "callback")}
        \/ c.t # "stub" /\ HandleMeta(q, c) = q
    BY <1>5 DEF HandleMeta, HandleSkippable
  <2>2. MetaEffect(s, c, q)
    BY <1>1, <1>5 DEF MetaEffect
  <2> QED
    BY <1>2, <2>1, <2>2 DEF q
<1> QED
  BY <1>3, <1>4, <1>5

\* Data chunk c, the i-th, in decoded with k bytes of it consumed.
LoadEffect(s, c, i, k, r) ==
  /\ r \in ReaderFields
  /\ r.err = "none"
  /\ s.header /\ r.header
  /\ r.start = s.start + s.block.len
  /\ r.block = [id |-> i, len |-> c.n]
  /\ r.at = k
  /\ Intact(c)

\* The end of both data handlers.
LEMMA CheckedAlive ==
  ASSUME NEW s \in ReaderFields, s.err = "none", s.header, NEW c \in AnyChunk, NEW i \in Nat,
         NEW k \in Nat, c.bad \in {"no", "crc"}
  PROVE  LET r == Checked(Load(Passed(s), c, i), c, k)
         IN  Failing(r) \/ LoadEffect(s, c, i, k, r)
PROOF
<1> DEFINE q == Load(Passed(s), c, i)
           r == [q EXCEPT !.at = k]
<1>1. /\ Passed(s) \in ReaderFields /\ Passed(s).start = s.start + s.block.len
      /\ Passed(s).err = "none" /\ Passed(s).header
  BY StateParts
<1>p. /\ q \in ReaderFields /\ q.start = Passed(s).start
      /\ q.block = [id |-> i, len |-> c.n] /\ q.err = Passed(s).err
      /\ q.header = Passed(s).header
  BY <1>1, StateParts, Zenon
<1> HIDE DEF q
<1>2. /\ q \in ReaderFields /\ q.start = s.start + s.block.len
      /\ q.block = [id |-> i, len |-> c.n] /\ q.err = "none" /\ q.header
  BY <1>1, <1>p, Zenon
<1>3. r \in ReaderFields /\ r.start = q.start /\ r.block = q.block /\ r.err = q.err
      /\ r.header = q.header /\ r.at = k
  BY <1>2 DEF ReaderFields
<1> HIDE DEF r
<1>4. CASE c.bad = "crc" /\ ~IgnoreCrc
  <2>1. Failing(Err(q, "crc"))
    BY <1>2, ErrFails DEF ChunkErrors
  <2> QED
    BY <1>4, <2>1 DEF Checked, q
<1>5. CASE ~(c.bad = "crc" /\ ~IgnoreCrc)
  <2>1. Checked(q, c, k) = r
    BY <1>5 DEF Checked, r
  <2>2. Intact(c)
    BY <1>5 DEF Intact
  <2>3. LoadEffect(s, c, i, k, r)
    BY <1>2, <1>3, <2>2 DEF LoadEffect
  <2> QED
    BY <2>1, <2>3 DEF q
<1> QED
  BY <1>4, <1>5

\* fill_decoded's turn on the i-th chunk.
LEMMA HandleAlive ==
  ASSUME NEW s \in ReaderFields, s.err = "none", NEW c \in AnyChunk, Fits(c), NEW i \in Nat
  PROVE  LET r == HandleChunk(s, c, i)
         IN  \/ Failing(r)
             \/ c.t \in {"comp", "raw"} /\ LoadEffect(s, c, i, 0, r)
             \/ c.t \notin {"comp", "raw", "stub"} /\ MetaEffect(s, c, r)
PROOF
<1> DEFINE q == PastGate(s, c)
<1>1. CASE ~s.header /\ NeedsHeader(c)
  BY <1>1, ErrFails DEF HandleChunk, ChunkErrors
<1>2. CASE c.t \in {"comp", "raw"} /\ s.header
  <2>p. /\ q \in ReaderFields /\ q.err = s.err /\ q.header = (s.header \/ c.t = "sid")
        /\ q.start = s.start /\ q.block = s.block
    BY StateParts, Zenon
  <2>1. /\ q \in ReaderFields /\ q.err = "none" /\ q.header /\ q.start = s.start
        /\ q.block = s.block
    BY <1>2, <2>p, Zenon
  <2> HIDE DEF q
  <2>2. Passed(q) \in ReaderFields /\ Load(Passed(q), c, i) \in ReaderFields
        /\ [Passed(q) EXCEPT !.block = NoBlock] \in ReaderFields
    BY <2>1, StateParts
  <2>3. /\ Failing(Err(q, "corrupt")) /\ Failing(Err(Passed(q), "corrupt"))
        /\ Failing(Err(Passed(q), "toolarge"))
        /\ Failing(Err([Passed(q) EXCEPT !.block = NoBlock], "corrupt"))
        /\ Failing(Err(Load(Passed(q), c, i), "corrupt"))
    BY <2>1, <2>2, ErrFails DEF ChunkErrors
  <2> DEFINE r == Checked(Load(Passed(q), c, i), c, 0)
  <2>4. c.bad \in {"no", "crc"} => Failing(r) \/ LoadEffect(q, c, i, 0, r)
    BY <2>1, CheckedAlive
  <2>5. \A p : LoadEffect(q, c, i, 0, p) => LoadEffect(s, c, i, 0, p)
    BY <1>2, <2>1 DEF LoadEffect
  <2> HIDE DEF r
  <2>6. CASE c.t = "comp"
    <3>1. HandleChunk(s, c, i) = HandleCompressed(q, c, i)
      BY <1>2, <2>6 DEF HandleChunk, q
    <3>2. \/ HandleCompressed(q, c, i) \in {Err(q, "corrupt"), Err(Passed(q), "corrupt"),
                Err(Passed(q), "toolarge"), Err([Passed(q) EXCEPT !.block = NoBlock], "corrupt")}
          \/ HandleCompressed(q, c, i) = r /\ c.bad \notin {"short", "long", "cut", "dlen", "body"}
      BY DEF HandleCompressed, r
    <3>3. c.bad \notin {"short", "long", "cut", "dlen", "body"} => c.bad \in {"no", "crc"}
      BY <2>6 DEF Fits, AnyChunk, Defects
    <3> QED
      BY <1>2, <2>3, <2>4, <2>5, <3>1, <3>2, <3>3
  <2>7. CASE c.t = "raw"
    <3>1. HandleChunk(s, c, i) = HandleUncompressed(q, c, i)
      BY <1>2, <2>7 DEF HandleChunk, q
    <3>2. \/ HandleUncompressed(q, c, i) \in {Err(q, "corrupt"), Err(Passed(q), "toolarge"),
                                              Err(Load(Passed(q), c, i), "corrupt")}
          \/ HandleUncompressed(q, c, i) = r /\ c.bad \notin {"short", "long", "cut"}
      BY DEF HandleUncompressed, r
    <3>3. c.bad \notin {"short", "long", "cut"} => c.bad \in {"no", "crc"}
      BY <2>7 DEF Fits, AnyChunk, Defects
    <3> QED
      BY <1>2, <2>3, <2>4, <2>5, <3>1, <3>2, <3>3
  <2> QED
    BY <1>2, <2>6, <2>7
<1>3. CASE c.t \notin {"comp", "raw"} /\ ~(~s.header /\ NeedsHeader(c))
  <2>1. HandleChunk(s, c, i) = HandleMeta(q, c)
    BY <1>3 DEF HandleChunk
  <2> QED
    BY <1>3, <2>1, MetaAlive
<1> QED
  BY <1>1, <1>2, <1>3 DEF NeedsHeader

\* A data chunk passed over, from s to r.
SkipEffect(s, c, r) ==
  /\ r \in ReaderFields
  /\ r.err = "none"
  /\ s.header /\ r.header
  /\ r.start = s.start + s.block.len + c.n
  /\ r.block = NoBlock
  /\ r.at = 0

\* skip's turn on the i-th chunk with n bytes to go.
LEMMA SkipHandleAlive ==
  ASSUME NEW s \in ReaderFields, s.err = "none", NEW c \in AnyChunk, Fits(c), NEW i \in Nat,
         NEW n \in Nat
  PROVE  LET r == SkipHandle(s, c, i, n)
         IN  \/ Failing(r)
             \/ c.t \in {"comp", "raw"} /\ c.n <= n /\ SkipEffect(s, c, r)
             \/ c.t \in {"comp", "raw"} /\ c.n > n /\ LoadEffect(s, c, i, n, r)
             \/ c.t \notin {"comp", "raw", "stub"} /\ MetaEffect(s, c, r)
PROOF
<1> DEFINE q == PastGate(s, c)
<1>1. CASE ~s.header /\ NeedsHeader(c)
  BY <1>1, ErrFails DEF SkipHandle, ChunkErrors
<1>2. CASE c.t \in {"comp", "raw"} /\ s.header
  <2>p. /\ q \in ReaderFields /\ q.err = s.err /\ q.header = (s.header \/ c.t = "sid")
        /\ q.start = s.start /\ q.block = s.block
    BY StateParts, Zenon
  <2>1. /\ q \in ReaderFields /\ q.err = "none" /\ q.header /\ q.start = s.start
        /\ q.block = s.block
    BY <1>2, <2>p, Zenon
  <2> HIDE DEF q
  <2>2. Passed(q) \in ReaderFields /\ Load(Passed(q), c, i) \in ReaderFields
        /\ [Passed(q) EXCEPT !.block = NoBlock] \in ReaderFields
    BY <2>1, StateParts
  <2> DEFINE r == Checked(Load(Passed(q), c, i), c, n)
             w == SkipWhole(q, c)
  <2>w. w \in ReaderFields /\ SkipEffect(s, c, w)
    <3>1. q.start + q.block.len + c.n \in Nat /\ NoBlock \in [id : Nat, len : Nat]
      BY <2>1 DEF ReaderFields, AnyChunk, NoBlock
    <3>2. w \in ReaderFields
      BY <2>1, <3>1 DEF SkipWhole, ReaderFields
    <3>3. /\ w.start = q.start + q.block.len + c.n /\ w.block = NoBlock /\ w.at = 0
          /\ w.err = q.err /\ w.header = q.header
      BY <2>1 DEF SkipWhole, ReaderFields
    <3> HIDE DEF w
    <3> QED
      BY <1>2, <2>1, <3>2, <3>3 DEF SkipEffect
  <2>3. /\ Failing(Err(q, "corrupt")) /\ Failing(Err(q, "toolarge"))
        /\ Failing(Err(w, "corrupt"))
        /\ Failing(Err([Passed(q) EXCEPT !.block = NoBlock], "corrupt"))
        /\ Failing(Err(Load(Passed(q), c, i), "corrupt"))
    BY <2>1, <2>2, <2>w, ErrFails DEF ChunkErrors
  <2>4. c.bad \in {"no", "crc"} => Failing(r) \/ LoadEffect(q, c, i, n, r)
    BY <2>1, CheckedAlive
  <2>5. \A p : LoadEffect(q, c, i, n, p) => LoadEffect(s, c, i, n, p)
    BY <1>2, <2>1 DEF LoadEffect
  <2>n. c.n \in Nat /\ (~(c.n <= n) => c.n > n)
    BY DEF AnyChunk
  <2> HIDE DEF r, w
  <2>6. CASE c.t = "comp"
    <3>1. SkipHandle(s, c, i, n) = SkipCompressed(q, c, i, n)
      BY <1>2, <2>6 DEF SkipHandle, q
    <3>2. \/ SkipCompressed(q, c, i, n) \in {Err(q, "corrupt"), Err(q, "toolarge"),
                Err([Passed(q) EXCEPT !.block = NoBlock], "corrupt")}
          \/ SkipCompressed(q, c, i, n) = w /\ c.n <= n
          \/ /\ SkipCompressed(q, c, i, n) = r /\ ~(c.n <= n)
             /\ c.bad \notin {"short", "long", "cut", "dlen", "body"}
      BY DEF SkipCompressed, r, w
    <3>3. c.bad \notin {"short", "long", "cut", "dlen", "body"} => c.bad \in {"no", "crc"}
      BY <2>6 DEF Fits, AnyChunk, Defects
    <3> QED
      BY <1>2, <2>3, <2>4, <2>5, <2>n, <2>w, <3>1, <3>2, <3>3
  <2>7. CASE c.t = "raw"
    <3>1. SkipHandle(s, c, i, n) = SkipUncompressed(q, c, i, n)
      BY <1>2, <2>7 DEF SkipHandle, q
    <3>2. \/ SkipUncompressed(q, c, i, n) \in {Err(q, "corrupt"), Err(q, "toolarge"),
                Err(w, "corrupt"), Err(Load(Passed(q), c, i), "corrupt")}
          \/ SkipUncompressed(q, c, i, n) = w /\ c.n <= n
          \/ /\ SkipUncompressed(q, c, i, n) = r /\ ~(c.n <= n)
             /\ c.bad \notin {"short", "long", "cut"}
      BY DEF SkipUncompressed, r, w
    <3>3. c.bad \notin {"short", "long", "cut"} => c.bad \in {"no", "crc"}
      BY <2>7 DEF Fits, AnyChunk, Defects
    <3> QED
      BY <1>2, <2>3, <2>4, <2>5, <2>n, <2>w, <3>1, <3>2, <3>3
  <2> QED
    BY <1>2, <2>6, <2>7
<1>3. CASE c.t \notin {"comp", "raw"} /\ ~(~s.header /\ NeedsHeader(c))
  <2>1. SkipHandle(s, c, i, n) = HandleMeta(q, c)
    BY <1>3 DEF SkipHandle
  <2> QED
    BY <1>3, <2>1, MetaAlive
<1> QED
  BY <1>1, <1>2, <1>3 DEF NeedsHeader

\* r satisfies the recursion of RunFrom up to chunk n.
IsRunFrom(r, st, s, from, n) ==
  r = [k \in from..n |-> IF k = from THEN s
                         ELSE IF r[k - 1].err # "none" THEN r[k - 1]
                         ELSE HandleChunk(r[k - 1], st[k], k)]

\* The handlers keep the type of the Reader's state.
LEMMA HandleTyped ==
  ASSUME NEW s \in ReaderFields, s.err = "none", NEW c \in WireChunk, NEW i \in Nat
  PROVE  HandleChunk(s, c, i) \in ReaderFields
PROOF
<1>1. c \in AnyChunk /\ Fits(c)
  BY DEF WireChunk, AnyChunk
<1> QED
  BY <1>1, HandleAlive DEF Failing, LoadEffect, MetaEffect

\* Reading on from a chunk goes through the states it is meant to.
LEMMA RunSteps ==
  ASSUME NEW st \in Seq(WireChunk), NEW s \in ReaderFields, NEW from \in 0..Len(st)
  PROVE  LET h == RunFrom(st, s, from)
         IN  /\ \A k \in from..Len(st) : h[k] \in ReaderFields
             /\ h[from] = s
             /\ \A k \in (from + 1)..Len(st) :
                  h[k] = IF h[k - 1].err # "none" THEN h[k - 1]
                         ELSE HandleChunk(h[k - 1], st[k], k)
PROOF
<1> DEFINE L == Len(st)
           N(d) == from + d
           Typed(r, n) == r \in [from..n -> ReaderFields]
           S == {d \in 0..(L - from) : \E r : IsRunFrom(r, st, s, from, N(d)) /\ Typed(r, N(d))}
<1>0. L \in Nat /\ from \in Nat /\ L - from \in Nat
  OBVIOUS
<1>1. 0 \in S
  <2> DEFINE r == [k \in from..from |-> s]
  <2>1. N(0) = from /\ \A k \in from..from : k = from
    BY <1>0
  <2>2. IsRunFrom(r, st, s, from, from)
    BY <2>1 DEF IsRunFrom
  <2>3. Typed(r, from)
    OBVIOUS
  <2> HIDE DEF r, N
  <2>4. \E q : IsRunFrom(q, st, s, from, N(0)) /\ Typed(q, N(0))
    BY <2>1, <2>2, <2>3
  <2> QED
    BY <1>0, <2>4
<1>2. ASSUME NEW d \in 0..((L - from) - 1), d \in S
      PROVE  d + 1 \in S
  <2> DEFINE n == from + d
  <2>1. /\ n \in Nat /\ n + 1 \in 1..L /\ n \in from..n /\ N(d) = n /\ N(d + 1) = n + 1
        /\ d + 1 \in 0..(L - from)
    BY <1>0
  <2>2. PICK r : IsRunFrom(r, st, s, from, n) /\ Typed(r, n)
    BY <1>2
  <2> DEFINE t == IF r[n].err # "none" THEN r[n] ELSE HandleChunk(r[n], st[n + 1], n + 1)
             q == [k \in from..(n + 1) |-> IF k = n + 1 THEN t ELSE r[k]]
  <2> HIDE DEF n
  <2>3. t \in ReaderFields
    <3>1. r[n] \in ReaderFields /\ st[n + 1] \in WireChunk /\ n + 1 \in Nat
      BY <2>1, <2>2
    <3> QED
      BY <3>1, HandleTyped
  <2>4. Typed(q, n + 1)
    <3> HIDE DEF t
    <3>1. \A k \in from..(n + 1) : k # n + 1 => k \in from..n
      BY <1>0, <2>1
    <3> QED
      BY <2>2, <2>3, <3>1
  <2>5. ASSUME NEW k \in from..(n + 1)
        PROVE  q[k] = IF k = from THEN s
                      ELSE IF q[k - 1].err # "none" THEN q[k - 1]
                      ELSE HandleChunk(q[k - 1], st[k], k)
    <3>1. CASE k = n + 1
      <4>1. k - 1 = n /\ k # from /\ n \in from..(n + 1) /\ n # n + 1
        BY <1>0, <2>1, <3>1
      <4>2. q[k] = t
        BY <3>1, Zenon
      <4>3. q[n] = r[n]
        BY <4>1, Zenon
      <4> HIDE DEF q
      <4> QED
        BY <3>1, <4>1, <4>2, <4>3, Zenon
    <3>2. CASE k # n + 1
      <4>1. k \in from..n /\ k \in from..(n + 1)
            /\ (k # from => k - 1 \in from..(n + 1) /\ k - 1 # n + 1)
        BY <1>0, <2>1, <3>2
      <4>2. q[k] = r[k] /\ (k # from => q[k - 1] = r[k - 1])
        BY <3>2, <4>1, Zenon
      <4>3. r[k] = IF k = from THEN s
                   ELSE IF r[k - 1].err # "none" THEN r[k - 1]
                   ELSE HandleChunk(r[k - 1], st[k], k)
        BY <2>2, <4>1, Zenon DEF IsRunFrom
      <4> HIDE DEF q
      <4> QED
        BY <4>2, <4>3, Zenon
    <3> QED
      BY <3>1, <3>2
  <2> HIDE DEF q
  <2>6. IsRunFrom(q, st, s, from, n + 1)
    <3>1. q = [k \in from..(n + 1) |-> q[k]]
      BY <2>4
    <3> QED
      BY <2>5, <3>1, Zenon DEF IsRunFrom
  <2> QED
    BY <2>1, <2>4, <2>6
<1>3. \A d \in 0..(L - from) : d \in S
  <2> HIDE DEF S
  <2> QED
    BY <1>0, <1>1, <1>2, UpTo
<1>4. PICK f : IsRunFrom(f, st, s, from, L) /\ Typed(f, L)
  <2>1. L - from \in 0..(L - from) /\ N(L - from) = L
    BY <1>0
  <2>2. L - from \in S
    <3> HIDE DEF S
    <3> QED
      BY <1>3, <2>1
  <2> QED
    BY <2>1, <2>2
<1> DEFINE h == RunFrom(st, s, from)
<1>5. IsRunFrom(h, st, s, from, L)
  BY <1>4, Zenon DEF IsRunFrom, RunFrom
<1> DEFINE T == {d \in 0..(L - from) : h[from + d] \in ReaderFields}
<1> HIDE DEF h
<1>6. 0 \in T
  <2>1. from \in from..L /\ from + 0 = from
    BY <1>0
  <2>2. h[from] = s
    BY <1>5, <2>1, Zenon DEF IsRunFrom
  <2> QED
    BY <1>0, <2>1, <2>2
<1>7. ASSUME NEW d \in 0..((L - from) - 1), d \in T
      PROVE  d + 1 \in T
  <2> DEFINE n == from + d
  <2>1. /\ n \in Nat /\ n + 1 \in 1..L /\ n + 1 \in from..L /\ n + 1 # from /\ (n + 1) - 1 = n
        /\ d + 1 \in 0..(L - from) /\ from + (d + 1) = n + 1
    BY <1>0
  <2>2. h[n] \in ReaderFields
    BY <1>7
  <2> HIDE DEF n
  <2>3. h[n + 1] = IF h[n].err # "none" THEN h[n] ELSE HandleChunk(h[n], st[n + 1], n + 1)
    BY <1>5, <2>1, Zenon DEF IsRunFrom
  <2>4. h[n + 1] \in ReaderFields
    BY <2>1, <2>2, <2>3, HandleTyped
  <2> QED
    BY <2>1, <2>4
<1>8. \A d \in 0..(L - from) : d \in T
  <2> HIDE DEF T
  <2> QED
    BY <1>0, <1>6, <1>7, UpTo
<1>9. ASSUME NEW k \in from..L PROVE h[k] \in ReaderFields
  <2>1. k - from \in 0..(L - from) /\ from + (k - from) = k
    BY <1>0
  <2> QED
    BY <1>8, <2>1
<1>10. h[from] = s
  <2>1. from \in from..L
    BY <1>0
  <2> QED
    BY <1>5, <2>1, Zenon DEF IsRunFrom
<1>11. ASSUME NEW k \in (from + 1)..L
       PROVE  h[k] = IF h[k - 1].err # "none" THEN h[k - 1] ELSE HandleChunk(h[k - 1], st[k], k)
  <2>1. k \in from..L /\ k # from
    BY <1>0
  <2> QED
    BY <1>5, <2>1, Zenon DEF IsRunFrom
<1> QED
  BY <1>9, <1>10, <1>11 DEF h

\* The handlers keep the type to the end of the input.
LEMMA RunTyped ==
  ASSUME NEW st \in Seq(WireChunk), NEW s \in ReaderFields, NEW from \in 0..Len(st)
  PROVE  RunFrom(st, s, from)[Len(st)] \in ReaderFields
PROOF
<1>1. Len(st) \in from..Len(st)
  OBVIOUS
<1> QED
  BY <1>1, RunSteps

----------------------------------------------------------------------------
(* Alignment *)

\* The input is a sequence of chunks that fit, cut short only at its end.
LEMMA InputFacts ==
  ASSUME SeekTypeOK
  PROVE  /\ src \in Seq(WireChunk) /\ Len(src) \in Nat /\ pos \in Nat
         /\ rd.start \in Nat /\ rd.at \in Nat /\ rd.block.len \in Nat
         /\ \A k \in 1..Len(src) : src[k] \in AnyChunk /\ Fits(src[k])
         /\ pos < Len(src) => /\ Chunk \in AnyChunk /\ Fits(Chunk)
                              /\ pos + 1 \in 1..Len(src) /\ Chunk.n \in Nat
                              /\ Chunk.t = "stub" => pos + 1 = Len(src)
PROOF
<1>1. src \in Input
  BY StreamsAssumption DEF SeekTypeOK
<1>2. src \in Seq(WireChunk) /\ Len(src) \in Nat
  BY <1>1 DEF Input
<1>3. \A k \in 1..Len(src) : src[k] \in AnyChunk /\ Fits(src[k])
  <2>1. \A k \in 1..Len(src) : src[k] \in WireChunk
    BY <1>2
  <2> QED
    BY <2>1 DEF WireChunk, AnyChunk
<1>4. pos \in Nat /\ (pos < Len(src) => pos + 1 \in 1..Len(src))
  BY <1>2 DEF SeekTypeOK
<1>5. rd.start \in Nat /\ rd.at \in Nat /\ rd.block.len \in Nat
  BY DEF SeekTypeOK, ReaderFields
<1>6. ASSUME pos < Len(src), Chunk.t = "stub"
      PROVE  pos + 1 = Len(src)
  <2>1. Truncated(src[pos + 1])
    BY <1>6 DEF Truncated, Chunk
  <2>2. pos + 1 \notin 1..(Len(src) - 1)
    BY <1>1, <2>1 DEF Input
  <2> QED
    BY <1>2, <1>4, <1>6, <2>2
<1> QED
  BY <1>2, <1>3, <1>4, <1>5, <1>6 DEF Chunk, AnyChunk

\* A data chunk that is loaded.
LEMMA LoadAligned ==
  ASSUME NEW st \in Seq(WireChunk), NEW p \in 0..(Len(st) - 1), NEW s \in ReaderFields,
         NEW c \in Nat, Aligned(st, p, s, c), s.at = s.block.len, DataChunk(st[p + 1]),
         NEW k \in Nat, k <= st[p + 1].n, NEW r, LoadEffect(s, st[p + 1], p + 1, k, r)
  PROVE  Aligned(st, p + 1, r, c + k)
PROOF
<1>1. /\ p \in Nat /\ p + 1 \in 1..Len(st) /\ (p + 1) - 1 = p /\ p \in 0..Len(st)
      /\ p + 1 \in 1..(p + 1)
  OBVIOUS
<1>2. st[p + 1].n \in Nat
  BY <1>1 DEF WireChunk
<1>3. Place(st, p) \in Nat /\ Place(st, p + 1) = Place(st, p) + st[p + 1].n
  BY <1>1, Places DEF DataChunk
<1>4. c = Place(st, p)
  <2>1. s.block.len \in Nat
    BY DEF ReaderFields
  <2> QED
    BY <2>1, <1>3 DEF Aligned
<1>5. r.block.len = st[p + 1].n /\ r.block.id = p + 1 /\ r.at = k /\ r.header
  BY DEF LoadEffect
<1>6. InFront(st, p + 1, r.block)
  BY <1>1, <1>5 DEF InFront, LoadEffect
<1>7. r.at <= r.block.len /\ (c + k) + (r.block.len - r.at) = Place(st, p + 1)
  BY <1>2, <1>3, <1>4, <1>5
<1> QED
  BY <1>5, <1>6, <1>7, Zenon DEF Aligned

\* A data chunk that is passed over.
LEMMA SkipAligned ==
  ASSUME NEW st \in Seq(WireChunk), NEW p \in 0..(Len(st) - 1), NEW s \in ReaderFields,
         NEW c \in Nat, Aligned(st, p, s, c), s.at = s.block.len, DataChunk(st[p + 1]),
         NEW r, SkipEffect(s, st[p + 1], r)
  PROVE  Aligned(st, p + 1, r, c + st[p + 1].n)
PROOF
<1>1. p + 1 \in 1..Len(st) /\ (p + 1) - 1 = p /\ p \in 0..Len(st)
  OBVIOUS
<1>2. st[p + 1].n \in Nat
  BY <1>1 DEF WireChunk
<1>3. Place(st, p) \in Nat /\ Place(st, p + 1) = Place(st, p) + st[p + 1].n
  BY <1>1, Places DEF DataChunk
<1>4. c = Place(st, p)
  <2>1. s.block.len \in Nat
    BY DEF ReaderFields
  <2> QED
    BY <2>1, <1>3 DEF Aligned
<1>5. r.block.len = 0 /\ r.at = 0
  BY DEF SkipEffect, NoBlock
<1> QED
  BY <1>2, <1>3, <1>4, <1>5 DEF Aligned

\* A chunk that is not data.
LEMMA MetaAligned ==
  ASSUME NEW st \in Seq(WireChunk), NEW p \in 0..(Len(st) - 1), NEW s \in ReaderFields,
         NEW c \in Nat, Aligned(st, p, s, c), s.at = s.block.len, ~DataChunk(st[p + 1]),
         NEW r, MetaEffect(s, st[p + 1], r)
  PROVE  Aligned(st, p + 1, r, c)
PROOF
<1>1. /\ p \in Nat /\ p + 1 \in 1..Len(st) /\ (p + 1) - 1 = p /\ p \in 0..Len(st)
      /\ \A i \in 1..p : i \in 1..(p + 1)
  OBVIOUS
<1>3. Place(st, p) \in Nat /\ Place(st, p + 1) = Place(st, p)
  <2>1. Place(st, p) \in Nat /\ Place(st, p + 1) = Place(st, p) + 0
    BY <1>1, Places DEF DataChunk
  <2> QED
    BY <2>1
<1>4. c = Place(st, p)
  <2>1. s.block.len \in Nat
    BY DEF ReaderFields
  <2> QED
    BY <2>1, <1>3 DEF Aligned
<1>5. CASE st[p + 1].t = "sid"
  <2>1. r.block.len = 0 /\ r.at = 0
    BY <1>5 DEF MetaEffect, NoBlock
  <2> QED
    BY <1>3, <1>4, <2>1 DEF Aligned
<1>6. CASE st[p + 1].t # "sid"
  <2>1. r.block = s.block /\ r.at = s.at /\ (r.header => s.header)
    BY <1>6 DEF MetaEffect
  <2>2. s.header /\ s.block.len > 0 => InFront(st, p + 1, s.block)
    BY <1>1, <1>3 DEF InFront, Aligned
  <2>3. s.block.len \in Nat
    BY DEF ReaderFields
  <2>4. r.at <= r.block.len /\ c + (r.block.len - r.at) = Place(st, p + 1)
    BY <1>3, <1>4, <2>1, <2>3
  <2> QED
    BY <2>1, <2>2, <2>4, Zenon DEF Aligned
<1> QED
  BY <1>5, <1>6

\* k bytes of decoded are consumed.
Moved(s, k) == [s EXCEPT !.at = s.at + k]

\* Consuming changes decoded_pos only.
LEMMA MovedParts ==
  ASSUME NEW s \in ReaderFields, NEW k \in Nat
  PROVE  /\ Moved(s, k) \in ReaderFields
         /\ Moved(s, k).start = s.start /\ Moved(s, k).block = s.block
         /\ Moved(s, k).at = s.at + k /\ Moved(s, k).err = s.err
         /\ Moved(s, k).header = s.header /\ Moved(s, k).expectEof = s.expectEof
PROOF
<1>1. s.at + k \in Nat
  BY DEF ReaderFields
<1> QED
  BY <1>1 DEF ReaderFields, Moved

\* Consuming bytes of decoded.
LEMMA MoveAligned ==
  ASSUME NEW st, NEW p, NEW s \in ReaderFields, NEW c \in Nat, Aligned(st, p, s, c),
         NEW k \in Nat, k <= s.block.len - s.at
  PROVE  Aligned(st, p, Moved(s, k), c + k)
PROOF
<1> DEFINE r == Moved(s, k)
<1>1. s.at \in Nat /\ s.block.len \in Nat
  BY DEF ReaderFields
<1>3. r.block = s.block /\ r.at = s.at + k /\ r.header = s.header
  BY MovedParts
<1> HIDE DEF r
<1>4. /\ r.at <= r.block.len
      /\ (c + k) + (r.block.len - r.at) = c + (s.block.len - s.at)
  BY <1>1, <1>3
<1>5. c + (s.block.len - s.at) = Place(st, p)
  BY Zenon DEF Aligned
<1>6. s.at = s.block.len => r.at = r.block.len
  BY <1>1, <1>3
<1>7. ~r.header => r.at = r.block.len
  BY <1>3, <1>6, Zenon DEF Aligned
<1>8. r.header /\ r.block.len > 0 => InFront(st, p, r.block)
  BY <1>3, Zenon DEF Aligned
<1>9. Aligned(st, p, r, c + k)
  BY <1>4, <1>5, <1>7, <1>8, Zenon DEF Aligned
<1> QED
  BY <1>9 DEF r

\* Draining decoded.
LEMMA DrainAligned ==
  ASSUME SeekTypeOK, Aligned(src, pos, rd, cur)
  PROVE  /\ Avail \in Nat /\ Drained \in ReaderFields
         /\ Aligned(src, pos, Drained, cur + Avail)
         /\ Drained.start = rd.start /\ Drained.block = rd.block /\ Drained.at = rd.block.len
         /\ Drained.err = rd.err /\ Drained.header = rd.header
         /\ Drained.expectEof = rd.expectEof
PROOF
<1>1. rd \in ReaderFields /\ cur \in Nat /\ rd.at \in Nat /\ rd.block.len \in Nat
  BY DEF SeekTypeOK, ReaderFields
<1>2. Avail \in Nat /\ rd.at + Avail = rd.block.len /\ Avail <= rd.block.len - rd.at
  <2>1. rd.at <= rd.block.len
    BY DEF Aligned
  <2> QED
    BY <1>1, <2>1 DEF Avail
<1>3. Drained = Moved(rd, Avail)
  BY <1>2 DEF Drained, Moved
<1>4. /\ Drained \in ReaderFields /\ Aligned(src, pos, Drained, cur + Avail)
      /\ Drained.start = rd.start /\ Drained.block = rd.block
      /\ Drained.at = rd.at + Avail /\ Drained.err = rd.err
      /\ Drained.header = rd.header /\ Drained.expectEof = rd.expectEof
  <2>1. Aligned(src, pos, Drained, cur + Avail)
    BY <1>1, <1>2, <1>3, MoveAligned
  <2> QED
    BY <1>1, <1>2, <1>3, <2>1, MovedParts
<1> QED
  BY <1>2, <1>4

\* One stream has its identifier where no data has been read.
LEMMA SidAtStart ==
  ASSUME NEW st \in Seq(WireChunk), OneStream(st), NEW p \in 0..(Len(st) - 1),
         st[p + 1].t = "sid"
  PROVE  Place(st, p) = 0
PROOF
<1>1. SUFFICES ASSUME Place(st, p) # 0 PROVE FALSE
  OBVIOUS
<1>2. p \in 0..Len(st) /\ p + 1 \in 1..Len(st) /\ \A k \in 1..p : k \in 1..Len(st) /\ k < p + 1
  OBVIOUS
<1>3. PICK k \in 1..p : st[k].t \in {"comp", "raw"}
  BY <1>1, <1>2, DataInFront
<1> QED
  BY <1>2, <1>3 DEF OneStream

----------------------------------------------------------------------------
(* The steps *)

\* read, skip and fill_buf begin.
BeginCall ==
  /\ \E o \in {"read", "skip", "fillbuf"}, n \in Nat, p \in {"ret", "fill", "skip"} :
       /\ Begin(o, n, p)
       /\ p = "fill" => o # "skip"
       /\ p = "skip" => o = "skip"
       /\ p = "ret" => n = 0
       /\ wrapped => o = "read"
  /\ UNCHANGED <<src, pos, rd, cur, base, seekVars>>

\* A seek or read_at begins.
SeekCall == \E c \in {"seek", "readat"}, n \in Nat, o \in Int, e \in {"ok", "unsupported"} :
              BeginSeek(c, n, o, e)

\* The other calls of a Reader.
OtherCall == /\ ~wrapped
             /\ (\E n \in Nat : Consume(n)) \/ Reset \/ DecodeConcurrent
             /\ UNCHANGED seekVars

\* What a step can be.
LEMMA StepCases ==
  ASSUME SeekTypeOK, [SNext]_svars
  PROVE  \/ BeginCall \/ SeekCall \/ OtherCall
         \/ Steps /\ UNCHANGED seekVars
         \/ SeekSteps
         \/ UNCHANGED svars
PROOF
<1>0. /\ \A n \in 0..MaxAsk : n \in Nat
      /\ cur \in Nat /\ rd.start + rd.at \in Int /\ total \in Int
      /\ \A d \in (-Back)..Back : d \in Int
      /\ \A d \in (-Back)..1 : d \in Int
  <2>1. MaxAsk \in Nat /\ Back \in Nat
    BY AskAssumption, BackAssumption
  <2> QED
    BY <2>1, InputFacts DEF SeekTypeOK
<1>1. ASSUME NEW n \in 0..MaxAsk, Read(n), UNCHANGED seekVars
      PROVE  BeginCall
  <2>1. n \in Nat /\ UNCHANGED <<src, pos, rd, cur, base, seekVars>>
    BY <1>0, <1>1 DEF Read
  <2>2. CASE n = 0
    <3>1. Begin("read", n, "ret")
      BY <1>1, <2>2 DEF Read
    <3> QED
      BY <2>1, <2>2, <3>1 DEF BeginCall
  <2>3. CASE n # 0
    <3>1. Begin("read", n, "fill")
      BY <1>1, <2>3 DEF Read
    <3> QED
      BY <2>1, <3>1 DEF BeginCall
  <2> QED
    BY <2>2, <2>3
<1>2. ASSUME NEW n \in 0..MaxAsk, Skip(n), UNCHANGED seekVars, ~wrapped
      PROVE  BeginCall
  <2>1. n \in Nat /\ UNCHANGED <<src, pos, rd, cur, base, seekVars>>
    BY <1>0, <1>2 DEF Skip
  <2>2. CASE n = 0
    <3>1. Begin("skip", n, "ret")
      BY <1>2, <2>2 DEF Skip
    <3> QED
      BY <1>2, <2>1, <2>2, <3>1 DEF BeginCall
  <2>3. CASE n # 0
    <3>1. Begin("skip", n, "skip")
      BY <1>2, <2>3 DEF Skip
    <3> QED
      BY <1>2, <2>1, <3>1 DEF BeginCall
  <2> QED
    BY <2>2, <2>3
<1>3. ASSUME FillBuf, UNCHANGED seekVars, ~wrapped
      PROVE  BeginCall
  <2>1. UNCHANGED <<src, pos, rd, cur, base, seekVars>> /\ Begin("fillbuf", 1, "fill")
    BY <1>3 DEF FillBuf
  <2> QED
    BY <1>3, <2>1 DEF BeginCall
<1>4. ~wrapped /\ Calls /\ UNCHANGED seekVars => BeginCall \/ OtherCall
  BY <1>0, <1>1, <1>2, <1>3 DEF Calls, OtherCall
<1>5. SeekStart => SeekCall
  <2>1. \A o \in Offsets : o \in Int
    BY DEF Offsets
  <2> QED
    BY <2>1 DEF SeekStart, SeekCall
<1>6. SeekCurrent => SeekCall
  <2>1. \A d \in (-Back)..Back : rd.start + rd.at + d \in Int
    BY <1>0
  <2> QED
    BY <2>1 DEF SeekCurrent, SeekCall
<1>7. SeekEnd => SeekCall
  <2>1. \A d \in (-Back)..1 : total + d \in Int
    BY <1>0
  <2>2. (IF total = -1 THEN "unsupported" ELSE "ok") \in {"ok", "unsupported"}
    OBVIOUS
  <2> QED
    BY <2>1, <2>2, Zenon DEF SeekEnd, SeekCall
<1>8. ASSUME NEW n \in 0..MaxAsk, ReadAt(n)
      PROVE  SeekCall
  <2>1. \A o \in Offsets : o \in Int
    BY DEF Offsets
  <2> QED
    BY <1>0, <1>8, <2>1 DEF ReadAt, SeekCall
<1>9. Handed /\ UNCHANGED seekVars => UNCHANGED svars
  BY DEF Handed, svars
<1> QED
  BY <1>1, <1>4, <1>5, <1>6, <1>7, <1>8, <1>9 DEF SNext

\* What a turn of fill_decoded's loop comes to.
FillOutcome ==
  \/ Failing(rd') /\ pc' = "ret" /\ res' = rd'.err
  \/ /\ Chunk.t = "stub" /\ rd' = rd /\ pc' = "ret" /\ res' = "corrupt" /\ pos + 1 = Len(src)
     /\ Aligned(src, pos + 1, rd', cur)
  \/ /\ DataChunk(Chunk) /\ LoadEffect(rd, Chunk, pos + 1, 0, rd') /\ pc' = "fill" /\ res' = res
     /\ Aligned(src, pos + 1, rd', cur)
  \/ /\ ~DataChunk(Chunk) /\ Chunk.t # "stub" /\ MetaEffect(rd, Chunk, rd')
     /\ pc' = "fill" /\ res' = res
     /\ Aligned(src, pos + 1, rd', cur)

\* A turn of fill_decoded's loop has one of these outcomes.
LEMMA FillChunkStep ==
  ASSUME SeekTypeOK, LoopInv, AlignInv, FillChunk
  PROVE  /\ FillOutcome
         /\ rd' \in ReaderFields /\ src' = src /\ pos' = pos + 1 /\ pos + 1 \in 1..Len(src)
         /\ cur' = cur /\ rd.err = "none" /\ rd.at = rd.block.len
         /\ Aligned(src, pos, rd, cur)
PROOF
<1>1. /\ pc = "fill" /\ ~Unread /\ pos < Len(src) /\ pos' = pos + 1 /\ src' = src /\ cur' = cur
      /\ After(HandleChunk(rd, Chunk, pos + 1), "fill")
  BY DEF FillChunk
<1>2. rd.err = "none" /\ rd \in ReaderFields /\ cur \in Nat
  BY <1>1 DEF LoopInv, Working, SeekTypeOK
<1>3. Aligned(src, pos, rd, cur)
  BY <1>2 DEF AlignInv, Alive
<1>4. /\ src \in Seq(WireChunk) /\ Chunk \in AnyChunk /\ Fits(Chunk) /\ pos + 1 \in 1..Len(src)
      /\ Chunk.t = "stub" => pos + 1 = Len(src)
  BY <1>1, InputFacts
<1>5. pos \in 0..(Len(src) - 1) /\ pos + 1 \in Nat /\ Chunk = src[pos + 1] /\ Chunk.n \in Nat
  BY <1>1, InputFacts DEF Chunk, SeekTypeOK
<1>6. rd.at = rd.block.len
  <2>1. rd.at \in Nat /\ rd.block.len \in Nat /\ rd.at <= rd.block.len
    BY <1>3, InputFacts DEF Aligned
  <2> QED
    BY <1>1, <2>1 DEF Unread
<1> DEFINE r == HandleChunk(rd, Chunk, pos + 1)
<1>7. \/ Failing(r)
      \/ Chunk.t \in {"comp", "raw"} /\ LoadEffect(rd, Chunk, pos + 1, 0, r)
      \/ Chunk.t \notin {"comp", "raw", "stub"} /\ MetaEffect(rd, Chunk, r)
  BY <1>2, <1>4, <1>5, HandleAlive
<1> HIDE DEF r
<1>8. CASE Chunk.t = "stub"
  <2>1. rd' = rd /\ pc' = "ret" /\ res' = "corrupt"
    BY <1>1, <1>8 DEF After, End
  <2>2. MetaEffect(rd, Chunk, rd)
    BY <1>2, <1>8 DEF MetaEffect
  <2>3. ~DataChunk(Chunk)
    BY <1>8 DEF DataChunk
  <2>4. Aligned(src, pos + 1, rd, cur)
    BY <1>2, <1>3, <1>4, <1>5, <1>6, <2>2, <2>3, MetaAligned
  <2> QED
    BY <1>1, <1>2, <1>3, <1>4, <1>6, <1>8, <2>1, <2>4 DEF FillOutcome
<1>9. CASE Chunk.t # "stub"
  <2>1. /\ rd' = r
        /\ r.err # "none" => pc' = "ret" /\ res' = r.err
        /\ r.err = "none" => pc' = "fill" /\ res' = res
    BY <1>1, <1>9 DEF After, End, r
  <2>2. CASE Failing(r)
    <3>1. r.err # "none" /\ r \in ReaderFields
      BY <2>2 DEF Failing, ChunkErrors
    <3> QED
      BY <1>1, <1>2, <1>3, <1>4, <1>6, <2>1, <2>2, <3>1 DEF FillOutcome
  <2>3. CASE Chunk.t \in {"comp", "raw"} /\ LoadEffect(rd, Chunk, pos + 1, 0, r)
    <3>1. r.err = "none" /\ r \in ReaderFields /\ DataChunk(Chunk)
      BY <2>3 DEF LoadEffect, DataChunk
    <3> DEFINE z == 0
    <3>z. z \in Nat /\ z <= Chunk.n /\ cur + z = cur /\ LoadEffect(rd, Chunk, pos + 1, z, r)
      BY <1>2, <1>5, <2>3
    <3> HIDE DEF z
    <3>2. Aligned(src, pos + 1, r, cur + z)
      BY <1>2, <1>3, <1>4, <1>5, <1>6, <3>1, <3>z, LoadAligned
    <3>3. cur + z = cur
      BY <3>z
    <3> QED
      BY <1>1, <1>2, <1>3, <1>4, <1>6, <2>1, <2>3, <3>1, <3>2, <3>3 DEF FillOutcome
  <2>4. CASE Chunk.t \notin {"comp", "raw", "stub"} /\ MetaEffect(rd, Chunk, r)
    <3>1. r.err = "none" /\ r \in ReaderFields /\ ~DataChunk(Chunk)
      BY <2>4 DEF MetaEffect, DataChunk
    <3>2. Aligned(src, pos + 1, r, cur)
      BY <1>2, <1>3, <1>4, <1>5, <1>6, <2>4, <3>1, MetaAligned
    <3> QED
      BY <1>1, <1>2, <1>3, <1>4, <1>6, <1>9, <2>1, <2>4, <3>1, <3>2 DEF FillOutcome
  <2> QED
    BY <1>7, <2>2, <2>3, <2>4
<1> QED
  BY <1>8, <1>9

\* What a turn of skip's loop comes to, with n bytes to go behind decoded.
SkipOutcome(n, at) ==
  \/ Failing(rd') /\ pc' = "ret" /\ res' = rd'.err /\ cur' = at /\ want' = n
  \/ /\ Chunk.t = "stub" /\ rd' = Drained /\ pc' = "ret" /\ res' = "corrupt"
     /\ pos + 1 = Len(src) /\ cur' = at /\ want' = n /\ Aligned(src, pos + 1, rd', cur')
  \/ /\ DataChunk(Chunk) /\ Chunk.n <= n /\ SkipEffect(Drained, Chunk, rd')
     /\ cur' = at + Chunk.n /\ want' = n - Chunk.n
     /\ IF want' = 0 THEN pc' = "ret" /\ res' = "ok" ELSE pc' = "skip" /\ res' = res
     /\ Aligned(src, pos + 1, rd', cur')
  \/ /\ DataChunk(Chunk) /\ Chunk.n > n /\ LoadEffect(Drained, Chunk, pos + 1, n, rd')
     /\ cur' = at + n /\ want' = 0 /\ pc' = "ret" /\ res' = "ok"
     /\ Aligned(src, pos + 1, rd', cur')
  \/ /\ ~DataChunk(Chunk) /\ Chunk.t # "stub" /\ MetaEffect(Drained, Chunk, rd')
     /\ cur' = at /\ want' = n /\ pc' = "skip" /\ res' = res
     /\ Aligned(src, pos + 1, rd', cur')

\* A turn of skip's loop has one of these outcomes.
LEMMA SkipChunkStep ==
  ASSUME SeekTypeOK, LoopInv, AlignInv, SkipChunk
  PROVE  /\ SkipOutcome(want - Avail, cur + Avail)
         /\ want - Avail \in Nat \ {0} /\ Avail \in Nat
         /\ rd' \in ReaderFields /\ src' = src /\ pos' = pos + 1 /\ pos + 1 \in 1..Len(src)
         /\ rd.err = "none" /\ Aligned(src, pos, rd, cur)
         /\ Aligned(src, pos, Drained, cur + Avail) /\ Drained.at = Drained.block.len
PROOF
<1> DEFINE n == want - Avail
           at == cur + Avail
           r == SkipHandle(Drained, Chunk, pos + 1, n)
           k == Passing(r, Chunk, n)
<1>1. /\ pc = "skip" /\ ~SkipInBuffer /\ pos < Len(src) /\ pos' = pos + 1 /\ src' = src
      /\ want' = n - k /\ cur' = at + k
      /\ IF Chunk.t = "stub" THEN rd' = Drained /\ End("corrupt")
         ELSE /\ rd' = r
              /\ IF r.err # "none" THEN End(r.err)
                 ELSE IF n = k THEN End("ok") ELSE UNCHANGED <<pc, res>>
  BY DEF SkipChunk
<1>2. rd.err = "none" /\ cur \in Nat /\ want \in Nat
  BY <1>1 DEF LoopInv, Working, SeekTypeOK
<1>3. Aligned(src, pos, rd, cur)
  BY <1>2 DEF AlignInv, Alive
<1>4. /\ src \in Seq(WireChunk) /\ Chunk \in AnyChunk /\ Fits(Chunk) /\ pos + 1 \in 1..Len(src)
      /\ Chunk.t = "stub" => pos + 1 = Len(src)
  BY <1>1, InputFacts
<1>5. pos \in 0..(Len(src) - 1) /\ pos + 1 \in Nat /\ Chunk = src[pos + 1] /\ Chunk.n \in Nat
  BY <1>1, InputFacts DEF Chunk, SeekTypeOK
<1>6. /\ Avail \in Nat /\ Drained \in ReaderFields /\ Aligned(src, pos, Drained, at)
      /\ Drained.at = Drained.block.len /\ Drained.err = "none"
  BY <1>2, <1>3, DrainAligned
<1>7. n \in Nat \ {0} /\ at \in Nat
  BY <1>1, <1>2, <1>6 DEF SkipInBuffer
<1> HIDE DEF n, at
<1>8. \/ Failing(r)
      \/ Chunk.t \in {"comp", "raw"} /\ Chunk.n <= n /\ SkipEffect(Drained, Chunk, r)
      \/ Chunk.t \in {"comp", "raw"} /\ Chunk.n > n /\ LoadEffect(Drained, Chunk, pos + 1, n, r)
      \/ Chunk.t \notin {"comp", "raw", "stub"} /\ MetaEffect(Drained, Chunk, r)
  BY <1>4, <1>5, <1>6, <1>7, SkipHandleAlive
<1>g. /\ n \in Nat \ {0} /\ Avail \in Nat
      /\ src' = src /\ pos' = pos + 1 /\ pos + 1 \in 1..Len(src)
      /\ rd.err = "none" /\ Aligned(src, pos, rd, cur)
      /\ Aligned(src, pos, Drained, at) /\ Drained.at = Drained.block.len
  BY <1>1, <1>2, <1>3, <1>4, <1>6, <1>7
<1>h. k = IF Chunk.t \notin {"comp", "raw"} \/ r.err # "none" THEN 0
          ELSE IF Chunk.n < n THEN Chunk.n ELSE n
  BY DEF Passing
<1> HIDE DEF r, k
<1>9. CASE Chunk.t = "stub"
  <2>1. rd' = Drained /\ pc' = "ret" /\ res' = "corrupt"
    BY <1>1, <1>9 DEF End
  <2>2. MetaEffect(Drained, Chunk, Drained) /\ ~DataChunk(Chunk)
    BY <1>6, <1>9 DEF MetaEffect, DataChunk
  <2>3. Aligned(src, pos + 1, Drained, at)
    BY <1>4, <1>5, <1>6, <1>7, <2>2, MetaAligned
  <2>4. cur' = at /\ want' = n
    <3>1. k = 0
      BY <1>h, <1>9
    <3> QED
      BY <1>1, <1>7, <3>1
  <2>5. SkipOutcome(n, at) /\ rd' \in ReaderFields
    BY <1>4, <1>6, <1>9, <2>1, <2>3, <2>4 DEF SkipOutcome
  <2> QED
    BY <1>g, <2>5 DEF n, at
<1>10. CASE Chunk.t # "stub"
  <2>1. /\ rd' = r
        /\ r.err # "none" => pc' = "ret" /\ res' = r.err
        /\ r.err = "none" /\ n = k => pc' = "ret" /\ res' = "ok"
        /\ r.err = "none" /\ n # k => pc' = "skip" /\ res' = res
    BY <1>1, <1>10 DEF End
  <2>2. CASE Failing(r)
    <3>1. r.err # "none" /\ r \in ReaderFields
      BY <2>2 DEF Failing, ChunkErrors
    <3>2. cur' = at /\ want' = n
      <4>1. k = 0
        BY <1>h, <3>1
      <4> QED
        BY <1>1, <1>7, <4>1
    <3>3. SkipOutcome(n, at) /\ rd' \in ReaderFields
      BY <2>1, <2>2, <3>1, <3>2 DEF SkipOutcome
    <3> QED
      BY <1>g, <3>3 DEF n, at
  <2>3. CASE Chunk.t \in {"comp", "raw"} /\ Chunk.n <= n /\ SkipEffect(Drained, Chunk, r)
    <3>1. r.err = "none" /\ r \in ReaderFields /\ DataChunk(Chunk)
      BY <2>3 DEF SkipEffect, DataChunk
    <3>2. k = Chunk.n
      BY <1>5, <1>7, <1>h, <2>3, <3>1
    <3>3. Aligned(src, pos + 1, r, at + Chunk.n)
      BY <1>4, <1>5, <1>6, <1>7, <2>3, <3>1, SkipAligned
    <3>4. cur' = at + Chunk.n /\ want' = n - Chunk.n /\ (want' = 0 <=> n = k)
      BY <1>1, <1>5, <1>7, <3>2
    <3>5. IF want' = 0 THEN pc' = "ret" /\ res' = "ok" ELSE pc' = "skip" /\ res' = res
      BY <2>1, <3>1, <3>4
    <3>6. SkipOutcome(n, at) /\ rd' \in ReaderFields
      BY <2>1, <2>3, <3>1, <3>3, <3>4, <3>5 DEF SkipOutcome
    <3> QED
      BY <1>g, <3>6 DEF n, at
  <2>4. CASE Chunk.t \in {"comp", "raw"} /\ Chunk.n > n /\ LoadEffect(Drained, Chunk, pos + 1, n, r)
    <3>1. r.err = "none" /\ r \in ReaderFields /\ DataChunk(Chunk)
      BY <2>4 DEF LoadEffect, DataChunk
    <3>2. k = n
      BY <1>5, <1>7, <1>h, <2>4, <3>1
    <3>3. Aligned(src, pos + 1, r, at + n)
      BY <1>4, <1>5, <1>6, <1>7, <2>4, <3>1, LoadAligned
    <3>4. cur' = at + n /\ want' = 0
      BY <1>1, <1>7, <3>2
    <3>6. SkipOutcome(n, at) /\ rd' \in ReaderFields
      BY <2>1, <2>4, <3>1, <3>2, <3>3, <3>4 DEF SkipOutcome
    <3> QED
      BY <1>g, <3>6 DEF n, at
  <2>5. CASE Chunk.t \notin {"comp", "raw", "stub"} /\ MetaEffect(Drained, Chunk, r)
    <3>1. r.err = "none" /\ r \in ReaderFields /\ ~DataChunk(Chunk)
      BY <2>5 DEF MetaEffect, DataChunk
    <3>2. k = 0 /\ n # k
      BY <1>7, <1>h, <2>5
    <3>3. Aligned(src, pos + 1, r, at)
      BY <1>4, <1>5, <1>6, <1>7, <2>5, <3>1, MetaAligned
    <3>4. cur' = at /\ want' = n
      BY <1>1, <1>7, <3>2
    <3>6. SkipOutcome(n, at) /\ rd' \in ReaderFields
      BY <1>10, <2>1, <2>5, <3>1, <3>2, <3>3, <3>4 DEF SkipOutcome
    <3> QED
      BY <1>g, <3>6 DEF n, at
  <2> QED
    BY <1>8, <2>2, <2>3, <2>4, <2>5
<1> QED
  BY <1>9, <1>10

\* The bytes of decoded from decoded_pos on.
LEMMA SliceType ==
  ASSUME SeekTypeOK, Avail \in Nat, NEW n \in Nat
  PROVE  /\ Slice(n) \in Seq(Byte)
         /\ Len(Slice(n)) = IF Avail < n THEN Avail ELSE n
         /\ \A j \in 1..Len(Slice(n)) : Slice(n)[j] = <<rd.block.id, rd.at + j>>
PROOF
<1> DEFINE m == IF Avail < n THEN Avail ELSE n
<1>1. m \in Nat
  OBVIOUS
<1> HIDE DEF m
<1>2. Slice(n) = [j \in 1..m |-> <<rd.block.id, rd.at + j>>]
  BY DEF Slice, m
<1>3. \A j \in 1..m : <<rd.block.id, rd.at + j>> \in Byte
  <2>1. rd.block.id \in Nat /\ rd.at \in Nat
    BY DEF SeekTypeOK, ReaderFields
  <2> QED
    BY <1>1, <2>1 DEF Byte
<1>4. Slice(n) \in [1..m -> Byte]
  BY <1>2, <1>3
<1>5. Slice(n) \in Seq(Byte) /\ Len(Slice(n)) = m
  BY <1>1, <1>4
<1> QED
  BY <1>2, <1>5 DEF m

\* The entry for an offset is the start of a chunk at or before it.
LEMMA FindSound ==
  ASSUME SeekTypeOK, IndexInv, wrapped, NEW o \in Nat
  PROVE  /\ Find(index, o).c \in 0..Len(src) /\ Find(index, o).u = Place(src, Find(index, o).c)
         /\ Find(index, o).u \in Nat /\ Find(index, o).u <= o
         /\ Find(index, o) = [c |-> 0, u |-> 0] \/ Find(index, o) \in index
PROOF
<1>0. src \in Seq(WireChunk) /\ Len(src) \in Nat
  BY InputFacts
<1>1. ASSUME NEW e \in index
      PROVE  e.c \in 0..Len(src) /\ e.u = Place(src, e.c) /\ e.u \in Nat
  <2>1. e \in Starts(src)
    BY DEF IndexInv
  <2>2. PICK k \in 1..Len(src) : e = [c |-> k - 1, u |-> Len(Data(SubSeq(src, 1, k - 1)))]
    BY <2>1 DEF Starts
  <2>3. k - 1 \in 0..Len(src)
    BY <1>0
  <2>4. e.c = k - 1 /\ e.u = Place(src, k - 1)
    BY <2>2 DEF Place, Before
  <2> QED
    BY <1>0, <2>3, <2>4, Places
<1> DEFINE below == {e \in index : e.u <= o}
<1>2. CASE below = {}
  <2>1. Find(index, o) = [c |-> 0, u |-> 0]
    BY <1>2 DEF Find
  <2> QED
    BY <1>0, <2>1, Places
<1>3. CASE below # {}
  <2> DEFINE gaps == {o - e.u : e \in below}
  <2>1. gaps \in SUBSET Nat /\ gaps # {}
    <3>1. \A x \in below : o - x.u \in Nat
      <4> SUFFICES ASSUME NEW x \in below PROVE o - x.u \in Nat
        OBVIOUS
      <4>1. x.u \in Nat /\ x.u <= o
        BY <1>1
      <4> QED
        BY <4>1
    <3>2. gaps \in SUBSET Nat
      BY <3>1
    <3>3. PICK x \in below : TRUE
      BY <1>3
    <3>4. o - x.u \in gaps
      OBVIOUS
    <3> QED
      BY <3>2, <3>4
  <2> HIDE DEF gaps
  <2>2. PICK g \in gaps : \A h \in gaps : g <= h
    BY <2>1, LeastNatural
  <2>3. PICK e \in below : g = o - e.u
    BY <2>2 DEF gaps
  <2>4. \A d \in below : d.u <= e.u
    <3> SUFFICES ASSUME NEW d \in below PROVE d.u <= e.u
      OBVIOUS
    <3>1. g <= o - d.u
      BY <2>2 DEF gaps
    <3>2. d.u \in Nat /\ e.u \in Nat
      BY <1>1
    <3> QED
      BY <2>3, <3>1, <3>2
  <2> DEFINE f == CHOOSE x \in below : \A d \in below : d.u <= x.u
  <2>5. f \in below
    BY <2>4, Zenon
  <2>6. Find(index, o) = f
    BY <1>3 DEF Find
  <2> HIDE DEF f
  <2> QED
    BY <1>1, <2>5, <2>6
<1> QED
  BY <1>2, <1>3

\* A body that cannot be read leaves an error.
LEMMA BodyFailsStep ==
  ASSUME SeekTypeOK, NEW s \in ReaderFields, s.err = "none", NEW n \in Nat,
         BodyFails(HandleChunk(s, CutChunk, pos + 1))
           \/ BodyFails(SkipHandle(s, CutChunk, pos + 1, n))
  PROVE  rd' \in ReaderFields /\ rd'.err = "io" /\ pos' = pos + 1 /\ pos + 1 \in 0..Len(src)
PROOF
<1>1. BodyRead /\ pos' = pos + 1
  BY DEF BodyFails
<1>2. Chunk \in AnyChunk /\ pos + 1 \in 1..Len(src) /\ pos + 1 \in Nat
  BY <1>1, InputFacts DEF BodyRead
<1>3. CutChunk \in AnyChunk /\ Fits(CutChunk)
  <2>1. CutChunk \in AnyChunk /\ CutChunk.t = Chunk.t /\ CutChunk.bad = "cut"
    BY <1>2 DEF CutChunk, AnyChunk, Defects
  <2> QED
    BY <1>1, <2>1 DEF Fits, BodyRead
<1>4. HandleChunk(s, CutChunk, pos + 1) \in ReaderFields
  BY <1>2, <1>3, HandleAlive DEF Failing, LoadEffect, MetaEffect
<1>5. SkipHandle(s, CutChunk, pos + 1, n) \in ReaderFields
  BY <1>2, <1>3, SkipHandleAlive DEF Failing, LoadEffect, SkipEffect, MetaEffect
<1>6. PICK q \in ReaderFields : rd' = Err(q, "io")
  BY <1>4, <1>5 DEF BodyFails
<1>7. rd' \in ReaderFields /\ rd'.err = "io"
  BY <1>6, ErrParts DEF ReadErrors
<1> QED
  BY <1>1, <1>2, <1>7, InputFacts

----------------------------------------------------------------------------
(* The core of the invariant: the input, decoded and the offset fit together *)

\* What no step changes.
LEMMA Frame ==
  ASSUME SeekTypeOK, [SNext]_svars
  PROVE  src' = src /\ wrapped' = wrapped /\ index' = index /\ total' = total
PROOF
<1>1. BeginCall => UNCHANGED <<src, wrapped, index, total>>
  BY DEF BeginCall, seekVars
<1>2. SeekCall => UNCHANGED <<src, wrapped, index, total>>
  BY DEF SeekCall, BeginSeek
<1>3. OtherCall => UNCHANGED <<src, wrapped, index, total>>
  BY DEF OtherCall, Consume, Reset, DecodeConcurrent, seekVars
<1>4. Steps /\ UNCHANGED seekVars => UNCHANGED <<src, wrapped, index, total>>
  BY DEF Steps, Return, Copy, Borrow, FillChunk, FillEnd, FillFails, SkipDrain, SkipChunk,
         SkipEnd, SkipFails, seekVars
<1>5. SeekSteps => UNCHANGED <<src, wrapped, index, total>>
  BY DEF SeekSteps, SeekHeader, SeekFilled, SeekInBlock, SeekByIndex, SeekFails, SeekReturn,
         CopyAt, EndAt, seekVars
<1>6. UNCHANGED svars => UNCHANGED <<src, wrapped, index, total>>
  BY DEF svars, vars, seekVars
<1> QED
  BY <1>1, <1>2, <1>3, <1>4, <1>5, <1>6, StepCases

\* read, skip and fill_buf begin.
LEMMA CoreBegin ==
  ASSUME CoreInv, BeginCall
  PROVE  CoreInv'
PROOF
<1> USE DEF CoreInv
<1>1. PICK o \in {"read", "skip", "fillbuf"}, n \in Nat, p \in {"ret", "fill", "skip"} :
        /\ Begin(o, n, p)
        /\ p = "fill" => o # "skip"
        /\ p = "skip" => o = "skip"
        /\ p = "ret" => n = 0
        /\ wrapped => o = "read"
  BY DEF BeginCall
<1>2. UNCHANGED <<src, pos, rd, cur, base, wrapped, index, total, target>>
  BY DEF BeginCall, seekVars
<1>3. /\ pc = "idle" /\ op' = o /\ want' = n /\ buf' = <<>>
      /\ got' = [op |-> o, res |-> "ok", from |-> cur, n |-> n, bytes |-> <<>>]
      /\ failed' = (failed \/ Failed)
      /\ IF rd.err # "none" THEN pc' = "ret" /\ res' = rd.err ELSE pc' = p /\ res' = "ok"
  BY <1>1 DEF Begin, Refused
<1>4. SeekTypeOK'
  <2>1. got' \in CallRec
    BY <1>3 DEF SeekTypeOK, CallRec, Ops, Results
  <2>2. res' \in Results /\ pc' \in {"ret", "fill", "skip"}
    BY <1>1, <1>3 DEF SeekTypeOK, ReaderFields, Results
  <2>3. failed' \in BOOLEAN /\ op' \in Ops /\ want' \in Nat /\ buf' \in Seq(Byte)
    BY <1>3 DEF SeekTypeOK, Ops, Failed
  <2> QED
    BY <1>2, <2>1, <2>2, <2>3 DEF SeekTypeOK
<1>5. IndexInv'
  BY <1>2 DEF IndexInv
<1>6. LoopInv'
  <2>1. got'.op = o
    BY <1>3
  <2> QED
    BY <1>1, <1>2, <1>3, <2>1 DEF LoopInv, Working, SeekCalls, SeekTypeOK, ReaderFields, ReadErrors
<1>7. AlignInv'
  BY <1>2 DEF AlignInv, Alive
<1>8. TrackInv'
  <2>1. Stale => Stale'
    BY <1>1, <1>2, <1>3 DEF Stale
  <2> QED
    BY <1>2, <2>1 DEF TrackInv, Alive
<1> QED
  BY <1>4, <1>5, <1>6, <1>7, <1>8

\* A seek or read_at begins.
LEMMA CoreSeekCall ==
  ASSUME CoreInv, SeekCall
  PROVE  CoreInv'
PROOF
<1> USE DEF CoreInv
<1>1. PICK c \in {"seek", "readat"}, n \in Nat, o \in Int, e0 \in {"ok", "unsupported"} :
        BeginSeek(c, n, o, e0)
  BY DEF SeekCall
<1> DEFINE e == IF ~Forgiven THEN rd.err ELSE IF e0 # "ok" THEN e0 ELSE SeekCheck(o)
           to == IF e # "ok" /\ o < 0 THEN 0 ELSE o
<1>2. /\ wrapped /\ pc = "idle" /\ op' = c /\ want' = n /\ buf' = <<>>
      /\ rd' = IF Forgiven THEN [rd EXCEPT !.err = "none"] ELSE rd
      /\ res' = e /\ pc' = (IF e = "ok" THEN "find" ELSE "ret") /\ target' = to
      /\ got' = [op |-> c, res |-> "ok", from |-> to, n |-> n, bytes |-> <<>>]
      /\ failed' = ~Forgiven
      /\ UNCHANGED <<src, pos, cur, base, wrapped, index, total>>
  BY <1>1 DEF BeginSeek
<1>3. e \in Results /\ (e = "ok" => Forgiven /\ o >= 0)
  <2>1. SeekCheck(o) \in {"invalid", "ueof", "ok"} /\ (SeekCheck(o) = "ok" => o >= 0)
    BY DEF SeekCheck
  <2>2. rd.err \in ReadErrors \cup {"none"}
    BY DEF SeekTypeOK, ReaderFields
  <2> QED
    BY <2>1, <2>2 DEF Results, ReadErrors, Forgiven
<1>4. to \in Nat
  BY <1>3
<1> HIDE DEF e, to
<1>5. /\ rd' \in ReaderFields /\ rd'.start = rd.start /\ rd'.block = rd.block /\ rd'.at = rd.at
      /\ rd'.header = rd.header
      /\ Forgiven => rd'.err = "none"
      /\ ~Forgiven => rd'.err = rd.err
  <2>1. rd \in ReaderFields
    BY DEF SeekTypeOK
  <2>2. CASE Forgiven
    BY <1>2, <2>1, <2>2 DEF ReaderFields
  <2>3. CASE ~Forgiven
    BY <1>2, <2>1, <2>3
  <2> QED
    BY <2>2, <2>3
<1>6. SeekTypeOK'
  <2>1. got' \in CallRec
    BY <1>2, <1>4 DEF CallRec, Ops, Results, SeekCalls
  <2>2. failed' \in BOOLEAN /\ pc' \in {"find", "ret"} /\ op' \in SeekCalls /\ buf' \in Seq(Byte)
    BY <1>2 DEF SeekCalls
  <2> QED
    BY <1>2, <1>3, <1>4, <1>5, <2>1, <2>2 DEF SeekTypeOK
<1>7. IndexInv'
  BY <1>2 DEF IndexInv
<1>8. LoopInv'
  <2>1. got'.op = c
    BY <1>2
  <2>2. pc' = "find" => rd'.err = "none"
    BY <1>2, <1>3, <1>5
  <2>3. pc' = "find" \/ (pc' = "ret" /\ res' # "ok")
    BY <1>2
  <2> QED
    BY <1>2, <2>1, <2>2, <2>3 DEF LoopInv, Working, SeekCalls
<1>9. Alive' => Alive
  BY <1>5 DEF Alive, Forgiven
<1>10. AlignInv'
  <2>1. Aligned(src, pos, rd, cur) => Aligned(src, pos, rd', cur)
    BY <1>5, Zenon DEF Aligned
  <2> QED
    BY <1>2, <1>9, <2>1 DEF AlignInv
<1>11. TrackInv'
  <2>1. Stale => Stale'
    <3>1. pc' \in {"find", "ret"}
      BY <1>2
    <3> QED
      BY <1>2, <1>5, <3>1 DEF Stale
  <2> QED
    BY <1>2, <1>5, <1>9, <2>1 DEF TrackInv
<1> QED
  BY <1>6, <1>7, <1>8, <1>10, <1>11

\* consume, reset and decode_concurrent.
LEMMA CoreOther ==
  ASSUME CoreInv, OtherCall
  PROVE  CoreInv'
PROOF
<1> USE DEF CoreInv
<1>1. ~wrapped /\ UNCHANGED <<wrapped, index, total, target>>
  BY DEF OtherCall, seekVars
<1>t. rd \in ReaderFields /\ rd.at \in Nat /\ rd.block.len \in Nat /\ cur \in Nat
  BY DEF SeekTypeOK, ReaderFields
<1>2. ASSUME NEW n \in Nat, Consume(n)
      PROVE  CoreInv'
  <2> DEFINE k == IF rd.at <= rd.block.len /\ Avail < n THEN Avail ELSE n
  <2>1. /\ pc = "idle" /\ rd' = Moved(rd, k) /\ cur' = cur + k /\ got' = NoCall
        /\ failed' = (failed \/ Failed) /\ UNCHANGED <<src, pos, pc, op, want, res, buf, base>>
    BY <1>2 DEF Consume, Moved, callVars
  <2>2. k \in Nat /\ (rd.at <= rd.block.len => k <= rd.block.len - rd.at)
    BY <1>t DEF Avail
  <2> HIDE DEF k
  <2>3. /\ rd' \in ReaderFields /\ rd'.start = rd.start /\ rd'.at = rd.at + k
        /\ rd'.err = rd.err /\ rd'.header = rd.header
    BY <1>t, <2>1, <2>2, MovedParts
  <2>4. SeekTypeOK'
    <3>1. got' \in CallRec
      BY <2>1 DEF NoCall, CallRec, Ops, Results
    <3>2. failed' \in BOOLEAN /\ cur' \in Nat
      BY <1>t, <2>1, <2>2 DEF SeekTypeOK, Failed
    <3> QED
      BY <1>1, <2>1, <2>3, <3>1, <3>2 DEF SeekTypeOK
  <2>5. LoopInv' /\ IndexInv'
    BY <1>1, <2>1 DEF LoopInv, Working, IndexInv
  <2>6. AlignInv'
    <3>1. SUFFICES ASSUME Alive PROVE Aligned(src, pos, rd', cur')
      BY <2>1, <2>3 DEF AlignInv, Alive
    <3>2. Aligned(src, pos, rd, cur) /\ k <= rd.block.len - rd.at
      BY <2>2, <3>1 DEF AlignInv, Aligned
    <3> QED
      BY <1>t, <2>1, <2>2, <3>2, MoveAligned
  <2>7. TrackInv'
    <3>1. rd.start \in Nat /\ base \in Nat
      BY DEF SeekTypeOK, ReaderFields
    <3>2. rd.start + rd.at = cur - base => rd'.start + rd'.at = cur' - base'
      BY <1>t, <2>1, <2>2, <2>3, <3>1
    <3> QED
      BY <1>1, <2>3, <3>2 DEF TrackInv, Alive, Stale
  <2> QED
    BY <2>4, <2>5, <2>6, <2>7
<1>3. ASSUME Reset
      PROVE  CoreInv'
  <2>1. /\ pc = "idle" /\ pos' = 0 /\ rd' = Fresh /\ cur' = 0 /\ base' = 0 /\ got' = NoCall
        /\ failed' = FALSE /\ UNCHANGED <<src, pc, op, want, res, buf>>
    BY <1>3 DEF Reset, callVars
  <2>2. /\ Fresh \in ReaderFields /\ Fresh.start = 0 /\ Fresh.at = 0 /\ Fresh.block.len = 0
        /\ Fresh.err = "none"
    BY ReaderAssumption DEF Fresh, NoBlock, ReaderFields
  <2>3. SeekTypeOK'
    <3>1. got' \in CallRec
      BY <2>1 DEF NoCall, CallRec, Ops, Results
    <3>2. 0 \in 0..Len(src) /\ 0 \in Nat
      BY InputFacts
    <3> QED
      BY <1>1, <2>1, <2>2, <3>1, <3>2 DEF SeekTypeOK
  <2>4. LoopInv' /\ IndexInv'
    BY <1>1, <2>1 DEF LoopInv, Working, IndexInv
  <2>5. AlignInv'
    <3>1. Place(src, 0) = 0
      BY InputFacts, Places
    <3> QED
      BY <2>1, <2>2, <3>1 DEF AlignInv, Aligned
  <2>6. TrackInv'
    BY <1>1, <2>1, <2>2 DEF TrackInv
  <2> QED
    BY <2>3, <2>4, <2>5, <2>6
<1>4. ASSUME DecodeConcurrent
      PROVE  CoreInv'
  <2>1. pc = "idle" /\ UNCHANGED <<src, pos, rd, op, want, res, buf, cur, base>>
        /\ failed' = (failed \/ Failed) /\ pc' \in {"idle", "handed"}
    BY <1>4 DEF DecodeConcurrent, callVars
  <2>2. got' \in CallRec
    <3> DEFINE start == [rd EXCEPT !.start = 0, !.block = NoBlock, !.at = 0]
               run == RunFrom(src, start, pos)[Len(src)]
               end == AtEnd(run)
    <3>1. start \in ReaderFields /\ start.err = rd.err
      BY <1>t DEF ReaderFields, NoBlock
    <3>2. rd.err = "none" => run \in ReaderFields
      BY <3>1, InputFacts, RunTyped DEF SeekTypeOK
    <3> HIDE DEF start, run
    <3>3. rd.err = "none" => end \in ReaderFields
      <4>1. rd.err = "none" => Err(run, "corrupt") \in ReaderFields
        BY <3>2, ErrParts DEF ReadErrors
      <4> QED
        BY <3>2, <4>1 DEF AtEnd
    <3> DEFINE e == IF Unread THEN "invalid"
                    ELSE IF rd.err # "none" THEN rd.err
                    ELSE IF end.err = "none" THEN "ok" ELSE end.err
    <3> HIDE DEF end
    <3>4. e \in Results
      BY <1>t, <3>3 DEF Results, ReadErrors, ReaderFields
    <3>5. got' = [op |-> "concurrent", res |-> e, from |-> cur, n |-> 0, bytes |-> <<>>]
      BY <1>4 DEF DecodeConcurrent, end, run, start
    <3> HIDE DEF e
    <3> QED
      BY <1>t, <3>4, <3>5 DEF CallRec, Ops
  <2>3. SeekTypeOK'
    <3>1. failed' \in BOOLEAN
      BY <2>1 DEF SeekTypeOK, Failed
    <3> QED
      BY <1>1, <2>1, <2>2, <3>1 DEF SeekTypeOK
  <2>4. LoopInv' /\ IndexInv'
    BY <1>1, <2>1 DEF LoopInv, Working, IndexInv
  <2>5. AlignInv' /\ TrackInv'
    BY <1>1, <2>1 DEF AlignInv, TrackInv, Alive, Stale
  <2> QED
    BY <2>3, <2>4, <2>5
<1> QED
  BY <1>2, <1>3, <1>4 DEF OtherCall

\* Where the offset cannot be stale.
LEMMA OnTrack ==
  ASSUME CoreInv, rd.err = "none", Unread \/ pos = Len(src) \/ pc \in {"skip", "locate"}
  PROVE  Aligned(src, pos, rd, cur) /\ rd.start + rd.at = cur - base
PROOF
<1>1. Alive
  BY DEF Alive
<1>2. Aligned(src, pos, rd, cur)
  BY <1>1 DEF CoreInv, AlignInv
<1>3. pos = Len(src) => ~ \E k \in (pos + 1)..Len(src) : DataChunk(src[k])
  BY InputFacts DEF CoreInv
<1>4. Unread => rd.header
  <2>1. rd.at \in Nat /\ rd.block.len \in Nat
    BY InputFacts DEF CoreInv
  <2> QED
    BY <1>2, <2>1 DEF Aligned, Unread
<1>5. ~Stale
  BY <1>3, <1>4 DEF Stale
<1> QED
  BY <1>1, <1>2, <1>5 DEF CoreInv, TrackInv

\* Bytes of decoded are consumed.
LEMMA CoreMoved ==
  ASSUME CoreInv, rd.err = "none", Unread \/ pc = "skip", NEW k \in Nat, k <= Avail,
         rd' = Moved(rd, k), cur' = cur + k, UNCHANGED <<src, pos, base, wrapped>>
  PROVE  /\ rd' \in ReaderFields /\ cur' \in Nat /\ rd'.err = "none"
         /\ AlignInv' /\ TrackInv'
PROOF
<1>1. /\ rd \in ReaderFields /\ cur \in Nat /\ base \in Nat /\ rd.at \in Nat /\ rd.start \in Nat
      /\ rd.block.len \in Nat
  BY InputFacts DEF CoreInv, SeekTypeOK
<1>2. /\ rd' \in ReaderFields /\ rd'.start = rd.start /\ rd'.at = rd.at + k /\ rd'.err = rd.err
  BY <1>1, MovedParts
<1>3. Aligned(src, pos, rd, cur) /\ rd.start + rd.at = cur - base
  BY OnTrack
<1>4. k <= rd.block.len - rd.at
  BY DEF Avail
<1>5. Aligned(src, pos, rd', cur')
  BY <1>1, <1>3, <1>4, MoveAligned
<1>6. rd'.start + rd'.at = cur' - base'
  BY <1>1, <1>2, <1>3
<1> QED
  BY <1>1, <1>2, <1>5, <1>6 DEF AlignInv, TrackInv, CoreInv

\* Nothing but the call moves on.
LEMMA CoreStays ==
  ASSUME CoreInv, UNCHANGED <<src, pos, rd, cur, base, wrapped>>, Stale => Stale'
  PROVE  AlignInv' /\ TrackInv'
  BY DEF CoreInv, AlignInv, TrackInv, Alive

\* An identifier of the one stream of a seekable input.
LEMMA BaseAtStart ==
  ASSUME SingleStreams, CoreInv, wrapped, pos < Len(src), Chunk.t = "sid",
         NEW s \in ReaderFields, NEW c \in Nat, Aligned(src, pos, s, c), s.at = s.block.len
  PROVE  c = 0
PROOF
<1>1. src \in Seq(WireChunk) /\ pos \in 0..(Len(src) - 1)
  BY InputFacts DEF CoreInv, SeekTypeOK
<1>2. OneStream(src)
  BY DEF CoreInv, IndexInv, SingleStreams
<1>3. Place(src, pos) = 0
  BY <1>1, <1>2, SidAtStart DEF Chunk
<1>4. s.block.len \in Nat
  BY DEF ReaderFields
<1> QED
  BY <1>3, <1>4 DEF Aligned

\* A turn of fill_decoded's loop.
LEMMA CoreFillChunk ==
  ASSUME SingleStreams, CoreInv, FillChunk, UNCHANGED seekVars
  PROVE  CoreInv'
PROOF
<1> USE DEF CoreInv
<1>1. /\ FillOutcome
      /\ rd' \in ReaderFields /\ src' = src /\ pos' = pos + 1 /\ pos + 1 \in 1..Len(src)
      /\ cur' = cur /\ rd.err = "none" /\ rd.at = rd.block.len
      /\ Aligned(src, pos, rd, cur)
  BY FillChunkStep
<1>2. /\ pc = "fill" /\ pos < Len(src) /\ base' = BaseAfter(rd')
      /\ UNCHANGED <<op, want, buf, got, failed, wrapped, index, total, target>>
  BY DEF FillChunk, seekVars
<1>t. /\ rd \in ReaderFields /\ cur \in Nat /\ base \in Nat /\ rd.at \in Nat /\ rd.start \in Nat
      /\ rd.block.len \in Nat /\ pos \in Nat /\ Len(src) \in Nat
  BY InputFacts DEF SeekTypeOK
<1>3. base' \in Nat /\ (wrapped => base' = 0)
  <2>1. base' = cur \/ base' = base
    BY <1>1, <1>2 DEF BaseAfter
  <2>2. wrapped /\ Chunk.t = "sid" => cur = 0
    BY <1>1, <1>2, <1>t, BaseAtStart
  <2>3. Chunk.t # "sid" => base' = base
    BY <1>2 DEF BaseAfter
  <2> QED
    BY <1>t, <2>1, <2>2, <2>3 DEF TrackInv
<1>4. SeekTypeOK' /\ LoopInv'
  <2>1. /\ pc' \in {"fill", "ret"} /\ res' \in Results
        /\ pc' = "fill" => rd'.err = "none"
        /\ pc' = "ret" => res' # "ok"
    BY <1>1, <1>t DEF FillOutcome, Failing, ChunkErrors, LoadEffect, MetaEffect, Results,
                      ReadErrors, SeekTypeOK
  <2>2. SeekTypeOK'
    BY <1>1, <1>2, <1>3, <2>1 DEF SeekTypeOK
  <2>3. LoopInv'
    BY <1>1, <1>2, <2>1 DEF LoopInv, Working
  <2> QED
    BY <2>2, <2>3
<1>5. IndexInv'
  BY <1>1, <1>2 DEF IndexInv
<1>6. CASE Failing(rd')
  <2>1. ~Alive'
    BY <1>6 DEF Failing, ChunkErrors, Alive
  <2> QED
    BY <1>2, <1>3, <1>4, <1>5, <2>1 DEF AlignInv, TrackInv
<1>7. CASE ~Failing(rd')
  <2>1. Aligned(src, pos + 1, rd', cur)
    BY <1>1, <1>7 DEF FillOutcome
  <2>2. AlignInv'
    BY <1>1, <2>1 DEF AlignInv
  <2>3. rd.start + rd.at = cur - base \/ Stale
    BY <1>1 DEF TrackInv, Alive
  <2>4. rd'.start + rd'.at = cur' - base' \/ Stale'
    <3>1. CASE Chunk.t = "stub" /\ rd' = rd /\ pos + 1 = Len(src)
      <4>1. base' = base
        BY <1>2, <3>1 DEF BaseAfter
      <4>2. ~Stale
        <5>1. \A k \in (pos + 1)..Len(src) : k = pos + 1
          BY <1>t, <3>1
        <5>2. ~DataChunk(src[pos + 1])
          BY <3>1 DEF DataChunk, Chunk
        <5> QED
          BY <5>1, <5>2 DEF Stale
      <4> QED
        BY <1>1, <2>3, <3>1, <4>1, <4>2
    <3>2. CASE DataChunk(Chunk) /\ LoadEffect(rd, Chunk, pos + 1, 0, rd')
      <4>1. base' = base
        BY <1>2, <3>2 DEF BaseAfter, DataChunk
      <4>2. ~Stale
        BY <3>2 DEF Stale, LoadEffect
      <4>3. rd'.start = rd.start + rd.block.len /\ rd'.at = 0
        BY <3>2 DEF LoadEffect
      <4> QED
        BY <1>1, <1>t, <2>3, <4>1, <4>2, <4>3
    <3>3. CASE ~DataChunk(Chunk) /\ MetaEffect(rd, Chunk, rd') /\ Chunk.t = "sid"
      <4>1. base' = cur /\ rd'.start = 0 /\ rd'.at = 0
        BY <1>1, <1>2, <3>3 DEF BaseAfter, MetaEffect
      <4> QED
        BY <1>1, <1>t, <4>1
    <3>4. CASE ~DataChunk(Chunk) /\ MetaEffect(rd, Chunk, rd') /\ Chunk.t # "sid" /\ pc' = "fill"
      <4>1. base' = base /\ rd'.start = rd.start /\ rd'.at = rd.at /\ (rd'.header => rd.header)
        BY <1>2, <3>4 DEF BaseAfter, MetaEffect
      <4>2. Stale => Stale'
        <5>1. ASSUME NEW k \in (pos + 1)..Len(src), DataChunk(src[k])
              PROVE  k \in (pos' + 1)..Len(src)
          <6>1. k # pos + 1
            BY <3>4, <5>1 DEF Chunk
          <6> QED
            BY <1>1, <1>t, <6>1
        <5> QED
          BY <1>1, <1>2, <3>4, <4>1, <5>1 DEF Stale
      <4> QED
        BY <1>1, <2>3, <4>1, <4>2
    <3> QED
      BY <1>1, <1>7, <3>1, <3>2, <3>3, <3>4 DEF FillOutcome
  <2> QED
    BY <1>2, <1>3, <1>4, <1>5, <2>2, <2>4 DEF TrackInv
<1> QED
  BY <1>6, <1>7

\* The other steps of read and fill_buf.
LEMMA CoreFill ==
  ASSUME CoreInv, Return \/ Copy \/ Borrow \/ FillEnd \/ FillFails, UNCHANGED seekVars
  PROVE  CoreInv'
PROOF
<1> USE DEF CoreInv
<1>0. UNCHANGED <<wrapped, index, total, target>>
  BY DEF seekVars
<1>t. /\ rd \in ReaderFields /\ cur \in Nat /\ rd.at \in Nat /\ rd.block.len \in Nat
      /\ want \in Nat
  BY InputFacts DEF SeekTypeOK
<1>1. CASE Return
  <2>1. /\ pc = "ret" /\ pc' = "idle" /\ got' = [got EXCEPT !.res = res, !.bytes = buf]
        /\ UNCHANGED <<src, pos, rd, op, want, res, buf, cur, base, failed>>
    BY <1>1 DEF Return, callVars
  <2>2. got' \in CallRec
    BY <2>1 DEF SeekTypeOK, CallRec
  <2>3. SeekTypeOK' /\ IndexInv' /\ LoopInv'
    BY <1>0, <2>1, <2>2 DEF SeekTypeOK, IndexInv, LoopInv, Working
  <2>4. Stale => Stale'
    BY <1>0, <2>1 DEF Stale
  <2> QED
    BY <1>0, <2>1, <2>3, <2>4, CoreStays
<1>2. CASE Copy
  <2> DEFINE k == Len(Slice(want))
  <2>1. /\ pc = "fill" /\ op = "read" /\ Unread /\ buf' = Slice(want)
        /\ rd' = Moved(rd, k) /\ cur' = cur + k /\ pc' = "ret" /\ res' = "ok"
        /\ UNCHANGED <<src, pos, op, want, base, got, failed>>
    BY <1>2 DEF Copy, End, Moved
  <2>2. rd.err = "none"
    BY <2>1 DEF LoopInv, Working
  <2>3. Avail \in Nat
    BY <1>t, <2>1 DEF Unread, Avail
  <2>4. Slice(want) \in Seq(Byte) /\ k \in Nat /\ k <= Avail
    BY <1>t, <2>3, SliceType
  <2> HIDE DEF k
  <2>5. rd' \in ReaderFields /\ cur' \in Nat /\ rd'.err = "none" /\ AlignInv' /\ TrackInv'
    BY <1>0, <2>1, <2>2, <2>4, CoreMoved
  <2>6. SeekTypeOK' /\ IndexInv' /\ LoopInv'
    BY <1>0, <2>1, <2>4, <2>5 DEF SeekTypeOK, IndexInv, LoopInv, Working, Results
  <2> QED
    BY <2>5, <2>6
<1>3. CASE Borrow
  <2>1. /\ pc = "fill" /\ op = "fillbuf" /\ Unread /\ buf' = Slice(Avail)
        /\ pc' = "ret" /\ res' = "ok"
        /\ UNCHANGED <<src, pos, rd, op, want, cur, base, got, failed>>
    BY <1>3 DEF Borrow, End
  <2>2. rd.err = "none"
    BY <2>1 DEF LoopInv, Working
  <2>3. Avail \in Nat
    BY <1>t, <2>1 DEF Unread, Avail
  <2>4. Slice(Avail) \in Seq(Byte)
    BY <2>3, SliceType
  <2>5. SeekTypeOK' /\ IndexInv' /\ LoopInv'
    BY <1>0, <2>1, <2>2, <2>4 DEF SeekTypeOK, IndexInv, LoopInv, Working, Results
  <2>6. Aligned(src, pos, rd, cur) /\ rd.start + rd.at = cur - base
    BY <2>1, <2>2, OnTrack
  <2>7. AlignInv' /\ TrackInv'
    BY <1>0, <2>1, <2>6 DEF AlignInv, TrackInv
  <2> QED
    BY <2>5, <2>7
<1>4. CASE FillEnd
  <2>1. /\ pc = "fill" /\ pos = Len(src) /\ pc' = "ret" /\ res' = EofResult
        /\ UNCHANGED <<src, pos, rd, op, want, buf, cur, base, got, failed>>
    BY <1>4 DEF FillEnd, End
  <2>2. rd.err = "none"
    BY <2>1 DEF LoopInv, Working
  <2>3. EofResult \in Results
    BY DEF EofResult, Results, ReadErrors
  <2>4. SeekTypeOK' /\ IndexInv' /\ LoopInv'
    BY <1>0, <2>1, <2>2, <2>3 DEF SeekTypeOK, IndexInv, LoopInv, Working
  <2>6. Aligned(src, pos, rd, cur) /\ rd.start + rd.at = cur - base
    BY <2>1, <2>2, OnTrack
  <2>7. AlignInv' /\ TrackInv'
    BY <1>0, <2>1, <2>6 DEF AlignInv, TrackInv
  <2> QED
    BY <2>4, <2>7
<1>5. CASE FillFails
  <2>1. /\ src \in Flaky /\ pc = "fill" /\ pc' = "ret" /\ res' = "io"
        /\ UNCHANGED <<src, op, want, buf, cur, base, got, failed>>
        /\ UNCHANGED <<pos, rd>> \/ BodyFails(HandleChunk(rd, CutChunk, pos + 1))
    BY <1>5 DEF FillFails, End
  <2>2. rd.err = "none" /\ "io" \in Results
    BY <2>1 DEF LoopInv, Working, Results, ReadErrors
  <2>3. CASE UNCHANGED <<pos, rd>>
    <3>1. SeekTypeOK' /\ IndexInv' /\ LoopInv'
      BY <1>0, <2>1, <2>2, <2>3 DEF SeekTypeOK, IndexInv, LoopInv, Working
    <3>2. Stale => Stale'
      BY <1>0, <2>1, <2>3 DEF Stale
    <3> QED
      BY <1>0, <2>1, <2>3, <3>1, <3>2, CoreStays
  <2>4. CASE BodyFails(HandleChunk(rd, CutChunk, pos + 1))
    <3> DEFINE z == 0
    <3>1. z \in Nat /\ (BodyFails(HandleChunk(rd, CutChunk, pos + 1))
                           \/ BodyFails(SkipHandle(rd, CutChunk, pos + 1, z)))
      BY <2>4
    <3> HIDE DEF z
    <3>2. rd' \in ReaderFields /\ rd'.err = "io" /\ pos' = pos + 1 /\ pos + 1 \in 0..Len(src)
      BY <1>t, <2>2, <3>1, BodyFailsStep
    <3>3. SeekTypeOK' /\ IndexInv' /\ LoopInv'
      BY <1>0, <2>1, <2>2, <3>2 DEF SeekTypeOK, IndexInv, LoopInv, Working
    <3>4. AlignInv' /\ TrackInv'
      BY <1>0, <2>1, <3>2 DEF AlignInv, TrackInv, Alive
    <3> QED
      BY <3>3, <3>4
  <2> QED
    BY <2>1, <2>3, <2>4
<1> QED
  BY <1>1, <1>2, <1>3, <1>4, <1>5

\* After a turn of skip's loop the offset is that of the stream.
LEMMA SkipChunkTrack ==
  ASSUME SingleStreams, CoreInv, SkipChunk, UNCHANGED seekVars
  PROVE  /\ pc' \in {"skip", "ret"} /\ res' \in Results /\ want' \in Nat /\ cur' \in Nat
         /\ pc' = "skip" => rd'.err = "none"
         /\ pc' = "ret" /\ res' = "ok" => rd'.err = "none"
         /\ base' \in Nat /\ (wrapped => base' = 0)
         /\ Alive' => Aligned(src, pos + 1, rd', cur') /\ rd'.start + rd'.at = cur' - base'
PROOF
<1> USE DEF CoreInv
<1> DEFINE n == want - Avail
           at == cur + Avail
<1>1. /\ SkipOutcome(n, at)
      /\ n \in Nat \ {0} /\ Avail \in Nat
      /\ rd' \in ReaderFields /\ src' = src /\ pos' = pos + 1 /\ pos + 1 \in 1..Len(src)
      /\ rd.err = "none" /\ Aligned(src, pos, rd, cur)
      /\ Aligned(src, pos, Drained, at) /\ Drained.at = Drained.block.len
  BY SkipChunkStep
<1>2. /\ pc = "skip" /\ pos < Len(src) /\ base' = BaseAfter(rd')
      /\ UNCHANGED <<op, buf, got, failed, wrapped, index, total, target>>
  BY DEF SkipChunk, seekVars
<1>t. /\ rd \in ReaderFields /\ cur \in Nat /\ base \in Nat /\ rd.at \in Nat /\ rd.start \in Nat
      /\ rd.block.len \in Nat /\ pos \in Nat /\ Len(src) \in Nat /\ Chunk.n \in Nat
      /\ at \in Nat
  BY <1>1, <1>2, InputFacts DEF SeekTypeOK
<1>d. /\ Drained \in ReaderFields /\ Drained.start = rd.start /\ Drained.block = rd.block
      /\ Drained.at = rd.block.len /\ Drained.err = rd.err
  BY <1>1, DrainAligned
<1>k. rd.start + rd.block.len = at - base
  <2>1. rd.start + rd.at = cur - base
    BY <1>1, <1>2, OnTrack
  <2> QED
    BY <1>t, <2>1 DEF Avail
<1>0. wrapped => base = 0
  BY DEF TrackInv
<1>s. wrapped /\ Chunk.t = "sid" => at = 0
  BY <1>1, <1>2, <1>t, <1>d, BaseAtStart
<1> HIDE DEF n, at
<1>3. /\ pc' \in {"skip", "ret"} /\ res' \in Results /\ want' \in Nat /\ cur' \in Nat
      /\ pc' = "skip" => rd'.err = "none"
      /\ pc' = "ret" /\ res' = "ok" => rd'.err = "none"
      /\ base' \in Nat /\ (wrapped => base' = 0)
      /\ Alive' => Aligned(src, pos + 1, rd', cur') /\ rd'.start + rd'.at = cur' - base'
  <2>b. /\ Chunk.t = "sid" /\ rd'.err = "none" => base' = cur'
        /\ ~(Chunk.t = "sid" /\ rd'.err = "none") => base' = base
    BY <1>2 DEF BaseAfter
  <2>r. res \in Results /\ "ok" \in Results /\ "corrupt" \in Results
    BY DEF SeekTypeOK, Results, ReadErrors
  <2>1. CASE Failing(rd') /\ pc' = "ret" /\ res' = rd'.err /\ cur' = at /\ want' = n
    <3>1. rd'.err # "none" /\ rd'.err \in Results /\ rd'.err # "ok" /\ ~Alive'
      BY <2>1 DEF Failing, ChunkErrors, Alive, Results, ReadErrors
    <3> QED
      BY <1>0, <1>1, <1>t, <2>1, <2>b, <3>1
  <2>2. CASE /\ Chunk.t = "stub" /\ rd' = Drained /\ pc' = "ret" /\ res' = "corrupt"
             /\ cur' = at /\ want' = n /\ Aligned(src, pos + 1, rd', cur')
    <3>1. base' = base /\ rd'.start = rd.start /\ rd'.at = rd.block.len
      BY <1>d, <2>2, <2>b
    <3> QED
      BY <1>0, <1>1, <1>k, <1>t, <2>2, <2>r, <3>1
  <2>3. CASE /\ DataChunk(Chunk) /\ Chunk.n <= n /\ SkipEffect(Drained, Chunk, rd')
             /\ cur' = at + Chunk.n /\ want' = n - Chunk.n
             /\ IF want' = 0 THEN pc' = "ret" /\ res' = "ok" ELSE pc' = "skip" /\ res' = res
             /\ Aligned(src, pos + 1, rd', cur')
    <3>1. base' = base
      BY <2>3, <2>b DEF DataChunk
    <3>2. /\ rd'.err = "none" /\ rd'.start = rd.start + rd.block.len + Chunk.n /\ rd'.at = 0
      BY <1>d, <2>3 DEF SkipEffect
    <3>3. want' \in Nat /\ cur' \in Nat /\ rd'.start + rd'.at = cur' - base'
      <4>1. want' = n - Chunk.n /\ cur' = at + Chunk.n /\ Chunk.n <= n
        BY <2>3
      <4>2. n \in Nat
        BY <1>1
      <4> QED
        <5>1. want' \in Nat /\ cur' \in Nat
          BY <1>t, <4>1, <4>2
        <5>2. rd'.start + rd'.at = (rd.start + rd.block.len) + Chunk.n
          BY <1>t, <3>2
        <5>3. cur' - base' = (at - base) + Chunk.n
          BY <1>t, <3>1, <4>1
        <5> QED
          BY <1>k, <5>1, <5>2, <5>3
    <3>4. pc' \in {"skip", "ret"} /\ res' \in Results
      BY <2>3, <2>r
    <3> QED
      BY <1>0, <1>t, <2>3, <3>1, <3>2, <3>3, <3>4
  <2>4. CASE /\ DataChunk(Chunk) /\ Chunk.n > n /\ LoadEffect(Drained, Chunk, pos + 1, n, rd')
             /\ cur' = at + n /\ want' = 0 /\ pc' = "ret" /\ res' = "ok"
             /\ Aligned(src, pos + 1, rd', cur')
    <3>1. base' = base
      BY <2>4, <2>b DEF DataChunk
    <3>2. /\ rd'.err = "none" /\ rd'.start = rd.start + rd.block.len /\ rd'.at = n
      BY <1>d, <2>4 DEF LoadEffect
    <3>3. want' \in Nat /\ cur' \in Nat /\ rd'.start + rd'.at = cur' - base'
      BY <1>1, <1>k, <1>t, <2>4, <3>1, <3>2
    <3> QED
      BY <1>0, <1>t, <2>4, <2>r, <3>1, <3>2, <3>3
  <2>5. CASE /\ ~DataChunk(Chunk) /\ Chunk.t # "stub" /\ MetaEffect(Drained, Chunk, rd')
             /\ cur' = at /\ want' = n /\ pc' = "skip" /\ res' = res
             /\ Aligned(src, pos + 1, rd', cur')
    <3>1. rd'.err = "none"
      BY <2>5 DEF MetaEffect
    <3>2. CASE Chunk.t = "sid"
      <4>1. rd'.start = 0 /\ rd'.at = 0 /\ base' = at
        BY <2>5, <2>b, <3>1, <3>2 DEF MetaEffect
      <4> QED
        BY <1>1, <1>s, <1>t, <2>5, <2>r, <3>1, <3>2, <4>1
    <3>3. CASE Chunk.t # "sid"
      <4>1. rd'.start = rd.start /\ rd'.at = rd.block.len /\ base' = base
        BY <1>d, <2>5, <2>b, <3>1, <3>3 DEF MetaEffect
      <4> QED
        BY <1>0, <1>1, <1>k, <1>t, <2>5, <2>r, <3>1, <4>1
    <3> QED
      BY <3>2, <3>3
  <2> QED
    BY <1>1, <2>1, <2>2, <2>3, <2>4, <2>5 DEF SkipOutcome
<1> QED
  BY <1>3

\* A turn of skip's loop.
LEMMA CoreSkipChunk ==
  ASSUME SingleStreams, CoreInv, SkipChunk, UNCHANGED seekVars
  PROVE  CoreInv'
PROOF
<1> USE DEF CoreInv
<1>1. rd' \in ReaderFields /\ src' = src /\ pos' = pos + 1 /\ pos + 1 \in 1..Len(src)
  BY SkipChunkStep
<1>2. pc = "skip" /\ UNCHANGED <<op, buf, got, failed, wrapped, index, total, target>>
  BY DEF SkipChunk, seekVars
<1>3. /\ pc' \in {"skip", "ret"} /\ res' \in Results /\ want' \in Nat /\ cur' \in Nat
      /\ pc' = "skip" => rd'.err = "none"
      /\ pc' = "ret" /\ res' = "ok" => rd'.err = "none"
      /\ base' \in Nat /\ (wrapped => base' = 0)
      /\ Alive' => Aligned(src, pos + 1, rd', cur') /\ rd'.start + rd'.at = cur' - base'
  BY SkipChunkTrack
<1>4. SeekTypeOK' /\ IndexInv'
  BY <1>1, <1>2, <1>3 DEF SeekTypeOK, IndexInv
<1>5. LoopInv'
  BY <1>1, <1>2, <1>3 DEF LoopInv, Working
<1>6. AlignInv' /\ TrackInv'
  BY <1>1, <1>2, <1>3 DEF AlignInv, TrackInv
<1> QED
  BY <1>4, <1>5, <1>6

\* The other steps of skip.
LEMMA CoreSkip ==
  ASSUME CoreInv, SkipDrain \/ SkipEnd \/ SkipFails, UNCHANGED seekVars
  PROVE  CoreInv'
PROOF
<1> USE DEF CoreInv
<1>0. UNCHANGED <<wrapped, index, total, target>>
  BY DEF seekVars
<1>1. /\ pc = "skip" /\ pc' = "ret" /\ res' \in Results
      /\ UNCHANGED <<src, op, buf, base, got, failed>>
  BY DEF SkipDrain, SkipEnd, SkipFails, End, Results, ReadErrors
<1>2. rd.err = "none" /\ Aligned(src, pos, rd, cur) /\ rd.start + rd.at = cur - base
  <2>1. rd.err = "none"
    BY <1>1 DEF LoopInv, Working
  <2> QED
    BY <1>1, <2>1, OnTrack
<1>t. /\ rd \in ReaderFields /\ cur \in Nat /\ base \in Nat /\ rd.at \in Nat /\ rd.start \in Nat
      /\ rd.block.len \in Nat /\ want \in Nat
  BY InputFacts DEF SeekTypeOK
<1>d. /\ Avail \in Nat /\ Drained \in ReaderFields /\ Drained.start = rd.start
      /\ Drained.at = rd.block.len /\ Drained.err = rd.err
      /\ Aligned(src, pos, Drained, cur + Avail)
  BY <1>2, DrainAligned
<1>k. rd.start + rd.block.len = (cur + Avail) - base
  BY <1>2, <1>t DEF Avail
<1>3. CASE SkipDrain
  <2>1. /\ want <= Avail /\ rd' = Moved(rd, want) /\ cur' = cur + want /\ res' = "ok"
        /\ UNCHANGED <<pos, want>>
    BY <1>3, <1>d, <1>t DEF SkipDrain, SkipInBuffer, Moved, End
  <2>2. rd' \in ReaderFields /\ cur' \in Nat /\ rd'.err = "none" /\ AlignInv' /\ TrackInv'
    BY <1>0, <1>1, <1>2, <1>t, <2>1, CoreMoved
  <2>3. SeekTypeOK' /\ IndexInv' /\ LoopInv'
    BY <1>0, <1>1, <2>1, <2>2 DEF SeekTypeOK, IndexInv, LoopInv, Working
  <2> QED
    BY <2>2, <2>3
<1>4. ASSUME want' = want - Avail, cur' = cur + Avail, ~SkipInBuffer, pos' \in 0..Len(src), res' # "ok",
             \/ pos' = pos /\ (rd' = Drained \/ rd' = Err(Drained, "ueof"))
             \/ rd' \in ReaderFields /\ rd'.err = "io"
      PROVE  CoreInv'
  <2>1. want' \in Nat /\ cur' \in Nat
    BY <1>4, <1>d, <1>t DEF SkipInBuffer
  <2>2. /\ Err(Drained, "ueof") \in ReaderFields
        /\ Err(Drained, "ueof").start = Drained.start /\ Err(Drained, "ueof").at = Drained.at
        /\ Err(Drained, "ueof").block = Drained.block
        /\ Err(Drained, "ueof").header = Drained.header
    BY <1>d, ErrParts DEF ReadErrors
  <2>3. Aligned(src, pos, Err(Drained, "ueof"), cur + Avail)
    BY <1>d, <2>2, Zenon DEF Aligned
  <2>4. rd' \in ReaderFields
    BY <1>4, <1>d, <2>2
  <2>5. SeekTypeOK' /\ IndexInv' /\ LoopInv'
    BY <1>0, <1>1, <1>4, <2>1, <2>4 DEF SeekTypeOK, IndexInv, LoopInv, Working
  <2>6. AlignInv'
    BY <1>1, <1>4, <1>d, <2>3 DEF AlignInv, Alive
  <2>7. rd'.err # "io" => rd'.start + rd'.at = cur' - base'
    BY <1>1, <1>4, <1>d, <1>k, <2>2
  <2>8. TrackInv'
    BY <1>0, <1>1, <2>7 DEF TrackInv, Alive
  <2> QED
    BY <2>5, <2>6, <2>8
<1>5. CASE SkipEnd
  <2>1. /\ want' = want - Avail /\ cur' = cur + Avail /\ ~SkipInBuffer /\ pos' = pos
        /\ rd' = Drained \/ rd' = Err(Drained, "ueof")
        /\ res' # "ok"
    BY <1>5 DEF SkipEnd, End
  <2>2. pos \in 0..Len(src)
    BY DEF SeekTypeOK
  <2> QED
    BY <1>4, <2>1, <2>2
<1>6. CASE SkipFails
  <2>1. /\ want' = want - Avail /\ cur' = cur + Avail /\ ~SkipInBuffer /\ res' = "io"
        /\ \/ rd' = Drained /\ pos' = pos
           \/ BodyFails(SkipHandle(Drained, CutChunk, pos + 1, want - Avail))
    BY <1>6 DEF SkipFails, End
  <2>2. want - Avail \in Nat
    BY <1>d, <1>t, <2>1 DEF SkipInBuffer
  <2>3. BodyFails(SkipHandle(Drained, CutChunk, pos + 1, want - Avail)) =>
          rd' \in ReaderFields /\ rd'.err = "io" /\ pos' \in 0..Len(src)
    BY <1>2, <1>d, <2>2, BodyFailsStep
  <2>4. pos \in 0..Len(src)
    BY DEF SeekTypeOK
  <2> QED
    BY <1>4, <2>1, <2>3, <2>4
<1> QED
  BY <1>3, <1>5, <1>6

\* The steps of a seek that stay where they are, and read_at's.
LEMMA CoreSeekStays ==
  ASSUME CoreInv, SeekFilled \/ SeekFails \/ SeekReturn \/ CopyAt \/ EndAt
  PROVE  CoreInv'
PROOF
<1> USE DEF CoreInv
<1>0. UNCHANGED <<src, pos, base, failed, wrapped, index, total, target>>
  BY DEF SeekFilled, SeekFails, SeekReturn, CopyAt, EndAt, seekVars
<1>t. /\ rd \in ReaderFields /\ cur \in Nat /\ rd.at \in Nat /\ rd.block.len \in Nat
      /\ want \in Nat /\ buf \in Seq(Byte) /\ res \in Results /\ got \in CallRec
  BY InputFacts DEF SeekTypeOK
<1>1. CASE SeekFilled
  <2>1. /\ pc = "fill" /\ op \in {"seek", "readat"} /\ (Unread \/ pos = Len(src))
        /\ (pc' = "ret" /\ res' = "corrupt") \/ (pc' = "locate" /\ res' = res)
        /\ UNCHANGED <<rd, op, want, buf, cur, got>>
    BY <1>1 DEF SeekFilled, End
  <2>2. rd.err = "none"
    BY <2>1 DEF LoopInv, Working
  <2>3. SeekTypeOK' /\ IndexInv' /\ LoopInv'
    BY <1>0, <2>1, <2>2 DEF SeekTypeOK, IndexInv, LoopInv, Working, Results, ReadErrors
  <2>4. Aligned(src, pos, rd, cur) /\ rd.start + rd.at = cur - base
    BY <2>1, <2>2, OnTrack
  <2>5. AlignInv' /\ TrackInv'
    BY <1>0, <2>1, <2>4 DEF AlignInv, TrackInv
  <2> QED
    BY <2>3, <2>5
<1>2. CASE SeekReturn
  <2>1. pc = "ret" /\ op \in {"seek", "readat", "fillat"} /\ UNCHANGED <<rd, res, buf, cur>>
    BY <1>2 DEF SeekReturn
  <2>2. CASE op = "readat" /\ res = "ok" /\ got.n > 0
    <3>1. op' = "fillat" /\ want' = got.n /\ pc' = "fill" /\ got' = got
      BY <1>2, <2>2 DEF SeekReturn
    <3>2. rd.err = "none" /\ got.op = "readat" /\ wrapped
      BY <2>1, <2>2 DEF LoopInv, SeekCalls
    <3>3. got.n \in Nat
      BY <1>t DEF CallRec
    <3>4. SeekTypeOK' /\ IndexInv' /\ LoopInv'
      BY <1>0, <2>1, <3>1, <3>2, <3>3 DEF SeekTypeOK, IndexInv, LoopInv, Working, SeekCalls
    <3>5. Stale => Stale'
      BY <1>0, <2>1, <3>1 DEF Stale
    <3> QED
      BY <1>0, <2>1, <3>4, <3>5, CoreStays
  <2>3. CASE ~(op = "readat" /\ res = "ok" /\ got.n > 0)
    <3> DEFINE b == IF res \in ReadErrors THEN <<>> ELSE buf
    <3>1. pc' = "idle" /\ got' = [got EXCEPT !.res = res, !.bytes = b] /\ UNCHANGED <<op, want>>
      BY <1>2, <2>3 DEF SeekReturn
    <3>2. b \in Seq(Byte)
      BY <1>t
    <3> HIDE DEF b
    <3>3. got' \in CallRec
      BY <1>t, <3>1, <3>2 DEF CallRec
    <3>4. SeekTypeOK' /\ IndexInv' /\ LoopInv'
      BY <1>0, <2>1, <3>1, <3>3 DEF SeekTypeOK, IndexInv, LoopInv, Working
    <3>5. Stale => Stale'
      BY <1>0, <2>1, <3>1 DEF Stale
    <3> QED
      BY <1>0, <2>1, <3>4, <3>5, CoreStays
  <2> QED
    BY <2>2, <2>3
<1>3. CASE CopyAt
  <2> DEFINE k == Len(Slice(want))
  <2>1. /\ pc = "fill" /\ op = "fillat" /\ Unread /\ buf' = buf \o Slice(want)
        /\ rd' = Moved(rd, k) /\ cur' = cur + k /\ want' = want - k
        /\ (pc' = "ret" /\ res' = "ok") \/ (pc' = "fill" /\ res' = res)
        /\ UNCHANGED <<op, got>>
    BY <1>3 DEF CopyAt, End, Moved
  <2>2. rd.err = "none"
    BY <2>1 DEF LoopInv, Working
  <2>3. Avail \in Nat
    BY <1>t, <2>1 DEF Unread, Avail
  <2>4. Slice(want) \in Seq(Byte) /\ k \in Nat /\ k <= Avail /\ k <= want
    <3>1. Slice(want) \in Seq(Byte) /\ k = IF Avail < want THEN Avail ELSE want
      BY <1>t, <2>3, SliceType
    <3> HIDE DEF k
    <3> QED
      BY <1>t, <2>3, <3>1
  <2> HIDE DEF k
  <2>5. rd' \in ReaderFields /\ cur' \in Nat /\ rd'.err = "none" /\ AlignInv' /\ TrackInv'
    BY <1>0, <2>1, <2>2, <2>4, CoreMoved
  <2>6. want' \in Nat /\ buf' \in Seq(Byte)
    BY <1>t, <2>1, <2>4
  <2>7. SeekTypeOK' /\ IndexInv' /\ LoopInv'
    BY <1>0, <2>1, <2>5, <2>6 DEF SeekTypeOK, IndexInv, LoopInv, Working, Results
  <2> QED
    BY <2>5, <2>7
<1>4. CASE EndAt
  <2>1. /\ pc = "fill" /\ pos = Len(src) /\ pc' = "ret" /\ res' = EofResult
        /\ UNCHANGED <<rd, op, want, buf, cur, got>>
    BY <1>4 DEF EndAt, End
  <2>2. rd.err = "none" /\ EofResult \in Results
    BY <2>1 DEF LoopInv, Working, EofResult, Results, ReadErrors
  <2>3. SeekTypeOK' /\ IndexInv' /\ LoopInv'
    BY <1>0, <2>1, <2>2 DEF SeekTypeOK, IndexInv, LoopInv, Working
  <2>4. Aligned(src, pos, rd, cur) /\ rd.start + rd.at = cur - base
    BY <2>1, <2>2, OnTrack
  <2>5. AlignInv' /\ TrackInv'
    BY <1>0, <2>1, <2>4 DEF AlignInv, TrackInv
  <2> QED
    BY <2>3, <2>5
<1>5. CASE SeekFails
  <2>1. /\ src \in Flaky
        /\ (pc = "find" /\ ~rd.header) \/ AtLocate
        /\ pc' = "ret" /\ res' = "io"
        /\ UNCHANGED <<rd, op, want, buf, cur, got>>
    BY <1>5 DEF SeekFails, End
  <2>2. rd.err = "none"
    BY <2>1 DEF LoopInv, Working, AtLocate
  <2>3. SeekTypeOK' /\ IndexInv' /\ LoopInv'
    BY <1>0, <2>1, <2>2 DEF SeekTypeOK, IndexInv, LoopInv, Working, Results, ReadErrors,
                            AtLocate
  <2>4. Stale => Stale'
    BY <1>0, <2>1 DEF Stale
  <2> QED
    BY <1>0, <2>1, <2>3, <2>4, CoreStays
<1> QED
  BY <1>1, <1>2, <1>3, <1>4, <1>5

\* A seek in its last step: the offset is that of the stream, and if the target is in
\* decoded the stream has not ended.
LEMMA AtLocateTrack ==
  ASSUME CoreInv, AtLocate
  PROVE  /\ rd.err = "none" /\ wrapped /\ op \in {"seek", "readat"}
         /\ Aligned(src, pos, rd, cur) /\ rd.start + rd.at = cur
         /\ InBlock => rd.header
PROOF
<1> USE DEF CoreInv
<1>t. /\ rd \in ReaderFields /\ cur \in Nat /\ rd.at \in Nat /\ rd.block.len \in Nat
      /\ rd.start \in Nat /\ target \in Nat
  BY InputFacts DEF SeekTypeOK
<1>1. rd.err = "none" /\ op \in {"seek", "readat"} /\ wrapped
  BY DEF AtLocate, LoopInv, Working, SeekCalls
<1>2. Aligned(src, pos, rd, cur)
  BY <1>1 DEF AlignInv, Alive
<1>3. rd.start + rd.at = cur
  <2>1. ~Stale
    BY DEF Stale, AtLocate
  <2>2. rd.start + rd.at = cur - base /\ base = 0
    BY <1>1, <2>1 DEF TrackInv, Alive
  <2> QED
    BY <1>t, <2>2
<1>4. InBlock => rd.header
  <2>1. SUFFICES ASSUME ~rd.header, InBlock PROVE FALSE
    OBVIOUS
  <2>2. pc = "locate"
    BY <2>1 DEF AtLocate
  <2>3. cur = 0
    BY <1>1, <2>2 DEF LoopInv
  <2>4. rd.at = rd.block.len
    BY <1>2, <2>1 DEF Aligned
  <2> QED
    BY <1>3, <1>t, <2>1, <2>3, <2>4 DEF InBlock
<1> QED
  BY <1>1, <1>2, <1>3, <1>4

\* The steps of a seek that move.
LEMMA CoreSeekMoves ==
  ASSUME CoreInv, SeekHeader \/ SeekInBlock \/ SeekByIndex
  PROVE  CoreInv'
PROOF
<1> USE DEF CoreInv
<1>0. UNCHANGED <<src, op, buf, got, failed, wrapped, index, total, target>>
  BY DEF SeekHeader, SeekInBlock, SeekByIndex, seekVars, callVars
<1>t. /\ rd \in ReaderFields /\ cur \in Nat /\ rd.at \in Nat /\ rd.block.len \in Nat
      /\ rd.start \in Nat /\ target \in Nat /\ src \in Seq(WireChunk) /\ pos \in 0..Len(src)
      /\ Len(src) \in Nat
  BY InputFacts DEF SeekTypeOK
<1>1. CASE SeekHeader
  <2>1. /\ pc = "find" /\ ~rd.header /\ pos' = 0 /\ cur' = 0 /\ pc' = "fill"
        /\ UNCHANGED <<rd, want, res, base>>
    BY <1>1 DEF SeekHeader, callVars
  <2>2. rd.err = "none" /\ op \in {"seek", "readat"} /\ wrapped
    BY <2>1 DEF LoopInv, Working, SeekCalls
  <2>3. Aligned(src, pos, rd, cur)
    BY <2>2 DEF AlignInv, Alive
  <2>4. rd.at = rd.block.len /\ cur = Place(src, pos)
    <3>1. rd.at = rd.block.len
      BY <2>1, <2>3 DEF Aligned
    <3> QED
      BY <1>t, <2>3, <3>1 DEF Aligned
  <2>5. SeekTypeOK' /\ IndexInv' /\ LoopInv'
    <3>1. 0 \in 0..Len(src) /\ 0 \in Nat
      BY <1>t
    <3> QED
      BY <1>0, <2>1, <2>2, <3>1 DEF SeekTypeOK, IndexInv, LoopInv, Working, SeekCalls
  <2>6. AlignInv'
    <3>1. Place(src, 0) = 0
      BY <1>t, Places
    <3>2. 0 + (rd.block.len - rd.at) = 0 /\ rd.at <= rd.block.len
      BY <1>t, <2>4
    <3>3. Aligned(src, 0, rd, 0)
      BY <2>1, <2>4, <3>1, <3>2 DEF Aligned
    <3> QED
      BY <1>0, <2>1, <3>3 DEF AlignInv
  <2>7. base = 0
    BY <2>2 DEF TrackInv
  <2>8. rd'.start + rd'.at = cur' - base' \/ Stale'
    <3>1. (\E k \in 1..Len(src) : DataChunk(src[k])) => Stale'
      <4>1. pos' + 1 = 1
        BY <2>1
      <4> QED
        BY <1>0, <2>1, <2>2, <4>1 DEF Stale
    <3>2. CASE Stale
      <4>1. \A k \in (pos + 1)..Len(src) : k \in 1..Len(src)
        BY <1>t
      <4> QED
        BY <3>1, <3>2, <4>1 DEF Stale
    <3>3. CASE ~Stale /\ Place(src, pos) = 0
      <4>1. rd.start + rd.at = cur - base
        BY <2>2, <3>3 DEF TrackInv, Alive
      <4> QED
        BY <2>1, <2>4, <2>7, <3>3, <4>1
    <3>4. CASE Place(src, pos) # 0
      <4>1. PICK k \in 1..pos : src[k].t \in {"comp", "raw"}
        BY <1>t, <3>4, DataInFront
      <4>2. k \in 1..Len(src)
        BY <1>t, <4>1
      <4> QED
        BY <3>1, <4>1, <4>2 DEF DataChunk
    <3> QED
      BY <3>2, <3>3, <3>4
  <2>9. TrackInv'
    BY <2>1, <2>7, <2>8 DEF TrackInv
  <2> QED
    BY <2>5, <2>6, <2>9
<1>2. CASE SeekInBlock
  <2> DEFINE k == target - rd.start
  <2>1. /\ AtLocate /\ InBlock /\ rd' = [rd EXCEPT !.at = k] /\ cur' = target
        /\ pc' = "ret" /\ res' = "ok" /\ UNCHANGED <<pos, want, base>>
    BY <1>2 DEF SeekInBlock, End
  <2>2. /\ rd.err = "none" /\ wrapped /\ op \in {"seek", "readat"}
        /\ Aligned(src, pos, rd, cur) /\ rd.start + rd.at = cur /\ rd.header
    BY <2>1, AtLocateTrack
  <2>3. k \in Nat /\ k <= rd.block.len /\ rd.start + k = target
    BY <1>t, <2>1 DEF InBlock
  <2> HIDE DEF k
  <2>4. /\ rd' \in ReaderFields /\ rd'.start = rd.start /\ rd'.at = k /\ rd'.block = rd.block
        /\ rd'.err = rd.err /\ rd'.header = rd.header
    BY <1>t, <2>1, <2>3 DEF ReaderFields
  <2>5. SeekTypeOK' /\ IndexInv' /\ LoopInv'
    <3>1. got.op = op
      BY <2>1, <2>2 DEF LoopInv, AtLocate, Working
    <3> QED
      BY <1>0, <1>t, <2>1, <2>2, <2>4, <3>1 DEF SeekTypeOK, IndexInv, LoopInv, Working, Results
  <2>6. target + (rd.block.len - k) = Place(src, pos)
    <3>1. cur + (rd.block.len - rd.at) = Place(src, pos)
      BY <2>2 DEF Aligned
    <3>2. rd.start + rd.at = cur
      BY <2>2
    <3> QED
      BY <1>t, <2>3, <3>1, <3>2
  <2>7. rd.header /\ rd.block.len > 0 => InFront(src, pos, rd.block)
    BY <2>2 DEF Aligned
  <2>8. Aligned(src, pos, rd', target)
    BY <2>2, <2>3, <2>4, <2>6, <2>7, Zenon DEF Aligned
  <2>9. base = 0
    BY <2>2 DEF TrackInv
  <2>10. AlignInv' /\ TrackInv'
    <3>1. rd'.start + rd'.at = cur' - base'
      BY <1>t, <2>1, <2>3, <2>4, <2>9
    <3> QED
      BY <1>0, <2>1, <2>8, <2>9, <3>1 DEF AlignInv, TrackInv
  <2> QED
    BY <2>5, <2>10
<1>3. CASE SeekByIndex
  <2> DEFINE e == Find(index, target)
  <2>1. /\ AtLocate /\ pos' = e.c /\ rd' = Jumped(e.u) /\ cur' = e.u /\ want' = target - e.u
        /\ IF e.u < target THEN pc' = "skip" /\ res' = res ELSE pc' = "ret" /\ res' = "ok"
        /\ base' = 0
    BY <1>3 DEF SeekByIndex, End
  <2>2. rd.err = "none" /\ wrapped /\ op \in {"seek", "readat"}
    BY <2>1, AtLocateTrack
  <2>3. e.c \in 0..Len(src) /\ e.u = Place(src, e.c) /\ e.u \in Nat /\ e.u <= target
    BY <1>t, <2>2, FindSound
  <2> HIDE DEF e
  <2>4. /\ rd' \in ReaderFields /\ rd'.start = e.u /\ rd'.at = 0 /\ rd'.block.len = 0
        /\ rd'.err = rd.err
    BY <1>t, <2>1, <2>3 DEF Jumped, ReaderFields, NoBlock
  <2>5. want' \in Nat
    BY <1>t, <2>1, <2>3
  <2>6. SeekTypeOK' /\ IndexInv' /\ LoopInv'
    <3>1. got.op = op
      BY <2>1, <2>2 DEF LoopInv, AtLocate, Working
    <3>2. pc' \in {"skip", "ret"} /\ res' \in Results
      BY <2>1 DEF SeekTypeOK, Results
    <3>3. SeekTypeOK' /\ IndexInv'
      BY <1>0, <2>1, <2>3, <2>4, <2>5, <3>2 DEF SeekTypeOK, IndexInv
    <3>4. LoopInv'
      BY <1>0, <2>2, <2>4, <3>1, <3>2 DEF LoopInv, Working
    <3> QED
      BY <3>3, <3>4
  <2>7. Aligned(src, e.c, rd', e.u)
    BY <2>3, <2>4 DEF Aligned
  <2>8. rd'.start + rd'.at = cur' - base'
    BY <2>1, <2>3, <2>4
  <2>9. AlignInv' /\ TrackInv'
    BY <1>0, <2>1, <2>7, <2>8 DEF AlignInv, TrackInv
  <2> QED
    BY <2>6, <2>9
<1> QED
  BY <1>1, <1>2, <1>3

\* Every step keeps input, decoded and offset together.
LEMMA CoreStep ==
  ASSUME SingleStreams, CoreInv, [SNext]_svars
  PROVE  CoreInv'
PROOF
<1>1. UNCHANGED svars => CoreInv'
  BY DEF svars, vars, callVars, seekVars, CoreInv, SeekTypeOK, IndexInv, LoopInv, Working, AlignInv,
         Alive, TrackInv, Stale
<1>2. Steps /\ UNCHANGED seekVars => CoreInv'
  BY CoreFillChunk, CoreFill, CoreSkipChunk, CoreSkip DEF Steps
<1>3. SeekSteps => CoreInv'
  BY CoreSeekStays, CoreSeekMoves DEF SeekSteps
<1>4. SeekTypeOK
  BY DEF CoreInv
<1> QED
  BY <1>1, <1>2, <1>3, <1>4, StepCases, CoreBegin, CoreSeekCall, CoreOther

----------------------------------------------------------------------------
(* The bytes that are returned *)

\* No bytes are the bytes at any place.
LEMMA NoBytesAt ==
  ASSUME NEW p \in Nat
  PROVE  BytesAt(<<>>, p)
PROOF
<1>1. Len(<<>>) = 0 /\ p + 1 \in Int /\ p + 0 \in Int /\ p + 0 < p + 1
  OBVIOUS
<1>2. SubSeq(Data(src), p + 1, p + 0) = <<>>
  BY <1>1, SubSeqEmpty
<1> QED
  BY <1>1, <1>2 DEF BytesAt

\* The data of the input.
LEMMA DataType ==
  ASSUME SeekTypeOK
  PROVE  Data(src) \in Seq(Byte) /\ Len(Data(src)) \in Nat /\ Place(src, Len(src)) = Len(Data(src))
PROOF
<1>1. src \in Seq(WireChunk) /\ Len(src) \in 0..Len(src)
  BY InputFacts
<1>2. Data(src) \in Seq(Byte)
  BY <1>1, BeforeChunks
<1>3. Place(src, Len(src)) = Len(Data(src))
  BY <1>1, Places
<1>4. Len(Data(src)) \in Nat
  BY <1>2
<1> QED
  BY <1>2, <1>3, <1>4

\* What is in decoded are the bytes at the place of the Reader.
LEMMA SliceAt ==
  ASSUME CoreInv, rd.err = "none", Unread, NEW n \in Nat
  PROVE  BytesAt(Slice(n), cur) /\ cur + Len(Slice(n)) <= Len(Data(src))
PROOF
<1>t. /\ cur \in Nat /\ rd.at \in Nat /\ rd.block.len \in Nat /\ src \in Seq(WireChunk)
      /\ Len(src) \in Nat /\ pos \in 0..Len(src) /\ Data(src) \in Seq(Byte)
      /\ Len(Data(src)) \in Nat
  BY InputFacts, DataType DEF CoreInv, SeekTypeOK
<1>1. Aligned(src, pos, rd, cur)
  BY OnTrack
<1>2. Avail \in Nat /\ rd.block.len > 0 /\ rd.at # rd.block.len
  BY <1>t DEF Unread, Avail
<1>3. InFront(src, pos, rd.block) /\ cur + (rd.block.len - rd.at) = Place(src, pos)
  BY <1>1, <1>2 DEF Aligned
<1> DEFINE i == rd.block.id
           q == Place(src, i - 1)
<1>4. /\ i \in 1..Len(src) /\ src[i].t \in {"comp", "raw"} /\ src[i].n = rd.block.len
      /\ Place(src, i) = Place(src, pos) /\ Sound(i)
  BY <1>3, <1>t DEF InFront, DataChunk, Intact, Sound
<1>5. q \in Nat /\ Place(src, i) = q + rd.block.len
  BY <1>t, <1>4, Places
<1>6. q + rd.block.len <= Len(Data(src)) /\ \A j \in 1..rd.block.len : Data(src)[q + j] = <<i, j>>
  BY <1>t, <1>4, ChunkInData
<1> HIDE DEF q
<1>u. cur \in Nat /\ rd.at \in Nat /\ rd.block.len \in Nat /\ Len(Data(src)) \in Nat /\ q \in Nat
  BY <1>t, <1>5
<1>7. cur = q + rd.at
  <2>1. cur + (rd.block.len - rd.at) = q + rd.block.len
    BY <1>3, <1>4, <1>5
  <2> QED
    BY <1>u, <2>1
<1> DEFINE s == Slice(n)
           m == Len(s)
<1>8. /\ s \in Seq(Byte) /\ m = (IF Avail < n THEN Avail ELSE n)
      /\ \A j \in 1..m : s[j] = <<i, rd.at + j>>
  BY <1>2, SliceType DEF CoreInv
<1> HIDE DEF s, i
<1>9. m \in Nat /\ rd.at + m <= rd.block.len
  <2> HIDE DEF m
  <2> QED
    BY <1>2, <1>8, <1>t DEF Avail
<1>10. cur + m <= Len(Data(src))
  <2> HIDE DEF m
  <2> QED
    <3>1. q + rd.block.len <= Len(Data(src))
      BY <1>6
    <3> QED
      BY <1>7, <1>9, <1>u, <3>1
<1>11. ASSUME NEW j \in 1..m
       PROVE  Data(src)[cur + j] = s[j]
  <2>1. rd.at + j \in 1..rd.block.len /\ q + (rd.at + j) = cur + j
    <3> HIDE DEF m
    <3> QED
      BY <1>7, <1>9, <1>u
  <2>2. Data(src)[q + (rd.at + j)] = <<i, rd.at + j>>
    BY <1>6, <2>1
  <2> QED
    BY <1>8, <2>1, <2>2
<1>12. s = SubSeq(Data(src), cur + 1, cur + m)
  <2> DEFINE d == SubSeq(Data(src), cur + 1, cur + m)
  <2>1. \A k \in (cur + 1)..(cur + m) : Data(src)[k] \in Byte
    <3>1. \A k \in (cur + 1)..(cur + m) : k \in 1..Len(Data(src))
      BY <1>10, <1>9, <1>t
    <3> QED
      BY <1>t, <3>1
  <2>2. /\ cur + 1 \in Int /\ cur + m \in Int /\ (cur + m) - (cur + 1) + 1 = m
        /\ (IF cur + 1 <= cur + m THEN (cur + m) - (cur + 1) + 1 ELSE 0) = m
    <3> HIDE DEF m
    <3> QED
      BY <1>9, <1>t
  <2>3. d \in Seq(Byte) /\ Len(d) = m /\ \A k \in 1..m : d[k] = Data(src)[(cur + 1) + k - 1]
    BY <2>1, <2>2, SubSeqProperties
  <2>4. \A k \in 1..m : (cur + 1) + k - 1 = cur + k
    <3> HIDE DEF m
    <3> QED
      BY <1>9, <1>t
  <2>5. \A k \in 1..m : d[k] = s[k]
    BY <1>11, <2>3, <2>4
  <2> HIDE DEF d
  <2>6. s = d
    BY <1>8, <2>3, <2>5
  <2> QED
    BY <2>6 DEF d
<1>13. \A j \in 1..m : Sound(s[j][1])
  BY <1>4, <1>8
<1> QED
  BY <1>10, <1>12, <1>13 DEF BytesAt, s

\* Bytes at a place, and those behind them.
LEMMA ConcatAt ==
  ASSUME SeekTypeOK, NEW a \in Seq(Byte), NEW b \in Seq(Byte), NEW p \in Nat,
         BytesAt(a, p), BytesAt(b, p + Len(a)), (p + Len(a)) + Len(b) <= Len(Data(src))
  PROVE  BytesAt(a \o b, p)
PROOF
<1> DEFINE d == Data(src)
           x == Len(a)
           y == Len(b)
<1>1. d \in Seq(Byte) /\ Len(d) \in Nat /\ x \in Nat /\ y \in Nat
  BY DataType
<1>2. a \o b \in Seq(Byte) /\ Len(a \o b) = x + y
  OBVIOUS
<1>3. a = SubSeq(d, p + 1, p + x) /\ b = SubSeq(d, (p + x) + 1, (p + x) + y)
  BY DEF BytesAt
<1> HIDE DEF d, x, y
<1>4. p + 1 \in 1..(Len(d) + 1) /\ p + x \in ((p + 1) - 1)..Len(d) /\ (p + x) + y \in (p + x)..Len(d)
  BY <1>1 DEF d, x, y
<1>5. SubSeq(d, p + 1, p + x) \o SubSeq(d, (p + x) + 1, (p + x) + y)
        = SubSeq(d, p + 1, (p + x) + y)
  BY <1>1, <1>4, ConcatAdjacentSubSeq
<1>6. (p + x) + y = p + (x + y)
  BY <1>1
<1>7. a \o b = SubSeq(d, p + 1, p + Len(a \o b))
  BY <1>2, <1>3, <1>5, <1>6
<1>8. ASSUME NEW j \in 1..Len(a \o b)
      PROVE  Sound((a \o b)[j][1])
  <2>1. CASE j <= x
    <3>1. (a \o b)[j] = a[j] /\ j \in 1..Len(a)
      BY <1>1, <1>2, <2>1 DEF x
    <3> QED
      BY <3>1 DEF BytesAt
  <2>2. CASE ~(j <= x)
    <3>1. (a \o b)[j] = b[j - x] /\ j - x \in 1..Len(b)
      BY <1>1, <1>2, <2>2 DEF x, y
    <3> QED
      BY <3>1 DEF BytesAt
  <2> QED
    BY <2>1, <2>2
<1> QED
  BY <1>7, <1>8 DEF BytesAt, d

----------------------------------------------------------------------------
(* The rest of the invariant: what calls return *)

\* The bytes of a call stay right.
LEMMA BytesStay ==
  ASSUME src' = src, BytesAt(buf', got'.from)
  PROVE  BytesAt(buf, got.from)'
  BY DEF BytesAt, Sound

\* The bytes of a call that returned.
LEMMA BytesReturned ==
  ASSUME src' = src, BytesAt(got'.bytes, got'.from)
  PROVE  ReadsInOrder'
  BY DEF BytesAt, Sound, ReadsInOrder

\* A call that goes on does not change what was returned.
LEMMA InCall ==
  ASSUME SeekInv, UNCHANGED <<src, got, failed>>, pc # "idle", pc' # "idle"
  PROVE  /\ ReadsInOrder' /\ SeekLands' /\ SkipExact' /\ EndIsEnd'
         /\ got'.res # "eof"
PROOF
<1>1. got.res # "eof"
  BY DEF SeekInv, RestInv, EndInv
<1>2. ReadsInOrder'
  BY DEF SeekInv, RestInv, ReadsInOrder, Sound
<1>3. SeekLands' /\ SkipExact'
  BY DEF SeekLands, SkipExact
<1>4. EndIsEnd'
  BY <1>1 DEF EndIsEnd
<1> QED
  BY <1>1, <1>2, <1>3, <1>4

\* A Reader that failed has nothing to read on.
LEMMA Fresher ==
  ASSUME SeekInv, src \notin Flaky, Working, Unread \/ pos < Len(src) \/ op \in SeekCalls
  PROVE  ~failed
PROOF
<1>1. rd.err = "none"
  BY DEF SeekInv, CoreInv, LoopInv
<1>2. rd.at \in Nat /\ rd.block.len \in Nat /\ pos \in Nat /\ Len(src) \in Nat
  BY InputFacts DEF SeekInv, CoreInv
<1>3. failed => Spent /\ ~(op \in SeekCalls)
  BY DEF SeekInv, RestInv, SpentInv
<1>4. Spent => ~Unread /\ ~(pos < Len(src))
  BY <1>1, <1>2 DEF Spent, Unread
<1> QED
  BY <1>3, <1>4

\* read, skip and fill_buf begin.
LEMMA RestBegin ==
  ASSUME SeekInv, BeginCall
  PROVE  RestInv'
PROOF
<1> USE DEF SeekInv, CoreInv, RestInv
<1>1. PICK o \in {"read", "skip", "fillbuf"}, n \in Nat, p \in {"ret", "fill", "skip"} :
        /\ Begin(o, n, p)
        /\ p = "fill" => o # "skip"
        /\ p = "skip" => o = "skip"
        /\ p = "ret" => n = 0
        /\ wrapped => o = "read"
  BY DEF BeginCall
<1>2. UNCHANGED <<src, pos, rd, cur, base, wrapped, index, total, target>>
  BY DEF BeginCall, seekVars
<1>3. /\ pc = "idle" /\ op' = o /\ want' = n /\ buf' = <<>>
      /\ got' = [op |-> o, res |-> "ok", from |-> cur, n |-> n, bytes |-> <<>>]
      /\ failed' = (failed \/ Failed)
      /\ IF rd.err # "none" THEN pc' = "ret" /\ res' = rd.err ELSE pc' = p /\ res' = "ok"
  BY <1>1 DEF Begin, Refused
<1>4. /\ got'.op = o /\ got'.res = "ok" /\ got'.from = cur /\ got'.n = n /\ got'.bytes = <<>>
      /\ pc' # "idle" /\ cur \in Nat /\ Len(<<>>) = 0 /\ cur + 0 = cur /\ o \notin SeekCalls
  BY <1>3 DEF SeekTypeOK, SeekCalls
<1>5. rd.err \in ReadErrors \cup {"none"}
  BY DEF SeekTypeOK, ReaderFields
<1>6. res' = "ok" \/ (res' = rd.err /\ rd.err # "none" /\ pc' = "ret")
  BY <1>3
<1>7. BytesAt(<<>>, cur)
  BY <1>4, NoBytesAt
<1>8. ProgressInv'
  <2>1. BytesAt(buf, got.from)'
    BY <1>2, <1>3, <1>4, <1>7, BytesStay
  <2>2. pc' = "fill" => cur' = got'.from + Len(buf') /\ buf' = <<>>
    BY <1>2, <1>3, <1>4
  <2>3. pc' = "skip" => op' = "skip" /\ cur' + want' = got'.from + got'.n
    BY <1>1, <1>2, <1>3, <1>4
  <2>4. pc' = "ret" /\ res' = "ok" => n = 0
    BY <1>1, <1>3, <1>5 DEF ReadErrors
  <2>5. pc' = "ret" /\ res' = "ok" /\ op' = "skip" => cur' = got'.from + got'.n
    BY <1>2, <1>4, <2>4
  <2>6. op' \notin {"seek", "readat"}
    BY <1>3
  <2> QED
    BY <2>1, <2>2, <2>3, <2>5, <2>6 DEF ProgressInv
<1>9. EndInv' /\ EndIsEnd'
  BY <1>4, <1>5, <1>6 DEF EndInv, EndIsEnd, ReadErrors
<1>10. KeptInv'
  <2>1. ~wrapped /\ rd.err # "none" => failed'
    BY <1>3 DEF KeptInv
  <2>2. pc' = "ret" /\ rd'.err # "none" => res' = rd'.err
    BY <1>2, <1>3
  <2> QED
    BY <1>2, <1>4, <1>6, <2>1, <2>2 DEF KeptInv
<1>11. SpentInv'
  <2>1. src \notin Flaky /\ failed' => Spent
    BY <1>3 DEF SpentInv
  <2>2. Spent => Spent'
    BY <1>2 DEF Spent
  <2>3. res' \in ReadErrors => Spent
    BY <1>6 DEF Spent, ReadErrors
  <2> QED
    BY <1>2, <1>3, <1>4, <2>1, <2>2, <2>3 DEF SpentInv
<1>12. ReadsInOrder'
  BY <1>2, <1>4, <1>7, BytesReturned
<1>13. SkipExact' /\ SeekLands'
  BY <1>4 DEF SkipExact, SeekLands
<1> QED
  BY <1>8, <1>9, <1>10, <1>11, <1>12, <1>13

\* A seek or read_at begins.
LEMMA RestSeekCall ==
  ASSUME SeekInv, SeekCall, CoreInv'
  PROVE  RestInv'
PROOF
<1> USE DEF SeekInv, CoreInv, RestInv
<1>1. PICK c \in {"seek", "readat"}, n \in Nat, o \in Int, e0 \in {"ok", "unsupported"} :
        BeginSeek(c, n, o, e0)
  BY DEF SeekCall
<1> DEFINE e == IF ~Forgiven THEN rd.err ELSE IF e0 # "ok" THEN e0 ELSE SeekCheck(o)
           to == IF e # "ok" /\ o < 0 THEN 0 ELSE o
<1>2. /\ wrapped /\ pc = "idle" /\ op' = c /\ buf' = <<>>
      /\ rd' = IF Forgiven THEN [rd EXCEPT !.err = "none"] ELSE rd
      /\ res' = e /\ pc' = (IF e = "ok" THEN "find" ELSE "ret") /\ target' = to
      /\ got' = [op |-> c, res |-> "ok", from |-> to, n |-> n, bytes |-> <<>>]
      /\ failed' = ~Forgiven
      /\ UNCHANGED <<src, wrapped>>
  BY <1>1 DEF BeginSeek
<1>3. e # "eof" /\ (~Forgiven => e \notin {"ok", "none"} /\ rd.err # "none")
  BY DEF SeekCheck, SeekTypeOK, ReaderFields, ReadErrors, Forgiven
<1>4. to \in Nat
  BY <1>2 DEF SeekTypeOK
<1> HIDE DEF e, to
<1>5. /\ got'.op = c /\ got'.res = "ok" /\ got'.from = to /\ got'.bytes = <<>>
      /\ pc' \in {"find", "ret"} /\ (pc' = "ret" => res' # "ok") /\ res' # "eof"
  BY <1>2, <1>3
<1>6. BytesAt(<<>>, to)
  BY <1>4, NoBytesAt
<1>7. ProgressInv'
  <2>1. BytesAt(buf, got.from)'
    BY <1>2, <1>5, <1>6, BytesStay
  <2> QED
    BY <1>2, <1>5, <2>1 DEF ProgressInv
<1>8. EndInv' /\ EndIsEnd'
  BY <1>5 DEF EndInv, EndIsEnd
<1>9. KeptInv'
  BY <1>2 DEF KeptInv
<1>10. SpentInv'
  <2>1. failed' => Spent' /\ pc' = "ret"
    BY <1>2, <1>3 DEF Spent
  <2>2. c \in SeekCalls
    BY DEF SeekCalls
  <2> QED
    BY <1>2, <1>5, <2>1, <2>2 DEF SpentInv, Working
<1>11. ReadsInOrder'
  BY <1>2, <1>5, <1>6, BytesReturned
<1>12. SkipExact' /\ SeekLands'
  BY <1>5 DEF SkipExact, SeekLands
<1> QED
  BY <1>7, <1>8, <1>9, <1>10, <1>11, <1>12

\* consume, reset and decode_concurrent.
LEMMA RestOther ==
  ASSUME SeekInv, OtherCall, CoreInv'
  PROVE  RestInv'
PROOF
<1> USE DEF SeekInv, CoreInv, RestInv
<1>1. /\ ~wrapped /\ pc = "idle" /\ pc' \in {"idle", "handed"} /\ src' = src
      /\ UNCHANGED wrapped
  BY DEF OtherCall, Consume, Reset, DecodeConcurrent, seekVars
<1>2. /\ got'.op \in {"none", "concurrent"} /\ got'.bytes = <<>> /\ got'.res # "eof"
      /\ got'.from \in Nat
  <2>0. got'.from \in Nat
    BY DEF SeekTypeOK, CallRec
  <2>1. CASE got' = NoCall
    BY <2>0, <2>1 DEF NoCall
  <2>2. CASE DecodeConcurrent
    <3>1. got'.op = "concurrent" /\ got'.bytes = <<>>
      BY <2>2 DEF DecodeConcurrent
    <3>2. got'.res # "eof"
      <4> DEFINE start == [rd EXCEPT !.start = 0, !.block = NoBlock, !.at = 0]
                 run == RunFrom(src, start, pos)[Len(src)]
                 end == AtEnd(run)
                 e == IF Unread THEN "invalid"
                      ELSE IF rd.err # "none" THEN rd.err
                      ELSE IF end.err = "none" THEN "ok" ELSE end.err
      <4>1. got'.res = e
        BY <2>2 DEF DecodeConcurrent
      <4>2. rd \in ReaderFields
        BY DEF SeekTypeOK
      <4>3. start \in ReaderFields
        BY <4>2 DEF ReaderFields, NoBlock
      <4>4. run \in ReaderFields
        BY <4>3, InputFacts, RunTyped DEF SeekTypeOK
      <4> HIDE DEF start, run
      <4>5. end \in ReaderFields
        <5>1. Err(run, "corrupt") \in ReaderFields
          BY <4>4, ErrParts DEF ReadErrors
        <5> QED
          BY <4>4, <5>1 DEF AtEnd
      <4> HIDE DEF end
      <4>6. end.err # "eof" /\ rd.err # "eof"
        BY <4>2, <4>5 DEF ReaderFields, ReadErrors
      <4> QED
        BY <4>1, <4>6
    <3> QED
      BY <2>0, <3>1, <3>2
  <2> QED
    BY <2>1, <2>2 DEF OtherCall, Consume, Reset
<1>3. ~Failed'
  BY <1>2 DEF Failed
<1>4. BytesAt(<<>>, got'.from)
  BY <1>2, NoBytesAt
<1>5. ReadsInOrder'
  BY <1>1, <1>2, <1>4, BytesReturned
<1>6. ProgressInv' /\ EndInv' /\ EndIsEnd' /\ SkipExact' /\ SeekLands'
  BY <1>1, <1>2 DEF ProgressInv, EndInv, EndIsEnd, SkipExact, SeekLands, Working
<1>7. /\ rd'.err # "none" => rd.err # "none" /\ failed' = (failed \/ Failed)
      /\ failed' => failed \/ Failed
      /\ Spent /\ failed' => Spent'
  <2>t. rd \in ReaderFields /\ rd.at \in Nat /\ rd.block.len \in Nat
    BY InputFacts DEF SeekTypeOK
  <2>1. CASE Reset
    BY <2>1 DEF Reset, Fresh
  <2>2. CASE DecodeConcurrent
    BY <2>2 DEF DecodeConcurrent, Spent
  <2>3. ASSUME NEW n \in Nat, Consume(n)
        PROVE  /\ rd'.err # "none" => rd.err # "none" /\ failed' = (failed \/ Failed)
               /\ failed' => failed \/ Failed
               /\ Spent /\ failed' => Spent'
    <3> DEFINE k == IF rd.at <= rd.block.len /\ Avail < n THEN Avail ELSE n
    <3>1. /\ rd' = Moved(rd, k) /\ failed' = (failed \/ Failed) /\ src' = src /\ pos' = pos
      BY <2>3 DEF Consume, Moved
    <3>2. k \in Nat
      BY <2>t DEF Avail
    <3> HIDE DEF k
    <3>3. rd'.err = rd.err /\ rd'.block = rd.block /\ rd'.at = rd.at + k
      BY <2>t, <3>1, <3>2, MovedParts
    <3>4. rd.at >= rd.block.len => rd'.at >= rd'.block.len
      BY <2>t, <3>2, <3>3
    <3> QED
      BY <3>1, <3>3, <3>4 DEF Spent
  <2> QED
    BY <2>1, <2>2, <2>3 DEF OtherCall
<1>8. KeptInv'
  BY <1>1, <1>7 DEF KeptInv
<1>9. SpentInv'
  BY <1>1, <1>2, <1>3, <1>7 DEF SpentInv, Working
<1> QED
  BY <1>5, <1>6, <1>8, <1>9

\* A call returns.
LEMMA RestReturn ==
  ASSUME SeekInv, (Return /\ UNCHANGED seekVars) \/ SeekReturn, CoreInv'
  PROVE  RestInv'
PROOF
<1> USE DEF SeekInv, CoreInv, RestInv
<1>1. /\ pc = "ret" /\ op # "none"
      /\ UNCHANGED <<src, pos, rd, res, buf, cur, base, failed, wrapped, target>>
  BY DEF Return, SeekReturn, callVars, seekVars
<1>2. BytesAt(buf, got.from) /\ got \in CallRec /\ got.from \in Nat
  BY <1>1 DEF ProgressInv, SeekTypeOK, CallRec
<1>g. got.op = IF op = "fillat" THEN "readat" ELSE op
  BY <1>1 DEF LoopInv
<1>3. CASE pc' = "idle"
  <2> DEFINE b == got'.bytes
  <2>1. /\ got'.op = got.op /\ got'.from = got.from /\ got'.n = got.n /\ got'.res = res
        /\ b = <<>> \/ b = buf
    <3>1. CASE Return
      BY <1>2, <3>1 DEF Return, CallRec
    <3>2. CASE SeekReturn
      <4>1. got' = [got EXCEPT !.res = res, !.bytes = IF res \in ReadErrors THEN <<>> ELSE buf]
        BY <1>3, <3>2 DEF SeekReturn
      <4> QED
        BY <1>2, <4>1 DEF CallRec
    <3> QED
      BY <3>1, <3>2
  <2>2. BytesAt(b, got'.from)
    BY <1>2, <2>1, NoBytesAt
  <2>3. ReadsInOrder'
    BY <1>1, <2>2, BytesReturned
  <2>4. ProgressInv' /\ EndInv'
    BY <1>3 DEF ProgressInv, EndInv, Working
  <2>5. EndIsEnd'
    BY <1>1, <2>1 DEF EndIsEnd, EndInv
  <2>6. SeekLands'
    <3>1. got'.op = "seek" => op = "seek"
      BY <1>g, <2>1
    <3> QED
      BY <1>1, <2>1, <3>1 DEF SeekLands, ProgressInv
  <2>7. got'.op = "skip" => op = "skip" /\ ~wrapped
    BY <1>1, <1>g, <2>1 DEF LoopInv
  <2>8. SkipExact'
    BY <1>1, <2>1, <2>7 DEF SkipExact, ProgressInv, KeptInv
  <2>9. Failed' => res \in ReadErrors /\ op \notin SeekCalls
    BY <1>g, <2>1 DEF Failed, SeekCalls
  <2>10. ~wrapped /\ rd.err # "none" => Failed'
    <3>1. SUFFICES ASSUME ~wrapped, rd.err # "none" PROVE Failed'
      OBVIOUS
    <3>2. res = rd.err /\ res \in ReadErrors
      BY <1>1, <3>1 DEF KeptInv, SeekTypeOK, ReaderFields
    <3>3. op \in {"read", "fillbuf", "skip"}
      BY <1>1, <3>1 DEF LoopInv, Return, SeekReturn, SeekCalls
    <3> QED
      BY <1>g, <2>1, <3>2, <3>3 DEF Failed
  <2>11. KeptInv'
    BY <1>1, <1>3, <2>10 DEF KeptInv
  <2>12. Spent' = Spent
    BY <1>1 DEF Spent
  <2>13. SpentInv'
    BY <1>1, <1>3, <2>1, <2>9, <2>12 DEF SpentInv, Working
  <2> QED
    BY <2>3, <2>4, <2>5, <2>6, <2>8, <2>11, <2>13
<1>4. CASE pc' # "idle"
  <2>1. /\ op = "readat" /\ res = "ok" /\ op' = "fillat" /\ pc' = "fill" /\ got' = got
    BY <1>4 DEF Return, SeekReturn
  <2>2. ReadsInOrder' /\ SeekLands' /\ SkipExact' /\ EndIsEnd' /\ got'.res # "eof"
    BY <1>1, <1>4, <2>1, InCall
  <2>3. buf = <<>> /\ cur = got.from
    BY <1>1, <2>1 DEF ProgressInv
  <2>4. ProgressInv'
    <3>1. BytesAt(buf, got.from)'
      BY <1>1, <1>2, <2>1, BytesStay
    <3>2. Len(<<>>) = 0 /\ got.from + 0 = got.from
      BY <1>2
    <3>3. cur' = got'.from + Len(buf')
      BY <1>1, <2>1, <2>3, <3>2
    <3> QED
      BY <2>1, <3>1, <3>3 DEF ProgressInv
  <2>5. EndInv'
    BY <2>1, <2>2 DEF EndInv
  <2>6. wrapped
    BY <1>1, <2>1 DEF LoopInv, SeekCalls
  <2>7. KeptInv'
    BY <1>1, <2>6 DEF KeptInv
  <2>8. src \notin Flaky => ~failed
    BY <1>1, <2>1 DEF SpentInv, SeekCalls
  <2>9. SpentInv'
    BY <1>1, <2>1, <2>8 DEF SpentInv
  <2> QED
    BY <2>2, <2>4, <2>5, <2>7, <2>9
<1> QED
  BY <1>3, <1>4

\* How a turn of fill_decoded's loop goes on.
LEMMA FillResult ==
  ASSUME SeekTypeOK, LoopInv, AlignInv, FillChunk
  PROVE  \/ pc' = "fill" /\ res' = res /\ rd'.err = "none"
         \/ pc' = "ret" /\ res' \in ChunkErrors /\ rd'.err = res'
         \/ /\ pc' = "ret" /\ res' = "corrupt" /\ rd'.err = "none" /\ pos' = Len(src)
            /\ rd'.at = rd'.block.len
PROOF
<1>1. FillOutcome /\ pos' = pos + 1 /\ rd.err = "none" /\ rd.at = rd.block.len
  BY FillChunkStep
<1> QED
  BY <1>1 DEF FillOutcome, Failing, LoadEffect, MetaEffect

\* Steps of read, fill_buf and read_at that return bytes, or find the end.
LEMMA RestFill ==
  ASSUME SeekInv, CoreInv',
         Copy \/ Borrow \/ CopyAt \/ FillChunk \/ FillEnd \/ EndAt \/ FillFails,
         UNCHANGED seekVars
  PROVE  RestInv'
PROOF
<1> USE DEF SeekInv, CoreInv, RestInv
<1>0. UNCHANGED <<wrapped, index, total, target>>
  BY DEF seekVars
<1>1. /\ pc = "fill" /\ pc' \in {"fill", "ret"} /\ UNCHANGED <<src, op, got, failed>>
      /\ rd.err = "none"
  <2>1. pc = "fill" /\ UNCHANGED <<src, op, got, failed>>
    BY DEF Copy, Borrow, CopyAt, FillChunk, FillEnd, EndAt, FillFails
  <2>2. FillChunk => pc' \in {"fill", "ret"}
    BY FillResult
  <2>3. pc' \in {"fill", "ret"}
    BY <2>1, <2>2 DEF Copy, Borrow, CopyAt, FillEnd, EndAt, FillFails, End
  <2> QED
    BY <2>1, <2>3 DEF LoopInv, Working
<1>2. ReadsInOrder' /\ SeekLands' /\ SkipExact' /\ EndIsEnd' /\ got'.res # "eof"
  BY <1>1, InCall
<1>t. /\ rd \in ReaderFields /\ cur \in Nat /\ rd.at \in Nat /\ rd.block.len \in Nat
      /\ want \in Nat /\ buf \in Seq(Byte) /\ got.from \in Nat /\ Len(buf) \in Nat
      /\ pos \in Nat /\ Len(src) \in Nat
  BY InputFacts DEF SeekTypeOK, CallRec
<1>b. BytesAt(buf, got.from)
  BY <1>1 DEF ProgressInv, Working
<1>3. CASE Copy \/ Borrow \/ CopyAt
  <2>1. Unread /\ op \in {"read", "fillbuf", "fillat"} /\ (op # "fillat" => pc' = "ret")
    BY <1>3 DEF Copy, Borrow, CopyAt, End
  <2>2. Avail \in Nat
    BY <1>t, <2>1 DEF Unread, Avail
  <2>3. PICK n \in Nat : buf' = buf \o Slice(n) /\ (op = "fillat" => cur' = cur + Len(Slice(n)))
    <3>1. op # "fillat" => buf = <<>>
      BY <1>1, <2>1 DEF ProgressInv
    <3>2. \A n \in Nat : Slice(n) \in Seq(Byte)
      BY <2>2, SliceType
    <3>3. \A n \in Nat : <<>> \o Slice(n) = Slice(n)
      BY <3>2
    <3>4. CASE Copy
      <4>1. op = "read" /\ buf' = Slice(want)
        BY <3>4 DEF Copy
      <4> QED
        BY <1>t, <3>1, <3>3, <4>1
    <3>5. CASE Borrow
      <4>1. op = "fillbuf" /\ buf' = Slice(Avail)
        BY <3>5 DEF Borrow
      <4> QED
        BY <2>2, <3>1, <3>3, <4>1
    <3>6. CASE CopyAt
      <4>1. buf' = buf \o Slice(want) /\ cur' = cur + Len(Slice(want))
        BY <3>6 DEF CopyAt
      <4> QED
        BY <1>t, <4>1
    <3> QED
      BY <1>3, <3>4, <3>5, <3>6
  <2>4. Slice(n) \in Seq(Byte) /\ Len(Slice(n)) \in Nat
    BY <2>2, SliceType
  <2>5. cur = got.from + Len(buf)
    BY <1>1, <2>1 DEF ProgressInv
  <2>6. BytesAt(Slice(n), cur) /\ cur + Len(Slice(n)) <= Len(Data(src))
    BY <1>1, <2>1, SliceAt
  <2>7. BytesAt(buf \o Slice(n), got.from)
    BY <1>b, <1>t, <2>4, <2>5, <2>6, ConcatAt
  <2>8. BytesAt(buf, got.from)'
    BY <1>1, <2>3, <2>7, BytesStay
  <2>9. op = "fillat" => cur' = got'.from + Len(buf')
    <3>1. Len(buf \o Slice(n)) = Len(buf) + Len(Slice(n))
      BY <1>t, <2>4
    <3> QED
      BY <1>1, <1>t, <2>3, <2>4, <2>5, <3>1
  <2>10. ProgressInv'
    BY <1>1, <2>1, <2>8, <2>9 DEF ProgressInv
  <2>11. pc' = "ret" => res' = "ok" /\ rd'.err = "none"
    <3>1. pc' = "ret" => res' = "ok"
      BY <1>3, <1>1 DEF Copy, Borrow, CopyAt, End
    <3> QED
      BY <3>1 DEF LoopInv
  <2>12. EndInv' /\ KeptInv'
    BY <1>1, <1>2, <2>1, <2>11 DEF EndInv, KeptInv
  <2>13. src \notin Flaky => ~failed
    BY <1>1, <2>1, Fresher DEF Working
  <2>14. SpentInv'
    BY <1>1, <2>11, <2>13 DEF SpentInv, ReadErrors
  <2> QED
    BY <1>2, <2>10, <2>12, <2>14
<1>4. CASE FillChunk
  <2>1. UNCHANGED <<cur, want, buf>> /\ pos < Len(src)
    BY <1>4 DEF FillChunk
  <2>2. \/ pc' = "fill" /\ res' = res /\ rd'.err = "none"
        \/ pc' = "ret" /\ res' \in ChunkErrors /\ rd'.err = res'
        \/ /\ pc' = "ret" /\ res' = "corrupt" /\ rd'.err = "none" /\ pos' = Len(src)
           /\ rd'.at = rd'.block.len
    BY <1>4, FillResult
  <2>3. pc' = "ret" => res' \notin {"ok", "eof", "ueof"}
    BY <2>2 DEF ChunkErrors
  <2>4. BytesAt(buf, got.from)'
    BY <1>1, <1>b, <2>1, BytesStay
  <2>5. op \in {"read", "fillbuf"} \cup SeekCalls
    BY <1>1 DEF LoopInv
  <2>6. ProgressInv'
    BY <1>0, <1>1, <2>1, <2>3, <2>4, <2>5 DEF ProgressInv, SeekCalls, Working
  <2>7. EndInv'
    BY <1>1, <1>2, <2>3 DEF EndInv
  <2>8. KeptInv'
    BY <1>1, <2>2, <2>3 DEF KeptInv
  <2>9. src \notin Flaky => ~failed
    BY <1>1, <2>1, Fresher DEF Working
  <2>10. pc' = "ret" => Spent'
    <3>1. pc' = "ret" /\ rd'.err = "none" => pos' = Len(src') /\ rd'.at >= rd'.block.len
      <4>1. rd'.at \in Nat
        BY DEF SeekTypeOK, ReaderFields
      <4> QED
        BY <1>1, <2>2, <4>1 DEF ChunkErrors
    <3> QED
      BY <3>1 DEF Spent
  <2>11. SpentInv'
    BY <1>1, <2>9, <2>10 DEF SpentInv
  <2> QED
    BY <1>2, <2>6, <2>7, <2>8, <2>11
<1>5. CASE FillEnd \/ EndAt
  <2>1. /\ UNCHANGED <<pos, rd, want, buf, cur>> /\ ~Unread /\ pos = Len(src)
        /\ pc' = "ret" /\ res' = EofResult /\ op \in {"read", "fillbuf", "fillat"}
    BY <1>5 DEF FillEnd, EndAt, End
  <2>2. Aligned(src, pos, rd, cur)
    BY <1>1, <2>1, OnTrack
  <2>3. cur = Len(Data(src))
    <3>1. Place(src, Len(src)) = Len(Data(src))
      BY DataType
    <3>2. cur + (rd.block.len - rd.at) = Len(Data(src)) /\ rd.at <= rd.block.len
      BY <2>1, <2>2, <3>1 DEF Aligned
    <3> QED
      BY <1>t, <2>1, <3>2 DEF Unread
  <2>4. BytesAt(buf, got.from)'
    BY <1>1, <1>b, <2>1, BytesStay
  <2>5. res' # "ok" /\ res' # "ueof" /\ (res' = "eof" => ~rd.expectEof)
    BY <2>1 DEF EofResult
  <2>6. ProgressInv'
    BY <1>1, <2>1, <2>4, <2>5 DEF ProgressInv, Working
  <2>7. EndInv'
    BY <1>1, <1>2, <2>1, <2>3, <2>5 DEF EndInv
  <2>8. KeptInv'
    BY <1>1, <2>1, <2>5 DEF KeptInv
  <2>9. Spent /\ Spent'
    <3>1. rd.at >= rd.block.len
      BY <1>t, <2>1 DEF Unread
    <3> QED
      BY <1>1, <2>1, <3>1 DEF Spent
  <2>10. src \notin Flaky /\ op \in SeekCalls => ~failed
    BY <1>1, Fresher DEF Working
  <2>11. SpentInv'
    BY <1>1, <2>1, <2>9, <2>10 DEF SpentInv, Working
  <2> QED
    BY <1>2, <2>6, <2>7, <2>8, <2>11
<1>6. CASE FillFails
  <2>1. /\ src \in Flaky /\ UNCHANGED <<want, buf, cur>> /\ pc' = "ret" /\ res' = "io"
        /\ UNCHANGED <<pos, rd>> \/ BodyFails(HandleChunk(rd, CutChunk, pos + 1))
    BY <1>6 DEF FillFails, End
  <2>2. rd'.err = "none" \/ rd'.err = "io"
    <3> DEFINE z == 0
    <3>1. /\ z \in Nat
          /\ BodyFails(HandleChunk(rd, CutChunk, pos + 1)) =>
               (BodyFails(HandleChunk(rd, CutChunk, pos + 1))
                  \/ BodyFails(SkipHandle(rd, CutChunk, pos + 1, z)))
      OBVIOUS
    <3> HIDE DEF z
    <3>2. BodyFails(HandleChunk(rd, CutChunk, pos + 1)) => rd'.err = "io"
      BY <1>1, <1>t, <3>1, BodyFailsStep
    <3> QED
      BY <1>1, <2>1, <3>2
  <2>3. BytesAt(buf, got.from)'
    BY <1>1, <1>b, <2>1, BytesStay
  <2>4. op \in {"read", "fillbuf"} \cup SeekCalls
    BY <1>1 DEF LoopInv
  <2>5. ProgressInv'
    BY <1>0, <1>1, <2>1, <2>3, <2>4 DEF ProgressInv, SeekCalls, Working
  <2>6. EndInv' /\ KeptInv' /\ SpentInv'
    BY <1>1, <1>2, <2>1, <2>2 DEF EndInv, KeptInv, SpentInv
  <2> QED
    BY <1>2, <2>5, <2>6
<1> QED
  BY <1>3, <1>4, <1>5, <1>6

\* How a turn of skip's loop goes on.
LEMMA SkipResult ==
  ASSUME SeekTypeOK, LoopInv, AlignInv, SkipChunk
  PROVE  \/ pc' = "skip" /\ res' = res /\ rd'.err = "none" /\ cur' + want' = cur + want
         \/ pc' = "ret" /\ res' = "ok" /\ rd'.err = "none" /\ cur' = cur + want
         \/ pc' = "ret" /\ res' \in ChunkErrors /\ rd'.err = res'
         \/ /\ pc' = "ret" /\ res' = "corrupt" /\ rd'.err = "none" /\ pos' = Len(src)
            /\ rd'.at = rd'.block.len
PROOF
<1> DEFINE n == want - Avail
           at == cur + Avail
<1>1. /\ SkipOutcome(n, at) /\ n \in Nat \ {0} /\ Avail \in Nat /\ pos' = pos + 1
      /\ rd.err = "none" /\ Aligned(src, pos, rd, cur) /\ pos + 1 \in 1..Len(src)
      /\ Drained.at = Drained.block.len
  BY SkipChunkStep
<1>2. Drained.err = "none"
  BY <1>1, DrainAligned
<1>3. cur \in Nat /\ want \in Nat
  BY DEF SeekTypeOK
<1>4. at \in Nat /\ at + n = cur + want
  BY <1>1, <1>3
<1>5. Chunk.n \in Nat
  <2>1. pos < Len(src)
    BY DEF SkipChunk
  <2> QED
    BY <2>1, InputFacts
<1> HIDE DEF n, at
<1>6. CASE Failing(rd') /\ pc' = "ret" /\ res' = rd'.err
  BY <1>6 DEF Failing
<1>7. CASE Chunk.t = "stub" /\ rd' = Drained /\ pc' = "ret" /\ res' = "corrupt" /\ pos + 1 = Len(src)
  BY <1>1, <1>2, <1>7
<1>8. CASE /\ SkipEffect(Drained, Chunk, rd') /\ cur' = at + Chunk.n /\ want' = n - Chunk.n
           /\ IF want' = 0 THEN pc' = "ret" /\ res' = "ok" ELSE pc' = "skip" /\ res' = res
  <2>1. rd'.err = "none"
    BY <1>8 DEF SkipEffect
  <2>2. cur' = at + Chunk.n /\ want' = n - Chunk.n /\ n \in Nat
    BY <1>1, <1>8
  <2>3. cur' + want' = at + n /\ (want' = 0 => cur' = at + n)
    BY <1>4, <1>5, <2>2
  <2> QED
    BY <1>4, <1>8, <2>1, <2>3
<1>9. CASE /\ LoadEffect(Drained, Chunk, pos + 1, n, rd') /\ cur' = at + n
           /\ pc' = "ret" /\ res' = "ok"
  BY <1>4, <1>9 DEF LoadEffect
<1>10. CASE /\ MetaEffect(Drained, Chunk, rd') /\ cur' = at /\ want' = n /\ pc' = "skip"
            /\ res' = res
  BY <1>4, <1>10 DEF MetaEffect
<1> QED
  BY <1>1, <1>6, <1>7, <1>8, <1>9, <1>10 DEF SkipOutcome

\* The steps of skip.
LEMMA RestSkip ==
  ASSUME SingleStreams, SeekInv, CoreInv', SkipDrain \/ SkipChunk \/ SkipEnd \/ SkipFails,
         UNCHANGED seekVars
  PROVE  RestInv'
PROOF
<1> USE DEF SeekInv, CoreInv, RestInv
<1>0. UNCHANGED <<wrapped, index, total, target>>
  BY DEF seekVars
<1>1. /\ pc = "skip" /\ pc' \in {"skip", "ret"} /\ UNCHANGED <<src, op, buf, got, failed>>
      /\ rd.err = "none"
  <2>1. pc = "skip" /\ UNCHANGED <<src, op, buf, got, failed>>
    BY DEF SkipDrain, SkipChunk, SkipEnd, SkipFails
  <2>2. SkipChunk => pc' \in {"skip", "ret"}
    BY SkipResult
  <2>3. pc' \in {"skip", "ret"}
    BY <2>2 DEF SkipDrain, SkipEnd, SkipFails, End
  <2> QED
    BY <2>1, <2>3 DEF LoopInv, Working
<1>2. ReadsInOrder' /\ SeekLands' /\ SkipExact' /\ EndIsEnd' /\ got'.res # "eof"
  BY <1>1, InCall
<1>t. /\ rd \in ReaderFields /\ cur \in Nat /\ rd.at \in Nat /\ rd.block.len \in Nat
      /\ want \in Nat /\ got.from \in Nat /\ got.n \in Nat /\ pos \in Nat /\ Len(src) \in Nat
      /\ base \in Nat /\ rd.start \in Nat
  BY InputFacts DEF SeekTypeOK, CallRec
<1>3. /\ op \in {"skip", "seek", "readat"} /\ (op # "skip" <=> wrapped)
      /\ cur + want = got.from + (IF op = "skip" THEN got.n ELSE 0)
      /\ op # "skip" => got.from = target /\ buf = <<>>
  BY <1>1 DEF LoopInv, ProgressInv, Working, SeekCalls
<1>b. BytesAt(buf, got.from)'
  <2>1. BytesAt(buf, got.from)
    BY <1>1 DEF ProgressInv, Working
  <2> QED
    BY <1>1, <2>1, BytesStay
<1>d. /\ Avail \in Nat /\ Drained \in ReaderFields /\ Drained.at = rd.block.len
      /\ Drained.block = rd.block /\ Drained.err = rd.err
      /\ cur + Avail = Place(src, pos) /\ rd.start + rd.at = cur - base
  <2>1. Aligned(src, pos, rd, cur) /\ rd.start + rd.at = cur - base
    BY <1>1, OnTrack
  <2>2. cur + Avail = Place(src, pos)
    BY <2>1 DEF Aligned, Avail
  <2> QED
    BY <2>1, <2>2, DrainAligned
<1>f. src \notin Flaky /\ (pos < Len(src) \/ op \in SeekCalls) => ~failed
  BY <1>1, Fresher DEF Working
<1>s. op # "skip" => op \in SeekCalls
  BY <1>3 DEF SeekCalls
<1>4. ASSUME pc' = "ret", res' = "ok", cur' = cur + want, rd'.err = "none",
             wrapped => rd'.start + rd'.at = cur'
      PROVE  ProgressInv' /\ EndInv' /\ KeptInv'
  <2>1. op = "skip" => cur' = got.from + got.n
    BY <1>3, <1>4
  <2>2. op # "skip" => cur' = got.from /\ rd'.start + rd'.at = got.from
    BY <1>3, <1>4, <1>t
  <2>3. ProgressInv'
    BY <1>0, <1>1, <1>3, <1>4, <1>b, <2>1, <2>2 DEF ProgressInv, Working
  <2> QED
    BY <1>1, <1>2, <1>4, <2>3 DEF EndInv, KeptInv
<1>5. ASSUME pc' = "ret", res' \notin {"ok", "eof"}
      PROVE  ProgressInv' /\ EndInv'
  BY <1>0, <1>1, <1>2, <1>3, <1>5, <1>b DEF ProgressInv, Working, EndInv
<1>6. CASE SkipDrain
  <2>1. /\ rd' = Moved(rd, want) /\ cur' = cur + want /\ pc' = "ret" /\ res' = "ok"
        /\ pos' = pos
    BY <1>6 DEF SkipDrain, Moved, End
  <2>2. rd'.start = rd.start /\ rd'.at = rd.at + want /\ rd'.err = rd.err /\ rd'.block = rd.block
    BY <1>t, <2>1, MovedParts
  <2>3. wrapped => rd'.start + rd'.at = cur'
    <3>1. wrapped => base = 0
      BY DEF TrackInv
    <3> QED
      <4>1. rd.start + rd.at = cur - base
        BY <1>d
      <4>2. rd'.start + rd'.at = (rd.start + rd.at) + want
        BY <1>t, <2>2
      <4> QED
        BY <1>t, <2>1, <3>1, <4>1, <4>2
  <2>4. ProgressInv' /\ EndInv' /\ KeptInv'
    BY <1>1, <1>4, <2>1, <2>2, <2>3
  <2>5. src \notin Flaky /\ failed => Spent'
    <3>1. src \notin Flaky /\ failed => pos = Len(src) /\ rd.at >= rd.block.len
      BY <1>1 DEF SpentInv, Spent
    <3>2. rd.at >= rd.block.len => rd'.at >= rd'.block.len
      BY <1>t, <2>2
    <3> QED
      BY <1>1, <2>1, <3>1, <3>2 DEF Spent
  <2>6. SpentInv'
    BY <1>1, <1>f, <2>1, <2>5 DEF SpentInv, ReadErrors, Working
  <2> QED
    BY <1>2, <2>4, <2>6
<1>7. CASE SkipChunk
  <2>1. \/ pc' = "skip" /\ res' = res /\ rd'.err = "none" /\ cur' + want' = cur + want
        \/ pc' = "ret" /\ res' = "ok" /\ rd'.err = "none" /\ cur' = cur + want
        \/ pc' = "ret" /\ res' \in ChunkErrors /\ rd'.err = res'
        \/ /\ pc' = "ret" /\ res' = "corrupt" /\ rd'.err = "none" /\ pos' = Len(src)
           /\ rd'.at = rd'.block.len
    BY <1>7, SkipResult
  <2>2. pos < Len(src)
    BY <1>7 DEF SkipChunk
  <2>3. rd'.err = "none" /\ wrapped => rd'.start + rd'.at = cur'
    <3>1. /\ base' \in Nat /\ (wrapped => base' = 0) /\ cur' \in Nat
          /\ Alive' => rd'.start + rd'.at = cur' - base'
      BY <1>7, SkipChunkTrack
    <3> QED
      BY <3>1 DEF Alive
  <2>4. SpentInv'
    <3>1. pc' = "ret" /\ res' # "ok" => Spent'
      <4>1. rd'.at \in Nat
        BY DEF SeekTypeOK, ReaderFields
      <4>2. pc' = "ret" /\ res' # "ok" /\ rd'.err = "none" =>
              pos' = Len(src') /\ rd'.at >= rd'.block.len
        BY <1>1, <2>1, <4>1 DEF ChunkErrors
      <4> QED
        BY <4>2 DEF Spent
    <3>2. src \notin Flaky => ~failed
      BY <1>f, <2>2
    <3> QED
      BY <1>1, <3>1, <3>2 DEF SpentInv, ReadErrors
  <2>5. CASE pc' = "skip" /\ res' = res /\ rd'.err = "none" /\ cur' + want' = cur + want
    <3>1. ProgressInv'
      BY <1>0, <1>1, <1>3, <1>b, <2>5 DEF ProgressInv, Working
    <3>2. EndInv' /\ KeptInv'
      BY <1>1, <1>2, <2>5 DEF EndInv, KeptInv
    <3> QED
      BY <1>2, <2>4, <3>1, <3>2
  <2>6. CASE pc' = "ret" /\ res' = "ok" /\ rd'.err = "none" /\ cur' = cur + want
    BY <1>2, <1>4, <2>3, <2>4, <2>6
  <2>7. CASE pc' = "ret" /\ res' \in ChunkErrors /\ (rd'.err = "none" \/ rd'.err = res')
    <3>1. res' \notin {"ok", "eof", "ueof"}
      BY <2>7 DEF ChunkErrors
    <3>2. KeptInv'
      BY <1>1, <2>7, <3>1 DEF KeptInv
    <3> QED
      BY <1>2, <1>5, <2>4, <2>7, <3>1, <3>2
  <2>8. "corrupt" \in ChunkErrors
    BY DEF ChunkErrors
  <2> QED
    BY <2>1, <2>5, <2>6, <2>7, <2>8
<1>8. CASE SkipEnd
  <2>1. /\ ~SkipInBuffer /\ pos = Len(src) /\ pos' = pos /\ cur' = cur + Avail /\ pc' = "ret"
        /\ \/ rd' = Drained /\ res' = "corrupt"
           \/ rd' = Err(Drained, "ueof") /\ res' = "ueof"
    BY <1>8 DEF SkipEnd, End
  <2>2. /\ Err(Drained, "ueof").err = "ueof" /\ Err(Drained, "ueof").at = Drained.at
        /\ Err(Drained, "ueof").block = Drained.block
    BY <1>d, ErrParts DEF ReadErrors
  <2>3. rd'.at = rd'.block.len /\ (rd'.err # "none" => res' = rd'.err)
    BY <1>1, <1>d, <2>1, <2>2
  <2>4. op = "skip" => Len(Data(src)) - got.from < got.n
    <3>1. cur + Avail = Len(Data(src)) /\ Len(Data(src)) \in Nat
      BY <1>d, <2>1, DataType
    <3>2. op = "skip" => cur + want = got.from + got.n
      BY <1>3
    <3>3. Avail < want
      BY <1>d, <1>t, <2>1 DEF SkipInBuffer
    <3> QED
      BY <1>d, <1>t, <3>1, <3>2, <3>3
  <2>5. KeptInv'
    BY <1>1, <2>1, <2>3, <2>4 DEF KeptInv
  <2>6. Spent'
    <3>1. rd'.at \in Nat
      BY DEF SeekTypeOK, ReaderFields
    <3> QED
      BY <1>1, <2>1, <2>3, <3>1 DEF Spent
  <2>7. SpentInv'
    BY <1>1, <1>f, <2>1, <2>6 DEF SpentInv, Working
  <2> QED
    BY <1>2, <1>5, <2>1, <2>5, <2>7
<1>9. CASE SkipFails
  <2>1. /\ src \in Flaky /\ ~SkipInBuffer /\ pc' = "ret" /\ res' = "io"
        /\ \/ rd' = Drained
           \/ BodyFails(SkipHandle(Drained, CutChunk, pos + 1, want - Avail))
    BY <1>9 DEF SkipFails, End
  <2>2. want - Avail \in Nat
    BY <1>d, <1>t, <2>1 DEF SkipInBuffer
  <2>3. BodyFails(SkipHandle(Drained, CutChunk, pos + 1, want - Avail)) => rd'.err = "io"
    BY <1>1, <1>d, <2>2, BodyFailsStep
  <2>4. rd'.err = "none" \/ rd'.err = "io"
    BY <1>1, <1>d, <2>1, <2>3
  <2>5. KeptInv' /\ SpentInv'
    BY <1>1, <2>1, <2>4 DEF KeptInv, SpentInv
  <2> QED
    BY <1>2, <1>5, <2>1, <2>5
<1> QED
  BY <1>6, <1>7, <1>8, <1>9

\* The steps of a seek.
LEMMA RestSeek ==
  ASSUME SeekInv, CoreInv',
         SeekHeader \/ SeekFilled \/ SeekInBlock \/ SeekByIndex \/ SeekFails
  PROVE  RestInv'
PROOF
<1> USE DEF SeekInv, CoreInv, RestInv
<1>0. UNCHANGED <<src, op, buf, got, failed, wrapped, index, total, target>>
  BY DEF SeekHeader, SeekFilled, SeekInBlock, SeekByIndex, SeekFails, seekVars, callVars
<1>1. pc \in {"fill", "find", "locate"} /\ pc' \in {"fill", "locate", "skip", "ret"}
  BY DEF SeekHeader, SeekFilled, SeekInBlock, SeekByIndex, SeekFails, AtLocate, End
<1>2. op \in {"seek", "readat"} /\ op \in SeekCalls /\ wrapped
  BY <1>1 DEF SeekHeader, SeekFilled, SeekInBlock, SeekByIndex, SeekFails, AtLocate, LoopInv,
              Working, SeekCalls
<1>3. ReadsInOrder' /\ SeekLands' /\ SkipExact' /\ EndIsEnd' /\ got'.res # "eof"
  BY <1>0, <1>1, InCall
<1>4. got.from = target /\ buf = <<>> /\ BytesAt(buf, got.from)
  BY <1>1, <1>2 DEF ProgressInv, Working
<1>b. BytesAt(buf, got.from)'
  BY <1>0, <1>4, BytesStay
<1>5. KeptInv'
  BY <1>0, <1>2 DEF KeptInv
<1>6. SpentInv'
  <2>1. src \notin Flaky => ~failed
    BY <1>1, <1>2, Fresher DEF Working
  <2> QED
    BY <1>0, <1>1, <1>2, <2>1 DEF SpentInv
<1>t. /\ rd \in ReaderFields /\ rd.start \in Nat /\ target \in Nat /\ rd.at \in Nat
  BY InputFacts DEF SeekTypeOK
<1>7. ASSUME pc' = "ret" => res' # "ok", pc' # "skip", pc' = "ret" => res' # "eof"
      PROVE  RestInv'
  <2>1. ProgressInv'
    BY <1>0, <1>1, <1>2, <1>4, <1>7, <1>b DEF ProgressInv
  <2> QED
    BY <1>0, <1>1, <1>3, <1>5, <1>6, <1>7, <2>1 DEF EndInv
<1>8. CASE SeekHeader \/ SeekFilled \/ SeekFails
  <2>1. pc' # "skip" /\ (pc' = "ret" => res' \in {"corrupt", "io"})
    BY <1>8 DEF SeekHeader, SeekFilled, SeekFails, End
  <2> QED
    BY <1>7, <2>1
<1>9. CASE SeekInBlock
  <2>1. pc' = "ret" /\ res' = "ok" /\ cur' = target /\ rd' = [rd EXCEPT !.at = target - rd.start]
    BY <1>9 DEF SeekInBlock, End
  <2>2. rd'.start = rd.start /\ rd'.at = target - rd.start
    BY <1>t, <2>1 DEF ReaderFields
  <2>3. rd'.start + rd'.at = target
    BY <1>t, <2>2
  <2>4. ProgressInv'
    BY <1>0, <1>2, <1>4, <1>b, <2>1, <2>3 DEF ProgressInv
  <2> QED
    BY <1>0, <1>3, <1>5, <1>6, <2>1, <2>4 DEF EndInv
<1>10. CASE SeekByIndex
  <2> DEFINE e == Find(index, target)
  <2>1. /\ rd' = Jumped(e.u) /\ cur' = e.u /\ want' = target - e.u
        /\ IF e.u < target THEN pc' = "skip" /\ res' = res ELSE pc' = "ret" /\ res' = "ok"
    BY <1>10 DEF SeekByIndex, End
  <2>2. e.u \in Nat /\ e.u <= target
    BY <1>2, <1>t, FindSound
  <2> HIDE DEF e
  <2>3. rd'.start = e.u /\ rd'.at = 0
    BY <1>t, <2>1 DEF Jumped, ReaderFields
  <2>4. pc' = "skip" => cur' + want' = got.from + 0
    BY <1>4, <1>t, <2>1, <2>2
  <2>5. pc' = "ret" => cur' = got.from /\ rd'.start + rd'.at = got.from
    BY <1>4, <1>t, <2>1, <2>2, <2>3
  <2>6. pc' \in {"skip", "ret"} /\ (pc' = "ret" => res' = "ok")
    BY <2>1
  <2>7. ProgressInv'
    BY <1>0, <1>2, <1>4, <1>b, <2>4, <2>5, <2>6 DEF ProgressInv
  <2> QED
    BY <1>0, <1>3, <1>5, <1>6, <2>6, <2>7 DEF EndInv
<1> QED
  BY <1>8, <1>9, <1>10

\* The invariant holds in the beginning.
LEMMA SeekInitial ==
  ASSUME SInit
  PROVE  SeekInv
PROOF
<1>1. /\ src \in Streams /\ pos = 0 /\ rd = Fresh /\ pc = "idle" /\ op = "none" /\ want = 0
      /\ res = "ok" /\ buf = <<>> /\ cur = 0 /\ base = 0 /\ got = NoCall /\ failed = FALSE
      /\ target = 0
  BY DEF SInit, Init
<1>2. src \in Seq(WireChunk) /\ Len(src) \in Nat
  BY <1>1, StreamsAssumption DEF Input
<1>3. /\ rd \in ReaderFields /\ rd.start = 0 /\ rd.at = 0 /\ rd.block.len = 0 /\ rd.err = "none"
  BY <1>1, ReaderAssumption DEF Fresh, NoBlock, ReaderFields
<1>4. wrapped \in BOOLEAN /\ total \in Int
  <2>1. Before(src, Len(src)) \in Seq(Byte) /\ Before(src, Len(src)) = Data(src)
    BY <1>2, BeforeChunks
  <2>2. Len(Data(src)) \in Nat
    BY <2>1
  <2> QED
    <3>1. wrapped \in BOOLEAN
      BY Zenon DEF SInit
    <3>2. total = -1 \/ total = Len(Data(src))
      BY Zenon DEF SInit
    <3> QED
      BY <2>2, <3>1, <3>2
<1>5. got \in CallRec /\ got.op = "none" /\ got.res = "ok" /\ got.from = 0 /\ got.bytes = <<>>
  BY <1>1 DEF NoCall, CallRec, Ops, Results
<1>6. SeekTypeOK
  <2>1. 0 \in 0..Len(src) /\ <<>> \in Seq(Byte)
    BY <1>2
  <2> QED
    BY <1>1, <1>3, <1>4, <1>5, <2>1 DEF SeekTypeOK, Ops, Results
<1>7. IndexInv
  BY DEF SInit, IndexInv
<1>8. LoopInv
  BY <1>1, <1>3 DEF LoopInv, Working
<1>9. AlignInv
  <2>1. Place(src, 0) = 0
    BY <1>2, Places
  <2> QED
    BY <1>1, <1>3, <2>1 DEF AlignInv, Aligned
<1>10. TrackInv
  BY <1>1, <1>3 DEF TrackInv
<1>11. ReadsInOrder
  <2>1. BytesAt(<<>>, 0)
    BY NoBytesAt
  <2> QED
    BY <1>5, <2>1 DEF ReadsInOrder, BytesAt
<1>12. ProgressInv /\ EndInv /\ KeptInv /\ EndIsEnd /\ SkipExact /\ SeekLands
  BY <1>1, <1>3, <1>5 DEF ProgressInv, EndInv, KeptInv, EndIsEnd, SkipExact, SeekLands, Working
<1>13. SpentInv
  BY <1>1, <1>5 DEF SpentInv, Failed
<1> QED
  BY <1>6, <1>7, <1>8, <1>9, <1>10, <1>11, <1>12, <1>13 DEF SeekInv, CoreInv, RestInv

\* Every step keeps the invariant.
LEMMA SeekStep ==
  ASSUME SingleStreams, SeekInv, [SNext]_svars
  PROVE  SeekInv'
PROOF
<1>1. CoreInv /\ CoreInv' /\ SeekTypeOK
  BY CoreStep DEF SeekInv, CoreInv
<1>2. UNCHANGED svars => RestInv'
  <2>1. SUFFICES ASSUME UNCHANGED svars PROVE RestInv'
    OBVIOUS
  <2>2. UNCHANGED <<src, pos, rd, pc, op, want, res, buf, cur, base, got, failed, wrapped, target>>
    BY <2>1 DEF svars, vars, callVars, seekVars
  <2>3. ProgressInv' /\ EndInv' /\ KeptInv'
    BY <2>2 DEF SeekInv, RestInv, ProgressInv, BytesAt, Sound, EndInv, KeptInv, Failed, Working
  <2>4. SpentInv'
    BY <2>2 DEF SeekInv, RestInv, SpentInv, Spent, Failed, Working
  <2>5. ReadsInOrder' /\ EndIsEnd' /\ SkipExact' /\ SeekLands'
    BY <2>2 DEF SeekInv, RestInv, ReadsInOrder, Sound, EndIsEnd, SkipExact, SeekLands
  <2> QED
    BY <2>3, <2>4, <2>5 DEF RestInv
<1>3. Steps /\ UNCHANGED seekVars => RestInv'
  BY <1>1, RestReturn, RestFill, RestSkip DEF Steps
<1>4. SeekSteps => RestInv'
  <2>1. CopyAt \/ EndAt => UNCHANGED seekVars
    BY DEF CopyAt, EndAt
  <2> QED
    BY <1>1, <2>1, RestReturn, RestFill, RestSeek DEF SeekSteps
<1>5. RestInv'
  BY <1>1, <1>2, <1>3, <1>4, StepCases, RestBegin, RestSeekCall, RestOther
<1> QED
  BY <1>1, <1>5 DEF SeekInv

----------------------------------------------------------------------------
(* The Reader that reads through.  On an input it accepts, a Reader that has   *)
(* skipped or jumped to a chunk knows what that one knows there.               *)

\* What it knows behind chunk k.
Ref(st, k) == RunUpTo(st)[k]

\* The bytes of the stream counted so far.
Total(s) == s.start + s.block.len

\* Two states with which a chunk is taken in the same way.
Same(s, r) == /\ s.header <=> r.header
              /\ s.expectEof <=> r.expectEof
              /\ s.max = r.max
              /\ Total(s) = Total(r)

NoSid(st, p) == \A k \in 1..p : st[k].t # "sid"

\* Back at the beginning, a ReadSeeker has what the identifier said already, or
\* looks for it again.
Searching(st, p, s) == /\ st \in Seekable
                       /\ NoSid(st, p)
                       /\ s.header <=> s.expectEof
                       /\ s.header => ~NoSid(st, Len(st))

Knows(st, p, s) == Same(s, Ref(st, p)) \/ Searching(st, p, s)

\* m is the block limit at every block of st.
MaxKnown(st, m) == \A k \in 1..Len(st) : DataChunk(st[k]) => m = Ref(st, k - 1).max

Good == src \notin Flaky /\ SeqResult(src) = "none"

\* On a good input nothing goes wrong, and calls know where they are.
KnowInv ==
  /\ rd.err \in {"none", "ueof"} /\ Knows(src, pos, rd)
  /\ wrapped /\ rd.header /\ pc \notin {"fill", "skip"} => MaxKnown(src, rd.max)

\* What a call is going to return.
AnswerInv ==
  /\ pc = "locate" => Unread \/ pos = Len(src)
  /\ pc = "skip" /\ op # "skip" => want > 0
  /\ pc = "ret" /\ op \notin SeekCalls => res \in {"ok", "eof", "ueof"}
  /\ pc = "ret" /\ op \in SeekCalls =>
       /\ res \in {"ok", "eof", "ueof", "invalid", "unsupported"}
       /\ res = "ueof" => got.from > Len(Data(src))
       /\ res = "eof" => op = "fillat"
  /\ pc \in {"fill", "ret"} /\ op = "fillat" => /\ got.n = Len(buf) + want
                                                /\ cur = got.from + Len(buf)
                                                /\ pc = "ret" /\ res = "ok" => want = 0

Fine == KnowInv /\ AnswerInv /\ NoSpuriousError /\ SeekSucceeds

\* A total is that of the input.
TotalInv == wrapped => total \in {-1, Len(Data(src))}

GoodInv == TotalInv /\ (Good => Fine)

\* A ReadSeeker's inputs have no EOF chunk with a total in front of the identifier:
\* looking for the identifier again it would be compared with the end of the data.
\* Nor may identifiers be left out: behind the end there is none to be found again.
IdFirst(st) == \A k \in 1..Len(st) : st[k].t = "eof" => ~NoSid(st, k)
Findable == \A st \in Seekable : ~IgnoreStreamId /\ IdFirst(st)

----------------------------------------------------------------------------
(* How a chunk is taken *)

\* State s has no objection to chunk c.
Accepts(s, c) ==
  /\ c.t \notin {"reserved", "noskip", "stub"}
  /\ DataChunk(c) => s.header /\ Intact(c) /\ c.n <= s.max /\ (c.t = "comp" => c.n # 0)
  /\ c.t \in {"eof", "eof0"} =>
       c.bad # "cut" /\ (c.t = "eof" /\ ~IgnoreStreamId => c.n = Total(s))
  /\ c.t = "sid" => c.bad \notin {"cut", "magic"} /\ c.n <= MaxBlockUser
  /\ c.t \in {"skip", "user"} => c.bad \notin {"cut", "cb"}

\* r is what s becomes with chunk c, as far as later chunks are concerned.
Passes(s, c, r) ==
  /\ r \in ReaderFields
  /\ r.err = "none"
  /\ r.header <=> c.t \notin {"eof", "eof0"} /\ (s.header \/ c.t = "sid")
  /\ r.expectEof <=> c.t \notin {"eof", "eof0"} /\ (s.expectEof \/ c.t = "sid")
  /\ r.max = IF c.t = "sid" THEN c.n ELSE s.max
  /\ Total(r) = IF c.t = "sid" THEN 0 ELSE IF DataChunk(c) THEN Total(s) + c.n ELSE Total(s)

\* Chunks that are not data.
LEMMA MetaPasses ==
  ASSUME NEW s \in ReaderFields, s.err = "none", NEW c \in AnyChunk, Fits(c), ~DataChunk(c)
  PROVE  LET r == HandleMeta(PastGate(s, c), c)
         IN  /\ c.t # "reserved" /\ Accepts(s, c) => Passes(s, c, r)
             /\ ~Accepts(s, c) => r.err # "none"
PROOF
<1> DEFINE q == PastGate(s, c)
<1>1. /\ q \in ReaderFields /\ q.start = s.start /\ q.block = s.block
      /\ q.err = s.err /\ q.header = (s.header \/ c.t = "sid") /\ q.max = s.max
      /\ q.expectEof = s.expectEof
  BY StateParts
<1> HIDE DEF q
<1>t. Total(q) = Total(s) /\ Total(s) \in Nat
  BY <1>1 DEF Total, ReaderFields
<1>e. \A e \in ReadErrors : Err(q, e).err # "none"
  <2>1. \A e \in ReadErrors : Err(q, e).err = e
    BY <1>1, ErrParts
  <2> QED
    BY <2>1 DEF ReadErrors
<1>2. CASE c.t \in {"eof", "eof0"}
  <2> DEFINE r == [q EXCEPT !.expectEof = FALSE, !.header = FALSE]
  <2>1. /\ r \in ReaderFields /\ r.start = q.start /\ r.block = q.block /\ r.max = q.max
        /\ r.err = q.err /\ r.header = FALSE /\ r.expectEof = FALSE
    BY <1>1 DEF ReaderFields
  <2>2. HandleMeta(q, c) = IF c.bad = "cut" \/ (c.t = "eof" /\ ~IgnoreStreamId /\ c.n # Total(q))
                           THEN Err(q, "corrupt") ELSE r
    BY <1>2 DEF HandleMeta, HandleEof, Total
  <2> HIDE DEF r
  <2>3. Accepts(s, c) <=> ~(c.bad = "cut" \/ (c.t = "eof" /\ ~IgnoreStreamId /\ c.n # Total(q)))
    BY <1>2, <1>t DEF Accepts, DataChunk
  <2>4. Passes(s, c, r)
    <3>1. Total(r) = Total(s)
      BY <1>t, <2>1 DEF Total
    <3> QED
      BY <1>1, <1>2, <2>1, <3>1 DEF Passes, DataChunk
  <2>5. "corrupt" \in ReadErrors
    BY DEF ReadErrors
  <2> QED
    BY <1>e, <2>2, <2>3, <2>4, <2>5 DEF q
<1>3. CASE c.t = "sid"
  <2> DEFINE r == [q EXCEPT !.max = c.n, !.start = 0, !.block = NoBlock, !.at = 0,
                            !.expectEof = TRUE]
  <2>1. NoBlock \in [id : Nat, len : Nat] /\ NoBlock.len = 0 /\ c.n \in Nat
    BY DEF NoBlock, AnyChunk
  <2>2. r \in ReaderFields
    BY <1>1, <2>1 DEF ReaderFields
  <2>3. /\ r.start = 0 /\ r.block = NoBlock /\ r.err = q.err
        /\ r.header = q.header /\ r.max = c.n /\ r.expectEof = TRUE
    BY <1>1 DEF ReaderFields
  <2>4. HandleMeta(q, c) = IF c.bad = "cut" THEN Err(q, "corrupt")
                           ELSE IF c.bad = "magic" THEN Err(q, "unsupported")
                           ELSE IF c.n > MaxBlockUser THEN Err(q, "toolarge") ELSE r
    BY <1>3 DEF HandleMeta, HandleStreamIdentifier
  <2> HIDE DEF r
  <2>5. Passes(s, c, r)
    <3>1. Total(r) = 0
      BY <2>1, <2>3 DEF Total
    <3> QED
      BY <1>1, <1>3, <2>2, <2>3, <3>1 DEF Passes, DataChunk
  <2>6. {"corrupt", "unsupported", "toolarge"} \subseteq ReadErrors
    BY DEF ReadErrors
  <2>7. c.n > MaxBlockUser <=> ~(c.n <= MaxBlockUser)
    BY <2>1, ReaderAssumption
  <2>8. Accepts(s, c) <=> c.bad # "cut" /\ c.bad # "magic" /\ c.n <= MaxBlockUser
    BY <1>3 DEF Accepts, DataChunk
  <2> QED
    BY <1>e, <2>4, <2>5, <2>6, <2>7, <2>8 DEF q
<1>4. CASE c.t \in {"skip", "user"}
  <2>1. HandleMeta(q, c) = IF c.bad = "cut" THEN Err(q, "corrupt")
                           ELSE IF c.bad = "cb" THEN Err(q, "callback") ELSE q
    BY <1>4 DEF HandleMeta, HandleSkippable
  <2>2. Passes(s, c, q)
    BY <1>1, <1>t, <1>4 DEF Passes, DataChunk
  <2>3. {"corrupt", "callback"} \subseteq ReadErrors
    BY DEF ReadErrors
  <2>4. Accepts(s, c) <=> c.bad # "cut" /\ c.bad # "cb"
    BY <1>4 DEF Accepts, DataChunk
  <2> QED
    BY <1>e, <2>1, <2>2, <2>3, <2>4 DEF q
<1>5. CASE c.t \in {"reserved", "noskip", "stub"}
  <2>1. HandleMeta(q, c) \in {Err(q, "corrupt"), Err(q, "unsupported")}
    BY <1>5 DEF HandleMeta, HandleSkippable
  <2>2. {"corrupt", "unsupported"} \subseteq ReadErrors /\ ~Accepts(s, c)
    BY <1>5 DEF ReadErrors, Accepts
  <2> QED
    BY <1>e, <2>1, <2>2 DEF q
<1> QED
  BY <1>2, <1>3, <1>4, <1>5 DEF DataChunk, AnyChunk, ChunkTypes

\* A block in decoded, as both data handlers leave it.
LEMMA LoadPasses ==
  ASSUME NEW s \in ReaderFields, s.err = "none", s.header, NEW c \in AnyChunk, DataChunk(c),
         NEW i \in Nat, NEW k \in Nat
  PROVE  LET r == Checked(Load(Passed(s), c, i), c, k)
         IN  /\ c.bad \in {"no", "crc"} /\ Intact(c) => Passes(s, c, r)
             /\ c.bad = "crc" /\ ~Intact(c) => r.err # "none"
PROOF
<1> DEFINE q == Load(Passed(s), c, i)
           r == [q EXCEPT !.at = k]
<1>1. /\ Passed(s) \in ReaderFields /\ Passed(s).start = Total(s) /\ Passed(s).max = s.max
      /\ Passed(s).err = s.err /\ Passed(s).header = s.header
      /\ Passed(s).expectEof = s.expectEof
  BY StateParts DEF Total
<1>2. /\ q \in ReaderFields /\ q.start = Passed(s).start /\ q.err = Passed(s).err
      /\ q.block = [id |-> i, len |-> c.n]
      /\ q.header = Passed(s).header /\ q.expectEof = Passed(s).expectEof
  BY <1>1, StateParts, Zenon
<1>3. q.max = s.max
  BY <1>1 DEF Load, ReaderFields
<1>4. c.n \in Nat /\ Total(s) \in Nat
  BY DEF AnyChunk, Total, ReaderFields
<1> HIDE DEF q
<1>5. CASE c.bad = "crc" /\ ~Intact(c)
  <2>1. Checked(q, c, k) = Err(q, "crc") /\ "crc" \in ReadErrors
    BY <1>5 DEF Checked, Intact, ReadErrors
  <2>2. Err(q, "crc").err = "crc"
    BY <1>2, <2>1, ErrParts
  <2> QED
    BY <1>5, <2>1, <2>2 DEF q
<1>6. CASE c.bad \in {"no", "crc"} /\ Intact(c)
  <2>1. Checked(q, c, k) = r
    BY <1>6 DEF Checked, Intact
  <2>2. /\ r \in ReaderFields /\ r.start = q.start /\ r.block = q.block /\ r.err = q.err
        /\ r.header = q.header /\ r.expectEof = q.expectEof /\ r.max = q.max
    BY <1>2 DEF ReaderFields
  <2> HIDE DEF r
  <2>3. Total(r) = Total(s) + c.n
    BY <1>1, <1>2, <1>4, <2>2 DEF Total
  <2>4. Passes(s, c, r)
    BY <1>1, <1>2, <1>3, <2>2, <2>3 DEF Passes, DataChunk
  <2> QED
    BY <1>6, <2>1, <2>4 DEF q
<1> QED
  BY <1>5, <1>6

\* fill_decoded takes a chunk that is acceptable, and no other.
LEMMA HandlePasses ==
  ASSUME NEW s \in ReaderFields, s.err = "none", NEW c \in AnyChunk, Fits(c), NEW i \in Nat
  PROVE  LET r == HandleChunk(s, c, i)
         IN  /\ Accepts(s, c) => Passes(s, c, r)
             /\ ~Accepts(s, c) => r.err # "none"
PROOF
<1> DEFINE q == PastGate(s, c)
<1>1. CASE ~s.header /\ NeedsHeader(c)
  <2>1. HandleChunk(s, c, i) = Err(s, "corrupt") /\ "corrupt" \in ReadErrors
    BY <1>1 DEF HandleChunk, ReadErrors
  <2>2. ~Accepts(s, c)
    BY <1>1 DEF Accepts, NeedsHeader, DataChunk
  <2>3. Err(s, "corrupt").err = "corrupt"
    BY <2>1, ErrParts
  <2> QED
    BY <2>1, <2>2, <2>3
<1>2. CASE DataChunk(c) /\ s.header
  <2>p. /\ q \in ReaderFields /\ q.err = s.err /\ q.header = (s.header \/ c.t = "sid")
        /\ q.start = s.start /\ q.block = s.block /\ q.max = s.max /\ q.expectEof = s.expectEof
    BY StateParts, Zenon
  <2>1. q.header /\ q.err = "none" /\ Total(q) = Total(s)
    BY <1>2, <2>p DEF Total
  <2>h. HandleChunk(s, c, i) = IF c.t = "comp" THEN HandleCompressed(q, c, i)
                               ELSE HandleUncompressed(q, c, i)
    BY <1>2 DEF HandleChunk, DataChunk
  <2> HIDE DEF q
  <2>2. Passed(q) \in ReaderFields /\ Load(Passed(q), c, i) \in ReaderFields
        /\ [Passed(q) EXCEPT !.block = NoBlock] \in ReaderFields
    BY <2>p, StateParts
  <2>3. "corrupt" \in ReadErrors /\ "toolarge" \in ReadErrors
    BY DEF ReadErrors
  <2>4. /\ Err(q, "corrupt").err # "none" /\ Err(Passed(q), "corrupt").err # "none"
        /\ Err(Passed(q), "toolarge").err # "none"
        /\ Err([Passed(q) EXCEPT !.block = NoBlock], "corrupt").err # "none"
        /\ Err(Load(Passed(q), c, i), "corrupt").err # "none"
    BY <2>p, <2>2, <2>3, ErrParts
  <2> DEFINE r == Checked(Load(Passed(q), c, i), c, 0)
  <2>5. /\ c.bad \in {"no", "crc"} /\ Intact(c) => Passes(q, c, r)
        /\ c.bad = "crc" /\ ~Intact(c) => r.err # "none"
    BY <1>2, <2>p, <2>1, LoadPasses
  <2>6. Passes(q, c, r) => Passes(s, c, r)
    BY <2>p, <2>1, <1>2 DEF Passes, DataChunk
  <2> HIDE DEF r
  <2>7. Accepts(s, c) <=> Intact(c) /\ c.n <= q.max /\ (c.t = "comp" => c.n # 0)
    BY <1>2, <2>p DEF Accepts, DataChunk
  <2>8. c.n > q.max <=> ~(c.n <= q.max)
    BY <2>p DEF ReaderFields, AnyChunk
  <2>9. /\ Intact(c) => c.bad \in {"no", "crc"}
        /\ c.bad = "no" => Intact(c)
        /\ c.bad \notin {"no", "crc"} => c.bad \in {"short", "long", "cut", "dlen", "body"}
        /\ c.t = "raw" => c.bad \notin {"dlen", "body"}
    BY <1>2 DEF Intact, Fits, AnyChunk, Defects, DataChunk
  <2>10. CASE c.t = "comp"
    <3>1. HandleCompressed(q, c, i) =
            IF c.bad = "short" THEN Err(q, "corrupt")
            ELSE IF c.bad \in {"long", "cut", "dlen"} \/ c.n = 0 THEN Err(Passed(q), "corrupt")
            ELSE IF c.n > q.max THEN Err(Passed(q), "toolarge")
            ELSE IF c.bad = "body" THEN Err([Passed(q) EXCEPT !.block = NoBlock], "corrupt")
            ELSE r
      BY DEF HandleCompressed, r
    <3> QED
      BY <2>h, <2>4, <2>5, <2>6, <2>7, <2>8, <2>9, <2>10, <3>1
  <2>11. CASE c.t = "raw"
    <3>1. HandleUncompressed(q, c, i) =
            IF c.bad = "short" THEN Err(q, "corrupt")
            ELSE IF c.n > q.max \/ c.bad = "long" THEN Err(Passed(q), "toolarge")
            ELSE IF c.bad = "cut" THEN Err(Load(Passed(q), c, i), "corrupt")
            ELSE r
      BY DEF HandleUncompressed, r
    <3> QED
      BY <2>h, <2>4, <2>5, <2>6, <2>7, <2>8, <2>9, <2>11, <3>1
  <2> QED
    BY <1>2, <2>10, <2>11 DEF DataChunk
<1>3. CASE ~DataChunk(c) /\ ~(~s.header /\ NeedsHeader(c))
  <2>1. HandleChunk(s, c, i) = HandleMeta(q, c)
    BY <1>3 DEF HandleChunk, DataChunk
  <2>2. Accepts(s, c) => c.t # "reserved"
    BY DEF Accepts
  <2> QED
    BY <1>3, <2>1, <2>2, MetaPasses
<1> QED
  BY <1>1, <1>2, <1>3 DEF NeedsHeader, DataChunk

\* skip takes every chunk that is acceptable.
LEMMA SkipPasses ==
  ASSUME NEW s \in ReaderFields, s.err = "none", NEW c \in AnyChunk, Fits(c), NEW i \in Nat,
         NEW n \in Nat, Accepts(s, c)
  PROVE  Passes(s, c, SkipHandle(s, c, i, n))
PROOF
<1> DEFINE q == PastGate(s, c)
<1>1. CASE DataChunk(c)
  <2>p. /\ q \in ReaderFields /\ q.err = s.err /\ q.header = (s.header \/ c.t = "sid")
        /\ q.start = s.start /\ q.block = s.block /\ q.max = s.max /\ q.expectEof = s.expectEof
    BY StateParts, Zenon
  <2>0. s.header
    BY <1>1 DEF Accepts
  <2>1. q.header /\ q.err = "none" /\ Total(q) = Total(s)
    BY <2>p, <2>0 DEF Total
  <2>h. SkipHandle(s, c, i, n) = IF c.t = "comp" THEN SkipCompressed(q, c, i, n)
                                 ELSE SkipUncompressed(q, c, i, n)
    BY <1>1, <2>0 DEF SkipHandle, DataChunk
  <2> HIDE DEF q
  <2> DEFINE r == Checked(Load(Passed(q), c, i), c, n)
             w == SkipWhole(q, c)
  <2>2. Intact(c) /\ c.n <= q.max /\ (c.t = "comp" => c.n # 0) /\ c.bad \in {"no", "crc"}
    BY <1>1, <2>p DEF Accepts, Intact
  <2>3. ~(c.n > q.max)
    BY <2>2, <2>p DEF ReaderFields, AnyChunk
  <2>4. Passes(q, c, r)
    BY <1>1, <2>p, <2>1, <2>2, LoadPasses
  <2>5. Passes(q, c, w)
    <3>1. c.n \in Nat /\ q.start + q.block.len + c.n \in Nat /\ NoBlock \in [id : Nat, len : Nat]
          /\ NoBlock.len = 0
      BY <2>p DEF ReaderFields, AnyChunk, NoBlock
    <3>2. w \in ReaderFields
      BY <2>p, <3>1 DEF SkipWhole, ReaderFields
    <3>3. /\ w.start = q.start + q.block.len + c.n /\ w.block = NoBlock
          /\ w.err = q.err /\ w.header = q.header /\ w.max = q.max /\ w.expectEof = q.expectEof
      BY <2>p DEF SkipWhole, ReaderFields
    <3> HIDE DEF w
    <3>4. Total(w) = Total(q) + c.n
      BY <3>1, <3>3, <2>p DEF Total, ReaderFields
    <3> QED
      BY <1>1, <2>1, <3>2, <3>3, <3>4 DEF Passes, DataChunk
  <2> HIDE DEF r, w
  <2>6. SkipHandle(s, c, i, n) \in {r, w}
    <3>1. c.t = "comp" => SkipCompressed(q, c, i, n) = IF c.n <= n THEN w ELSE r
      BY <2>2, <2>3 DEF SkipCompressed, r, w
    <3>2. SkipUncompressed(q, c, i, n) = IF c.n <= n THEN w ELSE r
      BY <2>2, <2>3 DEF SkipUncompressed, r, w
    <3> QED
      BY <2>h, <3>1, <3>2
  <2>7. \A x : Passes(q, c, x) => Passes(s, c, x)
    BY <1>1, <2>p, <2>1 DEF Passes, DataChunk
  <2> QED
    BY <2>4, <2>5, <2>6, <2>7
<1>2. CASE ~DataChunk(c)
  <2>1. ~NeedsHeader(c) /\ c.t # "reserved"
    BY <1>2 DEF Accepts, NeedsHeader, DataChunk
  <2>2. SkipHandle(s, c, i, n) = HandleMeta(q, c)
    BY <1>2, <2>1 DEF SkipHandle, DataChunk
  <2> QED
    BY <1>2, <2>1, <2>2, MetaPasses
<1> QED
  BY <1>1, <1>2

----------------------------------------------------------------------------
(* The states of the Reader that reads through *)

\* It meets no error on an input it accepts, and no end where none may be.
LEMMA RefSteps ==
  ASSUME NEW st \in Seq(WireChunk), SeqResult(st) = "none"
  PROVE  /\ \A k \in 0..Len(st) : Ref(st, k) \in ReaderFields /\ Ref(st, k).err = "none"
         /\ Ref(st, 0) = Fresh
         /\ \A k \in 1..Len(st) : Ref(st, k) = HandleChunk(Ref(st, k - 1), st[k], k)
         /\ ~Ref(st, Len(st)).expectEof
PROOF
<1> DEFINE L == Len(st)
           h == RunUpTo(st)
<1>0. L \in Nat /\ 0 \in 0..L /\ L \in 0..L
  OBVIOUS
<1>f. Fresh \in ReaderFields
  BY ReaderAssumption DEF Fresh, NoBlock, ReaderFields
<1>1. /\ \A k \in 0..L : h[k] \in ReaderFields
      /\ h[0] = Fresh
      /\ \A k \in (0 + 1)..L : h[k] = IF h[k - 1].err # "none" THEN h[k - 1]
                                      ELSE HandleChunk(h[k - 1], st[k], k)
  BY <1>0, <1>f, RunSteps DEF RunUpTo
<1> HIDE DEF h
<1>2. h[L].err = "none" /\ ~h[L].expectEof
  <2>1. h[L] \in ReaderFields
    BY <1>0, <1>1
  <2>2. SeqResult(st) = AtEnd(h[L]).err
    BY DEF SeqResult, h
  <2>3. CASE h[L].err = "none" /\ h[L].expectEof
    <3>1. AtEnd(h[L]) = Err(h[L], "corrupt") /\ "corrupt" \in ReadErrors
      BY <2>3 DEF AtEnd, ReadErrors
    <3>2. Err(h[L], "corrupt").err = "corrupt"
      BY <2>1, <3>1, ErrParts
    <3> QED
      BY <2>2, <3>1, <3>2
  <2>4. CASE ~(h[L].err = "none" /\ h[L].expectEof)
    BY <2>2, <2>4 DEF AtEnd
  <2> QED
    BY <2>3, <2>4
<1> DEFINE S == {d \in 0..L : h[L - d].err = "none"}
<1>3. 0 \in S
  BY <1>0, <1>2
<1>4. ASSUME NEW d \in 0..(L - 1), d \in S PROVE d + 1 \in S
  <2>1. /\ d + 1 \in 0..L /\ L - d \in (0 + 1)..L /\ (L - d) - 1 = L - (d + 1)
    BY <1>0
  <2>2. h[L - d] = IF h[L - (d + 1)].err # "none" THEN h[L - (d + 1)]
                   ELSE HandleChunk(h[L - (d + 1)], st[L - d], L - d)
    BY <1>1, <2>1
  <2>3. h[L - (d + 1)].err = "none"
    BY <1>4, <2>2
  <2> QED
    BY <2>1, <2>3
<1>5. \A d \in 0..L : d \in S
  <2> HIDE DEF S
  <2> QED
    BY <1>0, <1>3, <1>4, UpTo
<1>6. ASSUME NEW k \in 0..L PROVE h[k].err = "none"
  <2>1. L - k \in 0..L /\ L - (L - k) = k
    BY <1>0
  <2> QED
    BY <1>5, <2>1
<1>7. ASSUME NEW k \in 1..L PROVE h[k] = HandleChunk(h[k - 1], st[k], k)
  <2>1. k \in (0 + 1)..L /\ k - 1 \in 0..L
    BY <1>0
  <2> QED
    BY <1>1, <1>6, <2>1
<1> QED
  BY <1>1, <1>2, <1>6, <1>7 DEF Ref, h

\* Every chunk is acceptable to it, and has its effect.
LEMMA RefPasses ==
  ASSUME NEW st \in Seq(WireChunk), SeqResult(st) = "none", NEW p \in 0..(Len(st) - 1)
  PROVE  /\ Ref(st, p) \in ReaderFields /\ st[p + 1] \in AnyChunk /\ Fits(st[p + 1])
         /\ Accepts(Ref(st, p), st[p + 1])
         /\ Passes(Ref(st, p), st[p + 1], Ref(st, p + 1))
PROOF
<1>1. /\ p \in 0..Len(st) /\ p + 1 \in 0..Len(st) /\ p + 1 \in 1..Len(st) /\ (p + 1) - 1 = p
      /\ p + 1 \in Nat
  OBVIOUS
<1>2. /\ Ref(st, p) \in ReaderFields /\ Ref(st, p).err = "none" /\ Ref(st, p + 1).err = "none"
  BY <1>1, RefSteps
<1>3. Ref(st, p + 1) = HandleChunk(Ref(st, (p + 1) - 1), st[p + 1], p + 1)
  BY <1>1, RefSteps
<1>4. st[p + 1] \in AnyChunk /\ Fits(st[p + 1])
  <2>1. st[p + 1] \in WireChunk
    BY <1>1
  <2> QED
    BY <2>1 DEF WireChunk, AnyChunk
<1>5. /\ Accepts(Ref(st, p), st[p + 1]) =>
           Passes(Ref(st, p), st[p + 1], HandleChunk(Ref(st, p), st[p + 1], p + 1))
      /\ ~Accepts(Ref(st, p), st[p + 1]) => HandleChunk(Ref(st, p), st[p + 1], p + 1).err # "none"
  BY <1>1, <1>2, <1>4, HandlePasses
<1> QED
  BY <1>1, <1>2, <1>3, <1>4, <1>5

\* It has counted the data in front of the chunk, if that is of one stream.
LEMMA RefTotal ==
  ASSUME NEW st \in Seq(WireChunk), SeqResult(st) = "none", OneStream(st), NEW p \in 0..Len(st)
  PROVE  Total(Ref(st, p)) = Place(st, p)
PROOF
<1> DEFINE L == Len(st)
           S == {k \in 0..L : Total(Ref(st, k)) = Place(st, k)}
<1>0. L \in Nat
  OBVIOUS
<1>1. 0 \in S
  <2>1. Ref(st, 0) = Fresh /\ Place(st, 0) = 0
    BY RefSteps, Places
  <2>2. Total(Fresh) = 0
    BY DEF Total, Fresh, NoBlock
  <2> QED
    BY <1>0, <2>1, <2>2
<1>2. ASSUME NEW k \in 0..(L - 1), k \in S PROVE k + 1 \in S
  <2>1. k + 1 \in 0..L /\ k + 1 \in 1..L /\ (k + 1) - 1 = k /\ k \in 0..L
    BY <1>0
  <2>2. Passes(Ref(st, k), st[k + 1], Ref(st, k + 1))
    BY RefPasses
  <2>3. Place(st, k + 1) = Place(st, k) + (IF st[k + 1].t \in {"comp", "raw"} THEN st[k + 1].n ELSE 0)
    BY <2>1, Places
  <2>4. Place(st, k) \in Nat /\ Total(Ref(st, k)) = Place(st, k)
    BY <1>2, <2>1, Places
  <2>5. CASE st[k + 1].t = "sid"
    <3>1. Place(st, k) = 0
      BY <2>5, SidAtStart
    <3>2. Total(Ref(st, k + 1)) = 0 /\ Place(st, k + 1) = 0
      BY <2>2, <2>3, <2>5, <3>1 DEF Passes
    <3> QED
      BY <2>1, <3>2
  <2>6. CASE st[k + 1].t # "sid"
    <3>1. Total(Ref(st, k + 1)) = Place(st, k + 1)
      BY <2>2, <2>3, <2>4, <2>6 DEF Passes, DataChunk
    <3> QED
      BY <2>1, <3>1
  <2> QED
    BY <2>5, <2>6
<1>3. \A k \in 0..L : k \in S
  <2> HIDE DEF S
  <2> QED
    BY <1>0, <1>1, <1>2, UpTo
<1> QED
  BY <1>3

\* It knows an identifier only from the input, and an EOF chunk ends what that began.
LEMMA RefHeader ==
  ASSUME NEW st \in Seq(WireChunk), SeqResult(st) = "none", ~IgnoreStreamId, NEW p \in 0..Len(st)
  PROVE  /\ Ref(st, p).header <=> Ref(st, p).expectEof
         /\ Ref(st, p).header => ~NoSid(st, p)
PROOF
<1> DEFINE L == Len(st)
           P(k) == /\ Ref(st, k).header <=> Ref(st, k).expectEof
                   /\ Ref(st, k).header => ~NoSid(st, k)
           S == {k \in 0..L : P(k)}
<1>0. L \in Nat
  OBVIOUS
<1>1. 0 \in S
  <2>1. ~Ref(st, 0).header /\ ~Ref(st, 0).expectEof
    BY RefSteps DEF Fresh
  <2> QED
    BY <1>0, <2>1
<1>2. ASSUME NEW k \in 0..(L - 1), k \in S PROVE k + 1 \in S
  <2>1. k + 1 \in 0..L /\ k + 1 \in 1..(k + 1) /\ \A i \in 1..k : i \in 1..(k + 1)
    BY <1>0
  <2>2. Passes(Ref(st, k), st[k + 1], Ref(st, k + 1)) /\ P(k)
    BY <1>2, RefPasses
  <2>3. Ref(st, k + 1).header <=> Ref(st, k + 1).expectEof
    BY <2>2 DEF Passes
  <2>4. Ref(st, k + 1).header => ~NoSid(st, k + 1)
    BY <2>1, <2>2 DEF Passes, NoSid
  <2> QED
    BY <2>1, <2>3, <2>4
<1>3. \A k \in 0..L : k \in S
  <2> HIDE DEF S
  <2> QED
    BY <1>0, <1>1, <1>2, UpTo
<1> QED
  BY <1>3

\* From the first block on its block limit stays.
LEMMA RefMax ==
  ASSUME NEW st \in Seq(WireChunk), SeqResult(st) = "none", OneStream(st),
         NEW d \in 1..Len(st), DataChunk(st[d]), NEW p \in (d - 1)..Len(st)
  PROVE  Ref(st, p).max = Ref(st, d - 1).max
PROOF
<1> DEFINE a == d - 1
           M == Len(st) - a
           S == {k \in 0..M : Ref(st, a + k).max = Ref(st, a).max}
<1>0. a \in Nat /\ M \in Nat /\ a + M = Len(st) /\ a + 0 = a
  OBVIOUS
<1>1. 0 \in S
  BY <1>0
<1>2. ASSUME NEW k \in 0..(M - 1), k \in S PROVE k + 1 \in S
  <2>1. /\ k + 1 \in 0..M /\ a + k \in 0..(Len(st) - 1) /\ a + (k + 1) = (a + k) + 1
        /\ (a + k) + 1 \in 1..Len(st) /\ (k # 0 => d < (a + k) + 1) /\ (k = 0 => (a + k) + 1 = d)
    BY <1>0
  <2>2. Passes(Ref(st, a + k), st[(a + k) + 1], Ref(st, (a + k) + 1))
    BY <2>1, RefPasses
  <2>3. st[(a + k) + 1].t # "sid"
    BY <2>1 DEF OneStream, DataChunk
  <2>4. Ref(st, (a + k) + 1).max = Ref(st, a + k).max
    BY <2>2, <2>3 DEF Passes
  <2> QED
    BY <1>2, <2>1, <2>4
<1>3. \A k \in 0..M : k \in S
  <2> HIDE DEF S
  <2> QED
    BY <1>0, <1>1, <1>2, UpTo
<1>4. p - a \in 0..M /\ a + (p - a) = p
  BY <1>0
<1>5. p - a \in S
  <2> HIDE DEF S
  <2> QED
    BY <1>3, <1>4
<1>6. Ref(st, a + (p - a)).max = Ref(st, a).max
  BY <1>5
<1> HIDE DEF S
<1> QED
  BY <1>4, <1>6

----------------------------------------------------------------------------
(* Knowing as much as it does *)

\* The next chunk is acceptable to a Reader that does, and it does behind it.
LEMMA KnowsNext ==
  ASSUME NEW st \in Seq(WireChunk), SeqResult(st) = "none", Findable,
         NEW p \in 0..(Len(st) - 1), NEW s \in ReaderFields, Knows(st, p, s)
  PROVE  /\ Accepts(s, st[p + 1])
         /\ \A r : Passes(s, st[p + 1], r) => Knows(st, p + 1, r)
PROOF
<1> DEFINE c == st[p + 1]
           R == Ref(st, p)
           Q == Ref(st, p + 1)
<1>1. R \in ReaderFields /\ c \in AnyChunk /\ Fits(c) /\ Accepts(R, c) /\ Passes(R, c, Q)
  BY RefPasses
<1>2. /\ p \in Nat /\ p + 1 \in 1..Len(st) /\ p \in 0..Len(st)
      /\ \A k \in 1..(p + 1) : k \in 1..p \/ k = p + 1
  OBVIOUS
<1> HIDE DEF c, R, Q
<1>3. CASE Same(s, R)
  <2>1. Accepts(s, c)
    BY <1>1, <1>3 DEF Accepts, Same
  <2>2. ASSUME NEW r, Passes(s, c, r) PROVE Same(r, Q)
    <3>1. (r.header <=> Q.header) /\ (r.expectEof <=> Q.expectEof)
      BY <1>1, <1>3, <2>2 DEF Passes, Same
    <3>2. r.max = Q.max
      BY <1>1, <1>3, <2>2 DEF Passes, Same
    <3>3. Total(r) = Total(Q)
      BY <1>1, <1>3, <2>2 DEF Passes, Same
    <3> QED
      BY <3>1, <3>2, <3>3 DEF Same
  <2> QED
    BY <2>1, <2>2 DEF Knows, c, Q
<1>4. CASE Searching(st, p, s)
  <2>1. st \in Seekable /\ ~IgnoreStreamId /\ IdFirst(st) /\ NoSid(st, p)
    BY <1>4 DEF Searching, Findable
  <2>2. ~R.header
    BY <1>2, <2>1, RefHeader DEF R
  <2>3. ~DataChunk(c)
    BY <1>1, <2>2 DEF Accepts
  <2>4. CASE c.t = "sid"
    <3>1. Accepts(s, c)
      BY <1>1, <2>3, <2>4 DEF Accepts
    <3>2. ASSUME NEW r, Passes(s, c, r) PROVE Same(r, Q)
      <4>1. r.header /\ Q.header /\ r.expectEof /\ Q.expectEof
        BY <1>1, <2>4, <3>2 DEF Passes
      <4>2. r.max = Q.max /\ Total(r) = Total(Q)
        BY <1>1, <2>4, <3>2 DEF Passes
      <4> QED
        BY <4>1, <4>2 DEF Same
    <3> QED
      BY <3>1, <3>2 DEF Knows, c, Q
  <2>5. CASE c.t # "sid"
    <3>1. NoSid(st, p + 1)
      BY <1>2, <2>1, <2>5 DEF NoSid, c
    <3>2. c.t # "eof"
      BY <1>2, <2>1, <3>1 DEF IdFirst, c
    <3>3. Accepts(s, c)
      BY <1>1, <2>3, <2>5, <3>2 DEF Accepts
    <3>4. ASSUME NEW r, Passes(s, c, r) PROVE Searching(st, p + 1, r)
      <4>1. (r.header <=> r.expectEof) /\ (r.header => s.header)
        BY <1>4, <2>5, <3>4 DEF Passes, Searching
      <4> QED
        BY <1>4, <3>1, <4>1 DEF Searching
    <3> QED
      BY <3>3, <3>4 DEF Knows, c
  <2> QED
    BY <2>4, <2>5
<1> QED
  BY <1>3, <1>4 DEF Knows, R

\* Behind a block, and at the end, the block limit is known.
LEMMA MaxSettled ==
  ASSUME NEW st \in Seekable, st \in Seq(WireChunk), SeqResult(st) = "none", SingleStreams,
         Findable, NEW p \in 0..Len(st), NEW s, Knows(st, p, s), s.header,
         p = Len(st) \/ \E d \in 1..p : DataChunk(st[d])
  PROVE  MaxKnown(st, s.max)
PROOF
<1>1. OneStream(st) /\ ~IgnoreStreamId /\ Len(st) \in Nat
  BY DEF SingleStreams, Findable
<1>2. Same(s, Ref(st, p))
  <2>1. SUFFICES ASSUME Searching(st, p, s) PROVE FALSE
    BY DEF Knows
  <2>2. NoSid(st, p) /\ ~NoSid(st, Len(st))
    BY <2>1 DEF Searching
  <2>3. PICK d \in 1..p : DataChunk(st[d])
    BY <2>2
  <2>4. d - 1 \in 0..(Len(st) - 1) /\ (d - 1) + 1 = d /\ d - 1 \in 0..Len(st)
        /\ \A k \in 1..(d - 1) : k \in 1..p
    BY <1>1
  <2>5. Accepts(Ref(st, d - 1), st[(d - 1) + 1])
    BY <2>4, RefPasses
  <2>6. Ref(st, d - 1).header
    BY <2>3, <2>4, <2>5 DEF Accepts
  <2>7. ~NoSid(st, d - 1)
    BY <1>1, <2>4, <2>6, RefHeader
  <2> QED
    BY <2>2, <2>4, <2>7 DEF NoSid
<1>3. s.max = Ref(st, p).max
  BY <1>2 DEF Same
<1>4. SUFFICES ASSUME NEW k \in 1..Len(st), DataChunk(st[k])
               PROVE  Ref(st, p).max = Ref(st, k - 1).max
  BY <1>3 DEF MaxKnown
<1>5. CASE p >= k - 1
  <2>1. p \in (k - 1)..Len(st)
    BY <1>1, <1>5
  <2> QED
    BY <1>1, <1>4, <2>1, RefMax
<1>6. CASE p < k - 1
  <2>1. PICK d \in 1..p : DataChunk(st[d])
    BY <1>1, <1>6
  <2>2. d \in 1..Len(st) /\ p \in (d - 1)..Len(st) /\ k - 1 \in (d - 1)..Len(st)
    BY <1>1, <1>6
  <2>3. Ref(st, p).max = Ref(st, d - 1).max /\ Ref(st, k - 1).max = Ref(st, d - 1).max
    BY <1>1, <2>1, <2>2, RefMax
  <2> QED
    BY <2>3
<1> QED
  BY <1>1, <1>5, <1>6

\* At the end no stream is left open.
LEMMA KnowsEnd ==
  ASSUME NEW st \in Seq(WireChunk), SeqResult(st) = "none", NEW s, Knows(st, Len(st), s)
  PROVE  ~s.expectEof
PROOF
<1>1. CASE Same(s, Ref(st, Len(st)))
  BY <1>1, RefSteps DEF Same
<1>2. CASE Searching(st, Len(st), s)
  BY <1>2, Zenon DEF Searching
<1> QED
  BY <1>1, <1>2 DEF Knows

----------------------------------------------------------------------------
(* Steps on a good input: what is known *)

\* The same fields, the same knowledge.
LEMMA KnowsSame ==
  ASSUME NEW st, NEW p, NEW s, NEW r, Knows(st, p, s), r.header = s.header,
         r.expectEof = s.expectEof, r.max = s.max, r.start = s.start, r.block = s.block
  PROVE  Knows(st, p, r)
PROOF
<1>1. Total(r) = Total(s)
  BY DEF Total
<1>2. CASE Same(s, Ref(st, p))
  BY <1>1, <1>2, Zenon DEF Same, Knows
<1>3. CASE Searching(st, p, s)
  BY <1>3, Zenon DEF Searching, Knows
<1> QED
  BY <1>2, <1>3, Zenon DEF Knows

\* With bytes in hand, or at the end, the block limit is known.
LEMMA Settled ==
  ASSUME SingleStreams, Findable, CoreInv, Good, KnowInv, wrapped, rd.header,
         Unread \/ pos = Len(src)
  PROVE  MaxKnown(src, rd.max)
PROOF
<1>1. /\ src \in Seekable /\ src \in Seq(WireChunk) /\ SeqResult(src) = "none"
      /\ pos \in 0..Len(src) /\ Knows(src, pos, rd)
  BY InputFacts DEF CoreInv, IndexInv, SeekTypeOK, Good, KnowInv
<1>2. Unread => \E d \in 1..pos : DataChunk(src[d])
  <2>1. SUFFICES ASSUME Unread PROVE \E d \in 1..pos : DataChunk(src[d])
    OBVIOUS
  <2>2. Aligned(src, pos, rd, cur)
    BY DEF KnowInv, CoreInv, AlignInv, Alive
  <2>3. rd.block.len > 0
    BY <2>1, InputFacts DEF CoreInv, Unread
  <2>4. InFront(src, pos, rd.block)
    BY <2>2, <2>3 DEF Aligned
  <2> QED
    BY <2>4 DEF InFront
<1> QED
  BY <1>1, <1>2, MaxSettled

\* A step that moves neither input nor decoded.
LEMMA KnowStays ==
  ASSUME SingleStreams, Findable, CoreInv, Good, KnowInv,
         UNCHANGED <<src, pos, wrapped>>, rd'.header = rd.header,
         rd'.expectEof = rd.expectEof, rd'.max = rd.max, rd'.start = rd.start,
         rd'.block = rd.block, rd'.err \in {"none", "ueof"},
         wrapped /\ pc \in {"fill", "skip"} /\ pc' \notin {"fill", "skip"} =>
           Unread \/ pos = Len(src)
  PROVE  KnowInv'
PROOF
<1>1. Knows(src, pos, rd')
  BY KnowsSame DEF KnowInv
<1>2. ASSUME wrapped, rd.header, pc' \notin {"fill", "skip"} PROVE MaxKnown(src, rd.max)
  <2>1. CASE pc \in {"fill", "skip"}
    BY <1>2, <2>1, Settled
  <2>2. CASE pc \notin {"fill", "skip"}
    BY <1>2, <2>2 DEF KnowInv
  <2> QED
    BY <2>1, <2>2
<1>3. Knows(src, pos, rd)'
  BY <1>1
<1>4. wrapped' /\ rd'.header /\ pc' \notin {"fill", "skip"} => MaxKnown(src, rd.max)'
  BY <1>2
<1> QED
  BY <1>3, <1>4 DEF KnowInv

\* A turn of fill_decoded's loop.
LEMMA KnowFillChunk ==
  ASSUME SingleStreams, Findable, CoreInv, Good, KnowInv, FillChunk, wrapped' = wrapped
  PROVE  KnowInv' /\ pc' = "fill" /\ res' = res
PROOF
<1> DEFINE r == HandleChunk(rd, Chunk, pos + 1)
<1>1. /\ pc = "fill" /\ pos < Len(src) /\ pos' = pos + 1 /\ src' = src
      /\ After(r, "fill")
  BY DEF FillChunk
<1>2. /\ src \in Seq(WireChunk) /\ SeqResult(src) = "none" /\ rd \in ReaderFields
      /\ Knows(src, pos, rd) /\ pos \in 0..(Len(src) - 1)
      /\ Chunk \in AnyChunk /\ Fits(Chunk) /\ pos + 1 \in Nat
  <2>1. /\ pos \in Nat /\ Len(src) \in Nat /\ src \in Seq(WireChunk)
        /\ Chunk \in AnyChunk /\ Fits(Chunk)
    BY <1>1, InputFacts DEF CoreInv
  <2>2. pos \in 0..(Len(src) - 1) /\ pos + 1 \in Nat
    BY <1>1, <2>1
  <2> QED
    BY <2>1, <2>2 DEF CoreInv, SeekTypeOK, Good, KnowInv
<1>3. rd.err = "none"
  BY <1>1 DEF CoreInv, LoopInv, Working
<1>4. Accepts(rd, Chunk) /\ \A q : Passes(rd, Chunk, q) => Knows(src, pos + 1, q)
  BY <1>2, KnowsNext DEF Chunk
<1>5. Passes(rd, Chunk, r)
  BY <1>2, <1>3, <1>4, HandlePasses
<1>6. Knows(src, pos + 1, r) /\ r.err = "none" /\ Chunk.t # "stub"
  BY <1>4, <1>5 DEF Passes, Accepts
<1> HIDE DEF r
<1>7. rd' = r /\ pc' = "fill" /\ res' = res
  BY <1>1, <1>6 DEF After
<1>8. Knows(src, pos, rd)' /\ rd'.err = "none"
  BY <1>1, <1>6, <1>7
<1> QED
  BY <1>7, <1>8 DEF KnowInv

\* A turn of skip's loop.
LEMMA KnowSkipChunk ==
  ASSUME SingleStreams, Findable, CoreInv, Good, KnowInv, SkipChunk, wrapped' = wrapped
  PROVE  /\ KnowInv' /\ want' \in Nat
         /\ \/ pc' = "ret" /\ res' = "ok"
            \/ pc' = "skip" /\ want' > 0
PROOF
<1> DEFINE n == want - Avail
           r == SkipHandle(Drained, Chunk, pos + 1, n)
<1>1. /\ pc = "skip" /\ pos < Len(src) /\ pos' = pos + 1 /\ src' = src
      /\ Chunk.t # "stub" => rd' = r
  BY DEF SkipChunk
<1>2. /\ src \in Seq(WireChunk) /\ SeqResult(src) = "none" /\ rd \in ReaderFields
      /\ Knows(src, pos, rd) /\ pos \in 0..(Len(src) - 1)
      /\ Chunk \in AnyChunk /\ Fits(Chunk) /\ pos + 1 \in Nat
  <2>1. /\ pos \in Nat /\ Len(src) \in Nat /\ src \in Seq(WireChunk)
        /\ Chunk \in AnyChunk /\ Fits(Chunk)
    BY <1>1, InputFacts DEF CoreInv
  <2>2. pos \in 0..(Len(src) - 1) /\ pos + 1 \in Nat
    BY <1>1, <2>1
  <2> QED
    BY <2>1, <2>2 DEF CoreInv, SeekTypeOK, Good, KnowInv
<1>3. /\ SkipOutcome(n, cur + Avail) /\ n \in Nat \ {0} /\ rd.err = "none"
      /\ Aligned(src, pos, rd, cur) /\ pos + 1 \in 1..Len(src)
  BY SkipChunkStep DEF CoreInv
<1>4. /\ Drained \in ReaderFields /\ Drained.err = "none" /\ Knows(src, pos, Drained)
  <2>1. /\ Drained \in ReaderFields /\ Drained.err = rd.err /\ Drained.header = rd.header
        /\ Drained.expectEof = rd.expectEof /\ Drained.start = rd.start
        /\ Drained.block = rd.block
    BY <1>3, DrainAligned DEF CoreInv
  <2>2. Drained.max = rd.max
    BY <1>2 DEF Drained, ReaderFields
  <2> QED
    BY <1>2, <1>3, <2>1, <2>2, KnowsSame
<1>5. Accepts(Drained, Chunk) /\ \A q : Passes(Drained, Chunk, q) => Knows(src, pos + 1, q)
  BY <1>2, <1>4, KnowsNext DEF Chunk
<1>6. Passes(Drained, Chunk, r)
  BY <1>2, <1>3, <1>4, <1>5, SkipPasses
<1>7. Knows(src, pos + 1, r) /\ r.err = "none" /\ Chunk.t # "stub"
  BY <1>5, <1>6 DEF Passes, Accepts
<1> HIDE DEF r, n
<1>8. rd' = r /\ Knows(src, pos, rd)' /\ rd'.err = "none"
  BY <1>1, <1>7
<1>9. /\ want' \in Nat
      /\ \/ pc' = "ret" /\ res' = "ok" /\ DataChunk(Chunk)
         \/ pc' = "skip" /\ want' > 0
  <2>1. Chunk.n \in Nat /\ n \in Nat \ {0}
    BY <1>2, <1>3 DEF AnyChunk
  <2> QED
    BY <1>3, <1>7, <1>8, <2>1 DEF SkipOutcome, Failing, ChunkErrors
<1>10. wrapped' /\ rd'.header /\ pc' \notin {"fill", "skip"} => MaxKnown(src, rd.max)'
  <2>1. SUFFICES ASSUME wrapped, r.header, pc' = "ret", DataChunk(Chunk)
                 PROVE  MaxKnown(src, r.max)
    BY <1>1, <1>8, <1>9
  <2>2. src \in Seekable
    BY <2>1 DEF CoreInv, IndexInv
  <2>3. pos + 1 \in 0..Len(src) /\ pos + 1 \in 1..(pos + 1)
    BY <1>2
  <2>4. \E d \in 1..(pos + 1) : DataChunk(src[d])
    BY <2>1, <2>3 DEF Chunk
  <2> QED
    BY <1>2, <1>7, <2>1, <2>2, <2>3, <2>4, MaxSettled
<1>11. KnowInv'
  BY <1>8, <1>10 DEF KnowInv
<1> QED
  BY <1>9, <1>11

\* The entry for an offset is that of a block, or the beginning.
LEMMA FindEntry ==
  ASSUME SeekTypeOK, IndexInv, wrapped, NEW o \in Nat
  PROVE  \/ Find(index, o).c = 0
         \/ \E k \in 1..Len(src) :
              DataChunk(src[k]) /\ src[k].n > 0 /\ Find(index, o).c = k - 1
PROOF
<1>1. CASE Find(index, o) = [c |-> 0, u |-> 0]
  BY <1>1
<1>2. CASE Find(index, o) \in index
  <2>1. Find(index, o) \in Starts(src)
    BY <1>2 DEF IndexInv
  <2> QED
    BY <2>1 DEF Starts, DataChunk
<1> QED
  BY <1>1, <1>2, FindSound

\* The steps of a seek that move the input.
LEMMA KnowSeekMoves ==
  ASSUME SingleStreams, Findable, CoreInv, Good, KnowInv, AnswerInv, SeekHeader \/ SeekByIndex
  PROVE  KnowInv'
PROOF
<1>1. /\ UNCHANGED <<src, wrapped>> /\ rd.err = "none" /\ wrapped
      /\ pc \in {"find", "locate"}
  <2>1. UNCHANGED <<src, wrapped>> /\ pc \in {"find", "locate"}
    BY DEF SeekHeader, SeekByIndex, AtLocate, seekVars
  <2> QED
    BY <2>1 DEF CoreInv, LoopInv, Working, SeekCalls
<1>2. /\ src \in Seekable /\ src \in Seq(WireChunk) /\ SeqResult(src) = "none"
      /\ pos \in 0..Len(src) /\ Len(src) \in Nat /\ Knows(src, pos, rd) /\ rd \in ReaderFields
      /\ ~IgnoreStreamId /\ OneStream(src) /\ target \in Nat
  BY <1>1, InputFacts DEF CoreInv, IndexInv, SeekTypeOK, Good, KnowInv, Findable, SingleStreams
<1>3. (rd.header <=> rd.expectEof) /\ (rd.header => ~NoSid(src, Len(src)))
  <2>1. CASE Same(rd, Ref(src, pos))
    <3>1. /\ Ref(src, pos).header <=> Ref(src, pos).expectEof
          /\ Ref(src, pos).header => ~NoSid(src, pos)
      BY <1>2, RefHeader
    <3>2. \A k \in 1..pos : k \in 1..Len(src)
      BY <1>2
    <3>3. ~NoSid(src, pos) => ~NoSid(src, Len(src))
      BY <3>2 DEF NoSid
    <3> QED
      BY <2>1, <3>1, <3>3 DEF Same
  <2>2. CASE Searching(src, pos, rd)
    BY <2>2, Zenon DEF Searching
  <2> QED
    BY <1>2, <2>1, <2>2 DEF Knows
<1>4. ASSUME NEW s, s.header = rd.header, s.expectEof = rd.expectEof PROVE Knows(src, 0, s)
  <2>1. NoSid(src, 0)
    BY DEF NoSid
  <2> QED
    BY <1>2, <1>3, <1>4, <2>1 DEF Knows, Searching
<1>5. CASE SeekHeader
  <2>1. pos' = 0 /\ rd' = rd /\ pc' = "fill"
    BY <1>5 DEF SeekHeader
  <2>2. Knows(src, pos, rd)' /\ rd'.err = "none"
    BY <1>1, <1>4, <2>1
  <2> QED
    BY <2>1, <2>2 DEF KnowInv
<1>6. CASE SeekByIndex
  <2> DEFINE e == Find(index, target)
             r == Jumped(e.u)
  <2>1. AtLocate /\ pos' = e.c /\ rd' = r
    BY <1>6 DEF SeekByIndex
  <2>2. e.c \in 0..Len(src) /\ e.u \in Nat /\ e.u = Place(src, e.c)
    BY <1>1, <1>2, FindSound DEF CoreInv
  <2>3. /\ r.header = rd.header /\ r.expectEof = rd.expectEof /\ r.max = rd.max
        /\ r.start = e.u /\ r.block.len = 0 /\ r.err = "none"
    BY <1>1, <1>2 DEF Jumped, ReaderFields, NoBlock
  <2>4. e.c = 0 \/ \E k \in 1..Len(src) : DataChunk(src[k]) /\ src[k].n > 0 /\ e.c = k - 1
    BY <1>1, <1>2, FindEntry DEF CoreInv
  <2> HIDE DEF e, r
  <2>5. Knows(src, e.c, r)
    <3>1. CASE e.c = 0
      BY <1>4, <2>3, <3>1
    <3>2. ASSUME NEW k \in 1..Len(src), DataChunk(src[k]), src[k].n > 0, e.c = k - 1
          PROVE  Same(r, Ref(src, k - 1))
      <4>1. rd.header
        <5>1. SUFFICES ASSUME ~rd.header PROVE FALSE
          OBVIOUS
        <5>2. pc = "locate"
          BY <2>1, <5>1 DEF AtLocate
        <5>3. cur = 0 /\ Aligned(src, pos, rd, cur)
          BY <1>1, <5>2 DEF CoreInv, LoopInv, AlignInv, Alive
        <5>4. rd.at = rd.block.len /\ rd.block.len \in Nat
          BY <1>2, <5>1, <5>3 DEF Aligned, ReaderFields
        <5>5. pos = Len(src)
          BY <5>2, <5>4 DEF AnswerInv, Unread
        <5>6. Place(src, Len(src)) = 0
          BY <5>3, <5>4, <5>5 DEF Aligned
        <5>7. Len(Data(src)) = 0 /\ Place(src, k - 1) \in Nat
          <6>1. k - 1 \in 0..Len(src)
            BY <1>2
          <6> QED
            BY <1>2, <5>6, <6>1, Places
        <5>8. Place(src, k - 1) + src[k].n <= Len(Data(src)) /\ src[k].n \in Nat
          <6>1. src[k].n \in Nat
            BY <1>2 DEF WireChunk
          <6> QED
            BY <1>2, <3>2, <6>1, ChunkInData DEF DataChunk
        <5> QED
          BY <3>2, <5>7, <5>8
      <4>2. /\ k - 1 \in 0..(Len(src) - 1) /\ k - 1 \in 0..Len(src) /\ (k - 1) + 1 = k
        BY <1>2
      <4>3. Ref(src, k - 1).header
        <5>1. Accepts(Ref(src, k - 1), src[(k - 1) + 1])
          BY <1>2, <4>2, RefPasses
        <5> QED
          BY <3>2, <4>2, <5>1 DEF Accepts
      <4>4. Ref(src, k - 1).expectEof
        BY <1>2, <4>2, <4>3, RefHeader
      <4>5. r.max = Ref(src, k - 1).max
        <5>1. MaxKnown(src, rd.max)
          BY <1>1, <4>1 DEF KnowInv
        <5> QED
          BY <2>3, <3>2, <5>1 DEF MaxKnown
      <4>6. Total(r) = Total(Ref(src, k - 1))
        <5>1. Total(Ref(src, k - 1)) = e.u
          BY <1>2, <2>2, <3>2, <4>2, RefTotal
        <5> QED
          BY <2>2, <2>3, <5>1 DEF Total
      <4>7. r.header /\ r.expectEof
        BY <1>3, <2>3, <4>1
      <4> QED
        BY <4>3, <4>4, <4>5, <4>6, <4>7 DEF Same
    <3> QED
      BY <2>4, <3>1, <3>2 DEF Knows
  <2>6. Knows(src, pos, rd)' /\ rd'.err = "none"
    BY <1>1, <2>1, <2>3, <2>5
  <2>7. rd.header => MaxKnown(src, rd.max)
    BY <1>1 DEF KnowInv
  <2>8. rd'.header => MaxKnown(src, rd.max)'
    BY <1>1, <2>1, <2>3, <2>7
  <2> QED
    BY <2>6, <2>8 DEF KnowInv
<1> QED
  BY <1>5, <1>6

----------------------------------------------------------------------------
(* Steps on a good input: what is answered *)

\* Within a call nothing new has been answered.
LEMMA AnswersStay ==
  ASSUME NoSpuriousError, src' = src, pc' # "idle", got' = got \/ got'.res = "ok"
  PROVE  NoSpuriousError' /\ SeekSucceeds'
  BY DEF NoSpuriousError, SeekSucceeds

\* A call begins.
LEMMA GoodBegin ==
  ASSUME SingleStreams, Findable, CoreInv, Good, Fine, BeginCall
  PROVE  Fine'
PROOF
<1> USE DEF Fine
<1>1. PICK o \in {"read", "skip", "fillbuf"}, n \in Nat, p \in {"ret", "fill", "skip"} :
        /\ Begin(o, n, p)
        /\ p = "fill" => o # "skip"
        /\ p = "skip" => o = "skip"
        /\ p = "ret" => n = 0
        /\ wrapped => o = "read"
  BY DEF BeginCall
<1>2. UNCHANGED <<src, pos, rd, cur, wrapped>>
  BY DEF BeginCall, seekVars
<1>3. /\ pc = "idle" /\ op' = o /\ got'.res = "ok"
      /\ IF rd.err # "none" THEN pc' = "ret" /\ res' = rd.err ELSE pc' = p /\ res' = "ok"
  BY <1>1 DEF Begin, Refused
<1>4. KnowInv'
  <2>1. rd.err \in {"none", "ueof"}
    BY DEF KnowInv
  <2> QED
    BY <1>2, <1>3, <2>1, KnowStays
<1>5. AnswerInv'
  <2>1. rd.err \in {"none", "ueof"} /\ pc' \in {"ret", "fill", "skip"}
    BY <1>1, <1>3 DEF KnowInv
  <2>2. op' \notin SeekCalls /\ op' # "fillat" /\ (pc' = "skip" => op' = "skip")
    BY <1>1, <1>3 DEF SeekCalls
  <2> QED
    BY <1>3, <2>1, <2>2 DEF AnswerInv
<1>6. NoSpuriousError' /\ SeekSucceeds'
  BY <1>2, <1>3, AnswersStay
<1> QED
  BY <1>4, <1>5, <1>6

\* A seek begins: what the range checks refuse is out of range.
LEMMA GoodSeekCall ==
  ASSUME SingleStreams, Findable, CoreInv, Good, Fine, TotalInv, SeekCall
  PROVE  Fine'
PROOF
<1> USE DEF Fine
<1>1. PICK c \in {"seek", "readat"}, n \in Nat, o \in Int, e0 \in {"ok", "unsupported"} :
        BeginSeek(c, n, o, e0)
  BY DEF SeekCall
<1>2. Forgiven /\ rd \in ReaderFields
  BY DEF KnowInv, Forgiven, CoreInv, SeekTypeOK
<1> DEFINE e == IF e0 # "ok" THEN e0 ELSE SeekCheck(o)
           to == IF e # "ok" /\ o < 0 THEN 0 ELSE o
<1>3. /\ wrapped /\ pc = "idle" /\ op' = c /\ rd' = [rd EXCEPT !.err = "none"]
      /\ res' = e /\ pc' = (IF e = "ok" THEN "find" ELSE "ret")
      /\ got'.from = to /\ got'.res = "ok"
      /\ UNCHANGED <<src, pos, wrapped>>
  BY <1>1, <1>2 DEF BeginSeek
<1>4. KnowInv'
  <2>1. /\ rd'.header = rd.header /\ rd'.expectEof = rd.expectEof /\ rd'.max = rd.max
        /\ rd'.start = rd.start /\ rd'.block = rd.block /\ rd'.err = "none"
    BY <1>2, <1>3 DEF ReaderFields
  <2> QED
    BY <1>3, <2>1, KnowStays
<1>5. AnswerInv'
  <2>1. e \in {"ok", "ueof", "invalid", "unsupported"}
    BY DEF SeekCheck
  <2>2. e = "ueof" => to > Len(Data(src))
    <3>1. SUFFICES ASSUME e = "ueof" PROVE to > Len(Data(src))
      OBVIOUS
    <3>2. ~(o < 0) /\ total # -1 /\ o > total
      BY <3>1 DEF SeekCheck
    <3>3. total = Len(Data(src))
      BY <1>3, <3>2 DEF TotalInv
    <3> QED
      BY <3>2, <3>3
  <2> HIDE DEF e, to
  <2>3. pc' \in {"find", "ret"} /\ op' \in SeekCalls /\ op' # "fillat"
    BY <1>3 DEF SeekCalls
  <2>4. /\ res' \in {"ok", "eof", "ueof", "invalid", "unsupported"} /\ res' # "eof"
        /\ res' = "ueof" => got'.from > Len(Data(src'))
    BY <1>3, <2>1, <2>2
  <2> QED
    BY <2>3, <2>4 DEF AnswerInv
<1>6. NoSpuriousError' /\ SeekSucceeds'
  <2>1. pc' # "idle"
    BY <1>3
  <2> QED
    BY <1>3, <2>1, AnswersStay
<1> QED
  BY <1>4, <1>5, <1>6

\* consume, reset and decode_concurrent answer nothing that could be wrong here.
LEMMA GoodOther ==
  ASSUME SingleStreams, Findable, CoreInv, Good, Fine, OtherCall
  PROVE  Fine'
PROOF
<1> USE DEF Fine
<1>1. ~wrapped /\ src' = src /\ wrapped' = wrapped /\ pc' \in {"idle", "handed"}
      /\ got'.op \in {"none", "concurrent"}
  BY DEF OtherCall, Consume, Reset, DecodeConcurrent, NoCall, seekVars
<1>2. AnswerInv' /\ NoSpuriousError' /\ SeekSucceeds'
  BY <1>1 DEF AnswerInv, NoSpuriousError, SeekSucceeds
<1>3. CASE Reset
  <2>1. pos' = 0 /\ rd' = Fresh
    BY <1>3 DEF Reset
  <2>2. src \in Seq(WireChunk) /\ SeqResult(src) = "none"
    BY InputFacts DEF CoreInv, Good
  <2>3. Knows(src, 0, Fresh) /\ Fresh.err = "none"
    BY <2>2, RefSteps DEF Knows, Same, Fresh
  <2>4. Knows(src, pos, rd)' /\ rd'.err = "none"
    BY <1>1, <2>1, <2>3
  <2> QED
    BY <1>1, <1>2, <2>4 DEF KnowInv
<1>4. ASSUME NEW n \in Nat, Consume(n)
      PROVE  KnowInv'
  <2>1. pc = "idle" /\ pos' = pos /\ \E k : rd' = [rd EXCEPT !.at = k]
    BY <1>4 DEF Consume
  <2>2. rd \in ReaderFields /\ rd.err \in {"none", "ueof"}
    BY DEF CoreInv, SeekTypeOK, KnowInv
  <2>3. /\ rd'.header = rd.header /\ rd'.expectEof = rd.expectEof /\ rd'.max = rd.max
        /\ rd'.start = rd.start /\ rd'.block = rd.block /\ rd'.err = rd.err
    BY <2>1, <2>2 DEF ReaderFields
  <2> QED
    BY <1>1, <2>1, <2>2, <2>3, KnowStays
<1>5. CASE DecodeConcurrent
  <2>1. pc = "idle" /\ pos' = pos /\ rd' = rd /\ rd.err \in {"none", "ueof"}
    BY <1>5 DEF DecodeConcurrent, KnowInv
  <2>2. /\ rd'.header = rd.header /\ rd'.expectEof = rd.expectEof /\ rd'.max = rd.max
        /\ rd'.start = rd.start /\ rd'.block = rd.block /\ rd'.err = rd.err
    BY <2>1
  <2> QED
    BY <1>1, <1>2, <2>1, <2>2, KnowStays
<1> QED
  BY <1>2, <1>3, <1>4, <1>5 DEF OtherCall

\* A call returns.
LEMMA GoodReturn ==
  ASSUME SingleStreams, Findable, SeekInv, Good, Fine, (Return /\ UNCHANGED seekVars) \/ SeekReturn
  PROVE  Fine'
PROOF
<1> USE DEF Fine
<1>1. pc = "ret" /\ UNCHANGED <<src, pos, rd, res, buf, cur, wrapped>>
  BY DEF Return, SeekReturn, callVars, seekVars
<1>2. KnowInv'
  <2>1. rd.err \in {"none", "ueof"}
    BY DEF KnowInv
  <2> QED
    BY <1>1, <2>1, KnowStays DEF SeekInv
<1>3. /\ got \in CallRec /\ got.op = (IF op = "fillat" THEN "readat" ELSE op)
      /\ got.n \in Nat /\ got.from \in Nat
  BY <1>1 DEF SeekInv, CoreInv, SeekTypeOK, LoopInv, CallRec
<1>4. CASE Return
  <2>1. /\ pc' = "idle" /\ op \in {"read", "fillbuf", "skip"}
        /\ got' = [got EXCEPT !.res = res, !.bytes = buf]
    BY <1>4 DEF Return
  <2>2. got'.res = res /\ got'.op = got.op
    BY <1>3, <2>1 DEF CallRec
  <2>3. op \notin SeekCalls /\ got.op = op
    BY <1>3, <2>1 DEF SeekCalls
  <2>4. NoSpuriousError'
    BY <1>1, <2>2, <2>3 DEF NoSpuriousError, AnswerInv
  <2>5. SeekSucceeds'
    BY <2>1, <2>2, <2>3 DEF SeekSucceeds
  <2>6. AnswerInv'
    BY <2>1 DEF AnswerInv
  <2> QED
    BY <1>2, <2>4, <2>5, <2>6
<1>5. CASE SeekReturn /\ op = "readat" /\ res = "ok" /\ got.n > 0
  <2>1. op' = "fillat" /\ want' = got.n /\ pc' = "fill" /\ got' = got
    BY <1>5 DEF SeekReturn
  <2>2. buf = <<>> /\ cur = got.from
    BY <1>1, <1>5 DEF SeekInv, RestInv, ProgressInv
  <2>3. Len(buf') = 0
    BY <1>1, <2>2
  <2>4. got'.n = Len(buf') + want' /\ cur' = got'.from + Len(buf')
    BY <1>1, <1>3, <2>1, <2>2, <2>3
  <2>5. AnswerInv'
    BY <2>1, <2>4 DEF AnswerInv
  <2>6. NoSpuriousError' /\ SeekSucceeds'
    <3>1. pc' # "idle"
      BY <2>1
    <3> QED
      BY <1>1, <2>1, <3>1, AnswersStay
  <2> QED
    BY <1>2, <2>5, <2>6
<1>6. CASE SeekReturn /\ ~(op = "readat" /\ res = "ok" /\ got.n > 0)
  <2>1. /\ pc' = "idle" /\ op \in SeekCalls
        /\ got' = [got EXCEPT !.res = res, !.bytes = IF res \in ReadErrors THEN <<>> ELSE buf]
    BY <1>6 DEF SeekReturn, SeekCalls
  <2>2. /\ got'.res = res /\ got'.op = got.op /\ got'.from = got.from /\ got'.n = got.n
        /\ res \in {"ok", "eof"} => got'.bytes = buf
    BY <1>3, <2>1 DEF CallRec, ReadErrors
  <2>3. got.op \in {"seek", "readat"}
    BY <1>3, <2>1 DEF SeekCalls
  <2>4. /\ res \in {"ok", "eof", "ueof", "invalid", "unsupported"}
        /\ res = "ueof" => got.from > Len(Data(src))
        /\ res = "eof" => op = "fillat"
    BY <1>1, <2>1 DEF AnswerInv
  <2>5. op = "fillat" => /\ got.n = Len(buf) + want /\ cur = got.from + Len(buf)
                         /\ res = "ok" => want = 0
    BY <1>1 DEF AnswerInv
  <2>b. Len(buf) \in Nat
    BY DEF SeekInv, CoreInv, SeekTypeOK
  <2>6. got.op = "readat" /\ res = "ok" => Len(buf) = got.n
    <3>1. CASE op = "fillat"
      BY <1>3, <2>5, <2>b, <3>1
    <3>2. CASE op = "readat" /\ res = "ok"
      <4>1. got.n = 0
        BY <1>3, <1>6, <3>2
      <4>2. buf = <<>>
        BY <1>1, <3>2 DEF SeekInv, RestInv, ProgressInv
      <4> QED
        BY <4>1, <4>2
    <3> QED
      BY <1>3, <2>1, <3>1, <3>2 DEF SeekCalls
  <2>7. res = "eof" => got.from + Len(buf) = Len(Data(src))
    BY <1>1, <2>4, <2>5 DEF SeekInv, RestInv, EndInv
  <2>8. NoSpuriousError' /\ AnswerInv'
    BY <2>1, <2>2, <2>3 DEF NoSpuriousError, AnswerInv
  <2>9. SeekSucceeds'
    BY <1>1, <2>2, <2>4, <2>6, <2>7 DEF SeekSucceeds
  <2> QED
    BY <1>2, <2>8, <2>9
<1> QED
  BY <1>4, <1>5, <1>6

\* Steps of read, fill_buf and read_at.
LEMMA GoodFill ==
  ASSUME SingleStreams, Findable, SeekInv, Good, Fine,
         Copy \/ Borrow \/ FillChunk \/ FillEnd \/ FillFails \/ CopyAt \/ EndAt,
         UNCHANGED seekVars
  PROVE  Fine'
PROOF
<1> USE DEF Fine
<1>1. /\ pc = "fill" /\ UNCHANGED <<src, op, got, wrapped>>
      /\ ~FillFails
  BY DEF Copy, Borrow, FillChunk, FillEnd, FillFails, CopyAt, EndAt, Good, seekVars
<1>t. /\ CoreInv /\ rd \in ReaderFields /\ rd.err = "none" /\ src \in Seq(WireChunk)
      /\ SeqResult(src) = "none" /\ want \in Nat /\ got.from \in Nat /\ buf \in Seq(Byte)
      /\ cur \in Nat
  BY <1>1, InputFacts DEF SeekInv, CoreInv, SeekTypeOK, LoopInv, Working, Good, CallRec
<1>2. ASSUME NEW k, rd' = rd \/ rd' = [rd EXCEPT !.at = k], pos' = pos, Unread \/ pos = Len(src)
      PROVE  KnowInv'
  <2>1. /\ rd'.header = rd.header /\ rd'.expectEof = rd.expectEof /\ rd'.max = rd.max
        /\ rd'.start = rd.start /\ rd'.block = rd.block /\ rd'.err = "none"
    BY <1>t, <1>2 DEF ReaderFields
  <2> QED
    BY <1>1, <1>2, <1>t, <2>1, KnowStays
<1>3. op = "fillat" => op \in SeekCalls /\ got.n = Len(buf) + want /\ cur = got.from + Len(buf)
  BY <1>1 DEF AnswerInv, SeekCalls
<1>s. ASSUME pc' # "idle" PROVE NoSpuriousError' /\ SeekSucceeds'
  BY <1>1, <1>s, AnswersStay
<1>4. CASE FillChunk
  <2>1. KnowInv' /\ pc' = "fill" /\ res' = res
    BY <1>1, <1>4, <1>t, KnowFillChunk
  <2>2. UNCHANGED <<op, want, buf, got, cur>>
    BY <1>4 DEF FillChunk
  <2>3. AnswerInv'
    BY <1>3, <2>1, <2>2 DEF AnswerInv
  <2> QED
    BY <1>s, <2>1, <2>3
<1>5. CASE Copy \/ Borrow
  <2>1. /\ op \in {"read", "fillbuf"} /\ Unread /\ pos' = pos /\ pc' = "ret" /\ res' = "ok"
        /\ \E k : rd' = rd \/ rd' = [rd EXCEPT !.at = k]
    BY <1>5 DEF Copy, Borrow, End
  <2>2. KnowInv'
    BY <1>2, <2>1
  <2>3. AnswerInv'
    BY <1>1, <2>1 DEF AnswerInv, SeekCalls
  <2> QED
    BY <1>s, <2>1, <2>2, <2>3
<1>6. CASE FillEnd \/ EndAt
  <2>1. /\ pos = Len(src) /\ pos' = pos /\ rd' = rd /\ pc' = "ret" /\ res' = EofResult
        /\ op \in {"read", "fillbuf", "fillat"} /\ UNCHANGED <<want, buf, cur>>
    BY <1>6 DEF FillEnd, EndAt, End
  <2>2. ~rd.expectEof
    BY <1>t, <2>1, KnowsEnd DEF KnowInv
  <2>3. res' = "eof"
    BY <2>1, <2>2 DEF EofResult
  <2>4. KnowInv'
    BY <1>2, <2>1
  <2>5. op \in {"read", "fillbuf"} => op \notin SeekCalls
    BY DEF SeekCalls
  <2>6. AnswerInv'
    BY <1>1, <1>3, <2>1, <2>3, <2>5 DEF AnswerInv
  <2> QED
    BY <1>s, <2>1, <2>4, <2>6
<1>7. CASE CopyAt
  <2> DEFINE s == Slice(want)
  <2>1. /\ op = "fillat" /\ Unread /\ pos' = pos /\ buf' = buf \o s /\ cur' = cur + Len(s)
        /\ want' = want - Len(s) /\ rd' = [rd EXCEPT !.at = rd.at + Len(s)]
        /\ IF want' = 0 THEN pc' = "ret" /\ res' = "ok" ELSE pc' = pc /\ res' = res
    BY <1>7 DEF CopyAt, End
  <2>2. Avail \in Nat
    <3>1. rd.at \in Nat /\ rd.block.len \in Nat
      BY <1>t DEF ReaderFields
    <3> QED
      BY <2>1, <3>1 DEF Avail, Unread
  <2>3. s \in Seq(Byte) /\ Len(s) \in Nat
    BY <1>t, <2>2, SliceType DEF CoreInv
  <2> HIDE DEF s
  <2>4. Len(buf') = Len(buf) + Len(s) /\ Len(buf) \in Nat
    BY <1>t, <2>1, <2>3
  <2>5. got'.n = Len(buf') + want' /\ cur' = got'.from + Len(buf')
    BY <1>1, <1>3, <1>t, <2>1, <2>3, <2>4
  <2>6. KnowInv'
    BY <1>2, <2>1
  <2>7. AnswerInv'
    BY <1>1, <1>3, <2>1, <2>5 DEF AnswerInv
  <2> QED
    BY <1>1, <1>s, <2>1, <2>6, <2>7
<1> QED
  BY <1>1, <1>4, <1>5, <1>6, <1>7

\* Steps of skip.
LEMMA GoodSkip ==
  ASSUME SingleStreams, Findable, SeekInv, Good, Fine,
         SkipDrain \/ SkipChunk \/ SkipEnd \/ SkipFails, UNCHANGED seekVars
  PROVE  Fine'
PROOF
<1> USE DEF Fine
<1>1. /\ pc = "skip" /\ UNCHANGED <<src, op, got, wrapped>> /\ ~SkipFails
  BY DEF SkipDrain, SkipChunk, SkipEnd, SkipFails, Good, seekVars
<1>t. /\ CoreInv /\ rd \in ReaderFields /\ rd.err = "none" /\ src \in Seq(WireChunk)
      /\ SeqResult(src) = "none" /\ want \in Nat /\ cur \in Nat /\ rd.at \in Nat
      /\ rd.block.len \in Nat /\ got.from \in Nat
  BY <1>1, InputFacts DEF SeekInv, CoreInv, SeekTypeOK, LoopInv, Working, Good, CallRec
<1>o. /\ op \in {"skip", "seek", "readat"} /\ op # "fillat"
      /\ op = "skip" <=> op \notin SeekCalls
      /\ op # "skip" => want > 0
      /\ wrapped => op # "skip"
  BY <1>1, <1>t DEF CoreInv, LoopInv, AnswerInv, SeekCalls, Working
<1>s. ASSUME pc' # "idle" PROVE NoSpuriousError' /\ SeekSucceeds'
  BY <1>1, <1>s, AnswersStay
<1>2. CASE SkipChunk
  <2>1. KnowInv' /\ ((pc' = "ret" /\ res' = "ok") \/ (pc' = "skip" /\ want' > 0))
    BY <1>1, <1>2, <1>t, KnowSkipChunk
  <2>2. AnswerInv'
    BY <1>1, <1>o, <2>1 DEF AnswerInv
  <2> QED
    BY <1>s, <2>1, <2>2
<1>3. CASE SkipDrain
  <2>1. /\ Avail >= want /\ pos' = pos /\ pc' = "ret" /\ res' = "ok"
        /\ rd' = [rd EXCEPT !.at = rd.at + want]
    BY <1>3 DEF SkipDrain, SkipInBuffer, End
  <2>2. wrapped => Unread
    <3>1. wrapped => want > 0
      BY <1>o
    <3> QED
      BY <1>t, <2>1, <3>1 DEF Avail, Unread
  <2>3. /\ rd'.header = rd.header /\ rd'.expectEof = rd.expectEof /\ rd'.max = rd.max
        /\ rd'.start = rd.start /\ rd'.block = rd.block /\ rd'.err = "none"
    BY <1>t, <2>1 DEF ReaderFields
  <2>4. KnowInv'
    BY <1>1, <1>t, <2>1, <2>2, <2>3, KnowStays
  <2>5. AnswerInv'
    BY <1>1, <1>o, <2>1 DEF AnswerInv
  <2> QED
    BY <1>s, <2>1, <2>4, <2>5
<1>4. CASE SkipEnd
  <2>1. /\ ~(Avail >= want) /\ pos = Len(src) /\ pos' = pos
        /\ IF rd.expectEof THEN rd' = Drained /\ End("corrupt")
           ELSE rd' = Err(Drained, "ueof") /\ End("ueof")
    BY <1>4 DEF SkipEnd, SkipInBuffer
  <2>2. ~rd.expectEof
    BY <1>t, <2>1, KnowsEnd DEF KnowInv
  <2>3. rd' = Err(Drained, "ueof") /\ pc' = "ret" /\ res' = "ueof"
    BY <2>1, <2>2 DEF End
  <2>4. Aligned(src, pos, rd, cur)
    BY <1>t DEF CoreInv, AlignInv, Alive
  <2>5. /\ rd'.header = rd.header /\ rd'.expectEof = rd.expectEof /\ rd'.max = rd.max
        /\ rd'.start = rd.start /\ rd'.block = rd.block /\ rd'.err = "ueof"
    BY <1>t, <2>3 DEF ReaderFields, Err, Drained
  <2>6. KnowInv'
    BY <1>1, <1>t, <2>1, <2>5, KnowStays
  <2>7. op # "skip" => got.from > Len(Data(src))
    <3>1. cur + (rd.block.len - rd.at) = Len(Data(src))
      BY <1>t, <2>1, <2>4, Places DEF Aligned
    <3>2. op # "skip" => cur + want = got.from
      BY <1>1, <1>t DEF SeekInv, RestInv, ProgressInv
    <3> QED
      BY <1>t, <2>1, <3>1, <3>2 DEF Avail
  <2>8. AnswerInv'
    BY <1>1, <1>o, <2>3, <2>7 DEF AnswerInv
  <2> QED
    BY <1>s, <2>3, <2>6, <2>8
<1> QED
  BY <1>1, <1>2, <1>3, <1>4

\* Steps of a seek.
LEMMA GoodSeek ==
  ASSUME SingleStreams, Findable, SeekInv, Good, Fine,
         SeekHeader \/ SeekFilled \/ SeekInBlock \/ SeekByIndex \/ SeekFails
  PROVE  Fine'
PROOF
<1> USE DEF Fine
<1>f. ~SeekFails
  BY DEF SeekFails, Good
<1>1. UNCHANGED <<src, op, got, wrapped>>
  BY <1>f DEF SeekHeader, SeekFilled, SeekInBlock, SeekByIndex, callVars, seekVars
<1>2. CoreInv /\ op \in {"seek", "readat"} /\ rd \in ReaderFields /\ rd.err = "none"
  <2>1. pc \in {"find", "locate"} \/ (pc = "fill" /\ op \in {"seek", "readat"})
    BY <1>f DEF SeekHeader, SeekFilled, SeekInBlock, SeekByIndex, AtLocate
  <2> QED
    BY <2>1 DEF SeekInv, CoreInv, SeekTypeOK, LoopInv, Working
<1>o. op \in SeekCalls /\ op # "fillat" /\ op # "skip"
  BY <1>2 DEF SeekCalls
<1>s. ASSUME pc' # "idle" PROVE NoSpuriousError' /\ SeekSucceeds'
  BY <1>1, <1>s, AnswersStay
<1>3. CASE SeekHeader
  <2>1. pc' = "fill"
    BY <1>3 DEF SeekHeader
  <2>2. AnswerInv'
    BY <1>1, <1>o, <2>1 DEF AnswerInv
  <2>3. KnowInv'
    BY <1>2, <1>3, KnowSeekMoves
  <2> QED
    BY <1>s, <2>1, <2>2, <2>3
<1>4. CASE SeekFilled
  <2>1. /\ Unread \/ pos = Len(src)
        /\ IF ~Unread /\ rd.expectEof THEN End("corrupt") ELSE pc' = "locate" /\ UNCHANGED res
        /\ UNCHANGED <<pos, rd>>
    BY <1>4 DEF SeekFilled
  <2>2. ~Unread => ~rd.expectEof
    <3>1. pos = Len(src) => ~rd.expectEof
      BY <1>2, InputFacts, KnowsEnd DEF KnowInv, Good, CoreInv
    <3> QED
      BY <2>1, <3>1
  <2>3. pc' = "locate"
    BY <2>1, <2>2
  <2>4. Unread' \/ pos' = Len(src')
    BY <1>1, <2>1 DEF Unread
  <2>5. AnswerInv'
    BY <2>3, <2>4 DEF AnswerInv
  <2>6. KnowInv'
    BY <1>1, <1>2, <2>1, KnowStays
  <2> QED
    BY <1>s, <2>3, <2>5, <2>6
<1>5. CASE SeekInBlock
  <2>1. /\ AtLocate /\ rd' = [rd EXCEPT !.at = target - rd.start] /\ pos' = pos
        /\ pc' = "ret" /\ res' = "ok"
    BY <1>5 DEF SeekInBlock, End
  <2>2. /\ rd'.header = rd.header /\ rd'.expectEof = rd.expectEof /\ rd'.max = rd.max
        /\ rd'.start = rd.start /\ rd'.block = rd.block /\ rd'.err = "none"
    BY <1>2, <2>1 DEF ReaderFields
  <2>3. KnowInv'
    BY <1>1, <1>2, <2>1, <2>2, KnowStays DEF AtLocate
  <2>4. AnswerInv'
    BY <1>1, <1>o, <2>1 DEF AnswerInv
  <2> QED
    BY <1>s, <2>1, <2>3, <2>4
<1>6. CASE SeekByIndex
  <2> DEFINE e == Find(index, target)
  <2>1. /\ want' = target - e.u
        /\ IF e.u < target THEN pc' = "skip" /\ UNCHANGED res ELSE pc' = "ret" /\ res' = "ok"
    BY <1>6 DEF SeekByIndex, End
  <2>2. e.u \in Nat /\ target \in Nat
    <3>1. wrapped /\ target \in Nat
      BY <1>2, <1>6, AtLocateTrack DEF SeekByIndex, CoreInv, SeekTypeOK
    <3> QED
      BY <1>2, <3>1, FindSound DEF CoreInv
  <2> HIDE DEF e
  <2>3. (pc' = "skip" /\ want' > 0) \/ (pc' = "ret" /\ res' = "ok")
    BY <2>1, <2>2
  <2>4. AnswerInv'
    BY <1>1, <1>o, <2>3 DEF AnswerInv
  <2>5. KnowInv'
    BY <1>2, <1>6, KnowSeekMoves
  <2> QED
    BY <1>s, <2>3, <2>4, <2>5
<1> QED
  BY <1>3, <1>4, <1>5, <1>6, <1>f

\* On a good input every step keeps it.
LEMMA GoodStep ==
  ASSUME SingleStreams, Findable, SeekInv, GoodInv, [SNext]_svars
  PROVE  GoodInv'
PROOF
<1>1. SeekTypeOK /\ CoreInv
  BY DEF SeekInv, CoreInv
<1>2. src' = src /\ wrapped' = wrapped /\ total' = total
  BY <1>1, Frame
<1>3. TotalInv'
  BY <1>2 DEF GoodInv, TotalInv
<1>4. SUFFICES ASSUME Good, Fine PROVE Fine'
  BY <1>2, <1>3 DEF GoodInv, Good
<1>5. TotalInv
  BY DEF GoodInv
<1>6. Steps /\ UNCHANGED seekVars => Fine'
  BY <1>1, <1>4, GoodReturn, GoodFill, GoodSkip DEF Steps
<1>7. SeekSteps => Fine'
  <2>1. CopyAt \/ EndAt => UNCHANGED seekVars
    BY DEF CopyAt, EndAt
  <2> QED
    BY <1>1, <1>4, <2>1, GoodReturn, GoodFill, GoodSeek DEF SeekSteps
<1>8. UNCHANGED svars => Fine'
  <2>1. SUFFICES ASSUME UNCHANGED svars PROVE Fine'
    OBVIOUS
  <2>2. UNCHANGED <<src, pos, rd, pc, op, want, res, buf, cur, got, wrapped>>
    BY <2>1 DEF svars, vars, callVars, seekVars
  <2>3. KnowInv'
    BY <1>4, <2>2 DEF Fine, KnowInv
  <2>4. AnswerInv'
    BY <1>4, <2>2 DEF Fine, AnswerInv, Unread
  <2>5. NoSpuriousError' /\ SeekSucceeds'
    BY <1>4, <2>2 DEF Fine, NoSpuriousError, SeekSucceeds
  <2> QED
    BY <2>3, <2>4, <2>5 DEF Fine
<1> QED
  BY <1>1, <1>4, <1>5, <1>6, <1>7, <1>8, StepCases, GoodBegin, GoodSeekCall, GoodOther

\* A Reader that has just been made.
LEMMA GoodInitial ==
  ASSUME Findable, SInit
  PROVE  GoodInv
PROOF
<1>1. /\ src \in Streams /\ pos = 0 /\ rd = Fresh /\ pc = "idle" /\ op = "none" /\ got = NoCall
  BY DEF SInit, Init
<1>2. src \in Seq(WireChunk)
  BY <1>1, StreamsAssumption DEF Input
<1>3. TotalInv
  BY Zenon DEF SInit, TotalInv
<1>4. SUFFICES ASSUME Good PROVE Fine
  BY <1>3 DEF GoodInv
<1>5. AnswerInv /\ NoSpuriousError /\ SeekSucceeds
  BY <1>1 DEF AnswerInv, NoSpuriousError, SeekSucceeds, NoCall
<1>6. rd.err = "none" /\ Knows(src, pos, rd)
  BY <1>1, <1>2, <1>4, RefSteps DEF Good, Knows, Same, Fresh
<1>7. wrapped => ~rd.header
  <2>1. wrapped => src \in Seekable
    BY DEF SInit
  <2> QED
    BY <1>1, <2>1 DEF Findable, Fresh
<1> QED
  BY <1>5, <1>6, <1>7 DEF Fine, KnowInv

----------------------------------------------------------------------------
(* Theorems.  SingleStreams is about the inputs of a ReadSeeker only: a       *)
(* Reader's may hold any number of streams.                                   *)

\* The inductive invariant.
LEMMA Inductive ==
  ASSUME SingleStreams
  PROVE  SeekSpec => []SeekInv
  BY SeekInitial, SeekStep, PTL DEF SeekSpec

\* And that of good inputs.
LEMMA GoodInductive ==
  ASSUME SingleStreams, Findable
  PROVE  SeekSpec => []GoodInv
PROOF
<1>1. SInit => GoodInv
  BY GoodInitial
<1>2. SeekInv /\ GoodInv /\ [SNext]_svars => GoodInv'
  BY GoodStep
<1> QED
  BY <1>1, <1>2, Inductive, PTL DEF SeekSpec

\* Every variable of Reader and ReadSeeker keeps its type, for any inputs and requests.
THEOREM SeekTypeCorrect ==
  ASSUME SingleStreams
  PROVE  SeekSpec => []SeekTypeOK
PROOF
<1>1. SeekInv => SeekTypeOK
  BY DEF SeekInv, CoreInv
<1> QED
  BY <1>1, Inductive, PTL

\* read, fill_buf and read_at return the bytes at the place of the call, all of them of
\* blocks that decoded and were checked, whatever calls and seeks came before.
THEOREM BytesAreInOrder ==
  ASSUME SingleStreams
  PROVE  SeekSpec => []ReadsInOrder
PROOF
<1>1. SeekInv => ReadsInOrder
  BY DEF SeekInv, RestInv
<1> QED
  BY <1>1, Inductive, PTL

\* A Reader reports the end of its input when all the data has been returned or passed
\* and every stream has been ended.
THEOREM EndIsTheEnd ==
  ASSUME SingleStreams
  PROVE  SeekSpec => []EndIsEnd
PROOF
<1>1. SeekInv => EndIsEnd
  BY DEF SeekInv, RestInv
<1> QED
  BY <1>1, Inductive, PTL

\* skip passes over what it was asked to, or reports an end that is nearer.
THEOREM SkipsAreExact ==
  ASSUME SingleStreams
  PROVE  SeekSpec => []SkipExact
PROOF
<1>1. SeekInv => SkipExact
  BY DEF SeekInv, RestInv
<1> QED
  BY <1>1, Inductive, PTL

\* current_offset is the place of the next byte in its stream, unless the device of a
\* ReadSeeker fails, and decoded_pos stays within decoded.
THEOREM OffsetIsPosition ==
  ASSUME SingleStreams
  PROVE  SeekSpec => []PositionTracks
PROOF
<1>1. SeekInv => PositionTracks
  <2>1. SUFFICES ASSUME SeekInv, ~(wrapped /\ src \in Flaky), rd.err = "none"
                 PROVE  /\ rd.at <= rd.block.len
                        /\ pc = "idle" => rd.start + rd.at = cur - base
    BY DEF PositionTracks, OffsetTracks
  <2>2. Alive
    BY <2>1 DEF Alive
  <2>3. rd.at <= rd.block.len
    BY <2>1, <2>2 DEF SeekInv, CoreInv, AlignInv, Aligned
  <2>4. pc = "idle" => ~Stale
    BY <2>1 DEF Stale
  <2> QED
    BY <2>1, <2>2, <2>3, <2>4 DEF SeekInv, CoreInv, TrackInv
<1> QED
  BY <1>1, Inductive, PTL

\* After a failed call no byte is returned, although decoded may hold the block that
\* failed its check.
THEOREM ErrorsEndTheData ==
  ASSUME SingleStreams
  PROVE  SeekSpec => []NoDataAfterError
PROOF
<1>1. SeekInv => NoDataAfterError
  BY DEF SeekInv, RestInv, SpentInv, NoDataAfterError
<1> QED
  BY <1>1, Inductive, PTL

\* A seek that succeeds is at the offset it was sent to.
THEOREM SeeksLand ==
  ASSUME SingleStreams
  PROVE  SeekSpec => []SeekLands
PROOF
<1>1. SeekInv => SeekLands
  BY DEF SeekInv, RestInv
<1> QED
  BY <1>1, Inductive, PTL

\* A Reader that can read an input through reports no error in any mixture of reads,
\* skips, consumes and seeks on it: what one call leaves behind never makes another one
\* refuse a chunk, and the totals in EOF chunks stay right.
THEOREM IntactInputsNeverFail ==
  ASSUME SingleStreams, Findable
  PROVE  SeekSpec => []NoSpuriousError
PROOF
<1>1. GoodInv => NoSpuriousError
  <2>1. ~Good => NoSpuriousError
    BY DEF Good, NoSpuriousError
  <2> QED
    BY <2>1 DEF GoodInv, Fine
<1> QED
  BY <1>1, GoodInductive, PTL

\* On such an input seek and read_at fail only for their arguments: the end is reported
\* for offsets behind it only, and read_at comes back short only there, whatever part of
\* the blocks the index knows and wherever the Reader was.
THEOREM SeeksSucceed ==
  ASSUME SingleStreams, Findable
  PROVE  SeekSpec => []SeekSucceeds
PROOF
<1>1. GoodInv => SeekSucceeds
  <2>1. ~Good => SeekSucceeds
    BY DEF Good, SeekSucceeds
  <2> QED
    BY <2>1 DEF GoodInv, Fine
<1> QED
  BY <1>1, GoodInductive, PTL
=============================================================================
