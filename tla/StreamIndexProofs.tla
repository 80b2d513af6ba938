------------------------- MODULE StreamIndexProofs -------------------------
(* Theorems about StreamIndex: the entries, how far they are apart, and what *)
(* is loaded of them, for every limit, spacing and sequence of blocks.       *)
EXTENDS StreamIndex, Induction, SequenceTheorems, TLAPS

----------------------------------------------------------------------------
(* The inductive invariant *)

Entry == [comp : Nat, uncomp : Nat]

Thinning == pc \in {"light", "reduce"}
Growing == pc \in {"idle", "light"}

TypeInv ==
  /\ offsets \in Seq(Entry) /\ est \in Nat
  /\ comp \in Nat /\ uncomp \in Nat /\ blocks \in Seq(Entry)
  /\ pc \in {"idle", "light", "reduce", "encode", "encoded", "ended"}
  /\ to \in Nat /\ from \in Nat /\ step \in Nat \ {0}

\* The entries that count: while the others are thinned out, those kept and those
\* still to be looked at.
Live == IF Thinning THEN (1..to) \cup (from..Len(offsets)) ELSE 1..Len(offsets)

\* An entry is kept at or below the place it was found at.
PlaceInv == Thinning => /\ to < from
                        /\ offsets # <<>>
                        /\ IF to = 0 THEN from = 1 ELSE to <= Len(offsets)

\* Every block started before the place where the next will.
FrontInv == \A b \in 1..Len(blocks) : blocks[b].comp < comp /\ blocks[b].uncomp < uncomp

\* Entries are starts of blocks, the first that of the first.
StartInv == /\ \A i \in 1..Len(offsets) : \E b \in 1..Len(blocks) : offsets[i] = blocks[b]
            /\ blocks # <<>> => offsets # <<>> /\ offsets[1] = blocks[1]

Less(x, y) == x.comp < y.comp /\ x.uncomp < y.uncomp

RisingInv == \A i, j \in Live : i < j => Less(offsets[i], offsets[j])

\* The entries' places in the data.
Us == [i \in 1..Len(offsets) |-> offsets[i].uncomp]

\* Between entry i and the next there is less than g.
Gap(i, g) == Us[i + 1] - Us[i] < g

\* What lies behind entry i is less than g.
Behind(i, g) == uncomp - Us[i] < g

Wide == 2 * est + MaxBlock

\* How far the entries are apart.
SpreadInv ==
  /\ Growing => step = 1
  /\ offsets # <<>> => est > 0
  /\ ~Thinning /\ offsets # <<>> =>
       /\ \A i \in 1..(Len(offsets) - 1) : Gap(i, 2 * est + step * MaxBlock)
       /\ Behind(Len(offsets), IF pc = "idle" THEN est + MaxBlock ELSE 2 * est + step * MaxBlock)

\* reduce_light has doubled the spacing: the entries it has still to look at are
\* closer to each other than those it keeps.
LightInv ==
  pc = "light" =>
    /\ \A i \in 1..(to - 1) : Gap(i, Wide)
    /\ \A i \in from..(Len(offsets) - 1) : Gap(i, est + MaxBlock)
    /\ from <= Len(offsets) =>
         /\ to > 0 => Us[from] - Us[to] < Wide
         /\ Behind(Len(offsets), MaxBlock + 1)
    /\ from > Len(offsets) => Behind(to, est + MaxBlock)

\* reduce keeps one entry in step, and so no more than the limit.
ReduceInv ==
  pc = "reduce" =>
    /\ \A i \in 1..(to - 1) : Gap(i, step * Wide)
    /\ \A i \in from..(Len(offsets) - 1) : Gap(i, Wide)
    /\ from <= Len(offsets) =>
         /\ to > 0 => Us[from] - Us[to] < step * Wide
         /\ Behind(Len(offsets), Wide)
    /\ from > Len(offsets) => Behind(to, step * Wide)
    /\ from = to * step + 1
    /\ to > 0 => (to - 1) * step < Len(offsets)
    /\ Len(offsets) < step * MaxEntries

\* What has been encoded are the entries, and what was loaded too.
CodeInv ==
  /\ pc \in {"encode", "encoded", "ended"} => Len(offsets) <= MaxEntries
  /\ pc \in {"encoded", "ended"} => coded = Encoded
  /\ LoadsBack

ThinInv == /\ TypeInv /\ PlaceInv /\ FrontInv /\ StartInv /\ RisingInv /\ SpreadInv
           /\ LightInv /\ ReduceInv /\ CodeInv



----------------------------------------------------------------------------
(* Entries *)

\* An entry has two natural numbers, wherever it is.
LEMMA EntryType ==
  ASSUME NEW s \in Seq(Entry), NEW i \in 1..Len(s)
  PROVE  s[i] \in Entry /\ s[i].comp \in Nat /\ s[i].uncomp \in Nat
PROOF
<1>1. s[i] \in Entry
  OBVIOUS
<1> QED
  BY <1>1 DEF Entry

\* Multiples of a gap, one more and monotone.
LEMMA Multiples ==
  ASSUME NEW g \in Nat
  PROVE  /\ 0 * g = 0 /\ 1 * g = g
         /\ \A d \in Nat : d * g \in Nat /\ (d + 1) * g = d * g + g
         /\ \A d, e \in Nat : d <= e => d * g <= e * g
PROOF
<1>1. 0 * g = 0 /\ 1 * g = g
  OBVIOUS
<1>2. \A d \in Nat : d * g \in Nat
  OBVIOUS
<1>3. \A d \in Nat : (d + 1) * g = d * g + g
  OBVIOUS
<1>4. ASSUME NEW d \in Nat, NEW e \in Nat, d <= e
      PROVE  d * g <= e * g
  <2>1. PICK k \in Nat : e = d + k
    BY <1>4
  <2>2. (d + k) * g = d * g + k * g
    OBVIOUS
  <2> QED
    BY <1>2, <2>1, <2>2
<1> QED
  BY <1>1, <1>2, <1>3, <1>4

\* Neighbours closer than g: d entries on lie less than d times g.
LEMMA Apart ==
  ASSUME NEW n \in Nat, NEW f \in [1..n -> Nat], NEW a \in 1..n, NEW b \in a..n, NEW g \in Nat,
         \A i \in a..(b - 1) : f[i + 1] - f[i] < g
  PROVE  f[b] - f[a] <= (b - a) * g
PROOF
<1> DEFINE S == {d \in 0..(b - a) : f[a + d] - f[a] <= d * g}
<1>0. a \in Nat /\ b \in Nat /\ b - a \in Nat /\ a + (b - a) = b
  OBVIOUS
<1>1. 0 \in S
  <2>1. a + 0 = a /\ f[a] - f[a] = 0
    BY <1>0
  <2> QED
    BY <1>0, <2>1, Multiples
<1>2. ASSUME NEW d \in 0..((b - a) - 1), d \in S
      PROVE  d + 1 \in S
  <2>1. a + d \in a..(b - 1) /\ a + d \in 1..n /\ (a + d) + 1 \in 1..n
        /\ a + (d + 1) = (a + d) + 1 /\ d + 1 \in 0..(b - a) /\ d \in Nat
    BY <1>0
  <2>2. f[(a + d) + 1] - f[a + d] < g
    BY <2>1
  <2>3. f[a + d] \in Nat /\ f[(a + d) + 1] \in Nat /\ f[a] \in Nat
    BY <1>0, <2>1
  <2>4. f[a + d] - f[a] <= d * g
    BY <1>2
  <2>5. d * g \in Nat /\ (d + 1) * g = d * g + g
    BY <2>1, Multiples
  <2>6. PICK m \in Nat : m = d * g
    BY <2>5
  <2>7. f[a + d] - f[a] <= m
    BY <2>4, <2>6
  <2>8. f[(a + d) + 1] - f[a] <= m + g
    <3> HIDE DEF S
    <3> QED
      BY <2>2, <2>3, <2>7
  <2>9. f[a + (d + 1)] - f[a] <= (d + 1) * g
    BY <2>1, <2>5, <2>6, <2>8
  <2> QED
    BY <2>1, <2>9
<1> HIDE DEF S
<1>3. \A d \in 0..(b - a) : d \in S
  BY <1>0, <1>1, <1>2, UpTo
<1>4. b - a \in S
  BY <1>0, <1>3
<1> QED
  BY <1>0, <1>4 DEF S

\* The places are natural numbers.
LEMMA UsType ==
  ASSUME offsets \in Seq(Entry)
  PROVE  Us \in [1..Len(offsets) -> Nat] /\ \A i \in 1..Len(offsets) : Us[i] = offsets[i].uncomp
  BY EntryType DEF Us

----------------------------------------------------------------------------
(* Thinning *)

\* What every step of the two loops keeps: an entry moves down over one that does
\* not count, and those between it and the next do not count any more.
LEMMA KeepKeeps ==
  ASSUME ThinInv, Thinning, from <= Len(offsets), NEW next \in Nat, next > from, Keep(next)
  PROVE  /\ TypeInv' /\ PlaceInv' /\ FrontInv' /\ StartInv' /\ RisingInv'
         /\ Len(offsets') = Len(offsets)
         /\ \A i \in 1..Len(offsets) : offsets'[i] = IF i = to + 1 THEN offsets[from] ELSE offsets[i]
         /\ to + 1 \in 1..Len(offsets) /\ from \in 1..Len(offsets)
         /\ (Thinning <=> Thinning') /\ to' = to + 1 /\ from' = next
         /\ Us' \in [1..Len(offsets) -> Nat]
         /\ \A i \in 1..Len(offsets) : Us'[i] = IF i = to + 1 THEN Us[from] ELSE Us[i]
PROOF
<1> USE DEF ThinInv
<1>1. offsets \in Seq(Entry) /\ to \in Nat /\ from \in Nat /\ Len(offsets) \in Nat
  BY DEF TypeInv
<1>2. to < from /\ to + 1 \in 1..Len(offsets) /\ from \in 1..Len(offsets)
  BY <1>1 DEF PlaceInv
<1>3. /\ offsets' = [offsets EXCEPT ![to + 1] = offsets[from]]
      /\ to' = to + 1 /\ from' = next
      /\ UNCHANGED <<est, comp, uncomp, blocks, pc, step, coded, loaded>>
  BY DEF Keep
<1>4. offsets' \in Seq(Entry) /\ Len(offsets') = Len(offsets)
      /\ \A i \in 1..Len(offsets) : offsets'[i] = IF i = to + 1 THEN offsets[from] ELSE offsets[i]
  <2>1. offsets[from] \in Entry
    BY <1>1, <1>2
  <2> QED
    BY <1>1, <1>2, <1>3, <2>1
<1>5. Thinning <=> Thinning'
  BY <1>3 DEF Thinning
<1>6. TypeInv'
  BY <1>1, <1>3, <1>4 DEF TypeInv
<1>7. PlaceInv'
  BY <1>1, <1>2, <1>3, <1>4 DEF PlaceInv, Thinning
<1>8. FrontInv'
  BY <1>3 DEF FrontInv
<1>9. StartInv'
  <2>1. ASSUME NEW i \in 1..Len(offsets)
        PROVE  \E b \in 1..Len(blocks) : offsets'[i] = blocks[b]
    BY <1>2, <1>4 DEF StartInv
  <2>2. offsets # <<>> /\ 1 \in 1..Len(offsets)
    BY <1>1, <1>2
  <2>3. offsets'[1] = offsets[1]
    BY <1>1, <1>2, <1>4, <2>2 DEF PlaceInv
  <2>4. offsets' # <<>>
    BY <1>4, <2>2
  <2> QED
    BY <1>3, <1>4, <2>1, <2>2, <2>3, <2>4 DEF StartInv
<1>10. RisingInv'
  <2> DEFINE Old(i) == IF i = to + 1 THEN from ELSE i
  <2>1. Live = (1..to) \cup (from..Len(offsets))
    BY DEF Live
  <2>2. Live' = (1..(to + 1)) \cup (next..Len(offsets))
    BY <1>3, <1>4, <1>5 DEF Live
  <2>3. ASSUME NEW i \in Live', NEW j \in Live', i < j
        PROVE  Less(offsets'[i], offsets'[j])
    <3>1. i \in 1..Len(offsets) /\ j \in 1..Len(offsets)
      BY <1>1, <1>2, <2>2, <2>3
    <3>2. Old(i) \in Live /\ Old(j) \in Live /\ Old(i) < Old(j)
      BY <1>1, <1>2, <2>1, <2>2, <2>3
    <3>3. offsets'[i] = offsets[Old(i)] /\ offsets'[j] = offsets[Old(j)]
      BY <1>4, <3>1
    <3> QED
      BY <3>2, <3>3 DEF RisingInv
  <2> QED
    BY <2>3 DEF RisingInv
<1>11. Us' \in [1..Len(offsets) -> Nat]
       /\ \A i \in 1..Len(offsets) : Us'[i] = offsets'[i].uncomp
  <2>1. \A i \in 1..Len(offsets) : offsets'[i].uncomp \in Nat
    BY <1>4, EntryType
  <2> QED
    BY <1>4, <2>1 DEF Us
<1>12. \A i \in 1..Len(offsets) : Us'[i] = IF i = to + 1 THEN Us[from] ELSE Us[i]
  BY <1>1, <1>2, <1>4, <1>11, UsType
<1> QED
  BY <1>2, <1>3, <1>4, <1>5, <1>6, <1>7, <1>8, <1>9, <1>10, <1>11, <1>12

\* The entry reduce_light keeps next: those it passes are within the spacing.
LEMMA NextKeptIs ==
  ASSUME TypeInv, from \in 1..Len(offsets)
  PROVE  /\ NextKept(from) \in (from + 1)..(Len(offsets) + 1)
         /\ \A i \in (from + 1)..(NextKept(from) - 1) : Us[i] - Us[from] < est
PROOF
<1> DEFINE far == {j \in (from + 1)..Len(offsets) :
                     offsets[j].uncomp - offsets[from].uncomp >= est}
<1>1. offsets \in Seq(Entry) /\ from \in Nat /\ est \in Nat /\ Len(offsets) \in Nat
  BY DEF TypeInv
<1>2. \A i \in (from + 1)..Len(offsets) :
        i \in 1..Len(offsets) /\ (i \notin far => Us[i] - Us[from] < est)
  <2>1. SUFFICES ASSUME NEW i \in (from + 1)..Len(offsets)
                 PROVE  i \in 1..Len(offsets) /\ (i \notin far => Us[i] - Us[from] < est)
    OBVIOUS
  <2>2. i \in 1..Len(offsets)
    BY <1>1
  <2>3. Us[i] = offsets[i].uncomp /\ Us[from] = offsets[from].uncomp
        /\ Us[i] \in Nat /\ Us[from] \in Nat
    BY <1>1, <2>2, UsType
  <2>4. i \notin far => ~(Us[i] - Us[from] >= est)
    BY <2>3, Zenon
  <2> QED
    BY <1>1, <2>2, <2>3, <2>4
<1>3. NextKept(from) = IF far = {} THEN Len(offsets) + 1
                       ELSE CHOOSE j \in far : \A i \in far : j <= i
  BY DEF NextKept
<1>4. far \in SUBSET Nat /\ far \subseteq (from + 1)..Len(offsets)
  BY <1>1
<1> HIDE DEF far
<1>5. CASE far = {}
  BY <1>1, <1>2, <1>3, <1>5
<1>6. CASE far # {}
  <2>1. \E j \in far : \A i \in far : j <= i
    BY <1>4, <1>6, LeastNatural
  <2>2. NextKept(from) \in far /\ \A i \in far : NextKept(from) <= i
    BY <1>3, <1>6, <2>1
  <2>3. PICK n \in far : n = NextKept(from)
    BY <2>2
  <2>4. n \in (from + 1)..Len(offsets) /\ \A i \in far : n <= i
    BY <1>4, <2>2, <2>3
  <2>5. ASSUME NEW i \in (from + 1)..(n - 1) PROVE Us[i] - Us[from] < est
    <3>1. i \in (from + 1)..Len(offsets) /\ ~(n <= i)
      BY <1>1, <2>4
    <3> QED
      BY <1>2, <2>4, <3>1
  <2> QED
    BY <1>1, <2>3, <2>4, <2>5
<1> QED
  BY <1>5, <1>6

\* A turn of reduce_light's loop.
LEMMA LightKeeps ==
  ASSUME ThinInv, LightStep
  PROVE  ThinInv'
PROOF
<1> DEFINE next == NextKept(from)
           L == Len(offsets)
<1>0. pc = "light" /\ Keep(next) /\ from <= L /\ Thinning
  BY DEF LightStep, Keep, Thinning
<1>1. /\ from \in 1..L /\ to \in Nat /\ L \in Nat /\ est \in Nat /\ uncomp \in Nat
      /\ to < from /\ MaxBlock \in Nat
  BY <1>0, IndexAssumption DEF ThinInv, TypeInv, PlaceInv
<1>2. next \in (from + 1)..(L + 1) /\ \A i \in (from + 1)..(next - 1) : Us[i] - Us[from] < est
  BY <1>1, NextKeptIs DEF ThinInv
<1>3. next \in Nat /\ next > from
  BY <1>1, <1>2
<1> HIDE DEF next
<1>4. /\ TypeInv' /\ PlaceInv' /\ FrontInv' /\ StartInv' /\ RisingInv'
      /\ Len(offsets') = L /\ to + 1 \in 1..L
      /\ Thinning' /\ to' = to + 1 /\ from' = next
      /\ Us' \in [1..L -> Nat]
      /\ \A i \in 1..L : Us'[i] = IF i = to + 1 THEN Us[from] ELSE Us[i]
  BY <1>0, <1>3, KeepKeeps
<1>5. UNCHANGED <<est, uncomp, pc, step, coded, loaded>> /\ offsets' # <<>> /\ offsets # <<>>
  BY <1>0, <1>1, <1>4 DEF Keep
<1>6. Us \in [1..L -> Nat]
  BY UsType DEF ThinInv, TypeInv
<1>7. SpreadInv'
  BY <1>0, <1>4, <1>5 DEF ThinInv, SpreadInv, Thinning, Growing
<1>8. CodeInv'
  BY <1>0, <1>5 DEF CodeInv, LoadsBack
<1>9. ReduceInv'
  BY <1>0, <1>5 DEF ReduceInv
<1>10. LightInv'
  <2>1. /\ \A i \in 1..(to - 1) : Us[i + 1] - Us[i] < Wide
        /\ \A i \in from..(L - 1) : Us[i + 1] - Us[i] < est + MaxBlock
        /\ to > 0 => Us[from] - Us[to] < Wide
        /\ uncomp - Us[L] < MaxBlock + 1
    BY <1>0 DEF ThinInv, LightInv, Gap, Behind
  <2>2. Wide \in Nat /\ Wide = est + est + MaxBlock /\ Wide' = Wide /\ est > 0
    BY <1>1, <1>5 DEF Wide, ThinInv, SpreadInv
  <2> HIDE DEF L
  <2>3. ASSUME NEW i \in 1..to PROVE Us'[i + 1] - Us'[i] < Wide
    <3>1. i \in 1..L /\ i + 1 \in 1..L /\ Us'[i] = Us[i]
      BY <1>1, <1>4
    <3>2. CASE i = to
      BY <1>1, <1>4, <2>1, <3>1, <3>2
    <3>3. CASE i # to
      <4>1. i \in 1..(to - 1) /\ Us'[i + 1] = Us[i + 1]
        BY <1>1, <1>4, <3>1, <3>3
      <4> QED
        BY <2>1, <3>1, <4>1
    <3> QED
      BY <3>2, <3>3
  <2>4. ASSUME NEW i \in next..(L - 1) PROVE Us'[i + 1] - Us'[i] < est + MaxBlock
    <3>1. i \in from..(L - 1) /\ i \in 1..L /\ i + 1 \in 1..L /\ i > to + 1
      BY <1>1, <1>3
    <3>2. Us'[i + 1] = Us[i + 1] /\ Us'[i] = Us[i]
      BY <1>1, <1>4, <3>1
    <3> QED
      BY <2>1, <3>1, <3>2
  <2>5. CASE next <= L
    <3>1. next \in 1..L /\ next - 1 \in from..(L - 1) /\ next - 1 \in 1..L /\ L \in 1..L
          /\ next > to + 1 /\ L > to + 1 /\ (next - 1) + 1 = next
      BY <1>1, <1>3, <2>5
    <3>2. Us'[next] = Us[next] /\ Us'[L] = Us[L] /\ Us'[to + 1] = Us[from]
      BY <1>4, <3>1
    <3>3. Us[next] - Us[next - 1] < est + MaxBlock
      BY <2>1, <3>1
    <3>4. Us[next - 1] - Us[from] < est
      <4>1. CASE next - 1 = from
        BY <1>1, <1>6, <2>2, <4>1
      <4>2. CASE next - 1 # from
        BY <1>1, <1>2, <3>1, <4>2
      <4> QED
        BY <4>1, <4>2
    <3>5. Us[next] \in Nat /\ Us[next - 1] \in Nat /\ Us[from] \in Nat
      BY <1>1, <1>6, <3>1
    <3>6. Us[next] - Us[from] < Wide
      BY <1>1, <2>2, <3>3, <3>4, <3>5
    <3> QED
      BY <1>1, <1>4, <1>5, <2>1, <2>2, <2>3, <2>4, <2>5, <3>1, <3>2, <3>6
      DEF LightInv, Gap, Behind
  <2>6. CASE next > L
    <3>1. Us[L] - Us[from] < est
      <4>1. CASE L = from
        BY <1>1, <1>6, <2>2, <4>1
      <4>2. CASE L # from
        BY <1>1, <1>2, <2>6, <4>2
      <4> QED
        BY <4>1, <4>2
    <3>2. L \in 1..L /\ Us[L] \in Nat /\ Us[from] \in Nat /\ Us'[to + 1] = Us[from]
      BY <1>1, <1>4, <1>6
    <3>3. uncomp - Us[from] < est + MaxBlock
      BY <1>1, <2>1, <3>1, <3>2
    <3> QED
      BY <1>1, <1>3, <1>4, <1>5, <2>2, <2>3, <2>4, <2>6, <3>2, <3>3 DEF LightInv, Gap, Behind
  <2> QED
    BY <1>1, <1>3, <2>5, <2>6
<1> QED
  BY <1>4, <1>7, <1>8, <1>9, <1>10 DEF ThinInv

\* A turn of reduce's loop.
LEMMA ReduceKeeps ==
  ASSUME ThinInv, ReduceStep
  PROVE  ThinInv'
PROOF
<1> DEFINE next == from + step
           L == Len(offsets)
<1>0. pc = "reduce" /\ Keep(next) /\ from <= L /\ Thinning
  BY DEF ReduceStep, Keep, Thinning
<1>1. /\ from \in 1..L /\ to \in Nat /\ L \in Nat /\ est \in Nat /\ uncomp \in Nat
      /\ to < from /\ MaxBlock \in Nat /\ step \in Nat /\ step > 0
  BY <1>0, IndexAssumption DEF ThinInv, TypeInv, PlaceInv
<1>3. next \in Nat /\ next > from /\ next = from + step
  BY <1>1
<1> HIDE DEF next
<1>4. /\ TypeInv' /\ PlaceInv' /\ FrontInv' /\ StartInv' /\ RisingInv'
      /\ Len(offsets') = L /\ to + 1 \in 1..L
      /\ Thinning' /\ to' = to + 1 /\ from' = next
      /\ Us' \in [1..L -> Nat]
      /\ \A i \in 1..L : Us'[i] = IF i = to + 1 THEN Us[from] ELSE Us[i]
  BY <1>0, <1>3, KeepKeeps
<1>5. UNCHANGED <<est, uncomp, pc, step, coded, loaded>> /\ offsets' # <<>> /\ offsets # <<>>
  BY <1>0, <1>1, <1>4 DEF Keep
<1>6. Us \in [1..L -> Nat]
  BY UsType DEF ThinInv, TypeInv
<1>7. SpreadInv'
  BY <1>0, <1>4, <1>5 DEF ThinInv, SpreadInv, Thinning, Growing
<1>8. CodeInv'
  BY <1>0, <1>5 DEF CodeInv, LoadsBack
<1>9. LightInv'
  BY <1>0, <1>5 DEF LightInv
<1>10. ReduceInv'
  <2>0. PICK W \in Nat : W = Wide
    BY <1>1 DEF Wide
  <2>1. PICK K \in Nat : K = (step - 1) * W /\ step * W = K + W
    <3>1. step - 1 \in Nat /\ (step - 1) + 1 = step
      BY <1>1
    <3> QED
      BY <3>1, Multiples
  <2>2. Wide' = W
    BY <1>5, <2>0 DEF Wide
  <2>3. /\ \A i \in 1..(to - 1) : Us[i + 1] - Us[i] < K + W
        /\ \A i \in from..(L - 1) : Us[i + 1] - Us[i] < W
        /\ to > 0 => Us[from] - Us[to] < K + W
        /\ uncomp - Us[L] < W
        /\ from = to * step + 1
        /\ L < step * MaxEntries
    BY <1>0, <2>0, <2>1 DEF ThinInv, ReduceInv, Gap, Behind
  <2> HIDE DEF L
  <2>4. ASSUME NEW i \in 1..to PROVE Us'[i + 1] - Us'[i] < K + W
    <3>1. i \in 1..L /\ i + 1 \in 1..L /\ Us'[i] = Us[i]
      BY <1>1, <1>4
    <3>2. CASE i = to
      BY <1>1, <1>4, <2>3, <3>1, <3>2
    <3>3. CASE i # to
      <4>1. i \in 1..(to - 1) /\ Us'[i + 1] = Us[i + 1]
        BY <1>1, <1>4, <3>1, <3>3
      <4> QED
        BY <2>3, <3>1, <4>1
    <3> QED
      BY <3>2, <3>3
  <2>5. ASSUME NEW i \in next..(L - 1) PROVE Us'[i + 1] - Us'[i] < W
    <3>1. i \in from..(L - 1) /\ i \in 1..L /\ i + 1 \in 1..L /\ i > to + 1
      BY <1>1, <1>3
    <3>2. Us'[i + 1] = Us[i + 1] /\ Us'[i] = Us[i]
      BY <1>1, <1>4, <3>1
    <3> QED
      BY <2>3, <3>1, <3>2
  <2>6. ASSUME NEW b \in from..L, b - from <= step - 1
        PROVE  b \in 1..L /\ Us[b] \in Nat /\ Us[from] \in Nat /\ Us[b] - Us[from] <= K
    <3>1. b \in 1..L /\ Us[b] \in Nat /\ Us[from] \in Nat /\ b - from \in Nat /\ step - 1 \in Nat
      BY <1>1, <1>6
    <3>2. Us[b] - Us[from] <= (b - from) * W
      <4>1. \A i \in from..(b - 1) : Us[i + 1] - Us[i] < W
        BY <1>1, <2>3, <3>1
      <4> QED
        BY <1>1, <1>6, <2>0, <4>1, Apart
    <3>3. PICK J \in Nat : J = (b - from) * W
      BY <2>0, <3>1, Multiples
    <3>4. J <= K
      BY <2>0, <2>1, <2>6, <3>1, <3>3, Multiples
    <3>5. Us[b] - Us[from] <= J
      BY <3>2, <3>3
    <3> QED
      BY <3>1, <3>4, <3>5
  <2>7. Us'[to + 1] = Us[from]
    BY <1>4
  <2>8. next <= L => Us'[next] - Us'[to + 1] < K + W /\ uncomp - Us'[L] < W
    <3>1. SUFFICES ASSUME next <= L
                   PROVE  Us'[next] - Us'[to + 1] < K + W /\ uncomp - Us'[L] < W
      OBVIOUS
    <3>2. next \in 1..L /\ next - 1 \in from..L /\ (next - 1) - from <= step - 1 /\ L \in 1..L
          /\ next > to + 1 /\ L > to + 1 /\ (next - 1) + 1 = next /\ next - 1 \in from..(L - 1)
      BY <1>1, <1>3, <3>1
    <3>3. Us'[next] = Us[next] /\ Us'[L] = Us[L] /\ Us[next] \in Nat
      BY <1>4, <1>6, <3>2
    <3>4. Us[next - 1] \in Nat /\ Us[from] \in Nat /\ Us[next - 1] - Us[from] <= K
      BY <2>6, <3>2
    <3>5. Us[next] - Us[next - 1] < W
      BY <2>3, <3>2
    <3> QED
      BY <2>0, <2>1, <2>3, <2>7, <3>3, <3>4, <3>5
  <2>9. next > L => uncomp - Us'[to + 1] < K + W
    <3>1. SUFFICES ASSUME next > L
                   PROVE  uncomp - Us'[to + 1] < K + W
      OBVIOUS
    <3>2. L \in from..L /\ L - from <= step - 1
      BY <1>1, <1>3, <3>1
    <3>3. Us[L] \in Nat /\ Us[from] \in Nat /\ Us[L] - Us[from] <= K
      BY <2>6, <3>2
    <3> QED
      BY <1>1, <2>0, <2>1, <2>3, <2>7, <3>3
  <2>10. next = (to + 1) * step + 1 /\ ((to + 1) - 1) * step < L
    <3>1. PICK m \in Nat : m = to * step /\ (to + 1) * step = m + step
      BY <1>1, Multiples
    <3>2. (to + 1) - 1 = to
      BY <1>1
    <3>3. from = m + 1
      BY <2>3, <3>1
    <3> QED
      BY <1>1, <1>3, <3>1, <3>2, <3>3
  <2>11. (to + 1) - 1 = to
    BY <1>1
  <2>12. \A i \in 1..((to + 1) - 1) : Us'[i + 1] - Us'[i] < step * W
    BY <2>1, <2>4, <2>11
  <2> QED
    BY <1>4, <1>5, <2>1, <2>2, <2>3, <2>5, <2>8, <2>9, <2>10, <2>12, Zenon
    DEF ReduceInv, Gap, Behind
<1> QED
  BY <1>4, <1>7, <1>8, <1>9, <1>10 DEF ThinInv

\* The end of either loop: the entries kept are the entries.
LEMMA CutKeeps ==
  ASSUME ThinInv, Thinning, from > Len(offsets), offsets' = SubSeq(offsets, 1, to),
         UNCHANGED <<comp, uncomp, blocks>>, ~Thinning'
  PROVE  /\ to \in 1..Len(offsets) /\ offsets' # <<>>
         /\ offsets' \in Seq(Entry) /\ Len(offsets') = to
         /\ PlaceInv' /\ FrontInv' /\ StartInv' /\ RisingInv'
         /\ Us \in [1..Len(offsets) -> Nat] /\ Us' \in [1..to -> Nat]
         /\ \A i \in 1..to : Us'[i] = Us[i]
PROOF
<1>1. offsets \in Seq(Entry) /\ to \in Nat /\ from \in Nat /\ Len(offsets) \in Nat
  BY DEF ThinInv, TypeInv
<1>2. to \in 1..Len(offsets)
  BY <1>1 DEF ThinInv, PlaceInv
<1>3. offsets' \in Seq(Entry) /\ Len(offsets') = to /\ \A i \in 1..to : offsets'[i] = offsets[i]
  BY <1>1, <1>2
<1>4. offsets' # <<>> /\ \A i \in 1..to : i \in 1..Len(offsets)
  BY <1>1, <1>2, <1>3
<1>5. PlaceInv' /\ FrontInv'
  BY DEF ThinInv, PlaceInv, FrontInv
<1>6. StartInv'
  <2>1. ASSUME NEW i \in 1..to PROVE \E b \in 1..Len(blocks) : offsets'[i] = blocks[b]
    BY <1>3, <1>4 DEF ThinInv, StartInv
  <2>2. 1 \in 1..to
    BY <1>1, <1>2
  <2>3. offsets'[1] = offsets[1]
    BY <1>3, <2>2
  <2>4. blocks' = blocks
    OBVIOUS
  <2>5. blocks # <<>> => offsets'[1] = blocks[1]
    BY <2>3 DEF ThinInv, StartInv
  <2>6. \A i \in 1..Len(offsets') : \E b \in 1..Len(blocks) : offsets'[i] = blocks[b]
    BY <1>3, <2>1, Zenon
  <2> QED
    BY <1>4, <2>4, <2>5, <2>6, Zenon DEF StartInv
<1>7. RisingInv'
  <2>1. Live' = 1..to
    BY <1>3 DEF Live
  <2>2. 1..to \subseteq Live
    BY DEF Live
  <2> QED
    BY <1>3, <2>1, <2>2 DEF ThinInv, RisingInv
<1>8. Us \in [1..Len(offsets) -> Nat] /\ \A i \in 1..Len(offsets) : Us[i] = offsets[i].uncomp
  BY <1>1, UsType
<1>9. Us' = [i \in 1..to |-> offsets'[i].uncomp]
  BY <1>3 DEF Us
<1>10. \A i \in 1..to : Us'[i] = Us[i] /\ Us[i] \in Nat
  BY <1>3, <1>4, <1>8, <1>9
<1>11. Us' \in [1..to -> Nat]
  BY <1>9, <1>10
<1> QED
  BY <1>2, <1>3, <1>4, <1>5, <1>6, <1>7, <1>8, <1>10, <1>11

\* reduce_light returns.
LEMMA LightEnds ==
  ASSUME ThinInv, LightEnd
  PROVE  ThinInv'
PROOF
<1>1. /\ pc = "light" /\ pc' = "idle" /\ from > Len(offsets) /\ offsets' = SubSeq(offsets, 1, to)
      /\ UNCHANGED <<est, comp, uncomp, blocks, to, from, step, coded, loaded>>
      /\ Thinning /\ ~Thinning'
  BY DEF LightEnd, Thinning
<1>2. /\ to \in 1..Len(offsets) /\ offsets' # <<>> /\ offsets # <<>>
      /\ offsets' \in Seq(Entry) /\ Len(offsets') = to
      /\ PlaceInv' /\ FrontInv' /\ StartInv' /\ RisingInv'
      /\ \A i \in 1..to : Us'[i] = Us[i]
  BY <1>1, CutKeeps DEF ThinInv, PlaceInv
<1>3. TypeInv'
  BY <1>1, <1>2 DEF ThinInv, TypeInv
<1>4. SpreadInv'
  <2>1. step = 1 /\ est > 0 /\ est \in Nat /\ MaxBlock \in Nat /\ to \in Nat
    BY <1>1, <1>2, IndexAssumption DEF ThinInv, SpreadInv, TypeInv, Growing
  <2>2. \A i \in 1..(to - 1) : Us[i + 1] - Us[i] < Wide
    BY <1>1 DEF ThinInv, LightInv, Gap
  <2>3. uncomp - Us[to] < est + MaxBlock
    BY <1>1 DEF ThinInv, LightInv, Behind
  <2>4. Wide = 2 * est + step * MaxBlock
    BY <2>1 DEF Wide
  <2>5. \A i \in 1..(to - 1) : i \in 1..to /\ i + 1 \in 1..to
    BY <2>1
  <2>6. \A i \in 1..(to - 1) : Us'[i + 1] - Us'[i] < Wide
    BY <1>2, <2>2, <2>5
  <2>7. uncomp - Us'[to] < est + MaxBlock
    BY <1>2, <2>1, <2>3
  <2> QED
    BY <1>1, <1>2, <2>1, <2>4, <2>6, <2>7 DEF SpreadInv, Gap, Behind, Growing, Thinning
<1>5. LightInv' /\ ReduceInv' /\ CodeInv'
  BY <1>1 DEF LightInv, ReduceInv, CodeInv, LoadsBack
<1> QED
  BY <1>2, <1>3, <1>4, <1>5 DEF ThinInv

\* reduce returns.
LEMMA ReduceEnds ==
  ASSUME ThinInv, ReduceEnd
  PROVE  ThinInv'
PROOF
<1>1. /\ pc = "reduce" /\ pc' = "encode" /\ from > Len(offsets)
      /\ offsets' = SubSeq(offsets, 1, to) /\ est' = est * step
      /\ UNCHANGED <<comp, uncomp, blocks, to, from, step, coded, loaded>>
      /\ Thinning /\ ~Thinning'
  BY DEF ReduceEnd, Thinning
<1>2. /\ to \in 1..Len(offsets) /\ offsets' # <<>> /\ offsets # <<>>
      /\ offsets' \in Seq(Entry) /\ Len(offsets') = to
      /\ PlaceInv' /\ FrontInv' /\ StartInv' /\ RisingInv'
      /\ \A i \in 1..to : Us'[i] = Us[i]
  BY <1>1, CutKeeps DEF ThinInv, PlaceInv
<1>3. /\ step \in Nat /\ step > 0 /\ est \in Nat /\ est > 0 /\ MaxBlock \in Nat
      /\ MaxEntries \in Nat /\ to \in Nat /\ Len(offsets) \in Nat
  BY <1>2, IndexAssumption DEF ThinInv, SpreadInv, TypeInv
<1>4. est * step \in Nat /\ est * step > 0
  BY <1>3
<1>5. TypeInv'
  BY <1>1, <1>2, <1>4 DEF ThinInv, TypeInv
<1>6. SpreadInv'
  <2>1. step * Wide = 2 * (est * step) + step * MaxBlock
    BY <1>3 DEF Wide
  <2>2. \A i \in 1..(to - 1) : Us[i + 1] - Us[i] < step * Wide
    BY <1>1 DEF ThinInv, ReduceInv, Gap
  <2>3. uncomp - Us[to] < step * Wide
    BY <1>1 DEF ThinInv, ReduceInv, Behind
  <2>4. \A i \in 1..(to - 1) : i \in 1..to /\ i + 1 \in 1..to
    BY <1>3
  <2>5. \A i \in 1..(to - 1) : Us'[i + 1] - Us'[i] < step * Wide
    BY <1>2, <2>2, <2>4, Zenon
  <2>6. uncomp - Us'[to] < step * Wide
    BY <1>2, <1>3, <2>3
  <2>7. est' > 0 /\ ~Growing' /\ pc' # "idle"
    BY <1>1, <1>4 DEF Growing
  <2>8. ASSUME ~Thinning'
        PROVE  /\ \A i \in 1..(Len(offsets') - 1) : Us'[i + 1] - Us'[i] < 2 * est' + step' * MaxBlock
               /\ uncomp' - Us'[Len(offsets')] < 2 * est' + step' * MaxBlock
    BY <1>1, <1>2, <2>1, <2>5, <2>6, Zenon
  <2> QED
    BY <1>1, <1>2, <2>7, <2>8, Zenon DEF SpreadInv, Gap, Behind
<1>7. CodeInv'
  <2>1. (to - 1) * step < Len(offsets) /\ Len(offsets) < step * MaxEntries
    BY <1>1, <1>2, <1>3 DEF ThinInv, ReduceInv
  <2>2. to <= MaxEntries
    <3>1. SUFFICES ASSUME MaxEntries <= to - 1 PROVE FALSE
      BY <1>3
    <3>2. to - 1 \in Nat
      BY <1>2, <1>3
    <3>3. MaxEntries * step <= (to - 1) * step /\ MaxEntries * step \in Nat
          /\ (to - 1) * step \in Nat
      BY <1>3, <3>1, <3>2, Multiples
    <3>4. MaxEntries * step = step * MaxEntries
      BY <1>3
    <3> QED
      BY <1>3, <2>1, <3>3, <3>4
  <2> QED
    BY <1>1, <1>2, <2>2 DEF CodeInv, LoadsBack
<1>8. LightInv' /\ ReduceInv'
  BY <1>1 DEF LightInv, ReduceInv
<1> QED
  BY <1>2, <1>5, <1>6, <1>7, <1>8 DEF ThinInv

\* reduce drops at least as many entries for each it keeps as the limit demands.
LEMMA RemoveEnough ==
  ASSUME TypeInv, offsets # <<>>
  PROVE  RemoveN \in Nat /\ Len(offsets) < (1 + RemoveN) * MaxEntries
PROOF
<1> DEFINE L == Len(offsets)
           least == (L + 1) \div MaxEntries
           enough(r) == est * (r + 1) >= MinDist \/ L \div (r + 1) <= FewEntries
           R == {r \in least..(least + L) : enough(r)}
<1>1. L \in Nat /\ MaxEntries \in Nat /\ MaxEntries > 0 /\ est \in Nat /\ FewEntries \in Nat
  BY IndexAssumption DEF TypeInv
<1>2. least \in Nat /\ L + 1 < (1 + least) * MaxEntries
  BY <1>1
<1>3. RemoveN = CHOOSE r \in least..(least + L) :
                  enough(r) /\ \A q \in least..(r - 1) : ~enough(q)
  BY DEF RemoveN
<1>4. least + L \in R
  <2>1. least + L \in least..(least + L)
    BY <1>1, <1>2
  <2>2. L \div ((least + L) + 1) = 0
    BY <1>1, <1>2
  <2> QED
    BY <1>1, <2>1, <2>2
<1> HIDE DEF least, enough
<1>5. R # {} /\ R \in SUBSET Nat
  BY <1>1, <1>2, <1>4
<1>6. PICK n \in R : \A m \in R : n <= m
  <2> HIDE DEF R
  <2> QED
    BY <1>5, LeastNatural
<1>7. ASSUME NEW q \in least..(n - 1) PROVE ~enough(q)
  BY <1>1, <1>2, <1>6
<1>8. RemoveN \in least..(least + L)
  BY <1>3, <1>6, <1>7
<1>9. RemoveN \in Nat /\ least <= RemoveN
  BY <1>1, <1>2, <1>8
<1>10. (1 + least) * MaxEntries <= (1 + RemoveN) * MaxEntries
       /\ (1 + least) * MaxEntries \in Nat /\ (1 + RemoveN) * MaxEntries \in Nat
  BY <1>1, <1>2, <1>9, Multiples
<1> QED
  BY <1>1, <1>2, <1>9, <1>10

\* append_to begins: with reduce, or without.
LEMMA AppendToBegins ==
  ASSUME ThinInv, AppendTo
  PROVE  ThinInv'
PROOF
<1> DEFINE L == Len(offsets)
<1>1. pc = "idle" /\ UNCHANGED <<offsets, est, comp, uncomp, blocks, coded, loaded>>
  BY DEF AppendTo
<1>2. /\ L \in Nat /\ est \in Nat /\ uncomp \in Nat /\ MaxBlock \in Nat /\ step = 1
      /\ MaxEntries \in Nat /\ MaxEntries > 0 /\ Us' = Us /\ Us \in [1..L -> Nat] /\ ~Thinning
  BY <1>1, UsType, IndexAssumption DEF ThinInv, TypeInv, SpreadInv, Growing, Us, Thinning
<1>3. FrontInv' /\ StartInv'
  BY <1>1 DEF ThinInv, FrontInv, StartInv
<1>4. /\ \A i \in 1..(L - 1) : Us[i + 1] - Us[i] < 2 * est + MaxBlock
      /\ L > 0 => uncomp - Us[L] < 2 * est + MaxBlock /\ est > 0
  <2>1. CASE offsets = <<>>
    BY <1>2, <2>1
  <2>2. CASE offsets # <<>>
    <3>1. /\ \A i \in 1..(L - 1) : Us[i + 1] - Us[i] < 2 * est + 1 * MaxBlock
          /\ uncomp - Us[L] < est + MaxBlock /\ est > 0
      BY <1>1, <1>2, <2>2 DEF ThinInv, SpreadInv, Gap, Behind
    <3>2. L \in 1..L /\ Us[L] \in Nat
      BY <1>2, <2>2 DEF ThinInv, TypeInv
    <3> QED
      BY <1>2, <3>1, <3>2
  <2> QED
    BY <2>1, <2>2
<1>5. L > 0 <=> offsets # <<>>
  BY DEF ThinInv, TypeInv
<1>6. CASE L < MaxEntries
  <2>1. pc' = "encode" /\ UNCHANGED <<to, from, step>>
    BY <1>6 DEF AppendTo
  <2>2. TypeInv' /\ PlaceInv'
    BY <1>1, <2>1 DEF ThinInv, TypeInv, PlaceInv, Thinning
  <2>3. RisingInv'
    BY <1>1, <1>2, <2>1 DEF ThinInv, RisingInv, Live, Thinning
  <2>4. SpreadInv'
    BY <1>1, <1>2, <1>4, <1>5, <2>1 DEF SpreadInv, Growing, Gap, Behind
  <2>5. LightInv' /\ ReduceInv' /\ CodeInv'
    BY <1>1, <1>2, <1>6, <2>1 DEF LightInv, ReduceInv, CodeInv, LoadsBack
  <2> QED
    BY <1>3, <2>2, <2>3, <2>4, <2>5 DEF ThinInv
<1>7. CASE ~(L < MaxEntries)
  <2>1. pc' = "reduce" /\ to' = 0 /\ from' = 1 /\ step' = 1 + RemoveN
    BY <1>7 DEF AppendTo
  <2>2. L > 0 /\ offsets # <<>>
    BY <1>2, <1>5, <1>7
  <2>3. RemoveN \in Nat /\ L < (1 + RemoveN) * MaxEntries
    BY <2>2, RemoveEnough DEF ThinInv
  <2>4. TypeInv' /\ PlaceInv'
    BY <1>1, <2>1, <2>2, <2>3 DEF ThinInv, TypeInv, PlaceInv, Thinning
  <2>5. RisingInv'
    <3>1. Live = 1..L /\ Live' = 1..L
      BY <1>1, <1>2, <2>1 DEF Live, Thinning
    <3> QED
      BY <1>1, <3>1 DEF ThinInv, RisingInv
  <2>6. SpreadInv'
    BY <1>1, <1>4, <2>1, <2>2 DEF SpreadInv, Growing, Thinning
  <2>7. LightInv' /\ CodeInv'
    BY <1>1, <2>1 DEF LightInv, CodeInv, LoadsBack
  <2>8. ReduceInv'
    <3>1. Wide' = 2 * est + MaxBlock
      BY <1>1 DEF Wide
    <3>2. 0 * (1 + RemoveN) = 0
      BY <2>3
    <3>3. to' = 0 /\ ~(to' > 0) /\ \A i \in 1..(to' - 1) : FALSE
      BY <2>1
    <3>4. from' = to' * step' + 1 /\ from' <= L /\ ~(from' > Len(offsets'))
      BY <1>1, <1>2, <2>1, <2>2, <3>2
    <3>5. L < step' * MaxEntries
      BY <2>1, <2>3
    <3> QED
      BY <1>1, <1>2, <1>4, <2>1, <2>2, <3>1, <3>3, <3>4, <3>5 DEF ReduceInv, Gap, Behind
  <2> QED
    BY <1>3, <2>4, <2>5, <2>6, <2>7, <2>8 DEF ThinInv
<1> QED
  BY <1>6, <1>7

\* What add does to the blocks.
LEMMA BlockAdded ==
  ASSUME ThinInv, NEW n \in 1..MaxBlock, NEW size \in Sizes, Add(n, size)
  PROVE  /\ Pair(comp, uncomp) \in Entry /\ n \in Nat /\ n > 0 /\ n <= MaxBlock
         /\ comp' \in Nat /\ uncomp' \in Nat /\ comp' > comp /\ uncomp' = uncomp + n
         /\ blocks' \in Seq(Entry) /\ Len(blocks') = Len(blocks) + 1 /\ Len(blocks) \in Nat
         /\ blocks'[Len(blocks) + 1] = Pair(comp, uncomp)
         /\ \A b \in 1..Len(blocks) : blocks'[b] = blocks[b]
         /\ FrontInv'
PROOF
<1>1. comp' = comp + size /\ uncomp' = uncomp + n /\ blocks' = Append(blocks, Pair(comp, uncomp))
  BY DEF Add
<1>2. /\ comp \in Nat /\ uncomp \in Nat /\ blocks \in Seq(Entry) /\ size \in Nat /\ size > 0
      /\ MaxBlock \in Nat
  BY IndexAssumption DEF ThinInv, TypeInv
<1>3. n \in Nat /\ n > 0 /\ n <= MaxBlock /\ comp' \in Nat /\ uncomp' \in Nat /\ comp' > comp
      /\ uncomp' > uncomp
  BY <1>1, <1>2
<1>4. Pair(comp, uncomp) \in Entry /\ Pair(comp, uncomp).comp = comp
      /\ Pair(comp, uncomp).uncomp = uncomp
  BY <1>2 DEF Pair, Entry
<1>5. /\ blocks' \in Seq(Entry) /\ Len(blocks') = Len(blocks) + 1 /\ Len(blocks) \in Nat
      /\ blocks'[Len(blocks) + 1] = Pair(comp, uncomp)
      /\ \A b \in 1..Len(blocks) : blocks'[b] = blocks[b]
  BY <1>1, <1>2, <1>4
<1>6. FrontInv'
  <2>1. SUFFICES ASSUME NEW b \in 1..(Len(blocks) + 1)
                 PROVE  blocks'[b].comp < comp' /\ blocks'[b].uncomp < uncomp'
    BY <1>5 DEF FrontInv
  <2>2. CASE b = Len(blocks) + 1
    BY <1>2, <1>3, <1>4, <1>5, <2>2
  <2>3. CASE b # Len(blocks) + 1
    <3>1. b \in 1..Len(blocks)
      BY <1>5, <2>3
    <3>2. blocks[b].comp < comp /\ blocks[b].uncomp < uncomp
          /\ blocks[b].comp \in Nat /\ blocks[b].uncomp \in Nat
      BY <1>2, <3>1, EntryType DEF ThinInv, FrontInv
    <3>3. blocks'[b] = blocks[b]
      BY <1>5, <3>1
    <3> QED
      BY <1>2, <1>3, <3>2, <3>3
  <2> QED
    BY <2>2, <2>3
<1> QED
  BY <1>1, <1>3, <1>4, <1>5, <1>6

\* A block within the spacing of the last entry.
LEMMA AddPasses ==
  ASSUME ThinInv, NEW n \in 1..MaxBlock, NEW size \in Sizes, Add(n, size), TooClose(Spacing(n))
  PROVE  ThinInv'
PROOF
<1> DEFINE L == Len(offsets)
<1>1. /\ pc = "idle" /\ pc' = "idle" /\ offsets' = offsets /\ est' = Spacing(n)
      /\ to' = 0 /\ from' = 1 /\ UNCHANGED <<step, coded, loaded>>
  BY DEF Add
<1>2. offsets # <<>> /\ uncomp - offsets[L].uncomp < Spacing(n)
  BY DEF TooClose, Last
<1>3. /\ offsets \in Seq(Entry) /\ L \in Nat /\ L \in 1..L /\ est \in Nat /\ uncomp \in Nat
      /\ MaxBlock \in Nat /\ step = 1 /\ est > 0
  BY <1>1, <1>2, IndexAssumption DEF ThinInv, TypeInv, SpreadInv, Growing
<1>4. est' = est /\ Us' = Us /\ Us \in [1..L -> Nat] /\ Us[L] = offsets[L].uncomp
  BY <1>1, <1>3, UsType DEF Spacing, Us
<1>5. /\ n \in Nat /\ n > 0 /\ n <= MaxBlock
      /\ comp' \in Nat /\ uncomp' \in Nat /\ uncomp' = uncomp + n
      /\ blocks' \in Seq(Entry) /\ Len(blocks') = Len(blocks) + 1 /\ Len(blocks) \in Nat
      /\ \A b \in 1..Len(blocks) : blocks'[b] = blocks[b]
      /\ FrontInv'
  BY BlockAdded
<1>6. TypeInv' /\ PlaceInv'
  BY <1>1, <1>4, <1>5 DEF ThinInv, TypeInv, PlaceInv, Thinning
<1>7. StartInv'
  <2>1. ASSUME NEW i \in 1..L PROVE \E b \in 1..(Len(blocks) + 1) : offsets[i] = blocks'[b]
    <3>1. PICK b \in 1..Len(blocks) : offsets[i] = blocks[b]
      BY DEF ThinInv, StartInv
    <3>2. b \in 1..(Len(blocks) + 1)
      BY <1>5
    <3> QED
      BY <1>5, <3>1, <3>2
  <2>2. blocks # <<>> /\ 1 \in 1..Len(blocks)
    <3>1. PICK b \in 1..Len(blocks) : offsets[1] = blocks[b]
      BY <1>3 DEF ThinInv, StartInv
    <3> QED
      BY <1>5, <3>1
  <2>3. offsets[1] = blocks'[1]
    BY <1>5, <2>2 DEF ThinInv, StartInv
  <2> QED
    BY <1>1, <1>2, <1>5, <2>1, <2>3 DEF StartInv
<1>8. RisingInv'
  BY <1>1 DEF ThinInv, RisingInv, Live, Thinning
<1>9. SpreadInv'
  <2>1. /\ \A i \in 1..(L - 1) : Us[i + 1] - Us[i] < 2 * est + step * MaxBlock
        /\ uncomp - Us[L] < est
    BY <1>1, <1>2, <1>4 DEF ThinInv, SpreadInv, Gap, Thinning
  <2>2. (uncomp + n) - Us[L] < est + MaxBlock
    <3>1. Us[L] \in Nat
      BY <1>3, <1>4
    <3>2. /\ est \in Nat /\ uncomp \in Nat /\ MaxBlock \in Nat /\ n \in Nat /\ n <= MaxBlock
          /\ uncomp - Us[L] < est
      BY <1>3, <1>5, <2>1
    <3> HIDE DEF L
    <3> QED
      BY <3>1, <3>2
  <2> QED
    BY <1>1, <1>3, <1>4, <1>5, <2>1, <2>2 DEF SpreadInv, Growing, Gap, Behind
<1>10. LightInv' /\ ReduceInv' /\ CodeInv'
  BY <1>1 DEF LightInv, ReduceInv, CodeInv, LoadsBack
<1> QED
  BY <1>5, <1>6, <1>7, <1>8, <1>9, <1>10 DEF ThinInv

\* A block that gets an entry, after which reduce_light may begin.
LEMMA AddEnters ==
  ASSUME ThinInv, NEW n \in 1..MaxBlock, NEW size \in Sizes, Add(n, size), ~TooClose(Spacing(n))
  PROVE  ThinInv'
PROOF
<1> DEFINE L == Len(offsets)
           e == Spacing(n)
           here == Pair(comp, uncomp)
<1>1. /\ pc = "idle" /\ offsets' = Append(offsets, here)
      /\ \/ pc' = "idle" /\ est' = e
         \/ pc' = "light" /\ est' = 2 * e
      /\ to' = 0 /\ from' = 1 /\ UNCHANGED <<step, coded, loaded>>
  BY DEF Add
<1>2. /\ offsets \in Seq(Entry) /\ L \in Nat /\ est \in Nat /\ comp \in Nat /\ uncomp \in Nat
      /\ MaxBlock \in Nat /\ step = 1 /\ ~Thinning
  BY <1>1, IndexAssumption DEF ThinInv, TypeInv, SpreadInv, Growing, Thinning
<1>3. /\ here \in Entry /\ n \in Nat /\ n > 0 /\ n <= MaxBlock
      /\ comp' \in Nat /\ uncomp' \in Nat /\ uncomp' = uncomp + n
      /\ blocks' \in Seq(Entry) /\ Len(blocks') = Len(blocks) + 1 /\ Len(blocks) \in Nat
      /\ blocks'[Len(blocks) + 1] = here
      /\ \A b \in 1..Len(blocks) : blocks'[b] = blocks[b]
      /\ FrontInv'
  BY BlockAdded
<1>4. e \in Nat /\ e > 0 /\ (L > 0 => e = est)
  <2>1. L > 0 => est > 0
    BY <1>2 DEF ThinInv, SpreadInv
  <2> QED
    BY <1>2, <1>3, <2>1 DEF Spacing
<1>5. here.comp = comp /\ here.uncomp = uncomp
  BY DEF Pair
<1> HIDE DEF e, here
<1>6. /\ offsets' \in Seq(Entry) /\ Len(offsets') = L + 1 /\ offsets' # <<>>
      /\ offsets'[L + 1] = here /\ \A i \in 1..L : offsets'[i] = offsets[i]
  BY <1>1, <1>2, <1>3
<1>7. TypeInv' /\ PlaceInv'
  BY <1>1, <1>2, <1>3, <1>4, <1>6 DEF ThinInv, TypeInv, PlaceInv, Thinning
<1>8. StartInv'
  <2>1. ASSUME NEW i \in 1..(L + 1)
        PROVE  \E b \in 1..(Len(blocks) + 1) : offsets'[i] = blocks'[b]
    <3>1. CASE i = L + 1
      <4>1. Len(blocks) + 1 \in 1..(Len(blocks) + 1)
        BY <1>3
      <4> QED
        BY <1>3, <1>6, <3>1, <4>1
    <3>2. CASE i # L + 1
      <4>1. i \in 1..L
        BY <1>2, <3>2
      <4>2. PICK b \in 1..Len(blocks) : offsets[i] = blocks[b]
        BY <4>1 DEF ThinInv, StartInv
      <4>3. b \in 1..(Len(blocks) + 1)
        BY <1>3
      <4> QED
        BY <1>3, <1>6, <4>1, <4>2, <4>3
    <3> QED
      BY <3>1, <3>2
  <2>2. offsets'[1] = blocks'[1]
    <3>1. CASE blocks = <<>>
      <4>1. L = 0 /\ Len(blocks) = 0
        BY <1>2, <3>1 DEF ThinInv, StartInv
      <4> QED
        BY <1>3, <1>6, <4>1
    <3>2. CASE blocks # <<>>
      <4>1. offsets[1] = blocks[1] /\ 1 \in 1..L /\ 1 \in 1..Len(blocks)
        BY <1>2, <3>2 DEF ThinInv, StartInv, TypeInv
      <4> QED
        BY <1>3, <1>6, <4>1
    <3> QED
      BY <3>1, <3>2
  <2> QED
    BY <1>3, <1>6, <2>1, <2>2 DEF StartInv
<1>9. RisingInv'
  <2>1. ASSUME NEW i \in 1..L PROVE Less(offsets[i], here)
    <3>1. PICK b \in 1..Len(blocks) : offsets[i] = blocks[b]
      BY DEF ThinInv, StartInv
    <3> QED
      BY <1>5, <3>1 DEF ThinInv, FrontInv, Less
  <2>2. \A i \in Live' : i \in 1..(L + 1)
    BY <1>1, <1>2, <1>6 DEF Live, Thinning
  <2>3. \A i, j \in 1..L : i < j => Less(offsets[i], offsets[j])
    BY <1>2 DEF ThinInv, RisingInv, Live
  <2>4. ASSUME NEW i \in 1..(L + 1), NEW j \in 1..(L + 1), i < j
        PROVE  Less(offsets'[i], offsets'[j])
    <3>1. i \in 1..L /\ (j \in 1..L \/ j = L + 1)
      BY <1>2, <2>4
    <3> QED
      BY <1>6, <2>1, <2>3, <2>4, <3>1
  <2> QED
    BY <2>2, <2>4 DEF RisingInv
<1>10. Us \in [1..L -> Nat] /\ Us' \in [1..(L + 1) -> Nat]
       /\ Us'[L + 1] = uncomp /\ \A i \in 1..L : Us'[i] = Us[i]
  <2>1. Us' = [i \in 1..(L + 1) |-> offsets'[i].uncomp]
    BY <1>6 DEF Us
  <2>2. \A i \in 1..(L + 1) : offsets'[i].uncomp \in Nat
    BY <1>6, EntryType
  <2>3. \A i \in 1..L : i \in 1..(L + 1) /\ Us[i] = offsets[i].uncomp
    BY <1>2, UsType
  <2>4. L + 1 \in 1..(L + 1)
    BY <1>2
  <2> QED
    BY <1>2, <1>5, <1>6, <2>1, <2>2, <2>3, <2>4, UsType
<1>11. \A i \in 1..L : Us'[i + 1] - Us'[i] < 2 * e + MaxBlock
  <2>1. SUFFICES ASSUME NEW i \in 1..L PROVE Us'[i + 1] - Us'[i] < 2 * e + MaxBlock
    OBVIOUS
  <2>2. e = est /\ offsets # <<>> /\ i \in 1..L /\ Us[i] \in Nat
    BY <1>2, <1>4, <1>10
  <2>3. CASE i = L
    <3>1. uncomp - Us[L] < est + MaxBlock
      BY <1>1, <1>2, <2>2 DEF ThinInv, SpreadInv, Behind
    <3> QED
      BY <1>2, <1>10, <2>2, <2>3, <3>1
  <2>4. CASE i # L
    <3>1. i \in 1..(L - 1) /\ i + 1 \in 1..L
      BY <1>2, <2>4
    <3>2. Us[i + 1] - Us[i] < 2 * est + 1 * MaxBlock
      BY <1>2, <2>2, <3>1 DEF ThinInv, SpreadInv, Gap
    <3> QED
      BY <1>2, <1>10, <2>2, <3>1, <3>2
  <2> QED
    BY <2>3, <2>4
<1>12. (L + 1) - 1 = L /\ uncomp' - Us'[L + 1] < e + MaxBlock
       /\ uncomp' - Us'[L + 1] < MaxBlock + 1
  BY <1>2, <1>3, <1>4, <1>10
<1>13. SpreadInv'
  <2>1. CASE pc' = "idle"
    BY <1>1, <1>2, <1>4, <1>6, <1>11, <1>12, <2>1 DEF SpreadInv, Growing, Gap, Behind
  <2>2. CASE pc' = "light"
    BY <1>1, <1>2, <1>4, <1>6, <2>2 DEF SpreadInv, Growing, Thinning
  <2> QED
    BY <1>1, <2>1, <2>2
<1>14. LightInv'
  <2>1. SUFFICES ASSUME pc' = "light" PROVE LightInv'
    BY DEF LightInv
  <2>2. est' = 2 * e /\ to' = 0 /\ from' = 1 /\ Len(offsets') = L + 1
    BY <1>1, <1>6, <2>1
  <2> QED
    BY <1>2, <1>11, <1>12, <2>2 DEF LightInv, Gap, Behind
<1>15. ReduceInv' /\ CodeInv'
  BY <1>1 DEF ReduceInv, CodeInv, LoadsBack
<1> QED
  BY <1>3, <1>7, <1>8, <1>9, <1>13, <1>14, <1>15 DEF ThinInv

----------------------------------------------------------------------------
(* append_to and load *)

\* What is encoded of the places u: differences from one spacing on, or nothing.
Spaced(x, n, u, e) ==
  \A i \in 1..n : (IF x.us = <<>> THEN 0 ELSE x.us[i])
                    = IF i = 1 THEN u[1] ELSE u[i] - (u[i - 1] + e)

\* load has the places back.
LEMMA UncompBack ==
  ASSUME NEW x, NEW n \in Nat, NEW u \in [1..n -> Nat], NEW e \in Nat,
         x.n = n, x.est = e, Spaced(x, n, u, e)
  PROVE  UncompLoaded(x) = u
PROOF
<1> DEFINE d(i) == IF x.us = <<>> THEN 0 ELSE x.us[i]
           P(g) == g = [i \in 1..x.n |-> IF i = 1 THEN d(1) ELSE d(i) + g[i - 1] + x.est]
           h == CHOOSE g : P(g)
<1>1. UncompLoaded(x) = h
  BY Zenon DEF UncompLoaded
<1>2. ASSUME NEW i \in 1..n PROVE d(i) = IF i = 1 THEN u[1] ELSE u[i] - (u[i - 1] + e)
  BY DEF Spaced
<1> HIDE DEF d
<1>3. ASSUME NEW i \in 1..n PROVE u[i] = IF i = 1 THEN d(1) ELSE d(i) + u[i - 1] + e
  <2>1. CASE i = 1
    BY <1>2, <2>1
  <2>2. CASE i # 1
    <3>1. i - 1 \in 1..n /\ u[i] \in Nat /\ u[i - 1] \in Nat
      BY <2>2
    <3>2. d(i) = u[i] - (u[i - 1] + e)
      BY <1>2, <2>2
    <3> QED
      BY <2>2, <3>1, <3>2
  <2> QED
    BY <2>1, <2>2
<1>4. P(u)
  BY <1>3
<1>5. P(h)
  <2> HIDE DEF P
  <2> QED
    BY <1>4, Zenon
<1> DEFINE f == h
<1> HIDE DEF h
<1>6. f = [i \in 1..n |-> IF i = 1 THEN d(1) ELSE d(i) + f[i - 1] + e]
  BY <1>5
<1> DEFINE S == {k \in 0..n : \A i \in 1..k : f[i] = u[i]}
<1>7. 0 \in S
  OBVIOUS
<1>8. ASSUME NEW k \in 0..(n - 1), k \in S PROVE k + 1 \in S
  <2>1. k + 1 \in 1..n /\ k + 1 \in 0..n /\ (k # 0 => k \in 1..k)
    OBVIOUS
  <2>2. f[k + 1] = u[k + 1]
    <3>1. f[k + 1] = IF k + 1 = 1 THEN d(1) ELSE d(k + 1) + f[k + 1 - 1] + e
      BY <1>6, <2>1
    <3>2. u[k + 1] = IF k + 1 = 1 THEN d(1) ELSE d(k + 1) + u[k + 1 - 1] + e
      BY <1>3, <2>1
    <3>3. k + 1 # 1 => k + 1 - 1 = k /\ f[k] = u[k]
      BY <1>8, <2>1
    <3> QED
      BY <3>1, <3>2, <3>3
  <2>3. \A i \in 1..(k + 1) : i \in 1..k \/ i = k + 1
    OBVIOUS
  <2> QED
    BY <1>8, <2>1, <2>2, <2>3
<1>9. \A k \in 0..n : k \in S
  <2> HIDE DEF S
  <2> QED
    BY <1>7, <1>8, UpTo
<1>10. n \in 0..n
  OBVIOUS
<1>11. \A i \in 1..n : f[i] = u[i]
  BY <1>9, <1>10
<1>12. f = u
  BY <1>6, <1>11
<1> QED
  BY <1>1, <1>12

\* Half of an integer is one.
LEMMA HalfType == ASSUME NEW x \in Int PROVE Half(x) \in Int
PROOF
<1>1. CASE x >= 0
  BY <1>1 DEF Half
<1>2. CASE ~(x >= 0)
  <2>1. -x \in Nat
    BY <1>2
  <2>2. (-x) \div 2 \in Int
    BY <2>1
  <2> QED
    BY <1>2, <2>2 DEF Half
<1> QED
  BY <1>1, <1>2

\* A difference with the prediction behind it, and the next of both for an entry at x
\* behind one at y.
Predicted == [d : Int, p : Int]
Follows(x, y, v) == LET e == x - (y + v.p) IN [d |-> e, p |-> Predict(v.p, e)]

Following(f, n, a, c) ==
  \A i \in 1..n : f[i] = IF i = 1 THEN a ELSE Follows(c[i], c[i - 1], f[i - 1])

\* Predictions can be followed along any offsets.
LEMMA Followed ==
  ASSUME NEW n \in Nat, NEW c \in [0..n -> Int], NEW a \in Predicted
  PROVE  \E f \in [1..n -> Predicted] : Following(f, n, a, c)
PROOF
<1> DEFINE s == [i \in 1..n |-> [v \in Predicted |-> Follows(c[i], c[i - 1], v)]]
<1>1. ASSUME NEW x \in Int, NEW y \in Int, NEW v \in Predicted
      PROVE  Follows(x, y, v) \in Predicted
  <2>1. v.p \in Int /\ x - (y + v.p) \in Int
    BY DEF Predicted
  <2>2. Half(x - (y + v.p)) \in Int
    BY <2>1, HalfType
  <2> QED
    BY <2>1, <2>2 DEF Follows, Predicted, Predict
<1>2. ASSUME NEW i \in 1..n, NEW v \in Predicted
      PROVE  Follows(c[i], c[i - 1], v) \in Predicted
  <2>1. i \in 0..n /\ i - 1 \in 0..n
    OBVIOUS
  <2> QED
    BY <1>1, <2>1
<1>3. s \in [1..n -> [Predicted -> Predicted]]
  BY <1>2
<1>4. PICK f \in [1..n -> Predicted] : Stepwise(f, n, a, s)
  <2> HIDE DEF s
  <2> QED
    BY <1>3, Recursion
<1>5. ASSUME NEW i \in 1..n, i # 1 PROVE f[i] = Follows(c[i], c[i - 1], f[i - 1])
  <2>1. i - 1 \in 1..n
    BY <1>5
  <2>2. f[i - 1] \in Predicted /\ f[i] = s[i][f[i - 1]]
    <3> HIDE DEF s
    <3> QED
      BY <1>4, <1>5, <2>1 DEF Stepwise
  <2> QED
    BY <2>2
<1>6. n = 0 \/ f[1] = a
  <2> HIDE DEF s
  <2> QED
    BY <1>4 DEF Stepwise
<1> HIDE DEF s
<1>7. ASSUME NEW i \in 1..n
      PROVE  f[i] = IF i = 1 THEN a ELSE Follows(c[i], c[i - 1], f[i - 1])
  BY <1>5, <1>6
<1>8. Following(f, n, a, c)
  BY <1>7 DEF Following
<1> QED
  BY <1>8

\* Differences d of the offsets c from predictions p, each from the one before.
Coding(n, c, e, d, p) ==
  \A i \in 1..n : IF i = 1 THEN d[1] = c[1] /\ p[1] = e \div 2
                  ELSE d[i] = c[i] - (c[i - 1] + p[i - 1]) /\ p[i] = p[i - 1] + Half(d[i])

\* The entries' places in the stream.
Cs == [i \in 1..Len(offsets) |-> offsets[i].comp]

\* What append_to writes for the compressed offsets are such differences.
LEMMA CompWritten ==
  ASSUME offsets \in Seq(Entry), est \in Nat
  PROVE  \E d, p \in [1..Len(offsets) -> Int] :
           CompCoded = d /\ Coding(Len(offsets), Cs, est, d, p)
PROOF
<1> DEFINE n == Len(offsets)
           c(i) == offsets[i].comp
           P(g) == g = [i \in 1..n |-> IF i = 1 THEN [d |-> c(1), p |-> est \div 2]
                                       ELSE LET e == c(i) - (c(i - 1) + g[i - 1].p)
                                            IN [d |-> e, p |-> Predict(g[i - 1].p, e)]]
           h == CHOOSE g : P(g)
<1>0. n \in Nat /\ \A i \in 1..n : c(i) \in Nat
  BY EntryType
<1>1. CompCoded = [i \in 1..n |-> h[i].d]
  BY Zenon DEF CompCoded
<1>2. ASSUME NEW i \in 1..n, i # 1 PROVE i - 1 \in 1..n /\ i - 1 \in 0..n /\ i \in 0..n
  BY <1>0, <1>2
<1>3. PICK f \in [1..n -> Predicted] :
        \A i \in 1..n : f[i] = IF i = 1 THEN [d |-> c(1), p |-> est \div 2]
                               ELSE Follows(c(i), c(i - 1), f[i - 1])
  <2> DEFINE cc == [i \in 0..n |-> IF i = 0 THEN 0 ELSE c(i)]
             a == [d |-> IF n = 0 THEN 0 ELSE c(1), p |-> est \div 2]
  <2> HIDE DEF n, c
  <2>1. cc \in [0..n -> Int] /\ \A i \in 1..n : cc[i] = c(i)
    BY <1>0
  <2>2. a \in Predicted
    BY <1>0 DEF Predicted
  <2>3. PICK f \in [1..n -> Predicted] : Following(f, n, a, cc)
    <3> HIDE DEF a, cc
    <3> QED
      BY <1>0, <2>1, <2>2, Followed
  <2>4. ASSUME NEW i \in 1..n
        PROVE  f[i] = IF i = 1 THEN [d |-> c(1), p |-> est \div 2]
                      ELSE Follows(c(i), c(i - 1), f[i - 1])
    <3>1. CASE i = 1
      <4>1. n # 0 /\ f[1] = a
        <5> HIDE DEF a, cc
        <5>1. 1 \in 1..n
          BY <3>1
        <5> QED
          BY <1>0, <2>3, <5>1 DEF Following
      <4> QED
        BY <3>1, <4>1
    <3>2. CASE i # 1
      <4>1. cc[i] = c(i) /\ cc[i - 1] = c(i - 1)
        BY <1>2, <2>1, <3>2
      <4> HIDE DEF cc
      <4> QED
        BY <2>3, <3>2, <4>1 DEF Following
    <3> QED
      BY <3>1, <3>2
  <2> QED
    BY <2>4
<1>4. P(f)
  BY <1>3 DEF Follows
<1>5. P(h)
  <2> HIDE DEF P
  <2> QED
    BY <1>4, Zenon
<1>6. \A i \in 1..n : h[i] = f[i]
  <2> DEFINE g == h
             S == {k \in 0..n : \A i \in 1..k : g[i] = f[i]}
  <2>1. \A i \in 1..n : g[i] = IF i = 1 THEN [d |-> c(1), p |-> est \div 2]
                               ELSE Follows(c(i), c(i - 1), g[i - 1])
    <3> HIDE DEF h
    <3> QED
      BY <1>5 DEF Follows
  <2> HIDE DEF h, g, c
  <2>2. 0 \in S
    BY <1>0
  <2>3. ASSUME NEW k \in 0..(n - 1), k \in S PROVE k + 1 \in S
    <3>1. k + 1 \in 1..n /\ k + 1 \in 0..n /\ (k # 0 => k \in 1..k) /\ k + 1 - 1 = k
      BY <1>0
    <3>2. g[k + 1] = f[k + 1]
      <4>1. CASE k = 0
        BY <1>3, <2>1, <3>1, <4>1
      <4>2. CASE k # 0
        <5>1. g[k] = f[k] /\ k + 1 # 1
          BY <2>3, <3>1, <4>2
        <5>2. g[k + 1] = Follows(c(k + 1), c(k), g[k])
          BY <2>1, <3>1, <5>1
        <5>3. f[k + 1] = Follows(c(k + 1), c(k), f[k])
          BY <1>3, <3>1, <5>1
        <5> QED
          BY <5>1, <5>2, <5>3
      <4> QED
        BY <4>1, <4>2
    <3>3. \A i \in 1..(k + 1) : i \in 1..k \/ i = k + 1
      BY <3>1
    <3> QED
      BY <2>3, <3>1, <3>2, <3>3
  <2>4. \A k \in 0..n : k \in S
    <3>1. n \in Nat
      BY <1>0
    <3> HIDE DEF S, n
    <3> QED
      BY <2>2, <2>3, <3>1, UpTo
  <2>5. n \in 0..n
    BY <1>0
  <2> QED
    BY <2>4, <2>5 DEF g
<1> DEFINE d == [i \in 1..n |-> f[i].d]
           p == [i \in 1..n |-> f[i].p]
<1>7. CompCoded = d
  <2> HIDE DEF h, n
  <2> QED
    BY <1>1, <1>6
<1>8. d \in [1..n -> Int] /\ p \in [1..n -> Int]
  <2>1. \A i \in 1..n : f[i].d \in Int /\ f[i].p \in Int
    <3> HIDE DEF n
    <3> QED
      BY DEF Predicted
  <2> QED
    BY <2>1
<1>9. ASSUME NEW i \in 1..n
      PROVE  IF i = 1 THEN d[1] = offsets[1].comp /\ p[1] = est \div 2
             ELSE /\ d[i] = offsets[i].comp - (offsets[i - 1].comp + p[i - 1])
                  /\ p[i] = p[i - 1] + Half(d[i])
  <2>1. d[i] = f[i].d /\ p[i] = f[i].p
    OBVIOUS
  <2>2. CASE i = 1
    BY <1>3, <2>1, <2>2
  <2>3. CASE i # 1
    <3>1. i - 1 \in 1..n
      BY <1>0, <2>3
    <3>2. p[i - 1] = f[i - 1].p
      BY <3>1
    <3>3. f[i] = Follows(c(i), c(i - 1), f[i - 1])
      BY <1>3, <2>3
    <3>4. f[i].d = c(i) - (c(i - 1) + f[i - 1].p) /\ f[i].p = Predict(f[i - 1].p, f[i].d)
      BY <3>3 DEF Follows
    <3> QED
      BY <2>1, <2>3, <3>2, <3>4 DEF Predict
  <2> QED
    BY <2>2, <2>3
<1>10. Coding(n, Cs, est, d, p)
  <2>1. \A i \in 1..n : Cs[i] = offsets[i].comp
    BY DEF Cs
  <2>2. \A i \in 1..n : 1 \in 1..n /\ (i # 1 => i - 1 \in 1..n)
    BY <1>0
  <2> HIDE DEF d, p, n
  <2>3. ASSUME NEW i \in 1..n
        PROVE  IF i = 1 THEN d[1] = Cs[1] /\ p[1] = est \div 2
               ELSE d[i] = Cs[i] - (Cs[i - 1] + p[i - 1]) /\ p[i] = p[i - 1] + Half(d[i])
    BY <1>9, <2>1, <2>2
  <2> QED
    BY <2>3 DEF Coding
<1> HIDE DEF d, p
<1> QED
  BY <1>7, <1>8, <1>10

\* load follows the same predictions and has the offsets back.
LEMMA CompBack ==
  ASSUME NEW x, x.n \in Nat, x.est \in Nat, NEW c \in [1..x.n -> Nat],
         x.cs \in [1..x.n -> Int], NEW p \in [1..x.n -> Int], Coding(x.n, c, x.est, x.cs, p)
  PROVE  CompLoaded(x) = c
PROOF
<1> DEFINE n == x.n
           e == x.est
           d == x.cs
           R(y, v) == [c |-> y + v.c + v.p, p |-> PredictNext(v.p, y)]
           b == [c |-> d[1], p |-> e \div 2]
           P(g) == g = [i \in 1..n |-> IF i = 1 THEN b ELSE R(d[i], g[i - 1])]
           h == CHOOSE g : P(g)
           u == [i \in 1..n |-> [c |-> c[i], p |-> p[i]]]
<1>1. CompLoaded(x) = [i \in 1..n |-> h[i].c]
  BY Zenon DEF CompLoaded
<1>2. n \in Nat /\ e \in Nat /\ c \in [1..n -> Nat] /\ d \in [1..n -> Int] /\ p \in [1..n -> Int]
      /\ Coding(n, c, e, d, p)
  OBVIOUS
<1> HIDE DEF n, e, d
<1>3. ASSUME NEW i \in 1..n
      PROVE  u[i] = IF i = 1 THEN b ELSE R(d[i], u[i - 1])
  <2>1. u[i] = [c |-> c[i], p |-> p[i]]
    OBVIOUS
  <2>2. CASE i = 1
    <3>1. d[1] = c[1] /\ p[1] = e \div 2
      BY <1>2, <2>2 DEF Coding
    <3> QED
      BY <2>1, <2>2, <3>1
  <2>3. CASE i # 1
    <3>1. i - 1 \in 1..n
      BY <1>2, <2>3
    <3>2. d[i] = c[i] - (c[i - 1] + p[i - 1]) /\ p[i] = p[i - 1] + Half(d[i])
      BY <1>2, <2>3 DEF Coding
    <3>3. c[i] = d[i] + c[i - 1] + p[i - 1]
      <4>1. c[i] \in Nat /\ c[i - 1] \in Nat /\ p[i - 1] \in Int
        BY <1>2, <3>1
      <4> QED
        BY <3>2, <4>1
    <3>4. u[i - 1] = [c |-> c[i - 1], p |-> p[i - 1]]
      BY <3>1
    <3>5. R(d[i], u[i - 1]) = [c |-> d[i] + c[i - 1] + p[i - 1], p |-> p[i - 1] + Half(d[i])]
      BY <3>4 DEF PredictNext
    <3> HIDE DEF R, u
    <3> QED
      BY <2>1, <2>3, <3>2, <3>3, <3>5
  <2> QED
    BY <2>2, <2>3
<1>4. P(u)
  <2>1. u = [i \in 1..n |-> u[i]]
    OBVIOUS
  <2> HIDE DEF u, R, b
  <2> QED
    BY <1>3, <2>1
<1>5. P(h)
  <2> HIDE DEF P
  <2> QED
    BY <1>4, Zenon
<1> HIDE DEF R, b, h
<1>6. \A i \in 1..n : h[i] = IF i = 1 THEN b ELSE R(d[i], h[i - 1])
  BY <1>5
<1>7. \A i \in 1..n : u[i] = IF i = 1 THEN b ELSE R(d[i], u[i - 1])
  BY <1>3
<1> HIDE DEF u
<1> DEFINE S == {k \in 0..n : \A i \in 1..k : h[i] = u[i]}
<1>8. 0 \in S
  BY <1>2
<1>9. ASSUME NEW k \in 0..(n - 1), k \in S PROVE k + 1 \in S
  <2>1. k + 1 \in 1..n /\ k + 1 \in 0..n /\ (k # 0 => k \in 1..k) /\ k + 1 - 1 = k
    BY <1>2
  <2>2. h[k + 1] = u[k + 1]
    <3>1. CASE k = 0
      BY <1>6, <1>7, <2>1, <3>1
    <3>2. CASE k # 0
      <4>1. h[k] = u[k] /\ k + 1 # 1
        BY <1>9, <2>1, <3>2
      <4>2. h[k + 1] = R(d[k + 1], h[k])
        BY <1>6, <2>1, <4>1
      <4>3. u[k + 1] = R(d[k + 1], u[k])
        BY <1>7, <2>1, <4>1
      <4> QED
        BY <4>1, <4>2, <4>3
    <3> QED
      BY <3>1, <3>2
  <2>3. \A i \in 1..(k + 1) : i \in 1..k \/ i = k + 1
    BY <2>1
  <2> QED
    BY <1>9, <2>1, <2>2, <2>3
<1>10. \A k \in 0..n : k \in S
  <2> HIDE DEF S
  <2>1. n \in Nat
    BY <1>2
  <2> QED
    BY <1>8, <1>9, <2>1, UpTo
<1>11. \A i \in 1..n : h[i] = u[i]
  <2>1. n \in 0..n
    BY <1>2
  <2> QED
    BY <1>10, <2>1
<1>12. \A i \in 1..n : u[i].c = c[i]
  BY DEF u
<1>13. CompLoaded(x) = [i \in 1..n |-> c[i]]
  BY <1>1, <1>11, <1>12
<1> QED
  BY <1>2, <1>13

\* load reads back what append_to has written.
LEMMA EncodedLoads ==
  ASSUME ThinInv, ~Thinning, Len(offsets) <= MaxEntries
  PROVE  Loaded(Encoded) = [ok |-> TRUE, total |-> uncomp, entries |-> offsets]
PROOF
<1> DEFINE n == Len(offsets)
           x == Encoded
           u == Us
           c == Cs
           us == [i \in 1..n |-> IF i = 1 THEN offsets[1].uncomp
                                 ELSE offsets[i].uncomp - (offsets[i - 1].uncomp + est)]
<1>0. offsets \in Seq(Entry) /\ n \in Nat /\ est \in Nat /\ uncomp \in Nat /\ MaxEntries \in Nat
  BY IndexAssumption DEF ThinInv, TypeInv
<1>1. /\ x.total = uncomp /\ x.est = est /\ x.n = n /\ x.cs = CompCoded
      /\ x.us = IF EvenlySpaced THEN <<>> ELSE us
  BY DEF Encoded
<1> HIDE DEF x
<1>2. u \in [1..n -> Nat] /\ \A i \in 1..n : u[i] = offsets[i].uncomp
  BY <1>0, UsType
<1>3. c \in [1..n -> Nat] /\ \A i \in 1..n : c[i] = offsets[i].comp
  BY <1>0, EntryType DEF Cs
<1>4. UncompLoaded(x) = u
  <2>1. ASSUME NEW i \in 1..n
        PROVE  (IF x.us = <<>> THEN 0 ELSE x.us[i]) = IF i = 1 THEN u[1] ELSE u[i] - (u[i - 1] + est)
    <3>1. i # 1 => i - 1 \in 1..n
      BY <1>0
    <3> HIDE DEF u
    <3>2. /\ 1 \in 1..n /\ u[1] = offsets[1].uncomp /\ u[i] = offsets[i].uncomp
          /\ u[i] \in Nat /\ u[1] \in Nat
          /\ i # 1 => u[i - 1] = offsets[i - 1].uncomp /\ u[i - 1] \in Nat
      <4>1. 1 \in 1..n
        BY <1>0
      <4> HIDE DEF n
      <4> QED
        BY <1>2, <3>1, <4>1
    <3>3. CASE EvenlySpaced
      <4>1. x.us = <<>>
        BY <1>1, <3>3
      <4>2. u[i] = IF i = 1 THEN 0 ELSE u[i - 1] + est
        BY <3>2, <3>3 DEF EvenlySpaced
      <4> QED
        BY <1>0, <3>2, <4>1, <4>2
    <3>4. CASE ~EvenlySpaced
      <4>1. x.us = us /\ us[i] = IF i = 1 THEN u[1] ELSE u[i] - (u[i - 1] + est)
        BY <1>1, <3>2, <3>4
      <4>2. us # <<>>
        <5>1. DOMAIN us = 1..n /\ i \in DOMAIN us /\ i \notin DOMAIN <<>>
          OBVIOUS
        <5> QED
          BY <5>1
      <4> QED
        BY <4>1, <4>2
    <3> QED
      BY <3>3, <3>4
  <2>2. Spaced(x, n, u, est)
    <3> HIDE DEF u, n
    <3> QED
      BY <2>1 DEF Spaced
  <2> HIDE DEF u, n
  <2> QED
    BY <1>0, <1>1, <1>2, <2>2, UncompBack
<1>5. CompLoaded(x) = c
  <2>1. PICK d \in [1..n -> Int], p \in [1..n -> Int] :
          CompCoded = d /\ Coding(n, Cs, est, d, p)
    BY <1>0, CompWritten
  <2> HIDE DEF n
  <2>2. /\ x.n \in Nat /\ x.est \in Nat /\ c \in [1..x.n -> Nat] /\ x.cs \in [1..x.n -> Int]
        /\ p \in [1..x.n -> Int] /\ Coding(x.n, c, x.est, x.cs, p)
    BY <1>0, <1>1, <1>3, <2>1
  <2> HIDE DEF c
  <2> QED
    BY <2>2, CompBack
<1>6. ASSUME NEW i \in 2..n PROVE u[i] > u[i - 1] /\ c[i] > c[i - 1]
  <2>1. i \in 1..n /\ i - 1 \in 1..n /\ i - 1 < i
    BY <1>0
  <2>2. Less(offsets[i - 1], offsets[i])
    BY <2>1 DEF ThinInv, RisingInv, Live
  <2>3. /\ u[i] = offsets[i].uncomp /\ u[i - 1] = offsets[i - 1].uncomp
        /\ c[i] = offsets[i].comp /\ c[i - 1] = offsets[i - 1].comp
    BY <1>2, <1>3, <2>1
  <2>4. u[i] \in Nat /\ u[i - 1] \in Nat /\ c[i] \in Nat /\ c[i - 1] \in Nat
    BY <1>2, <1>3, <2>1
  <2> HIDE DEF u, c
  <2> QED
    BY <2>2, <2>3, <2>4 DEF Less
<1>7. n > 0 => u[1] >= 0 /\ c[1] >= 0
  BY <1>0, <1>2, <1>3
<1> HIDE DEF u, c
<1>8. Ascending(u, n) /\ Ascending(c, n)
  BY <1>6, <1>7 DEF Ascending
<1>9. Loaded(x) = [ok |-> TRUE, total |-> uncomp, entries |-> [i \in 1..n |-> Pair(c[i], u[i])]]
  BY <1>0, <1>1, <1>4, <1>5, <1>8 DEF Loaded
<1>10. ASSUME NEW i \in 1..n PROVE Pair(c[i], u[i]) = offsets[i]
  <2>1. offsets[i] \in Entry
    BY <1>0
  <2> QED
    BY <1>2, <1>3, <2>1 DEF Pair, Entry
<1>11. offsets = [i \in 1..n |-> Pair(c[i], u[i])]
  <2>1. offsets = [i \in 1..n |-> offsets[i]]
    BY <1>0
  <2> QED
    BY <1>10, <2>1
<1> QED
  BY <1>9, <1>11 DEF x

\* append_to encodes the entries, load reads them.
LEMMA EncodeKeeps ==
  ASSUME ThinInv, Encode
  PROVE  ThinInv'
PROOF
<1>1. /\ pc = "encode" /\ pc' = "encoded" /\ coded' = Encoded
      /\ UNCHANGED <<offsets, est, comp, uncomp, blocks, to, from, step, loaded>>
  BY DEF Encode
<1>2. Us' = Us /\ Encoded' = Encoded
  BY <1>1 DEF Us, Encoded, EvenlySpaced, CompCoded
<1>3. TypeInv' /\ PlaceInv' /\ FrontInv' /\ StartInv'
  BY <1>1 DEF ThinInv, TypeInv, PlaceInv, FrontInv, StartInv, Thinning
<1>4. RisingInv'
  BY <1>1 DEF ThinInv, RisingInv, Live, Thinning
<1>5. SpreadInv'
  BY <1>1, <1>2 DEF ThinInv, SpreadInv, Growing, Thinning, Gap, Behind
<1>6. LightInv' /\ ReduceInv'
  BY <1>1 DEF LightInv, ReduceInv
<1>7. CodeInv'
  BY <1>1, <1>2 DEF ThinInv, CodeInv, LoadsBack
<1> QED
  BY <1>3, <1>4, <1>5, <1>6, <1>7 DEF ThinInv

\* What is loaded is what was encoded.
LEMMA LoadKeeps ==
  ASSUME ThinInv, Load
  PROVE  ThinInv'
PROOF
<1>1. /\ pc = "encoded" /\ pc' = "ended" /\ loaded' = Loaded(coded)
      /\ UNCHANGED <<offsets, est, comp, uncomp, blocks, to, from, step, coded>>
  BY DEF Load
<1>2. Us' = Us /\ Encoded' = Encoded
  BY <1>1 DEF Us, Encoded, EvenlySpaced, CompCoded
<1>3. TypeInv' /\ PlaceInv' /\ FrontInv' /\ StartInv'
  BY <1>1 DEF ThinInv, TypeInv, PlaceInv, FrontInv, StartInv, Thinning
<1>4. RisingInv'
  BY <1>1 DEF ThinInv, RisingInv, Live, Thinning
<1>5. SpreadInv'
  BY <1>1, <1>2 DEF ThinInv, SpreadInv, Growing, Thinning, Gap, Behind
<1>6. LightInv' /\ ReduceInv'
  BY <1>1 DEF LightInv, ReduceInv
<1>7. CodeInv'
  <2>1. ~Thinning /\ coded = Encoded /\ Len(offsets) <= MaxEntries
    BY <1>1 DEF ThinInv, CodeInv, Thinning
  <2>2. loaded' = [ok |-> TRUE, total |-> uncomp, entries |-> offsets]
    BY <1>1, <2>1, EncodedLoads
  <2> QED
    BY <1>1, <1>2, <2>1, <2>2 DEF CodeInv, LoadsBack
<1> QED
  BY <1>3, <1>4, <1>5, <1>6, <1>7 DEF ThinInv

----------------------------------------------------------------------------
(* The theorems *)

\* Every step, those that only stutter among them, keeps the invariant.
LEMMA StepKeeps ==
  ASSUME ThinInv, [Next]_vars
  PROVE  ThinInv'
PROOF
<1>1. ASSUME NEW n \in 1..MaxBlock, NEW size \in Sizes, Add(n, size) PROVE ThinInv'
  BY <1>1, AddPasses, AddEnters
<1>2. CASE UNCHANGED vars
  <2>1. UNCHANGED <<offsets, est, comp, uncomp, blocks, pc, to, from, step, coded, loaded>>
    BY <1>2 DEF vars
  <2>2. Us' = Us /\ Encoded' = Encoded
    BY <2>1 DEF Us, Encoded, EvenlySpaced, CompCoded
  <2>3. TypeInv' /\ PlaceInv' /\ FrontInv' /\ StartInv'
    BY <2>1 DEF ThinInv, TypeInv, PlaceInv, FrontInv, StartInv, Thinning
  <2>4. RisingInv'
    BY <2>1 DEF ThinInv, RisingInv, Live, Thinning
  <2>5. SpreadInv'
    BY <2>1, <2>2 DEF ThinInv, SpreadInv, Growing, Thinning, Gap, Behind
  <2>6. LightInv'
    BY <2>1, <2>2 DEF ThinInv, LightInv, Gap, Behind, Wide
  <2>7. ReduceInv'
    BY <2>1, <2>2 DEF ThinInv, ReduceInv, Gap, Behind, Wide
  <2>8. CodeInv'
    BY <2>1, <2>2 DEF ThinInv, CodeInv, LoadsBack
  <2> QED
    BY <2>3, <2>4, <2>5, <2>6, <2>7, <2>8 DEF ThinInv
<1> QED
  BY <1>1, <1>2, LightKeeps, LightEnds, AppendToBegins, ReduceKeeps, ReduceEnds, EncodeKeeps,
     LoadKeeps DEF Next, Ended

\* The invariant holds of the empty index.
LEMMA InitHolds ==
  ASSUME Init
  PROVE  ThinInv
PROOF
<1>1. offsets = <<>> /\ blocks = <<>> /\ Len(offsets) = 0 /\ Len(blocks) = 0 /\ pc = "idle"
  BY DEF Init
<1>2. TypeInv
  BY IndexAssumption DEF Init, TypeInv, FirstBlock
<1>3. PlaceInv /\ FrontInv /\ StartInv /\ RisingInv
  BY <1>1 DEF PlaceInv, FrontInv, StartInv, RisingInv, Live, Thinning
<1>4. SpreadInv /\ LightInv /\ ReduceInv /\ CodeInv
  BY <1>1 DEF Init, SpreadInv, LightInv, ReduceInv, CodeInv, LoadsBack
<1> QED
  BY <1>2, <1>3, <1>4 DEF ThinInv

\* The invariant holds throughout.
LEMMA Thinned == Spec => []ThinInv
PROOF
<1>1. Init => ThinInv
  BY InitHolds
<1>2. ThinInv /\ [Next]_vars => ThinInv'
  BY StepKeeps
<1> QED
  BY <1>1, <1>2, PTL DEF Spec

\* Whatever add and the two reductions have thinned out, the entries are starts of
\* blocks, the first block's first, and rise both ways.
THEOREM IndexIsSound == Spec => []IndexSound
PROOF
<1>1. ASSUME ThinInv PROVE IndexSound
  <2>1. ASSUME ~Thinning, NEW i \in 2..Len(offsets)
        PROVE  offsets[i].comp > offsets[i - 1].comp /\ offsets[i].uncomp > offsets[i - 1].uncomp
    <3>1. /\ offsets \in Seq(Entry) /\ Len(offsets) \in Nat
          /\ i \in 1..Len(offsets) /\ i - 1 \in 1..Len(offsets) /\ i - 1 < i
      BY <1>1 DEF ThinInv, TypeInv
    <3>2. Less(offsets[i - 1], offsets[i])
      BY <1>1, <2>1, <3>1 DEF ThinInv, RisingInv, Live
    <3>3. /\ offsets[i].comp \in Nat /\ offsets[i - 1].comp \in Nat
          /\ offsets[i].uncomp \in Nat /\ offsets[i - 1].uncomp \in Nat
      BY <3>1, EntryType
    <3> QED
      BY <3>2, <3>3 DEF Less
  <2> QED
    BY <1>1, <2>1 DEF ThinInv, StartInv, IndexSound, Thinning
<1> QED
  BY <1>1, Thinned, PTL

\* However often reduce_light has doubled the spacing, and whatever reduce has dropped,
\* an entry lies less than two spacings and the blocks joined before any place.
THEOREM SeeksStayCheap == Spec => []SeekCost
PROOF
<1>1. ASSUME ThinInv PROVE SeekCost
  <2> DEFINE L == Len(offsets)
             g == 2 * est + step * MaxBlock
  <2>1. SUFFICES ASSUME ~Thinning, offsets # <<>>
                 PROVE  /\ \A i \in 2..L : offsets[i].uncomp - offsets[i - 1].uncomp < g
                        /\ uncomp - offsets[L].uncomp < g
    BY DEF SeekCost, Thinning, Last
  <2>2. /\ offsets \in Seq(Entry) /\ L \in Nat /\ L \in 1..L /\ est \in Nat /\ uncomp \in Nat
        /\ step \in Nat /\ step > 0 /\ MaxBlock \in Nat
    BY <1>1, <2>1, IndexAssumption DEF ThinInv, TypeInv
  <2>3. Us \in [1..L -> Nat] /\ \A i \in 1..L : Us[i] = offsets[i].uncomp
    BY <2>2, UsType
  <2>4. ASSUME NEW i \in 2..L PROVE offsets[i].uncomp - offsets[i - 1].uncomp < g
    <3>1. i - 1 \in 1..(L - 1) /\ (i - 1) + 1 = i /\ i \in 1..L /\ i - 1 \in 1..L
      BY <2>2
    <3>2. Gap(i - 1, g)
      BY <1>1, <2>1, <3>1 DEF ThinInv, SpreadInv
    <3> HIDE DEF g, L
    <3> QED
      BY <2>3, <3>1, <3>2 DEF Gap
  <2>5. uncomp - Us[L] < g
    <3>1. CASE pc = "idle"
      <4>1. step = 1 /\ Behind(L, est + MaxBlock)
        BY <1>1, <2>1, <3>1 DEF ThinInv, SpreadInv, Growing
      <4>2. Us[L] \in Nat
        BY <2>2, <2>3
      <4>3. g = 2 * est + MaxBlock
        BY <2>2, <4>1
      <4> HIDE DEF g, L
      <4> QED
        BY <2>2, <4>1, <4>2, <4>3 DEF Behind
    <3>2. CASE pc # "idle"
      BY <1>1, <2>1, <3>2 DEF ThinInv, SpreadInv, Behind
    <3> QED
      BY <3>1, <3>2
  <2> HIDE DEF g, L
  <2> QED
    BY <2>2, <2>3, <2>4, <2>5
<1> QED
  BY <1>1, Thinned, PTL

\* load accepts what append_to has written and has every entry back, whatever the
\* compressed sizes were, and with or without the uncompressed offsets.
THEOREM IndexLoadsBack == Spec => []LoadsBack
PROOF
<1>1. ThinInv => LoadsBack
  BY DEF ThinInv, CodeInv
<1> QED
  BY <1>1, Thinned, PTL
=============================================================================
