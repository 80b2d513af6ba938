---------------------------- MODULE StreamIndex ----------------------------
(* The Index, crates/minlz/src/index.rs: how entries are added and thinned   *)
(* out while a stream is written or walked, what append_to encodes and what  *)
(* load makes of it.                                                         *)
(*                                                                           *)
(* The blocks of a stream come one after the other, each with a size in the  *)
(* data and one in the stream.  The two loops that thin out the entries work *)
(* in place and are taken one kept entry at a time.                          *)
EXTENDS Integers, Sequences

CONSTANTS MaxBlock,     \* the largest block
          Sizes,        \* sizes a block may have in the stream
          MaxEntries,   \* MAX_INDEX_ENTRIES
          MinDist,      \* MIN_INDEX_DIST
          FewEntries,   \* 1000: reduce does not widen the spacing below this
          Starts,       \* values of est_block_uncomp a stream may begin with
          MaxTotal      \* bound: bytes of data

ASSUME IndexAssumption == /\ MaxBlock \in Nat \ {0}
                          /\ Sizes \subseteq Nat \ {0}
                          /\ MaxEntries \in Nat \ {0}
                          /\ MinDist \in Nat \ {0}
                          /\ FewEntries \in Nat
                          /\ MaxTotal \in Nat
                          /\ Starts \subseteq Nat

VARIABLES
  offsets, est,        \* the entries and est_block_uncomp
  comp, uncomp,        \* where the next block starts
  blocks,              \* where the blocks so far started
  pc, to, from, step,  \* thinning: entries kept, the next one to look at, and
                       \* how many reduce goes ahead
  coded, loaded        \* what append_to has written and load has read

vars == <<offsets, est, comp, uncomp, blocks, pc, to, from, step, coded, loaded>>

Pair(c, u) == [comp |-> c, uncomp |-> u]
Last(s) == s[Len(s)]

\* reset: the block size doubled until it is MinDist.
ResetEst(max) == LET up[k \in 0..MinDist] ==
                       IF max * 2^k >= MinDist THEN max * 2^k ELSE up[k + 1]
                 IN up[0]

\* A Writer's index begins with reset, that of index_stream with nothing known.
WriterStarts == {ResetEst(b) : b \in 1..MaxBlock}
WalkStarts == {0}

\* The stream identifier comes first.
FirstBlock == 10

----------------------------------------------------------------------------
(* add *)

\* index_stream takes the first block's size for the spacing.
Spacing(n) == IF est = 0 THEN n ELSE est

\* Fault: the spacing is measured from the last block.
TooCloseToBlock(e) == blocks # <<>> /\ uncomp - Last(blocks).uncomp < e

\* The block lies within the spacing of the last entry.
TooClose(e) == offsets # <<>> /\ uncomp - Last(offsets).uncomp < e

\* add for a block of n bytes that takes size bytes of the stream.
Add(n, size) ==
  LET e == Spacing(n)
      here == Pair(comp, uncomp)
      kept == IF TooClose(e) THEN offsets ELSE Append(offsets, here)
      light == ~TooClose(e) /\ Len(kept) > MaxEntries
  IN /\ pc = "idle"
     /\ uncomp + n <= MaxTotal
     /\ offsets' = kept
     /\ est' = IF light THEN 2 * e ELSE e
     /\ pc' = IF light THEN "light" ELSE "idle"
     /\ comp' = comp + size
     /\ uncomp' = uncomp + n
     /\ blocks' = Append(blocks, here)
     /\ to' = 0 /\ from' = 1
     /\ UNCHANGED <<step, coded, loaded>>

----------------------------------------------------------------------------
(* reduce_light and reduce *)

\* The first entry behind the k-th that is not within the spacing of it.
NextKept(k) ==
  LET far == {j \in (k + 1)..Len(offsets) :
                offsets[j].uncomp - offsets[k].uncomp >= est}
  IN IF far = {} THEN Len(offsets) + 1 ELSE CHOOSE j \in far : \A i \in far : j <= i

\* One entry is kept: it moves down to its place.
Keep(next) ==
  /\ from <= Len(offsets)
  /\ offsets' = [offsets EXCEPT ![to + 1] = offsets[from]]
  /\ to' = to + 1
  /\ from' = next
  /\ UNCHANGED <<est, comp, uncomp, blocks, pc, step, coded, loaded>>

LightStep == pc = "light" /\ Keep(NextKept(from))
ReduceStep == pc = "reduce" /\ Keep(from + step)

\* Fault: the entries behind the kept ones stay.
LightEndUntruncated ==
  /\ pc = "light"
  /\ from > Len(offsets)
  /\ pc' = "idle"
  /\ UNCHANGED <<offsets, est, comp, uncomp, blocks, to, from, step, coded, loaded>>

\* The entries behind the kept ones go.
LightEnd ==
  /\ pc = "light"
  /\ from > Len(offsets)
  /\ offsets' = SubSeq(offsets, 1, to)
  /\ pc' = "idle"
  /\ UNCHANGED <<est, comp, uncomp, blocks, to, from, step, coded, loaded>>

\* How many entries reduce drops for each it keeps: from what the limit demands on,
\* the first number that makes the spacing wide enough or the entries few.
RemoveN ==
  LET least == (Len(offsets) + 1) \div MaxEntries
      enough(r) == est * (r + 1) >= MinDist \/ Len(offsets) \div (r + 1) <= FewEntries
  IN CHOOSE r \in least..(least + Len(offsets)) :
       enough(r) /\ \A q \in least..(r - 1) : ~enough(q)

\* append_to begins with reduce, which does nothing to a short index.
AppendTo ==
  /\ pc = "idle"
  /\ IF Len(offsets) < MaxEntries
     THEN pc' = "encode" /\ UNCHANGED <<to, from, step>>
     ELSE pc' = "reduce" /\ to' = 0 /\ from' = 1 /\ step' = 1 + RemoveN
  /\ UNCHANGED <<offsets, est, comp, uncomp, blocks, coded, loaded>>

ReduceEnd ==
  /\ pc = "reduce"
  /\ from > Len(offsets)
  /\ offsets' = SubSeq(offsets, 1, to)
  /\ est' = est * step
  /\ pc' = "encode"
  /\ UNCHANGED <<comp, uncomp, blocks, to, from, step, coded, loaded>>

----------------------------------------------------------------------------
(* The encoded form: numbers, as put_varint writes them *)

\* Rust's division by two: towards zero.
Half(x) == IF x >= 0 THEN x \div 2 ELSE -((-x) \div 2)

\* has_uncomp is 0: the uncompressed offsets are multiples of the spacing.
EvenlySpaced ==
  \A i \in 1..Len(offsets) :
    offsets[i].uncomp = IF i = 1 THEN 0 ELSE offsets[i - 1].uncomp + est

\* The next prediction of a compressed size.
Predict(p, d) == p + Half(d)

\* The compressed offsets as differences from a prediction that follows them.
CompCoded ==
  LET c(i) == offsets[i].comp
      at[i \in 1..Len(offsets)] ==
        IF i = 1 THEN [d |-> c(1), p |-> est \div 2]
        ELSE LET d == c(i) - (c(i - 1) + at[i - 1].p)
             IN [d |-> d, p |-> Predict(at[i - 1].p, d)]
  IN [i \in 1..Len(offsets) |-> at[i].d]

Encoded ==
  [total |-> uncomp, est |-> est, n |-> Len(offsets),
   us |-> IF EvenlySpaced THEN <<>>
          ELSE [i \in 1..Len(offsets) |->
                  IF i = 1 THEN offsets[1].uncomp
                  ELSE offsets[i].uncomp - (offsets[i - 1].uncomp + est)],
   cs |-> CompCoded]

Encode ==
  /\ pc = "encode"
  /\ coded' = Encoded
  /\ pc' = "encoded"
  /\ UNCHANGED <<offsets, est, comp, uncomp, blocks, to, from, step, loaded>>

\* load: the offsets, and whether each is behind the one before it.
UncompLoaded(x) ==
  LET d(i) == IF x.us = <<>> THEN 0 ELSE x.us[i]
      at[i \in 1..x.n] == IF i = 1 THEN d(1) ELSE d(i) + at[i - 1] + x.est
  IN at

\* Fault: the difference is halved towards minus infinity.
PredictNextFloor(p, d) == p + (d \div 2)

\* load's own prediction.
PredictNext(p, d) == p + Half(d)

CompLoaded(x) ==
  LET at[i \in 1..x.n] ==
        IF i = 1 THEN [c |-> x.cs[1], p |-> x.est \div 2]
        ELSE [c |-> x.cs[i] + at[i - 1].c + at[i - 1].p,
              p |-> PredictNext(at[i - 1].p, x.cs[i])]
  IN [i \in 1..x.n |-> at[i].c]

Ascending(f, n) == /\ n > 0 => f[1] >= 0
                   /\ \A i \in 2..n : f[i] > f[i - 1]

Loaded(x) ==
  LET us == UncompLoaded(x)
      cs == CompLoaded(x)
  IN IF x.n > MaxEntries \/ ~Ascending(us, x.n) \/ ~Ascending(cs, x.n)
     THEN [ok |-> FALSE, total |-> 0, entries |-> <<>>]
     ELSE [ok |-> TRUE, total |-> x.total,
           entries |-> [i \in 1..x.n |-> Pair(cs[i], us[i])]]

Load ==
  /\ pc = "encoded"
  /\ loaded' = Loaded(coded)
  /\ pc' = "ended"
  /\ UNCHANGED <<offsets, est, comp, uncomp, blocks, to, from, step, coded>>

----------------------------------------------------------------------------
Nothing == [ok |-> FALSE, total |-> 0, entries |-> <<>>]

Init ==
  /\ offsets = <<>> /\ est \in Starts
  /\ comp = FirstBlock /\ uncomp = 0 /\ blocks = <<>>
  /\ pc = "idle" /\ to = 0 /\ from = 1 /\ step = 1
  /\ coded = [total |-> 0, est |-> 0, n |-> 0, us |-> <<>>, cs |-> <<>>]
  /\ loaded = Nothing

Ended == pc = "ended" /\ UNCHANGED vars

Next == \/ \E n \in 1..MaxBlock, size \in Sizes : Add(n, size)
        \/ LightStep \/ LightEnd \/ AppendTo \/ ReduceStep \/ ReduceEnd
        \/ Encode \/ Load \/ Ended

Spec == Init /\ [][Next]_vars
----------------------------------------------------------------------------
(* What makes the index correct. *)

\* The entries are block starts, the first block's among them whatever has been
\* thinned out, in ascending order both ways: find may search them, and decoding
\* can begin at each.  While an entry is moved down they may repeat.
IndexSound ==
  /\ \A i \in 1..Len(offsets) : \E b \in 1..Len(blocks) : offsets[i] = blocks[b]
  /\ blocks # <<>> => offsets # <<>> /\ offsets[1] = blocks[1]
  /\ pc \notin {"light", "reduce"} =>
       \A i \in 2..Len(offsets) : /\ offsets[i].comp > offsets[i - 1].comp
                                  /\ offsets[i].uncomp > offsets[i - 1].uncomp

\* However often the entries have been thinned out, a seek finds one close by:
\* fewer than two spacings and a block, of the blocks reduce has joined, lie
\* between neighbours and behind the last.
SeekCost ==
  LET near(a, b) == b - a < 2 * est + step * MaxBlock
  IN pc \notin {"light", "reduce"} /\ offsets # <<>> =>
       /\ \A i \in 2..Len(offsets) : near(offsets[i - 1].uncomp, offsets[i].uncomp)
       /\ near(Last(offsets).uncomp, uncomp)

\* What append_to has written load accepts and reads back exactly, with and
\* without the uncompressed offsets, whatever the compressed sizes did.
LoadsBack == pc = "ended" => loaded = [ok |-> TRUE, total |-> uncomp, entries |-> offsets]
=============================================================================
