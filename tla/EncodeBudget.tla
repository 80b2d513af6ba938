---------------------------- MODULE EncodeBudget ----------------------------
(* How much the encoders of levels 1 and 2 write, and when they look at      *)
(* dst_limit: crates/minlz/src/block/encode_l1.rs and encode_l2.rs reduced   *)
(* to sizes.  The emitters store without checks, so that these comparisons   *)
(* alone keep the output inside its buffer.                                  *)
(*                                                                           *)
(* Any literals and any match may come next.                                 *)
EXTENDS BlockSizes

CONSTANTS Sizes,      \* lengths of blocks
          Widths,     \* bytes of the block one operation may cover
          LitLens,    \* and how many of them may be literals
          Offsets,    \* offsets of matches
          BigFrom     \* shortest block for the encoders of big blocks; 65537

ASSUME SizesAssumption == Sizes \subseteq MinNonLiteral..MaxBlockSize
ASSUME SpansAssumption == Widths \subseteq Nat /\ LitLens \subseteq Nat
ASSUME OffsetsAssumption == Offsets \subseteq Nat \ {0}
ASSUME BigAssumption == BigFrom \in Nat

VARIABLES n, lvl,     \* the block's length and the level
          ne, d,      \* next_emit, bytes written
          pc          \* "search", "again", "rest" or "out"

vars == <<n, lvl, ne, d, pc>>

DstLimit == n - n \div 32 - 6
SLimit == n - InputMargin

\* Fault: the limit is taken for sixteen bytes more than it is.
OverLimitLate(k) == d + k > DstLimit + 16

\* k more literals would exceed what the output may take.
OverLimit(k) == d + k > DstLimit

\* Where the last match may begin: level 1 looks at three positions of which
\* the first is four before the limit, level 2 at two, the first one before it.
LastStart == IF lvl = 1 THEN SLimit - 2 ELSE SLimit

\* The size of a match of len bytes at offset o behind k literals.
SplitSize(k, o, len) == LiteralHeadSize(k) + k + EmitCopySize(o, len)
RepeatMatchSize(k, len) == LiteralHeadSize(k) + k + EmitRepeatSize(len)

MatchSize(k, o, len, most) ==
  IF k = 0 THEN EmitCopySize(o, len)
  ELSE IF k > most \/ o < MinCopy2Offset THEN SplitSize(k, o, len)
  ELSE IF o <= MaxCopy2Offset THEN EmitLits2Size(k, len) ELSE EmitLits3Size(k, len)

\* Level 1 fuses three literals at most in blocks above 64 KiB, level 2 with
\* offsets that need a Copy3.
MostFused(o) == IF (lvl = 1 /\ n >= BigFrom) \/ (lvl = 2 /\ o > MaxCopy2Offset)
                THEN MaxCopy3Lits ELSE MaxCopy2Lits

\* Level 1 does not look at the limit before a match it need not split.
Checked(k, o) == lvl = 2 \/ (k > 0 /\ (k > MostFused(o) \/ o < MinCopy2Offset))

\* The next operation covers w bytes of the block.
Cover(w) == ne + w <= n /\ ne' = ne + w

\* It takes size bytes; go on in state next.
Write(size, next) ==
  /\ d' = d + size
  /\ pc' = IF ne' >= SLimit THEN "rest" ELSE next
  /\ UNCHANGED <<n, lvl>>

\* A match at the last offset.
Repeat(w) ==
  /\ pc = "search"
  /\ Cover(w)
  /\ \E k \in LitLens :
       /\ k + 4 <= w /\ ne + k <= LastStart
       /\ ~OverLimit(k)
       /\ Write(RepeatMatchSize(k, w - k), "search")

\* Behind a match level 2 looks at the limit at once, level 1 in the next step.
Match(w) ==
  /\ pc = "search"
  /\ Cover(w)
  /\ \E k \in LitLens, o \in Offsets :
       LET size == MatchSize(k, o, w - k, MostFused(o))
       IN /\ k + 4 <= w /\ ne + k <= LastStart
          /\ o <= ne + k
          /\ Checked(k, o) => ~OverLimit(k)
          /\ Write(size, IF lvl = 1 THEN "again"
                         ELSE IF d + size > DstLimit THEN "out" ELSE "search")

\* Level 1, right behind a match: the next one.
Again(w) ==
  /\ pc = "again"
  /\ ~OverLimit(0)
  /\ 4 <= w
  /\ Cover(w)
  /\ \E o \in Offsets : o <= ne /\ Write(EmitCopySize(o, w), "again")

\* Or none.
GoOn ==
  /\ pc = "again"
  /\ ~OverLimit(0)
  /\ pc' = IF ne + 1 >= SLimit THEN "rest" ELSE "search"
  /\ UNCHANGED <<n, lvl, ne, d>>

SearchEnds == pc = "search" /\ pc' = "rest" /\ UNCHANGED <<n, lvl, ne, d>>

GiveUp ==
  /\ \/ pc = "search" /\ \E k \in LitLens : ne + k <= LastStart /\ OverLimit(k)
     \/ pc = "again" /\ OverLimit(0)
     \/ pc = "rest" /\ ne < n /\ OverLimit(n - ne)
  /\ pc' = "out"
  /\ UNCHANGED <<n, lvl, ne, d>>

Remainder ==
  /\ pc = "rest"
  /\ ne < n => ~OverLimit(n - ne)
  /\ ne' = n
  /\ d' = d + LiteralHeadSize(n - ne) + (n - ne)
  /\ pc' = "out"
  /\ UNCHANGED <<n, lvl>>

Ended == pc = "out" /\ UNCHANGED vars

Init == n \in Sizes /\ lvl \in {1, 2} /\ ne = 0 /\ d = 0 /\ pc = "search"

Next == \/ \E w \in Widths : Repeat(w) \/ Match(w) \/ Again(w)
        \/ GoOn \/ SearchEnds \/ GiveUp \/ Remainder \/ Ended

Spec == Init /\ [][Next]_vars

----------------------------------------------------------------------------
\* No operation of level 1 or 2 is stored behind the end of the slice the
\* encoder was given, n + 2 bytes less the marker and the length, however the
\* literals and matches fall.
StaysInBuffer == d <= BodyRoom(n)
=============================================================================
