------------------------- MODULE EncodeBudgetProofs -------------------------
(* The encoders of levels 1 and 2 stay in their buffer, for every block      *)
(* length, every run of literals and every offset the format can express.    *)
EXTENDS EncodeBudget, TLAPS

----------------------------------------------------------------------------
(* What the operations cost: LiteralHeadSize, EmitRepeatSize and the others   *)
(* of emit.rs, in general and in the blocks where every byte counts.         *)

\* The two sizes of the format as numbers, without their values.
LEMMA BlockSizesNat == MaxBlockSize \in Nat /\ MinNonLiteral \in Nat /\ MinNonLiteral >= 16
  BY SMT DEF MaxBlockSize, MinNonLiteral

\* The header of a run of literals.
LEMMA HeadBound ==
  ASSUME NEW k \in Nat
  PROVE  /\ LiteralHeadSize(k) \in 0..4
         /\ k < 448 => LiteralHeadSize(k) <= 3
         /\ k < 285 => LiteralHeadSize(k) <= 2
  BY DEF LiteralHeadSize

\* A repeat is at least three bytes shorter than what it repeats.
LEMMA RepeatBound ==
  ASSUME NEW len \in Nat, len >= 1
  PROVE  /\ EmitRepeatSize(len) \in 1..4
         /\ len < 448 => EmitRepeatSize(len) <= 3
         /\ len < 285 => EmitRepeatSize(len) <= 2
         /\ len >= 4 => EmitRepeatSize(len) <= len - 3
  BY DEF EmitRepeatSize

\* A copy near by is at least two bytes shorter than what it copies.
LEMMA CopyBound ==
  ASSUME NEW o \in Nat \ {0}, NEW len \in Nat, len >= 4
  PROVE  /\ EmitCopySize(o, len) \in 2..7
         /\ o <= 1024 => EmitCopySize(o, len) <= len - 2
         /\ o <= 1024 /\ len < 448 => EmitCopySize(o, len) <= 5
         /\ o <= 1024 /\ len < 256 => EmitCopySize(o, len) <= 3
  <1>1. CASE o <= 1024
    <2>1. CASE len < 274
      BY <1>1, <2>1 DEF EmitCopySize, MaxCopy1Offset
    <2>2. CASE len >= 274
      <3>1. EmitCopySize(o, len) = 2 + EmitRepeatSize(len - 18)
        BY <1>1, <2>2 DEF EmitCopySize, MaxCopy1Offset
      <3>2. QED
        BY <3>1, <2>2, <1>1, RepeatBound, len - 18 \in Nat
    <2>3. QED BY <2>1, <2>2
  <1>2. CASE o \in 1025..65599
    BY <1>2 DEF EmitCopySize, EmitCopy2Size, MaxCopy1Offset
  <1>3. CASE o > 65599
    BY <1>3 DEF EmitCopySize, ByteLen, Larger, MaxCopy1Offset
  <1>4. QED BY <1>1, <1>2, <1>3

\* The fused forms, their literals counted in.
LEMMA FusedBound ==
  ASSUME NEW k \in 0..4, NEW len \in Nat, len >= 4
  PROVE  /\ EmitLits2Size(k, len) \in k..(k + 7)
         /\ EmitLits2Size(k, len) <= k + len - 1
         /\ len < 448 => EmitLits2Size(k, len) <= k + 6
         /\ len < 256 => EmitLits2Size(k, len) <= k + 5
         /\ EmitLits3Size(k, len) \in k..(k + 7)
  <1>1. CASE len <= 11
    BY <1>1 DEF EmitLits2Size, EmitLits3Size, ByteLen, Larger
  <1>2. CASE len > 11
    <2>1. EmitLits2Size(k, len) = 3 + k + EmitRepeatSize(len - 11)
      BY <1>2 DEF EmitLits2Size
    <2>2. EmitLits2Size(k, len) <= k + len - 1
      BY <2>1, <1>2, RepeatBound, len - 11 \in Nat DEF EmitRepeatSize
    <2>3. EmitLits3Size(k, len) \in k..(k + 7)
      BY DEF EmitLits3Size, ByteLen, Larger
    <2>4. QED
      BY <2>1, <2>2, <2>3, <1>2, RepeatBound, len - 11 \in Nat
  <1>3. QED BY <1>1, <1>2

----------------------------------------------------------------------------
(* The invariant.                                                            *)

\* What the variables are, and that no more is emitted than there is.
TypeInv == /\ n \in MinNonLiteral..MaxBlockSize
           /\ lvl \in {1, 2}
           /\ ne \in 0..n
           /\ d \in Nat
           /\ pc \in {"search", "again", "rest", "out"}

\* Level 1, longer blocks: what is written behind a repeat is bounded, so that
\* one match that is not checked still fits.
LongInv == n >= 448 /\ pc = "search" => d <= DstLimit + 8

\* Level 1, shorter blocks, where the slack is less than the operations can
\* take: nothing is written that is not paid for by the bytes it covers, but for
\* a byte behind a long run of literals, which only fits once.
ShortInv == n < 448 =>
              /\ d <= ne + 1
              /\ d > ne => ne >= 289
              /\ pc = "search" => d <= DstLimit \/ d <= ne

\* The inductive invariant.
BudgetInv == TypeInv /\ StaysInBuffer /\ (lvl = 1 => LongInv /\ ShortInv)

\* What the body of a block may take beyond the limit.
LEMMA Slack ==
  ASSUME TypeInv
  PROVE  /\ DstLimit \in Int /\ DstLimit <= n
         /\ BodyRoom(n) \in Nat
         /\ DstLimit + 6 <= BodyRoom(n)
         /\ n >= 128 => DstLimit + 9 <= BodyRoom(n)
         /\ n >= 256 => DstLimit + 13 <= BodyRoom(n)
         /\ n >= 448 => DstLimit + 19 <= BodyRoom(n)
         /\ n < 16384 => n - 1 <= BodyRoom(n)
         /\ n < 128 => n <= BodyRoom(n)
  <1>1. /\ n \in Nat /\ n \div 32 \in Nat
        /\ 32 * (n \div 32) <= n /\ n < 32 * (n \div 32) + 32
        /\ n >= 16
    BY BlockSizesNat, SMT DEF TypeInv
  <1>2. QED
    BY <1>1, SMT DEF DstLimit, BodyRoom, MaxEncodedLen, UvarintLen

\* A repeat behind k literals.
LEMMA RepeatMatchBound ==
  ASSUME TypeInv, NEW k \in Nat, NEW len \in Nat, len >= 4, k + len <= n
  PROVE  /\ RepeatMatchSize(k, len) \in Nat
         /\ RepeatMatchSize(k, len) <= k + 8
         /\ n < 448 => RepeatMatchSize(k, len) <= k + 6
         /\ n < 256 => RepeatMatchSize(k, len) <= k + 4
         /\ k < 285 => RepeatMatchSize(k, len) <= k + len - 1
         /\ k < 448 => RepeatMatchSize(k, len) <= k + len
  BY HeadBound, RepeatBound DEF RepeatMatchSize, TypeInv

\* Any other match behind k literals, split or fused.
LEMMA MatchBound ==
  ASSUME TypeInv, NEW k \in Nat, NEW o \in Nat \ {0}, NEW len \in Nat,
         len >= 4, k + len <= n, o <= n
  PROVE  /\ MatchSize(k, o, len, MostFused(o)) \in Nat
         /\ MatchSize(k, o, len, MostFused(o)) <= k + 11
         /\ n < 448 => /\ MatchSize(k, o, len, MostFused(o)) <= k + 8
                       /\ MatchSize(k, o, len, MostFused(o)) <= k + len + 1
                       /\ k < 285 => MatchSize(k, o, len, MostFused(o)) <= k + len
         /\ n < 256 => MatchSize(k, o, len, MostFused(o)) <= k + 5
         /\ lvl = 1 /\ ~Checked(k, o) =>
              /\ MatchSize(k, o, len, MostFused(o)) <= 11
              /\ n < 448 => MatchSize(k, o, len, MostFused(o)) <= k + len - 1
  <1> DEFINE most == MostFused(o)
  <1>1. most \in 3..4
    BY DEF MostFused, MaxCopy3Lits, MaxCopy2Lits
  <1>2. n \in Nat /\ len <= n /\ k <= n
    BY DEF TypeInv
  <1>3. CASE k = 0
    <2>1. MatchSize(k, o, len, most) = EmitCopySize(o, len)
      BY <1>3 DEF MatchSize
    <2>2. QED
      BY <2>1, <1>1, <1>2, <1>3, CopyBound
  <1>4. CASE k # 0 /\ (k > most \/ o < MinCopy2Offset)
    <2>1. MatchSize(k, o, len, most) = LiteralHeadSize(k) + k + EmitCopySize(o, len)
      BY <1>4 DEF MatchSize, SplitSize
    <2>2. Checked(k, o)
      BY <1>4 DEF Checked
    <2>3. QED
      BY <2>1, <2>2, <1>1, <1>2, CopyBound, HeadBound
  <1>5. CASE k # 0 /\ ~(k > most \/ o < MinCopy2Offset) /\ o <= MaxCopy2Offset
    <2>1. MatchSize(k, o, len, most) = EmitLits2Size(k, len)
      BY <1>5 DEF MatchSize
    <2>2. k \in 0..4
      BY <1>5, <1>1
    <2>3. QED
      BY <2>1, <2>2, <1>2, FusedBound
  <1>6. CASE k # 0 /\ ~(k > most \/ o < MinCopy2Offset) /\ ~(o <= MaxCopy2Offset)
    <2>1. MatchSize(k, o, len, most) = EmitLits3Size(k, len)
      BY <1>6 DEF MatchSize
    <2>2. k \in 0..4
      BY <1>6, <1>1
    <2>3. n > 448
      BY <1>6, <1>2 DEF MaxCopy2Offset, MinCopy2Offset
    <2>4. QED
      BY <2>1, <2>2, <2>3, <1>2, FusedBound
  <1>7. QED
    BY <1>3, <1>4, <1>5, <1>6

\* An encoder starts with room for its whole budget.
LEMMA BudgetInit == Init => BudgetInv
  <1> SUFFICES ASSUME Init PROVE BudgetInv
    OBVIOUS
  <1>1. TypeInv
    BY SizesAssumption, BlockSizesNat, SMT DEF Init, TypeInv
  <1>2. d = 0 /\ ne = 0 /\ n \in Nat /\ n >= 16 /\ DstLimit \in Int /\ DstLimit + 6 <= BodyRoom(n)
    BY <1>1, Slack, BlockSizesNat DEF Init, TypeInv
  <1>3. DstLimit >= 0
    BY <1>2, SMT DEF DstLimit
  <1>4. StaysInBuffer
    BY <1>1, <1>2, <1>3, Slack DEF StaysInBuffer
  <1>5. QED
    BY <1>1, <1>2, <1>3, <1>4 DEF BudgetInv, LongInv, ShortInv

\* A repeat keeps the budget.
LEMMA BudgetRepeat ==
  ASSUME BudgetInv, NEW w \in Widths, Repeat(w)
  PROVE  BudgetInv'
  <1>1. PICK k \in LitLens : /\ k + 4 <= w /\ ne + k <= LastStart
                             /\ ~OverLimit(k)
                             /\ Write(RepeatMatchSize(k, w - k), "search")
    BY DEF Repeat
  <1> DEFINE size == RepeatMatchSize(k, w - k)
  <1>2. /\ k \in Nat /\ w \in Nat /\ w - k \in Nat /\ w - k >= 4
        /\ ne \in Nat /\ n \in Nat /\ d \in Nat /\ ne + w <= n
        /\ k + (w - k) <= n
    BY <1>1, SpansAssumption DEF Repeat, Cover, BudgetInv, TypeInv
  <1>3. ne' = ne + w /\ d' = d + size /\ UNCHANGED <<n, lvl>> /\ pc = "search"
        /\ pc' \in {"rest", "search"}
    BY <1>1 DEF Repeat, Cover, Write
  <1>4. d + k <= DstLimit
    BY <1>1, <1>2, Slack DEF OverLimit, BudgetInv
  <1>5. /\ size \in Nat /\ size <= k + 8
        /\ n < 448 => size <= k + 6
        /\ n < 256 => size <= k + 4
        /\ k < 285 => size <= w - 1
        /\ k < 448 => size <= w
    BY <1>2, RepeatMatchBound DEF BudgetInv
  <1>6. DstLimit' = DstLimit /\ BodyRoom(n') = BodyRoom(n)
    BY <1>3 DEF DstLimit
  <1> HIDE DEF size
  <1>7. TypeInv'
    BY <1>2, <1>3, <1>5 DEF BudgetInv, TypeInv
  <1>8. StaysInBuffer'
    BY <1>2, <1>3, <1>4, <1>5, <1>6, Slack DEF BudgetInv, StaysInBuffer
  <1>9. lvl = 1 => LongInv'
    BY <1>2, <1>3, <1>4, <1>5, <1>6, Slack DEF BudgetInv, LongInv
  <1>10. lvl = 1 => ShortInv'
    BY <1>2, <1>3, <1>4, <1>5, <1>6, Slack DEF BudgetInv, ShortInv
  <1>11. QED
    BY <1>3, <1>7, <1>8, <1>9, <1>10 DEF BudgetInv

\* A literal run and the copy behind it keep the budget.
LEMMA BudgetMatch ==
  ASSUME BudgetInv, NEW w \in Widths, Match(w)
  PROVE  BudgetInv'
  <1>1. PICK k \in LitLens, o \in Offsets :
          LET size == MatchSize(k, o, w - k, MostFused(o))
          IN /\ k + 4 <= w /\ ne + k <= LastStart
             /\ o <= ne + k
             /\ Checked(k, o) => ~OverLimit(k)
             /\ Write(size, IF lvl = 1 THEN "again"
                            ELSE IF d + size > DstLimit THEN "out" ELSE "search")
    BY DEF Match
  <1> DEFINE size == MatchSize(k, o, w - k, MostFused(o))
  <1>2. /\ k \in Nat /\ w \in Nat /\ w - k \in Nat /\ w - k >= 4
        /\ ne \in Nat /\ n \in Nat /\ d \in Nat /\ ne + w <= n
        /\ k + (w - k) <= n /\ o \in Nat \ {0} /\ o <= n
    BY <1>1, SpansAssumption, OffsetsAssumption DEF Match, Cover, BudgetInv, TypeInv
  <1>3. ne' = ne + w /\ d' = d + size /\ UNCHANGED <<n, lvl>> /\ pc = "search"
    BY <1>1 DEF Match, Cover, Write
  <1>4. pc' \in {"rest", "search", "again", "out"} /\ (lvl = 1 => pc' # "search")
    BY <1>1 DEF Write
  <1>5. /\ size \in Nat /\ size <= k + 11
        /\ n < 448 => size <= k + 8 /\ size <= w + 1 /\ (k < 285 => size <= w)
        /\ n < 256 => size <= k + 5
        /\ lvl = 1 /\ ~Checked(k, o) => size <= 11 /\ (n < 448 => size <= w - 1)
    <2>1. PICK len \in Nat : len = w - k
      BY <1>2
    <2>2. TypeInv /\ len >= 4 /\ k + len <= n
      BY <1>2, <2>1 DEF BudgetInv
    <2>3. /\ size = MatchSize(k, o, len, MostFused(o))
          /\ k + len = w
      BY <1>2, <2>1
    <2>4. /\ size \in Nat
          /\ size <= k + 11
          /\ n < 448 => /\ size <= k + 8
                        /\ size <= k + len + 1
                        /\ k < 285 => size <= k + len
          /\ n < 256 => size <= k + 5
          /\ lvl = 1 /\ ~Checked(k, o) =>
               /\ size <= 11
               /\ n < 448 => size <= k + len - 1
      BY <1>2, <2>2, <2>3, MatchBound, Zenon
    <2> HIDE DEF size
    <2>5. QED
      BY <1>2, <2>1, <2>3, <2>4
  <1>6. DstLimit' = DstLimit /\ BodyRoom(n') = BodyRoom(n)
    BY <1>3 DEF DstLimit
  <1>7. Checked(k, o) => d + k <= DstLimit
    BY <1>1, <1>2, Slack DEF OverLimit, BudgetInv
  <1>8. lvl = 1 \/ Checked(k, o)
    BY DEF BudgetInv, TypeInv, Checked
  <1> HIDE DEF size
  <1>9. TypeInv'
    BY <1>2, <1>3, <1>4, <1>5 DEF BudgetInv, TypeInv
  <1>10. StaysInBuffer'
    <2>1. CASE Checked(k, o)
      BY <2>1, <1>2, <1>3, <1>5, <1>6, <1>7, Slack DEF BudgetInv, StaysInBuffer
    <2>2. CASE ~Checked(k, o) /\ n >= 448
      BY <2>2, <1>2, <1>3, <1>5, <1>6, <1>8, Slack DEF BudgetInv, StaysInBuffer, LongInv
    <2>3. CASE ~Checked(k, o) /\ n < 448
      BY <2>3, <1>2, <1>3, <1>5, <1>6, <1>8, Slack DEF BudgetInv, StaysInBuffer, ShortInv
    <2>4. QED
      BY <2>1, <2>2, <2>3, <1>2
  <1>11. lvl = 1 => LongInv'
    BY <1>4 DEF LongInv
  <1>12. lvl = 1 => ShortInv'
    <2>1. CASE k < 285
      BY <2>1, <1>2, <1>3, <1>4, <1>5 DEF BudgetInv, ShortInv
    <2>2. CASE k >= 285
      BY <2>2, <1>2, <1>3, <1>4, <1>5 DEF BudgetInv, ShortInv
    <2>3. QED
      BY <2>1, <2>2, <1>2
  <1>13. QED
    BY <1>3, <1>9, <1>10, <1>11, <1>12 DEF BudgetInv

\* A copy directly behind a copy keeps the budget.
LEMMA BudgetAgain ==
  ASSUME BudgetInv, NEW w \in Widths, Again(w)
  PROVE  BudgetInv'
  <1>1. PICK o \in Offsets : o <= ne /\ Write(EmitCopySize(o, w), "again")
    BY DEF Again
  <1> DEFINE size == EmitCopySize(o, w)
  <1>2. /\ w \in Nat /\ w >= 4
        /\ ne \in Nat /\ n \in Nat /\ d \in Nat /\ ne + w <= n
        /\ o \in Nat \ {0} /\ o <= n
    BY <1>1, SpansAssumption, OffsetsAssumption DEF Again, Cover, BudgetInv, TypeInv
  <1>3. /\ ne' = ne + w /\ d' = d + size /\ UNCHANGED <<n, lvl>>
        /\ pc' \in {"rest", "again"}
    BY <1>1 DEF Again, Cover, Write
  <1>4. d <= DstLimit
    BY <1>2, Slack DEF Again, OverLimit, BudgetInv
  <1>5. /\ size \in Nat /\ size <= 7
        /\ n < 448 => size <= 5 /\ size <= w - 2
    BY <1>2, CopyBound
  <1>6. DstLimit' = DstLimit /\ BodyRoom(n') = BodyRoom(n)
    BY <1>3 DEF DstLimit
  <1> HIDE DEF size
  <1>7. TypeInv'
    BY <1>2, <1>3, <1>5 DEF BudgetInv, TypeInv
  <1>8. StaysInBuffer'
    BY <1>2, <1>3, <1>4, <1>5, <1>6, Slack DEF BudgetInv, StaysInBuffer
  <1>9. lvl = 1 => LongInv' /\ ShortInv'
    BY <1>2, <1>3, <1>5 DEF BudgetInv, LongInv, ShortInv
  <1>10. QED
    BY <1>3, <1>7, <1>8, <1>9 DEF BudgetInv

\* The literals that end the block fit, or the block is given up.
LEMMA BudgetRemainder ==
  ASSUME BudgetInv, Remainder
  PROVE  BudgetInv'
  <1>1. /\ ne \in 0..n /\ n \in Nat /\ d \in Nat /\ n - ne \in Nat
    BY BlockSizesNat, SMT DEF BudgetInv, TypeInv
  <1>2. /\ LiteralHeadSize(n - ne) \in 0..4
        /\ n - ne < 448 => LiteralHeadSize(n - ne) <= 3
    BY <1>1, HeadBound
  <1>3. DstLimit' = DstLimit /\ BodyRoom(n') = BodyRoom(n)
    BY DEF DstLimit, Remainder
  <1>4. StaysInBuffer'
    <2>1. CASE ne = n
      <3>1. LiteralHeadSize(n - ne) = 0
        BY <2>1, <1>1, n - ne = 0 DEF LiteralHeadSize
      <3>2. QED
        BY <3>1, <2>1, <1>1, <1>3, Slack DEF BudgetInv, StaysInBuffer, Remainder
    <2>2. CASE ne < n
      BY <2>2, <1>1, <1>2, <1>3, Slack
      DEF BudgetInv, StaysInBuffer, Remainder, OverLimit
    <2>3. QED
      BY <2>1, <2>2, <1>1
  <1>5. d' <= n /\ d' \in Nat
    <2>1. CASE ne = n
      <3>1. LiteralHeadSize(n - ne) = 0
        BY <2>1, <1>1, n - ne = 0 DEF LiteralHeadSize
      <3>2. d <= BodyRoom(n) /\ BodyRoom(n) <= n
        BY <1>1, SMT DEF BudgetInv, StaysInBuffer, BodyRoom, MaxEncodedLen, UvarintLen
      <3>3. QED
        BY <3>1, <3>2, <2>1, <1>1, Slack DEF BudgetInv, Remainder
    <2>2. CASE ne < n
      <3>1. d + (n - ne) <= DstLimit /\ DstLimit <= n - 6
        BY <2>2, <1>1, SMT DEF Remainder, OverLimit, DstLimit
      <3>2. d' = d + (n - ne) + LiteralHeadSize(n - ne) /\ DstLimit \in Int
        BY <1>1, <1>2, Slack DEF Remainder, BudgetInv
      <3>3. QED
        BY <3>1, <3>2, <1>1, <1>2
    <2>3. QED
      BY <2>1, <2>2, <1>1
  <1>6. TypeInv'
    BY <1>1, <1>5 DEF BudgetInv, TypeInv, Remainder
  <1>7. LongInv' /\ ShortInv'
    BY <1>1, <1>5 DEF LongInv, ShortInv, Remainder
  <1>8. QED
    BY <1>4, <1>6, <1>7 DEF BudgetInv

\* Every step keeps the budget.
LEMMA BudgetStep == BudgetInv /\ [Next]_vars => BudgetInv'
  <1> SUFFICES ASSUME BudgetInv, [Next]_vars PROVE BudgetInv'
    OBVIOUS
  <1>1. CASE /\ UNCHANGED <<n, lvl, ne, d>>
             /\ pc' = pc \/ pc' \in {"rest", "out"} \/ (pc' = "search" /\ ~OverLimit(0))
    <2>1. TypeInv' /\ StaysInBuffer' /\ DstLimit' = DstLimit
      BY <1>1 DEF BudgetInv, TypeInv, StaysInBuffer, DstLimit
    <2>2. OverLimit(0) \/ d <= DstLimit
      BY Slack DEF BudgetInv, OverLimit, TypeInv
    <2>3. lvl = 1 => LongInv' /\ ShortInv'
      BY <1>1, <2>1, <2>2, Slack, BlockSizesNat DEF BudgetInv, TypeInv, LongInv, ShortInv
    <2>4. QED
      BY <1>1, <2>1, <2>3 DEF BudgetInv
  <1>2. CASE GoOn
    BY <1>2, <1>1 DEF GoOn
  <1>3. CASE SearchEnds
    BY <1>3, <1>1 DEF SearchEnds
  <1>4. CASE GiveUp
    BY <1>4, <1>1 DEF GiveUp
  <1>5. CASE Ended \/ UNCHANGED vars
    BY <1>5, <1>1 DEF Ended, vars
  <1>6. QED
    BY <1>2, <1>3, <1>4, <1>5, BudgetRepeat, BudgetMatch, BudgetAgain,
       BudgetRemainder DEF Next

\* For every set of block lengths up to 8 MiB, of literals, widths and offsets:
\* the stores of encode_block of encode_l1.rs and encode_l2.rs and of their emitters, which
\* no bound but dst_limit guards, end inside the slice the encoder was given.
THEOREM EncodersStayInBuffer == Spec => []StaysInBuffer
  <1>1. BudgetInv => StaysInBuffer
    BY DEF BudgetInv
  <1>2. QED
    BY <1>1, BudgetInit, BudgetStep, PTL DEF Spec

=============================================================================
