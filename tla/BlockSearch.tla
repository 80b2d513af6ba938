---------------------------- MODULE BlockSearch ----------------------------
(* The three encoders, crates/minlz/src/block/encode_l1.rs, encode_l2.rs and *)
(* encode_l3.rs: where they look for matches, what they do with one, and     *)
(* when they give up; and the decoder of BlockCodec behind them.             *)
(*                                                                           *)
(* A hash table is the set of the positions stored in it.  A lookup may find *)
(* any of them, or one that does not match, so that the model holds for      *)
(* every hash function and table size.  What an encoder has dealt with       *)
(* (src[..next_emit]) is data, what it has written is body.                  *)
EXTENDS BlockCodec, FiniteSetsExt

CONSTANTS Sources,     \* the blocks to encode
          BigFrom,     \* shortest block for the encoders of big blocks; 65537
          FarOffset,   \* largest offset that pays for four bytes; 65535
          Spans        \* how many bytes of them one operation may cover

ASSUME SourcesAssumption == \A x \in Sources : Len(x) >= MinNonLiteral
ASSUME LimitsAssumption == BigFrom \in Nat /\ FarOffset \in Nat /\ Spans \subseteq Nat

VARIABLES src, lvl,    \* the block and the encoder's level, 0 for BlockCodec's own
          at,          \* s, where it looks
          lt, st       \* positions in the long (level 1: only) and short table

searchVars == <<src, lvl, at, lt, st>>
svars == <<vars, searchVars>>
decVars == <<dlen, s, d, offset, dst, res, reach, wrote, probe>>

N == Len(src)
NextEmit == Len(data)
Big == N >= BigFrom

SLimit == N - (IF lvl = 3 THEN InputMargin + 2 ELSE InputMargin)
DstLimit == IF lvl = 3 THEN N - 5 ELSE N - N \div 32 - 6

----------------------------------------------------------------------------
(* Comparing *)

\* The bytes of the block from a to b - 1; positions count from 0.
Bytes(a, b) == SubSeq(src, a + 1, b)
Same(p, c, k) == Bytes(p, p + k) = Bytes(c, c + k)

\* How many of the k bytes at p and c agree before two differ.
Common(p, c, k) ==
  LET differ == {i \in 0..(k - 1) : src[p + i + 1] # src[c + i + 1]}
  IN IF differ = {} THEN k ELSE Min(differ)

\* Level 1 extends a match by words of eight bytes, and one that ends in the
\* last, incomplete word stops in front of it.
WordsLeft(p) == IF p > N THEN 0 ELSE 8 * ((N - p) \div 8)
Forward8(p, c) == p + Common(p, c, WordsLeft(p))
ForwardAll(p, c) == p + Common(p, c, N - p)

\* How far a match at p and c can begin earlier: not before next_emit or 0.
BackBy(p, c) ==
  LET most == IF c < p - NextEmit THEN c ELSE p - NextEmit
      fits == {k \in 0..most : Same(p - k, c - k, k)}
  IN Max(fits)

\* What a lookup in table t may find for the k bytes at p.
Hits(t, p, k, far) == {c \in t : p - c <= far /\ Same(p, c, k)}

RepeatHit(p, k) == repeat <= p /\ Same(p, p - repeat, k)

----------------------------------------------------------------------------
(* Outcomes of a step *)

\* Positions that go into the tables, which last as long as the search.
Store(long, short) ==
  IF pc' \in {"search", "again"} THEN lt' = lt \cup long /\ st' = st \cup short
  ELSE lt' = {} /\ st' = {}

Leave(p) == /\ pc' = p
            /\ Store({}, {})
            /\ UNCHANGED <<data, body, repeat, at, ops, intact, decVars, src, lvl>>

\* The block is not worth compressing.
Abandon == Leave("raw")

\* Write bytes for the block up to e, and go on at e in state p.
Wrote(bytes, e, o, p) ==
  /\ body' = body \o bytes
  /\ data' = Bytes(0, e)
  /\ repeat' = o
  /\ at' = e
  /\ pc' = IF e >= SLimit THEN "rest" ELSE p
  /\ UNCHANGED <<ops, intact, decVars, src, lvl>>

\* Look on at p.
LookAt(p) ==
  /\ at' = p
  /\ pc' = IF p >= SLimit THEN "rest" ELSE "search"
  /\ UNCHANGED <<data, body, repeat, ops, intact, decVars, src, lvl>>

----------------------------------------------------------------------------
(* Level 1 *)

NextL1 == at + (at - NextEmit) \div (IF Big THEN 64 ELSE 32) + 4

Searching(l, next) == pc = "search" /\ lvl = l /\ next <= SLimit

\* Fault: the literals in front of a repeat are not held against the limit.
OverLimitNever(k) == FALSE

\* k more literals would exceed what the output may take.
OverLimit(k) == Len(body) + k > DstLimit

\* Where a repeat found at at + 1 begins.
RepeatBase == at + 1 - BackBy(at + 1, at + 1 - repeat)

\* A repeat, as both of the faster encoders write it.
TakeRepeat(end, long, short) ==
  LET lits == Bytes(NextEmit, RepeatBase)
  IN IF OverLimit(Len(lits)) THEN Abandon
     ELSE /\ Wrote(EmitLiteral(lits) \o EmitRepeat(end - RepeatBase), end, repeat, "search")
          /\ Store(long, short)

RepeatL1 ==
  /\ Searching(1, NextL1)
  /\ RepeatHit(at + 1, 4)
  /\ TakeRepeat(Forward8(at + 5, at + 5 - repeat), {at, at + 1}, {})

\* A candidate for the bytes at p in at..at + 2.  The first two slots are read
\* before the positions are stored, the third after the first two.
MatchStepL1(p) ==
  /\ Searching(1, NextL1)
  /\ ~RepeatHit(at + 1, 4)
  /\ \E c \in Hits(IF p = at + 2 THEN lt \cup {at, at + 1} ELSE lt, p, 4, MaxCopy3Offset) :
       LET base == p - BackBy(p, c)
           off == p - c
           lits == Bytes(NextEmit, base)
           most == IF Big THEN MaxCopy3Lits ELSE MaxCopy2Lits
           end == Forward8(base + 4, base + 4 - off)
       IN IF Len(lits) > 0 /\ (Len(lits) > most \/ off < MinCopy2Offset) /\ OverLimit(Len(lits))
          THEN Abandon
          ELSE /\ Wrote(MatchL1(most, lits, off, end - base), end, off, "again")
               /\ Store(at..(IF p = at THEN at + 1 ELSE at + 2), {})

SkipL1 ==
  /\ Searching(1, NextL1)
  /\ ~RepeatHit(at + 1, 4)
  /\ LookAt(NextL1)
  /\ Store(at..(at + 2), {})

\* Right behind a match: another one, or on with the search.
AgainL1 ==
  /\ pc = "again"
  /\ IF Len(body) > DstLimit THEN Abandon
     ELSE /\ \/ \E c \in Hits(lt, at, 4, MaxCopy3Offset) :
                  LET end == Forward8(at + 4, c + 4)
                  IN Wrote(EmitCopy(at - c, end - at), end, at - c, "again")
             \/ LookAt(at + 1)
          /\ Store({at - 2, at}, {})

----------------------------------------------------------------------------
(* Level 2 *)

NextL2 == at + (at - NextEmit) \div 128 + 1

\* Positions stored for a repeat that covers base..end - 1: from both ends
\* inwards, two apart.
RepeatSpots(base, end) ==
  LET steps == {k \in 0..end : base + 1 + 2 * k < end - 2 - 2 * k}
  IN {base + 1 + 2 * k : k \in steps} \cup {end - 2 - 2 * k : k \in steps}

\* And for a match: long near both ends and two apart in each half, short near
\* the ends.
LongSpots(base, end) ==
  LET mid == (base + 2 + end - 3 + 1) \div 2
      steps == {k \in 0..end : mid + 2 * k < end - 3}
  IN {base + 1, end - 2} \cup {base + 2 + 2 * k : k \in steps} \cup {mid + 2 * k : k \in steps}
ShortSpots(base, end) == {base + 2, end - 1}

RepeatL2 ==
  /\ Searching(2, NextL2)
  /\ repeat <= at /\ RepeatHit(at + 1, 4)
  /\ LET end == ForwardAll(at + 5, at + 5 - repeat)
         spots == RepeatSpots(RepeatBase, end)
     IN TakeRepeat(end, {at} \cup spots, {at} \cup {p + 1 : p \in spots})

\* A match of the bytes at p and c; more positions were stored in the long table.
TakeMatchL2(p, c, more) ==
  LET base == p - BackBy(p, c)
      off == p - c
      lits == Bytes(NextEmit, base)
      end == ForwardAll(base + 4, base + 4 - off)
      bytes == MatchL2(lits, off, end - base)
  IN IF OverLimit(Len(lits)) THEN Abandon
     ELSE IF Big /\ off > FarOffset /\ end - base <= 4 /\ repeat # off
     THEN LookAt(NextL2 + 1) /\ Store({at} \cup more, {at})
     ELSE /\ Wrote(bytes, end, off, IF Len(body) + Len(bytes) > DstLimit THEN "raw" ELSE "search")
          /\ Store({at} \cup more \cup LongSpots(base, end), {at} \cup ShortSpots(base, end))

\* Eight bytes that match come first, then the repeat, then four.
LongL2 ==
  /\ Searching(2, NextL2)
  /\ \/ \E c \in Hits(lt, at, 8, MaxCopy3Offset - 2) : TakeMatchL2(at, c, {})
     \/ /\ ~(repeat <= at /\ RepeatHit(at + 1, 4))
        /\ \E c \in Hits(lt, at, 4, MaxCopy3Offset - 1) : TakeMatchL2(at, c, {})

\* Four bytes of the short table, unless the next ones are in the long table.
ShortL2 ==
  /\ Searching(2, NextL2)
  /\ ~(repeat <= at /\ RepeatHit(at + 1, 4))
  /\ Hits(st, at, 4, MaxCopy3Offset - 1) # {}
  /\ \/ \E c \in Hits(lt \cup {at}, at + 1, 4, MaxCopy3Offset - 1) :
          TakeMatchL2(at + 1, c, {at + 1})
     \/ \E c \in Hits(st, at, 4, MaxCopy3Offset - 1) : TakeMatchL2(at, c, {at + 1})

SkipL2 ==
  /\ Searching(2, NextL2)
  /\ ~(repeat <= at /\ RepeatHit(at + 1, 4))
  /\ LookAt(NextL2)
  /\ Store({at}, {at})

----------------------------------------------------------------------------
(* Level 3 *)

NextL3 == at + (LET step == (at - NextEmit) \div 256 + 1 IN IF step > 64 THEN 64 ELSE step)

Found(p, c, k, rep) ==
  LET back == BackBy(p, c)
  IN [s |-> p - back, off |-> p - c, rep |-> rep,
      len |-> back + ForwardAll(p + k, c + k) - p]

\* The score, less the position both sides of its comparison have.
Gain(m) ==
  LET k == m.s - NextEmit
      fused == /\ k > 0 /\ m.off > 1024
               /\ \/ k <= MaxCopy2Lits /\ m.off < 65536 + 63 /\ m.len <= 11
                  \/ k <= MaxCopy3Lits
  IN m.len - EmitLiteralSizeN(k) - EmitCopySize(m.off, m.len) + (IF fused THEN 1 ELSE 0)

\* match_at for every position of table t: matches that pay.
MatchesAt(t, p) ==
  {m \in {Found(p, c, 4, FALSE) : c \in {c \in t : /\ c > 0 /\ c < p /\ p - c < MaxCopy3Offset
                                                    /\ c + 4 <= N /\ Same(p, c, 4)}} :
     Gain(m) > 0}

\* match_at_repeat: three bytes are enough, whatever they gain.
RepeatsAt(p) ==
  IF repeat < p /\ Same(p, p - repeat, 3) THEN {Found(p, p - repeat, 3, TRUE)} ELSE {}

Tables == lt \cup st

FirstMatches ==
  MatchesAt(Tables, at)
  \cup IF repeat > at THEN {}
       ELSE RepeatsAt(at) \cup IF at < SLimit THEN RepeatsAt(at + 1) ELSE {}

\* Only looked for when there is a match.
LaterMatches ==
  (IF at + 1 + 8 <= N THEN MatchesAt(Tables, at + 1) ELSE {})
  \cup (IF at + 2 + 8 <= N THEN MatchesAt(Tables, at + 2) \cup RepeatsAt(at + 2) ELSE {})

\* A match whose other end was met in a table.
EndMatches(m) ==
  IF m.s + m.len - 1 < SLimit /\ m.len > 3 /\ m.s + 9 <= N /\ m.s + m.len + 7 <= N
  THEN MatchesAt({p - (m.len - 2) : p \in {q \in Tables : q >= m.len - 2}}, m.s + 1)
  ELSE {}

\* Which of the matches scores best is left open.
Candidates ==
  LET early == FirstMatches
      all == early \cup LaterMatches
  IN IF early = {} THEN {} ELSE all \cup UNION {EndMatches(m) : m \in all}

\* A repeat or the chosen match, with the literals in front of it.
BytesL3(lits, m) == IF m.rep THEN EmitLiteral(lits) \o EmitRepeat(m.len)
                    ELSE MatchL3(lits, m.off, m.len)

TakeMatchL3(m) ==
  LET lits == Bytes(NextEmit, m.s)
      bytes == BytesL3(lits, m)
      end == m.s + (IF m.rep THEN m.len ELSE LenL3(lits, m.off, m.len))
  IN IF OverLimit(Len(lits)) THEN Abandon
     ELSE IF /\ ~m.rep /\ m.len <= 4
             /\ \/ m.off > FarOffset
                \/ m.off \in (MaxCopy1Offset + 1)..MaxCopy2Offset /\ Len(lits) > MaxCopy2Lits
     THEN LookAt(at + 2) /\ Store({at}, {at})
     ELSE /\ Wrote(bytes, end, m.off, IF Len(body) + Len(bytes) > DstLimit THEN "raw" ELSE "search")
          /\ Store({at} \cup (at + 1)..(end - 1), {at} \cup (at + 1)..(end - 1))

MatchStepL3 == Searching(3, NextL3) /\ \E m \in Candidates : TakeMatchL3(m)

SkipL3 ==
  /\ Searching(3, NextL3)
  /\ repeat <= at => RepeatsAt(at) = {} /\ (at < SLimit => RepeatsAt(at + 1) = {})
  /\ LookAt(NextL3)
  /\ Store({at}, {at})

----------------------------------------------------------------------------
(* The end of the block *)

SearchEnds ==
  /\ pc = "search"
  /\ (CASE lvl = 1 -> NextL1 [] lvl = 2 -> NextL2 [] lvl = 3 -> NextL3) > SLimit
  /\ Leave("rest")

\* emitRemainder and try_encode: a block that was not given up is kept.
EmitRemainder ==
  LET rest == Bytes(NextEmit, N)
      head == IF lvl = 3 THEN EmitLiteralSizeN(Len(rest)) ELSE 0
  IN /\ pc = "rest"
     /\ UNCHANGED <<searchVars>>
     /\ IF rest # <<>> /\ OverLimit(Len(rest) + head)
        THEN /\ pc' = "raw"
             /\ UNCHANGED <<data, body, repeat, ops, intact, decVars>>
        ELSE /\ data' = src
             /\ intact' = TRUE
             /\ Opened(body \o EmitLiteral(rest), N)

----------------------------------------------------------------------------
SearchInit ==
  \/ /\ Init
     /\ src = <<>> /\ lvl = 0 /\ at = 0 /\ lt = {} /\ st = {}
  \/ /\ src \in Sources /\ lvl \in 1..3
     /\ at = 1 /\ lt = {0} /\ st = {0}
     /\ pc = "search" /\ probe = NoProbe
     /\ data = <<>> /\ body = <<>> /\ repeat = 1 /\ ops = 0 /\ intact = FALSE
     /\ dlen = 0 /\ s = 0 /\ d = 0 /\ offset = 1 /\ dst = <<>> /\ res = "none"
     /\ reach = 0 /\ wrote = 0

SearchL1 == RepeatL1 \/ (\E k \in 0..2 : MatchStepL1(at + k)) \/ SkipL1 \/ AgainL1
SearchL2 == RepeatL2 \/ LongL2 \/ ShortL2 \/ SkipL2
SearchL3 == MatchStepL3 \/ SkipL3

SearchNext == \/ SearchL1 \/ SearchL2 \/ SearchL3 \/ SearchEnds \/ EmitRemainder
              \/ Next /\ UNCHANGED searchVars

SearchSpec == SearchInit /\ [][SearchNext]_svars

----------------------------------------------------------------------------
(* What makes the search correct. *)

\* No load leaves its buffer: in the decoder, nor of the eight bytes at the
\* search position or at a position a table may give back.
Within == /\ InBounds
          /\ pc = "search" => at + 8 <= N
          /\ \A p \in lt \cup st : p + 8 <= N

\* What levels 1 and 2 write, as EncodeBudget counts it; sizes depend on an
\* offset only by its class.
Counted == lvl \in {1, 2}
SourceLens == {Len(x) : x \in Sources}

Budget == INSTANCE EncodeBudget WITH
            Sizes <- SourceLens, Widths <- Spans, LitLens <- 0..Max(SourceLens),
            Offsets <- {1, MinCopy2Offset},
            n <- N, ne <- NextEmit, d <- Len(body),
            pc <- IF pc \in {"search", "again", "rest"} THEN pc ELSE "out"

\* Levels 1 and 2 implement EncodeBudget, so that what holds there for every
\* length of a block holds for them: nothing is emitted that it does not count,
\* nor without the comparison it makes first.
KeepsBudget == /\ Counted => Budget!Init
               /\ [][Counted => [Budget!Next]_(Budget!vars)]_svars
=============================================================================
