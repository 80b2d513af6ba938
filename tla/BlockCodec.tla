----------------------------- MODULE BlockCodec -----------------------------
(* The block format: the emitters of crates/minlz/src/block/emit.rs, the     *)
(* choices the three encoders make among them, and the decoder of decode.rs  *)
(* with its two loops, byte by byte.                                         *)
(*                                                                           *)
(* What the encoders search for is left open: a literal or a match of any    *)
(* offset and length the data so far allows.  The data is defined by those   *)
(* choices, so that every match is one.  A body may be damaged before it is  *)
(* decoded.                                                                  *)
EXTENDS BlockSizes, Sequences

CONSTANTS MaxOps,      \* bound: matches in a block
          LitLens,     \* lengths of literals
          Offsets,     \* offsets of matches
          Lengths,     \* lengths of matches
          Damages,     \* what may happen to a body
          Probes       \* literals and copies whose layout alone is looked at

ASSUME BlockAssumption == MaxOps \in Nat /\ LitLens \subseteq Nat

VARIABLES
  data, body, repeat,  \* the encoder: what it has read and written, last offset
  ops,                 \* matches emitted
  intact,              \* body and dlen are as encoded
  pc, dlen, s, d, offset,   \* the decoder
  dst,                 \* its buffer, dlen and OVERSHOOT_PAD bytes, -1 if not set
  res,                 \* "none", "ok" or "corrupt"
  reach, wrote,        \* ends of all reads from the body and writes to dst
  probe

vars == <<data, body, repeat, ops, intact, pc, dlen, s, d, offset, dst, res,
          reach, wrote, probe>>
encVars == <<data, body, repeat, ops>>

\* v as k bytes, the lowest first; what does not fit is lost.
Le(k, v) == [i \in 1..k |-> (v \div 256^(i - 1)) % 256]

----------------------------------------------------------------------------
(* emit.rs *)

\* Fault: one length too many has its header in two bytes.
LiteralHeadShort(n) ==
  LET m == n - 1
  IN CASE n = 0 -> <<>>
       [] n # 0 /\ m <= 28 -> <<8 * m>>
       [] m \in 29..285 -> <<8 * 29>> \o Le(1, m - 29)
       [] m \in 286..65564 -> <<8 * 30>> \o Le(2, m - 29)
       [] m > 65564 -> <<8 * 31>> \o Le(3, m - 29)

\* The header emit_literal puts in front of n literals.
LiteralHead(n) ==
  LET m == n - 1
  IN CASE n = 0 -> <<>>
       [] n # 0 /\ m <= 28 -> <<8 * m>>
       [] m \in 29..283 -> <<8 * 29>> \o Le(1, m - 29)
       [] m \in 284..65564 -> <<8 * 30>> \o Le(2, m - 29)
       [] m > 65564 -> <<8 * 31>> \o Le(3, m - 29)

EmitLiteral(lits) == LiteralHead(Len(lits)) \o lits

EmitRepeat(len) ==
  LET n == len - 30
  IN CASE len < 30 -> <<8 * (len - 1) + 4>>
       [] n \in 0..255 -> <<8 * 29 + 4>> \o Le(1, n)
       [] n \in 256..65535 -> <<8 * 30 + 4>> \o Le(2, n)
       [] n > 65535 -> <<8 * 31 + 4>> \o Le(3, n)

\* The length field of Copy2 and Copy3, and the bytes that follow the head.
LenField(len) == LET n == len - 64
                 IN IF n <= 0 THEN len - 4 ELSE IF n < 256 THEN 61
                    ELSE IF n < 65536 THEN 62 ELSE 63
LenBytes(len) == LET f == LenField(len) IN IF f <= 60 THEN <<>> ELSE Le(f - 60, len - 64)

EncodeCopy2(o, len) ==
  <<4 * LenField(len) + 2>> \o Le(2, o - MinCopy2Offset) \o LenBytes(len)

\* 3 bits of tag, 2 of literals, 6 of length and 21 of offset.
EncodeCopy3(o, len, k) ==
  LET off == o - MinCopy3Offset
  IN Le(2, 7 + 8 * k + 32 * LenField(len) + 2048 * (off % 32)) \o Le(2, off \div 32)
     \o LenBytes(len)

Copy1Head(o, f) == Le(2, 64 * (o - 1) + 4 * f + 1)

EmitCopy(o, len) ==
  CASE o > MaxCopy2Offset -> EncodeCopy3(o, len, 0)
    [] o \in (MaxCopy1Offset + 1)..MaxCopy2Offset -> EncodeCopy2(o, len)
    [] o <= MaxCopy1Offset /\ len < 19 -> Copy1Head(o, len - 4)
    [] o <= MaxCopy1Offset /\ len \in 19..273 -> Copy1Head(o, 15) \o Le(1, len - 18)
    [] o <= MaxCopy1Offset /\ len > 273 -> Copy1Head(o, 14) \o EmitRepeat(len - 18)

\* Fault: the repeat is as long as if the fused copy had moved seven bytes.
EmitCopyLits2Rest(lits, o, len) ==
  LET fused == IF len > 11 THEN 7 ELSE len - 4
  IN <<3 + 8 * (Len(lits) - 1) + 32 * fused>> \o Le(2, o - MinCopy2Offset) \o lits
     \o IF len > 11 THEN EmitRepeat(len - 7) ELSE <<>>

\* A fused Copy2 moves eleven bytes at most; a repeat moves the others.
EmitCopyLits2(lits, o, len) ==
  LET fused == IF len > 11 THEN 7 ELSE len - 4
  IN <<3 + 8 * (Len(lits) - 1) + 32 * fused>> \o Le(2, o - MinCopy2Offset) \o lits
     \o IF len > 11 THEN EmitRepeat(len - 11) ELSE <<>>

EmitCopyLits3(lits, o, len) == EncodeCopy3(o, len, Len(lits)) \o lits

----------------------------------------------------------------------------
(* What the encoders write for a match behind literals that wait. *)

Split(lits, o, len) == EmitLiteral(lits) \o EmitCopy(o, len)

\* encode_l1: blocks above 64 KiB fuse three literals at most, the others four.
MatchL1(max, lits, o, len) ==
  IF lits = <<>> THEN EmitCopy(o, len)
  ELSE IF Len(lits) > max \/ o < MinCopy2Offset THEN Split(lits, o, len)
  ELSE IF o <= MaxCopy2Offset THEN EmitCopyLits2(lits, o, len)
  ELSE EmitCopyLits3(lits, o, len)

\* encode_l2.
MatchL2(lits, o, len) ==
  IF lits = <<>> THEN EmitCopy(o, len)
  ELSE IF o <= MaxCopy2Offset
  THEN IF Len(lits) > MaxCopy2Lits \/ o < MinCopy2Offset THEN Split(lits, o, len)
       ELSE EmitCopyLits2(lits, o, len)
  ELSE IF Len(lits) > MaxCopy3Lits THEN Split(lits, o, len)
  ELSE EmitCopyLits3(lits, o, len)

\* encode_l3 prefers Copy2 to a Copy1 in need of a length byte, and leaves the
\* rest of a fused match that is too long to the next one.
CopyL3(o, len) ==
  IF len \in 19..64 /\ o \in MinCopy2Offset..MaxCopy2Offset
  THEN EncodeCopy2(o, len) ELSE EmitCopy(o, len)

SplitL3(lits, o, len) == \/ Len(lits) > MaxCopy2Lits
                         \/ o < MinCopy2Offset
                         \/ o <= MaxCopy1Offset /\ len > 11

LenL3(lits, o, len) ==
  IF lits # <<>> /\ o <= MaxCopy2Offset /\ ~SplitL3(lits, o, len) /\ len > 11
  THEN 11 ELSE len

MatchL3(lits, o, len) ==
  IF lits = <<>> THEN CopyL3(o, len)
  ELSE IF o <= MaxCopy2Offset
  THEN IF SplitL3(lits, o, len) THEN EmitLiteral(lits) \o CopyL3(o, len)
       ELSE EmitCopyLits2(lits, o, LenL3(lits, o, len))
  ELSE IF Len(lits) > MaxCopy3Lits THEN Split(lits, o, len)
  ELSE EmitCopyLits3(lits, o, len)

----------------------------------------------------------------------------
(* The encoder *)

\* k bytes the data has not seen.
Fresh(k) == [i \in 1..k |-> (37 * (Len(data) + i)) % 251]

\* x and len bytes that repeat what lies o before its end.
Matched(x, o, len) == x \o [i \in 1..len |-> x[Len(x) - o + 1 + ((i - 1) % o)]]

Emit(bytes, x, o) ==
  /\ pc = "encode"
  /\ ops < MaxOps
  /\ body' = body \o bytes
  /\ data' = x
  /\ repeat' = o
  /\ ops' = ops + 1
  /\ UNCHANGED <<intact, pc, dlen, s, d, offset, dst, res, reach, wrote, probe>>

EmitMatch(k, o, len) ==
  LET lits == Fresh(k)
      x == data \o lits
  IN /\ o <= Len(x)
     /\ \/ \E max \in {MaxCopy3Lits, MaxCopy2Lits} :
             Emit(MatchL1(max, lits, o, len), Matched(x, o, len), o)
        \/ Emit(MatchL2(lits, o, len), Matched(x, o, len), o)
        \/ Emit(MatchL3(lits, o, len), Matched(x, o, LenL3(lits, o, len)), o)

\* A match at the last offset, which begins as 1.
EmitRepeatMatch(k, len) ==
  LET x == data \o Fresh(k)
  IN /\ repeat <= Len(x)
     /\ Emit(EmitLiteral(Fresh(k)) \o EmitRepeat(len), Matched(x, repeat, len), repeat)

\* The body is kept if the block is not too short and that saves a byte.
Worthwhile(b, n) == n >= MinNonLiteral /\ UvarintLen(n) + Len(b) < n

\* split_chunk_body and the start of minlz_decode.
Opened(b, n) ==
  LET ok == n > 0 /\ Len(b) <= n
  IN /\ body' = b
     /\ dlen' = n
     /\ pc' = IF ok THEN "loop" ELSE "done"
     /\ res' = IF ok THEN "none" ELSE "corrupt"
     /\ dst' = [i \in 0..(n + OvershootPad - 1) |-> -1]
     /\ UNCHANGED <<repeat, ops, s, d, offset, reach, wrote, probe>>

\* emitRemainder.
Remainder(k) == body \o EmitLiteral(Fresh(k))

Finish(k) ==
  /\ pc = "encode"
  /\ Worthwhile(Remainder(k), Len(data) + k)
  /\ data' = data \o Fresh(k)
  /\ intact' = TRUE
  /\ Opened(Remainder(k), Len(data) + k)

\* Otherwise the caller is told to store the data as it is.  The encoder may
\* come to that by itself, when a body outgrows its limit on the way.
GiveUp ==
  /\ pc = "encode"
  /\ pc' = "raw"
  /\ UNCHANGED <<encVars, intact, dlen, s, d, offset, dst, res, reach, wrote, probe>>

\* The body is cut, has a byte changed, or comes with another length.
Damaged(b, n, x) ==
  CASE x.kind = "cut" -> Opened(SubSeq(b, 1, Larger(Len(b) - x.n, 0)), n)
    [] x.kind = "byte" -> Opened([i \in 1..Len(b) |-> IF i = x.at THEN x.n ELSE b[i]], n)
    [] x.kind = "len" -> Opened(b, Larger(n + x.n, 0))

FinishDamaged(k, x) ==
  /\ pc = "encode"
  /\ Worthwhile(Remainder(k), Len(data) + k)
  /\ data' = data \o Fresh(k)
  /\ intact' = FALSE
  /\ Damaged(Remainder(k), Len(data) + k, x)

----------------------------------------------------------------------------
(* The decoder: one operation's head, as each of the two loops reads it *)

At(i) == IF i < Len(body) THEN body[i + 1] ELSE 0
U16(i) == At(i) + 256 * At(i + 1)
U24(i) == U16(i) + 65536 * At(i + 2)
Bit(v, n) == (v \div 2^n) % 2
Bits(v, n, k) == (v \div 2^n) % 2^k

\* Where the head ends, what the operation is, and how far was read.
Op(to, lits, o, len, far) == [to |-> to, lits |-> lits, off |-> o, len |-> len, far |-> far]

\* The fast loop: an extended length of x - top + 1 bytes at i, base behind it.
FastExt(i, x, top, base) ==
  CASE x = top -> At(i) + base
    [] x = top + 1 -> U16(i) + base
    [] x = top + 2 -> U24(i) + base

FastLit(at) ==
  LET x == At(at) \div 8
  IN IF x < 29 THEN Op(at + 1, -1, offset, x + 1, at + 1)
     ELSE LET to == at + x - 27 IN Op(to, -1, offset, FastExt(at + 1, x, 29, 30), to)

FastCopy1(at) ==
  LET f == Bits(U16(at), 2, 4)
      o == U16(at) \div 64 + 1
  IN IF f = 15 THEN Op(at + 3, 0, o, At(at + 2) + 18, at + 3)
     ELSE Op(at + 2, 0, o, f + 4, at + 2)

FastCopy2(at) ==
  LET f == At(at) \div 4
      o == U16(at + 1) + MinCopy2Offset
  IN IF f <= 60 THEN Op(at + 3, 0, o, f + 4, at + 3)
     ELSE LET to == at + f - 57 IN Op(to, 0, o, FastExt(at + 3, f, 61, 64), to)

\* Fault: the count of fused literals is taken as it is.
FastFusedCount(at) ==
  Op(at + 3, Bits(At(at), 3, 2), U16(at + 1) + MinCopy2Offset, Bits(At(at), 5, 3) + 4, at + 4)

\* All four bytes are loaded though the fourth is a literal.
FastFused(at) ==
  Op(at + 3, Bits(At(at), 3, 2) + 1, U16(at + 1) + MinCopy2Offset, Bits(At(at), 5, 3) + 4,
     at + 4)

FastCopy3(at) ==
  LET f == Bits(U16(at), 5, 6)
      o == U16(at) \div 2048 + 32 * U16(at + 2) + MinCopy3Offset
      k == Bits(At(at), 3, 2)
  IN IF f <= 60 THEN Op(at + 4, k, o, f + 4, at + 4)
     ELSE LET to == at + f - 56 IN Op(to, k, o, FastExt(at + 4, f, 61, 64), to)

\* lits is -1 for a literal, whose bytes follow, and 0 or more for a copy.
\* A repeat is a copy at the offset of the last one.
FastHead(at) ==
  CASE At(at) % 4 = 0 -> IF Bit(At(at), 2) = 0 THEN FastLit(at)
                         ELSE [FastLit(at) EXCEPT !.lits = 0]
    [] At(at) % 4 = 1 -> FastCopy1(at)
    [] At(at) % 4 = 2 -> FastCopy2(at)
    [] At(at) % 4 = 3 -> IF Bit(At(at), 2) = 0 THEN FastFused(at) ELSE FastCopy3(at)

\* The tail loop moves first, gives up beyond the end and then looks back.
\* Operations that do not fit have no head.
Cut == Op(0, 0, 0, 0, -1)
Fits(to, op) == IF to > Len(body) THEN Cut ELSE op
Back(to, k) == CASE k = 1 -> At(to - 1) [] k = 2 -> U16(to - 2) [] k = 3 -> U24(to - 3)

TailLit(at, k, o) ==
  LET x == At(at) \div 8
      to == at + 1 + Larger(x - 28, 0)
  IN Fits(to, Op(to, k, o, IF x < 29 THEN x + 1 ELSE Back(to, x - 28) + 30, to))

TailCopy1(at) ==
  LET f == Bits(At(at), 2, 4)
      to == IF f = 15 THEN at + 3 ELSE at + 2
  IN Fits(to, Op(to, 0, U16(at) \div 64 + 1, IF f = 15 THEN At(to - 1) + 18 ELSE f + 4, to))

TailCopy2(at) ==
  LET f == At(at) \div 4
      to == at + 3 + Larger(f - 60, 0)
  IN Fits(to, Op(to, 0, U16(at + 1) + MinCopy2Offset,
                 IF f <= 60 THEN f + 4 ELSE Back(to, f - 60) + 64, to))

\* The fourth byte must be there, and is given back.
TailFused(at) ==
  Fits(at + 4, Op(at + 3, Bits(At(at), 3, 2) + 1, U16(at + 1) + MinCopy2Offset,
                  Bits(At(at), 5, 3) + 4, at + 4))

TailCopy3(at) ==
  LET f == Bits(U16(at), 5, 6)
      to == at + 4 + Larger(f - 60, 0)
  IN Fits(to, Op(to, Bits(At(at), 3, 2),
                 U16(at) \div 2048 + 32 * U16(at + 2) + MinCopy3Offset,
                 IF f <= 60 THEN f + 4 ELSE Back(to, f - 60) + 64, to))

TailHead(at, o) ==
  CASE At(at) % 4 = 0 -> TailLit(at, IF Bit(At(at), 2) = 0 THEN -1 ELSE 0, o)
    [] At(at) % 4 = 1 -> TailCopy1(at)
    [] At(at) % 4 = 2 -> TailCopy2(at)
    [] At(at) % 4 = 3 -> IF Bit(At(at), 2) = 0 THEN TailFused(at) ELSE TailCopy3(at)

----------------------------------------------------------------------------
(* The decoder: carrying an operation out *)

\* n bytes of the body, from at on, to place i of the buffer b.
FromBody(b, i, at, n) == [j \in DOMAIN b |-> IF j \in i..(i + n - 1) THEN At(at + j - i) ELSE b[j]]

\* n bytes of the buffer as it is, from i - o to i.
Block(b, i, o, n) == [j \in DOMAIN b |-> IF j \in i..(i + n - 1) THEN b[j - o] ELSE b[j]]

\* forward_copy_ptr: a byte at a time, bytes just written included.
Forward(b, i, o, n) ==
  LET cell[k \in 0..(n - 1)] == IF k < o THEN b[i - o + k] ELSE cell[k - o]
  IN [j \in DOMAIN b |-> IF j \in i..(i + n - 1) THEN cell[j - i] ELSE b[j]]

\* Fault: sixteen bytes are moved wherever the literals lie.
ShortAlways(n, at) == n <= 16

\* copy_short_literal moves sixteen bytes if the body has them.
Short(n, at) == n <= 16 /\ at + 16 <= Len(body)

FastLimit == Len(body) - 16
InFast == pc = "loop" /\ s <= FastLimit
InTail == pc = "loop" /\ s > FastLimit /\ s < Len(body)

Corrupt == /\ res' = "corrupt"
           /\ pc' = "done"
           /\ UNCHANGED <<encVars, intact, dlen, s, d, offset, dst, wrote, probe>>

Moved(b, s1, d1, o, w) ==
  /\ dst' = b /\ s' = s1 /\ d' = d1 /\ offset' = o
  /\ wrote' = Larger(wrote, w)
  /\ UNCHANGED <<encVars, intact, pc, dlen, res, probe>>

FastLiteral ==
  LET h == FastHead(s)
      n == IF Short(h.len, h.to) THEN 16 ELSE h.len
  IN /\ InFast /\ h.lits = -1
     /\ \/ /\ h.len > dlen - d \/ h.len > Len(body) - h.to
           /\ Corrupt
           /\ reach' = Larger(reach, h.far)
        \/ /\ h.len <= dlen - d /\ h.len <= Len(body) - h.to
           /\ Moved(FromBody(dst, d, h.to, n), h.to + h.len, d + h.len, offset, d + n)
           /\ reach' = Larger(reach, h.to + n)

\* Fused literals are moved as four bytes; a copy of up to sixteen bytes from
\* as far away is moved as sixteen.
FastCopy ==
  LET h == FastHead(s)
      k == h.lits
      b == IF k > 0 THEN FromBody(dst, d, h.to, 4) ELSE dst
      i == d + k
      n == IF h.len <= 16 /\ h.off >= 16 THEN 16 ELSE h.len
  IN /\ InFast /\ k >= 0
     /\ reach' = Larger(reach, IF k > 0 /\ dlen - d >= 4 THEN h.to + 4 ELSE h.far)
     /\ \/ /\ k > 0 /\ dlen - d < 4
           /\ Corrupt
        \/ /\ k > 0 => dlen - d >= 4
           /\ i < h.off \/ h.len > dlen - i
           /\ Corrupt
        \/ /\ k > 0 => dlen - d >= 4
           /\ i >= h.off /\ h.len <= dlen - i
           /\ IF h.off > h.len
              THEN Moved(Block(b, i, h.off, n), h.to + k, i + h.len, h.off, i + n)
              ELSE Moved(Forward(b, i, h.off, h.len), h.to + k, i + h.len, h.off, i + h.len)

\* What the tail loop makes of a place: literals and the copy, each as long as
\* they are, or nothing.
TailFails(h, d1) ==
  LET k == IF h.lits = -1 THEN h.len ELSE h.lits
      i == d1 + k
  IN \/ h.far = -1
     \/ k > dlen - d1 \/ h.to + k > Len(body)
     \/ h.lits >= 0 /\ (i < h.off \/ h.len > dlen - i)

TailMoved(b, h, d1) ==
  IF h.lits = -1 THEN FromBody(b, d1, h.to, h.len)
  ELSE LET c == FromBody(b, d1, h.to, h.lits)
           i == d1 + h.lits
       IN IF h.off > h.len THEN Block(c, i, h.off, h.len) ELSE Forward(c, i, h.off, h.len)

TailTo(h) == h.to + IF h.lits = -1 THEN h.len ELSE h.lits
TailD(h, d1) == d1 + h.len + Larger(h.lits, 0)

TailStep ==
  LET h == TailHead(s, offset)
  IN /\ InTail
     /\ \/ /\ TailFails(h, d)
           /\ Corrupt
           /\ reach' = Larger(reach, h.far)
        \/ /\ ~TailFails(h, d)
           /\ Moved(TailMoved(dst, h, d), TailTo(h), TailD(h, d), h.off, TailD(h, d))
           /\ reach' = Larger(reach, TailTo(h))

\* The body is used up: the output must be complete.
Finished ==
  /\ pc = "loop" /\ s >= Len(body)
  /\ pc' = "done"
  /\ res' = IF d = dlen THEN "ok" ELSE "corrupt"
  /\ UNCHANGED <<encVars, intact, dlen, s, d, offset, dst, reach, wrote, probe>>

----------------------------------------------------------------------------
NoProbe == [kind |-> "none", k |-> 0, off |-> 0, len |-> 0]
Zeros(k) == [i \in 1..k |-> 0]

\* The bytes of a single operation.
Probed(p) ==
  CASE p.kind = "none" -> <<>>
    [] p.kind = "literal" -> LiteralHead(p.len)
    [] p.kind = "repeat" -> EmitRepeat(p.len)
    [] p.kind = "copy" -> EmitCopy(p.off, p.len)
    [] p.kind = "copy2" -> EncodeCopy2(p.off, p.len)
    [] p.kind = "lits2" -> EmitCopyLits2(Zeros(p.k), p.off, p.len)
    [] p.kind = "lits3" -> EmitCopyLits3(Zeros(p.k), p.off, p.len)

Init ==
  /\ \/ probe = NoProbe /\ pc = "encode"
     \/ probe \in Probes /\ pc = "probe"
  /\ data = <<>> /\ body = Probed(probe) /\ repeat = 1 /\ ops = 0 /\ intact = FALSE
  /\ dlen = 0 /\ s = 0 /\ d = 0 /\ offset = 1 /\ dst = <<>> /\ res = "none"
  /\ reach = 0 /\ wrote = 0

Encode == \/ \E k \in LitLens, o \in Offsets, len \in Lengths : EmitMatch(k, o, len)
          \/ \E k \in LitLens, len \in Lengths : EmitRepeatMatch(k, len)
          \/ \E k \in LitLens : Finish(k)
          \/ GiveUp
          \/ \E k \in LitLens, x \in Damages : FinishDamaged(k, x)

Decode == FastLiteral \/ FastCopy \/ TailStep \/ Finished

Ended == pc \in {"done", "raw", "probe"} /\ UNCHANGED vars

Next == Encode \/ Decode \/ Ended

Spec == Init /\ [][Next]_vars
----------------------------------------------------------------------------
(* What makes the codec correct. *)

\* What the encoders keep, the decoder accepts and turns back into the data,
\* whichever of the emitters were used and wherever the two loops meet.
BlockRoundTrip ==
  pc = "done" /\ intact => res = "ok" /\ \A i \in 1..Len(data) : dst[i - 1] = data[i]

\* The whole body decoded by the tail loop alone, an operation at a time.
TailOnly ==
  LET start == [s |-> 0, d |-> 0, off |-> 1, res |-> "none",
                dst |-> [i \in 0..(dlen + OvershootPad - 1) |-> -1]]
      run[n \in 0..Len(body)] ==
        IF n = 0 THEN start
        ELSE LET x == run[n - 1]
                 h == TailHead(x.s, x.off)
             IN IF x.res # "none" \/ x.s >= Len(body) THEN x
                ELSE IF TailFails(h, x.d) THEN [x EXCEPT !.res = "corrupt"]
                ELSE [s |-> TailTo(h), d |-> TailD(h, x.d), off |-> h.off, res |-> "none",
                      dst |-> TailMoved(x.dst, h, x.d)]
  IN run[Len(body)]

\* The fast loop is only faster: on a damaged body too, the verdict and the
\* bytes are those of the tail loop, whatever was moved beyond an operation's
\* end on the way.
LoopsAgree ==
  pc = "done" /\ dlen > 0 /\ Len(body) <= dlen =>
    LET t == TailOnly
    IN /\ res = IF t.res = "none" /\ t.d = dlen THEN "ok" ELSE "corrupt"
       /\ res = "ok" => \A i \in 0..(dlen - 1) : dst[i] = t.dst[i] /\ dst[i] # -1

\* Whatever the body holds, nothing is read behind its end or written behind the
\* padding, and the differences dlen - d and src_len - s do not wrap.
InBounds ==
  /\ reach <= Len(body)
  /\ pc \in {"loop", "done"} => wrote <= dlen + OvershootPad
  /\ s <= Len(body)
  /\ d <= dlen

\* The operations in front of the place at: none, one, or a copy and its repeat.
HeadFits(h, p) ==
  /\ h.lits = IF p.kind = "literal" THEN -1 ELSE IF p.kind \in {"lits2", "lits3"} THEN p.k ELSE 0
  /\ p.kind \notin {"literal", "repeat"} => h.off = p.off
  /\ LET to == h.to + Larger(h.lits, 0)
         r == TailHead(to, h.off)
     IN IF to = Len(body) THEN h.len = p.len
        ELSE /\ r.lits = 0 /\ r.off = h.off /\ r.to = Len(body)
             /\ h.len + r.len = p.len

\* At every boundary of the format, up to the largest block: an operation is
\* read by both loops as it was written.  Copies and repeats take the bytes that
\* emit_copy_size, emit_copy2_size and emit_repeat_size say, and the header of
\* literals those emit_literal_size_n says, with one exception: for 65,565
\* literals it says one more than emit_literal writes.
LayoutExact ==
  pc = "probe" =>
    /\ HeadFits(FastHead(0), probe)
    /\ HeadFits(TailHead(0, offset), probe)
    /\ probe.kind = "copy" => Len(body) = EmitCopySize(probe.off, probe.len)
    /\ probe.kind = "repeat" => Len(body) = EmitRepeatSize(probe.len)
    /\ probe.kind = "copy2" => Len(body) = EmitCopy2Size(probe.len)
    /\ probe.kind = "literal" => Len(body) = EmitLiteralSizeN(probe.len)
                                             - (IF probe.len = 65565 THEN 1 ELSE 0)
=============================================================================
