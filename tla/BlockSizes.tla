----------------------------- MODULE BlockSizes -----------------------------
(* The limits of the block format, crates/minlz/src/block/format.rs, and how *)
(* many bytes each operation takes, emit.rs.                                 *)
EXTENDS Integers

Larger(a, b) == IF a > b THEN a ELSE b

MaxCopy1Offset == 1024
MinCopy2Offset == 64
MaxCopy2Offset == MinCopy2Offset + 65535
MinCopy3Offset == 65536
MaxCopy2Lits == 4
MaxCopy3Lits == 3
MaxCopy3Offset == 2 * 1048576 + 65535
MaxBlockSize == 8388608
InputMargin == 8
OvershootPad == 16
MinNonLiteral == 16

\* The bytes of a block's length as a varint.
UvarintLen(n) == IF n < 128 THEN 1 ELSE IF n < 16384 THEN 2
                 ELSE IF n < 2097152 THEN 3 ELSE 4

\* What the encoders get to write a block of n bytes into, behind its length;
\* the stream's chunks have no marker byte in front and a byte more.
MaxEncodedLen(n) == n + 2
BodyRoom(n) == MaxEncodedLen(n) - 1 - UvarintLen(n)

\* The header in front of n literals.
LiteralHeadSize(n) ==
  IF n = 0 THEN 0 ELSE IF n <= 29 THEN 1 ELSE IF n <= 284 THEN 2
  ELSE IF n <= 65565 THEN 3 ELSE 4

\* What level 3 takes it for.
EmitLiteralSizeN(n) ==
  IF n = 0 THEN 0 ELSE IF n <= 29 THEN 1 ELSE IF n < 29 + 256 THEN 2
  ELSE IF n < 29 + 65536 THEN 3 ELSE 4

EmitRepeatSize(len) ==
  IF len <= 29 THEN 1 ELSE IF len - 29 <= 256 THEN 2
  ELSE IF len - 29 <= 65536 THEN 3 ELSE 4

EmitCopy2Size(len) ==
  IF len <= 64 THEN 3 ELSE IF len - 64 <= 255 THEN 4
  ELSE IF len - 64 <= 65535 THEN 5 ELSE 6

\* The bytes a number takes.
ByteLen(n) == IF n = 0 THEN 0 ELSE IF n < 256 THEN 1 ELSE IF n < 65536 THEN 2 ELSE 3

EmitCopySize(o, len) ==
  IF o > 65536 + 63 THEN 4 + ByteLen(Larger(len, 64) - 64)
  ELSE IF o > MaxCopy1Offset THEN EmitCopy2Size(len)
  ELSE IF len <= 18 THEN 2 ELSE IF len < 274 THEN 3
  ELSE 2 + EmitRepeatSize(len - 18)

\* A fused Copy2 and the repeat that moves what is beyond eleven bytes; a fused
\* Copy3.  The k literals are counted in.
EmitLits2Size(k, len) == 3 + k + (IF len > 11 THEN EmitRepeatSize(len - 11) ELSE 0)
EmitLits3Size(k, len) == 4 + k + ByteLen(Larger(len, 64) - 64)
=============================================================================
