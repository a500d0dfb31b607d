---------------------------- MODULE Quantisation ----------------------------
(***************************************************************************)
(* Weights stored as Int8 or Int4: src/quant.cpp.  A weight is an integer  *)
(* and a scale the fraction num / den, so that rounding is exact; the      *)
(* rounding of floating point, the statistics of compute_quantization_     *)
(* metrics and the copy to a device are left out.  Sources of a type other *)
(* than f32 are converted first and are left out too.                      *)
(***************************************************************************)
EXTENDS Tensors

CONSTANT Weights \* the matrices that are stored: [rows, cols, at], at a function of <<r, c>>

ASSUME WeightsAssumption ==
    \A w \in Weights : /\ {w.rows, w.cols} \subseteq Nat \ {0}
                       /\ w.at \in [(0 .. w.rows - 1) \X (0 .. w.cols - 1) -> Int]

VARIABLES stored,  \* what quantize_storage_* has returned for a source
          restored \* the weights dequantize_weights_* makes of it

Magnitude(x) == IF x < 0 THEN -x ELSE x

\* std::round of x / y: to the nearest integer, halves away from zero.
Rounded(x, y) == IF x >= 0 THEN (2 * x + y) \div (2 * y) ELSE -((2 * (-x) + y) \div (2 * y))
Clamp(x, low, high) == Greatest(low, Least(high, x))

\* The largest magnitude among the rows R of column c over the largest level, or one.
ScaleOf(w, R, c, levels) ==
    LET largest == FoldSet(LAMBDA r, m : Greatest(m, Magnitude(w.at[<<r, c>>])), 0, R)
    IN  IF largest > 0 THEN [num |-> largest, den |-> levels] ELSE [num |-> 1, den |-> 1]

Level(x, scale, low, high) == Clamp(Rounded(x * scale.den, scale.num), low, high)

\* quantize_weights_int8_per_channel: a byte for a weight, a scale for a column.
Int8Scale(w, c) == ScaleOf(w, 0 .. w.rows - 1, c, 127)
Int8Bytes(w) ==
    [i \in 0 .. w.rows * w.cols - 1 |->
        Level(w.at[<<i \div w.cols, i % w.cols>>], Int8Scale(w, i % w.cols), -127, 127)]
Int8Scales(w) == [c \in 0 .. w.cols - 1 |-> Int8Scale(w, c)]

\* quantize_weights_int4_block: blocks of rows have a scale of their own, two rows share a byte.
BlockOf(w, x, size) == x * size .. Least(w.rows, x * size + size) - 1
Int4Blocks(w, size) == CeilDiv(w.rows, size)
Int4Scale(w, x, c, size) == ScaleOf(w, BlockOf(w, x, size), c, 7)

Nibble(w, r, c, size) == Level(w.at[<<r, c>>], Int4Scale(w, r \div size, c, size), -8, 7) % 16

\* A block is walked through in pairs of rows; a pair goes to the byte of its first row, and
\* the last pair written there stays.
PairsInto(w, byte, size) ==
    {r \in 0 .. w.rows - 1 : r \div 2 = byte /\ (r % size) % 2 = 0}

\* Faulty: the lower half is cut to three bits, the sign is lost.
PackedUnsigned(w, r, c, size) ==
    LET last == r + 1 = w.rows \/ (r + 1) % size = 0
    IN  (Nibble(w, r, c, size) % 8) + (IF last THEN 0 ELSE 16 * Nibble(w, r + 1, c, size))

Packed(w, r, c, size) ==
    LET last == r + 1 = w.rows \/ (r + 1) % size = 0
    IN  Nibble(w, r, c, size) + (IF last THEN 0 ELSE 16 * Nibble(w, r + 1, c, size))

Int4Bytes(w, size) ==
    [i \in 0 .. CeilDiv(w.rows, 2) * w.cols - 1 |->
        LET pairs == PairsInto(w, i \div w.cols, size)
            r == CHOOSE r \in pairs : \A q \in pairs : q <= r
        IN  IF pairs = {} THEN 0 ELSE Packed(w, r, i % w.cols, size)]

Int4Scales(w, size) ==
    [i \in 0 .. Int4Blocks(w, size) * w.cols - 1 |-> Int4Scale(w, i \div w.cols, i % w.cols, size)]
-----------------------------------------------------------------------------
\* sign_extend_4bit
SignExtended(nibble) == IF nibble >= 8 THEN nibble - 16 ELSE nibble
Lower(byte) == byte % 16
Upper(byte) == (byte \div 16) % 16

\* A restored weight: so many times the scale.
Times(level, scale) == [level |-> level, scale |-> scale]

\* dequantize_weights_int8_per_channel
DequantisedInt8(s) ==
    [e \in (0 .. s.rows - 1) \X (0 .. s.cols - 1) |->
        Times(s.bytes[e[1] * s.cols + e[2]], s.scales[e[2]])]

\* dequantize_weights_int4_block
DequantisedInt4(s) ==
    [e \in (0 .. s.rows - 1) \X (0 .. s.cols - 1) |->
        LET byte == s.bytes[(e[1] \div 2) * s.cols + e[2]]
            nibble == IF (e[1] % s.block) % 2 = 0 THEN Lower(byte) ELSE Upper(byte)
        IN  Times(SignExtended(nibble), s.scales[(e[1] \div s.block) * s.cols + e[2]])]
-----------------------------------------------------------------------------
Nothing == [kind |-> "nothing"]

QuantisationInit == stored = Nothing /\ restored = <<>>

\* quantize_storage_int8
QuantiseInt8(w) ==
    /\ stored = Nothing
    /\ stored' = [kind |-> "Int8", block |-> 0, rows |-> w.rows, cols |-> w.cols,
                  bytes |-> Int8Bytes(w), scales |-> Int8Scales(w), source |-> w.at,
                  weight |-> Tensor(<<w.rows, w.cols>>, "i8"), scale |-> Tensor(<<w.cols>>, "f32")]
    /\ UNCHANGED restored

\* quantize_storage_int4
QuantiseInt4(w, size) ==
    /\ stored = Nothing
    /\ size > 0
    /\ stored' = [kind |-> "Int4", block |-> size, rows |-> w.rows, cols |-> w.cols,
                  bytes |-> Int4Bytes(w, size), scales |-> Int4Scales(w, size), source |-> w.at,
                  weight |-> Tensor(<<CeilDiv(w.rows, 2), w.cols>>, "i8"),
                  scale |-> Tensor(<<Int4Blocks(w, size), w.cols>>, "f32")]
    /\ UNCHANGED restored

Dequantise ==
    /\ stored # Nothing /\ restored = <<>>
    /\ restored' = IF stored.kind = "Int8" THEN DequantisedInt8(stored) ELSE DequantisedInt4(stored)
    /\ UNCHANGED stored

Discard == restored # <<>> /\ stored' = Nothing /\ restored' = <<>>

QuantisationNext(Sizes) ==
    \/ \E w \in Weights : QuantiseInt8(w) \/ \E size \in Sizes : QuantiseInt4(w, size)
    \/ Dequantise
    \/ Discard
=============================================================================
