------------------------- MODULE QuantizedProducts -------------------------
(***************************************************************************)
(* QuantizedMatMul: cpu/ops/quantized_matmul.cpp and                       *)
(* cuda/ops/quantized_matmul.cu.  An element of the result is a sum of     *)
(* terms <<element of a, weight, scale>>: a weight is a byte or half a     *)
(* byte of the packed operand, and every weight is multiplied, itself or   *)
(* in a partial sum, with one scale.                                       *)
(***************************************************************************)
EXTENDS MatMulKernels

CONSTANTS CHUNK,      \* columns accumulated together: 64
          INT4_BLOCK  \* rows of a block of Int4 weights if none are given: 32

ASSUME QuantizedAssumption == {CHUNK, INT4_BLOCK} \subseteq Nat \ {0}

\* Weight (p, j): two rows of Int4 weights lie in a byte, the even one in the lower half.
Weight(b, a, p, j) ==
    IF a.quant_type = "Int4"
    THEN <<Entry(b, p \div 2, j), IF p % 2 = 0 THEN "low" ELSE "high">>
    ELSE <<Entry(b, p, j), "byte">>

BlockRows(a) == IF a.block_size > 0 THEN a.block_size ELSE INT4_BLOCK

\* Blocks of rows that are added up before they are scaled; the rows of block x.
QuantBlocks(k, a) == 0 .. CeilDiv(k, BlockRows(a)) - 1
RowsOf(x, k, a) == x * BlockRows(a) .. Least(k, x * BlockRows(a) + BlockRows(a)) - 1

Blocked(a) == a.quant_type = "Int4" \/ a.block_size > 0

\* quantized_matmul_scalar_reference
QuantizedReference(act, b, a, k, n, i, j) ==
    IF Blocked(a)
    THEN SumOf(UNION {{<<x, p>> : p \in RowsOf(x, k, a)} : x \in QuantBlocks(k, a)},
               LAMBDA z : <<Entry(act, i, z[2]), Weight(b, a, z[2], j), z[1] * n + j>>)
    ELSE SumOf(0 .. k - 1, LAMBDA p : <<Entry(act, i, p), Weight(b, a, p, j), j>>)

\* Column j of a single row: chunks of columns, and for every row of weights the loops over
\* the columns of the chunk that come across j.
DecodeStream(act, b, k, n, j, widths) ==
    LET updates == {x \in Blocks(n, CHUNK) \X (DOMAIN widths) \X (0 .. k - 1) :
                      j - x[1] \in Strips(Least(n - x[1], CHUNK), widths)[x[2]]}
    IN  SumOf(updates, LAMBDA x : <<act.base + x[3], <<b.base + x[3] * b.row + j, "byte">>, j>>)

DecodeStreamAvx2(act, b, k, n, j) == DecodeStream(act, b, k, n, j, <<LANES, 1>>)

\* quantized_matmul_decode_f32 returns true.
DecodeApplies(act, b, a) ==
    a.quant_type = "Int8" /\ a.block_size = 0 /\ act.col = 1 /\ b.col = 1

DecodeRow(act, b, k, n, j, avx2) ==
    IF avx2 THEN DecodeStreamAvx2(act, b, k, n, j) ELSE DecodeStream(act, b, k, n, j, <<1>>)

\* quantized_matmul_2d_f32
Quantized2D(act, b, c, a, m, k, n, i, j, avx2) ==
    IF m = 1 /\ c.col = 1 /\ DecodeApplies(act, b, a) THEN DecodeRow(act, b, k, n, j, avx2)
    ELSE QuantizedReference(act, b, a, k, n, i, j)

CpuQuantizedMatMul(in, y, a, avx2) ==
    LET k == Back(in[1], 0)
        m == Back(in[1], 1)
        n == Dim(in[2], 2)
        b == MatrixAt(in[2], 0)
        single == in[1].dtype = "f32" /\ in[3].dtype = "f32"
        one(bi) ==
            LET coords == BatchCoords(y, bi)
                act == MatrixAt(in[1], BatchOffset(in[1], coords))
                c == MatrixAt(y, BatchOffset(y, coords))
                value(i, j) == IF single THEN Quantized2D(act, b, c, a, m, k, n, i, j, avx2)
                               ELSE QuantizedReference(act, b, a, k, n, i, j)
            IN  {Store(Entry(c, i, j), Caller, value(i, j)) : i \in 0 .. m - 1, j \in 0 .. n - 1}
    IN  UNION {one(bi) : bi \in 0 .. Batches(y) - 1}
-----------------------------------------------------------------------------
(* CUDA: a warp computes an element of a single row, its lanes every       *)
(* WARP-th product; the partial sums are shuffled down to lane 0.          *)
ShuffleDown(partial) ==
    LET fold(s, h) == [t \in DOMAIN s |-> Add2(s[t], IF t + h < WARP THEN s[t + h] ELSE s[t])]
    IN  FoldLeft(fold, partial, Halving(WARP))[0]

\* quantized_gemv_int8_warp_kernel: one scale for a column, blocks or no blocks.
GemvInt8(k, n, w) ==
    LET col == w % n
        row == w \div n
    IN  ShuffleDown([t \in 0 .. WARP - 1 |->
            SumOf(Strided(t, k, WARP), LAMBDA p : <<row * k + p, <<p * n + col, "byte">>, col>>)])

\* quantized_gemv_int4_warp_kernel
GemvInt4(b, a, k, n, w) ==
    LET col == w % n
        row == w \div n
        lane(x, t) == {p \in RowsOf(x, k, a) : (p - x * BlockRows(a)) % WARP = t}
        block(x) == ShuffleDown([t \in 0 .. WARP - 1 |->
                      SumOf(lane(x, t), LAMBDA p : <<row * k + p, Weight(b, a, p, col), x * n + col>>)])
    IN  FoldSet(LAMBDA x, sum : Add2(sum, block(x)), Zero, QuantBlocks(k, a))

\* More rows: all batches are one matrix, in square blocks of threads.
CudaQuantizedMatMul(in, y, a) ==
    LET k == Back(in[1], 0)
        n == Dim(in[2], 2)
        rows == Back(in[1], 1) * Batches(y)
        act == Matrix(0, k, 1)
        b == Matrix(0, n, 1)
    IN  IF Back(in[1], 1) = 1
        THEN {Store(w, <<w>>, IF a.quant_type = "Int4" THEN GemvInt4(b, a, k, n, w) ELSE GemvInt8(k, n, w)) :
                 w \in Guarded(Batches(y) * n, WARPS)}
        ELSE {Store(e[1] * n + e[2], e, QuantizedReference(act, b, a, k, n, e[1], e[2])) :
                 e \in Guarded(rows, BLOCK) \X Guarded(n, BLOCK)}
=============================================================================
