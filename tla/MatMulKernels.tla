--------------------------- MODULE MatMulKernels ---------------------------
(***************************************************************************)
(* MatMul on the three backends: the blocked, packed and vectorised code   *)
(* of cpu/ops/matmul.cpp with and without AVX2, the column tiles of        *)
(* ispc/ops/matmul.ispc and the cuBLAS calls and the mixed kernel of       *)
(* cuda/ops/matmul.cu.  A computed element is a sum of products: how often *)
(* each pair of an element of a and an element of b is multiplied and      *)
(* added.                                                                  *)
(***************************************************************************)
EXTENDS OpSignatures

CONSTANTS KC, NC, MC,  \* blocks of the packed product: 128, 128, 64
          PANEL,       \* columns of a packed panel: 16
          ROWS,        \* rows computed together: 4
          SMALL_M,     \* rows up to which nothing is packed: 4
          BLOCK_N,     \* columns streamed at a time: 512
          LANES,       \* floats in a vector register: 8
          UNROLL,      \* steps unrolled in a scalar loop: 4
          N_STEP,      \* columns of an ISPC tile: 64
          TileTasks,   \* tasks of an ISPC product: 64
          BLOCK        \* side of a CUDA block of the mixed kernel: 16

ASSUME MatMulAssumption ==
    {KC, NC, MC, PANEL, ROWS, SMALL_M, BLOCK_N, LANES, UNROLL, N_STEP, TileTasks, BLOCK} \subseteq Nat \ {0}

\* A matrix in a buffer, and the index of its element (i, j).
Matrix(base, row, col) == [base |-> base, row |-> row, col |-> col]
Entry(mat, i, j) == mat.base + i * mat.row + j * mat.col

\* The indices 0, w, 2w, ... below n at which a loop over blocks begins.
Blocks(n, w) == {x \in 0 .. n - 1 : x % w = 0}

\* A loop of width w[1] runs while it fits, then one of width w[2], ...: the
\* indices each of them covers.
Strips(n, w) ==
    LET end(u) == IF u = 0 THEN 0 ELSE (n \div w[u]) * w[u]
    IN  [u \in DOMAIN w |-> end(u - 1) .. end(u) - 1]

Vectors == <<4 * LANES, LANES, 1>>
-----------------------------------------------------------------------------
(* matmul.h: every stride is honoured.                                     *)
ScalarReference(a, b, k, i, j) ==
    SumOf(0 .. k - 1, LAMBDA p : <<Entry(a, i, p), Entry(b, p, j)>>)

(* A row of a and a column of b, both without gaps.                        *)
Products(a, b, i, j, P) == SumOf(P, LAMBDA p : <<a.base + i * a.row + p, b.base + j * b.col + p>>)

\* Four sums over every fourth element, then what is left.
DotPortable(a, b, i, j, k) ==
    LET s == Strips(k, <<UNROLL, 1>>)
        sum(u) == Products(a, b, i, j, {p \in s[1] : p % UNROLL = u})
        sums == FoldLeft(Add2, Zero, [u \in 1..UNROLL |-> sum(u - 1)])
    IN  Add2(sums, Products(a, b, i, j, s[2]))

\* Four registers over every fourth vector; single vectors go to the first.
DotAvx2(a, b, i, j, k) ==
    LET s == Strips(k, Vectors)
        acc(u) == Products(a, b, i, j, {p \in s[1] : (p \div LANES) % 4 = u})
        acc0 == Add2(acc(0), Products(a, b, i, j, s[2]))
    IN  Add2(Add2(Add2(acc0, acc(1)), Add2(acc(2), acc(3))), Products(a, b, i, j, s[3]))

(* Few rows: the columns of b stream by, one block of them at a time, and  *)
(* the element is updated once for every row of b and every loop over      *)
(* columns that comes across it.                                           *)
Streamed(a, b, k, n, i, j, widths) ==
    LET updates == {x \in Blocks(n, BLOCK_N) \X (DOMAIN widths) \X (0 .. k - 1) :
                      j - x[1] \in Strips(Least(n - x[1], BLOCK_N), widths)[x[2]]}
    IN  SumOf(updates, LAMBDA x : <<a.base + i * a.row + x[3], b.base + x[3] * b.row + j>>)

SmallStreamAvx2(a, b, m, k, n, i, j) ==
    Streamed(a, b, k, n, i, j, IF m = 1 THEN Vectors ELSE <<LANES, 1>>)

SmallStreamPortable(a, b, k, n, i, j) == Streamed(a, b, k, n, i, j, <<1>>)

\* matmul_small_m_f32: the element, where one of its two paths applies.
SmallPathApplies(a, b) == a.col = 1 /\ (b.col = 1 \/ b.row = 1)

SmallM(a, b, m, k, n, i, j, avx2) ==
    IF b.col = 1 THEN IF avx2 THEN SmallStreamAvx2(a, b, m, k, n, i, j)
                      ELSE SmallStreamPortable(a, b, k, n, i, j)
    ELSE IF avx2 THEN DotAvx2(a, b, i, j, k) ELSE DotPortable(a, b, i, j, k)
-----------------------------------------------------------------------------
(* Many rows: a block of b is copied into panels of PANEL columns, the     *)
(* last one filled up, and multiplied with blocks of rows of a.            *)
Pad == "pad"

\* Faulty: every block of k packs the first rows of b.
PackBFirstRows(b, k0, kLen, n0, nLen) ==
    [q \in 0 .. CeilDiv(nLen, PANEL) * kLen * PANEL - 1 |->
        LET panel == q \div (kLen * PANEL)
            p == (q \div PANEL) % kLen
            col == q % PANEL
        IN  IF col < Least(nLen - panel * PANEL, PANEL)
            THEN b.base + p * b.row + (n0 + panel * PANEL + col) * b.col
            ELSE Pad]

\* Where position q of the packed block comes from.
PackBPanel(b, k0, kLen, n0, nLen) ==
    [q \in 0 .. CeilDiv(nLen, PANEL) * kLen * PANEL - 1 |->
        LET panel == q \div (kLen * PANEL)
            p == (q \div PANEL) % kLen
            col == q % PANEL
        IN  IF col < Least(nLen - panel * PANEL, PANEL)
            THEN b.base + (k0 + p) * b.row + (n0 + panel * PANEL + col) * b.col
            ELSE Pad]

\* What a block of k and n adds to element (i, j), the row found by the given loops.
BlockSum(a, packed, kLen, nLen, mLen, i, j, k0, n0, m0, widths) ==
    LET updates == {x \in Blocks(nLen, PANEL) \X (DOMAIN widths) \X (0 .. kLen - 1) :
                      /\ i - m0 \in Strips(mLen, widths)[x[2]]
                      /\ j - n0 - x[1] \in 0 .. Least(nLen - x[1], PANEL) - 1}
    IN  SumOf(updates, LAMBDA x :
            <<a.base + i * a.row + k0 + x[3],
              packed[((x[1] \div PANEL) * kLen + x[3]) * PANEL + (j - n0 - x[1])]>>)

BlockAvx2(a, packed, kLen, nLen, mLen, i, j, k0, n0, m0) ==
    BlockSum(a, packed, kLen, nLen, mLen, i, j, k0, n0, m0, <<ROWS, 1>>)

BlockPortable(a, packed, kLen, nLen, mLen, i, j, k0, n0, m0) ==
    BlockSum(a, packed, kLen, nLen, mLen, i, j, k0, n0, m0, <<1>>)

\* matmul_blocked_packed_f32: all elements, cleared first.
BlockedPacked(a, b, m, k, n, avx2) ==
    LET blocks == Blocks(k, KC) \X Blocks(n, NC)
        packed == [x \in blocks |->
                     PackBPanel(b, x[1], Least(k - x[1], KC), x[2], Least(n - x[2], NC))]
        part(i, j, x, m0) ==
            LET kLen == Least(k - x[1], KC)
                nLen == Least(n - x[2], NC)
                mLen == Least(m - m0, MC)
            IN  IF avx2 THEN BlockAvx2(a, packed[x], kLen, nLen, mLen, i, j, x[1], x[2], m0)
                ELSE BlockPortable(a, packed[x], kLen, nLen, mLen, i, j, x[1], x[2], m0)
    IN  [e \in (0 .. m - 1) \X (0 .. n - 1) |->
            FoldSet(LAMBDA z, sum : Add2(sum, part(e[1], e[2], z[1], z[2])), Zero,
                    blocks \X Blocks(m, MC))]

\* matmul_2d_f32
MatMul2D(a, b, m, k, n, avx2) ==
    IF m > SMALL_M /\ a.col = 1 THEN BlockedPacked(a, b, m, k, n, avx2)
    ELSE [e \in (0 .. m - 1) \X (0 .. n - 1) |->
            IF m <= SMALL_M /\ SmallPathApplies(a, b) THEN SmallM(a, b, m, k, n, e[1], e[2], avx2)
            ELSE ScalarReference(a, b, k, e[1], e[2])]
-----------------------------------------------------------------------------
\* How far batch c of the result is into an operand: its first axes are taken for the result's.
BatchOffset(x, c) ==
    Total([d \in 1 .. Least(Len(c), Rank(x) - 2) |-> c[d] * x.strides[d]])

\* The coordinates of batch bi along the axes of the result before the last two.
BatchCoords(y, bi) ==
    [d \in 1 .. Rank(y) - 2 |-> (bi \div Product(SubSeq(y.shape, d + 1, Rank(y) - 2))) % Dim(y, d)]

Batches(y) == Product(SubSeq(y.shape, 1, Rank(y) - 2))

MatrixAt(x, offset) == Matrix(offset, Back([shape |-> x.strides], 1), Back([shape |-> x.strides], 0))

CpuMatMul(in, y, avx2) ==
    LET k == Back(in[1], 0)
        single == in[1].dtype = "f32" /\ in[2].dtype = "f32"
        m == Back(y, 1)
        n == Back(y, 0)
        one(bi) ==
            LET c == BatchCoords(y, bi)
                a == MatrixAt(in[1], BatchOffset(in[1], c))
                b == MatrixAt(in[2], BatchOffset(in[2], c))
                value == IF single THEN MatMul2D(a, b, m, k, n, avx2)
                         ELSE [e \in (0 .. m - 1) \X (0 .. n - 1) |-> ScalarReference(a, b, k, e[1], e[2])]
            IN  {Store(Entry(MatrixAt(y, BatchOffset(y, c)), e[1], e[2]), Caller, value[e]) : e \in DOMAIN value}
    IN  UNION {one(bi) : bi \in 0 .. Batches(y) - 1}
-----------------------------------------------------------------------------
(* ISPC: tile t of the result is N_STEP columns of a row; the loop over k  *)
(* takes UNROLL steps at a time.  All operands are taken to be row-major   *)
(* and to have the same batches.                                           *)
TileElement(m, k, n, row, col) ==
    LET steps == Strips(k, <<UNROLL, 1>>)
        passes == {x \in (DOMAIN steps) \X (0 .. k - 1) : x[2] \in steps[x[1]]}
    IN  SumOf(passes, LAMBDA x : <<row * k + x[2], (row \div m) * (k * n) + x[2] * n + col>>)

\* matmul_tile_task
TileStores(m, k, n, t, tile, tiles) ==
    LET row == tile \div tiles
        from == (tile % tiles) * N_STEP
    IN  {Store(row * n + col, <<t>>, TileElement(m, k, n, row, col)) : col \in from .. Least(from + N_STEP, n) - 1}

\* matmul_f32_ispc
MatMulF32(batch, m, k, n) ==
    LET tiles == CeilDiv(n, N_STEP)
        all == batch * m * tiles
        task == LaunchOver(all, 1, Least(all, TileTasks))
    IN  UNION {UNION {TileStores(m, k, n, t, tile, tiles) : tile \in task[t]} : t \in DOMAIN task}

IspcMatMul(in, y) == MatMulF32(Batches(y), Back(y, 1), Back(in[1], 0), Back(y, 0))
-----------------------------------------------------------------------------
(* CUDA.  cuBLAS works on columns: the product is that of the transposed   *)
(* matrices in the opposite order, which leaves c in rows.                 *)
Gemm(op_b, N, M, K, ldb, b0, a0, c0) ==
    {Store(c0 + m * N + n, <<c0, m, n>>,
           SumOf(0 .. K - 1, LAMBDA k :
               <<a0 + m * K + k, b0 + (IF op_b = "T" THEN n * ldb + k ELSE k * ldb + n)>>)) :
        m \in 0 .. M - 1, n \in 0 .. N - 1}

\* The second operand is a view with its last two axes exchanged.
BTransposed(in) ==
    LET s == in[2].strides IN s[Len(s) - 1] = 1 /\ s[Len(s)] = Back(in[1], 0)

\* matmul_cublas_impl
CublasMatMul(in, y) ==
    LET M == Back(y, 1)
        K == Back(in[1], 0)
        N == Back(y, 0)
        op == IF BTransposed(in) THEN "T" ELSE "N"
        ldb == IF BTransposed(in) THEN K ELSE N
        bSize == IF Rank(in[2]) >= 3 THEN K * N ELSE 0
    IN  CASE Batches(y) = 1 -> Gemm(op, N, M, K, ldb, 0, 0, 0)
          [] Batches(y) # 1 /\ bSize = 0 -> Gemm(op, N, Batches(y) * M, K, ldb, 0, 0, 0)
          [] OTHER -> UNION {Gemm(op, N, M, K, ldb, z * bSize, z * M * K, z * M * N) :
                                z \in 0 .. Batches(y) - 1}

\* matmul_mixed_impl: a grid of square blocks over columns and rows for each batch.
MixedMatMul(in, y) ==
    LET M == Back(y, 1)
        K == Back(in[1], 0)
        N == Back(y, 0)
        bSize == IF Rank(in[2]) >= 3 THEN K * N ELSE 0
        b(z, k, n) == z * bSize + (IF BTransposed(in) THEN n * K + k ELSE k * N + n)
    IN  {Store((z * M + m) * N + n, <<z, m, n>>,
               SumOf(0 .. K - 1, LAMBDA k : <<(z * M + m) * K + k, b(z, k, n)>>)) :
            z \in 0 .. Batches(y) - 1, m \in Guarded(M, BLOCK), n \in Guarded(N, BLOCK)}

CudaMatMul(in, y) == IF in[1].dtype = in[2].dtype THEN CublasMatMul(in, y) ELSE MixedMatMul(in, y)
=============================================================================
