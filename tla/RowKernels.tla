----------------------------- MODULE RowKernels -----------------------------
(***************************************************************************)
(* The kernels that compute an element from the elements at its index or   *)
(* in its row: the elementwise operators, Softmax, RMSNorm and             *)
(* RotaryEmbedding, on the three backends.  A computed value is a record   *)
(* of the elements that go into it; the scalar functions themselves, and   *)
(* rounding, are left out.                                                 *)
(***************************************************************************)
EXTENDS OpSignatures

CONSTANTS AddSerial, RsqrtSerial, ElementTasks, \* elementwise_*.ispc: 2048 and 1024 elements, 16 tasks
          RowSerial, RotarySerial, RowTasks     \* *.ispc: 2 rows, rotary 4, at most 32 tasks

ASSUME RowAssumption ==
    /\ {AddSerial, RsqrtSerial, RowSerial, RotarySerial} \subseteq Nat
    /\ {ElementTasks, RowTasks} \subseteq Nat \ {0}

\* Two operands at one index, and a single one.
Pair(i) == <<Elem(1, i), Elem(2, i)>>
Single(i) == <<Elem(1, i)>>
At(op, i) == IF op \in Binary THEN Pair(i) ELSE Single(i)
-----------------------------------------------------------------------------
CpuElementwise(op, y) == {Store(i, Caller, At(op, i)) : i \in 0 .. Numel(y.shape) - 1}

\* One foreach over all elements, or tasks with a span each.
Launched(op, n, serial) ==
    LET task == LaunchOver(n, serial, ElementTasks)
    IN  UNION {{Store(i, <<t>>, At(op, i)) : i \in task[t]} : t \in DOMAIN task}

IspcForeach(op, n) == {Store(i, Caller, At(op, i)) : i \in 0 .. n - 1}
IspcAdd(n) == Launched("Add", n, AddSerial)
IspcMul(n) == Launched("Mul", n, AddSerial)
IspcRsqrt(n) == Launched("Rsqrt", n, RsqrtSerial)

IspcElementwise(op, y) ==
    CASE op = "Add" -> IspcAdd(Numel(y.shape))
      [] op = "Mul" -> IspcMul(Numel(y.shape))
      [] op = "Rsqrt" -> IspcRsqrt(Numel(y.shape))
      [] OTHER -> IspcForeach(op, Numel(y.shape))

CudaElementwise(op, y) == {Store(i, <<i>>, At(op, i)) : i \in Grid(Numel(y.shape))}
-----------------------------------------------------------------------------
(* Softmax.  Row r of a tensor seen as [outer, cols, inner] starts here    *)
(* and takes steps of inner.                                               *)
RowBase(r, l) == ((r \div l.inner) * l.cols * l.inner) + (r % l.inner)
Rows(l) == l.outer * l.inner

\* exp(x - max) / sum, with the elements the maximum and the sum go over.
Normalised(i, maximum, sum) == [exp |-> Elem(1, i), max |-> maximum, sum |-> sum]

CpuSoftmaxRow(r, l) ==
    LET at(j) == RowBase(r, l) + j * l.inner
        maximum == {Elem(1, at(0))} \cup {Elem(1, at(j)) : j \in 1 .. l.cols - 1}
        sum == SumOf(0 .. l.cols - 1, LAMBDA j : Elem(1, at(j)))
    IN  {<<at(j), Normalised(at(j), maximum, sum)>> : j \in 0 .. l.cols - 1}

CpuSoftmax(in, y, a) ==
    LET l == SoftmaxLayout(in[1].shape, a)
    IN  {Store(w[1], Caller, w[2]) : w \in UNION {CpuSoftmaxRow(r, l) : r \in 0 .. Rows(l) - 1}}

\* The tasks of a kernel that works row by row.
RowLaunch(rows, serial) == LaunchOver(rows, serial, Least(rows, RowTasks))

\* softmax_f32_ispc
SoftmaxF32(l) ==
    LET task == RowLaunch(Rows(l), RowSerial)
    IN  UNION {{Store(w[1], <<t>>, w[2]) : w \in UNION {CpuSoftmaxRow(r, l) : r \in task[t]}} :
                 t \in DOMAIN task}

IspcSoftmax(in, y, a) == SoftmaxF32(SoftmaxLayout(in[1].shape, a))

\* One block of a single thread per row.
CudaSoftmax(in, y, a) ==
    LET l == SoftmaxLayout(in[1].shape, a)
    IN  UNION {{Store(w[1], <<r>>, w[2]) : w \in CpuSoftmaxRow(r, l)} : r \in 0 .. Rows(l) - 1}
-----------------------------------------------------------------------------
(* RMSNorm: x * weight / sqrt(sum of squares / dim + epsilon).             *)
Scaled(i, j, squares, dim) == [x |-> Elem(1, i), weight |-> Elem(2, j), squares |-> squares, dim |-> dim]

CpuRMSNormRow(r, dim) ==
    LET squares == SumOf(0 .. dim - 1, LAMBDA j : Elem(1, r * dim + j))
    IN  {<<r * dim + j, Scaled(r * dim + j, j, squares, dim)>> : j \in 0 .. dim - 1}

CpuRMSNorm(in, y) ==
    LET dim == Back(in[1], 0)
        rows == Numel(in[1].shape) \div dim
    IN  {Store(w[1], Caller, w[2]) : w \in UNION {CpuRMSNormRow(r, dim) : r \in 0 .. rows - 1}}

\* rmsnorm_f32_ispc
RMSNormF32(rows, dim) ==
    LET task == RowLaunch(rows, RowSerial)
    IN  UNION {{Store(w[1], <<t>>, w[2]) : w \in UNION {CpuRMSNormRow(r, dim) : r \in task[t]}} :
                 t \in DOMAIN task}

IspcRMSNorm(in, y) == RMSNormF32(Numel(in[1].shape) \div Back(in[1], 0), Back(in[1], 0))

\* A block per row: each thread adds up every THREADS-th square, then the upper half of the
\* partial sums is added to the lower half until one is left.
TreeSum(partial) ==
    LET fold(s, h) == [t \in DOMAIN s |-> IF t < h THEN Add2(s[t], s[t + h]) ELSE s[t]]
    IN  FoldLeft(fold, partial, Halving(THREADS))[0]

CudaRMSNorm(in, y) ==
    LET dim == Back(in[1], 0)
        squares(r) == TreeSum([t \in 0 .. THREADS - 1 |->
                         SumOf(Strided(t, dim, THREADS), LAMBDA j : Elem(1, r * dim + j))])
    IN  UNION {UNION {{Store(r * dim + j, <<r, t>>, Scaled(r * dim + j, j, squares(r), dim)) :
                         j \in Strided(t, dim, THREADS)} : t \in 0 .. THREADS - 1} :
                 r \in 0 .. (Numel(in[1].shape) \div dim) - 1}
-----------------------------------------------------------------------------
(* RotaryEmbedding: the two halves of a row are rotated by the angles of   *)
(* the row's position.  A rotated element is a * c - b * s or b * c + a * s*)
Rotated(sign, i, j, angle) == [sign |-> sign, cos |-> Elem(1, i), sin |-> Elem(1, j), angle |-> angle]

CacheRows(in) == IF Rank(in[2]) >= 2 THEN Dim(in[2], 1) ELSE 1
RotaryPosition(r, rows) == IF rows > 1 THEN r % rows ELSE 0

RotatedPair(in, r, j) ==
    LET dim == Back(in[1], 0)
        half == dim \div 2
        p == r * dim + j
        q == r * dim + j + half
        angle == RotaryPosition(r, CacheRows(in)) * half + j
    IN  {<<p, Rotated("-", p, q, angle)>>, <<q, Rotated("+", q, p, angle)>>}

RotatedRow(in, r) == UNION {RotatedPair(in, r, j) : j \in 0 .. (Back(in[1], 0) \div 2) - 1}

CpuRotary(in, y) ==
    {Store(w[1], Caller, w[2]) :
        w \in UNION {RotatedRow(in, r) : r \in 0 .. (Numel(in[1].shape) \div Back(in[1], 0)) - 1}}

\* rotary_embedding_f32_ispc
RotaryF32(in, rows) ==
    LET task == RowLaunch(rows, RotarySerial)
    IN  UNION {{Store(w[1], <<t>>, w[2]) : w \in UNION {RotatedRow(in, r) : r \in task[t]}} : t \in DOMAIN task}

IspcRotary(in, y) == RotaryF32(in, Numel(in[1].shape) \div Back(in[1], 0))

\* One thread per pair.
CudaRotary(in, y) ==
    LET half == Back(in[1], 0) \div 2
    IN  UNION {{Store(w[1], <<i>>, w[2]) : w \in RotatedPair(in, i \div half, i % half)} :
                 i \in Grid((Numel(in[1].shape) \div Back(in[1], 0)) * half)}
=============================================================================
