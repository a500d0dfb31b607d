---------------------------- MODULE CopyKernels ----------------------------
(***************************************************************************)
(* The kernels that only move elements, on the three backends: cpu/ops,    *)
(* ispc/ops and cuda/ops of Slice, Concat, RepeatKV, Transpose, Reshape    *)
(* and Embedding.  A kernel is the set of its stores; in is the sequence   *)
(* of its operands, y its result and a its attributes.                     *)
(***************************************************************************)
EXTENDS OpSignatures

CONSTANTS TransposeSerial, TransposeTasks, \* transpose.ispc: 256 elements, 32 tasks
          EmbeddingSerial, EmbeddingTasks, \* embedding.ispc: 4 tokens, 32 tasks
          CUDA_RANK                        \* axes a CUDA kernel has room for: 8

ASSUME CopyAssumption ==
    /\ {TransposeSerial, EmbeddingSerial} \subseteq Nat
    /\ {TransposeTasks, EmbeddingTasks, CUDA_RANK} \subseteq Nat \ {0}
-----------------------------------------------------------------------------
(* Slice.  Taken is where element o of the result lies in the operand,     *)
(* o counted along the first K axes of the result.                         *)
Taken(x, y, a, K, o) ==
    Total([d \in 1..K |->
        LET ax == SliceAxis(a, x.shape, d)
            od == (o \div Product(SubSeq(y.shape, d + 1, K))) % Dim(y, d)
        IN  (ax.b + od * ax.s) * Inner(x.shape, d)])

TakenWhole(x, a, d) == SliceAxis(a, x.shape, d) = [b |-> 0, e |-> Dim(x, d), s |-> 1]

\* The axes behind the K-th are taken whole, so blocks of them are copied at once.
CpuSlice(in, y, a) ==
    LET x == in[1]
        K == CHOOSE K \in 0 .. Rank(x) :
               /\ \A d \in K + 1 .. Rank(x) : TakenWhole(x, a, d)
               /\ K > 0 => ~ TakenWhole(x, a, K)
        block == Inner(x.shape, K)
        first == SliceAxis(a, x.shape, 1)
    IN  CASE K = 0 -> Memcpy(1, 0, 0, block)
          [] K = 1 /\ first.s = 1 -> Memcpy(1, 0, first.b * block, (first.e - first.b) * block)
          [] OTHER -> UNION {Memcpy(1, m * block, Taken(x, y, a, K, m), block) :
                                m \in 0 .. Product(SubSeq(y.shape, 1, K)) - 1}

\* The same code, compiled for the other backend.
IspcSlice(in, y, a) == CpuSlice(in, y, a)

\* A slice of the first axis is one copy on the device; otherwise one thread per element.
CudaSlice(in, y, a) ==
    LET x == in[1]
        first == SliceAxis(a, x.shape, 1)
        rows == /\ first.s = 1
                /\ \A d \in 2 .. Rank(x) :
                     /\ SliceAxis(a, x.shape, d).b = 0 /\ SliceAxis(a, x.shape, d).s = 1
                     /\ Dim(y, d) = Dim(x, d)
        n == Numel(y.shape)
    IN  IF Rank(x) > CUDA_RANK THEN {}                       \* throws
        ELSE IF rows THEN Memcpy(1, 0, first.b * Inner(x.shape, 1), n)
        ELSE {Store(i, <<i>>, Elem(1, Taken(x, y, a, Rank(x), i))) : i \in Grid(n)}
-----------------------------------------------------------------------------
(* Concat and RepeatKV copy runs of the axes behind the one they extend.   *)
CpuConcat(in, y, a) ==
    LET d == Axis(a.axis, in[1].shape)
        inner == Inner(in[1].shape, d)
        p == Dim(in[1], d)
        q == Dim(in[2], d)
    IN  UNION {Memcpy(1, o * (p + q) * inner, o * p * inner, p * inner)
                   \cup Memcpy(2, (o * (p + q) + p) * inner, o * q * inner, q * inner) :
                 o \in 0 .. Outer(in[1].shape, d) - 1}

IspcConcat(in, y, a) == CpuConcat(in, y, a)

\* Every thread finds out what lies at its index.
CudaConcat(in, y, a) ==
    LET d == Axis(a.axis, in[1].shape)
        inner == Inner(in[1].shape, d)
        p == Dim(in[1], d)
        q == Dim(in[2], d)
        source(i) ==
            LET k == (i \div inner) % (p + q)
                o == (i \div inner) \div (p + q)
            IN  IF k < p THEN Elem(1, (o * p + k) * inner + (i % inner))
                ELSE Elem(2, (o * q + k - p) * inner + (i % inner))
    IN  {Store(i, <<i>>, source(i)) : i \in Grid(Outer(in[1].shape, d) * (p + q) * inner)}

CpuRepeatKV(in, y, a) ==
    LET d == Axis(a.axis, in[1].shape)
        inner == Inner(in[1].shape, d)
        heads == Dim(in[1], d)
    IN  UNION {Memcpy(1, ((o * heads + h) * a.repeats + r) * inner, (o * heads + h) * inner, inner) :
                 o \in 0 .. Outer(in[1].shape, d) - 1, h \in 0 .. heads - 1, r \in 0 .. a.repeats - 1}

IspcRepeatKV(in, y, a) == CpuRepeatKV(in, y, a)

CudaRepeatKV(in, y, a) ==
    LET d == Axis(a.axis, in[1].shape)
        inner == Inner(in[1].shape, d)
        heads == Dim(in[1], d)
        q == heads * a.repeats
        source(i) ==
            (((i \div inner) \div q) * heads + ((i \div inner) % q) \div a.repeats) * inner + (i % inner)
    IN  {Store(i, <<i>>, Elem(1, source(i))) : i \in Grid(Outer(in[1].shape, d) * q * inner)}
-----------------------------------------------------------------------------
(* Transpose.  Unravelled is the coordinate of a flat index along axis d,  *)
(* what is left of it after the axes before.                               *)
Unravelled(i, strides, d) == (IF d = 1 THEN i ELSE i % strides[d - 1]) \div strides[d]

\* Where element i of the result lies in an operand with the given strides.
Permuted(i, y, a, strides) ==
    Total([d \in DOMAIN y.shape |->
        Unravelled(i, DefaultStrides(y.shape), d) * strides[1 + Permutation(a, Rank(y))[d]]])

CpuTranspose(in, y, a) ==
    {Store(i, Caller, Elem(1, Permuted(i, y, a, in[1].strides))) : i \in 0 .. Numel(y.shape) - 1}

\* transpose_f32_ispc
TransposeF32(n, y, a, strides) ==
    LET task == LaunchOver(n, TransposeSerial, IF n > TransposeSerial \div 2 THEN TransposeTasks ELSE 1)
    IN  UNION {{Store(i, <<t>>, Elem(1, Permuted(i, y, a, strides))) : i \in task[t]} : t \in DOMAIN task}

\* The strides of the operand are taken to be those of its shape.
IspcTranspose(in, y, a) == TransposeF32(Numel(y.shape), y, a, DefaultStrides(in[1].shape))

\* With more axes than there is room for the kernel returns without a word.
CudaTranspose(in, y, a) ==
    {Store(i, <<i>>, Elem(1, Permuted(i, y, a, in[1].strides))) :
        i \in IF Rank(in[1]) > CUDA_RANK THEN {} ELSE Grid(Numel(y.shape))}
-----------------------------------------------------------------------------
CpuReshape(in, y, a) == Memcpy(1, 0, 0, Numel(y.shape))
IspcReshape(in, y, a) == Memcpy(1, 0, 0, Numel(y.shape))
CudaReshape(in, y, a) == Memcpy(1, 0, 0, Numel(y.shape))

(* Embedding: row token of the table, for each token.  The tokens are data *)
(* that decide which element is read; tokens[t] is the t-th of them.       *)
TokenCount(in) == Numel(in[2].shape)

CpuEmbedding(in, y, tokens) ==
    LET hidden == Back(in[1], 0)
    IN  {Store(t * hidden + j, Caller, Elem(1, tokens[t] * hidden + j)) :
            t \in 0 .. TokenCount(in) - 1, j \in 0 .. hidden - 1}

\* embedding_f32_i32_ispc
EmbeddingF32(tokens, n, hidden) ==
    LET task == LaunchOver(n, EmbeddingSerial, Least(n, EmbeddingTasks))
    IN  UNION {{Store(t * hidden + j, <<u>>, Elem(1, tokens[t] * hidden + j)) :
                  t \in task[u], j \in 0 .. hidden - 1} : u \in DOMAIN task}

IspcEmbedding(in, y, tokens) == EmbeddingF32(tokens, TokenCount(in), Back(in[1], 0))

CudaEmbedding(in, y, tokens) ==
    LET hidden == Back(in[1], 0)
    IN  {Store(i, <<i>>, Elem(1, tokens[i \div hidden] * hidden + (i % hidden))) :
            i \in Grid(TokenCount(in) * hidden)}
=============================================================================
