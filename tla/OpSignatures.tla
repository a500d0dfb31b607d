---------------------------- MODULE OpSignatures ----------------------------
(***************************************************************************)
(* Which operator calls a graph accepts and the shape and type it gives    *)
(* their result: op_signature of src/kernel.cpp, the checks of             *)
(* internal/op_validation.h and the signatures of internal/shape_helpers.h.*)
(* A throw is a call that is not accepted; the wording of errors and the   *)
(* overflow of 64-bit products are left out.                               *)
(***************************************************************************)
EXTENDS Tensors

Unary == {"Neg", "Abs", "Relu", "Sigmoid", "Tanh", "Rsqrt"}
Binary == {"Add", "Sub", "Mul", "Div"}

\* The operators that have a signature.
Operators ==
    Unary \cup Binary \cup
    {"Softmax", "MatMul", "Reshape", "Transpose", "Concat", "Slice", "RMSNorm", "Embedding",
     "RotaryEmbedding", "RepeatKV", "FusedAttention", "QuantizedMatMul"}

Floats == {"f32", "f16", "bf16"}
Halves == {"f16", "bf16"}

NoAttrs == [kind |-> "None"]

\* default_op_attrs
DefaultAttrs(op) ==
    CASE op = "Softmax" -> [kind |-> op, axis |-> -1]
      [] op = "MatMul" -> [kind |-> op, trans_a |-> FALSE, trans_b |-> FALSE]
      [] op = "Reshape" -> [kind |-> op, shape |-> <<>>]
      [] op = "Transpose" -> [kind |-> op, perm |-> <<>>]
      [] op = "Concat" -> [kind |-> op, axis |-> 0]
      [] op = "Slice" -> [kind |-> op, begins |-> <<>>, ends |-> <<>>, strides |-> <<>>]
      [] op = "RMSNorm" -> [kind |-> op, epsilon |-> 1, axis |-> -1]
      [] op = "RepeatKV" -> [kind |-> op, repeats |-> 1, axis |-> 0]
      [] op = "FusedAttention" -> [kind |-> op, is_causal |-> TRUE]
      [] op = "QuantizedMatMul" -> [kind |-> op, quant_type |-> "Int8", block_size |-> 0]
      [] OTHER -> NoAttrs

InputCount(op) ==
    CASE op \in Binary \cup {"MatMul", "Concat", "RMSNorm", "Embedding"} -> 2
      [] op \in {"RotaryEmbedding", "FusedAttention", "QuantizedMatMul"} -> 3
      [] OTHER -> 1
-----------------------------------------------------------------------------
(* The sizes of single axes, from the front (Dim) and from the back.       *)
Rank(x) == Len(x.shape)
Dim(x, d) == x.shape[d]
Back(x, d) == x.shape[Len(x.shape) - d]
AxisExists(axis, x) == Axis(axis, x.shape) \in DOMAIN x.shape

\* The shape with ones in front, as many axes as asked for.
Padded(shape, rank) == [d \in 1 .. rank - Len(shape) |-> 1] \o shape

Max2Rank(in) == Greatest(Rank(in[1]), Rank(in[2]))

\* signature_matmul: equal batch axes, and rows of a as long as columns of b.
MatMulDims(in) ==
    /\ Rank(in[1]) >= 2 /\ Rank(in[2]) >= 2
    /\ LET a == Padded(in[1].shape, Max2Rank(in))
           b == Padded(in[2].shape, Max2Rank(in))
       IN  \A d \in 1 .. Max2Rank(in) - 2 : a[d] = b[d]
    /\ Back(in[1], 0) = Back(in[2], 1)

MatMulTypes(in) ==
    in[1].dtype # in[2].dtype =>
        \/ in[1].dtype = "f32" /\ in[2].dtype \in Halves
        \/ in[2].dtype = "f32" /\ in[1].dtype \in Halves

\* An empty permutation stands for the reversal of all axes.
Permutation(a, rank) == IF a.perm = <<>> THEN [d \in 1..rank |-> rank - d] ELSE a.perm

ValidTranspose(x, a) ==
    a.perm # <<>> =>
        /\ Len(a.perm) = Rank(x)
        /\ \A d \in DOMAIN a.perm : a.perm[d] \in 0 .. Rank(x) - 1
        /\ \A d, e \in DOMAIN a.perm : d # e => a.perm[d] # a.perm[e]

ValidConcat(in, a) ==
    /\ Rank(in[1]) = Rank(in[2])
    /\ AxisExists(a.axis, in[1])
    /\ \A d \in DOMAIN in[1].shape :
         d # Axis(a.axis, in[1].shape) => Dim(in[1], d) = Dim(in[2], d)

ValidRMSNorm(in, a) ==
    /\ Axis(a.axis, in[1].shape) = Rank(in[1])
    /\ a.epsilon > 0
    /\ in[2].shape = <<Back(in[1], 0)>>
    /\ in[1].dtype \in Floats
    /\ in[1].dtype # in[2].dtype => in[1].dtype = "f32" /\ in[2].dtype \in Halves

ValidEmbedding(in) == Rank(in[1]) = 2 /\ in[1].dtype = "f32" /\ in[2].dtype = "i32"

ValidRotary(in) ==
    LET x == in[1]  cache == in[2].shape
    IN  /\ Back(x, 0) % 2 = 0
        /\ x.dtype = "f32"
        /\ cache = in[3].shape
        /\ Len(cache) <= 2 /\ cache[Len(cache)] = Back(x, 0) \div 2
        /\ Len(cache) = 2 /\ cache[1] > 1 => Rank(x) >= 2 /\ Back(x, 1) = cache[1]

\* A bound of a slice: counted from the end if negative, then cut to the axis.
Bound(x, dim) == Greatest(0, Least(dim, IF x < 0 THEN x + dim ELSE x))

\* Where a slice begins and ends on axis d and its step.
SliceAxis(a, shape, d) ==
    [b |-> IF d <= Len(a.begins) THEN Bound(a.begins[d], shape[d]) ELSE 0,
     e |-> IF d <= Len(a.begins) THEN Bound(a.ends[d], shape[d]) ELSE shape[d],
     s |-> IF d <= Len(a.strides) /\ a.strides[d] > 0 THEN a.strides[d] ELSE 1]

ValidSlice(x, a) ==
    /\ Len(a.begins) = Len(a.ends)
    /\ a.strides = <<>> \/ Len(a.strides) = Len(a.begins)
    /\ Len(a.begins) <= Rank(x)
    /\ \A d \in DOMAIN a.strides : a.strides[d] > 0
    /\ \A d \in DOMAIN a.begins : SliceAxis(a, x.shape, d).b < SliceAxis(a, x.shape, d).e

\* Q, K and V are [..., heads, positions, features].
ValidAttention(in, a) ==
    LET q == in[1]  k == in[2]  v == in[3]
    IN  /\ q.dtype \in Floats
        /\ Rank(q) >= 3 /\ Rank(k) = Rank(q) /\ Rank(v) = Rank(q)
        /\ \A d \in 1 .. Rank(q) - 3 : Dim(q, d) = Dim(k, d) /\ Dim(q, d) = Dim(v, d)
        /\ Back(k, 2) = Back(v, 2) /\ Back(q, 2) % Back(k, 2) = 0
        /\ Back(k, 1) = Back(v, 1)
        /\ a.is_causal => Back(k, 1) >= Back(q, 1)
        /\ Back(q, 0) = Back(k, 0)

\* Rows of the scales: one per block of the inner dimension, or one for all.
ScaleRows(k, a) == IF a.block_size > 0 THEN CeilDiv(k, a.block_size) ELSE 1

QuantizedDims(in, a) ==
    LET k == Back(in[1], 0)  n == Dim(in[2], 2)
    IN  /\ Dim(in[2], 1) = (IF a.quant_type = "Int4" THEN (k + 1) \div 2 ELSE k)
        /\ in[3].shape \in {<<ScaleRows(k, a), n>>, <<ScaleRows(k, a) * n>>}

ValidQuantized(in, a) ==
    /\ in[1].dtype \in Floats /\ in[2].dtype = "i8" /\ in[3].dtype \in Floats
    /\ Rank(in[1]) >= 2 /\ Rank(in[2]) = 2
    /\ a.quant_type = "Int4" /\ a.block_size > 0 => a.block_size % 2 = 0
-----------------------------------------------------------------------------
\* Operands of different types are left to the operators that accept them.
MixedTypes == {"Embedding", "MatMul", "RMSNorm", "QuantizedMatMul"}

\* validate_op_metadata
ValidMetadata(op, in, a) ==
    /\ a.kind = DefaultAttrs(op).kind
    /\ \A k \in DOMAIN in : in[k].shape # <<>> /\ 0 \notin Range(in[k].shape)
    /\ op \notin MixedTypes => \A k \in DOMAIN in : in[k].dtype = in[1].dtype
    /\ op \in Binary => in[1].shape = in[2].shape
    /\ op = "MatMul" => ~ a.trans_a /\ ~ a.trans_b /\ MatMulTypes(in)
    /\ op = "Reshape" => Numel(a.shape) = Numel(in[1].shape)
    /\ op = "Transpose" => ValidTranspose(in[1], a)
    /\ op = "Concat" => ValidConcat(in, a)
    /\ op = "RMSNorm" => ValidRMSNorm(in, a)
    /\ op = "Embedding" => ValidEmbedding(in)
    /\ op = "RotaryEmbedding" => ValidRotary(in)
    /\ op = "RepeatKV" => a.repeats > 0 /\ AxisExists(a.axis, in[1])
    /\ op = "Slice" => ValidSlice(in[1], a)
    /\ op = "FusedAttention" => ValidAttention(in, a)
    /\ op = "QuantizedMatMul" => ValidQuantized(in, a)

\* softmax_layout: the axis and what lies before and behind it.
SoftmaxLayout(shape, a) ==
    LET d == Axis(a.axis, shape)
    IN  [outer |-> Outer(shape, d), cols |-> shape[d], inner |-> Inner(shape, d)]

\* What the signature itself still refuses.
SignatureAccepts(op, in, a) ==
    /\ op = "Softmax" => in[1].dtype \in Floats /\ AxisExists(a.axis, in[1])
    /\ op = "MatMul" => MatMulDims(in)
    /\ op = "QuantizedMatMul" => QuantizedDims(in, a)

Given(op, a) == IF a = NoAttrs THEN DefaultAttrs(op) ELSE a

\* op_signature returns.
Accepts(op, in, a) ==
    /\ op \in Operators
    /\ Len(in) = InputCount(op)
    /\ ValidMetadata(op, in, Given(op, a))
    /\ SignatureAccepts(op, in, Given(op, a))

\* A product of a single and a half precision operand has single precision.
MatMulType(in) ==
    IF \E k \in 1..2 : in[k].dtype = "f32" THEN "f32" ELSE in[1].dtype

SliceShape(x, a) ==
    [d \in DOMAIN x.shape |->
        LET ax == SliceAxis(a, x.shape, d)
        IN  IF d <= Len(a.begins) /\ ax.e > ax.b THEN CeilDiv(ax.e - ax.b, ax.s)
            ELSE IF d <= Len(a.begins) THEN 0 ELSE Dim(x, d)]

\* The shape op_signature gives the result of an accepted call.
ResultShape(op, in, a) ==
    LET x == in[1]
        resized(d, n) == [x.shape EXCEPT ![d] = n]
    IN  CASE op = "MatMul" ->
               SubSeq(Padded(x.shape, Max2Rank(in)), 1, Max2Rank(in) - 2)
                   \o <<Back(x, 1), Back(in[2], 0)>>
          [] op = "Embedding" -> Append(in[2].shape, Back(x, 0))
          [] op = "Reshape" -> a.shape
          [] op = "Transpose" -> [d \in DOMAIN x.shape |-> x.shape[1 + Permutation(a, Rank(x))[d]]]
          [] op = "Concat" ->
               LET d == Axis(a.axis, x.shape) IN resized(d, Dim(x, d) + Dim(in[2], d))
          [] op = "RepeatKV" -> LET d == Axis(a.axis, x.shape) IN resized(d, Dim(x, d) * a.repeats)
          [] op = "Slice" -> SliceShape(x, a)
          [] op = "FusedAttention" -> resized(Rank(x), Back(in[3], 0))
          [] op = "QuantizedMatMul" -> resized(Rank(x), Dim(in[2], 2))
          [] OTHER -> x.shape

Signature(op, in, a) ==
    Tensor(ResultShape(op, in, Given(op, a)), IF op = "MatMul" THEN MatMulType(in) ELSE in[1].dtype)
=============================================================================
