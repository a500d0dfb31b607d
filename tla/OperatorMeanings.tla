-------------------------- MODULE OperatorMeanings --------------------------
(***************************************************************************)
(* What the operators mean, element by element of the result and in terms  *)
(* of coordinates, and what is claimed of the kernels: each writes every   *)
(* element once, and what the operator means.                              *)
(***************************************************************************)
EXTENDS Kernels, Quantisation

\* The coordinates of an element, and the element of operand k at some coordinates.
Coordinates(i, shape) == [d \in DOMAIN shape |-> (i \div Inner(shape, d)) % shape[d]]
Of(in, k, c) == Elem(k, Offset(c, in[k].strides))

\* Coordinates with one of them replaced, and those of an operand with fewer axes.
With(c, d, n) == [c EXCEPT ![d] = n]
Behind(c, rank) == SubSeq(c, Len(c) - rank + 1, Len(c))

\* The coordinates of a matrix in a batch whose last two axes are taken off.
InBatch(c, rank, i, j) == Behind(SubSeq(c, 1, Len(c) - 2), rank - 2) \o <<i, j>>

MeaningOfMatMul(in, c) ==
    LET i == c[Len(c) - 1]  j == c[Len(c)]
        at(k, row, col) == Offset(InBatch(c, Rank(in[k]), row, col), in[k].strides)
    IN  SumOf(0 .. Back(in[1], 0) - 1, LAMBDA p : <<at(1, i, p), at(2, p, j)>>)

\* Which half of which byte is weight (p, j), and which scale belongs to it.
MeaningOfQuantized(in, a, c) ==
    LET n == Dim(in[2], 2)  j == c[Len(c)]
        four == a.quant_type = "Int4"
        size == IF a.block_size > 0 THEN a.block_size ELSE INT4_BLOCK
        weight(p) == <<(IF four THEN p \div 2 ELSE p) * n + j,
                       IF four THEN <<"low", "high">>[1 + (p % 2)] ELSE "byte">>
        scale(p) == (IF four \/ a.block_size > 0 THEN p \div size ELSE 0) * n + j
    IN  SumOf(0 .. Back(in[1], 0) - 1,
              LAMBDA p : <<Offset(With(c, Len(c), p), in[1].strides), weight(p), scale(p)>>)

MeaningOfRotary(in, c) ==
    LET d == Len(c)
        half == Back(in[1], 0) \div 2
        rows == CacheRows(in)
        angle == (IF rows > 1 THEN c[d - 1] ELSE 0) * half + (c[d] % half)
    IN  IF c[d] < half
        THEN Rotated("-", Of(in, 1, c)[2], Of(in, 1, With(c, d, c[d] + half))[2], angle)
        ELSE Rotated("+", Of(in, 1, c)[2], Of(in, 1, With(c, d, c[d] - half))[2], angle)

Meaning(op, in, a, data, c) ==
    LET x == in[1]
        axis == Axis(a.axis, x.shape)
        along(d) == SumOf(0 .. Dim(x, d) - 1, LAMBDA n : Of(in, 1, With(c, d, n)))
    IN  CASE op \in Elementwise -> [k \in DOMAIN in |-> Of(in, k, c)]
          [] op = "Softmax" -> Normalised(Of(in, 1, c)[2], DOMAIN along(axis), along(axis))
          [] op = "RMSNorm" -> Scaled(Of(in, 1, c)[2], c[Len(c)], along(Rank(x)), Back(x, 0))
          [] op = "RotaryEmbedding" -> MeaningOfRotary(in, c)
          [] op = "Reshape" -> Elem(1, Offset(c, DefaultStrides(a.shape)))
          [] op = "Transpose" ->
               LET perm == Permutation(a, Rank(x))
               IN  Of(in, 1, [d \in DOMAIN c |-> c[CHOOSE e \in DOMAIN perm : perm[e] = d - 1]])
          [] op = "Slice" ->
               Of(in, 1, [d \in DOMAIN c |->
                            SliceAxis(a, x.shape, d).b + c[d] * SliceAxis(a, x.shape, d).s])
          [] op = "Concat" ->
               IF c[axis] < Dim(x, axis) THEN Of(in, 1, c)
               ELSE Of(in, 2, With(c, axis, c[axis] - Dim(x, axis)))
          [] op = "RepeatKV" -> Of(in, 1, With(c, axis, c[axis] \div a.repeats))
          [] op = "Embedding" ->
               Of(in, 1, <<data[Offset(SubSeq(c, 1, Len(c) - 1), in[2].strides)], c[Len(c)]>>)
          [] op = "MatMul" -> MeaningOfMatMul(in, c)
          [] op = "QuantizedMatMul" -> MeaningOfQuantized(in, a, c)

\* softmax(q k) v: the weight of a visible value is e^(its score - the largest score).
MeaningOfAttention(in, a, data, c) ==
    LET r == Len(c)
        shared(k) == [d \in 1 .. r - 2 |->
                        IF d = r - 2 THEN c[d] \div (Back(in[1], 2) \div Back(in[2], 2)) ELSE c[d]]
        visible == {j \in 0 .. Back(in[2], 1) - 1 :
                      a.is_causal => j <= c[r - 1] + Back(in[2], 1) - Back(in[1], 1)}
        score == [j \in visible |->
                    Total([d \in 1 .. Back(in[1], 0) |->
                        data[1][Offset(With(c, r, d - 1), in[1].strides)]
                          * data[2][Offset(shared(2) \o <<j, d - 1>>, in[2].strides)]])]
        largest == CHOOSE m \in Range(score) : \A j \in visible : score[j] <= m
        value(j) == Elem(3, Offset(shared(3) \o <<j, c[r]>>, in[3].strides))
    IN  [values |-> SumOf(visible, LAMBDA j : <<value(j), score[j] - largest>>),
         over |-> SumOf(visible, LAMBDA j : <<1, score[j] - largest>>)]
-----------------------------------------------------------------------------
(* Every element of the result is written, none outside of it, and no      *)
(* element by two tasks or threads: the spans, tiles, strips and warps     *)
(* into which the kernels of all backends divide their work cover it       *)
(* without a gap or an overlap.                                            *)
EveryElementIsWrittenByOneTask ==
    call # NoCall =>
        /\ {w.at : w \in writes} = 0 .. Numel(call.out.shape) - 1
        /\ Cardinality(writes) = Numel(call.out.shape)

(* What a kernel writes is what the operator means, on every backend: the  *)
(* right operand elements, each as often as it should be, at an element    *)
(* that is found by coordinates and strides rather than by the kernel's    *)
(* own index arithmetic.                                                   *)
KernelsComputeTheOperator ==
    call # NoCall /\ call.op # "FusedAttention" =>
        \A w \in writes :
            w.val = Meaning(call.op, call.in, call.attrs, call.data, Coordinates(w.at, call.out.shape))

(* The streaming softmax of FusedAttention gives what the two-pass         *)
(* definition gives, whatever the order in which the scores rise and fall, *)
(* with shared key heads, a causal mask over a longer past and, on a GPU,  *)
(* features spread over the lanes of a warp.                               *)
OnlineSoftmaxIsSoftmax ==
    call # NoCall /\ call.op = "FusedAttention" =>
        \A w \in writes :
            w.val = MeaningOfAttention(call.in, call.attrs, call.data, Coordinates(w.at, call.out.shape))
-----------------------------------------------------------------------------
\* The value of a weight is within half a scale of its source.
Near(t, x) == 2 * Magnitude(t.level * t.scale.num - x * t.scale.den) <= t.scale.num

\* What QuantizedMatMul multiplies an activation with: the level of a weight and its scale.
Read(weight, scale) ==
    LET byte == stored.bytes[weight[1]]
    IN  Times(CASE weight[2] = "byte" -> byte
                [] weight[2] = "low" -> SignExtended(Lower(byte))
                [] weight[2] = "high" -> SignExtended(Upper(byte)), stored.scales[scale])

\* A row of activations times the stored weights.
Product1(backend) ==
    LET in == <<Tensor(<<1, stored.rows>>, "f32"), stored.weight, stored.scale>>
        attrs == [kind |-> "QuantizedMatMul", quant_type |-> stored.kind, block_size |-> stored.block]
    IN  [accepted |-> Accepts("QuantizedMatMul", in, attrs),
         writes |-> Kernel(backend, "QuantizedMatMul", in, Signature("QuantizedMatMul", in, attrs), attrs, <<>>)]

(* Weights survive being stored in eight or four bits: what quant.cpp      *)
(* packs is accepted by QuantizedMatMul, whose kernels on every backend    *)
(* find in it, for every element of a column, the level and the scale of   *)
(* that element, at most half a scale away from the source; and so do the  *)
(* functions that restore the weights.                                     *)
WeightsSurviveQuantisation ==
    /\ stored # Nothing =>
         \A backend \in {"CPU", "AVX2", "CUDA"} :
             LET p == Product1(backend)
             IN  /\ p.accepted
                 /\ \A w \in p.writes :
                      /\ {t[1] : t \in DOMAIN w.val} = 0 .. stored.rows - 1
                      /\ \A t \in DOMAIN w.val : Near(Read(t[2], t[3]), stored.source[<<t[1], w.at>>])
    /\ restored # <<>> =>
         \A r \in 0 .. stored.rows - 1, c \in 0 .. stored.cols - 1 :
             Near(restored[<<r, c>>], stored.source[<<r, c>>])
=============================================================================
