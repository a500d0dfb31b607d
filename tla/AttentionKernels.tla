-------------------------- MODULE AttentionKernels --------------------------
(***************************************************************************)
(* FusedAttention: cpu/ops/fused_attention.cpp and                         *)
(* cuda/ops/fused_attention.cu.  A query looks at the keys one by one and  *)
(* keeps the largest score, the sum of the weights and the weighted sum of *)
(* the values, all relative to that score: a larger one rescales them.     *)
(* The elements of the queries and the keys are small integers, given as   *)
(* data, because scores decide what happens; the weight of a value is      *)
(* e^x for some integer x, and only x is kept.  The scale of the scores is *)
(* positive and is left out.                                               *)
(***************************************************************************)
EXTENDS OpSignatures

CONSTANT ITEMS \* elements a lane has room for: 8

ASSUME AttentionAssumption == ITEMS \in Nat \ {0}

\* The sizes of a call.
AttentionSizes(in) ==
    [heads |-> Back(in[1], 2), kvHeads |-> Back(in[2], 2), group |-> Back(in[1], 2) \div Back(in[2], 2),
     queries |-> Back(in[1], 1), keys |-> Back(in[2], 1), d |-> Back(in[1], 0), dv |-> Back(in[3], 0),
     outer |-> Product(SubSeq(in[1].shape, 1, Rank(in[1]) - 3))]

\* Keys query i may look at.
VisibleKeys(i, z, a) ==
    Greatest(0, Least(z.keys, IF a.is_causal THEN z.keys - z.queries + i + 1 ELSE z.keys))

\* Where the rows of query <<b, h, i>>, of its keys and of its values begin.
QueryRow(b, h, i, z) == ((b * z.heads + h) * z.queries + i) * z.d
KeyRow(b, h, j, z) == ((b * z.kvHeads + h \div z.group) * z.keys + j) * z.d
ValueRow(b, h, j, z) == ((b * z.kvHeads + h \div z.group) * z.keys + j) * z.dv
OutputRow(b, h, i, z) == ((b * z.heads + h) * z.queries + i) * z.dv

\* Weights e^x, each with what it weighs: how often <<t, x>> is counted.  Times e^n:
Rescaled(s, n) == [e \in {<<x[1], x[2] + n>> : x \in DOMAIN s} |-> s[<<e[1], e[2] - n>>]]
Weighted(t, x) == [e \in {<<t, x>>} |-> 1]

\* One step: the score of the next key, and the row of its value.
NoScore == -10000 \* less than every score: minus infinity, or -1e30 on a GPU
NoKeys(dims) == [max |-> NoScore, sum |-> Zero, acc |-> [d \in dims |-> Zero]]

\* Faulty: a larger score leaves the sum of the weights as it was.
OnlineStepKeepingSum(s, score, row) ==
    IF score > s.max
    THEN [max |-> score,
          sum |-> Add2(s.sum, Weighted(1, 0)),
          acc |-> [d \in DOMAIN s.acc |->
                     Add2(Rescaled(s.acc[d], s.max - score), Weighted(Elem(3, row + d), 0))]]
    ELSE [s EXCEPT !.sum = Add2(@, Weighted(1, score - s.max)),
                   !.acc = [d \in DOMAIN @ |-> Add2(@[d], Weighted(Elem(3, row + d), score - s.max))]]

OnlineStep(s, score, row) ==
    IF score > s.max
    THEN [max |-> score,
          sum |-> Add2(Rescaled(s.sum, s.max - score), Weighted(1, 0)),
          acc |-> [d \in DOMAIN s.acc |->
                     Add2(Rescaled(s.acc[d], s.max - score), Weighted(Elem(3, row + d), 0))]]
    ELSE [s EXCEPT !.sum = Add2(@, Weighted(1, score - s.max)),
                   !.acc = [d \in DOMAIN @ |-> Add2(@[d], Weighted(Elem(3, row + d), score - s.max))]]

\* The result of a row: the weighted values over the sum of the weights.
Quotient(s, d) == [values |-> s.acc[d], over |-> s.sum]

(* A whole row with the scores of its keys, for the given features.        *)
OnlineRow(b, h, z, dims, scores) ==
    FoldLeft(LAMBDA s, j : OnlineStep(s, scores[j], ValueRow(b, h, j - 1, z)),
             NoKeys(dims), [j \in DOMAIN scores |-> j])

CpuFusedAttention(in, y, a, data) ==
    LET z == AttentionSizes(in)
        dot(b, h, i, j) ==
            Total([d \in 1 .. z.d |-> data[1][QueryRow(b, h, i, z) + d - 1] * data[2][KeyRow(b, h, j, z) + d - 1]])
        row(b, h, i) ==
            LET s == OnlineRow(b, h, z, 0 .. z.dv - 1,
                               [j \in 1 .. VisibleKeys(i, z, a) |-> dot(b, h, i, j - 1)])
            IN  {Store(OutputRow(b, h, i, z) + d, Caller, Quotient(s, d)) : d \in 0 .. z.dv - 1}
    IN  UNION {row(b, h, i) : b \in 0 .. z.outer - 1, h \in 0 .. z.heads - 1, i \in 0 .. z.queries - 1}
-----------------------------------------------------------------------------
\* What a lane has of n features: every WARP-th one, as far as there is room.
LaneItems(lane, n) == {d \in Strided(lane, n, WARP) : d \div WARP < ITEMS}

\* Every lane gets the sum: the partial sums are exchanged at distances WARP / 2, ..., 1.
Butterfly(partial) ==
    LET other(t, h) == IF (t \div h) % 2 = 0 THEN t + h ELSE t - h
    IN  FoldLeft(LAMBDA s, h : [t \in DOMAIN s |-> s[t] + s[other(t, h)]], partial, Halving(WARP))

\* fused_attention_warp_kernel: a warp for a query, a lane for every WARP-th feature.
CudaFusedAttention(in, y, a, data) ==
    LET z == AttentionSizes(in)
        query(w) == [i |-> w % z.queries, h |-> (w \div z.queries) % z.heads,
                     b |-> (w \div z.queries) \div z.heads]
        partial(u, j, lane) ==
            FoldSet(LAMBDA d, sum : sum + data[1][QueryRow(u.b, u.h, u.i, z) + d] * data[2][KeyRow(u.b, u.h, j, z) + d],
                    0, LaneItems(lane, z.d))
        score(u, j, lane) == Butterfly([t \in 0 .. WARP - 1 |-> partial(u, j, t)])[lane]
        result(u, lane) ==
            OnlineRow(u.b, u.h, z, LaneItems(lane, z.dv),
                      [j \in 1 .. VisibleKeys(u.i, z, a) |-> score(u, j - 1, lane)])
        rows == Guarded(z.outer * z.heads * z.queries, WARPS)
    IN  UNION {LET u == query(w)
                   s == result(u, lane)
               IN  {Store(OutputRow(u.b, u.h, u.i, z) + d, <<w, lane>>, Quotient(s, d)) :
                       d \in LaneItems(lane, z.dv)} :
                 w \in rows, lane \in 0 .. WARP - 1}
=============================================================================
