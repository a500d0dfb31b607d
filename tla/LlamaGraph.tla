----------------------------- MODULE LlamaGraph -----------------------------
(* The forward graphs of examples/common/llama/llama_graph.cpp, as what     *)
(* they compute. A hidden row is <<l, context>>: what l layers make of the  *)
(* last token of context, or Junk once something is not what the equations  *)
(* of the model ask for. Operators on single rows that have no other input  *)
(* (the norms, the residual sums) leave a row as it is. A tensor [heads,    *)
(* seq, dim] is a sequence of sequences, heads counting from 1.             *)
EXTENDS Integers, Sequences, SequencesExt

CONSTANTS Layers,   \* cfg.num_layers
          Heads,    \* cfg.num_heads
          KVHeads   \* cfg.effective_num_kv_heads()

ASSUME LlamaShape ==
    /\ {Layers, Heads, KVHeads} \subseteq Nat \ {0}
    /\ Heads % KVHeads = 0

(* The same sequence; TLC evaluates its elements here, and only once.       *)
Tuple(s) == s \o <<>>

Junk == <<-1, <<>>>>
None == "none"

(* The row of the last token of context above l layers; the embedding of a  *)
(* token does not depend on the tokens before it.                           *)
Row(l, context) == <<l, IF l = 0 THEN <<Last(context)>> ELSE context>>

-----------------------------------------------------------------------------
(* ForwardWeights: the linear weights with their scales, and two switches.  *)
LinearNames == {"wq", "wk", "wv", "wo", "gate", "up", "down"}
Linears == (LinearNames \X (1 .. Layers)) \cup {<<"lm_head", 0>>}

FloatWeights(fused) ==
    [fused  |-> fused, quant |-> None,
     weight |-> [n \in Linears |-> [of |-> n, form |-> None]],
     scale  |-> [n \in Linears |-> [of |-> None]]]

(* record_weight_storages_ keeps the storages of the graph they were loaded *)
(* into, and bind_model_weights makes them the inputs of a new graph.       *)
RecordWeightStorages(w) ==
    [wq |-> [l \in 1 .. Layers |-> w.weight[<<"wq", l>>]],
     wk |-> [l \in 1 .. Layers |-> w.weight[<<"wk", l>>]],
     wv |-> [l \in 1 .. Layers |-> w.weight[<<"wv", l>>]],
     wo |-> [l \in 1 .. Layers |-> w.weight[<<"wo", l>>]],
     gate |-> [l \in 1 .. Layers |-> w.weight[<<"gate", l>>]],
     up |-> [l \in 1 .. Layers |-> w.weight[<<"up", l>>]],
     down |-> [l \in 1 .. Layers |-> w.weight[<<"down", l>>]],
     lm_head |-> [l \in {0} |-> w.weight[<<"lm_head", 0>>]]]
BindModelWeights(storages) ==
    [FloatWeights(FALSE) EXCEPT !.weight = [n \in Linears |-> storages[n[1]][n[2]]]]

(* Every linear weight becomes a pair of quantised weight and scale; the    *)
(* embedding and the norms keep their storage.                              *)
QuantizedWeights(w, type) ==
    IF type = None THEN w
    ELSE [w EXCEPT !.quant = type,
                   !.weight = [n \in Linears |-> [of |-> w.weight[n].of, form |-> type]],
                   !.scale  = [n \in Linears |-> [of |-> w.weight[n].of]]]

(* apply_linear: does the product apply the weight of that name?            *)
Applies(w, name) ==
    /\ w.weight[name].of = name
    /\ IF w.quant # None /\ w.scale[name].of # None
       THEN w.weight[name].form = w.quant /\ w.scale[name].of = name
       ELSE w.weight[name].form = None

-----------------------------------------------------------------------------
(* The slice of a projection that belongs to a head; pos is the angle it    *)
(* was rotated by, -1 for none.                                             *)
Slice(name, head, pos, row) == [of |-> name, head |-> head, pos |-> pos, row |-> row]

(* Projection, reshape to [seq, heads, dim] and transposition.              *)
Project(w, name, heads, rows) ==
    Tuple([h \in 1 .. heads |->
        Tuple([s \in DOMAIN rows |-> Slice(name, h, -1, IF Applies(w, name) THEN rows[s] ELSE Junk)])])

(* compute_rope_cache gives row t the angle of position t + pos_offset.     *)
(* Faulty: positions count from one.                                        *)
RopePositionFromOne(t, offset) == t + offset
RopePosition(t, offset) == t - 1 + offset
Rotate(t3, offset) ==
    Tuple([h \in DOMAIN t3 |->
        Tuple([s \in DOMAIN t3[h] |-> [t3[h][s] EXCEPT !.pos = RopePosition(s, offset)]])])

ProjectQKV(w, layer, rows, offset) ==
    [q |-> Rotate(Project(w, <<"wq", layer>>, Heads, rows), offset),
     k |-> Rotate(Project(w, <<"wk", layer>>, KVHeads, rows), offset),
     v |-> Project(w, <<"wv", layer>>, KVHeads, rows)]

(* RepeatKV along axis 0: from 0, output head kv * repeats + r is head kv.  *)
Repeats == Heads \div KVHeads
RepeatKV(t3) == Tuple([h \in 1 .. KVHeads * Repeats |-> t3[(h - 1) \div Repeats + 1]])

(* Faulty: the operands of Concat change places.                            *)
ConcatSeqSwapped(a3, b3) == Tuple([h \in DOMAIN a3 |-> b3[h] \o a3[h]])
ConcatSeq(a3, b3) == Tuple([h \in DOMAIN a3 |-> a3[h] \o b3[h]])

(* compute_causal_mask lets row r see column c unless c > r.                *)
CausalColumns(r, columns) == {c \in 1 .. columns : ~(c > r)}

(* The columns query row i attends to. The decode graph has no mask. The    *)
(* fused kernel aligns the last query with the last key.                    *)
Attended(w, masked, i, queries, keys) ==
    IF w.fused THEN 1 .. (keys - queries + i)
    ELSE IF masked THEN CausalColumns(i, keys)
    ELSE 1 .. keys

(* The context a query sees, if query, keys and values are what the model   *)
(* asks for: all of layer, of the head's group, rotated by their positions. *)
Attend(layer, head, q, keys, values, columns) ==
    LET n == Len(keys)
        group == (head - 1) \div Repeats + 1
        seen == [j \in columns |-> Last(keys[j].row[2])]
        upTo(j) == Row(layer - 1, SubSeq(seen, 1, j))
    IN  IF /\ \E m \in 1 .. n : columns = 1 .. m
           /\ \A j \in columns : keys[j].row # Junk
           /\ q = Slice(<<"wq", layer>>, head, Len(seen) - 1, upTo(Len(seen)))
           /\ \A j \in columns :
                /\ keys[j] = Slice(<<"wk", layer>>, group, j - 1, upTo(j))
                /\ values[j] = Slice(<<"wv", layer>>, group, -1, upTo(j))
        THEN seen ELSE <<>>

AttentionContext(w, masked, layer, q, k, v) ==
    Tuple([h \in 1 .. Heads |->
        Tuple([i \in DOMAIN q[h] |->
            Attend(layer, h, q[h][i], k[h], v[h], Attended(w, masked, i, Len(q[h]), Len(k[h])))])])

(* Heads joined to [seq, hidden], through wo, added to h, through the MLP.  *)
BlockOutput(w, layer, h, context) ==
    Tuple([i \in DOMAIN h |->
        LET seen == context[1][i] IN
        IF /\ \A head \in 1 .. Heads : context[head][i] = seen
           /\ seen # <<>> /\ h[i] = Row(layer - 1, seen)
           /\ \A n \in {"wo", "gate", "up", "down"} : Applies(w, <<n, layer>>)
        THEN Row(layer, seen) ELSE Junk])

AttentionBlock(w, layer, masked, h, q, keys, values) ==
    BlockOutput(w, layer, h,
                AttentionContext(w, masked, layer, q, RepeatKV(keys), RepeatKV(values)))

Embedding(tokens) == [s \in DOMAIN tokens |-> Row(0, <<tokens[s]>>)]

(* Faulty: begins is 0.                                                     *)
SliceFirstToken(rows) == SubSeq(rows, 1, 1)
SliceLastToken(rows) == IF Len(rows) <= 1 THEN rows ELSE SubSeq(rows, Len(rows), Len(rows))

(* The rows of logits: of the whole sequence or of its last token.          *)
Logits(w, h, lastOnly) ==
    LET head_in == IF lastOnly THEN SliceLastToken(h) ELSE h
    IN  [i \in DOMAIN head_in |-> IF Applies(w, <<"lm_head", 0>>) THEN head_in[i] ELSE Junk]

(* build_forward_graph_prefill, with the mask for Len(tokens) rows.         *)
PrefillGraph(w, tokens, lastOnly) ==
    LET L[l \in 0 .. Layers] ==
          IF l = 0 THEN [h |-> Embedding(tokens), k |-> <<>>, v |-> <<>>]
          ELSE LET below == L[l - 1]
                   qkv == ProjectQKV(w, l, below.h, 0)
               IN  [h |-> AttentionBlock(w, l, TRUE, below.h, qkv.q, qkv.k, qkv.v),
                    k |-> Append(below.k, qkv.k), v |-> Append(below.v, qkv.v)]
        top == L[Layers]
    IN  [logits |-> Logits(w, top.h, lastOnly), k |-> top.k, v |-> top.v]

(* build_forward_graph_decode: one token behind the keys and values kv.     *)
DecodeGraph(w, token, pos, kv) ==
    LET L[l \in 0 .. Layers] ==
          IF l = 0 THEN [h |-> Embedding(<<token>>), k |-> <<>>, v |-> <<>>]
          ELSE LET below == L[l - 1]
                   qkv == ProjectQKV(w, l, below.h, pos)
                   keys == ConcatSeq(kv.k[l], qkv.k)
                   values == ConcatSeq(kv.v[l], qkv.v)
               IN  [h |-> AttentionBlock(w, l, FALSE, below.h, qkv.q, keys, values),
                    k |-> Append(below.k, keys), v |-> Append(below.v, values)]
        top == L[Layers]
    IN  [logits |-> Logits(w, top.h, FALSE), k |-> top.k, v |-> top.v]

(* What layer must hold of a session that has seen tokens.                  *)
KeysOf(layer, tokens) ==
    [h \in 1 .. KVHeads |-> [j \in DOMAIN tokens |->
        Slice(<<"wk", layer>>, h, j - 1, Row(layer - 1, SubSeq(tokens, 1, j)))]]
ValuesOf(layer, tokens) ==
    [h \in 1 .. KVHeads |-> [j \in DOMAIN tokens |->
        Slice(<<"wv", layer>>, h, -1, Row(layer - 1, SubSeq(tokens, 1, j)))]]
=============================================================================
