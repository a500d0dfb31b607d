------------------------- MODULE LlamaSessionProofs -------------------------
(***************************************************************************)
(* The session of an engine holds what one forward pass over its tokens    *)
(* would compute, however the tokens came: layer by layer, a prefill graph *)
(* computes the pass, and a decode graph continues it by one token.        *)
(***************************************************************************)
EXTENDS LlamaSession, ProofLemmas, SequenceTheorems

-----------------------------------------------------------------------------
(* Sequences given by their elements.                                      *)

\* A function on 1 .. n is a sequence of n elements, and Tuple does not change it.
LEMMA TupleFacts ==
    ASSUME NEW n \in Nat, NEW f, f = [i \in 1 .. n |-> f[i]]
    PROVE  Len(f) = n /\ DOMAIN f = 1 .. n /\ Tuple(f) = f /\ (n # 0 => f # <<>>)
<1> DEFINE S == {f[i] : i \in 1 .. n}
<1>1. f \in [1 .. n -> S]
  <2>1. [i \in 1 .. n |-> f[i]] \in [1 .. n -> S]
    OBVIOUS
  <2> QED
    BY <2>1
<1>2. f \in Seq(S) /\ Len(f) = n /\ DOMAIN f = 1 .. n
  <2> HIDE DEF S
  <2> QED
    BY <1>1
<1>3. f \o <<>> = f
  <2> HIDE DEF S
  <2> QED
    BY <1>2, ConcatEmptySeq
<1> QED
  BY <1>2, <1>3 DEF Tuple

\* A prefix, element by element, and a prefix of a prefix.
LEMMA PrefixFacts ==
    ASSUME NEW S, NEW t \in Seq(S), NEW c \in 1 .. Len(t)
    PROVE  /\ SubSeq(t, 1, c) \in Seq(S) /\ Len(SubSeq(t, 1, c)) = c
           /\ SubSeq(t, 1, c) = [j \in 1 .. c |-> t[j]]
           /\ SubSeq(t, 1, c) # <<>> /\ Last(SubSeq(t, 1, c)) = t[c]
           /\ \A j \in 1 .. c : SubSeq(SubSeq(t, 1, c), 1, j) = SubSeq(t, 1, j)
<1>1. SubSeq(t, 1, c) \in Seq(S) /\ Len(SubSeq(t, 1, c)) = c
      /\ \A j \in 1 .. c : SubSeq(t, 1, c)[j] = t[j]
  BY SubSeqProperties
<1>2. SubSeq(t, 1, c) = [j \in 1 .. c |-> t[j]]
  BY <1>1
<1>3. ASSUME NEW j \in 1 .. c PROVE SubSeq(SubSeq(t, 1, c), 1, j) = SubSeq(t, 1, j)
  <2>1. SubSeq(SubSeq(t, 1, c), 1, j) = [i \in 1 .. j |-> SubSeq(t, 1, c)[i]]
    BY <1>1
  <2>2. SubSeq(t, 1, j) = [i \in 1 .. j |-> t[i]]
    OBVIOUS
  <2>3. \A i \in 1 .. j : SubSeq(t, 1, c)[i] = t[i]
    BY <1>1
  <2> QED
    BY <2>1, <2>2, <2>3
<1>4. Last(SubSeq(t, 1, c)) = t[c]
  BY <1>1 DEF Last
<1> QED
  BY <1>1, <1>2, <1>3, <1>4

-----------------------------------------------------------------------------
(* One layer.                                                              *)

\* The weights a session uses are those that were loaded, under their names.
LEMMA WeightsApply ==
    /\ W.fused = FALSE
    /\ \A name \in Linears : Applies(W, name)
<1>1. W.fused = FALSE /\ W.quant = None
  BY DEF W, BindModelWeights, FloatWeights
<1>2. ASSUME NEW name \in Linears
      PROVE  W.weight[name] = [of |-> name, form |-> None] /\ W.scale[name] = [of |-> None]
  <2> DEFINE st == RecordWeightStorages(FloatWeights(FALSE))
  <2>1. W.weight[name] = st[name[1]][name[2]] /\ W.scale[name] = [of |-> None]
    BY DEF W, BindModelWeights, FloatWeights
  <2>2. \A n \in Linears : FloatWeights(FALSE).weight[n] = [of |-> n, form |-> None]
    BY DEF FloatWeights
  <2>3. CASE name = <<"lm_head", 0>>
    BY <2>1, <2>2, <2>3 DEF RecordWeightStorages
  <2>4. CASE name # <<"lm_head", 0>>
    <3>1. PICK x \in LinearNames, l \in 1 .. Layers : name = <<x, l>>
      BY <2>4 DEF Linears
    <3>2. st[x] = [k \in 1 .. Layers |-> FloatWeights(FALSE).weight[<<x, k>>]]
      <4>1. CASE x = "wq"
        BY <4>1 DEF RecordWeightStorages
      <4>2. CASE x = "wk"
        BY <4>2 DEF RecordWeightStorages
      <4>3. CASE x = "wv"
        BY <4>3 DEF RecordWeightStorages
      <4>4. CASE x = "wo"
        BY <4>4 DEF RecordWeightStorages
      <4>5. CASE x = "gate"
        BY <4>5 DEF RecordWeightStorages
      <4>6. CASE x = "up"
        BY <4>6 DEF RecordWeightStorages
      <4>7. CASE x = "down"
        BY <4>7 DEF RecordWeightStorages
      <4> QED
        BY <4>1, <4>2, <4>3, <4>4, <4>5, <4>6, <4>7 DEF LinearNames
    <3> HIDE DEF st
    <3> QED
      BY <2>1, <2>2, <3>1, <3>2
  <2> QED
    BY <2>3, <2>4
<1>3. ASSUME NEW name \in Linears PROVE Applies(W, name)
  <2>1. W.weight[name] = [of |-> name, form |-> None]
    BY <1>2
  <2>2. W.weight[name].of = name /\ W.weight[name].form = None
    BY <2>1
  <2> QED
    BY <1>1, <2>2 DEF Applies
<1> QED
  BY <1>1, <1>3

\* The slices of n rows for a number of heads, and rotated from a position on.
Slices(name, heads, rows, n) ==
    [h \in 1 .. heads |-> [s \in 1 .. n |-> Slice(name, h, -1, rows[s])]]
RotatedSlices(name, heads, rows, n, offset) ==
    [h \in 1 .. heads |-> [s \in 1 .. n |-> Slice(name, h, s - 1 + offset, rows[s])]]

\* What a projection computes for each head and row.
LEMMA ProjectFacts ==
    ASSUME NEW name \in Linears, NEW heads \in Nat, NEW n \in Nat,
           NEW rows, DOMAIN rows = 1 .. n
    PROVE  Project(W, name, heads, rows) = Slices(name, heads, rows, n)
<1> USE DEF Slices
<1> DEFINE head(h) == [s \in DOMAIN rows |-> Slice(name, h, -1, IF Applies(W, name) THEN rows[s] ELSE Junk)]
           all == [h \in 1 .. heads |-> Tuple(head(h))]
<1>1. Applies(W, name)
  BY WeightsApply
<1>2. ASSUME NEW h \in 1 .. heads
      PROVE  Tuple(head(h)) = [s \in 1 .. n |-> Slice(name, h, -1, rows[s])]
  <2>2. head(h) = [s \in 1 .. n |-> Slice(name, h, -1, rows[s])]
    BY <1>1
  <2>3. head(h) = [s \in 1 .. n |-> head(h)[s]]
    BY <2>2
  <2> HIDE DEF head
  <2> QED
    BY <2>2, <2>3, TupleFacts
<1>3. Tuple(all) = all
  <2>1. all = [h \in 1 .. heads |-> all[h]]
    OBVIOUS
  <2> HIDE DEF all
  <2> QED
    BY <2>1, TupleFacts
<1>4. all = [h \in 1 .. heads |-> [s \in 1 .. n |-> Slice(name, h, -1, rows[s])]]
  BY <1>2
<1>5. Project(W, name, heads, rows) = Tuple(all)
  BY DEF Project
<1> QED
  BY <1>3, <1>4, <1>5

\* The same, rotated by the positions from offset on.
LEMMA RotateFacts ==
    ASSUME NEW name, NEW heads \in Nat, NEW n \in Nat, NEW rows, NEW offset \in Nat, NEW t3,
           t3 = Slices(name, heads, rows, n)
    PROVE  Rotate(t3, offset) = RotatedSlices(name, heads, rows, n, offset)
<1> USE DEF Slices, RotatedSlices
<1> DEFINE head(h) == [s \in DOMAIN t3[h] |-> [t3[h][s] EXCEPT !.pos = RopePosition(s, offset)]]
           all == [h \in DOMAIN t3 |-> Tuple(head(h))]
<1>1. DOMAIN t3 = 1 .. heads
  OBVIOUS
<1>2. ASSUME NEW h \in 1 .. heads
      PROVE  Tuple(head(h)) = [s \in 1 .. n |-> Slice(name, h, s - 1 + offset, rows[s])]
  <2>1. t3[h] = [s \in 1 .. n |-> Slice(name, h, -1, rows[s])]
    OBVIOUS
  <2>2. ASSUME NEW s \in 1 .. n
        PROVE  [t3[h][s] EXCEPT !.pos = RopePosition(s, offset)] = Slice(name, h, s - 1 + offset, rows[s])
    <3>1. t3[h][s] = [of |-> name, head |-> h, pos |-> -1, row |-> rows[s]]
      BY <2>1 DEF Slice
    <3>2. RopePosition(s, offset) = s - 1 + offset
      BY DEF RopePosition
    <3> QED
      BY <3>1, <3>2 DEF Slice
  <2>3. head(h) = [s \in 1 .. n |-> Slice(name, h, s - 1 + offset, rows[s])]
    BY <2>1, <2>2
  <2>4. head(h) = [s \in 1 .. n |-> head(h)[s]]
    BY <2>3
  <2> HIDE DEF head
  <2> QED
    BY <2>3, <2>4, TupleFacts
<1>3. Tuple(all) = all
  <2>1. all = [h \in 1 .. heads |-> all[h]]
    BY <1>1
  <2> HIDE DEF all
  <2> QED
    BY <2>1, TupleFacts
<1>4. all = [h \in 1 .. heads |-> [s \in 1 .. n |-> Slice(name, h, s - 1 + offset, rows[s])]]
  BY <1>1, <1>2
<1>5. Rotate(t3, offset) = Tuple(all)
  BY DEF Rotate
<1> QED
  BY <1>3, <1>4, <1>5

\* The keys and values a layer holds of tokens: a sequence for each head.
LEMMA HeldFacts ==
    ASSUME NEW S, NEW tokens \in Seq(S), NEW layer \in 1 .. Layers
    PROVE  /\ KeysOf(layer, tokens) = [h \in 1 .. KVHeads |-> [j \in 1 .. Len(tokens) |->
                  Slice(<<"wk", layer>>, h, j - 1, Row(layer - 1, SubSeq(tokens, 1, j)))]]
           /\ ValuesOf(layer, tokens) = [h \in 1 .. KVHeads |-> [j \in 1 .. Len(tokens) |->
                  Slice(<<"wv", layer>>, h, -1, Row(layer - 1, SubSeq(tokens, 1, j)))]]
           /\ \A h \in 1 .. KVHeads : /\ Len(KeysOf(layer, tokens)[h]) = Len(tokens)
                                      /\ DOMAIN KeysOf(layer, tokens)[h] = 1 .. Len(tokens)
<1>1. DOMAIN tokens = 1 .. Len(tokens) /\ Len(tokens) \in Nat
  OBVIOUS
<1>2. KeysOf(layer, tokens) = [h \in 1 .. KVHeads |-> [j \in 1 .. Len(tokens) |->
          Slice(<<"wk", layer>>, h, j - 1, Row(layer - 1, SubSeq(tokens, 1, j)))]]
  BY <1>1 DEF KeysOf
<1>3. ValuesOf(layer, tokens) = [h \in 1 .. KVHeads |-> [j \in 1 .. Len(tokens) |->
          Slice(<<"wv", layer>>, h, -1, Row(layer - 1, SubSeq(tokens, 1, j)))]]
  BY <1>1 DEF ValuesOf
<1>4. ASSUME NEW h \in 1 .. KVHeads
      PROVE  /\ Len(KeysOf(layer, tokens)[h]) = Len(tokens)
             /\ DOMAIN KeysOf(layer, tokens)[h] = 1 .. Len(tokens)
  <2>1. PICK f : f = KeysOf(layer, tokens)[h]
    OBVIOUS
  <2>2. f = [j \in 1 .. Len(tokens) |->
               Slice(<<"wk", layer>>, h, j - 1, Row(layer - 1, SubSeq(tokens, 1, j)))]
    BY <1>2, <2>1
  <2>3. f = [j \in 1 .. Len(tokens) |-> f[j]]
    BY <2>2
  <2> QED
    BY <1>1, <2>1, <2>3, TupleFacts
<1> QED
  BY <1>2, <1>3, <1>4

\* Each head has a group of keys and values.
LEMMA GroupFacts ==
    /\ Repeats \in Nat \ {0} /\ KVHeads * Repeats = Heads
    /\ \A h \in 1 .. Heads : (h - 1) \div Repeats + 1 \in 1 .. KVHeads
<1>1. Heads \in Nat /\ KVHeads \in Nat /\ Heads > 0 /\ KVHeads > 0 /\ Heads % KVHeads = 0
  BY LlamaShape
<1>2. Heads = KVHeads * Repeats /\ Repeats \in Nat
  BY <1>1 DEF Repeats
<1>3. Repeats # 0
  BY <1>1, <1>2
<1>4. ASSUME NEW h \in 1 .. Heads PROVE (h - 1) \div Repeats + 1 \in 1 .. KVHeads
  <2>1. PICK d : d = (h - 1) \div Repeats
    OBVIOUS
  <2>2. h - 1 \in Nat /\ Repeats \in Nat /\ Repeats > 0
    BY <1>1, <1>2, <1>3
  <2>3. d \in Nat /\ Repeats * d <= h - 1
    BY <2>1, <2>2
  <2>4. ASSUME d >= KVHeads PROVE FALSE
    <3>1. Repeats * d >= Repeats * KVHeads
      BY <1>1, <2>2, <2>3, <2>4
    <3> QED
      BY <1>1, <1>2, <2>2, <2>3, <3>1
  <2> QED
    BY <1>1, <2>1, <2>3, <2>4
<1> QED
  BY <1>2, <1>3, <1>4

\* Every head reads its group.
LEMMA RepeatFacts ==
    ASSUME NEW t3
    PROVE  RepeatKV(t3) = [h \in 1 .. Heads |-> t3[(h - 1) \div Repeats + 1]]
<1> DEFINE all == [h \in 1 .. KVHeads * Repeats |-> t3[(h - 1) \div Repeats + 1]]
<1>1. all = [h \in 1 .. Heads |-> all[h]] /\ all = [h \in 1 .. Heads |-> t3[(h - 1) \div Repeats + 1]]
  BY GroupFacts
<1>2. Heads \in Nat
  BY LlamaShape
<1>3. Tuple(all) = all
  <2> HIDE DEF all
  <2> QED
    BY <1>1, <1>2, TupleFacts
<1> QED
  BY <1>1, <1>3 DEF RepeatKV

\* The last token of a row's context, also where the row is an embedding.
LEMMA RowFacts ==
    ASSUME NEW l \in Nat, NEW S, NEW t \in Seq(S), t # <<>>
    PROVE  Last(Row(l, t)[2]) = Last(t) /\ Row(l, t) # Junk
<1>1. CASE l = 0
  BY <1>1 DEF Row, Last, Junk
<1>2. CASE l # 0
  BY <1>2 DEF Row, Junk
<1> QED
  BY <1>1, <1>2

\* A query that is given the keys and values of a pass sees its own context.
LEMMA AttendFacts ==
    ASSUME NEW S, NEW tokens \in Seq(S), NEW layer \in 1 .. Layers, NEW head \in 1 .. Heads,
           NEW c \in 1 .. Len(tokens), NEW q,
           q = Slice(<<"wq", layer>>, head, c - 1, Row(layer - 1, SubSeq(tokens, 1, c)))
    PROVE  Attend(layer, head, q, KeysOf(layer, tokens)[(head - 1) \div Repeats + 1],
                  ValuesOf(layer, tokens)[(head - 1) \div Repeats + 1], 1 .. c) = SubSeq(tokens, 1, c)
<1>1. PICK group : group = (head - 1) \div Repeats + 1
  OBVIOUS
<1>2. group \in 1 .. KVHeads
  BY <1>1, GroupFacts
<1>3. PICK keys, values : keys = KeysOf(layer, tokens)[group] /\ values = ValuesOf(layer, tokens)[group]
  OBVIOUS
<1>4. layer - 1 \in Nat /\ Len(tokens) \in Nat /\ c \in Nat /\ c # 0
  BY LlamaShape
<1>5. ASSUME NEW j \in 1 .. c
      PROVE  /\ keys[j] = Slice(<<"wk", layer>>, group, j - 1, Row(layer - 1, SubSeq(tokens, 1, j)))
             /\ values[j] = Slice(<<"wv", layer>>, group, -1, Row(layer - 1, SubSeq(tokens, 1, j)))
  <2> DEFINE k(h) == [i \in 1 .. Len(tokens) |->
                        Slice(<<"wk", layer>>, h, i - 1, Row(layer - 1, SubSeq(tokens, 1, i)))]
             v(h) == [i \in 1 .. Len(tokens) |->
                        Slice(<<"wv", layer>>, h, -1, Row(layer - 1, SubSeq(tokens, 1, i)))]
  <2>1. keys = k(group)
    <3>1. KeysOf(layer, tokens) = [h \in 1 .. KVHeads |-> k(h)]
      <4>1. DOMAIN tokens = 1 .. Len(tokens)
        OBVIOUS
      <4> QED
        BY <4>1 DEF KeysOf
    <3> HIDE DEF k
    <3> QED
      BY <1>2, <1>3, <3>1
  <2>2. values = v(group)
    <3>1. ValuesOf(layer, tokens) = [h \in 1 .. KVHeads |-> v(h)]
      <4>1. DOMAIN tokens = 1 .. Len(tokens)
        OBVIOUS
      <4> QED
        BY <4>1 DEF ValuesOf
    <3> HIDE DEF v
    <3> QED
      BY <1>2, <1>3, <3>1
  <2>3. j \in 1 .. Len(tokens)
    OBVIOUS
  <2> QED
    BY <2>1, <2>2, <2>3
<1>6. \A j \in 1 .. c : Last(keys[j].row[2]) = tokens[j] /\ keys[j].row # Junk
  <2> TAKE j \in 1 .. c
  <2>1. keys[j].row = Row(layer - 1, SubSeq(tokens, 1, j))
    <3>1. keys[j] = Slice(<<"wk", layer>>, group, j - 1, Row(layer - 1, SubSeq(tokens, 1, j)))
      BY <1>5
    <3> QED
      BY <3>1 DEF Slice
  <2>2. /\ SubSeq(tokens, 1, j) \in Seq(S) /\ SubSeq(tokens, 1, j) # <<>>
        /\ Last(SubSeq(tokens, 1, j)) = tokens[j]
    <3>1. j \in 1 .. Len(tokens)
      OBVIOUS
    <3> QED
      BY <3>1, PrefixFacts
  <2> QED
    BY <1>4, <2>1, <2>2, RowFacts
<1>7. PICK seen : seen = [j \in 1 .. c |-> Last(keys[j].row[2])]
  OBVIOUS
<1>8. seen = SubSeq(tokens, 1, c)
  <2>1. seen = [j \in 1 .. c |-> tokens[j]]
    BY <1>6, <1>7
  <2> QED
    BY <2>1, PrefixFacts
<1>9. Len(seen) = c /\ \A j \in 1 .. c : SubSeq(seen, 1, j) = SubSeq(tokens, 1, j)
  BY <1>8, PrefixFacts
<1>10. Len(keys) = Len(tokens)
  BY <1>2, <1>3, HeldFacts
<1>11. q = Slice(<<"wq", layer>>, head, Len(seen) - 1, Row(layer - 1, SubSeq(seen, 1, Len(seen))))
  <2>1. SubSeq(seen, 1, c) = SubSeq(tokens, 1, c)
    BY <1>4, <1>9
  <2> QED
    BY <1>9, <2>1
<1>12. \A j \in 1 .. c :
          /\ keys[j] = Slice(<<"wk", layer>>, group, j - 1, Row(layer - 1, SubSeq(seen, 1, j)))
          /\ values[j] = Slice(<<"wv", layer>>, group, -1, Row(layer - 1, SubSeq(seen, 1, j)))
  BY <1>5, <1>9
<1>13. \E m \in 1 .. Len(keys) : 1 .. c = 1 .. m
  BY <1>10
<1>14. Attend(layer, head, q, keys, values, 1 .. c) = seen
  BY <1>1, <1>6, <1>7, <1>11, <1>12, <1>13 DEF Attend
<1> QED
  BY <1>1, <1>3, <1>8, <1>14

\* The rows above l layers of the m tokens behind the first p.
Rows(l, tokens, p, m) == [i \in 1 .. m |-> Row(l, SubSeq(tokens, 1, p + i))]

\* The m tokens behind the first p are the last, below are their rows and q the queries
\* of a layer. A mask is needed for several tokens and counts columns from the first.
Queries(layer, tokens, p, m, masked, below, q) ==
    /\ p \in Nat /\ m \in Nat /\ p + m = Len(tokens)
    /\ IF masked THEN p = 0 ELSE m = 1
    /\ below = Rows(layer - 1, tokens, p, m)
    /\ q = RotatedSlices(<<"wq", layer>>, Heads, below, m, p)

\* A block takes rows of a pass to rows of the pass one layer above, if the keys and
\* values it is given are those of the pass: with a mask for all tokens at once,
\* without one for the last token.
LEMMA BlockFacts ==
    ASSUME NEW S, NEW tokens \in Seq(S), NEW layer \in 1 .. Layers, NEW masked,
           NEW p, NEW m, NEW below, NEW q, Queries(layer, tokens, p, m, masked, below, q)
    PROVE  AttentionBlock(W, layer, masked, below, q,
                          KeysOf(layer, tokens), ValuesOf(layer, tokens)) = Rows(layer, tokens, p, m)
<1> USE DEF RotatedSlices
<1> DEFINE n == Len(tokens)
           k == RepeatKV(KeysOf(layer, tokens))
           v == RepeatKV(ValuesOf(layer, tokens))
           group(h) == (h - 1) \div Repeats + 1
           seen == [h \in 1 .. Heads |-> [i \in 1 .. m |-> SubSeq(tokens, 1, p + i)]]
           context(h) == [i \in DOMAIN q[h] |->
              Attend(layer, h, q[h][i], k[h], v[h], Attended(W, masked, i, Len(q[h]), Len(k[h])))]
           all == [h \in 1 .. Heads |-> Tuple(context(h))]
<1>1. Heads \in Nat /\ Heads # 0 /\ n \in Nat /\ layer - 1 \in Nat
  BY LlamaShape
<1> /\ p \in Nat /\ m \in Nat /\ p + m = Len(tokens)
    /\ below = Rows(layer - 1, tokens, p, m)
    /\ q = RotatedSlices(<<"wq", layer>>, Heads, below, m, p)
  BY DEF Queries
<1>2. \A i \in 1 .. m : p + i \in 1 .. n
  OBVIOUS
<1>3. ASSUME NEW h \in 1 .. Heads PROVE Len(q[h]) = m /\ DOMAIN q[h] = 1 .. m
  <2>1. PICK f : f = q[h]
    OBVIOUS
  <2>2. f = [i \in 1 .. m |-> f[i]]
    BY <2>1
  <2> QED
    BY <2>1, <2>2, TupleFacts
<1>4. ASSUME NEW h \in 1 .. Heads
      PROVE  /\ k[h] = KeysOf(layer, tokens)[group(h)] /\ v[h] = ValuesOf(layer, tokens)[group(h)]
             /\ Len(k[h]) = n
  <2>1. k[h] = KeysOf(layer, tokens)[group(h)] /\ v[h] = ValuesOf(layer, tokens)[group(h)]
    BY RepeatFacts
  <2>2. group(h) \in 1 .. KVHeads
    BY GroupFacts
  <2>3. \A g \in 1 .. KVHeads : Len(KeysOf(layer, tokens)[g]) = n
    BY HeldFacts
  <2> HIDE DEF k, v, group
  <2> QED
    BY <2>1, <2>2, <2>3
<1>5. ASSUME NEW i \in 1 .. m PROVE Attended(W, masked, i, m, n) = 1 .. (p + i)
  <2>1. W.fused = FALSE
    BY WeightsApply
  <2>2. CASE masked
    <3>1. Attended(W, masked, i, m, n) = {c \in 1 .. n : ~(c > i)}
      BY <2>1, <2>2 DEF Attended, CausalColumns
    <3>2. p = 0 /\ i \in 1 .. n
      <4>1. p = 0
        BY <2>2 DEF Queries
      <4> QED
        BY <1>2, <4>1
    <3>3. {c \in 1 .. n : ~(c > i)} = 1 .. i
      BY <1>1, <3>2
    <3> QED
      BY <3>1, <3>2, <3>3
  <2>3. CASE ~masked
    <3>1. m = 1
      BY <2>3 DEF Queries
    <3>2. Attended(W, masked, i, m, n) = 1 .. n
      BY <2>1, <2>3 DEF Attended
    <3> QED
      BY <1>1, <3>1, <3>2
  <2> QED
    BY <2>2, <2>3
<1>6. ASSUME NEW h \in 1 .. Heads PROVE Tuple(context(h)) = seen[h]
  <2>1. ASSUME NEW i \in 1 .. m
        PROVE  Attend(layer, h, q[h][i], k[h], v[h], Attended(W, masked, i, Len(q[h]), Len(k[h])))
                 = SubSeq(tokens, 1, p + i)
    <3>1. Attended(W, masked, i, Len(q[h]), Len(k[h])) = 1 .. (p + i)
      BY <1>3, <1>4, <1>5
    <3>2. q[h][i] = Slice(<<"wq", layer>>, h, p + i - 1, Row(layer - 1, SubSeq(tokens, 1, p + i)))
      <4>1. i - 1 + p = p + i - 1
        OBVIOUS
      <4> QED
        BY <4>1 DEF Rows
    <3>3. p + i \in 1 .. n
      BY <1>2
    <3>4. Attend(layer, h, q[h][i], KeysOf(layer, tokens)[group(h)], ValuesOf(layer, tokens)[group(h)],
                 1 .. (p + i)) = SubSeq(tokens, 1, p + i)
      <4>1. PICK c \in 1 .. n : c = p + i
        BY <3>3
      <4>2. PICK x : x = q[h][i]
        OBVIOUS
      <4>3. x = Slice(<<"wq", layer>>, h, c - 1, Row(layer - 1, SubSeq(tokens, 1, c)))
        BY <3>2, <4>1, <4>2
      <4>4. Attend(layer, h, x, KeysOf(layer, tokens)[group(h)], ValuesOf(layer, tokens)[group(h)],
                   1 .. c) = SubSeq(tokens, 1, c)
        BY <4>3, AttendFacts
      <4> QED
        BY <4>1, <4>2, <4>4
    <3> HIDE DEF k, v, group
    <3> QED
      BY <1>4, <3>1, <3>4
  <2>2. context(h) = [i \in 1 .. m |-> SubSeq(tokens, 1, p + i)]
    BY <1>3, <2>1
  <2>3. context(h) = [i \in 1 .. m |-> context(h)[i]]
    BY <2>2
  <2> HIDE DEF context
  <2> QED
    BY <2>2, <2>3, TupleFacts
<1>7. AttentionContext(W, masked, layer, q, k, v) = seen
  <2>1. all = seen
    BY <1>6
  <2>2. all = [h \in 1 .. Heads |-> all[h]]
    OBVIOUS
  <2>3. Tuple(all) = all
    <3> HIDE DEF all
    <3> QED
      BY <1>1, <2>2, TupleFacts
  <2> QED
    BY <2>1, <2>3 DEF AttentionContext
<1>8. below = [i \in 1 .. m |-> below[i]] /\ DOMAIN below = 1 .. m
  BY DEF Rows
<1> DEFINE out == [i \in DOMAIN below |->
              LET see == seen[1][i] IN
              IF /\ \A head \in 1 .. Heads : seen[head][i] = see
                 /\ see # <<>> /\ below[i] = Row(layer - 1, see)
                 /\ \A name \in {"wo", "gate", "up", "down"} : Applies(W, <<name, layer>>)
              THEN Row(layer, see) ELSE Junk]
<1>9. out = Rows(layer, tokens, p, m)
  <2>1. \A name \in {"wo", "gate", "up", "down"} : Applies(W, <<name, layer>>)
    <3>1. \A name \in LinearNames : <<name, layer>> \in Linears
      BY DEF Linears
    <3> QED
      BY <3>1, WeightsApply DEF LinearNames
  <2>2. ASSUME NEW i \in 1 .. m PROVE out[i] = Row(layer, SubSeq(tokens, 1, p + i))
    <3>1. SubSeq(tokens, 1, p + i) # <<>>
      BY <1>2, PrefixFacts
    <3>2. \A head \in 1 .. Heads : seen[head][i] = SubSeq(tokens, 1, p + i)
      OBVIOUS
    <3>3. seen[1][i] = SubSeq(tokens, 1, p + i)
      BY <1>1
    <3>4. below[i] = Row(layer - 1, SubSeq(tokens, 1, p + i))
      BY DEF Rows
    <3> HIDE DEF seen
    <3> QED
      BY <1>8, <2>1, <3>1, <3>2, <3>3, <3>4
  <2>3. DOMAIN out = 1 .. m /\ out = [i \in 1 .. m |-> out[i]]
    BY <1>8
  <2> HIDE DEF out
  <2> QED
    BY <2>2, <2>3 DEF Rows
<1>10. BlockOutput(W, layer, below, seen) = out
  <2>1. out = [i \in 1 .. m |-> out[i]]
    BY <1>8
  <2>2. Tuple(out) = out
    <3> HIDE DEF out
    <3> QED
      BY <2>1, TupleFacts
  <2> QED
    BY <2>2 DEF BlockOutput
<1> HIDE DEF seen, out, k, v
<1> QED
  BY <1>7, <1>9, <1>10 DEF AttentionBlock, k, v

\* The projections of the rows of a pass, rotated by their own positions.
LEMMA QKVFacts ==
    ASSUME NEW tokens, NEW layer \in 1 .. Layers, NEW p \in Nat, NEW m \in Nat, NEW rows,
           rows = Rows(layer - 1, tokens, p, m)
    PROVE  ProjectQKV(W, layer, rows, p) = [q |-> RotatedSlices(<<"wq", layer>>, Heads, rows, m, p),
                                            k |-> RotatedSlices(<<"wk", layer>>, KVHeads, rows, m, p),
                                            v |-> Slices(<<"wv", layer>>, KVHeads, rows, m)]
<1>1. DOMAIN rows = 1 .. m
  BY DEF Rows
<1>2. Heads \in Nat /\ KVHeads \in Nat
  BY LlamaShape
<1>3. <<"wq", layer>> \in Linears /\ <<"wk", layer>> \in Linears /\ <<"wv", layer>> \in Linears
  BY DEF Linears, LinearNames
<1>4. ASSUME NEW name \in Linears, NEW heads \in Nat
      PROVE  /\ Project(W, name, heads, rows) = Slices(name, heads, rows, m)
             /\ Rotate(Slices(name, heads, rows, m), p) = RotatedSlices(name, heads, rows, m, p)
  BY <1>1, ProjectFacts, RotateFacts
<1> QED
  BY <1>2, <1>3, <1>4 DEF ProjectQKV

\* The keys and values of the first l layers.
HeldKeys(l, tokens) == [i \in 1 .. l |-> KeysOf(i, tokens)]
HeldValues(l, tokens) == [i \in 1 .. l |-> ValuesOf(i, tokens)]

\* What both graphs compute layer by layer: the rows and what the cache is given.
Pass(l, tokens, p, m) ==
    [h |-> Rows(l, tokens, p, m), k |-> HeldKeys(l, tokens), v |-> HeldValues(l, tokens)]

\* One more layer.
LEMMA AppendLayer ==
    ASSUME NEW l \in Nat, l # 0, NEW f
    PROVE  Append([i \in 1 .. l - 1 |-> f[i]], f[l]) = [i \in 1 .. l |-> f[i]]
<1> DEFINE S == {f[i] : i \in 1 .. l}
           lower == [i \in 1 .. l - 1 |-> f[i]]
<1>1. lower \in [1 .. l - 1 -> S] /\ f[l] \in S /\ l - 1 \in Nat
  OBVIOUS
<1>2. lower \in Seq(S) /\ Len(lower) = l - 1 /\ \A i \in 1 .. l - 1 : lower[i] = f[i]
  <2> HIDE DEF S
  <2> QED
    BY <1>1
<1> HIDE DEF S, lower
<1>3. Append(lower, f[l]) \in Seq(S) /\ Len(Append(lower, f[l])) = l
      /\ \A i \in 1 .. l : Append(lower, f[l])[i] = f[i]
  BY <1>1, <1>2
<1>4. Append(lower, f[l]) = [i \in 1 .. l |-> f[i]]
  BY <1>3
<1> QED
  BY <1>4 DEF lower

\* The cache of one layer more.
LEMMA HeldGrows ==
    ASSUME NEW l \in 1 .. Layers, NEW tokens
    PROVE  /\ Append(HeldKeys(l - 1, tokens), KeysOf(l, tokens)) = HeldKeys(l, tokens)
           /\ Append(HeldValues(l - 1, tokens), ValuesOf(l, tokens)) = HeldValues(l, tokens)
<1>1. PICK f, g : f = HeldKeys(l, tokens) /\ g = HeldValues(l, tokens)
  OBVIOUS
<1> USE DEF HeldKeys, HeldValues
<1>2. l \in Nat /\ l # 0
  BY LlamaShape
<1>3. /\ [i \in 1 .. l - 1 |-> f[i]] = [i \in 1 .. l - 1 |-> KeysOf(i, tokens)]
      /\ [i \in 1 .. l - 1 |-> g[i]] = [i \in 1 .. l - 1 |-> ValuesOf(i, tokens)]
      /\ [i \in 1 .. l |-> f[i]] = f /\ [i \in 1 .. l |-> g[i]] = g
  BY <1>1, <1>2
<1>4. Append([i \in 1 .. l - 1 |-> f[i]], f[l]) = f /\ Append([i \in 1 .. l - 1 |-> g[i]], g[l]) = g
  BY <1>2, <1>3, AppendLayer
<1>5. f[l] = KeysOf(l, tokens) /\ g[l] = ValuesOf(l, tokens)
  BY <1>1, <1>2
<1>6. /\ Append([i \in 1 .. l - 1 |-> KeysOf(i, tokens)], KeysOf(l, tokens)) = f
      /\ Append([i \in 1 .. l - 1 |-> ValuesOf(i, tokens)], ValuesOf(l, tokens)) = g
  BY <1>3, <1>4, <1>5
<1> QED
  BY <1>1, <1>6

\* The logits of a pass: of every row, or of the last.
LEMMA LogitsFacts ==
    ASSUME NEW S, NEW tokens \in Seq(S), tokens # <<>>, NEW lastOnly \in BOOLEAN,
           NEW p \in Nat, NEW m \in Nat \ {0}, p + m = Len(tokens)
    PROVE  Logits(W, Rows(Layers, tokens, p, m), lastOnly)
             = IF lastOnly THEN <<Row(Layers, tokens)>> ELSE Rows(Layers, tokens, p, m)
<1> DEFINE rows == Rows(Layers, tokens, p, m)
           out == IF lastOnly THEN <<Row(Layers, tokens)>> ELSE rows
           S1 == {rows[i] : i \in 1 .. m}
<1>1. Applies(W, <<"lm_head", 0>>)
  BY WeightsApply DEF Linears
<1>2. rows \in [1 .. m -> S1]
  <2>1. rows = [i \in 1 .. m |-> rows[i]]
    BY DEF Rows
  <2> HIDE DEF rows
  <2> QED
    BY <2>1
<1>3. rows \in Seq(S1) /\ Len(rows) = m /\ rows # <<>>
  <2> HIDE DEF rows, S1
  <2> QED
    BY <1>2
<1>4. rows[m] = Row(Layers, tokens)
  <2>1. rows[m] = Row(Layers, SubSeq(tokens, 1, p + m))
    BY DEF Rows
  <2>2. SubSeq(tokens, 1, Len(tokens)) = tokens
    BY SubSeqFull
  <2> QED
    BY <2>1, <2>2
<1> HIDE DEF S1, rows
<1>5. SliceLastToken(rows) = <<rows[m]>>
  <2>1. CASE m = 1
    BY <1>3, <2>1 DEF SliceLastToken
  <2>2. CASE m # 1
    <3>1. SubSeq(rows, m, m) \in Seq(S1) /\ Len(SubSeq(rows, m, m)) = 1 /\ SubSeq(rows, m, m)[1] = rows[m]
      BY <1>3, SubSeqProperties
    <3>2. SubSeq(rows, m, m) = [i \in 1 .. 1 |-> SubSeq(rows, m, m)[i]]
      BY <3>1
    <3>3. SubSeq(rows, m, m) = <<rows[m]>>
      BY <3>1, <3>2
    <3> QED
      BY <1>3, <2>2, <3>3 DEF SliceLastToken
  <2> QED
    BY <2>1, <2>2
<1>6. ASSUME NEW s, s = [i \in DOMAIN s |-> s[i]]
      PROVE  [i \in DOMAIN s |-> IF Applies(W, <<"lm_head", 0>>) THEN s[i] ELSE Junk] = s
  BY <1>1, <1>6
<1>7. CASE lastOnly
  <2>1. PICK s : s = SliceLastToken(rows)
    OBVIOUS
  <2>2. s = <<Row(Layers, tokens)>>
    BY <1>4, <1>5, <2>1
  <2>3. s = [i \in DOMAIN s |-> s[i]]
    BY <2>2
  <2>4. Logits(W, rows, lastOnly) = s
    BY <1>6, <1>7, <2>1, <2>3 DEF Logits
  <2> QED
    BY <1>7, <2>2, <2>4 DEF rows
<1>8. CASE ~lastOnly
  <2>1. rows = [i \in DOMAIN rows |-> rows[i]]
    BY <1>2
  <2>2. Logits(W, rows, lastOnly) = rows
    BY <1>6, <1>8, <2>1 DEF Logits
  <2> QED
    BY <1>8, <2>2 DEF rows
<1> QED
  BY <1>7, <1>8

\* What a prefill graph computes: the pass over its tokens, and of the logits the
\* rows it was asked for.
LEMMA PrefillFacts ==
    ASSUME NEW S, NEW tokens \in Seq(S), tokens # <<>>, NEW lastOnly \in BOOLEAN
    PROVE  PrefillGraph(W, tokens, lastOnly)
             = [logits |-> IF lastOnly THEN <<Row(Layers, tokens)>> ELSE Rows(Layers, tokens, 0, Len(tokens)),
                k |-> HeldKeys(Layers, tokens), v |-> HeldValues(Layers, tokens)]
<1> DEFINE n == Len(tokens)
           P(l) == Pass(l, tokens, 0, n)
           Body(f, l) ==
             IF l = 0 THEN [h |-> Embedding(tokens), k |-> <<>>, v |-> <<>>]
             ELSE LET below == f[l - 1]
                      qkv == ProjectQKV(W, l, below.h, 0)
                  IN  [h |-> AttentionBlock(W, l, TRUE, below.h, qkv.q, qkv.k, qkv.v),
                       k |-> Append(below.k, qkv.k), v |-> Append(below.v, qkv.v)]
           Eq(f) == f = [l \in 0 .. Layers |-> Body(f, l)]
           it == CHOOSE f : Eq(f)
<1>1. Layers \in Nat /\ n \in Nat /\ n # 0
  BY LlamaShape
<1>2. ASSUME NEW f PROVE Body(f, 0) = P(0)
  <2>1. Embedding(tokens) = Rows(0, tokens, 0, n)
    <3>1. ASSUME NEW s \in 1 .. n PROVE Row(0, <<tokens[s]>>) = Row(0, SubSeq(tokens, 1, 0 + s))
      <4>1. Last(SubSeq(tokens, 1, s)) = tokens[s] /\ 0 + s = s
        BY PrefixFacts
      <4> QED
        BY <4>1 DEF Row, Last
    <3>2. DOMAIN tokens = 1 .. n
      OBVIOUS
    <3> QED
      BY <3>1, <3>2 DEF Embedding, Rows
  <2>2. HeldKeys(0, tokens) = <<>> /\ HeldValues(0, tokens) = <<>>
    BY DEF HeldKeys, HeldValues
  <2> QED
    BY <2>1, <2>2 DEF Pass
<1>3. ASSUME NEW f, NEW l \in 1 .. Layers, f[l - 1] = P(l - 1) PROVE Body(f, l) = P(l)
  <2>1. PICK rows, qkv : rows = Rows(l - 1, tokens, 0, n) /\ qkv = ProjectQKV(W, l, rows, 0)
    OBVIOUS
  <2>2. /\ qkv.q = RotatedSlices(<<"wq", l>>, Heads, rows, n, 0)
        /\ qkv.k = RotatedSlices(<<"wk", l>>, KVHeads, rows, n, 0)
        /\ qkv.v = Slices(<<"wv", l>>, KVHeads, rows, n)
    <3>1. PICK z \in Nat : z = 0
      OBVIOUS
    <3>2. rows = Rows(l - 1, tokens, z, n)
      BY <2>1, <3>1
    <3>3. ProjectQKV(W, l, rows, z) = [q |-> RotatedSlices(<<"wq", l>>, Heads, rows, n, z),
                                       k |-> RotatedSlices(<<"wk", l>>, KVHeads, rows, n, z),
                                       v |-> Slices(<<"wv", l>>, KVHeads, rows, n)]
      BY <1>1, <3>2, QKVFacts
    <3> QED
      BY <2>1, <3>1, <3>3
  <2>3. \A s \in 1 .. n : rows[s] = Row(l - 1, SubSeq(tokens, 1, s)) /\ s - 1 + 0 = s - 1
    BY <1>1, <2>1 DEF Rows
  <2>4. qkv.k = KeysOf(l, tokens) /\ qkv.v = ValuesOf(l, tokens)
    <3>1. DOMAIN tokens = 1 .. n
      OBVIOUS
    <3>2. qkv.k = KeysOf(l, tokens)
      BY <2>2, <2>3, <3>1 DEF KeysOf, RotatedSlices
    <3>3. qkv.v = ValuesOf(l, tokens)
      BY <2>2, <2>3, <3>1 DEF ValuesOf, Slices
    <3> QED
      BY <3>2, <3>3
  <2>5. AttentionBlock(W, l, TRUE, rows, qkv.q, qkv.k, qkv.v) = Rows(l, tokens, 0, n)
    <3>1. PICK q : q = qkv.q
      OBVIOUS
    <3>2. AttentionBlock(W, l, TRUE, rows, q, KeysOf(l, tokens), ValuesOf(l, tokens)) = Rows(l, tokens, 0, n)
      <4>1. PICK z \in Nat : z = 0
        OBVIOUS
      <4>2. z + n = Len(tokens)
        BY <1>1, <4>1
      <4>3. q = RotatedSlices(<<"wq", l>>, Heads, rows, n, z) /\ rows = Rows(l - 1, tokens, z, n)
        BY <2>1, <2>2, <3>1, <4>1
      <4> HIDE DEF n
      <4>4. AttentionBlock(W, l, TRUE, rows, q, KeysOf(l, tokens), ValuesOf(l, tokens)) = Rows(l, tokens, z, n)
        <5>1. PICK b : b = TRUE
          OBVIOUS
        <5>2. Queries(l, tokens, z, n, b, rows, q)
          <6>1. Queries(l, tokens, z, n, TRUE, rows, q)
            BY <1>1, <4>1, <4>2, <4>3 DEF Queries
          <6> QED
            BY <5>1, <6>1
        <5>3. AttentionBlock(W, l, b, rows, q, KeysOf(l, tokens), ValuesOf(l, tokens)) = Rows(l, tokens, z, n)
          BY <5>2, BlockFacts
        <5> QED
          BY <5>1, <5>3
      <4> QED
        BY <2>1, <4>1, <4>4
    <3> QED
      BY <2>4, <3>1, <3>2
  <2>6. f[l - 1].h = rows /\ f[l - 1].k = HeldKeys(l - 1, tokens) /\ f[l - 1].v = HeldValues(l - 1, tokens)
    BY <1>3, <2>1 DEF Pass
  <2>7. Body(f, l) = [h |-> Rows(l, tokens, 0, n), k |-> Append(f[l - 1].k, KeysOf(l, tokens)),
                      v |-> Append(f[l - 1].v, ValuesOf(l, tokens))]
    <3>1. l # 0
      OBVIOUS
    <3> QED
      BY <2>1, <2>4, <2>5, <2>6, <3>1
  <2> HIDE DEF Body
  <2> QED
    BY <2>6, <2>7, HeldGrows DEF Pass
<1>4. Eq(it)
  <2> DEFINE sol == [l \in 0 .. Layers |-> P(l)]
  <2>1. ASSUME NEW l \in 0 .. Layers PROVE Body(sol, l) = P(l)
    <3>1. CASE l = 0
      <4> HIDE DEF Body, P, sol
      <4> QED
        BY <1>2, <3>1
    <3>2. CASE l # 0
      <4>1. l \in 1 .. Layers /\ l - 1 \in 0 .. Layers
        BY <1>1, <3>2
      <4>2. sol[l - 1] = P(l - 1)
        BY <4>1
      <4> HIDE DEF Body, P, sol
      <4> QED
        BY <1>3, <4>1, <4>2
    <3> QED
      BY <3>1, <3>2
  <2>2. Eq(sol)
    <3> HIDE DEF Body, P
    <3> QED
      BY <2>1
  <2> HIDE DEF Eq, sol
  <2> QED
    BY <2>2
<1> HIDE DEF Body, P, it
<1>5. \A l \in 0 .. Layers : it[l] = P(l)
  <2> DEFINE T == {l \in 0 .. Layers : it[l] = P(l)}
  <2>1. \A l \in 0 .. Layers : it[l] = Body(it, l)
    BY <1>4
  <2>2. 0 \in T
    BY <1>1, <1>2, <2>1
  <2>3. ASSUME NEW l \in 0 .. Layers - 1, l \in T PROVE l + 1 \in T
    <3>1. l + 1 \in 1 .. Layers /\ (l + 1) - 1 = l
      BY <1>1
    <3>2. it[(l + 1) - 1] = P((l + 1) - 1)
      BY <2>3, <3>1
    <3>3. Body(it, l + 1) = P(l + 1)
      BY <1>3, <3>1, <3>2
    <3> QED
      BY <2>1, <3>1, <3>3
  <2>4. \A l \in 0 .. Layers : l \in T
    <3> HIDE DEF T
    <3> QED
      BY <1>1, <2>2, <2>3, BoundedInduction
  <2> QED
    BY <2>4
<1>6. PrefillGraph(W, tokens, lastOnly)
        = [logits |-> Logits(W, it[Layers].h, lastOnly), k |-> it[Layers].k, v |-> it[Layers].v]
  BY DEF PrefillGraph, it, Body
<1>7. it[Layers] = P(Layers)
  BY <1>1, <1>5
<1>8. Logits(W, Rows(Layers, tokens, 0, n), lastOnly)
        = IF lastOnly THEN <<Row(Layers, tokens)>> ELSE Rows(Layers, tokens, 0, n)
  BY <1>1, LogitsFacts
<1>9. /\ P(Layers).h = Rows(Layers, tokens, 0, n)
      /\ P(Layers).k = HeldKeys(Layers, tokens) /\ P(Layers).v = HeldValues(Layers, tokens)
  BY DEF P, Pass
<1> HIDE DEF n
<1>10. PrefillGraph(W, tokens, lastOnly)
        = [logits |-> Logits(W, Rows(Layers, tokens, 0, n), lastOnly),
           k |-> HeldKeys(Layers, tokens), v |-> HeldValues(Layers, tokens)]
  BY <1>6, <1>7, <1>9
<1> QED
  BY <1>8, <1>10 DEF n

\* A function of the heads that share keys and values.
PerHead(t3) == t3 = [h \in 1 .. KVHeads |-> t3[h]]

\* One more element at the end.
LEMMA ConcatOne ==
    ASSUME NEW n \in Nat, NEW f, NEW x, NEW y,
           x = [j \in 1 .. n |-> f[j]], y = [s \in 1 .. 1 |-> f[n + 1]]
    PROVE  x \o y = [j \in 1 .. n + 1 |-> f[j]]
<1> DEFINE D == {f[j] : j \in 1 .. n + 1}
<1>1. PICK l \in Nat : l = n + 1
  OBVIOUS
<1>2. Append([i \in 1 .. l - 1 |-> f[i]], f[l]) = [i \in 1 .. l |-> f[i]]
  BY <1>1, AppendLayer
<1>3. l - 1 = n
  BY <1>1
<1>4. x \in [1 .. n -> D] /\ f[n + 1] \in D
  OBVIOUS
<1>5. x \in Seq(D)
  <2> HIDE DEF D
  <2> QED
    BY <1>4
<1>6. x \o <<f[n + 1]>> = Append(x, f[n + 1])
  <2> HIDE DEF D
  <2> QED
    BY <1>4, <1>5, AppendIsConcat
<1>7. y = <<f[n + 1]>>
  OBVIOUS
<1> QED
  BY <1>1, <1>2, <1>3, <1>6, <1>7

\* One token more, and the row of that token below a layer.
Follows(full, tokens, token) == full = Append(tokens, token)
LastRow(layer, tokens, full, rows) == rows = Rows(layer - 1, full, Len(tokens), 1)

\* Appending a token to a pass appends its keys and values.
LEMMA ConcatFacts ==
    ASSUME NEW S, NEW tokens \in Seq(S), NEW token \in S, NEW layer \in 1 .. Layers, NEW full,
           Follows(full, tokens, token), NEW rows, LastRow(layer, tokens, full, rows)
    PROVE  /\ ConcatSeq(KeysOf(layer, tokens), RotatedSlices(<<"wk", layer>>, KVHeads, rows, 1, Len(tokens)))
                = KeysOf(layer, full)
           /\ ConcatSeq(ValuesOf(layer, tokens), Slices(<<"wv", layer>>, KVHeads, rows, 1))
                = ValuesOf(layer, full)
<1> DEFINE n == Len(tokens)
           row(j) == Row(layer - 1, SubSeq(full, 1, j))
           key(h, j) == Slice(<<"wk", layer>>, h, j - 1, row(j))
           value(h, j) == Slice(<<"wv", layer>>, h, -1, row(j))
<1>1. n \in Nat /\ full \in Seq(S) /\ Len(full) = n + 1 /\ DOMAIN full = 1 .. n + 1
      /\ DOMAIN tokens = 1 .. n /\ KVHeads \in Nat /\ full = Append(tokens, token)
  BY LlamaShape DEF Follows
<1>2. ASSUME NEW j \in 1 .. n PROVE SubSeq(tokens, 1, j) = SubSeq(full, 1, j)
  <2>1. SubSeq(tokens, 1, j) = [i \in 1 .. j |-> tokens[i]] /\ SubSeq(full, 1, j) = [i \in 1 .. j |-> full[i]]
    BY <1>1
  <2>2. \A i \in 1 .. j : tokens[i] = full[i]
    BY <1>1
  <2> QED
    BY <2>1, <2>2
<1>3. rows[1] = row(n + 1)
  BY <1>1 DEF Rows, LastRow
<1>4. /\ KeysOf(layer, full) = [h \in 1 .. KVHeads |-> [j \in 1 .. n + 1 |-> key(h, j)]]
      /\ ValuesOf(layer, full) = [h \in 1 .. KVHeads |-> [j \in 1 .. n + 1 |-> value(h, j)]]
  BY <1>1 DEF KeysOf, ValuesOf
<1>5. /\ KeysOf(layer, tokens) = [h \in 1 .. KVHeads |-> [j \in 1 .. n |-> key(h, j)]]
      /\ ValuesOf(layer, tokens) = [h \in 1 .. KVHeads |-> [j \in 1 .. n |-> value(h, j)]]
  BY <1>1, <1>2 DEF KeysOf, ValuesOf
<1>6. /\ RotatedSlices(<<"wk", layer>>, KVHeads, rows, 1, n) = [h \in 1 .. KVHeads |-> [s \in 1 .. 1 |-> key(h, n + 1)]]
      /\ Slices(<<"wv", layer>>, KVHeads, rows, 1) = [h \in 1 .. KVHeads |-> [s \in 1 .. 1 |-> value(h, n + 1)]]
  <2>1. \A s \in 1 .. 1 : s = 1 /\ s - 1 + n = n + 1 - 1
    BY <1>1
  <2> HIDE DEF row
  <2> QED
    BY <1>3, <2>1 DEF RotatedSlices, Slices
<1> HIDE DEF key, value, n, row
<1>7. ASSUME NEW a3, NEW b3, NEW c3, DOMAIN a3 = 1 .. KVHeads, PerHead(c3),
             \A h \in 1 .. KVHeads : a3[h] \o b3[h] = c3[h]
      PROVE  ConcatSeq(a3, b3) = c3
  <2> DEFINE all == [h \in DOMAIN a3 |-> a3[h] \o b3[h]]
  <2>2. all = c3
    BY <1>7 DEF PerHead
  <2>3. all = [h \in 1 .. KVHeads |-> all[h]]
    BY <1>7
  <2>4. Tuple(all) = all
    <3> HIDE DEF all
    <3> QED
      BY <1>1, <2>3, TupleFacts
  <2> QED
    BY <2>2, <2>4 DEF ConcatSeq
<1>8. ConcatSeq(KeysOf(layer, tokens), RotatedSlices(<<"wk", layer>>, KVHeads, rows, 1, n)) = KeysOf(layer, full)
  <2>1. PICK g : g = [h \in 1 .. KVHeads |-> [j \in 1 .. n + 1 |-> key(h, j)]]
    OBVIOUS
  <2>2. \A h \in 1 .. KVHeads : \A j \in 1 .. n + 1 : g[h][j] = key(h, j)
    BY <2>1
  <2>3. PICK a3, b3, c3 : /\ a3 = KeysOf(layer, tokens) /\ c3 = KeysOf(layer, full)
                          /\ b3 = RotatedSlices(<<"wk", layer>>, KVHeads, rows, 1, n)
    OBVIOUS
  <2>4. DOMAIN a3 = 1 .. KVHeads /\ PerHead(c3)
    BY <1>4, <1>5, <2>3 DEF PerHead
  <2>5. ASSUME NEW h \in 1 .. KVHeads
        PROVE  a3[h] \o b3[h] = c3[h]
    <3>1. /\ a3[h] = [j \in 1 .. n |-> key(h, j)] /\ b3[h] = [s \in 1 .. 1 |-> key(h, n + 1)]
          /\ c3[h] = [j \in 1 .. n + 1 |-> key(h, j)]
      BY <1>4, <1>5, <1>6, <2>3
    <3>2. PICK f : f = g[h]
      OBVIOUS
    <3>3. \A j \in 1 .. n + 1 : f[j] = key(h, j)
      BY <2>2, <3>2
    <3>4. /\ a3[h] = [j \in 1 .. n |-> f[j]] /\ b3[h] = [s \in 1 .. 1 |-> f[n + 1]]
          /\ c3[h] = [j \in 1 .. n + 1 |-> f[j]]
      BY <1>1, <3>1, <3>3
    <3>5. PICK x, y : x = a3[h] /\ y = b3[h]
      OBVIOUS
    <3>6. x \o y = [j \in 1 .. n + 1 |-> f[j]]
      BY <1>1, <3>4, <3>5, ConcatOne
    <3> QED
      BY <3>4, <3>5, <3>6
  <2>6. ConcatSeq(a3, b3) = c3
    BY <1>7, <2>4, <2>5
  <2> QED
    BY <2>3, <2>6
<1>9. ConcatSeq(ValuesOf(layer, tokens), Slices(<<"wv", layer>>, KVHeads, rows, 1)) = ValuesOf(layer, full)
  <2>1. PICK g : g = [h \in 1 .. KVHeads |-> [j \in 1 .. n + 1 |-> value(h, j)]]
    OBVIOUS
  <2>2. \A h \in 1 .. KVHeads : \A j \in 1 .. n + 1 : g[h][j] = value(h, j)
    BY <2>1
  <2>3. PICK a3, b3, c3 : /\ a3 = ValuesOf(layer, tokens) /\ c3 = ValuesOf(layer, full)
                          /\ b3 = Slices(<<"wv", layer>>, KVHeads, rows, 1)
    OBVIOUS
  <2>4. DOMAIN a3 = 1 .. KVHeads /\ PerHead(c3)
    BY <1>4, <1>5, <2>3 DEF PerHead
  <2>5. ASSUME NEW h \in 1 .. KVHeads
        PROVE  a3[h] \o b3[h] = c3[h]
    <3>1. /\ a3[h] = [j \in 1 .. n |-> value(h, j)] /\ b3[h] = [s \in 1 .. 1 |-> value(h, n + 1)]
          /\ c3[h] = [j \in 1 .. n + 1 |-> value(h, j)]
      BY <1>4, <1>5, <1>6, <2>3
    <3>2. PICK f : f = g[h]
      OBVIOUS
    <3>3. \A j \in 1 .. n + 1 : f[j] = value(h, j)
      BY <2>2, <3>2
    <3>4. /\ a3[h] = [j \in 1 .. n |-> f[j]] /\ b3[h] = [s \in 1 .. 1 |-> f[n + 1]]
          /\ c3[h] = [j \in 1 .. n + 1 |-> f[j]]
      BY <1>1, <3>1, <3>3
    <3>5. PICK x, y : x = a3[h] /\ y = b3[h]
      OBVIOUS
    <3>6. x \o y = [j \in 1 .. n + 1 |-> f[j]]
      BY <1>1, <3>4, <3>5, ConcatOne
    <3> QED
      BY <3>4, <3>5, <3>6
  <2>6. ConcatSeq(a3, b3) = c3
    BY <1>7, <2>4, <2>5
  <2> QED
    BY <2>3, <2>6
<1> QED
  BY <1>8, <1>9 DEF n

\* What a decode graph computes: it continues the pass the cache is of by one token.
LEMMA DecodeFacts ==
    ASSUME NEW S, NEW tokens \in Seq(S), NEW token \in S, NEW full, Follows(full, tokens, token),
           NEW kv, kv.k = HeldKeys(Layers, tokens), kv.v = HeldValues(Layers, tokens)
    PROVE  DecodeGraph(W, token, Len(tokens), kv)
             = [logits |-> <<Row(Layers, full)>>, k |-> HeldKeys(Layers, full), v |-> HeldValues(Layers, full)]
<1> DEFINE n == Len(tokens)
           P(l) == Pass(l, full, n, 1)
           Body(f, l) ==
             IF l = 0 THEN [h |-> Embedding(<<token>>), k |-> <<>>, v |-> <<>>]
             ELSE LET below == f[l - 1]
                      qkv == ProjectQKV(W, l, below.h, n)
                      keys == ConcatSeq(kv.k[l], qkv.k)
                      values == ConcatSeq(kv.v[l], qkv.v)
                  IN  [h |-> AttentionBlock(W, l, FALSE, below.h, qkv.q, keys, values),
                       k |-> Append(below.k, keys), v |-> Append(below.v, values)]
           Eq(f) == f = [l \in 0 .. Layers |-> Body(f, l)]
           it == CHOOSE f : Eq(f)
<1>1. /\ Layers \in Nat /\ n \in Nat /\ full \in Seq(S) /\ Len(full) = n + 1
      /\ full # <<>> /\ full[n + 1] = token
  BY LlamaShape DEF Follows
<1>2. ASSUME NEW f PROVE Body(f, 0) = P(0)
  <2>1. Embedding(<<token>>) = Rows(0, full, n, 1)
    <3>1. Row(0, <<token>>) = Row(0, SubSeq(full, 1, n + 1))
      <4>1. n + 1 \in 1 .. Len(full)
        BY <1>1
      <4>2. Last(SubSeq(full, 1, n + 1)) = token
        BY <1>1, <4>1, PrefixFacts
      <4> QED
        BY <4>2 DEF Row, Last
    <3> QED
      BY <3>1 DEF Embedding, Rows
  <2>2. HeldKeys(0, full) = <<>> /\ HeldValues(0, full) = <<>>
    BY DEF HeldKeys, HeldValues
  <2> QED
    BY <2>1, <2>2 DEF Pass
<1>3. ASSUME NEW f, NEW l \in 1 .. Layers, f[l - 1] = P(l - 1) PROVE Body(f, l) = P(l)
  <2>1. PICK rows, qkv : rows = Rows(l - 1, full, n, 1) /\ qkv = ProjectQKV(W, l, rows, n)
    OBVIOUS
  <2>2. /\ qkv.q = RotatedSlices(<<"wq", l>>, Heads, rows, 1, n)
        /\ qkv.k = RotatedSlices(<<"wk", l>>, KVHeads, rows, 1, n)
        /\ qkv.v = Slices(<<"wv", l>>, KVHeads, rows, 1)
    <3>1. PICK m \in Nat : m = 1
      OBVIOUS
    <3>2. rows = Rows(l - 1, full, n, m)
      BY <2>1, <3>1
    <3>3. ProjectQKV(W, l, rows, n) = [q |-> RotatedSlices(<<"wq", l>>, Heads, rows, m, n),
                                       k |-> RotatedSlices(<<"wk", l>>, KVHeads, rows, m, n),
                                       v |-> Slices(<<"wv", l>>, KVHeads, rows, m)]
      BY <1>1, <3>2, QKVFacts
    <3> QED
      BY <2>1, <3>1, <3>3
  <2>3. kv.k[l] = KeysOf(l, tokens) /\ kv.v[l] = ValuesOf(l, tokens)
    BY DEF HeldKeys, HeldValues
  <2>4. ConcatSeq(kv.k[l], qkv.k) = KeysOf(l, full) /\ ConcatSeq(kv.v[l], qkv.v) = ValuesOf(l, full)
    <3>1. LastRow(l, tokens, full, rows)
      BY <2>1 DEF LastRow
    <3> QED
      BY <2>2, <2>3, <3>1, ConcatFacts
  <2>5. AttentionBlock(W, l, FALSE, rows, qkv.q, KeysOf(l, full), ValuesOf(l, full)) = Rows(l, full, n, 1)
    <3>1. PICK q, m, b : q = qkv.q /\ m = 1 /\ b = FALSE
      OBVIOUS
    <3>2. Queries(l, full, n, m, b, rows, q)
      <4>1. Queries(l, full, n, 1, FALSE, rows, q)
        BY <1>1, <2>1, <2>2, <3>1 DEF Queries
      <4> QED
        BY <3>1, <4>1
    <3>3. AttentionBlock(W, l, b, rows, q, KeysOf(l, full), ValuesOf(l, full)) = Rows(l, full, n, m)
      BY <1>1, <3>2, BlockFacts
    <3> QED
      BY <3>1, <3>3
  <2>6. f[l - 1].h = rows /\ f[l - 1].k = HeldKeys(l - 1, full) /\ f[l - 1].v = HeldValues(l - 1, full)
    BY <1>3, <2>1 DEF Pass
  <2>7. Body(f, l) = [h |-> Rows(l, full, n, 1), k |-> Append(f[l - 1].k, KeysOf(l, full)),
                      v |-> Append(f[l - 1].v, ValuesOf(l, full))]
    <3>1. l # 0
      OBVIOUS
    <3> QED
      BY <2>1, <2>4, <2>5, <2>6, <3>1
  <2> HIDE DEF Body
  <2> QED
    BY <2>6, <2>7, HeldGrows DEF Pass
<1>4. Eq(it)
  <2> DEFINE sol == [l \in 0 .. Layers |-> P(l)]
  <2>1. ASSUME NEW l \in 0 .. Layers PROVE Body(sol, l) = P(l)
    <3>1. CASE l = 0
      <4> HIDE DEF Body, P, sol
      <4> QED
        BY <1>2, <3>1
    <3>2. CASE l # 0
      <4>1. l \in 1 .. Layers /\ l - 1 \in 0 .. Layers
        BY <1>1, <3>2
      <4>2. sol[l - 1] = P(l - 1)
        BY <4>1
      <4> HIDE DEF Body, P, sol
      <4> QED
        BY <1>3, <4>1, <4>2
    <3> QED
      BY <3>1, <3>2
  <2>2. Eq(sol)
    <3> HIDE DEF Body, P
    <3> QED
      BY <2>1
  <2> HIDE DEF Eq, sol
  <2> QED
    BY <2>2
<1> HIDE DEF Body, P, it
<1>5. \A l \in 0 .. Layers : it[l] = P(l)
  <2> DEFINE T == {l \in 0 .. Layers : it[l] = P(l)}
  <2>1. \A l \in 0 .. Layers : it[l] = Body(it, l)
    BY <1>4
  <2>2. 0 \in T
    BY <1>1, <1>2, <2>1
  <2>3. ASSUME NEW l \in 0 .. Layers - 1, l \in T PROVE l + 1 \in T
    <3>1. l + 1 \in 1 .. Layers /\ (l + 1) - 1 = l
      BY <1>1
    <3>2. it[(l + 1) - 1] = P((l + 1) - 1)
      BY <2>3, <3>1
    <3>3. Body(it, l + 1) = P(l + 1)
      BY <1>3, <3>1, <3>2
    <3> QED
      BY <2>1, <3>1, <3>3
  <2>4. \A l \in 0 .. Layers : l \in T
    <3> HIDE DEF T
    <3> QED
      BY <1>1, <2>2, <2>3, BoundedInduction
  <2> QED
    BY <2>4
<1>6. DecodeGraph(W, token, n, kv)
        = [logits |-> Logits(W, it[Layers].h, FALSE), k |-> it[Layers].k, v |-> it[Layers].v]
  BY DEF DecodeGraph, it, Body
<1>7. it[Layers] = P(Layers)
  BY <1>1, <1>5
<1>8. Logits(W, Rows(Layers, full, n, 1), FALSE) = <<Row(Layers, full)>>
  <2>1. Rows(Layers, full, n, 1) = <<Row(Layers, full)>>
    <3>1. SubSeq(full, 1, n + 1) = full
      BY <1>1, SubSeqFull
    <3>2. Rows(Layers, full, n, 1) = [i \in 1 .. 1 |-> Row(Layers, full)]
      <4>1. \A i \in 1 .. 1 : n + i = n + 1
        OBVIOUS
      <4> QED
        BY <3>1, <4>1 DEF Rows
    <3> QED
      BY <3>2
  <2>2. Applies(W, <<"lm_head", 0>>)
    BY WeightsApply DEF Linears
  <2> QED
    BY <2>1, <2>2 DEF Logits
<1>9. /\ P(Layers).h = Rows(Layers, full, n, 1)
      /\ P(Layers).k = HeldKeys(Layers, full) /\ P(Layers).v = HeldValues(Layers, full)
  BY DEF P, Pass
<1> QED
  BY <1>6, <1>7, <1>8, <1>9

-----------------------------------------------------------------------------
(* The session.                                                            *)

\* The cache of a session that has seen tokens, and the tokens a cache is of.
CacheOf(tokens) ==
    IF tokens = <<>> THEN EmptyCache
    ELSE [k |-> HeldKeys(Layers, tokens), v |-> HeldValues(Layers, tokens), seq_len |-> Len(tokens)]

TokensIn(c) ==
    IF c.k = <<>> THEN <<>>
    ELSE [i \in DOMAIN c.k[1][1] |-> Last(c.k[1][1][i].row[2])]

\* The tokens can be read off the cache.
LEMMA TokensInFacts ==
    ASSUME NEW S, NEW tokens \in Seq(S)
    PROVE  /\ TokensIn(CacheOf(tokens)) = tokens
           /\ CacheOf(tokens).seq_len = Len(tokens)
           /\ tokens # <<>> => /\ CacheOf(tokens).k = HeldKeys(Layers, tokens)
                               /\ CacheOf(tokens).v = HeldValues(Layers, tokens)
<1>1. CASE tokens = <<>>
  BY <1>1 DEF CacheOf, TokensIn, EmptyCache
<1>2. CASE tokens # <<>>
  <2>1. PICK c : c = CacheOf(tokens)
    OBVIOUS
  <2>2. /\ c.k = HeldKeys(Layers, tokens) /\ c.v = HeldValues(Layers, tokens)
        /\ c.seq_len = Len(tokens)
    BY <1>2, <2>1 DEF CacheOf
  <2>3. 1 \in 1 .. Layers /\ 1 \in 1 .. KVHeads
    BY LlamaShape
  <2>4. c.k # <<>> /\ c.k[1] = KeysOf(1, tokens)
    BY <2>2, <2>3 DEF HeldKeys
  <2>5. DOMAIN tokens = 1 .. Len(tokens)
    OBVIOUS
  <2>6. PICK keys : keys = c.k[1][1]
    OBVIOUS
  <2>7. keys = [j \in 1 .. Len(tokens) |-> Slice(<<"wk", 1>>, 1, j - 1, Row(1 - 1, SubSeq(tokens, 1, j)))]
    BY <2>3, <2>4, <2>5, <2>6 DEF KeysOf
  <2>8. ASSUME NEW j \in 1 .. Len(tokens) PROVE Last(keys[j].row[2]) = tokens[j]
    <3>1. keys[j] = Slice(<<"wk", 1>>, 1, j - 1, Row(0, SubSeq(tokens, 1, j)))
      BY <2>7
    <3>2. keys[j].row = Row(0, SubSeq(tokens, 1, j))
      BY <3>1 DEF Slice
    <3>3. /\ SubSeq(tokens, 1, j) \in Seq(S) /\ SubSeq(tokens, 1, j) # <<>>
          /\ Last(SubSeq(tokens, 1, j)) = tokens[j]
      BY PrefixFacts
    <3>4. PICK t \in Seq(S) : t = SubSeq(tokens, 1, j)
      BY <3>3
    <3>5. Last(Row(0, t)[2]) = Last(t)
      BY <3>3, <3>4 DEF Row, Last
    <3> QED
      BY <3>2, <3>3, <3>4, <3>5
  <2>9. TokensIn(c) = [j \in 1 .. Len(tokens) |-> tokens[j]]
    <3>1. DOMAIN keys = 1 .. Len(tokens)
      BY <2>7
    <3>2. TokensIn(c) = [i \in DOMAIN keys |-> Last(keys[i].row[2])]
      BY <2>4, <2>6 DEF TokensIn
    <3> QED
      BY <2>8, <3>1, <3>2
  <2> QED
    BY <2>1, <2>2, <2>5, <2>9
<1> QED
  BY <1>1, <1>2

\* The types of the variables.
TypeInv ==
    /\ loaded \in BOOLEAN /\ tokenizer \in {"null", "unloaded", "loaded"}
    /\ loaded => tokenizer # "null"
    /\ asked \in Seq(Tokens) /\ generated_tokens \in Seq(Tokens) /\ all_tokens \in Seq(Tokens)
    /\ gen \in [pc : {"idle", "sample", "step", "flush"}, prompt : Seq(Tokens),
                max : Nat, tokens : Seq(Tokens)]
    /\ Len(gen.tokens) <= gen.max

\* The cache is that of one pass over some tokens.
CacheInv == CachedTokens \in Seq(Tokens) /\ cache = CacheOf(CachedTokens)

\* What the last call returned are rows of one pass over the tokens it was about.
ReplyInv ==
    \/ reply = <<>>
    \/ /\ asked # <<>>
       /\ reply \in {<<Row(Layers, asked)>>, Rows(Layers, asked, 0, Len(asked))}

\* The tokens of a generation that have been fed.
FedTokens == IF gen.pc = "sample" THEN gen.tokens ELSE SubSeq(gen.tokens, 1, Len(gen.tokens) - 1)

\* How far a generation has come: the loop goes on with fewer tokens than it may make,
\* none of them an eos.
GenInv ==
    gen.pc # "idle" =>
        /\ gen.prompt # <<>>
        /\ CachedTokens = gen.prompt \o FedTokens
        /\ generated_tokens = gen.tokens
        /\ all_tokens = gen.prompt \o gen.tokens
        /\ HasTokenizer => \A i \in 1 .. Len(gen.tokens) - 1 : gen.tokens[i] # Eos
        /\ gen.pc \in {"sample", "step"} =>
              /\ Len(gen.tokens) < gen.max
              /\ HasTokenizer => \A i \in 1 .. Len(gen.tokens) : gen.tokens[i] # Eos
        /\ gen.pc \in {"step", "flush"} => gen.tokens # <<>>

IInv == TypeInv /\ CacheInv /\ ReplyInv /\ GenInv

\* What a call that asks about tokens leaves: its question and its answer,
\* and the session of those tokens unless it threw before.
Answered(tokens, outcome) ==
    /\ asked' = tokens
    /\ reply' = IF outcome = "ok" THEN <<Row(Layers, tokens)>> ELSE <<>>

\* The first element of a sequence of one.
LEMMA OnlyElement ==
    ASSUME NEW e
    PROVE  SubSeq(<<e>>, 1, 1) = <<e>>
<1>1. <<e>> \in Seq({e}) /\ Len(<<e>>) = 1
  OBVIOUS
<1> QED
  BY <1>1, SubSeqFull

\* prefill answers by one pass, which replaces the session.
LEMMA PrefillBodyFacts ==
    ASSUME NEW tokens \in Seq(Tokens), NEW outcome \in Outcomes, PrefillBody(tokens, outcome)
    PROVE  /\ Answered(tokens, outcome)
           /\ outcome = "throws early" => cache' = cache
           /\ outcome # "throws early" => tokens # <<>> /\ cache' = CacheOf(tokens)
<1>1. CASE outcome = "throws early"
  BY <1>1 DEF PrefillBody, Answered
<1>2. CASE outcome # "throws early"
  <2>1. tokens # <<>>
    BY <1>2 DEF PrefillBody
  <2>2. PICK out : out = PrefillGraph(W, tokens, TRUE)
    OBVIOUS
  <2>3. out = [logits |-> <<Row(Layers, tokens)>>, k |-> HeldKeys(Layers, tokens), v |-> HeldValues(Layers, tokens)]
    BY <2>1, <2>2, PrefillFacts
  <2>4. out.logits = <<Row(Layers, tokens)>> /\ out.k = HeldKeys(Layers, tokens) /\ out.v = HeldValues(Layers, tokens)
    BY <2>3
  <2>5. asked' = tokens /\ Return(out, outcome) /\ ReplaceCache(out, Len(tokens))
    BY <1>2, <2>2 DEF PrefillBody
  <2>6. reply' = IF outcome = "ok" THEN <<Row(Layers, tokens)>> ELSE <<>>
    <3>1. SubSeq(<<Row(Layers, tokens)>>, 1, 1) = <<Row(Layers, tokens)>>
      BY OnlyElement
    <3> QED
      BY <2>4, <2>5, <3>1 DEF Return
  <2>7. cache' = CacheOf(tokens)
    BY <2>1, <2>4, <2>5 DEF ReplaceCache, CacheOf
  <2> QED
    BY <1>2, <2>1, <2>5, <2>6, <2>7 DEF Answered
<1> QED
  BY <1>1, <1>2

\* What the cache says of the tokens it is of.
LEMMA CachedFacts ==
    ASSUME CacheInv
    PROVE  /\ cache.seq_len = Len(CachedTokens)
           /\ CachedTokens # <<>> => /\ cache.k = HeldKeys(Layers, CachedTokens)
                                     /\ cache.v = HeldValues(Layers, CachedTokens)
BY TokensInFacts DEF CacheInv

\* forward_step at the end of the session answers for the session and one token more.
LEMMA StepBodyFacts ==
    ASSUME CacheInv, NEW token \in Tokens, NEW outcome \in Outcomes,
           StepBody(token, cache.seq_len, outcome)
    PROVE  /\ Append(CachedTokens, token) \in Seq(Tokens) \ {<<>>}
           /\ Answered(Append(CachedTokens, token), outcome)
           /\ outcome = "throws early" => cache' = cache
           /\ outcome # "throws early" => cache' = CacheOf(Append(CachedTokens, token))
<1>1. CachedTokens \in Seq(Tokens) /\ cache.seq_len = Len(CachedTokens)
  BY CachedFacts DEF CacheInv
<1>2. PICK full : full = Append(CachedTokens, token)
  OBVIOUS
<1>3. full \in Seq(Tokens) /\ full # <<>> /\ Len(full) = Len(CachedTokens) + 1
  BY <1>1, <1>2
<1>4. CASE cache.seq_len = 0
  <2>1. full = <<token>>
    <3>1. CachedTokens = <<>>
      BY <1>1, <1>4, EmptySeq
    <3>2. Append(<<>>, token) = <<token>>
      OBVIOUS
    <3> QED
      BY <1>2, <3>1, <3>2
  <2>2. PrefillBody(full, outcome)
    BY <1>4, <2>1 DEF StepBody
  <2> QED
    BY <1>2, <1>3, <2>2, PrefillBodyFacts
<1>5. CASE cache.seq_len # 0 /\ outcome = "throws early"
  BY <1>2, <1>3, <1>5 DEF StepBody, Answered
<1>6. CASE cache.seq_len # 0 /\ outcome # "throws early"
  <2>1. cache.k = HeldKeys(Layers, CachedTokens) /\ cache.v = HeldValues(Layers, CachedTokens)
    BY <1>1, <1>6, CachedFacts
  <2>2. PICK out : out = DecodeGraph(W, token, cache.seq_len, cache)
    OBVIOUS
  <2>3. out = [logits |-> <<Row(Layers, full)>>, k |-> HeldKeys(Layers, full), v |-> HeldValues(Layers, full)]
    <3>1. Follows(full, CachedTokens, token)
      BY <1>2 DEF Follows
    <3> QED
      BY <1>1, <2>1, <2>2, <3>1, DecodeFacts
  <2>4. out.logits = <<Row(Layers, full)>> /\ out.k = HeldKeys(Layers, full) /\ out.v = HeldValues(Layers, full)
    BY <2>3
  <2>5. asked' = full /\ Return(out, outcome) /\ ReplaceCache(out, cache.seq_len + 1)
    BY <1>2, <1>6, <2>2 DEF StepBody
  <2>6. reply' = IF outcome = "ok" THEN <<Row(Layers, full)>> ELSE <<>>
    <3>1. SubSeq(<<Row(Layers, full)>>, 1, 1) = <<Row(Layers, full)>>
      BY OnlyElement
    <3> QED
      BY <2>4, <2>5, <3>1 DEF Return
  <2>7. cache' = CacheOf(full)
    BY <1>1, <1>3, <2>4, <2>5 DEF ReplaceCache, CacheOf
  <2> QED
    BY <1>2, <1>3, <1>6, <2>5, <2>6, <2>7 DEF Answered
<1> QED
  BY <1>4, <1>5, <1>6

\* The rows of all tokens: as many, each of its prefix, and the last of all of them.
LEMMA LastOfRows ==
    ASSUME NEW S, NEW tokens \in Seq(S), tokens # <<>>
    PROVE  /\ Len(Rows(Layers, tokens, 0, Len(tokens))) = Len(tokens)
           /\ \A i \in 1 .. Len(tokens) : Rows(Layers, tokens, 0, Len(tokens))[i] = Row(Layers, SubSeq(tokens, 1, i))
           /\ Rows(Layers, tokens, 0, Len(tokens)) # <<>>
           /\ Last(Rows(Layers, tokens, 0, Len(tokens))) = Row(Layers, tokens)
<1>1. PICK n : n = Len(tokens)
  OBVIOUS
<1>2. n \in Nat /\ n # 0
  BY <1>1, EmptySeq
<1>3. PICK rows : rows = Rows(Layers, tokens, 0, n)
  OBVIOUS
<1>4. ASSUME NEW i \in 1 .. n PROVE rows[i] = Row(Layers, SubSeq(tokens, 1, i))
  <2>1. 0 + i = i
    BY <1>2
  <2> QED
    BY <1>3, <2>1 DEF Rows
<1>5. rows = [i \in 1 .. n |-> rows[i]]
  BY <1>3 DEF Rows
<1>6. Len(rows) = n /\ rows # <<>>
  BY <1>2, <1>5, TupleFacts
<1>7. Last(rows) = Row(Layers, tokens)
  <2>1. SubSeq(tokens, 1, n) = tokens
    BY <1>1, SubSeqFull
  <2>2. rows[n] = Row(Layers, tokens)
    <3>1. n \in 1 .. n
      BY <1>2
    <3> QED
      BY <1>4, <2>1, <3>1
  <2> QED
    BY <1>6, <2>2 DEF Last
<1> QED
  BY <1>1, <1>3, <1>4, <1>6, <1>7

\* The session after a step that replaced its cache, or left it alone.
LEMMA CacheReplaced ==
    ASSUME NEW tokens \in Seq(Tokens), cache' = CacheOf(tokens)
    PROVE  CacheInv' /\ CachedTokens' = tokens
<1>1. CachedTokens' = TokensIn(CacheOf(tokens))
  BY DEF CachedTokens, TokensIn
<1>2. CachedTokens' = tokens
  BY <1>1, TokensInFacts
<1> QED
  BY <1>2 DEF CacheInv

\* A step that leaves the cache alone leaves the tokens it is of.
LEMMA CacheKept ==
    ASSUME CacheInv, cache' = cache
    PROVE  CacheInv' /\ CachedTokens' = CachedTokens
BY DEF CacheInv, CachedTokens

\* An answer is that of one pass.
LEMMA AnsweredIsRight ==
    ASSUME NEW tokens \in Seq(Tokens), NEW outcome, Answered(tokens, outcome),
           tokens # <<>> \/ outcome # "ok"
    PROVE  ReplyInv' /\ asked' \in Seq(Tokens)
BY DEF Answered, ReplyInv

\* The prompts callers pass and generate makes are sequences of tokens.
LEMMA PromptFacts ==
    /\ \A p \in Prompts : p \in Seq(Tokens)
    /\ \A e \in Encodings : PromptOf(e) \in Seq(Tokens) \ {<<>>}
<1>1. ASSUME NEW p \in Prompts PROVE p \in Seq(Tokens)
  <2>1. PICK n \in 0 .. MaxPrompt : p \in [1 .. n -> Tokens]
    BY DEF Prompts
  <2>2. n \in Nat
    BY SessionAssumption
  <2> QED
    BY <2>1, <2>2
<1>2. ASSUME NEW e \in Encodings PROVE PromptOf(e) \in Seq(Tokens) \ {<<>>}
  <2>1. e \in Seq(Tokens) /\ Bos \in Tokens /\ FirstToken \in Tokens
    BY SessionAssumption
  <2>2. <<FirstToken>> \in Seq(Tokens) /\ <<FirstToken>> # <<>>
    BY <2>1
  <2>3. <<Bos>> \o e \in Seq(Tokens) /\ <<Bos>> \o e # <<>>
    <3>1. <<Bos>> \in Seq(Tokens) /\ Len(<<Bos>>) = 1
      BY <2>1
    <3>2. <<Bos>> \o e \in Seq(Tokens) /\ Len(<<Bos>> \o e) = 1 + Len(e) /\ Len(e) \in Nat
      BY <2>1, <3>1
    <3> QED
      BY <3>2
  <2> QED
    BY <2>1, <2>2, <2>3 DEF PromptOf
<1> QED
  BY <1>1, <1>2

\* An engine starts with an empty session.
LEMMA InitInv == Init => IInv
<1> SUFFICES ASSUME Init PROVE IInv
  OBVIOUS
<1>1. CachedTokens = <<>> /\ cache = CacheOf(<<>>)
  BY DEF Init, CachedTokens, CacheOf, EmptyCache
<1>2. TypeInv
  <2>1. <<>> \in Seq(Tokens) /\ Len(<<>>) = 0
    BY EmptySeq
  <2>2. gen = [pc |-> "idle", prompt |-> <<>>, max |-> 0, tokens |-> <<>>]
    BY DEF Init, NoGeneration
  <2>3. gen.tokens = <<>> /\ gen.max = 0
    BY <2>2
  <2>4. gen \in [pc : {"idle", "sample", "step", "flush"}, prompt : Seq(Tokens), max : Nat, tokens : Seq(Tokens)]
    BY <2>1, <2>2
  <2>5. loaded \in BOOLEAN /\ (loaded => tokenizer # "null") /\ tokenizer \in {"null", "unloaded", "loaded"}
    BY DEF Init
  <2>6. asked \in Seq(Tokens) /\ generated_tokens \in Seq(Tokens) /\ all_tokens \in Seq(Tokens)
    BY <2>1 DEF Init, StreamerInit
  <2>7. Len(gen.tokens) <= gen.max
    BY <2>1, <2>3
  <2> QED
    BY <2>4, <2>5, <2>6, <2>7 DEF TypeInv
<1>3. CacheInv
  BY <1>1 DEF CacheInv
<1>4. ReplyInv /\ GenInv
  BY DEF Init, ReplyInv, GenInv, NoGeneration
<1> QED
  BY <1>2, <1>3, <1>4 DEF IInv

-----------------------------------------------------------------------------
(* The calls.                                                              *)

\* load touches neither session nor answer.
LEMMA LoadKeeps ==
    ASSUME IInv, NEW tok \in {"null", "unloaded", "loaded"}, NEW o \in Outcomes, CallLoad(tok, o)
    PROVE  IInv'
<1>1. TypeInv'
  BY DEF IInv, TypeInv, CallLoad, streamer, Idle
<1>2. CacheInv'
  BY CacheKept DEF IInv, CallLoad
<1>3. ReplyInv'
  BY DEF IInv, ReplyInv, CallLoad
<1>4. GenInv'
  BY DEF CallLoad, Idle, GenInv
<1> QED
  BY <1>1, <1>2, <1>3, <1>4 DEF IInv

\* prefill replaces the session, or throws before it has.
LEMMA PrefillKeeps ==
    ASSUME IInv, NEW tokens \in Prompts, NEW o \in Outcomes, CallPrefill(tokens, o)
    PROVE  IInv'
<1>1. tokens \in Seq(Tokens) /\ PrefillBody(tokens, o)
  BY PromptFacts DEF CallPrefill
<1>2. /\ Answered(tokens, o)
      /\ o = "throws early" => cache' = cache
      /\ o # "throws early" => tokens # <<>> /\ cache' = CacheOf(tokens)
  BY <1>1, PrefillBodyFacts
<1>3. CacheInv'
  BY <1>1, <1>2, CacheKept, CacheReplaced DEF IInv
<1>4. ReplyInv' /\ asked' \in Seq(Tokens)
  <2>1. tokens # <<>> \/ o # "ok"
    BY <1>2
  <2> QED
    BY <1>1, <1>2, <2>1, AnsweredIsRight
<1>5. TypeInv'
  BY <1>4 DEF IInv, TypeInv, CallPrefill, streamer
<1>6. GenInv'
  BY DEF CallPrefill, Idle, GenInv
<1> QED
  BY <1>3, <1>4, <1>5, <1>6 DEF IInv

\* forward_step makes the session one token longer, or throws before it has.
LEMMA ForwardStepKeeps ==
    ASSUME IInv, NEW token \in Tokens, NEW o \in Outcomes, CallForwardStep(token, o)
    PROVE  IInv'
<1>1. CacheInv /\ StepBody(token, cache.seq_len, o)
  BY DEF IInv, CallForwardStep
<1>2. PICK full : full = Append(CachedTokens, token)
  OBVIOUS
<1>3. /\ full \in Seq(Tokens) /\ full # <<>> /\ Answered(full, o)
      /\ o = "throws early" => cache' = cache
      /\ o # "throws early" => cache' = CacheOf(full)
  BY <1>1, <1>2, StepBodyFacts
<1>4. CacheInv'
  BY <1>1, <1>3, CacheKept, CacheReplaced
<1>5. ReplyInv' /\ asked' \in Seq(Tokens)
  BY <1>3, AnsweredIsRight
<1>6. TypeInv'
  BY <1>5 DEF IInv, TypeInv, CallForwardStep, streamer
<1>7. GenInv'
  BY DEF CallForwardStep, Idle, GenInv
<1> QED
  BY <1>4, <1>5, <1>6, <1>7 DEF IInv

\* The answer to a stateless question.
LEMMA ForwardLogitsFacts ==
    ASSUME NEW tokens \in Prompts, NEW full \in BOOLEAN, NEW o \in Outcomes,
           CallForwardLogits(tokens, full, o)
    PROVE  /\ tokens \in Seq(Tokens) /\ asked' = tokens
           /\ o # "ok" => reply' = <<>>
           /\ o = "ok" => /\ tokens # <<>>
                          /\ reply' \in {<<Row(Layers, tokens)>>, Rows(Layers, tokens, 0, Len(tokens))}
<1>1. tokens \in Seq(Tokens) /\ asked' = tokens
  BY PromptFacts DEF CallForwardLogits
<1>2. CASE o # "ok"
  BY <1>1, <1>2 DEF CallForwardLogits
<1>3. CASE o = "ok"
  <2>1. tokens # <<>>
    BY <1>3 DEF CallForwardLogits
  <2>2. PrefillGraph(W, tokens, FALSE).logits = Rows(Layers, tokens, 0, Len(tokens))
    <3>1. PrefillGraph(W, tokens, FALSE)
            = [logits |-> Rows(Layers, tokens, 0, Len(tokens)),
               k |-> HeldKeys(Layers, tokens), v |-> HeldValues(Layers, tokens)]
      BY <1>1, <2>1, PrefillFacts
    <3>2. PICK out : out = PrefillGraph(W, tokens, FALSE)
      OBVIOUS
    <3>3. out = [logits |-> Rows(Layers, tokens, 0, Len(tokens)),
                 k |-> HeldKeys(Layers, tokens), v |-> HeldValues(Layers, tokens)]
      BY <3>1, <3>2, Zenon
    <3>4. out.logits = Rows(Layers, tokens, 0, Len(tokens))
      BY <3>3
    <3> QED
      BY <3>2, <3>4, Zenon
  <2>3. Last(Rows(Layers, tokens, 0, Len(tokens))) = Row(Layers, tokens)
    BY <1>1, <2>1, LastOfRows
  <2> QED
    BY <1>1, <1>3, <2>1, <2>2, <2>3 DEF CallForwardLogits
<1> QED
  BY <1>1, <1>2, <1>3

\* The stateless forwards leave the session alone.
LEMMA ForwardLogitsKeeps ==
    ASSUME IInv, NEW tokens \in Prompts, NEW full \in BOOLEAN, NEW o \in Outcomes,
           CallForwardLogits(tokens, full, o)
    PROVE  IInv'
<1>1. ReplyInv' /\ asked' \in Seq(Tokens)
  BY ForwardLogitsFacts DEF ReplyInv
<1>2. CacheInv'
  BY CacheKept DEF IInv, CallForwardLogits, session
<1>3. TypeInv'
  BY <1>1 DEF IInv, TypeInv, CallForwardLogits, session, streamer
<1>4. GenInv'
  BY DEF CallForwardLogits, Idle, GenInv
<1> QED
  BY <1>1, <1>2, <1>3, <1>4 DEF IInv

\* reset_session empties the session.
LEMMA ResetSessionKeeps ==
    ASSUME IInv, CallResetSession
    PROVE  IInv'
<1>1. CacheInv'
  <2>1. cache' = CacheOf(<<>>) /\ <<>> \in Seq(Tokens)
    BY DEF CallResetSession, CacheOf
  <2> QED
    BY <2>1, CacheReplaced
<1>2. TypeInv'
  BY DEF IInv, TypeInv, CallResetSession, streamer
<1>3. ReplyInv'
  BY DEF IInv, ReplyInv, CallResetSession
<1>4. GenInv'
  BY DEF CallResetSession, Idle, GenInv
<1> QED
  BY <1>1, <1>2, <1>3, <1>4 DEF IInv

\* All but the last element of a sequence that was appended to.
LEMMA FrontOfAppend ==
    ASSUME NEW S, NEW s \in Seq(S), NEW e \in S
    PROVE  SubSeq(Append(s, e), 1, Len(Append(s, e)) - 1) = s
<1>1. PICK t : t = Append(s, e)
  OBVIOUS
<1>2. t \in Seq(S) /\ Len(t) = Len(s) + 1 /\ Len(s) \in Nat /\ \A i \in 1 .. Len(s) : t[i] = s[i]
  BY <1>1
<1>3. SubSeq(t, 1, Len(s)) = [i \in 1 .. Len(s) |-> t[i]]
  BY <1>2
<1>4. SubSeq(t, 1, Len(s)) = s
  <2>1. [i \in 1 .. Len(s) |-> t[i]] = [i \in 1 .. Len(s) |-> s[i]]
    BY <1>2
  <2>2. s = [i \in 1 .. Len(s) |-> s[i]]
    OBVIOUS
  <2> QED
    BY <1>3, <2>1, <2>2
<1>5. Len(t) - 1 = Len(s)
  BY <1>2
<1> QED
  BY <1>1, <1>4, <1>5

\* The last element of a sequence behind the others.
LEMMA FrontAndLast ==
    ASSUME NEW S, NEW s \in Seq(S), s # <<>>
    PROVE  /\ s[Len(s)] \in S /\ SubSeq(s, 1, Len(s) - 1) \in Seq(S)
           /\ Append(SubSeq(s, 1, Len(s) - 1), s[Len(s)]) = s
<1>1. PICK n : n = Len(s)
  OBVIOUS
<1>2. n \in Nat /\ n # 0 /\ n - 1 \in Nat /\ s[n] \in S
  <2>1. n \in Nat /\ n # 0
    BY <1>1, EmptySeq
  <2>2. n \in 1 .. Len(s)
    BY <1>1, <2>1
  <2> QED
    BY <2>1, <2>2
<1>3. PICK front : front = SubSeq(s, 1, n - 1)
  OBVIOUS
<1>4. front \in Seq(S) /\ Len(front) = n - 1 /\ \A i \in 1 .. n - 1 : front[i] = s[i]
  BY <1>1, <1>2, <1>3
<1>5. PICK t : t = Append(front, s[n])
  OBVIOUS
<1>6. t \in Seq(S) /\ Len(t) = n /\ t[n] = s[n] /\ \A i \in 1 .. n - 1 : t[i] = s[i]
  BY <1>2, <1>4, <1>5
<1>7. \A i \in 1 .. n : t[i] = s[i]
  BY <1>2, <1>6
<1>8. t = s
  BY <1>1, <1>6, <1>7, SeqEqual
<1> QED
  BY <1>1, <1>2, <1>3, <1>4, <1>5, <1>8

\* The state in which generate reaches its sampler: its prompt has been fed.
LEMMA GenerateFacts ==
    ASSUME NEW e \in Encodings, NEW max \in 0 .. MaxNew, NEW o \in Outcomes,
           CallGenerate(PromptOf(e), max, o)
    PROVE  /\ PromptOf(e) \in Seq(Tokens) \ {<<>>} /\ max \in Nat
           /\ Answered(PromptOf(e), o)
           /\ cache' = CacheOf(IF o = "throws early" THEN <<>> ELSE PromptOf(e))
           /\ gen' = [pc |-> IF o # "ok" \/ max = 0 THEN "idle" ELSE "sample",
                      prompt |-> PromptOf(e), max |-> max, tokens |-> <<>>]
<1>1. PICK p : p = PromptOf(e)
  OBVIOUS
<1>2. p \in Seq(Tokens) /\ p # <<>> /\ max \in Nat
  BY <1>1, PromptFacts, SessionAssumption
<1>3. /\ asked' = p
      /\ IF o = "throws early" THEN reply' = <<>> /\ cache' = EmptyCache
         ELSE LET out == PrefillGraph(W, p, TRUE)
              IN  Return(out, o) /\ ReplaceCache(out, Len(p))
      /\ gen' = [pc |-> IF o # "ok" \/ max = 0 THEN "idle" ELSE "sample",
                 prompt |-> p, max |-> max, tokens |-> <<>>]
  BY <1>1 DEF CallGenerate
<1>4. CASE o = "throws early"
  BY <1>1, <1>2, <1>3, <1>4 DEF Answered, CacheOf
<1>5. CASE o # "throws early"
  <2>1. PICK out : out = PrefillGraph(W, p, TRUE)
    OBVIOUS
  <2>2. out = [logits |-> <<Row(Layers, p)>>, k |-> HeldKeys(Layers, p), v |-> HeldValues(Layers, p)]
    BY <1>2, <2>1, PrefillFacts
  <2>3. out.logits = <<Row(Layers, p)>> /\ out.k = HeldKeys(Layers, p) /\ out.v = HeldValues(Layers, p)
    BY <2>2
  <2>4. Return(out, o) /\ ReplaceCache(out, Len(p))
    BY <1>3, <1>5, <2>1
  <2>5. SubSeq(<<Row(Layers, p)>>, 1, 1) = <<Row(Layers, p)>>
    BY OnlyElement
  <2>6. reply' = IF o = "ok" THEN <<Row(Layers, p)>> ELSE <<>>
    BY <2>3, <2>4, <2>5 DEF Return
  <2>7. cache' = CacheOf(p)
    BY <1>2, <2>3, <2>4 DEF ReplaceCache, CacheOf
  <2> QED
    BY <1>1, <1>2, <1>3, <1>5, <2>6, <2>7 DEF Answered
<1> QED
  BY <1>4, <1>5

\* generate replaces the session by its prompt, or empties it.
LEMMA GenerateKeeps ==
    ASSUME IInv, NEW e \in Encodings, NEW max \in 0 .. MaxNew, NEW o \in Outcomes,
           CallGenerate(PromptOf(e), max, o)
    PROVE  IInv'
<1>1. PICK p : p = PromptOf(e)
  OBVIOUS
<1>2. /\ p \in Seq(Tokens) /\ p # <<>> /\ max \in Nat /\ Answered(p, o)
      /\ cache' = CacheOf(IF o = "throws early" THEN <<>> ELSE p)
      /\ gen' = [pc |-> IF o # "ok" \/ max = 0 THEN "idle" ELSE "sample",
                 prompt |-> p, max |-> max, tokens |-> <<>>]
  BY <1>1, GenerateFacts
<1>3. <<>> \in Seq(Tokens) /\ Len(<<>>) = 0
  BY EmptySeq
<1>4. PICK fed \in Seq(Tokens) : fed = IF o = "throws early" THEN <<>> ELSE p
  BY <1>2, <1>3
<1>5. CacheInv' /\ CachedTokens' = fed
  BY <1>2, <1>4, CacheReplaced
<1>6. ReplyInv' /\ asked' \in Seq(Tokens)
  BY <1>2, AnsweredIsRight
<1>7. generated_tokens' = <<>> /\ all_tokens' = p
  BY <1>1 DEF CallGenerate, Reset
<1>8. gen'.tokens = <<>> /\ gen'.prompt = p /\ gen'.max = max
      /\ gen'.pc = IF o # "ok" \/ max = 0 THEN "idle" ELSE "sample"
  BY <1>2
<1>9. TypeInv'
  <2>1. gen' \in [pc : {"idle", "sample", "step", "flush"}, prompt : Seq(Tokens), max : Nat, tokens : Seq(Tokens)]
    BY <1>2, <1>3
  <2>2. loaded' = loaded /\ tokenizer' = tokenizer
    BY DEF CallGenerate
  <2>3. Len(gen'.tokens) <= gen'.max
    <3>1. gen'.tokens = <<>> /\ gen'.max = max
      BY <1>8, Zenon
    <3>2. 0 <= max
      OBVIOUS
    <3> QED
      BY <1>3, <3>1, <3>2
  <2> QED
    BY <1>2, <1>3, <1>6, <1>7, <2>1, <2>2, <2>3 DEF IInv, TypeInv
<1>10. GenInv'
  <2>1. SUFFICES ASSUME o = "ok", max # 0 PROVE GenInv'
    BY <1>8 DEF GenInv
  <2>2. gen'.pc = "sample" /\ fed = p
    BY <1>4, <1>8, <2>1
  <2>3. p \o <<>> = p
    BY <1>2, ConcatEmptySeq
  <2>4. FedTokens' = <<>>
    BY <1>8, <2>2 DEF FedTokens
  <2>5. Len(gen'.tokens) < gen'.max /\ Len(gen'.tokens) = 0
    BY <1>2, <1>3, <1>8, <2>1
  <2>6. CachedTokens' = gen'.prompt \o FedTokens' /\ all_tokens' = gen'.prompt \o gen'.tokens
    BY <1>5, <1>7, <1>8, <2>2, <2>3, <2>4
  <2>7. \A i \in 1 .. Len(gen'.tokens) - 1 : FALSE
    BY <2>5
  <2>8. \A i \in 1 .. Len(gen'.tokens) : FALSE
    BY <2>5
  <2> QED
    BY <1>2, <1>7, <1>8, <2>2, <2>5, <2>6, <2>7, <2>8 DEF GenInv
<1> QED
  BY <1>5, <1>6, <1>9, <1>10 DEF IInv

-----------------------------------------------------------------------------
(* The loop of generate.                                                   *)

\* The sampled token is recorded and still to be fed; the loop ends at an eos and
\* at the last of max_new_tokens.
LEMMA SampleKeeps ==
    ASSUME IInv, NEW token \in Tokens, Sample(token)
    PROVE  IInv'
<1>1. PICK old, new : old = gen.tokens /\ new = Append(old, token)
  OBVIOUS
<1>2. /\ gen \in [pc : {"idle", "sample", "step", "flush"}, prompt : Seq(Tokens),
                  max : Nat, tokens : Seq(Tokens)]
      /\ gen.pc = "sample" /\ old \in Seq(Tokens) /\ gen.max \in Nat /\ gen.prompt \in Seq(Tokens)
  BY <1>1 DEF IInv, TypeInv, Sample
<1>3. /\ gen.prompt # <<>> /\ CachedTokens = gen.prompt \o old
      /\ generated_tokens = old /\ all_tokens = gen.prompt \o old
      /\ Len(old) < gen.max /\ Len(old) \in Nat
      /\ HasTokenizer => \A i \in 1 .. Len(old) : old[i] # Eos
  BY <1>1, <1>2 DEF IInv, GenInv, FedTokens
<1>4. /\ new \in Seq(Tokens) /\ Len(new) = Len(old) + 1 /\ new # <<>> /\ new[Len(new)] = token
      /\ \A i \in 1 .. Len(old) : new[i] = old[i]
  BY <1>1, <1>2
<1>5. PICK pc : pc = IF Len(old) + 1 = gen.max \/ (HasTokenizer /\ token = Eos) THEN "flush" ELSE "step"
  OBVIOUS
<1>6. gen' = [gen EXCEPT !.tokens = new, !.pc = pc]
  BY <1>1, <1>5 DEF Sample
<1>7. gen'.pc = pc /\ gen'.tokens = new /\ gen'.prompt = gen.prompt /\ gen'.max = gen.max
  BY <1>2, <1>6
<1>8. generated_tokens' = new /\ all_tokens' = Append(gen.prompt \o old, token)
  BY <1>1, <1>3 DEF Sample, Put
<1>9. Append(gen.prompt \o old, token) = gen.prompt \o new
  <2>1. gen.prompt \in Seq(Tokens) /\ old \in Seq(Tokens)
    BY <1>2
  <2>2. PICK prompt \in Seq(Tokens) : prompt = gen.prompt
    BY <2>1
  <2>3. Append(prompt \o old, token) = prompt \o Append(old, token)
    BY <2>1
  <2> QED
    BY <1>1, <2>2, <2>3
<1>10. CacheInv' /\ CachedTokens' = CachedTokens
  BY CacheKept DEF IInv, Sample, session
<1>11. ReplyInv'
  BY DEF IInv, ReplyInv, Sample
<1>12. TypeInv'
  <2>1. gen' \in [pc : {"idle", "sample", "step", "flush"}, prompt : Seq(Tokens), max : Nat, tokens : Seq(Tokens)]
    BY <1>2, <1>4, <1>5, <1>6
  <2>2. loaded' = loaded /\ tokenizer' = tokenizer /\ asked' = asked
    BY DEF Sample, session
  <2>3. Len(gen'.tokens) <= gen'.max
    BY <1>2, <1>3, <1>4, <1>7
  <2>4. all_tokens' \in Seq(Tokens)
    BY <1>2, <1>4, <1>8, <1>9
  <2> QED
    BY <1>4, <1>8, <2>1, <2>2, <2>3, <2>4 DEF IInv, TypeInv
<1>13. GenInv'
  <2>1. HasTokenizer' = HasTokenizer
    BY DEF Sample, session, HasTokenizer
  <2>2. FedTokens' = old
    <3>1. FedTokens' = SubSeq(new, 1, Len(new) - 1)
      BY <1>5, <1>7 DEF FedTokens
    <3> QED
      BY <1>1, <1>2, <1>4, <3>1, FrontOfAppend
  <2>3. CachedTokens' = gen'.prompt \o FedTokens' /\ all_tokens' = gen'.prompt \o gen'.tokens
    BY <1>3, <1>7, <1>8, <1>9, <1>10, <2>2
  <2>4. HasTokenizer' => \A i \in 1 .. Len(new) - 1 : new[i] # Eos
    BY <1>3, <1>4, <2>1
  <2>5. pc = "step" => /\ Len(new) < gen.max
                       /\ HasTokenizer' => \A i \in 1 .. Len(new) : new[i] # Eos
    <3>1. SUFFICES ASSUME pc = "step" PROVE /\ Len(new) < gen.max
                                            /\ HasTokenizer => \A i \in 1 .. Len(new) : new[i] # Eos
      BY <2>1
    <3>2. Len(old) + 1 # gen.max /\ ~(HasTokenizer /\ token = Eos)
      BY <1>5, <3>1
    <3>3. \A i \in 1 .. Len(new) : i \in 1 .. Len(old) \/ i = Len(new)
      BY <1>3, <1>4
    <3>4. Len(new) < gen.max
      BY <1>2, <1>3, <1>4, <3>2
    <3>5. ASSUME HasTokenizer, NEW i \in 1 .. Len(new) PROVE new[i] # Eos
      <4>1. CASE i \in 1 .. Len(old)
        BY <1>3, <1>4, <3>5, <4>1
      <4>2. CASE i = Len(new)
        BY <1>4, <3>2, <3>5, <4>2
      <4> QED
        BY <3>3, <4>1, <4>2
    <3> QED
      BY <3>4, <3>5
  <2>6. pc \in {"step", "flush"}
    BY <1>5
  <2> QED
    BY <1>3, <1>4, <1>7, <1>8, <2>3, <2>4, <2>5, <2>6 DEF GenInv
<1> QED
  BY <1>10, <1>11, <1>12, <1>13 DEF IInv

\* The step feeds the last token to the session, which then holds the prompt
\* and all tokens.
LEMMA GenerateStepKeeps ==
    ASSUME IInv, NEW o \in Outcomes, GenerateStep(o)
    PROVE  IInv'
<1>1. PICK tokens, prompt : tokens = gen.tokens /\ prompt = gen.prompt
  OBVIOUS
<1>2. /\ gen \in [pc : {"idle", "sample", "step", "flush"}, prompt : Seq(Tokens),
                  max : Nat, tokens : Seq(Tokens)]
      /\ gen.pc = "step" /\ tokens \in Seq(Tokens) /\ gen.max \in Nat /\ prompt \in Seq(Tokens)
  BY <1>1 DEF IInv, TypeInv, GenerateStep, CanStep
<1>3. PICK token, front : token = tokens[Len(tokens)] /\ front = SubSeq(tokens, 1, Len(tokens) - 1)
  OBVIOUS
<1>4. /\ tokens # <<>> /\ prompt # <<>>
      /\ CachedTokens = prompt \o front
      /\ generated_tokens = tokens /\ all_tokens = prompt \o tokens
      /\ Len(tokens) < gen.max
      /\ HasTokenizer => \A i \in 1 .. Len(tokens) : tokens[i] # Eos
  BY <1>1, <1>2, <1>3 DEF IInv, GenInv, FedTokens
<1>5. token \in Tokens /\ front \in Seq(Tokens) /\ Append(front, token) = tokens
  BY <1>2, <1>3, <1>4, FrontAndLast
<1>6. PICK full : full = Append(CachedTokens, token)
  OBVIOUS
<1>7. full = prompt \o tokens
  <2>1. prompt \in Seq(Tokens) /\ front \in Seq(Tokens) /\ token \in Tokens
    BY <1>2, <1>5
  <2>2. Append(prompt \o front, token) = prompt \o Append(front, token)
    BY <2>1
  <2> QED
    BY <1>4, <1>5, <1>6, <2>2
<1>8. CacheInv /\ StepBody(token, cache.seq_len, o)
  BY <1>1, <1>3 DEF IInv, GenerateStep, NextToken
<1>9. /\ full \in Seq(Tokens) /\ full # <<>> /\ Answered(full, o)
      /\ o = "throws early" => cache' = cache
      /\ o # "throws early" => cache' = CacheOf(full)
  BY <1>5, <1>6, <1>8, StepBodyFacts
<1>10. CacheInv' /\ (o # "throws early" => CachedTokens' = full)
  BY <1>8, <1>9, CacheKept, CacheReplaced
<1>11. ReplyInv' /\ asked' \in Seq(Tokens)
  BY <1>9, AnsweredIsRight
<1>12. PICK pc : pc = IF o = "ok" THEN "sample" ELSE "idle"
  OBVIOUS
<1>13. gen' = [gen EXCEPT !.pc = pc]
  BY <1>12 DEF GenerateStep
<1>14. gen'.pc = pc /\ gen'.tokens = tokens /\ gen'.prompt = prompt /\ gen'.max = gen.max
  BY <1>1, <1>2, <1>13
<1>15. /\ loaded' = loaded /\ tokenizer' = tokenizer
       /\ generated_tokens' = generated_tokens /\ all_tokens' = all_tokens
  BY DEF GenerateStep, streamer
<1>16. TypeInv'
  <2>1. gen' \in [pc : {"idle", "sample", "step", "flush"}, prompt : Seq(Tokens), max : Nat, tokens : Seq(Tokens)]
    BY <1>2, <1>12, <1>13
  <2>2. Len(gen'.tokens) <= gen'.max
    BY <1>1, <1>14 DEF IInv, TypeInv
  <2> QED
    BY <1>11, <1>15, <2>1, <2>2 DEF IInv, TypeInv
<1>17. GenInv'
  <2>1. SUFFICES ASSUME o = "ok" PROVE GenInv'
    BY <1>12, <1>14 DEF GenInv
  <2>2. HasTokenizer' = HasTokenizer
    BY <1>15 DEF HasTokenizer
  <2>3. gen'.pc = "sample" /\ FedTokens' = tokens
    BY <1>12, <1>14, <2>1 DEF FedTokens
  <2>4. CachedTokens' = gen'.prompt \o FedTokens' /\ all_tokens' = gen'.prompt \o gen'.tokens
    BY <1>4, <1>7, <1>10, <1>14, <1>15, <2>1, <2>3
  <2>5. HasTokenizer' => \A i \in 1 .. Len(tokens) - 1 : tokens[i] # Eos
    <3>1. \A i \in 1 .. Len(tokens) - 1 : i \in 1 .. Len(tokens)
      BY <1>2
    <3> QED
      BY <1>4, <2>2, <3>1
  <2>6. HasTokenizer' => \A i \in 1 .. Len(tokens) : tokens[i] # Eos
    BY <1>4, <2>2
  <2> QED
    BY <1>4, <1>14, <1>15, <2>3, <2>4, <2>5, <2>6 DEF GenInv
<1> QED
  BY <1>10, <1>11, <1>16, <1>17 DEF IInv

\* The return of generate touches neither session nor answer.
LEMMA GenerateReturnKeeps ==
    ASSUME IInv, GenerateReturn
    PROVE  IInv'
<1>1. CacheInv'
  BY CacheKept DEF IInv, GenerateReturn, session
<1>2. ReplyInv'
  BY DEF IInv, ReplyInv, GenerateReturn
<1>3. gen' = [gen EXCEPT !.pc = "idle"]
  BY DEF GenerateReturn
<1>4. TypeInv'
  BY <1>3 DEF IInv, TypeInv, GenerateReturn, session, Flush
<1>5. GenInv'
  BY <1>3 DEF IInv, TypeInv, GenInv
<1> QED
  BY <1>1, <1>2, <1>4, <1>5 DEF IInv

\* A sampler that throws ends the generation and nothing else.
LEMMA CallbackThrowsKeeps ==
    ASSUME IInv, CallbackThrows
    PROVE  IInv'
<1>1. CacheInv'
  BY CacheKept DEF IInv, CallbackThrows, session
<1>2. ReplyInv'
  BY DEF IInv, ReplyInv, CallbackThrows
<1>3. gen' = [gen EXCEPT !.pc = "idle"]
  BY DEF CallbackThrows
<1>4. TypeInv'
  BY <1>3 DEF IInv, TypeInv, CallbackThrows, session, streamer
<1>5. GenInv'
  BY <1>3 DEF IInv, TypeInv, GenInv
<1> QED
  BY <1>1, <1>2, <1>4, <1>5 DEF IInv

\* Every step keeps the invariant.
LEMMA IInvIsInductive == IInv /\ [Next]_vars => IInv'
<1> SUFFICES ASSUME IInv, [Next]_vars PROVE IInv'
  OBVIOUS
<1>1. ASSUME NEW tok \in {"null", "unloaded", "loaded"}, NEW o \in Outcomes, CallLoad(tok, o) PROVE IInv'
  BY <1>1, LoadKeeps
<1>2. ASSUME NEW p \in Prompts, NEW o \in Outcomes, CallPrefill(p, o) PROVE IInv'
  BY <1>2, PrefillKeeps
<1>3. ASSUME NEW t \in Tokens, NEW o \in Outcomes, CallForwardStep(t, o) PROVE IInv'
  BY <1>3, ForwardStepKeeps
<1>4. ASSUME NEW p \in Prompts, NEW full \in BOOLEAN, NEW o \in Outcomes, CallForwardLogits(p, full, o)
      PROVE  IInv'
  BY <1>4, ForwardLogitsKeeps
<1>5. CASE CallResetSession
  BY <1>5, ResetSessionKeeps
<1>6. ASSUME NEW e \in Encodings, NEW max \in 0 .. MaxNew, NEW o \in Outcomes,
             CallGenerate(PromptOf(e), max, o)
      PROVE  IInv'
  BY <1>6, GenerateKeeps
<1>7. ASSUME NEW token \in Tokens, Sample(token) PROVE IInv'
  BY <1>7, SampleKeeps
<1>8. ASSUME NEW o \in Outcomes, GenerateStep(o) PROVE IInv'
  BY <1>8, GenerateStepKeeps
<1>9. CASE GenerateReturn
  BY <1>9, GenerateReturnKeeps
<1>10. CASE CallbackThrows
  BY <1>10, CallbackThrowsKeeps
<1>11. CASE UNCHANGED vars
  <2>1. UNCHANGED <<loaded, tokenizer, cache, reply, asked, gen, all_tokens, generated_tokens>>
    BY <1>11 DEF vars, session, streamer
  <2>2. CacheInv'
    BY <2>1, CacheKept DEF IInv
  <2>3. TypeInv' /\ ReplyInv'
    BY <2>1 DEF IInv, TypeInv, ReplyInv
  <2>4. GenInv'
    BY <2>1 DEF IInv, GenInv, FedTokens, CachedTokens, HasTokenizer
  <2> QED
    BY <2>2, <2>3, <2>4 DEF IInv
<1> QED
  BY <1>1, <1>2, <1>3, <1>4, <1>5, <1>6, <1>7, <1>8, <1>9, <1>10, <1>11 DEF Next, Generation

-----------------------------------------------------------------------------
(* What holds in every state of the session.                               *)

\* In every state of an engine, the cache is that of one forward pass over
\* the tokens it has been fed, the last answer is of such a pass, and a
\* generation has fed its prompt and all of its tokens but the last.
THEOREM SessionInvariant == Spec => []IInv
<1>1. Init => IInv
  BY InitInv
<1>2. IInv /\ [Next]_vars => IInv'
  BY IInvIsInductive
<1> QED
  BY <1>1, <1>2, PTL DEF Spec

\* The variables keep their types, and the two halves of a cache their length.
THEOREM SessionTypes == Spec => []TypeOK
<1>1. IInv => TypeOK
  <2> SUFFICES ASSUME IInv PROVE TypeOK
    OBVIOUS
  <2>1. CachedTokens \in Seq(Tokens) /\ cache = CacheOf(CachedTokens)
    BY DEF IInv, CacheInv
  <2>2. DOMAIN cache.k = DOMAIN cache.v /\ Len(cache.k) \in {0, Layers}
    <3>1. CASE CachedTokens = <<>>
      <4>1. cache.k = <<>> /\ cache.v = <<>>
        BY <2>1, <3>1 DEF CacheOf, EmptyCache
      <4> QED
        BY <4>1
    <3>2. CASE CachedTokens # <<>>
      <4>1. PICK k, v : k = cache.k /\ v = cache.v
        OBVIOUS
      <4>2. k = HeldKeys(Layers, CachedTokens) /\ v = HeldValues(Layers, CachedTokens)
        BY <3>2, <4>1, CachedFacts DEF IInv
      <4>3. k = [l \in 1 .. Layers |-> k[l]] /\ v = [l \in 1 .. Layers |-> v[l]] /\ Layers \in Nat
        BY <4>2, LlamaShape DEF HeldKeys, HeldValues
      <4>4. Len(k) = Layers /\ DOMAIN k = 1 .. Layers /\ DOMAIN v = 1 .. Layers
        BY <4>3, TupleFacts
      <4> QED
        BY <4>1, <4>4
    <3> QED
      BY <3>1, <3>2
  <2>3. cache.seq_len \in Nat
    <3>1. cache.seq_len = Len(CachedTokens)
      BY CachedFacts DEF IInv
    <3> QED
      BY <2>1, <3>1
  <2> QED
    BY <2>1, <2>2, <2>3 DEF IInv, TypeInv, TypeOK
<1> QED
  BY <1>1, SessionInvariant, PTL

\* The cache an engine has filled token by token, or prompt by prompt, is the
\* one a single pass over all tokens of the session would fill.
THEOREM CacheIsRight == Spec => []CacheIsThatOfOnePass
<1>1. IInv => CacheIsThatOfOnePass
  <2> SUFFICES ASSUME IInv PROVE CacheIsThatOfOnePass
    OBVIOUS
  <2>1. cache = CacheOf(CachedTokens) /\ cache.seq_len = Len(CachedTokens)
    BY CachedFacts DEF IInv, CacheInv
  <2>2. ASSUME NEW l \in DOMAIN cache.k
        PROVE  cache.k[l] = KeysOf(l, CachedTokens) /\ cache.v[l] = ValuesOf(l, CachedTokens)
    <3>1. CASE CachedTokens = <<>>
      <4>1. cache.k = <<>>
        BY <2>1, <3>1 DEF CacheOf, EmptyCache
      <4>2. DOMAIN cache.k = {}
        BY <4>1
      <4> QED
        BY <2>2, <4>2
    <3>2. CASE CachedTokens # <<>>
      <4>1. cache.k = HeldKeys(Layers, CachedTokens) /\ cache.v = HeldValues(Layers, CachedTokens)
        BY <3>2, CachedFacts DEF IInv
      <4>2. l \in 1 .. Layers
        BY <2>2, <4>1 DEF HeldKeys
      <4> QED
        BY <4>1, <4>2 DEF HeldKeys, HeldValues
    <3> QED
      BY <3>1, <3>2
  <2> QED
    BY <2>1, <2>2 DEF CacheIsThatOfOnePass
<1> QED
  BY <1>1, SessionInvariant, PTL

\* Every row of logits a call returned is that of one pass over the tokens up
\* to its own.
THEOREM AnswersAreRight == Spec => []RowsSeeTheirPrefix
<1>1. IInv => RowsSeeTheirPrefix
  <2> SUFFICES ASSUME IInv, NEW i \in DOMAIN reply
               PROVE  <<reply[i]>> = Truth(SubSeq(asked, 1, Len(asked) - Len(reply) + i))
    BY DEF RowsSeeTheirPrefix
  <2>1. asked \in Seq(Tokens) /\ Len(asked) \in Nat
    BY DEF IInv, TypeInv
  <2>2. SUFFICES reply[i] = Row(Layers, SubSeq(asked, 1, Len(asked) - Len(reply) + i))
    BY DEF Truth
  <2>3. CASE reply = <<>>
    BY <2>3
  <2>4. CASE asked # <<>> /\ reply = <<Row(Layers, asked)>>
    <3>1. Len(reply) = 1 /\ i = 1 /\ reply[1] = Row(Layers, asked)
      BY <2>4
    <3>2. Len(asked) - Len(reply) + i = Len(asked)
      BY <2>1, <3>1
    <3>3. SubSeq(asked, 1, Len(asked)) = asked
      BY <2>1, SubSeqFull
    <3> QED
      BY <3>1, <3>2, <3>3
  <2>5. CASE asked # <<>> /\ reply = Rows(Layers, asked, 0, Len(asked))
    <3>1. /\ Len(reply) = Len(asked)
          /\ \A j \in 1 .. Len(asked) : reply[j] = Row(Layers, SubSeq(asked, 1, j))
      BY <2>1, <2>5, LastOfRows
    <3>2. i \in 1 .. Len(asked)
      <4>1. DOMAIN Rows(Layers, asked, 0, Len(asked)) = 1 .. Len(asked)
        BY DEF Rows
      <4> QED
        BY <2>5, <4>1
    <3>3. Len(asked) - Len(reply) + i = i
      BY <2>1, <3>1, <3>2
    <3> QED
      BY <3>1, <3>2, <3>3
  <2> QED
    BY <2>3, <2>4, <2>5 DEF IInv, ReplyInv
<1> QED
  BY <1>1, SessionInvariant, PTL

\* While generate runs, its session is its prompt and what it has generated,
\* but for the last token; nothing follows an eos.
THEOREM GenerationFollowsSession == Spec => []GenerationAndSessionAgree
<1>1. IInv => GenerationAndSessionAgree
  BY DEF IInv, GenInv, FedTokens, GenerationAndSessionAgree
<1> QED
  BY <1>1, SessionInvariant, PTL

-----------------------------------------------------------------------------
(* A session is a conversation.                                            *)

\* The answer of the conversation.
AnswerOf(rows) == IF rows = <<>> THEN <<>> ELSE <<Last(rows)>>

\* It is the truth about the question, or the call threw.
LEMMA AnswerIsTruth ==
    ASSUME NEW question \in Seq(Tokens), NEW rows,
           \/ rows = <<>>
           \/ /\ question # <<>>
              /\ rows \in {<<Row(Layers, question)>>, Rows(Layers, question, 0, Len(question))}
    PROVE  AnswerOf(rows) \in {Truth(question), <<>>}
<1>1. CASE rows = <<>>
  BY <1>1 DEF AnswerOf
<1>2. CASE rows = <<Row(Layers, question)>>
  <2>1. rows # <<>> /\ Last(rows) = Row(Layers, question)
    BY <1>2 DEF Last
  <2> QED
    BY <2>1 DEF AnswerOf, Truth
<1>3. CASE question # <<>> /\ rows = Rows(Layers, question, 0, Len(question))
  <2>1. rows # <<>> /\ Last(rows) = Row(Layers, question)
    BY <1>3, LastOfRows
  <2> QED
    BY <2>1 DEF AnswerOf, Truth
<1> QED
  BY <1>1, <1>2, <1>3

\* What a step does to the conversation.
Talk ==
    \/ UNCHANGED <<cache, reply, asked>>
    \/ CachedTokens' = CachedTokens
    \/ CachedTokens' = <<>> /\ reply' \in {reply, <<>>}
    \/ CachedTokens' \in Seq(Tokens) \ {<<>>} /\ asked' = CachedTokens'
    \/ /\ \E t \in Tokens : CachedTokens' = Append(CachedTokens, t)
       /\ asked' = CachedTokens'

\* Every step of the engine is one of the conversation.
LEMMA StepsTalk == IInv /\ [Next]_vars => Talk
<1> SUFFICES ASSUME IInv, [Next]_vars PROVE Talk
  OBVIOUS
<1>1. ASSUME NEW tok \in {"null", "unloaded", "loaded"}, NEW o \in Outcomes, CallLoad(tok, o) PROVE Talk
  BY <1>1 DEF CallLoad, Talk
<1>2. ASSUME NEW p \in Prompts, NEW o \in Outcomes, CallPrefill(p, o) PROVE Talk
  <2>1. p \in Seq(Tokens) /\ PrefillBody(p, o)
    BY <1>2, PromptFacts DEF CallPrefill
  <2>2. /\ Answered(p, o)
        /\ o = "throws early" => cache' = cache
        /\ o # "throws early" => p # <<>> /\ cache' = CacheOf(p)
    BY <2>1, PrefillBodyFacts
  <2>3. asked' = p
    BY <2>2 DEF Answered
  <2>4. CASE o = "throws early"
    BY <2>2, <2>4, CacheKept DEF IInv, Talk
  <2>5. CASE o # "throws early"
    <3>1. CachedTokens' = p
      BY <2>1, <2>2, <2>5, CacheReplaced
    <3> QED
      BY <2>1, <2>2, <2>3, <2>5, <3>1 DEF Talk
  <2> QED
    BY <2>4, <2>5
<1>3. ASSUME NEW t \in Tokens, NEW o \in Outcomes, StepBody(t, cache.seq_len, o) PROVE Talk
  <2>1. PICK full : full = Append(CachedTokens, t)
    OBVIOUS
  <2>2. CacheInv /\ full \in Seq(Tokens)
    BY <1>3, <2>1, StepBodyFacts DEF IInv
  <2>3. /\ Answered(full, o)
        /\ o = "throws early" => cache' = cache
        /\ o # "throws early" => cache' = CacheOf(full)
    BY <1>3, <2>1, <2>2, StepBodyFacts
  <2>4. asked' = full
    BY <2>3 DEF Answered
  <2>5. CASE o = "throws early"
    BY <2>2, <2>3, <2>5, CacheKept DEF Talk
  <2>6. CASE o # "throws early"
    <3>1. CachedTokens' = full
      BY <2>2, <2>3, <2>6, CacheReplaced
    <3> QED
      BY <2>1, <2>4, <3>1 DEF Talk
  <2> QED
    BY <2>5, <2>6
<1>4. ASSUME NEW t \in Tokens, NEW o \in Outcomes, CallForwardStep(t, o) PROVE Talk
  BY <1>3, <1>4 DEF CallForwardStep
<1>5. ASSUME NEW p \in Prompts, NEW full \in BOOLEAN, NEW o \in Outcomes, CallForwardLogits(p, full, o)
      PROVE  Talk
  BY <1>5, CacheKept DEF IInv, CallForwardLogits, session, Talk
<1>6. CASE CallResetSession
  <2>1. cache' = CacheOf(<<>>) /\ <<>> \in Seq(Tokens) /\ reply' = reply
    BY <1>6 DEF CallResetSession, CacheOf
  <2>2. CachedTokens' = <<>>
    BY <2>1, CacheReplaced
  <2> QED
    BY <2>1, <2>2 DEF Talk
<1>7. ASSUME NEW e \in Encodings, NEW max \in 0 .. MaxNew, NEW o \in Outcomes,
             CallGenerate(PromptOf(e), max, o)
      PROVE  Talk
  <2>1. PICK p : p = PromptOf(e)
    OBVIOUS
  <2>2. /\ p \in Seq(Tokens) \ {<<>>} /\ Answered(p, o)
        /\ cache' = CacheOf(IF o = "throws early" THEN <<>> ELSE p)
    BY <1>7, <2>1, GenerateFacts
  <2>3. CASE o = "throws early"
    <3>1. cache' = CacheOf(<<>>) /\ <<>> \in Seq(Tokens)
      <4>1. PICK fed : fed = IF o = "throws early" THEN <<>> ELSE p
        OBVIOUS
      <4>2. fed = <<>> /\ cache' = CacheOf(fed)
        BY <2>2, <2>3, <4>1
      <4> QED
        BY <4>2, EmptySeq, Zenon
    <3>2. CachedTokens' = <<>>
      BY <3>1, CacheReplaced
    <3>3. reply' = <<>>
      BY <2>2, <2>3 DEF Answered
    <3> QED
      BY <3>2, <3>3 DEF Talk
  <2>4. CASE o # "throws early"
    <3>1. cache' = CacheOf(p) /\ asked' = p
      BY <2>2, <2>4 DEF Answered
    <3>2. CachedTokens' = p
      BY <2>2, <3>1, CacheReplaced
    <3> QED
      BY <2>2, <3>1, <3>2 DEF Talk
  <2> QED
    BY <2>3, <2>4
<1>8. ASSUME NEW token \in Tokens, Sample(token) PROVE Talk
  BY <1>8 DEF Sample, session, Talk
<1>9. ASSUME NEW o \in Outcomes, GenerateStep(o) PROVE Talk
  <2>1. gen.tokens \in Seq(Tokens) /\ gen.tokens # <<>>
    BY <1>9 DEF IInv, TypeInv, GenInv, GenerateStep, CanStep
  <2>2. NextToken \in Tokens
    BY <2>1, FrontAndLast DEF NextToken
  <2> QED
    BY <1>3, <1>9, <2>2 DEF GenerateStep
<1>10. CASE GenerateReturn
  BY <1>10 DEF GenerateReturn, session, Talk
<1>11. CASE CallbackThrows
  BY <1>11 DEF CallbackThrows, session, Talk
<1>12. CASE UNCHANGED vars
  BY <1>12 DEF vars, session, Talk
<1> QED
  BY <1>1, <1>2, <1>4, <1>5, <1>6, <1>7, <1>8, <1>9, <1>10, <1>11, <1>12 DEF Next, Generation

\* A session is a conversation: however it was fed, in one prompt, token by token
\* or by a generation, with calls that throw, it answers the truth about the
\* tokens it has been fed, or about those of a stateless question.
THEOREM SessionIsAConversation == Spec => IsAConversation
<1>1. Init => AbstractConversation!Init
  BY DEF Init, CachedTokens, EmptyCache, AbstractConversation!Init
<1>2. IInv /\ IInv' /\ [Next]_vars
        => [AbstractConversation!Next]_<<CachedTokens, asked, AnswerOf(reply)>>
  <2> SUFFICES ASSUME IInv, IInv', [Next]_vars
               PROVE  \/ AbstractConversation!Next
                      \/ UNCHANGED <<CachedTokens, asked, AnswerOf(reply)>>
    OBVIOUS
  <2>1. asked' \in Seq(Tokens) /\ ReplyInv'
    BY DEF IInv, TypeInv
  <2>2. AnswerOf(reply') \in {Truth(asked'), <<>>}
    BY <2>1, AnswerIsTruth DEF ReplyInv
  <2>3. AbstractConversation!Answer
    BY <2>2 DEF AbstractConversation!Answer, AnswerOf
  <2>4. Talk
    BY StepsTalk
  <2>5. CASE UNCHANGED <<cache, reply, asked>>
    BY <2>5 DEF CachedTokens, AnswerOf
  <2>6. CASE CachedTokens' = CachedTokens
    BY <2>1, <2>3, <2>6 DEF AbstractConversation!Next, AbstractConversation!Ask
  <2>7. CASE CachedTokens' = <<>> /\ reply' \in {reply, <<>>}
    <3>1. AnswerOf(reply') \in {AnswerOf(reply), <<>>}
      BY <2>7 DEF AnswerOf
    <3> QED
      BY <2>7, <3>1 DEF AbstractConversation!Next, AbstractConversation!Forget, AnswerOf
  <2>8. CASE CachedTokens' \in Seq(Tokens) \ {<<>>} /\ asked' = CachedTokens'
    BY <2>3, <2>8 DEF AbstractConversation!Next, AbstractConversation!Start
  <2>9. CASE /\ \E t \in Tokens : CachedTokens' = Append(CachedTokens, t)
             /\ asked' = CachedTokens'
    BY <2>3, <2>9 DEF AbstractConversation!Next, AbstractConversation!Continue
  <2> QED
    BY <2>4, <2>5, <2>6, <2>7, <2>8, <2>9 DEF Talk
<1> QED
  BY <1>1, <1>2, SessionInvariant, PTL DEF Spec, IsAConversation, AbstractConversation!Spec, AnswerOf

-----------------------------------------------------------------------------
(* The streamed text.                                                      *)

\* f joins the first n elements of s, as FlattenSeq does.
Joins(f, s, n) == f = [i \in 1 .. n |-> IF i = 1 THEN s[i] ELSE f[i - 1] \o s[i]]

\* There is such a function.
LEMMA JoinExists ==
    ASSUME NEW s, NEW n \in Nat
    PROVE  \E f : Joins(f, s, n)
<1> DEFINE T == {m \in Nat : \E f : Joins(f, s, m)}
<1>1. 0 \in T
  <2>1. Joins([i \in 1 .. 0 |-> s[i]], s, 0)
    BY DEF Joins
  <2> QED
    BY <2>1
<1>2. ASSUME NEW m \in Nat, m \in T PROVE m + 1 \in T
  <2>1. PICK f : Joins(f, s, m)
    BY <1>2
  <2>2. PICK new : new = IF m = 0 THEN s[1] ELSE f[m] \o s[m + 1]
    OBVIOUS
  <2>3. PICK g : g = [i \in 1 .. m + 1 |-> IF i = m + 1 THEN new ELSE f[i]]
    OBVIOUS
  <2>4. ASSUME NEW i \in 1 .. m + 1 PROVE g[i] = IF i = 1 THEN s[i] ELSE g[i - 1] \o s[i]
    <3>1. CASE i = m + 1
      <4>1. g[i] = new
        BY <2>3, <3>1
      <4>2. CASE m = 0
        BY <2>2, <3>1, <4>1, <4>2
      <4>3. CASE m # 0
        <5>1. i - 1 = m /\ i # 1 /\ m \in 1 .. m + 1 /\ m # m + 1
          BY <3>1, <4>3
        <5>2. g[m] = f[m]
          BY <2>3, <5>1
        <5> QED
          BY <2>2, <3>1, <4>1, <4>3, <5>1, <5>2
      <4> QED
        BY <4>2, <4>3
    <3>2. CASE i # m + 1
      <4>1. i \in 1 .. m /\ (i # 1 => i - 1 \in 1 .. m + 1 /\ i - 1 # m + 1)
        BY <3>2
      <4>2. g[i] = f[i] /\ (i # 1 => g[i - 1] = f[i - 1])
        BY <2>3, <3>2, <4>1
      <4>3. f[i] = IF i = 1 THEN s[i] ELSE f[i - 1] \o s[i]
        BY <2>1, <4>1 DEF Joins
      <4> QED
        BY <4>2, <4>3
    <3> QED
      BY <3>1, <3>2
  <2>5. g = [i \in 1 .. m + 1 |-> g[i]]
    BY <2>3
  <2>6. Joins(g, s, m + 1)
    BY <2>4, <2>5 DEF Joins
  <2> QED
    BY <2>6
<1> HIDE DEF T
<1>3. \A m \in Nat : m \in T
  BY <1>1, <1>2, NatInductionSet
<1> QED
  BY <1>3 DEF T

\* The first n elements are the same.
Agree(s, r, n) == \A i \in 1 .. n : s[i] = r[i]

\* What it joins is determined by what there is to join.
LEMMA JoinUnique ==
    ASSUME NEW n \in Nat, NEW m \in Nat, n <= m, NEW s, NEW r, Agree(s, r, n),
           NEW f, NEW g, Joins(f, s, n), Joins(g, r, m)
    PROVE  Agree(f, g, n)
<1> DEFINE T == {i \in 0 .. n : i # 0 => f[i] = g[i]}
<1>1. 0 \in T
  OBVIOUS
<1>2. ASSUME NEW i \in 0 .. n - 1, i \in T PROVE i + 1 \in T
  <2>1. i + 1 \in 1 .. n /\ i + 1 \in 1 .. m /\ (i + 1) - 1 = i /\ (i + 1 = 1 <=> i = 0)
    OBVIOUS
  <2>2. f[i + 1] = IF i + 1 = 1 THEN s[i + 1] ELSE f[(i + 1) - 1] \o s[i + 1]
    BY <2>1 DEF Joins
  <2>3. g[i + 1] = IF i + 1 = 1 THEN r[i + 1] ELSE g[(i + 1) - 1] \o r[i + 1]
    BY <2>1 DEF Joins
  <2>4. s[i + 1] = r[i + 1]
    BY <2>1 DEF Agree
  <2>5. f[i + 1] = g[i + 1]
    BY <1>2, <2>1, <2>2, <2>3, <2>4
  <2> QED
    BY <2>1, <2>5
<1> HIDE DEF T
<1>3. \A i \in 0 .. n : i \in T
  BY <1>1, <1>2, BoundedInduction
<1> QED
  BY <1>3 DEF T, Agree

\* FlattenSeq is such a function's last value.
LEMMA FlattenIsJoin ==
    ASSUME NEW s, Len(s) \in Nat, Len(s) # 0
    PROVE  \E f : Joins(f, s, Len(s)) /\ FlattenSeq(s) = f[Len(s)]
<1> DEFINE it == CHOOSE f : f = [i \in 1 .. Len(s) |-> IF i = 1 THEN s[i] ELSE f[i - 1] \o s[i]]
<1>1. FlattenSeq(s) = it[Len(s)]
  BY DEF FlattenSeq, it
<1>2. \E f : f = [i \in 1 .. Len(s) |-> IF i = 1 THEN s[i] ELSE f[i - 1] \o s[i]]
  BY JoinExists DEF Joins
<1>3. it = [i \in 1 .. Len(s) |-> IF i = 1 THEN s[i] ELSE it[i - 1] \o s[i]]
  BY <1>2, Zenon DEF it
<1>4. Joins(it, s, Len(s))
  BY <1>3, Zenon DEF Joins
<1> QED
  BY <1>1, <1>4

\* What joining one more piece yields.
LEMMA FlattenAppend ==
    ASSUME NEW S, NEW s \in Seq(Seq(S)), NEW x \in Seq(S)
    PROVE  FlattenSeq(Append(s, x)) = FlattenSeq(s) \o x
<1>1. PICK t : t = Append(s, x)
  OBVIOUS
<1>2. PICK n \in Nat : n = Len(s)
  OBVIOUS
<1>3. t \in Seq(Seq(S)) /\ Len(t) = n + 1 /\ t[n + 1] = x /\ \A i \in 1 .. n : s[i] = t[i]
  BY <1>1, <1>2
<1>4. Len(t) \in Nat /\ Len(t) # 0
  BY <1>3
<1>5. PICK g : Joins(g, t, Len(t)) /\ FlattenSeq(t) = g[Len(t)]
  BY <1>4, FlattenIsJoin
<1>6. FlattenSeq(t) = g[n + 1] /\ Joins(g, t, n + 1)
  BY <1>3, <1>5
<1>7. g[n + 1] = IF n + 1 = 1 THEN x ELSE g[n] \o x
  <2>1. n + 1 \in 1 .. n + 1 /\ (n + 1) - 1 = n
    OBVIOUS
  <2> QED
    BY <1>3, <1>6, <2>1 DEF Joins
<1>8. CASE n = 0
  <2>1. FlattenSeq(s) = <<>>
    BY <1>2, <1>8, EmptySeq DEF FlattenSeq
  <2>2. <<>> \o x = x
    BY ConcatEmptySeq
  <2> QED
    BY <1>1, <1>6, <1>7, <1>8, <2>1, <2>2
<1>9. CASE n # 0
  <2>1. PICK f : Joins(f, s, n) /\ FlattenSeq(s) = f[n]
    BY <1>2, <1>9, FlattenIsJoin
  <2>2. n <= n + 1 /\ n + 1 \in Nat /\ n \in 1 .. n /\ n + 1 # 1
    BY <1>9
  <2>3. PICK m \in Nat : m = n + 1
    BY <2>2
  <2>4. Joins(g, t, m) /\ n <= m
    BY <1>6, <2>2, <2>3
  <2>5. f[n] = g[n]
    <3>1. Joins(f, s, n) /\ Agree(s, t, n)
      BY <1>3, <2>1 DEF Agree
    <3>2. Agree(f, g, n)
      BY <2>4, <3>1, JoinUnique
    <3> QED
      BY <2>2, <3>2 DEF Agree
  <2> QED
    BY <1>1, <1>6, <1>7, <2>1, <2>2, <2>5
<1> QED
  BY <1>8, <1>9

\* Joining nothing yields nothing.
LEMMA FlattenEmpty == FlattenSeq(<<>>) = <<>>
BY EmptySeq DEF FlattenSeq

\* The text of the tokens one by one, as it is without a tokenizer.
Fallbacks(tokens) == [i \in DOMAIN tokens |-> Fallback(tokens[i])]

\* A tokenizer whose decoded text only grows, Chars being the characters of texts.
DecodingGrows(Chars) ==
    /\ \A tokens \in Seq(Tokens) : DecodeText(tokens) \in Seq(Chars)
    /\ \A token \in Tokens : Fallback(token) \in Seq(Chars)
    /\ \A tokens \in Seq(Tokens), token \in Tokens :
         IsPrefix(DecodeText(tokens), DecodeText(Append(tokens, token)))

\* What put returns is what the new text has behind the old one.
LEMMA DeltaFacts ==
    ASSUME NEW Chars, NEW old \in Seq(Chars), NEW new \in Seq(Chars), IsPrefix(old, new)
    PROVE  Delta(old, new) \in Seq(Chars) /\ old \o Delta(old, new) = new
<1>1. PICK m \in Nat, n \in Nat : m = Len(old) /\ n = Len(new)
  OBVIOUS
<1>2. m <= n /\ SubSeq(old, 1, m) = SubSeq(new, 1, m)
  BY <1>1 DEF IsPrefix
<1>3. \A i \in 1 .. m : old[i] = new[i]
  <2>1. ASSUME NEW i \in 1 .. m PROVE old[i] = new[i]
    <3>1. SubSeq(old, 1, m)[i] = old[i] /\ SubSeq(new, 1, m)[i] = new[i]
      BY <1>1, <1>2
    <3> QED
      BY <1>2, <3>1
  <2> QED
    BY <2>1
<1>4. PICK rest : rest = SubSeq(new, m + 1, n)
  OBVIOUS
<1>5. rest \in Seq(Chars) /\ Len(rest) = n - m /\ \A i \in 1 .. n - m : rest[i] = new[m + i]
  BY <1>1, <1>2, <1>4
<1>6. PICK all : all = old \o rest
  OBVIOUS
<1>7. all \in Seq(Chars) /\ Len(all) = n
  <2>1. all \in Seq(Chars) /\ Len(all) = Len(old) + Len(rest)
    <3>1. old \in Seq(Chars) /\ rest \in Seq(Chars)
      BY <1>5
    <3>2. old \o rest \in Seq(Chars) /\ Len(old \o rest) = Len(old) + Len(rest)
      BY <3>1
    <3> QED
      BY <1>6, <3>2
  <2>2. Len(old) + Len(rest) = m + (n - m)
    BY <1>1, <1>5
  <2> QED
    BY <2>1, <2>2
<1>8. ASSUME NEW i \in 1 .. n PROVE all[i] = new[i]
  <2>1. CASE i <= m
    <3>1. i \in 1 .. m
      BY <2>1
    <3>2. all[i] = old[i]
      BY <1>1, <1>5, <1>6, <3>1
    <3> QED
      BY <1>3, <3>1, <3>2
  <2>2. CASE ~(i <= m)
    <3>1. i - m \in 1 .. n - m /\ m + (i - m) = i
      BY <2>2
    <3>2. all[i] = rest[i - m]
      BY <1>1, <1>2, <1>5, <1>6, <2>2, <3>1
    <3> QED
      BY <1>5, <3>1, <3>2
  <2> QED
    BY <2>1, <2>2
<1>9. all = new
  BY <1>1, <1>7, <1>8, SeqEqual
<1>10. Delta(old, new) = rest
  BY <1>1, <1>4 DEF Delta
<1> QED
  BY <1>5, <1>6, <1>9, <1>10

\* The pieces joined are the text, and the text is what the generation adds to its prompt.
TextInv(Chars) ==
    gen.pc # "idle" =>
        /\ emitted \in Seq(Seq(Chars)) /\ full_generated_text \in Seq(Chars)
        /\ FlattenSeq(emitted) = full_generated_text
        /\ HasTokenizer =>
              /\ decoded_all = DecodeText(all_tokens)
              /\ DecodeText(gen.prompt) \o full_generated_text = decoded_all
        /\ ~HasTokenizer => FlattenSeq(Fallbacks(gen.tokens)) = full_generated_text

\* One more token without a tokenizer.
LEMMA FallbacksFacts ==
    ASSUME NEW Chars, DecodingGrows(Chars), NEW tokens \in Seq(Tokens), NEW token \in Tokens
    PROVE  /\ Fallbacks(tokens) \in Seq(Seq(Chars))
           /\ Fallbacks(Append(tokens, token)) = Append(Fallbacks(tokens), Fallback(token))
<1>1. PICK n \in Nat : n = Len(tokens)
  OBVIOUS
<1>2. PICK texts : texts = [t \in Tokens |-> Fallback(t)]
  OBVIOUS
<1>3. \A t \in Tokens : texts[t] = Fallback(t) /\ texts[t] \in Seq(Chars)
  BY <1>2, Zenon DEF DecodingGrows
<1>4. ASSUME NEW s \in Seq(Tokens) PROVE Fallbacks(s) = [i \in 1 .. Len(s) |-> texts[s[i]]]
  <2>1. DOMAIN s = 1 .. Len(s) /\ \A i \in 1 .. Len(s) : s[i] \in Tokens
    OBVIOUS
  <2>2. \A i \in 1 .. Len(s) : Fallback(s[i]) = texts[s[i]]
    BY <1>3, <2>1, Zenon
  <2> QED
    BY <2>1, <2>2, Zenon DEF Fallbacks
<1>5. PICK old : old = [i \in 1 .. n |-> texts[tokens[i]]]
  OBVIOUS
<1>6. \A i \in 1 .. n : texts[tokens[i]] \in Seq(Chars)
  BY <1>1, <1>3
<1>7. old \in Seq(Seq(Chars)) /\ Len(old) = n
  BY <1>5, <1>6
<1>8. PICK all : all = Append(tokens, token)
  OBVIOUS
<1>9. all \in Seq(Tokens) /\ Len(all) = n + 1 /\ all[n + 1] = token /\ \A i \in 1 .. n : all[i] = tokens[i]
  BY <1>1, <1>8
<1>10. PICK new : new = [i \in 1 .. n + 1 |-> texts[all[i]]]
  OBVIOUS
<1>11. new \in Seq(Seq(Chars)) /\ Len(new) = n + 1
  <2>1. \A i \in 1 .. n + 1 : texts[all[i]] \in Seq(Chars)
    BY <1>3, <1>9
  <2> QED
    BY <1>10, <2>1
<1>12. PICK more : more = Append(old, texts[token])
  OBVIOUS
<1>13. /\ more \in Seq(Seq(Chars)) /\ Len(more) = n + 1 /\ more[n + 1] = texts[token]
       /\ \A i \in 1 .. n : more[i] = old[i]
  BY <1>3, <1>7, <1>12
<1>14. \A i \in 1 .. n + 1 : new[i] = more[i]
  <2>1. ASSUME NEW i \in 1 .. n PROVE new[i] = more[i]
    <3>1. more[i] = texts[tokens[i]]
      BY <1>5, <1>13
    <3>2. all[i] = tokens[i] /\ i \in 1 .. n + 1
      BY <1>9
    <3> QED
      BY <1>10, <3>1, <3>2
  <2>2. new[n + 1] = more[n + 1]
    BY <1>9, <1>10, <1>13
  <2>3. \A i \in 1 .. n + 1 : i \in 1 .. n \/ i = n + 1
    OBVIOUS
  <2> QED
    BY <2>1, <2>2, <2>3
<1>15. new = more
  BY <1>11, <1>13, <1>14, SeqEqual
<1>16. Fallbacks(tokens) = old /\ Fallbacks(all) = new
  BY <1>1, <1>4, <1>5, <1>9, <1>10
<1>17. texts[token] = Fallback(token)
  BY <1>3
<1> QED
  BY <1>7, <1>8, <1>12, <1>15, <1>16, <1>17, Zenon

\* Nothing is generated yet.
LEMMA InitText == ASSUME NEW Chars PROVE Init => TextInv(Chars)
BY DEF Init, NoGeneration, TextInv

\* A step that leaves the streamer and the generation alone, or ends it.
LEMMA TextKept ==
    ASSUME NEW Chars, TextInv(Chars), gen'.pc # "idle" => gen.pc # "idle",
           gen'.pc # "idle" => gen'.tokens = gen.tokens /\ gen'.prompt = gen.prompt,
           gen'.pc # "idle" => UNCHANGED <<tokenizer, emitted, streamer>>
    PROVE  TextInv(Chars)'
BY Zenon DEF TextInv, HasTokenizer, streamer

\* The streamer begins with the text of the prompt.
LEMMA GenerateText ==
    ASSUME NEW Chars, DecodingGrows(Chars), IInv, NEW e \in Encodings,
           NEW max \in 0 .. MaxNew, NEW o \in Outcomes,
           CallGenerate(PromptOf(e), max, o)
    PROVE  TextInv(Chars)'
<1>1. PICK p : p = PromptOf(e)
  OBVIOUS
<1>2. /\ p \in Seq(Tokens) /\ p # <<>>
      /\ gen' = [pc |-> IF o # "ok" \/ max = 0 THEN "idle" ELSE "sample",
                 prompt |-> p, max |-> max, tokens |-> <<>>]
  BY <1>1, GenerateFacts
<1>3. gen'.prompt = p /\ gen'.tokens = <<>>
  BY <1>2
<1>4. /\ emitted' = <<>> /\ full_generated_text' = <<>> /\ tokenizer' = tokenizer
      /\ decoded_all' = IF HasTokenizer /\ p # <<>> THEN DecodeText(p) ELSE <<>>
      /\ all_tokens' = p
  BY <1>1, Zenon DEF CallGenerate, Reset
<1>5. HasTokenizer' = HasTokenizer
  BY <1>4 DEF HasTokenizer
<1>6. <<>> \in Seq(Seq(Chars)) /\ <<>> \in Seq(Chars)
  BY EmptySeq
<1>7. FlattenSeq(emitted') = full_generated_text'
  BY <1>4, FlattenEmpty
<1>8. ASSUME HasTokenizer
      PROVE  /\ decoded_all' = DecodeText(all_tokens')
             /\ DecodeText(p) \o full_generated_text' = decoded_all'
  <2>1. decoded_all' = DecodeText(p)
    BY <1>2, <1>4, <1>8, Zenon
  <2>2. DecodeText(p) \in Seq(Chars)
    BY <1>2, Zenon DEF DecodingGrows
  <2>3. PICK d \in Seq(Chars) : d = DecodeText(p)
    BY <2>2, Zenon
  <2>4. d \o <<>> = d
    BY ConcatEmptySeq
  <2> QED
    BY <1>4, <2>1, <2>3, <2>4, Zenon
<1>9. FlattenSeq(Fallbacks(<<>>)) = <<>>
  <2>1. Fallbacks(<<>>) = <<>>
    BY DEF Fallbacks
  <2> QED
    BY <2>1, FlattenEmpty
<1> QED
  BY <1>3, <1>4, <1>5, <1>6, <1>7, <1>8, <1>9, Zenon DEF TextInv

\* put emits what a token adds to the text.
LEMMA SampleText ==
    ASSUME NEW Chars, DecodingGrows(Chars), IInv, TextInv(Chars), NEW token \in Tokens, Sample(token)
    PROVE  TextInv(Chars)'
<1>1. PICK tokens, prompt, all : tokens = gen.tokens /\ prompt = gen.prompt /\ all = all_tokens
  OBVIOUS
<1>2. gen.pc = "sample" /\ all \in Seq(Tokens) /\ tokens \in Seq(Tokens)
  BY <1>1 DEF Sample, IInv, TypeInv
<1>3. PICK text, decoded : text = full_generated_text /\ decoded = decoded_all
  OBVIOUS
<1>4. /\ emitted \in Seq(Seq(Chars)) /\ text \in Seq(Chars)
      /\ FlattenSeq(emitted) = text
      /\ HasTokenizer => decoded = DecodeText(all) /\ DecodeText(prompt) \o text = decoded
      /\ ~HasTokenizer => FlattenSeq(Fallbacks(tokens)) = text
  BY <1>1, <1>2, <1>3 DEF TextInv
<1>5. PICK piece : piece = PutPiece(HasTokenizer, token)
  OBVIOUS
<1>6. /\ emitted' = Append(emitted, piece) /\ full_generated_text' = text \o piece
      /\ all_tokens' = Append(all, token) /\ tokenizer' = tokenizer
      /\ HasTokenizer => decoded_all' = DecodeText(Append(all, token))
  BY <1>1, <1>3, <1>5, Zenon DEF Sample, Put, session
<1>7. gen'.tokens = Append(tokens, token) /\ gen'.prompt = prompt
  BY <1>1 DEF Sample, IInv, TypeInv
<1>8. HasTokenizer' = HasTokenizer
  BY <1>6 DEF HasTokenizer
<1>9. PICK old, new : old = DecodeText(all) /\ new = DecodeText(Append(all, token))
  BY Zenon
<1>10. old \in Seq(Chars) /\ new \in Seq(Chars) /\ IsPrefix(old, new)
  <2>1. Append(all, token) \in Seq(Tokens)
    BY <1>2
  <2> QED
    BY <1>2, <1>9, <2>1, Zenon DEF DecodingGrows
<1>11. piece \in Seq(Chars)
  <2>1. CASE HasTokenizer
    <3>1. piece = Delta(old, new)
      BY <1>1, <1>3, <1>4, <1>5, <1>9, <2>1, Zenon DEF PutPiece
    <3> QED
      BY <1>10, <3>1, DeltaFacts
  <2>2. CASE ~HasTokenizer
    BY <1>5, <2>2, Zenon DEF PutPiece, DecodingGrows
  <2> QED
    BY <2>1, <2>2
<1>12. emitted' \in Seq(Seq(Chars)) /\ full_generated_text' \in Seq(Chars)
  BY <1>4, <1>6, <1>11
<1>13. FlattenSeq(emitted') = full_generated_text'
  BY <1>4, <1>6, <1>11, FlattenAppend
<1>14. ASSUME HasTokenizer
       PROVE  /\ decoded_all' = DecodeText(all_tokens')
              /\ DecodeText(gen'.prompt) \o full_generated_text' = decoded_all'
  <2>1. decoded_all' = new /\ all_tokens' = Append(all, token)
    BY <1>6, <1>9, <1>14, Zenon
  <2>2. piece = Delta(old, new)
    BY <1>1, <1>3, <1>4, <1>5, <1>9, <1>14, Zenon DEF PutPiece
  <2>3. old \o piece = new
    BY <1>10, <2>2, DeltaFacts
  <2>4. PICK start : start = DecodeText(prompt)
    BY Zenon
  <2>5. start \o text = old /\ start \in Seq(Chars)
    <3>1. prompt \in Seq(Tokens)
      BY <1>1 DEF IInv, TypeInv
    <3> QED
      BY <1>4, <1>9, <1>14, <2>4, <3>1, Zenon DEF DecodingGrows
  <2>6. start \o (text \o piece) = new
    <3>1. start \in Seq(Chars) /\ text \in Seq(Chars) /\ piece \in Seq(Chars)
      BY <1>4, <1>11, <2>5
    <3>2. (start \o text) \o piece = start \o (text \o piece)
      BY <3>1
    <3> QED
      BY <2>3, <2>5, <3>2
  <2> QED
    BY <1>6, <1>7, <1>9, <2>1, <2>4, <2>6, Zenon
<1>15. ASSUME ~HasTokenizer
       PROVE  FlattenSeq(Fallbacks(gen'.tokens)) = full_generated_text'
  <2>1. piece = Fallback(token)
    BY <1>5, <1>15, Zenon DEF PutPiece
  <2>2. /\ Fallbacks(tokens) \in Seq(Seq(Chars))
        /\ Fallbacks(Append(tokens, token)) = Append(Fallbacks(tokens), Fallback(token))
    BY <1>2, FallbacksFacts, Zenon
  <2>3. PICK before \in Seq(Seq(Chars)) : before = Fallbacks(tokens)
    BY <2>2, Zenon
  <2>4. FlattenSeq(Append(before, piece)) = FlattenSeq(before) \o piece
    BY <1>11, FlattenAppend
  <2> QED
    BY <1>4, <1>6, <1>7, <1>15, <2>1, <2>2, <2>3, <2>4, Zenon
<1> QED
  BY <1>7, <1>8, <1>12, <1>13, <1>14, <1>15, Zenon DEF TextInv

\* Every step keeps it.
LEMMA TextStep ==
    ASSUME NEW Chars, DecodingGrows(Chars)
    PROVE  IInv /\ TextInv(Chars) /\ [Next]_vars => TextInv(Chars)'
<1> SUFFICES ASSUME IInv, TextInv(Chars), [Next]_vars PROVE TextInv(Chars)'
  OBVIOUS
<1>1. CASE gen' = gen /\ (gen.pc = "idle" \/ UNCHANGED <<tokenizer, emitted, streamer>>)
  BY <1>1, TextKept
<1>2. ASSUME NEW e \in Encodings, NEW max \in 0 .. MaxNew, NEW o \in Outcomes,
             CallGenerate(PromptOf(e), max, o)
      PROVE  TextInv(Chars)'
  BY <1>2, GenerateText
<1>3. ASSUME NEW token \in Tokens, Sample(token) PROVE TextInv(Chars)'
  BY <1>3, SampleText
<1>4. ASSUME NEW o \in Outcomes, GenerateStep(o) PROVE TextInv(Chars)'
  <2>1. gen.pc # "idle" /\ UNCHANGED <<tokenizer, emitted, streamer>>
    BY <1>4 DEF GenerateStep, CanStep
  <2>2. gen'.tokens = gen.tokens /\ gen'.prompt = gen.prompt
    BY <1>4 DEF GenerateStep, IInv, TypeInv
  <2> QED
    BY <2>1, <2>2, TextKept
<1>5. CASE GenerateReturn \/ CallbackThrows
  <2>1. gen'.pc = "idle"
    BY <1>5 DEF GenerateReturn, CallbackThrows, IInv, TypeInv
  <2> QED
    BY <2>1, TextKept
<1>6. ASSUME NEW tok \in {"null", "unloaded", "loaded"}, NEW o \in Outcomes, CallLoad(tok, o)
      PROVE  TextInv(Chars)'
  BY <1>1, <1>6 DEF CallLoad, Idle
<1>7. ASSUME NEW p \in Prompts, NEW o \in Outcomes, CallPrefill(p, o) PROVE TextInv(Chars)'
  BY <1>1, <1>7 DEF CallPrefill, Idle
<1>8. ASSUME NEW t \in Tokens, NEW o \in Outcomes, CallForwardStep(t, o) PROVE TextInv(Chars)'
  BY <1>1, <1>8 DEF CallForwardStep, Idle
<1>9. ASSUME NEW p \in Prompts, NEW full \in BOOLEAN, NEW o \in Outcomes, CallForwardLogits(p, full, o)
      PROVE  TextInv(Chars)'
  BY <1>1, <1>9 DEF CallForwardLogits, Idle
<1>10. CASE CallResetSession
  BY <1>1, <1>10 DEF CallResetSession, Idle
<1>11. CASE UNCHANGED vars
  BY <1>1, <1>11 DEF vars, session
<1> QED
  BY <1>2, <1>3, <1>4, <1>5, <1>6, <1>7, <1>8, <1>9, <1>10, <1>11 DEF Next, Generation

\* With a tokenizer whose text only grows, or with none, the pieces given to
\* on_token are the text generate returns, and that is what its tokens add to
\* the decoded prompt: nothing is dropped, repeated or reordered.
THEOREM StreamIsRight ==
    ASSUME NEW Chars, DecodingGrows(Chars)
    PROVE  Spec => []StreamIsTheAnswer
<1>1. Init => TextInv(Chars)
  BY InitText
<1>2. IInv /\ TextInv(Chars) /\ [Next]_vars => TextInv(Chars)'
  BY TextStep
<1>3. IInv /\ TextInv(Chars) => StreamIsTheAnswer
  <2> SUFFICES ASSUME IInv, TextInv(Chars), gen.pc # "idle"
               PROVE  /\ FlattenSeq(emitted) = full_generated_text
                      /\ StreamedTextIsDecodedText(HasTokenizer)
    BY DEF StreamIsTheAnswer
  <2>1. /\ FlattenSeq(emitted) = full_generated_text
        /\ HasTokenizer => DecodeText(gen.prompt) \o full_generated_text = DecodeText(all_tokens)
        /\ ~HasTokenizer => FlattenSeq(Fallbacks(gen.tokens)) = full_generated_text
    BY Zenon DEF TextInv
  <2>2. PICK tokens \in Seq(Tokens), prompt \in Seq(Tokens), all \in Seq(Tokens) :
           /\ tokens = gen.tokens /\ prompt = gen.prompt /\ all = all_tokens
           /\ tokens = generated_tokens /\ all = prompt \o tokens
    BY DEF IInv, TypeInv, GenInv
  <2>3. SubSeq(all, 1, Len(all) - Len(tokens)) = prompt
    <3>1. Len(all) - Len(tokens) = Len(prompt)
      BY <2>2
    <3>2. PICK n \in Nat : n = Len(prompt)
      OBVIOUS
    <3>3. n <= Len(all) /\ \A i \in 1 .. n : all[i] = prompt[i]
      BY <2>2, <3>2
    <3>4. PICK front : front = SubSeq(all, 1, n)
      OBVIOUS
    <3>5. front \in Seq(Tokens) /\ Len(front) = n /\ \A i \in 1 .. n : front[i] = all[i]
      BY <3>3, <3>4
    <3>6. front = prompt
      BY <3>2, <3>3, <3>5, SeqEqual
    <3> QED
      BY <3>1, <3>2, <3>4, <3>6
  <2>4. SubSeq(all_tokens, 1, Len(all_tokens) - Len(generated_tokens)) = gen.prompt
    BY <2>2, <2>3, Zenon
  <2>5. Fallbacks(gen.tokens) = [i \in DOMAIN generated_tokens |-> Fallback(generated_tokens[i])]
    BY <2>2, Zenon DEF Fallbacks
  <2>6. CASE HasTokenizer
    BY <2>1, <2>4, <2>6, Zenon DEF StreamedTextIsDecodedText
  <2>7. CASE ~HasTokenizer
    BY <2>1, <2>5, <2>7, Zenon DEF StreamedTextIsDecodedText
  <2> QED
    BY <2>1, <2>6, <2>7
<1> QED
  BY <1>1, <1>2, <1>3, SessionInvariant, PTL DEF Spec
=============================================================================
