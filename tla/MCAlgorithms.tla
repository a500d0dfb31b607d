---------------------------- MODULE MCAlgorithms ----------------------------
(***************************************************************************)
(* The kernels of all backends, the storage of quantised weights, the      *)
(* tokenizer and files of tensors on small inputs, one call at a time.     *)
(***************************************************************************)
EXTENDS OperatorMeanings, Tokenizer, Safetensors

CONSTANTS Length, \* bytes of a text
          Bytes   \* the bytes it is made of

F(shape) == Tensor(shape, "f32")
H(shape) == Tensor(shape, "f16")

\* A transposition of a tensor that has become a view.
View(shape, perm) ==
    [shape |-> [d \in DOMAIN perm |-> shape[perm[d]]],
     strides |-> [d \in DOMAIN perm |-> DefaultStrides(shape)[perm[d]]], dtype |-> "f32"]

Made(op, in, attrs) == [op |-> op, in |-> in, attrs |-> attrs, data |-> <<>>, on |-> Backends]

Shapes == {<<1>>, <<5>>, <<2, 3>>, <<3, 2, 2>>}

ElementCalls ==
    {Made(op, [k \in 1 .. InputCount(op) |-> Tensor(s, t)], NoAttrs) :
        op \in {"Neg", "Rsqrt", "Add", "Mul", "Sub"}, s \in Shapes, t \in {"f32", "i32"}}

CopyCalls ==
    {Made("Reshape", <<F(<<2, 6>>)>>, [kind |-> "Reshape", shape |-> s]) : s \in {<<12>>, <<3, 4>>, <<5>>}}
    \cup {Made("Transpose", <<Tensor(<<2, 3, 4>>, t)>>, [kind |-> "Transpose", perm |-> p]) :
            p \in {<<>>, <<0, 2, 1>>, <<1, 2, 0>>, <<2, 0, 1>>, <<0, 0, 1>>}, t \in {"f32", "f16"}}
    \cup {Made("Transpose", <<F(<<3, 2>>)>>, NoAttrs), Made("Transpose", <<F(<<7>>)>>, NoAttrs)}
    \cup {Made("Concat", <<F(<<2, p, 2>>), F(<<2, q, 2>>)>>, [kind |-> "Concat", axis |-> x]) :
            p \in {1, 2}, q \in {2, 3}, x \in {-3, -2, 1, 2}}
    \cup {Made("RepeatKV", <<F(<<2, 2, 3>>)>>, [kind |-> "RepeatKV", repeats |-> r, axis |-> x]) :
            r \in 1..3, x \in -3..2}

\* Bounds beyond the axes and from the end, steps, fewer axes than there are.
SliceCalls ==
    {Made("Slice", <<F(<<3, 4>>)>>, [kind |-> "Slice", begins |-> b, ends |-> e, strides |-> s]) :
        b \in {<<0>>, <<1>>, <<-2>>}, e \in {<<2>>, <<-1>>, <<9>>}, s \in {<<>>, <<2>>}}
    \cup {Made("Slice", <<F(<<3, 4, 2>>)>>, [kind |-> "Slice", begins |-> b, ends |-> e, strides |-> s]) :
        b \in {<<0, 1>>, <<1, 0>>, <<0, 0>>}, e \in {<<3, 3>>, <<2, 4>>, <<9, 4>>}, s \in {<<>>, <<1, 2>>, <<2, 1>>}}

EmbeddingCalls ==
    {[Made("Embedding", <<F(<<3, 2>>), Tensor(s, "i32")>>, NoAttrs) EXCEPT
        !.data = [t \in 0 .. Numel(s) - 1 |-> (t + first) % 3]] : s \in {<<2>>, <<2, 2>>, <<5>>}, first \in 0..2}

RowCalls ==
    {Made("Softmax", <<F(s)>>, [kind |-> "Softmax", axis |-> x]) : s \in Shapes, x \in -2..1}
    \cup {Made("RMSNorm", <<F(s \o <<d>>), Tensor(<<d>>, t)>>, NoAttrs) :
            s \in {<<>>, <<3>>, <<2, 2>>}, d \in {1, 5, 9}, t \in {"f32", "f16"}}
    \cup {Made("RotaryEmbedding", <<F(s \o <<4>>), F(c), F(c)>>, NoAttrs) :
            s \in {<<>>, <<3>>, <<2, 3>>}, c \in {<<2>>, <<1, 2>>, <<3, 2>>}}

Wide == {1, 3, 5, 13}

MatMulCalls ==
    {Made("MatMul", <<F(<<m, k>>), F(<<k, n>>)>>, NoAttrs) : m \in {1, 2, 5}, k \in {1, 3, 11}, n \in Wide}
    \cup {Made("MatMul", <<F(<<m, k>>), View(<<n, k>>, <<2, 1>>)>>, NoAttrs) :
            m \in {1, 5}, k \in {3, 11}, n \in {3, 5}}
    \cup {Made("MatMul", <<F(<<2, m, 3>>), x>>, NoAttrs) :
            m \in {1, 2, 3}, x \in {F(<<2, 3, 3>>), View(<<2, 3, 3>>, <<1, 3, 2>>), View(<<3, 2, 3>>, <<2, 1, 3>>)}}
    \cup {Made("MatMul", <<View(<<2, 3, m>>, <<1, 3, 2>>), F(<<2, 3, 2>>)>>, NoAttrs) : m \in {2, 3}}
    \cup {Made("MatMul", <<F(<<2, 3, 1, 2>>), F(<<2, 3, 2, 2>>)>>, NoAttrs),
          Made("MatMul", <<F(<<1, 2, 3>>), F(<<3, 2>>)>>, NoAttrs),
          Made("MatMul", <<F(<<3, 3>>), F(<<1, 3, 2>>)>>, NoAttrs)}
    \cup {Made("MatMul", <<Tensor(<<3, 3>>, t), Tensor(<<3, 3>>, u)>>, NoAttrs) :
            t \in {"f32", "f16"}, u \in {"f32", "f16", "bf16"}}

\* Int8 weights in blocks have one row of activations only where blocks are known.
QuantizedCalls ==
    {[Made("QuantizedMatMul", <<F(s \o <<k>>), Tensor(<<IF t = "Int4" THEN (k + 1) \div 2 ELSE k, n>>, "i8"),
                                 F(IF b = 0 THEN <<n>> ELSE <<CeilDiv(k, b), n>>)>>,
           [kind |-> "QuantizedMatMul", quant_type |-> t, block_size |-> b]) EXCEPT
        !.on = IF t = "Int8" /\ b > 0 /\ s[Len(s)] = 1 THEN Backends \ {"CUDA"} ELSE Backends] :
            s \in {<<1>>, <<3>>, <<2, 1>>, <<2, 2>>}, k \in {1, 4, 5}, n \in {1, 5},
            t \in {"Int8", "Int4"}, b \in {0, 2, 4}}

\* Int4 weights without a block size have one scale for a column, enough for a single block.
KnownQuantizedCalls ==
    {c \in QuantizedCalls : c.attrs.quant_type = "Int4" /\ c.attrs.block_size = 0 => Back(c.in[1], 0) <= INT4_BLOCK}

\* Scores that rise and fall, shared heads, a past, features that are not a multiple of a warp.
AttentionCalls ==
    {[Made("FusedAttention",
           <<F(z \o <<h, q, d>>), F(z \o <<1, 3, d>>), F(z \o <<1, 3, v>>)>>,
           [kind |-> "FusedAttention", is_causal |-> causal]) EXCEPT
        !.data = <<[i \in 0 .. Product(z) * h * q * d - 1 |-> 1 - 2 * (i % 2)],
                   [i \in 0 .. Product(z) * 3 * d - 1 |-> keys[1 + ((i + i \div 3) % 3)]]>>] :
        z \in {<<>>, <<2>>}, h \in {1, 2}, q \in {1, 3}, d \in {1, 3}, v \in {1, 3},
        causal \in BOOLEAN, keys \in {<<0, 1, 3>>, <<3, 1, 0>>, <<1, 3, 0>>, <<1, 0, 1>>}}

TheCalls == ElementCalls \cup CopyCalls \cup SliceCalls \cup EmbeddingCalls \cup RowCalls
              \cup MatMulCalls \cup KnownQuantizedCalls \cup AttentionCalls

\* Operands whose ranks differ and that have more than one batch.
RankCalls ==
    {Made("MatMul", <<F(a), F(b)>>, NoAttrs) :
        a \in {<<2, 1, 2>>, <<1, 2, 1, 2>>, <<1, 1, 2>>}, b \in {<<2, 2, 1>>, <<1, 2, 2, 1>>, <<2, 1>>}}

NoCalls == {}

\* Matrices of one column of up to three rows and of five, and of two columns of three.
Matrices ==
    UNION {{[rows |-> n, cols |-> 1, at |-> v] : v \in [(0 .. n - 1) \X {0} -> {-5, 0, 3}]} : n \in 1..3}
        \cup {[rows |-> 5, cols |-> 1, at |-> v] : v \in [(0..4) \X {0} -> {-7, 2}]}
        \cup {[rows |-> 3, cols |-> 2, at |-> v] : v \in [(0..2) \X (0..1) -> {-5, 2}]}
NoMatrices == {}

BlockSizes == {2, 4}

\* tokenizer.json with the bytes the texts are made of and a few words.
Word(bytes) == [k \in DOMAIN bytes |-> ByteToUnicode[bytes[k]]]
TheMerges == <<<<Word(<<97>>), Word(<<97>>)>>, <<Word(<<32>>), Word(<<97>>)>>,
               <<Word(<<97, 97>>), Word(<<97>>)>>, <<Word(<<195>>), Word(<<169>>)>>>>
TheWords == [k \in 1..9 |-> Word(<<<<10>>, <<32>>, <<33>>, <<39>>, <<97>>, <<115>>, <<49>>, <<195>>, <<169>>>>[k])]
              \o <<Word(<<97, 97>>), Word(<<32, 97>>), Word(<<195, 169>>), Word(<<97, 97, 97>>)>>
TheVocabulary == [k \in DOMAIN TheWords |-> [token |-> TheWords[k], id |-> k + 2]]
TheAddedTokens == <<[token |-> <<60, 48, 62>>, id |-> 0, role |-> "bos"],
                    [token |-> <<60, 49, 62>>, id |-> 2, role |-> "eos"],
                    [token |-> <<60, 50, 62>>, id |-> 18, role |-> "none"]>>

\* Texts in which every byte of a character of two bytes has the other.
IsText(t) ==
    \A k \in DOMAIN t : /\ t[k] = 195 => k < Len(t) /\ t[k + 1] = 169
                        /\ t[k] = 169 => k > 1 /\ t[k - 1] = 195
TheTexts == {t \in UNION {[1..n -> Bytes] : n \in 0 .. Length} : IsText(t)}
NoTexts == {}

\* Entries of one tensor, in whole files; two or three tensors of bytes, some of them empty, with
\* every order and overlap; and headers that are too short, too long or no JSON.
Described(dtype, shape, offsets) == [dtype |-> dtype, shape |-> shape, data_offsets |-> offsets]
Parsed(entries) == [parsed |-> TRUE, entries |-> entries]
FileOf(header) == [total |-> 12, header_len |-> 4, header |-> header]

OneTensor ==
    {FileOf(Parsed([n \in {"a"} |-> Described(t, s, o)])) :
        t \in {"I8", "F32", "F64", "none"},
        s \in {<<>>, <<0>>, <<-1>>, <<2>>, <<1, 2>>, <<31>>, <<8, 9>>, <<16, 4>>, <<31, 0, 31>>},
        o \in {<<>>, <<0>>} \cup {-1, 0, 2, 4} \X {0, 1, 2, 6, 8, 12}}

ByteRange(o) == Described("I8", <<o[2] - o[1]>>, o)
RangesUpTo(end) == {o \in (0..end) \X (0..end) : o[1] <= o[2]}
ManyTensors ==
    {FileOf(Parsed([n \in {"a", "b"} |-> ByteRange(IF n = "a" THEN o ELSE p)])) :
        o \in RangesUpTo(4), p \in RangesUpTo(4)}
    \cup {FileOf(Parsed([n \in {"a", "b", "c"} |-> ByteRange(CASE n = "a" -> o [] n = "b" -> p [] n = "c" -> q)])) :
        o \in RangesUpTo(2), p \in RangesUpTo(3), q \in RangesUpTo(3)}

Headers ==
    {[total |-> t, header_len |-> l, header |-> [parsed |-> p, entries |-> e]] :
        t \in {1, 2, 3, 6, 11, 12}, l \in {0, 1, 4, 9, 62, 63}, p \in BOOLEAN,
        e \in {<<>>, [n \in {"a", "__metadata__"} |-> IF n = "a" THEN ByteRange(<<0, 6>>) ELSE ByteRange(<<3, 5>>)]}}

TheFiles == OneTensor \cup ManyTensors \cup Headers
NoFiles == {}
-----------------------------------------------------------------------------
kernels == <<call, writes>>
weights == <<stored, restored>>
texts == <<text, ids, said>>
files == <<file, loaded>>

Init == KernelsInit /\ QuantisationInit /\ TokenizerInit /\ SafetensorsInit

Next ==
    \/ stored = Nothing /\ text = NoText /\ file = NoFile /\ KernelsNext /\ UNCHANGED <<weights, texts, files>>
    \/ call = NoCall /\ text = NoText /\ file = NoFile /\ QuantisationNext(BlockSizes)
         /\ UNCHANGED <<kernels, texts, files>>
    \/ call = NoCall /\ stored = Nothing /\ file = NoFile /\ TokenizerNext /\ UNCHANGED <<kernels, weights, files>>
    \/ call = NoCall /\ stored = Nothing /\ text = NoText /\ SafetensorsNext /\ UNCHANGED <<kernels, weights, texts>>

Spec == Init /\ [][Next]_<<kernels, weights, texts, files>>
=============================================================================
