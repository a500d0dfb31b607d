----------------------------- MODULE Tokenizer -----------------------------
(***************************************************************************)
(* The byte-level BPE tokenizer of examples/smollm2/tokenizer.cpp.  A text *)
(* is a sequence of bytes; a token is a sequence of code points, each of   *)
(* which stands for a byte.  tokenizer.json is taken as read: the          *)
(* vocabulary, the merges and the added tokens are sequences of its        *)
(* entries.                                                                *)
(***************************************************************************)
EXTENDS Integers, Sequences, FiniteSets, SequencesExt

CONSTANTS Vocabulary, \* <<[token, id], ...>>: model.vocab, in the order of the file
          Merges,     \* <<<<left, right>>, ...>>: model.merges
          AddedTokens, \* <<[token, id, role], ...>>: added_tokens, and what a token's name makes of it
          Texts       \* what is encoded

VARIABLES text, \* the text that was encoded
          ids,  \* its tokens
          said  \* what they were decoded to

NoText == <<-1>>
NoId == -1

(***************************************************************************)
(* init_byte_to_unicode: a printable byte stands for itself, the others    *)
(* are numbered from 256 on.  The table for the way back ends at 10FFFF    *)
(* (hex) and is read past its end beyond: tokens that spell such a code    *)
(* point are left out.                                                     *)
(***************************************************************************)
Printable == (33..126) \cup (161..172) \cup (174..255)
ByteToUnicode == [b \in 0..255 |-> IF b \in Printable THEN b
                                   ELSE 256 + Cardinality({c \in 0 .. b - 1 : c \notin Printable})]
Unmapped == -1
UnicodeToByte(cp) == IF cp \in Range(ByteToUnicode) THEN CHOOSE b \in 0..255 : ByteToUnicode[b] = cp ELSE Unmapped
-----------------------------------------------------------------------------
(* load: later entries replace earlier ones, except that a token of the    *)
(* vocabulary keeps its first id.                                          *)
Entries == Vocabulary \o AddedTokens
Ids == {Entries[k].id : k \in DOMAIN Entries}
TokenCountOf == 1 + (CHOOSE m \in Ids : \A n \in Ids : n <= m)

\* id_to_token_: an id without a token is empty.
IdToToken ==
    [id \in 0 .. TokenCountOf - 1 |->
        LET at == {k \in DOMAIN Entries : Entries[k].id = id}
        IN  IF at = {} THEN <<>> ELSE Entries[CHOOSE k \in at : \A n \in at : n <= k].token]

\* token_to_id_
TokenToId ==
    [t \in {Entries[k].token : k \in DOMAIN Entries} |->
        LET added == {k \in DOMAIN AddedTokens : AddedTokens[k].token = t}
            plain == {k \in DOMAIN Vocabulary : Vocabulary[k].token = t}
        IN  IF added # {} THEN AddedTokens[CHOOSE k \in added : \A n \in added : n <= k].id
            ELSE Vocabulary[CHOOSE k \in plain : \A n \in plain : k <= n].id]

\* The special ids; the first beginning-of-text token ends a text too until one that ends it comes.
Special ==
    LET see(s, e) ==
          CASE e.role = "bos" -> [s EXCEPT !.bos = e.id, !.eos = IF @ = NoId THEN e.id ELSE @]
            [] e.role = "eos" -> [s EXCEPT !.eos = e.id]
            [] e.role = "pad" -> [s EXCEPT !.pad = e.id]
            [] e.role = "unk" -> [s EXCEPT !.unk = e.id]
            [] OTHER -> s
        seen == FoldLeft(see, [bos |-> NoId, eos |-> NoId, pad |-> NoId, unk |-> NoId], AddedTokens)
    IN  [seen EXCEPT !.bos = IF @ = NoId THEN seen.eos ELSE @]
-----------------------------------------------------------------------------
(* decode_utf8: the code point at position i and the position behind it.   *)
Character(s, i) ==
    LET b == s[i]
        low(k) == s[i + k] % 64
        fits(k) == i + k <= Len(s)
    IN  CASE b < 128 -> [cp |-> b, next |-> i + 1]
          [] b \in 192..223 /\ fits(1) -> [cp |-> (b % 32) * 64 + low(1), next |-> i + 2]
          [] b \in 224..239 /\ fits(2) -> [cp |-> (b % 16) * 4096 + low(1) * 64 + low(2), next |-> i + 3]
          [] b \in 240..247 /\ fits(3) ->
               [cp |-> (b % 8) * 262144 + low(1) * 4096 + low(2) * 64 + low(3), next |-> i + 4]
          [] OTHER -> [cp |-> 65533, next |-> i + 1]

Letters == (65..90) \cup (97..122) \cup (128..591)
Digits == (48..57) \cup (1632..1641) \cup (1776..1785)
Spaces == {32, 9, 10, 13}
KindOf(cp) ==
    CASE cp \in Letters -> "letter" [] cp \in Digits -> "digit" [] cp \in Spaces -> "space" [] OTHER -> "other"

\* The positions of the characters from position i on while they are of a kind, and the end.
Run(s, i, kind) ==
    LET at[k \in 1 .. Len(s) + 1] ==
          IF k <= Len(s) /\ KindOf(Character(s, k).cp) = kind
          THEN <<k>> \o at[Character(s, k).next] ELSE <<k>>
    IN  at[i]
EndOfRun(s, i, kind) == Last(Run(s, i, kind))

\* s, t, m and d, or re, ve and ll, behind an apostrophe.
Contraction(s, i) ==
    CASE s[i] # 39 \/ i = Len(s) -> 0
      [] s[i] = 39 /\ i < Len(s) /\ s[i + 1] \in {115, 116, 109, 100} -> 2
      [] s[i] = 39 /\ i + 1 < Len(s) /\ <<s[i + 1], s[i + 2]>> \in {<<114, 101>>, <<118, 101>>, <<108, 108>>} -> 3
      [] OTHER -> 0

\* A digit each, with what was in front of the run.
DigitPieces(s, lead, i) ==
    LET run == Run(s, i, "digit")
    IN  [k \in 1 .. Len(run) - 1 |-> lead \o SubSeq(s, run[k], run[k + 1] - 1)]

\* The pieces that begin at position i, and where the next ones begin.
PiecesAt(s, i) ==
    LET first == Character(s, i)
        j == first.next
        second == Character(s, j)
        upTo(end) == [pieces |-> <<SubSeq(s, i, end - 1)>>, next |-> end]
        digits(lead, from) == [pieces |-> DigitPieces(s, lead, from), next |-> EndOfRun(s, from, "digit")]
        kind == KindOf(first.cp)
        spaced == IF first.cp = 32 /\ j <= Len(s) THEN KindOf(second.cp) ELSE "none"
    IN  CASE Contraction(s, i) > 0 -> upTo(i + Contraction(s, i))
          [] Contraction(s, i) = 0 /\ spaced = "letter" -> upTo(EndOfRun(s, second.next, "letter"))
          [] Contraction(s, i) = 0 /\ spaced = "digit" -> digits(SubSeq(s, i, second.next - 1), second.next)
          [] Contraction(s, i) = 0 /\ kind = "digit" -> digits(<<>>, j)
          [] OTHER -> upTo(EndOfRun(s, j, kind))

\* byte_level_pretokenize
Pretokens(s) ==
    LET from[i \in 1 .. Len(s) + 1] ==
          IF i > Len(s) THEN <<>> ELSE PiecesAt(s, i).pieces \o from[PiecesAt(s, i).next]
        pieces == from[1]
    IN  [k \in DOMAIN pieces |-> [n \in DOMAIN pieces[k] |-> ByteToUnicode[pieces[k][n]]]]
-----------------------------------------------------------------------------
(* bpe_apply: neighbours are merged as long as the merges have a pair of   *)
(* them, the first listed before the others, the first in the word among   *)
(* equals.  The pairs are kept beside the symbols and brought up to date.  *)
Symbols(word) == [k \in DOMAIN word |-> <<word[k]>>]
PairsOf(symbols) == [k \in 1 .. Len(symbols) - 1 |-> <<symbols[k], symbols[k + 1]>>]

\* A merge listed twice has the later rank.
RankOf(pair) == LET at == {k \in DOMAIN Merges : Merges[k] = pair} IN
    IF at = {} THEN Len(Merges) + 1 ELSE CHOOSE k \in at : \A n \in at : n <= k

Best(pairs) ==
    CHOOSE k \in DOMAIN pairs :
        \A n \in DOMAIN pairs : RankOf(pairs[k]) < RankOf(pairs[n]) \/ (RankOf(pairs[k]) = RankOf(pairs[n]) /\ k <= n)

\* Faulty: the pair in front of the merged one is not brought up to date.
MergedWithStalePair(w) ==
    LET k == Best(w.pairs)
        symbols == SubSeq(w.symbols, 1, k - 1) \o <<w.symbols[k] \o w.symbols[k + 1]>>
                     \o SubSeq(w.symbols, k + 2, Len(w.symbols))
        others == RemoveAt(w.pairs, k)
    IN  [symbols |-> symbols,
         pairs |-> [n \in DOMAIN others |->
                      IF n = k THEN <<symbols[n], symbols[n + 1]>> ELSE others[n]]]

Merged(w) ==
    LET k == Best(w.pairs)
        symbols == SubSeq(w.symbols, 1, k - 1) \o <<w.symbols[k] \o w.symbols[k + 1]>>
                     \o SubSeq(w.symbols, k + 2, Len(w.symbols))
        others == RemoveAt(w.pairs, k)
    IN  [symbols |-> symbols,
         pairs |-> [n \in DOMAIN others |->
                      IF n \in {k - 1, k} THEN <<symbols[n], symbols[n + 1]>> ELSE others[n]]]

BpeApply(word) ==
    LET start == [symbols |-> Symbols(word), pairs |-> PairsOf(Symbols(word))]
        step(w, n) == IF \E k \in DOMAIN w.pairs : RankOf(w.pairs[k]) <= Len(Merges) THEN Merged(w) ELSE w
    IN  FoldLeft(step, start, [n \in 1 .. Len(word) |-> n]).symbols
-----------------------------------------------------------------------------
\* A symbol that is not a token is the unknown one, if there is one.
IdsOf(symbols) ==
    FlattenSeq([k \in DOMAIN symbols |->
        CASE symbols[k] \in DOMAIN TokenToId -> <<TokenToId[symbols[k]]>>
          [] symbols[k] \notin DOMAIN TokenToId /\ Special.unk # NoId -> <<Special.unk>>
          [] OTHER -> <<>>])

\* A piece that is a token is not merged from its bytes.
SymbolsOf(pre) == IF pre \in DOMAIN TokenToId THEN <<pre>> ELSE BpeApply(pre)

Encoded(s) == LET pres == Pretokens(s) IN FlattenSeq([k \in DOMAIN pres |-> IdsOf(SymbolsOf(pres[k]))])

\* decode: ids that are out of range or special are skipped.
Spelled(id) ==
    IF id \notin DOMAIN IdToToken \/ id \in {Special.bos, Special.eos, Special.pad} THEN <<>>
    ELSE [k \in DOMAIN IdToToken[id] |->
            LET b == UnicodeToByte(IdToToken[id][k]) IN IF b = Unmapped THEN 63 ELSE b]

Decoded(tokens) == FlattenSeq([k \in DOMAIN tokens |-> Spelled(tokens[k])])
-----------------------------------------------------------------------------
\* The tokens that decode spells.
SpelledTokens == {t \in DOMAIN TokenToId : TokenToId[t] \notin {Special.bos, Special.eos, Special.pad}}

\* tokenizer.json as the loader expects it.
ASSUME EntriesAssumption ==
    /\ Vocabulary \in Seq([token : Seq(Nat), id : Nat])
    /\ AddedTokens \in Seq([token : Seq(Nat), id : Nat, role : {"bos", "eos", "pad", "unk", "none"}])
    /\ Merges \in Seq(Seq(Nat) \X Seq(Nat))

\* A byte-level vocabulary: no id has two tokens, the bytes of the texts and what a merge makes of
\* its pair are tokens, and the name of a special token is not a piece of a text.
ASSUME VocabularyAssumption ==
    /\ \A k, n \in DOMAIN Entries : Entries[k].id = Entries[n].id => Entries[k].token = Entries[n].token
    /\ \A pair \in Range(Merges) : pair[1] \o pair[2] \in SpelledTokens
    /\ \A s \in Texts : /\ s \in Seq(0..255)
                        /\ \A b \in Range(s) : <<ByteToUnicode[b]>> \in SpelledTokens
                        /\ \A piece \in Range(Pretokens(s)) : piece \in DOMAIN TokenToId => piece \in SpelledTokens
-----------------------------------------------------------------------------
TokenizerInit == text = NoText /\ ids = <<>> /\ said = NoText

Encode(t) == text = NoText /\ text' = t /\ ids' = Encoded(t) /\ UNCHANGED said
Decode == text # NoText /\ said = NoText /\ said' = Decoded(ids) /\ UNCHANGED <<text, ids>>
Forget == said # NoText /\ text' = NoText /\ ids' = <<>> /\ said' = NoText

TokenizerNext == (\E t \in Texts : Encode(t)) \/ Decode \/ Forget

TokenizerSpec == TokenizerInit /\ [][TokenizerNext]_<<text, ids, said>>
-----------------------------------------------------------------------------
(* Decoding gives the text back: no character is lost where the text is    *)
(* cut into pieces, where neighbours are merged, or because a merged       *)
(* symbol has no token (test_smollm2_tokenizer.cpp, "round-trip").         *)
TokensSpellTheText == said # NoText => said = text
=============================================================================
