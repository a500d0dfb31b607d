---------------------------- MODULE TextStreamer ----------------------------
(* LlamaTextStreamer of examples/common/llama/llama_engine.cpp: turns the   *)
(* tokens of a generation into pieces of text. A text is a sequence of      *)
(* characters.                                                              *)
EXTENDS Naturals, Sequences, SequencesExt

CONSTANTS DecodeText(_),     \* what tokenizer_.decode returns for a sequence of tokens
          Fallback(_)    \* the text "[id]" of a token, used without a tokenizer

VARIABLES all_tokens,            \* all_tokens_
          generated_tokens,      \* generated_tokens_
          decoded_all,           \* decoded_all_
          full_generated_text    \* full_generated_text_

streamer == <<all_tokens, generated_tokens, decoded_all, full_generated_text>>

StreamerInit ==
    /\ all_tokens = <<>>
    /\ generated_tokens = <<>>
    /\ decoded_all = <<>>
    /\ full_generated_text = <<>>

Reset(loaded, initial_tokens) ==
    /\ all_tokens' = initial_tokens
    /\ generated_tokens' = <<>>
    /\ full_generated_text' = <<>>
    /\ decoded_all' = IF loaded /\ initial_tokens # <<>> THEN DecodeText(initial_tokens) ELSE <<>>

(* What put returns: the text behind the longest common prefix of the old   *)
(* decoded text and the new one, which is all of the old one as a rule.     *)
Delta(old, new) ==
    IF IsPrefix(old, new) THEN SubSeq(new, Len(old) + 1, Len(new))
    ELSE LET common == CHOOSE n \in 0 .. Len(old) :
                 /\ n <= Len(new) /\ SubSeq(old, 1, n) = SubSeq(new, 1, n)
                 /\ n = Len(old) \/ n = Len(new) \/ old[n + 1] # new[n + 1]
         IN  SubSeq(new, common + 1, Len(new))

PutPiece(loaded, token) ==
    IF loaded THEN Delta(decoded_all, DecodeText(Append(all_tokens, token))) ELSE Fallback(token)

(* Faulty: decoded_all_ is not renewed.                                     *)
PutForgetsDecoded(loaded, token) ==
    /\ all_tokens' = Append(all_tokens, token)
    /\ generated_tokens' = Append(generated_tokens, token)
    /\ UNCHANGED decoded_all
    /\ full_generated_text' = full_generated_text \o PutPiece(loaded, token)

Put(loaded, token) ==
    /\ all_tokens' = Append(all_tokens, token)
    /\ generated_tokens' = Append(generated_tokens, token)
    /\ decoded_all' = IF loaded THEN DecodeText(all_tokens') ELSE decoded_all
    /\ full_generated_text' = full_generated_text \o PutPiece(loaded, token)

(* flush: only a longer decoded text is emitted.                            *)
FlushPiece(loaded) ==
    LET final == DecodeText(all_tokens) IN
    IF loaded /\ all_tokens # <<>> /\ Len(final) > Len(decoded_all)
    THEN SubSeq(final, Len(decoded_all) + 1, Len(final)) ELSE <<>>

Flush(loaded) ==
    /\ full_generated_text' = full_generated_text \o FlushPiece(loaded)
    /\ decoded_all' = IF FlushPiece(loaded) # <<>> THEN DecodeText(all_tokens) ELSE decoded_all
    /\ UNCHANGED <<all_tokens, generated_tokens>>

(* The streamed text is what the generated tokens add to the decoded text   *)
(* of the prompt: nothing is repeated, dropped or emitted out of order. It  *)
(* is a promise for tokenizers whose decoded text only grows.               *)
StreamedTextIsDecodedText(loaded) ==
    LET prompt == SubSeq(all_tokens, 1, Len(all_tokens) - Len(generated_tokens)) IN
    IF loaded THEN DecodeText(prompt) \o full_generated_text = DecodeText(all_tokens)
    ELSE full_generated_text = FlattenSeq([i \in DOMAIN generated_tokens |-> Fallback(generated_tokens[i])])
=============================================================================
