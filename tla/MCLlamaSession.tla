--------------------------- MODULE MCLlamaSession ---------------------------
(* A small instance of LlamaSession for TLC. Text is decoded as the byte    *)
(* level tokenizer does it, token by token, special tokens being skipped.   *)
EXTENDS LlamaSession, TLC

CONSTANTS a, b, eos

MCDecodeText(tokens) ==
    FlattenSeq([i \in DOMAIN tokens |->
        CASE tokens[i] = a -> <<"x">> [] tokens[i] = b -> <<"x", "y">> [] OTHER -> <<>>])
MCFallback(token) == <<"[", token, "]">>
MCEncodings == {<<>>, <<a>>, <<eos>>}
=============================================================================
