---------------------------- MODULE LlamaSession ----------------------------
(* LlamaEngine of examples/common/llama/llama_engine.cpp: one thread calls  *)
(* it, and every call but generate is one step. generate is cut where it    *)
(* calls back: its sampler chooses any token or throws.                     *)
EXTENDS LlamaGraph, TextStreamer

CONSTANTS Tokens,        \* the vocabulary
          Bos, Eos,      \* bos_id and eos_id of a loaded tokenizer
          FirstToken,    \* the prompt of generate without a tokenizer, {1}
          Encodings,     \* what tokenizer_->encode may return for a prompt
          MaxPrompt, MaxLength, MaxNew, MaxCalls, MaxFailures   \* bounds

ASSUME SessionAssumption ==
    /\ {Bos, Eos, FirstToken} \subseteq Tokens
    /\ Encodings \subseteq Seq(Tokens)
    /\ \A e \in Encodings : Len(e) < MaxPrompt
    /\ {MaxPrompt, MaxLength, MaxNew, MaxCalls, MaxFailures} \subseteq Nat

VARIABLES
    loaded,      \* loaded_
    tokenizer,   \* tokenizer_: "null", "unloaded" or "loaded"
    cache,       \* session_kv_cache_: keys and values per layer, and seq_len
    reply,       \* the rows of logits the last call returned, <<>> if it threw
    asked,       \* the tokens that call was about
    gen,         \* generate: its program counter, arguments and generated_tokens
    emitted,     \* the pieces on_token was given
    calls, failures   \* calls made and calls that threw, to bound the model

session == <<loaded, tokenizer, cache>>
vars == <<session, reply, asked, gen, emitted, calls, failures, streamer>>

EmptyCache == [k |-> <<>>, v |-> <<>>, seq_len |-> 0]
NoGeneration == [pc |-> "idle", prompt |-> <<>>, max |-> 0, tokens |-> <<>>]

(* The graphs of all calls share the weights of load.                       *)
W == BindModelWeights(RecordWeightStorages(FloatWeights(FALSE)))

Init ==
    /\ loaded = FALSE /\ tokenizer = "null"
    /\ cache = EmptyCache
    /\ reply = <<>> /\ asked = <<>>
    /\ gen = NoGeneration /\ emitted = <<>>
    /\ calls = 0 /\ failures = 0
    /\ StreamerInit

Prompts == UNION {[1 .. n -> Tokens] : n \in 0 .. MaxPrompt}

Idle == gen.pc = "idle"
HasTokenizer == tokenizer = "loaded"

(* A call that throws has changed nothing, or has just not read its answer. *)
Outcomes == {"ok", "throws early", "throws late"}
Counts(outcome) ==
    /\ failures' = failures + (IF outcome = "ok" THEN 0 ELSE 1)
    /\ failures' <= MaxFailures
Called == calls < MaxCalls /\ calls' = calls + 1

-----------------------------------------------------------------------------
(* prefill, forward_step and the stateless forwards                         *)

ReplaceCache(out, len) == cache' = [k |-> out.k, v |-> out.v, seq_len |-> len]

(* One row of logits is read, the first: the graph computes no other.       *)
Return(out, outcome) ==
    reply' = IF outcome = "ok" THEN SubSeq(out.logits, 1, 1) ELSE <<>>

PrefillBody(tokens, outcome) ==
    /\ (loaded /\ tokens # <<>>) \/ outcome = "throws early"
    /\ asked' = tokens
    /\ IF outcome = "throws early" THEN reply' = <<>> /\ UNCHANGED cache
       ELSE LET out == PrefillGraph(W, tokens, TRUE)
            IN  Return(out, outcome) /\ ReplaceCache(out, Len(tokens))

(* What the cache holds the keys of: the tokens at the bottom of layer 1.   *)
CachedTokens ==
    IF cache.k = <<>> THEN <<>>
    ELSE [i \in DOMAIN cache.k[1][1] |-> Last(cache.k[1][1][i].row[2])]

StepBody(token, pos, outcome) ==
    IF cache.seq_len = 0 THEN PrefillBody(<<token>>, outcome)
    ELSE /\ loaded \/ outcome = "throws early"
         /\ asked' = Append(CachedTokens, token)
         /\ IF outcome = "throws early" THEN reply' = <<>> /\ UNCHANGED cache
            ELSE LET out == DecodeGraph(W, token, pos, cache)
                 IN  Return(out, outcome) /\ ReplaceCache(out, pos + 1)

CallPrefill(tokens, outcome) ==
    /\ Idle /\ Called /\ Counts(outcome)
    /\ PrefillBody(tokens, outcome)
    /\ UNCHANGED <<loaded, tokenizer, gen, emitted, streamer>>

(* Callers pass session_seq_len(), as generate does.                        *)
CallForwardStep(token, outcome) ==
    /\ Idle /\ Called /\ Counts(outcome)
    /\ cache.seq_len < MaxLength
    /\ StepBody(token, cache.seq_len, outcome)
    /\ UNCHANGED <<loaded, tokenizer, gen, emitted, streamer>>

(* forward_logits computes all rows and reads the last, forward_full_logits *)
(* reads all. Neither touches the session.                                  *)
CallForwardLogits(tokens, full, outcome) ==
    /\ Idle /\ Called /\ Counts(outcome)
    /\ (loaded /\ tokens # <<>>) \/ outcome = "throws early"
    /\ asked' = tokens
    /\ reply' = IF outcome # "ok" THEN <<>>
                ELSE LET rows == PrefillGraph(W, tokens, FALSE).logits
                     IN  IF full THEN rows ELSE <<Last(rows)>>
    /\ UNCHANGED <<session, gen, emitted, streamer>>

CallResetSession ==
    /\ Idle /\ cache # EmptyCache
    /\ cache' = EmptyCache
    /\ UNCHANGED <<loaded, tokenizer, reply, asked, gen, emitted, calls, failures, streamer>>

-----------------------------------------------------------------------------
(* load: the tokenizer is replaced first and loaded_ set last. Synthetic    *)
(* weights do without a tokenizer. A second load would keep the session of  *)
(* the old weights; callers load once.                                      *)
CallLoad(tok, outcome) ==
    /\ Idle /\ ~loaded /\ Called /\ Counts(outcome)
    /\ tokenizer' = tok
    /\ loaded' = (outcome = "ok")
    /\ outcome = "ok" => tok # "null"
    /\ tokenizer = "null" \/ tok # "null"
    /\ UNCHANGED <<cache, reply, asked, gen, emitted, streamer>>

-----------------------------------------------------------------------------
(* generate                                                                 *)

(* The tokens generate makes of a text: a bos in front unless encode put it.*)
(* Bos is a token: tokenizers that have none (bos_id() < 0) are left out.   *)
PromptOf(encoding) ==
    IF ~HasTokenizer THEN <<FirstToken>>
    ELSE IF encoding # <<>> /\ Head(encoding) = Bos THEN encoding
    ELSE <<Bos>> \o encoding

(* Faulty: the variable is not renewed.                                     *)
NextTokenStale == gen.tokens[1]
NextToken == gen.tokens[Len(gen.tokens)]

(* Faulty: max_new_tokens = 0 enters the loop.                              *)
CallGenerateAtLeastOne(prompt, max, outcome) ==
    /\ Idle /\ Called /\ Counts(outcome)
    /\ tokenizer # "null" /\ prompt # <<>>
    /\ Reset(HasTokenizer, prompt)
    /\ emitted' = <<>>
    /\ asked' = prompt
    /\ loaded \/ outcome = "throws early"
    /\ IF outcome = "throws early" THEN reply' = <<>> /\ cache' = EmptyCache
       ELSE LET out == PrefillGraph(W, prompt, TRUE)
            IN  Return(out, outcome) /\ ReplaceCache(out, Len(prompt))
    /\ gen' = [pc |-> IF outcome # "ok" THEN "idle" ELSE "sample",
               prompt |-> prompt, max |-> max, tokens |-> <<>>]
    /\ UNCHANGED <<loaded, tokenizer>>

(* Up to the sampler: the prompt replaces the session, which stays empty if *)
(* prefill throws early. The streamer is a local of generate and refers to  *)
(* the tokenizer, which exists once load has begun.                         *)
CallGenerate(prompt, max, outcome) ==
    /\ Idle /\ Called /\ Counts(outcome)
    /\ tokenizer # "null" /\ prompt # <<>>
    /\ Reset(HasTokenizer, prompt)
    /\ emitted' = <<>>
    /\ asked' = prompt
    /\ loaded \/ outcome = "throws early"
    /\ IF outcome = "throws early" THEN reply' = <<>> /\ cache' = EmptyCache
       ELSE LET out == PrefillGraph(W, prompt, TRUE)
            IN  Return(out, outcome) /\ ReplaceCache(out, Len(prompt))
    /\ gen' = [pc |-> IF outcome # "ok" \/ max = 0 THEN "idle" ELSE "sample",
               prompt |-> prompt, max |-> max, tokens |-> <<>>]
    /\ UNCHANGED <<loaded, tokenizer>>

(* Faulty: the loop runs to max_new_tokens included.                        *)
SampleOneMore(token) ==
    /\ gen.pc = "sample"
    /\ Put(HasTokenizer, token)
    /\ emitted' = Append(emitted, PutPiece(HasTokenizer, token))
    /\ gen' = [gen EXCEPT
         !.tokens = Append(@, token),
         !.pc = IF Len(gen.tokens) = gen.max \/ (HasTokenizer /\ token = Eos)
                THEN "flush" ELSE "step"]
    /\ UNCHANGED <<session, reply, asked, calls, failures>>

(* sample_fn has chosen a token; then the test of the loop and of its body. *)
Sample(token) ==
    /\ gen.pc = "sample"
    /\ Put(HasTokenizer, token)
    /\ emitted' = Append(emitted, PutPiece(HasTokenizer, token))
    /\ gen' = [gen EXCEPT
         !.tokens = Append(@, token),
         !.pc = IF Len(gen.tokens) + 1 = gen.max \/ (HasTokenizer /\ token = Eos)
                THEN "flush" ELSE "step"]
    /\ UNCHANGED <<session, reply, asked, calls, failures>>

(* The bound is never met: max_new_tokens ends the loop before.             *)
CanStep == gen.pc = "step" /\ cache.seq_len < MaxPrompt + MaxNew
GenerateStep(outcome) ==
    /\ CanStep /\ Counts(outcome)
    /\ StepBody(NextToken, cache.seq_len, outcome)
    /\ gen' = [gen EXCEPT !.pc = IF outcome = "ok" THEN "sample" ELSE "idle"]
    /\ UNCHANGED <<loaded, tokenizer, emitted, calls, streamer>>

GenerateReturn ==
    /\ gen.pc = "flush"
    /\ Flush(HasTokenizer)
    /\ emitted' = IF FlushPiece(HasTokenizer) = <<>> THEN emitted
                  ELSE Append(emitted, FlushPiece(HasTokenizer))
    /\ gen' = [gen EXCEPT !.pc = "idle"]
    /\ UNCHANGED <<session, reply, asked, calls, failures>>

(* The sampler or on_token throws.                                          *)
CallbackThrows ==
    /\ gen.pc = "sample" /\ Counts("throws late")
    /\ gen' = [gen EXCEPT !.pc = "idle"]
    /\ UNCHANGED <<session, reply, asked, emitted, calls, streamer>>

-----------------------------------------------------------------------------
Generation ==
    \/ \E token \in Tokens : Sample(token)
    \/ \E outcome \in Outcomes : GenerateStep(outcome)
    \/ GenerateReturn
    \/ CallbackThrows

Next ==
    \/ \E tok \in {"null", "unloaded", "loaded"}, o \in Outcomes : CallLoad(tok, o)
    \/ \E p \in Prompts, o \in Outcomes : CallPrefill(p, o)
    \/ \E t \in Tokens, o \in Outcomes : CallForwardStep(t, o)
    \/ \E p \in Prompts, full \in BOOLEAN, o \in Outcomes : CallForwardLogits(p, full, o)
    \/ CallResetSession
    \/ \E e \in Encodings, max \in 0 .. MaxNew, o \in Outcomes : CallGenerate(PromptOf(e), max, o)
    \/ Generation

(* The engine's own steps are taken, and the sampler and the callback       *)
(* return. The last conjunct is WF_vars(\E outcome : GenerateStep(outcome)),*)
(* without its ENABLED, for which TLC would compute the graph many times.   *)
Fairness ==
    /\ WF_vars(\E token \in Tokens : Sample(token))
    /\ WF_vars(GenerateReturn)
    /\ []<>~CanStep \/ []<><<\E outcome \in Outcomes : GenerateStep(outcome)>>_vars
Spec == Init /\ [][Next]_vars /\ Fairness

-----------------------------------------------------------------------------
TypeOK ==
    /\ loaded \in BOOLEAN /\ tokenizer \in {"null", "unloaded", "loaded"}
    /\ loaded => tokenizer # "null"
    /\ DOMAIN cache.k = DOMAIN cache.v
    /\ Len(cache.k) \in {0, Layers} /\ cache.seq_len \in Nat
    /\ CachedTokens \in Seq(Tokens) /\ asked \in Seq(Tokens)
    /\ gen.pc \in {"idle", "sample", "step", "flush"}
    /\ gen.tokens \in Seq(Tokens) /\ Len(gen.tokens) <= gen.max
    /\ generated_tokens \in Seq(Tokens)

(* Layer by layer, head by head and position by position, the cache holds   *)
(* what one forward pass over all tokens of the session would compute,      *)
(* rotated by the right position and computed from the right context        *)
(* (prefill, forward_step and the two graph builders).                      *)
CacheIsThatOfOnePass ==
    /\ cache.seq_len = Len(CachedTokens)
    /\ \A l \in DOMAIN cache.k :
         cache.k[l] = KeysOf(l, CachedTokens) /\ cache.v[l] = ValuesOf(l, CachedTokens)

(* Every row of logits a call returns is that of one forward pass over the  *)
(* tokens up to that row and no later one: rows of the full matrix ignore   *)
(* what follows them, and incremental answers equal stateless ones.         *)
Truth(tokens) == <<Row(Layers, tokens)>>
RowsSeeTheirPrefix ==
    \A i \in DOMAIN reply :
        <<reply[i]>> = Truth(SubSeq(asked, 1, Len(asked) - Len(reply) + i))

(* While generate runs, the session is its prompt and the tokens generated  *)
(* so far, the last of which is still to be fed; nothing follows an eos.    *)
GenerationAndSessionAgree ==
    gen.pc # "idle" =>
        /\ CachedTokens = gen.prompt \o
             (IF gen.pc = "sample" THEN gen.tokens ELSE SubSeq(gen.tokens, 1, Len(gen.tokens) - 1))
        /\ generated_tokens = gen.tokens
        /\ HasTokenizer => \A i \in 1 .. Len(gen.tokens) - 1 : gen.tokens[i] # Eos

(* The pieces given to on_token, joined, are result.text, and that is what  *)
(* decoding prompt and answer together adds to the decoded prompt.          *)
StreamIsTheAnswer ==
    gen.pc # "idle" =>
        /\ FlattenSeq(emitted) = full_generated_text
        /\ StreamedTextIsDecodedText(HasTokenizer)

(* A session is an abstract conversation, read off the cache's own content. *)
AbstractConversation == INSTANCE Conversation WITH
    Token <- Tokens, Truth <- Truth, Thrown <- <<>>,
    fed <- CachedTokens, question <- asked,
    answer <- IF reply = <<>> THEN <<>> ELSE <<Last(reply)>>
IsAConversation == AbstractConversation!Spec

(* generate returns: max_new_tokens bounds its loop, whatever is sampled.   *)
GenerateReturns == gen.pc # "idle" ~> gen.pc = "idle"
=============================================================================
