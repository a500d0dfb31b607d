--------------------------- MODULE MCCudaStreams ---------------------------
(* Two executables that share weights and a cache, as the prefill and the  *)
(* decode graph of a session do, and two threads.                          *)
EXTENDS CudaStreams, TLC

CONSTANTS prefill, decode, t1, t2

TwoExecutables == {prefill, decode}
TwoThreads == {t1, t2}
TheBuffers == {"tokens", "weights", "cache", "logits"}

NodeOf(reads, writes, indices) == [reads |-> reads, writes |-> writes, indices |-> indices]

\* The prefill computes the cache and the logits; decode looks its token up and extends the cache.
TheCode ==
    prefill :> <<NodeOf({"weights"}, {"cache"}, {}), NodeOf({"cache"}, {"logits"}, {})>>
    @@ decode :> <<NodeOf({"cache", "weights"}, {"cache"}, {}), NodeOf({"weights", "tokens"}, {"logits"}, {"tokens"})>>

SymmetryThreads == Permutations(TwoThreads)
=============================================================================
