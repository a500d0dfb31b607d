# VeloMind: a verification project

TLA+ specifications of the parts of VeloMind whose correctness depends on
interleavings, on the order of calls, on failures between steps, or on integer
arithmetic over memory: the ISPC task runtime, the graph compiler with its arena
planner, execution on the memory the compiler laid out, the streams of the CUDA
device, the kernels of all three backends, the LLaMA engine with its KV cache, and
the file, weight and text formats around it. Each module says which source it
models; `PROJECT.json` maps every definition to its lines.

    tlc -workers 2 -config MCTaskSystem.cfg MCTaskSystem.tla     # check a run
    tlapm TaskSystemProofs.tla                                   # check the proofs

## 1. Inventory of the system

VeloMind is a C++ inference engine. A program builds a `Graph` of tensors and
operators, `Graph::build` compiles it into an `Executable` for one device (CPU,
ISPC or CUDA), and `Executable::execute` runs one kernel after the other. The
LLaMA examples build a prefill graph and then one decode graph per token, which
share weights and a KV cache. One program thread drives all this; the ISPC
backend alone runs kernels on a pool of threads, and CUDA queues them on a stream.

| component | state | operations | interacts with | hard because | correct if |
|---|---|---|---|---|---|
| ISPC task runtime, `src/src/ispc/task_system.cpp` | item queue, task groups with atomic counters, workers, budget | `ISPCLaunch`, `ISPCSync`, `ISPCAlloc`, worker loop, `set_thread_budget`, `shutdown` | ISPC kernels call it through the ISPC ABI | threads, lock-free claims, two condition variables, manual reference counts | tasks run once, sync is a barrier, groups are neither leaked nor used after deletion, nobody sleeps forever |
| Graph, `graph.cpp` | tensors, nodes, chosen outputs, built flag | `input`, `op`, `mark_output`, `set_outputs`, `outputs`, `validate`, `build` | compiler, tensors | calls that fail halfway, elimination of nodes | the order is a schedule of what the outputs need |
| Graph compiler, `internal/graph_compiler.cpp` | none of its own; rewrites the graph's storages | `compile`: liveness, views, arena, allocation, assembly | graph, registries, allocators | sharing of bytes by lifetime and by view, failing allocations | no kernel reads bytes another tensor has taken |
| Arena planner, same file | planned groups | `_plan_arena_offsets` | compiler | interval arithmetic, first fit | live groups are disjoint, the arena is large enough, never worse than separate buffers |
| Executable, `executable.cpp` | compiled nodes | `execute`, `bind_input`, `output` | tensors, kernels | rebinding between runs, exceptions between kernels | each run uses what the caller gave last |
| Tensor and storage, `tensor.cpp`, `tensor_storage.h` | address, offset, strides, owner | copies to and from the host, views, preview | transfers, executable | an offset that may be counted twice, strides others ignore | a tensor is its own bytes |
| Operator signatures, `internal/shape_helpers.h`, `internal/op_validation.h` | none | one signature per operator | graph, kernels | negative axes, ranks that differ, what kernels rely on | what is accepted is what the kernels can compute |
| Kernels, `cpu/ops`, `ispc/ops`, `cuda/ops` | none | one function per operator and backend | executable, task runtime, streams | strides, tails of blocks, tiles and spans, paths chosen by size | every element is written once, with what the operator means |
| Registries, `internal/registry` | tables filled before `main` | register, look up | compiler | static initialisation order | one entry per key |
| Safetensors, `safetensors.cpp` | none | header, tensor, whole file | LLaMA loaders | untrusted ranges | accepted ranges lie in the file and do not overlap |
| LLaMA engine, `examples/common/llama` | weights, KV cache of a session | `load`, `prefill`, `forward_step`, `generate`, `reset_session` | graph, safetensors, tokenizer, sampler | a cache replaced layer by layer, positions kept apart from it | the cache holds exactly the tokens that were fed |
| Text streamer, same file | tokens, decoded text | `reset`, `put`, `flush` | tokenizer | text of a prefix may change | emitted pieces make up the text |
| CUDA context, `cuda/cuda_context.cu` | stream, cuBLAS handle, thread-local active context | scopes, synchronise | executable, CUDA kernels | nested scopes, asynchrony | execute returns after its kernels |
| Quantisation, `quant.cpp` | none | quantise and restore, eight and four bits | graph builder, quantised product | two levels share a byte, writer and readers in different files | readers find what was stored |
| Tokenizer, `examples/smollm2/tokenizer.cpp` | vocabulary, ranks of merges | `load`, `encode`, `decode` | engine | pieces, merges in rank order, bytes spelled as characters | decoding gives the text back |
| LLaMA graph builder, `llama_graph.cpp` | none | prefill and decode graphs, quantised weights | engine, graph | the decode graph must continue what the prefill graph began | both compute the rows of one forward pass |
| Data types, devices, model finder, console, model loaders, sampler, benchmarks | little or none | see `PROJECT.json` | | | |

Hazards, each at its line with the properties that watch it, are in
`PROJECT.json`. Those without a property carry the reason.

## 2. Modules

| module | models |
|---|---|
| `ForkJoin` | what the task runtime promises a kernel: tasks are performed between their launch and the end of the kernel, each once |
| `TaskSystem` | `task_system.cpp` step by step |
| `TaskSystemInv`, `TaskSystemProofs` | its inductive invariant and its theorems |
| `ArenaPlan` | the arithmetic of `_plan_arena_offsets` as operators (the lemmas about it are in the proof modules of the two that use it) |
| `ArenaPlanner` | its loop, one group per step |
| `Graph` | `graph.cpp`: construction, required nodes, topological order |
| `GraphCompiler` | `graph_compiler.cpp`: a build, or a failing one (extends `Graph` and `ArenaPlan`) |
| `Executable`, `ExecutableProofs` | `executable.cpp` and the calls of its owner; composes the two above; the lemmas about orders, views, lifetimes, packing and layout, and the theorems |
| `CudaStreams`, `CudaStreamsProofs` | streams, active contexts, copies and the waits of `execute`: `cuda_context.cu`, `storage.cu`, `executable.cpp` |
| `Tensors` | shapes, strides, and how the backends divide a range among tasks and threads |
| `OpSignatures` | `op_validation.h` and `shape_helpers.h`: which calls are accepted, and the result's shape and type |
| `CopyKernels`, `RowKernels`, `MatMulKernels`, `QuantizedProducts`, `AttentionKernels` | the kernels of the CPU (with and without AVX2), ISPC and CUDA backends |
| `Kernels` | the kernel table and a call of an operator: accepted or refused, looked up, run |
| `OperatorMeanings` | what each operator means, written from coordinates and independently of any kernel, and the properties |
| `Quantisation` | `quant.cpp` |
| `Safetensors` | `safetensors.cpp` |
| `Tokenizer` | `examples/smollm2/tokenizer.cpp` |
| `LlamaGraph` | `llama_graph.cpp`, `llama_rope_mask.cpp`: what a prefill and a decode graph compute |
| `TextStreamer` | `LlamaTextStreamer` |
| `LlamaSession`, `LlamaSessionProofs` | `LlamaEngine`; composes the two above; what the graphs compute, layer by layer, and the theorems of the session |
| `Conversation` | what an engine promises: the abstract specification `LlamaSession` implements |
| `AlgorithmProofs` | theorems about the planner, files and texts |
| `KernelProofs` | theorems about what kernels compute: products of matrices, stored weights, the running softmax |
| `OperatorProofs` | the theorem that copying, elementwise and row kernels do what their operator means |
| `ProofLemmas` | facts about sequences, finite sets and induction that several proofs cite |
| `MC...` | constants for TLC; `MCAlgorithms` runs kernels, quantisation, tokenizer and files, one call at a time |

Operators commented "Faulty" are plausible mistakes in the operator below them.
No specification uses them; they are there to see that each property fails when
the code is wrong in that way (`PROJECT.json`, "mutants").

### TaskSystem

`queue` is `queue_`; a launch is a `TaskItem` with `group`, `total`, `next`
(`next_index`); `refs` and `remaining` are the atomics of a `TaskGroup`, `alive`
the groups not yet deleted (an address may be reused). Every thread has a `pc`
whose labels are the points between two synchronisation operations: an action is
the code from one atomic operation or critical section to the next, so that all
interleavings the program can show are there, including `notify_all` after the
critical section, spurious wake-ups and the 50 us timeout of `ISPCSync`. Callers
are threads inside an ISPC kernel; `Setters` are those that may also call
`set_thread_budget`.

### ArenaPlan and ArenaPlanner

A group is `[root, birth, death, size]`, a planned group has `offset` and
`aligned_size` as well. `PlaceGroup` is one turn of the loop in lines 343-390,
including the default offset 0 when no candidate is free.

### Graph, GraphCompiler, Executable

A tensor is its `TensorStorage`: device, rank, size, strides (row-major, or with the last
two axes swapped), `data` and `offset`. Memory is a sequence of cells; a cell
holds which value it is a part of and which part. Kernels are modelled by what
they do to cells: `Reshape` copies them or returns at once when both addresses
agree, `Transpose` rewrites them row-major or returns at once, `MatMul` and
`Map` (which stands for all other operators) produce the right value if every
operand, read the way this backend reads it, is the right value, and junk if not.
While a kernel runs, the bytes of its output count as lost, since kernels write
before they have read everything. `value` records beside the memory what each
tensor should hold.

A build is one action, because it runs on one thread and nothing observes its
middle, except that it may throw at an allocation: `BuildFails` keeps what the
analysis had already written into the graph.

### CudaStreams

A stream is the sequence of operations that were put into it and have not run.
`Complete` runs the first of any stream, so that every order the device could
choose is there. An operation carries the contents it should find (`value`, what
memory would hold if each operation took effect when it was issued); one that
finds others leaves `Junk`. `active` is `t_active_context`, `previous` the
pointer `ScopedCudaContext` keeps. Callers are bound by one rule, that of two
calls under way at once none writes what the other uses: without it no library
could be right. The executables are a prefill and a decode graph over one cache.

### Kernels

Elements have no values but names: a kernel maps each index it writes to a term
over the elements it read (`SumOf` a set of products, an exponential of a score,
a copy). Sums are bags of terms, so that the order of an accumulation does not
matter, which is how far the arithmetic of the backends agrees. Block sizes, warps, tasks
and thresholds are constants, and the loops over tiles, panels, spans and lanes
are there with their bounds. `Invoke` writes down the pairs of index and
term; `OperatorMeanings` compares them with a definition by coordinates.
`AttentionKernels` evaluates the running softmax on scores whose order is known,
since whether it rescales depends on comparisons.

### Quantisation, Safetensors, Tokenizer

Weights are small integers, scales are fractions. Bytes of four-bit weights are packed
and sign-extended as the code does, and `WeightsSurviveQuantisation` reads them
through the product kernels of the three backends as well as through the
functions that restore them. A safetensors file is its size, the length it
gives and what its header parses to, with arithmetic on a `size_t` of `SIZE_MAX`. Texts are
sequences of bytes with a small vocabulary; letters, digits and spaces, the
pieces and the merges are those of the code.

### LlamaGraph, LlamaSession, Conversation

A key or a value is the record of what it was computed from: weights of which layer,
which context, rotated by which position. A row of logits is therefore right
exactly when it is the term a single forward pass would build. Every call of the
engine is one step with an outcome (`"ok"`, `"throws early"`, before the session
changed, `"throws late"`, after), because one thread calls it; `generate` is
cut where it calls back to its sampler and its `on_token`.

## 3. Runs

| run | asks | states |
|---|---|---|
| `tasks` | two callers, two workers, two groups, two launches of up to two tasks: all safety properties and the refinement of `ForkJoin` | 408 719 |
| `tasks_live` | budgets change under a launch, one group: no lost wake-up, the budget is honoured, kernels end, budget calls return, the queue drains | 56 939 |
| `arena` | all sets of up to four groups over three steps, sizes 1 and 3, alignment 2: packing is disjoint, large enough and not wasteful | 124 416 |
| `executable` | all graphs of four tensors, all operators, ranks 2 and 3, at most one chosen output, three devices, one execution | 1 090 891 |
| `executable_rebind` | four tensors with empty ones, a failing build, a copy, a binding, two executions, executions that throw; five unpopulated tensors whose bytes are reused | 1 195 550 |
| `streams` | two threads, a prefill and a decode graph: no two streams meet at a buffer, contexts outlive their users, the host sees what was computed | 10 624 |
| `algorithms` | every operator on every backend, weights in four and eight bits, texts of up to four bytes, files of up to three tensors | 8 070 |
| `session` | three calls in any order to an engine of two layers and two heads, prompts of two tokens, three new tokens, one failure: cache, rows, stream, refinement of `Conversation`, `generate` returns | 15 071 |
| `bind_view`, `retry_build`, `ranks`, `digits` | counterexamples: section 6 | |

Bounds, and why they are enough to be of use.

* Task runtime. Two callers and two workers give every pair of roles that meets at
  an item, a group or a condition variable; two tasks are the least for which one
  thread claims while another finishes the last; two launches in one group give
  the late launch that raises `remaining` again. For all larger values the
  safety theorems hold.
* Planner. Three steps and four groups contain every relation of intervals
  (disjoint, touching, nested, equal) and a third group that makes first fit
  skip a gap; the theorems cover the rest.
* Executable. Four tensors are the least for a view with a source, a second
  operand and a consumer; five the least for a byte to be reused by a tensor
  that is alive together with a third; ranks 2 and 3 are the two cases the CUDA
  condition tells apart. One or two cells show displacement.
* Streams. Two threads and two executables give two executions at once, one after
  the other in one stream each, and a copy beside either. `Versions` = 2 tells an
  operation's input from the one before.
* Kernels. Blocks of two to four, warps of two, spans of two or three, and sizes
  just below, at and above each and their products, so that every tail and every
  path by size is taken; shapes of up to four axes.
* Files. `SIZE_MAX` = 63: a product of two dimensions, an element size and an
  offset each pass it. Three ranges give every order and overlap.
* Texts. All texts of four bytes over eight: spaces, line breaks, an apostrophe
  with its contraction, a letter that merges in three ways, a character of two bytes.
* Session. Two layers tell a cache of the wrong layer, two heads over one key head
  the repetition, three tokens a position that is off by one from one that lags.

`MaxFailures`, `MaxRuns`, `MaxWrites`, `MaxBinds`, `MaxOutputs`, `MaxTensors`,
`MaxTasks`, `MaxCalls`, `MaxPrompt`, `MaxLength` and `MaxNew` are bounds in the
guards. The runs of the planner, the executable and the session switch deadlock
checking off because these programs stop: the planner is done, the bounded calls
are used up.

Inputs left out of passing runs by name, because the code fails on them (section 6):
operands of a product whose ranks differ with several batches, texts with digits,
Int4 weights of more than one block without a block size, Int8 weights in blocks
times one row on CUDA, Int4 blocks of odd length, two concurrent setters of the
budget, rebinding of an input seen through a transposed view, and builds that
are retried after a transposition was analysed.

Fairness. `TaskSystem!FairSpec` assumes weak fairness of each thread's steps,
which the operating system's scheduler gives to runnable threads, and that a
kernel which has launched its tasks eventually reaches its end (`EndKernel`).
Nothing is assumed about starting kernels, calling `set_thread_budget`, or
spurious wake-ups. `LlamaSession!Spec` assumes that inside `generate` the engine's
own steps are taken and that the sampler and the callback return, or throw;
nothing is assumed about calls. The other specifications are safety only.

## 4. What is proved

Assumptions are those the modules state by name (finite sets of threads, groups and
tensors, natural bounds, a positive alignment), and those a theorem names
itself; sums do not overflow.

Task runtime. For every set of callers, workers, groups, launches and every number
of tasks, `TaskSystemProofs` shows that `IInv` is inductive and concludes type
correctness, `RunsOnce`, `SyncAfterAllTasks`, `NoUseAfterFree`, `CountersExact`,
`StaleItemsSpent`, `NoLostWakeup` and that every behaviour implements `ForkJoin`.
The safety properties are not inductive by themselves. `IInv` adds what they rest
on: each kernel owns its group alone; a thread has a current item exactly at the
program points that use it; an item that is not yet enqueued belongs to its
launcher; claimed indices lie below `next_index`, and each is held by one thread or
has run; `remaining` and `refs` are exactly the cardinalities of the sets of
pending tasks and of holders. That last part is what makes deletion safe: a group
whose count drops to zero has no holder left. `BudgetHonoured` is proved for at most
one thread that sets the budget (`OneSetter`); with two it is false (section 6).

Planner. For every finite set of groups and every alignment, `AlgorithmProofs`
shows `NoLiveOverlap`, `ArenaHoldsGroups`, type correctness and `ArenaNeverWorse`
from `PlannerInv`. The search cannot fail: the highest end among the coexisting
groups is always a candidate and always free, so the default offset 0 is chosen only
when it is free. The arena is never larger than separate buffers because a group
is placed at 0 or at an end of a coexisting one (`Economical`): going down from
the highest end one meets a chain of disjoint groups without a gap, so its height
is the sum of their sizes. Such sums are folds over finite sets; the module begins
with the lemmas that reason about them.

Graphs. `ExecutableProofs` begins with what a build does. It shows, for every graph the operators can build: `topological_order`
is complete and lists every node behind its producers; the
nodes kept are those an output needs; every tensor's root is reached by views that
keep its bytes; the lifetime of a group covers every kernel that uses it; groups
that live together are packed apart; and `Layout` gives every tensor an address
inside what was allocated, the same for a view and its source, apart for groups
that live together.

Execution. The invariant `IInv` of `ExecutableProofs` says of a built graph that a layout with
those properties exists (`LaidOut`), and how far the execution has come. From it follow
type correctness, `InputsKept`, `ScheduleIsComplete` and `OperandsAllocated` for all
graphs, bindings, copies, failing builds and failing executions. That kernels see their
operands and that outputs can be read back needs a second invariant, `CalmInv`: every value that
a later kernel or a reader still needs is in its bytes, undisturbed, and read with the right
strides. It holds under the hypothesis
`Calm == Fusing => MaxBinds = 0 /\ MaxFailures = 0`: if transpositions are fused
into products, no input is bound to another buffer and no build is retried after a
failure. Both exceptions are real, they are the findings `bind_view` and
`retry_build`; both passing runs satisfy `Calm`, so that it does not exclude
what they check.

Streams. The invariant of `CudaStreamsProofs` is a conjunction of seven: where each
thread is and which context it holds (`ThreadInv`), which calls are under way and that they
do not conflict (`CallInv`), that every queued operation belongs to the call of the thread that
owns its stream (`OwnerInv`), that a copy waits for its own operation (`CopyInv`), and that memory,
queued expectations and `value` fit together (`SeenInv`, `ExpectInv`, `ValueInv`):
what a buffer will hold once the queue in front of an operation has run is what
that operation expects. It gives `NoTwoStreamsConflict`,
`ContextsOutliveTheirUsers` and `DeviceActsInOrder` for any number of threads,
executables and buffers.

LLaMA session. For every number of layers and heads, every vocabulary, every sequence of calls
and every outcome of each, `LlamaSessionProofs` shows `CacheIsThatOfOnePass`,
`RowsSeeTheirPrefix`, `GenerationAndSessionAgree`, type correctness and that the engine
implements `Conversation`. The work is in two lemmas about the graphs. `PrefillFacts`:
by induction over the layers, the prefill graph computes the rows of one pass and the keys and
values of all its tokens. `DecodeFacts`: given the keys and values of a prefix, the
decode graph, which has no mask, computes the row of one token more, and the concatenated
cache is that of the longer prefix. Both go through `BlockFacts`, which holds for rows at
any offset with or without the mask. Above them the invariant `IInv` says that the cache is
`CacheOf` the tokens it is of, that the last answer is of a pass over the tokens asked
about, and how far a generation has come. `StreamIsTheAnswer` is proved under
`DecodingGrows`: decoding one token more extends the decoded text. The streamer is made for
such tokenizers, and the one of SmolLM2, which decodes token by token, is one; so is
the instance TLC checks.

Files. `FilesAreLoaded`: for every width of a `size_t`, every file and everything its header may
parse to, a load that succeeds returns tensors as large as their shapes need, inside the file,
behind its header and apart from one another, and a file that describes such tensors is
loaded. `FilesAssumption` says only what a file is: numbers a JSON parser can return, and
lengths that fit a `size_t`. The checks are made in wrapping arithmetic, so the
proof shows for each product and sum that passes them that it did not wrap; then the
sorted ranges, each behind the end of the one before it, are apart pairwise.

Texts. `TextsAreSpelled`: decoding an encoded text gives it back, for every vocabulary and every
set of merges. `EntriesAssumption` and `VocabularyAssumption` describe the byte-level kind of
tokenizer: ids are natural numbers, the bytes of the texts are tokens, what a merge joins is a
token, no id has two tokens, and no piece of a text is the name of a special one. The theorem is about texts without digits, because a digit is
lost (section 6). The argument follows the code. The code points that stand for bytes are
found again by `UnicodeToByte`; the pieces `byte_level_pretokenize` cuts join without
a gap (every character ends behind where it began, and each piece begins where the
last one ended); a merge of the pair of least rank leaves the word that the symbols spell as it
was; every symbol is a token; the ids spell their tokens.

Running softmax. `RowIsTwoPass`: for every sequence of scores, the loop of the fused kernels, which
rescales sum and row whenever a larger score comes, ends with the sums over all keys of
the two-pass definition. The invariant of the loop is that the sums are relative to the
largest score so far, and that rescaling by the difference of two maxima shifts every exponent.

Stored weights. `StoredWeightsAreNear`: for every matrix of integer weights, stored in eight
bits per channel or in four bits in blocks of any even length, `WeightsSurviveQuantisation`
holds: the product accepts what `quant.cpp` packs, and its kernels on the CPU, with AVX2 and
on CUDA read in it, for every element of a column, a value at most half a scale
away from the source, as do the functions that restore the weights. That block lengths are even
is assumed (`EvenSizes`) because odd ones are read wrongly (section 6). The argument has two
halves. A weight is near what is stored: the largest magnitude of a block bounds its levels
(`ScaleFits`), rounding loses at most half a level, and a level is found again in its byte, or
in the low or high half of it after the sign is extended (`Int8IsNear`, `Int4IsNear`).
And the kernels read every row once: each cuts the rows of a column in its own way, into
steps, vectors and what is left of them, blocks of one scale, lanes of a warp, or one thread for all.
`AddsUp` and `SumsOfParts` say when a sum over such parts is the sum over all rows, and
`DecodeIsColumn`, `GemvInt8IsColumn` and `GemvInt4IsColumn` are their instances for the kernels.

Products. `MatMulPathsAgree`: for matrices of any size with any base and strides, with and
without AVX2, and for every size of blocks, panels and vectors, `matmul_2d_f32` computes
what the scalar reference of `matmul.h` computes: each pair of an element is multiplied and added
exactly once. The sets of updates a path makes are shown to be the rows of b, each once: a loop
over blocks, or over vectors and what is left of them, meets a column in one place only
(`BlocksDivide`, `StripsDivide`); sums kept apart are added together once (`MergeCounts`,
`FoldedParts`); and behind the copying into panels `PackedEntry` finds the element of b that was
meant, never the padding of the last panel.

Kernels. `KernelsAreCorrect`: in every behaviour of `KernelsSpec`, a call of an
elementwise operator, `Reshape`, `Embedding`, `Softmax`, `RMSNorm`,
`RotaryEmbedding`, `Concat`, `RepeatKV`, `Transpose` or `Slice` that the signature
accepts satisfies `EveryElementIsWrittenByOneTask` and `KernelsComputeTheOperator`:
on the CPU with and without AVX2, with ISPC and on CUDA, for shapes of any rank and
size, negative axes, permutations, bounds and steps, and for every threshold, number
of tasks, threads and warps. `CallsAssumption` types the calls and says no more:
sizes are natural numbers, attributes and token ids are integers; that they are
acceptable is what `Accepts` tests. `IsCovered` names the operators and leaves out
`Transpose` and `Slice` on CUDA beyond the axes their kernels have room for (section
6). The invariant `KernelsInv` says that the writes `Computes` what is `Meant`: a
write for every element and none other, each of one task and of the term its
coordinates mean. The meaning is by coordinates, the kernels are by offsets, and
most of the work is between the two. `Inner` and `Outer` of an axis cut a shape of
any rank in three (`CoordinatesAre`, `Resized`), so that an offset is a number in
mixed radix; `Numel` and the strides are folds, treated as products of their parts.
The second half is the division of labour: elements cut into spans for tasks, lines
given to warps and threads, blocks copied before and behind an axis, threads a
stride apart (`TasksCompute`, `EachComputes`, `StoresOnce`), each shown to meet
every element once and to end before the last one.

A recursive function or a fold is reasoned about here as the sequence of its partial
results, which exists by recursion over a finite set (`ProofLemmas`), and an invariant is
shown along the sequence.

Proof attempts have corrected the models twice: the contents a host copy has seen were kept
beyond the call they belong to (`CudaStreams`), and an operand with no elements counted
as misread when it had no memory (`Executable`).

`ProofLemmas` holds what several of these cite: least and greatest elements, induction and
recursion over naturals and over finite sets, sequences without repetition. An
induction theorem that takes an operator cannot be used here, so these are stated
about sets: the hypothesis is a subset of the naturals, or a set of subsets.

## 5. What is only model-checked

Liveness (`KernelEnds`, `BudgetReturns`, `QueueDrains`, `GenerateReturns`): the
prover has no ENABLED. And of the kernels:

* `EveryElementIsWrittenByOneTask` and `KernelsComputeTheOperator` for `MatMul`,
  `QuantizedMatMul` and `FusedAttention`, and `OnlineSoftmaxIsSoftmax`: what is left are
  the tiles and batches of the products and the heads and warps of the attention. Inside them, the
  paths of a product on the CPU, the columns of stored weights and a row of the softmax
  are proved (section 4).

## 6. Findings

Each of the first four is the counterexample of a run.

1. `bind_view`: `bind_input` on an input that a fused `Transpose` views leaves the
   view on the old buffer with its swapped strides. The next `execute` multiplies
   the wrong matrix. Reproduced with the CPU backend: a 2x3 input transposed and
   multiplied by the identity gives 1 4 2 5 3 6 after `copy_from_host` and
   1 5 4 3 2 6 after `bind_input`.
2. `retry_build`: a build that fails at an allocation has already written view
   strides into the graph; a retry that does not fuse the same `Transpose`
   computes a wrong product. Reproduced.
3. `ranks`: the CPU `MatMul` lines the batch axes of operands of different rank
   up from the left, the signature and the other backends from the right.
4. `digits`: SmolLM2's tokenizer drops the first digit of every number.

Met while modelling, and excluded from the runs:

5. Two concurrent `set_thread_budget` calls both start workers (`task_system.cpp:86`).
6. `QuantizedMatMul` with Int4 and `block_size` 0 is one scale per channel by
   `ops.h:133` and blocks of 32 in the kernels; the CUDA kernel for one row takes the
   first scale of an Int8 column whatever the block size
   (`cuda/ops/quantized_matmul.cu:67`); an Int4 block of odd length shares a
   byte with its neighbour, which overwrites it (`quant.cpp:172`).
7. CUDA `Transpose` of more than eight axes returns without writing
   (`transpose.cu:54`), `Slice` throws (`slice.cu:61`), and `FusedAttention` leaves
   features beyond 256 out (`fused_attention.cu:20`).
8. Whether a transposition may stay a view for CUDA is decided by its last two
   axes (`graph_compiler.cpp:133`), though batch axes may have moved as well:
   a permutation 1, 0, 3, 2 passes, and the product takes the batches of the view a matrix
   apart (`cuda/ops/matmul.cu:112`), in the order they had before.
9. A CUDA kernel that cannot be launched makes `execute` throw past the wait at
   its end, with earlier kernels in flight (`executable.cpp:77`).
10. The text preview of a tensor adds the offset of an arena tensor twice
    (`tensor.cpp:199`), and merges in the array form of a `tokenizer.json` are
    skipped (`tokenizer.cpp:122`).

## 7. Not modelled

* The numbers: kernels compute in floating point. Terms stand for them, which
  says nothing of rounding, of overflow to infinity or of NaN; data type
  conversions and sampling are nothing else.
* `threadIndex` and `threadCount` of tasks, buffers of `ISPCAlloc`, destruction
  of the static pool at exit, and widths of `int` in the spans of ISPC kernels.
* Overflow of `size_t` in the planner's sums: such storage cannot be allocated.
* Permutations other than the exchange of the last two axes in `Executable`
  (`CopyKernels` has them all).
* One storage given to `input` twice, where the compiler's maps see one tensor
  (observed: the two handles end in different buffers), and storage whose shape
  the caller edits between `op` and `build`, which `validate` rejects.
* Errors of the CUDA device, moves of contexts, allocation.
* `forward_step` at a position other than the length of the session, and a tokenizer
  without a bos (`llama_engine.cpp:598`). A token that spells a code point beyond
  10FFFF, for which `decode` reads past its table (`tokenizer.cpp:487`).
* JSON text, of safetensors headers, tokenizers and configurations: modules begin
  at what it parses to. Reading weights into an engine by name and shape,
  a second `load` of an engine, the model finder, the console, examples and
  benchmarks: wiring, printing and the file system.
* Decoding in TinyLlama, which is a library's.

## 8. Plan

1. Task runtime with refinement and proofs, arena planner with proofs, graph,
   compiler and executable, LLaMA engine with refinement, kernels, formats,
   streams: done as listed in section 2.
2. Proofs: done as listed in section 4.
3. Left: that the products and the attention agree with their meanings for every
   shape (section 5), and an abstract dataflow specification (a graph is a set of
   equations) that `Executable` implements for graphs without transpositions.
