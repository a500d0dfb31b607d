------------------------------ MODULE Tensors ------------------------------
(***************************************************************************)
(* Shapes, strides and the ways the backends divide an index range among   *)
(* tasks and threads.  A tensor is a record of its shape, its strides and  *)
(* its type; element i of its buffer has no value of its own but is named, *)
(* so that what a kernel stores is a term over the elements it has read.   *)
(***************************************************************************)
EXTENDS Integers, Sequences, FiniteSets, SequencesExt

CONSTANTS THREADS, \* threads of a CUDA block: 256
          WARP,    \* threads of a warp: 32
          WARPS    \* warps of a block of cooperating warps: 8 or 4

ASSUME ThreadsAssumption ==
    /\ WARPS \in Nat \ {0}
    /\ \A width \in {THREADS, WARP} : \E n \in 0..10 : width = 2^n

\* The product and the sum of a sequence of integers.
Product(s) == FoldLeft(LAMBDA x, y : x * y, 1, s)
Total(s) == FoldLeft(LAMBDA x, y : x + y, 0, s)

Least(x, y) == IF x < y THEN x ELSE y
Greatest(x, y) == IF x > y THEN x ELSE y
CeilDiv(x, y) == (x + y - 1) \div y

\* storage_numel
Numel(shape) == Product(shape)

\* default_strides: row-major.
DefaultStrides(shape) ==
    [d \in DOMAIN shape |-> Product(SubSeq(shape, d + 1, Len(shape)))]

Tensor(shape, dtype) == [shape |-> shape, strides |-> DefaultStrides(shape), dtype |-> dtype]

\* An axis given from the front, or from the back when negative; counted from 1.
Axis(axis, shape) == 1 + (IF axis < 0 THEN axis + Len(shape) ELSE axis)

\* The axes before and behind d, flattened.
Outer(shape, d) == Product(SubSeq(shape, 1, d - 1))
Inner(shape, d) == Product(SubSeq(shape, d + 1, Len(shape)))

\* Where the coordinates c lie under the given strides.
Offset(c, strides) == Total([d \in DOMAIN c |-> c[d] * strides[d]])

\* Element i of the buffer of the k-th operand.
Elem(k, i) == <<k, i>>

\* The terms f(i), i \in I, added up: how often each term is counted.
SumOf(I, f(_)) ==
    LET term == [i \in I |-> f(i)]
    IN  [t \in {term[i] : i \in I} |-> Cardinality({i \in I : term[i] = t})]

\* Sums of such sums.
Add2(s, t) ==
    [x \in DOMAIN s \cup DOMAIN t |->
        (IF x \in DOMAIN s THEN s[x] ELSE 0) + (IF x \in DOMAIN t THEN t[x] ELSE 0)]
Zero == [t \in {} |-> 0]
-----------------------------------------------------------------------------
(* A kernel stores values: which thread wrote which element of the output. *)
Store(at, by, val) == [at |-> at, by |-> by, val |-> val]
Caller == <<>>

\* memcpy(y + to, x + from, n) by the caller.
Memcpy(k, to, from, n) == {Store(to + j, Caller, Elem(k, from + j)) : j \in 0 .. n - 1}

\* Faulty: the span is rounded down, what is left over has no task.
FlooredSpans(n, tasks) ==
    LET span == n \div tasks
    IN  [t \in 0 .. tasks - 1 |-> t * span .. Least(t * span + span, n) - 1]

\* The spans of an ISPC launch: task t has the indices from t * span on.
Spans(n, tasks) ==
    LET span == CeilDiv(n, tasks)
    IN  [t \in 0 .. tasks - 1 |-> t * span .. Least(t * span + span, n) - 1]

\* The same, but up to a threshold the caller does the work itself, as task 0.
LaunchOver(n, serial, tasks) ==
    IF n <= serial THEN [t \in {0} |-> 0 .. n - 1] ELSE Spans(n, tasks)

\* What passes the guard "index < n" in a grid of blocks of the given size.
Guarded(n, size) == {i \in 0 .. CeilDiv(n, size) * size - 1 : i < n}

\* Threads with an element each.
Grid(n) == Guarded(n, THREADS)

\* The distances width / 2, width / 4, ..., 1 at which partial sums are added up.
Halving(width) ==
    LET n == CHOOSE n \in 0..10 : width = 2^n IN [k \in 1..n |-> width \div 2^k]

\* What thread t of width threads works on: every width-th index from t on.
Strided(t, n, width) == {i \in 0 .. n - 1 : i % width = t}
=============================================================================
