------------------------------- MODULE Kernels -------------------------------
(***************************************************************************)
(* A call of an operator on a backend: it is accepted or refused, a kernel *)
(* is looked up by device and types (resolve_op_kernel and the             *)
(* registrations below cpu/ops, ispc/ops and cuda/ops), the kernel runs    *)
(* and the caller has what was written.  "AVX2" is the CPU device on a     *)
(* processor with AVX2 and FMA, "CPU" on one without.                      *)
(***************************************************************************)
EXTENDS CopyKernels, RowKernels, QuantizedProducts, AttentionKernels

CONSTANT Calls \* the calls that are made, and where: [op, in, attrs, data, on]

VARIABLES call,  \* the call that was made, with its backend and its result's metadata
          writes \* what its kernel has stored

Backends == {"CPU", "AVX2", "ISPC", "CUDA"}
Device(backend) == IF backend = "AVX2" THEN "CPU" ELSE backend

Numeric == {"f32", "i32", "i8", "bool"}
Elementwise == Unary \cup Binary

\* Operands have sizes and strides, the attributes of an operator are numbers, and so are the
\* tokens that are looked up.
IsTyped(c) ==
    /\ c.on \subseteq Backends
    /\ c.in \in Seq([shape : Seq(Nat), strides : Seq(Nat), dtype : Numeric \cup Halves])
    /\ LET a == Given(c.op, c.attrs)
       IN  /\ a.kind \in {"Softmax", "Concat", "RepeatKV"} => a.axis \in Int
           /\ a.kind = "RepeatKV" => a.repeats \in Int
           /\ a.kind = "Reshape" => a.shape \in Seq(Nat)
           /\ a.kind = "Transpose" => a.perm \in Seq(Int)
           /\ a.kind = "Slice" => {a.begins, a.ends, a.strides} \subseteq Seq(Int)
    /\ c.op = "Embedding" => \A j \in 0 .. Numel(c.in[2].shape) - 1 : c.data[j] \in Int

ASSUME CallsAssumption == \A c \in Calls : IsTyped(c)

\* Entries of the kernel table: the operands' types and the result's.
Same(n, types) == {<<[k \in 1..n |-> t], t>> : t \in types}
Halved(n) == {<<[k \in 1..n |-> h], "f32">> : h \in Halves}
LowerWeights == {<<<<"f32", h>>, "f32">> : h \in Halves}
LowerInputs == {<<<<h, "f32">>, "f32">> : h \in Halves}
QuantizedKeys == {<<<<t, "i8", t>>, t>> : t \in Floats} \cup {<<<<h, "i8", "f32">>, h>> : h \in Halves}

CpuRegistered(op) ==
    CASE op = "Rsqrt" -> Same(1, {"f32"})
      [] op \in Elementwise \ {"Rsqrt"} -> Same(InputCount(op), Numeric)
      [] op \in {"Softmax", "Reshape", "Transpose", "Slice", "RepeatKV", "Concat"} ->
           Same(InputCount(op), Numeric \cup Halves)
      [] op = "MatMul" -> Same(2, Numeric \cup Halves) \cup Halved(2) \cup LowerWeights
      [] op = "RMSNorm" -> Same(2, Floats) \cup LowerWeights
      [] op = "Embedding" -> {<<<<"f32", "i32">>, "f32">>}
      [] op = "RotaryEmbedding" -> Same(3, {"f32"})
      [] op = "FusedAttention" -> Same(3, Floats)
      [] op = "QuantizedMatMul" -> QuantizedKeys

IspcRegistered(op) ==
    CASE op \in {"Reshape", "Slice", "RepeatKV", "Concat"} -> Same(InputCount(op), Numeric)
      [] op = "Embedding" -> {<<<<"f32", "i32">>, "f32">>}
      [] op \in {"FusedAttention", "QuantizedMatMul"} -> {}
      [] OTHER -> Same(InputCount(op), {"f32"})

CudaRegistered(op) ==
    CASE op = "Add" -> Same(2, Numeric)
      [] op \in Elementwise \ {"Add"} -> Same(InputCount(op), {"f32"})
      [] op \in {"Softmax", "Transpose", "RepeatKV"} -> Same(1, Floats)
      [] op \in {"Reshape", "Slice", "Concat"} -> Same(InputCount(op), Floats \cup {"i32"})
      [] op = "MatMul" -> Same(2, Floats) \cup Halved(2) \cup LowerWeights \cup LowerInputs
      [] op = "RMSNorm" -> Same(2, Floats) \cup LowerWeights
      [] op = "Embedding" -> {<<<<"f32", "i32">>, "f32">>}
      [] op = "RotaryEmbedding" -> Same(3, {"f32"})
      [] op = "FusedAttention" -> Same(3, Floats)
      [] op = "QuantizedMatMul" -> QuantizedKeys

\* resolve_op_kernel returns a kernel.
HasKernel(device, op, in, y) ==
    <<[k \in DOMAIN in |-> in[k].dtype], y.dtype>> \in
        CASE device = "CPU" -> CpuRegistered(op)
          [] device = "ISPC" -> IspcRegistered(op)
          [] device = "CUDA" -> CudaRegistered(op)

\* An operand that is not row-major is a transposition that the compiler has made a view of
\* (_can_fuse_transpose_as_view).
ReadableAsView(device, op, in, k) ==
    /\ op = "MatMul" /\ device \in {"CPU", "CUDA"}
    /\ device = "CUDA" =>
         LET x == in[k]  r == Rank(x)
         IN  k = 2 /\ r >= 3 /\ x.strides[r - 1] = 1 /\ x.strides[r] = Dim(x, r - 1)

Readable(device, op, in) ==
    \A k \in DOMAIN in : in[k].strides = DefaultStrides(in[k].shape) \/ ReadableAsView(device, op, in, k)
-----------------------------------------------------------------------------
CpuKernel(op, in, y, a, data, avx2) ==
    CASE op \in Elementwise -> CpuElementwise(op, y)
      [] op = "Softmax" -> CpuSoftmax(in, y, a)
      [] op = "Reshape" -> CpuReshape(in, y, a)
      [] op = "Transpose" -> CpuTranspose(in, y, a)
      [] op = "Slice" -> CpuSlice(in, y, a)
      [] op = "Concat" -> CpuConcat(in, y, a)
      [] op = "RepeatKV" -> CpuRepeatKV(in, y, a)
      [] op = "Embedding" -> CpuEmbedding(in, y, data)
      [] op = "RMSNorm" -> CpuRMSNorm(in, y)
      [] op = "RotaryEmbedding" -> CpuRotary(in, y)
      [] op = "MatMul" -> CpuMatMul(in, y, avx2)
      [] op = "QuantizedMatMul" -> CpuQuantizedMatMul(in, y, a, avx2)
      [] op = "FusedAttention" -> CpuFusedAttention(in, y, a, data)

IspcKernel(op, in, y, a, data) ==
    CASE op \in Elementwise -> IspcElementwise(op, y)
      [] op = "Softmax" -> IspcSoftmax(in, y, a)
      [] op = "Reshape" -> IspcReshape(in, y, a)
      [] op = "Transpose" -> IspcTranspose(in, y, a)
      [] op = "Slice" -> IspcSlice(in, y, a)
      [] op = "Concat" -> IspcConcat(in, y, a)
      [] op = "RepeatKV" -> IspcRepeatKV(in, y, a)
      [] op = "Embedding" -> IspcEmbedding(in, y, data)
      [] op = "RMSNorm" -> IspcRMSNorm(in, y)
      [] op = "RotaryEmbedding" -> IspcRotary(in, y)
      [] op = "MatMul" -> IspcMatMul(in, y)

CudaKernel(op, in, y, a, data) ==
    CASE op \in Elementwise -> CudaElementwise(op, y)
      [] op = "Softmax" -> CudaSoftmax(in, y, a)
      [] op = "Reshape" -> CudaReshape(in, y, a)
      [] op = "Transpose" -> CudaTranspose(in, y, a)
      [] op = "Slice" -> CudaSlice(in, y, a)
      [] op = "Concat" -> CudaConcat(in, y, a)
      [] op = "RepeatKV" -> CudaRepeatKV(in, y, a)
      [] op = "Embedding" -> CudaEmbedding(in, y, data)
      [] op = "RMSNorm" -> CudaRMSNorm(in, y)
      [] op = "RotaryEmbedding" -> CudaRotary(in, y)
      [] op = "MatMul" -> CudaMatMul(in, y)
      [] op = "QuantizedMatMul" -> CudaQuantizedMatMul(in, y, a)
      [] op = "FusedAttention" -> CudaFusedAttention(in, y, a, data)

Kernel(backend, op, in, y, a, data) ==
    CASE backend = "CPU" -> CpuKernel(op, in, y, a, data, FALSE)
      [] backend = "AVX2" -> CpuKernel(op, in, y, a, data, TRUE)
      [] backend = "ISPC" -> IspcKernel(op, in, y, a, data)
      [] backend = "CUDA" -> CudaKernel(op, in, y, a, data)
-----------------------------------------------------------------------------
NoCall == [op |-> "NoOp"]

KernelsInit == call = NoCall /\ writes = {}

\* An operator is called on a backend.
Invoke(c, backend) ==
    LET y == Signature(c.op, c.in, c.attrs)
    IN  /\ call = NoCall
        /\ Accepts(c.op, c.in, c.attrs)
        /\ HasKernel(Device(backend), c.op, c.in, y)
        /\ Readable(Device(backend), c.op, c.in)
        /\ call' = [op |-> c.op, in |-> c.in, attrs |-> Given(c.op, c.attrs), data |-> c.data,
                    out |-> y, backend |-> backend]
        /\ writes' = Kernel(backend, c.op, c.in, y, Given(c.op, c.attrs), c.data)

\* The result is used and another operator is called.
Consume == call # NoCall /\ call' = NoCall /\ writes' = {}

KernelsNext == (\E c \in Calls : \E backend \in c.on : Invoke(c, backend)) \/ Consume

KernelsSpec == KernelsInit /\ [][KernelsNext]_<<call, writes>>
=============================================================================
