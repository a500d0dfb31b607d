----------------------------- MODULE Executable -----------------------------
(***************************************************************************)
(* src/executable.cpp: running a compiled graph.  The caller fills or binds *)
(* the inputs, execute runs one kernel after the other on the memory that  *)
(* the build laid out, and the caller reads the outputs.  Kernels are      *)
(* modelled by which bytes they read and write and by whether they follow  *)
(* strides; value records, beside the memory, what each tensor should hold.*)
(***************************************************************************)
EXTENDS GraphCompiler

CONSTANTS MaxRuns,   \* bound on executions
          MaxWrites, \* bound on inputs filled after the build
          MaxBinds   \* bound on buffers bound to inputs

ASSUME ExecutableAssumption == MaxRuns \in Nat /\ MaxWrites \in Nat /\ MaxBinds \in Nat

VARIABLES step,    \* position in topo of the kernel to run, 0 outside execute
          runs,    \* executions begun
          writes,  \* writes to inputs: copies from the host and bindings
          binds,   \* how many of the writes were bindings
          value,   \* the value each tensor should hold
          returned \* execute has returned, and no input was written since

executionVars == <<step, runs, writes, binds, value, returned>>
vars == <<graphVars, compilerVars, executionVars>>

Init ==
    /\ GraphInit
    /\ CompilerInit
    /\ step = 0 /\ runs = 0 /\ writes = 0 /\ binds = 0
    /\ value = <<>>
    /\ returned = FALSE
-----------------------------------------------------------------------------
(* What kernels see.                                                       *)

Byte(m, a) == IF a \in DOMAIN m THEN m[a] ELSE Cell(Junk, 0)
Bytes(m, i) == [k \in 1..tensors[i].size |-> Byte(m, tensors[i].data + k - 1)]

\* The j-th operand of op is read along its strides.
FollowsStrides(op, j) ==
    \/ device \in {"CPU", "CUDA"} /\ op = "Transpose"
    \/ device = "CPU" /\ op = "MatMul"
    \/ device = "CUDA" /\ op = "MatMul" /\ j = 2

\* The value read from tensor i in memory m; an empty tensor cannot be misread.
Seen(m, i, strided) ==
    LET v == Byte(m, tensors[i].data).value
    IN  IF tensors[i].size = 0 THEN value[i]
        ELSE IF Bytes(m, i) # Cells(v, tensors[i].size) THEN Junk
        ELSE IF strided /\ tensors[i].strides = "swapped" THEN Swap(v) ELSE v

\* The memory after the bytes have been written to tensor i.
Store(i, bytes) ==
    [a \in DOMAIN mem |->
        IF tensors[i].data # NULL /\ a - tensors[i].data \in 0 .. Len(bytes) - 1
        THEN bytes[a - tensors[i].data + 1] ELSE mem[a]]

\* Faulty: a Reshape takes its operand's bytes for its own.
ReshapeNeverCopies(n) ==
    \/ nodes[n].op = "Reshape"
    \/ nodes[n].op = "Transpose" /\ tensors[nodes[n].ins[1]].data = tensors[nodes[n].out].data

\* A view that already lies on its operand's bytes: the kernel returns at once.
SharesBytes(n) ==
    /\ nodes[n].op \in {"Reshape", "Transpose"}
    /\ tensors[nodes[n].ins[1]].data = tensors[nodes[n].out].data

\* A kernel writes while it still reads: what its output covers is lost to it.
WhileRunning(n) ==
    IF SharesBytes(n) THEN mem ELSE Store(nodes[n].out, Cells(Junk, tensors[nodes[n].out].size))

Operand(n, j) == Seen(WhileRunning(n), nodes[n].ins[j], FollowsStrides(nodes[n].op, j))

SeesOperands(n) == \A j \in DOMAIN nodes[n].ins : Operand(n, j) = value[nodes[n].ins[j]]

\* What node n should compute, and what its kernel leaves in the memory.
ShouldCompute(n) ==
    LET in == value[nodes[n].ins[1]]
    IN  CASE nodes[n].op = "Reshape" -> in
          [] nodes[n].op = "Transpose" -> Swap(in)
          [] OTHER -> Value(nodes[n].out, runs)

Kernel(n) ==
    LET result == CASE nodes[n].op = "Reshape" -> Bytes(WhileRunning(n), nodes[n].ins[1])
                    [] nodes[n].op = "Transpose" ->
                         Cells(Swap(Operand(n, 1)), tensors[nodes[n].out].size)
                    [] OTHER -> Cells(IF SeesOperands(n) THEN ShouldCompute(n) ELSE Junk,
                                      tensors[nodes[n].out].size)
    IN  IF SharesBytes(n) THEN mem ELSE Store(nodes[n].out, result)
-----------------------------------------------------------------------------
(* The calls of the owner.                                                 *)

BuildGraph ==
    \/ /\ \E dev \in Devices : Build(dev)
       /\ value' = [i \in Tensors |-> Value(i, 0)]
       /\ UNCHANGED <<step, runs, writes, binds, returned>>
    \/ (\E dev \in Devices : BuildFails(dev)) /\ UNCHANGED executionVars

\* Tensor::copy_from_host on an input that has memory, of the whole tensor.
CopyFromHost(i) ==
    /\ built /\ step = 0
    /\ writes < MaxWrites
    /\ tensors[i].data # NULL
    /\ mem' = Store(i, Cells(Value(i, writes + 1), tensors[i].size))
    /\ value' = [value EXCEPT ![i] = Value(i, writes + 1)]
    /\ writes' = writes + 1
    /\ returned' = FALSE
    /\ UNCHANGED <<tensors, nodes, hasExplicit, explicit, built, compilerVars, step, runs, binds>>

\* Executable::bind_input: the caller's buffer takes the place of the input's.
BindInput(i) ==
    /\ built /\ step = 0
    /\ binds < MaxBinds
    /\ tensors[i].size > 0
    /\ tensors[i].device = device
    /\ tensors' = [tensors EXCEPT ![i].data = Len(mem) + 1]
    /\ mem' = mem \o Cells(Value(i, writes + 1), tensors[i].size)
    /\ value' = [value EXCEPT ![i] = Value(i, writes + 1)]
    /\ writes' = writes + 1
    /\ binds' = binds + 1
    /\ returned' = FALSE
    /\ UNCHANGED <<nodes, hasExplicit, explicit, built, compilerVars, step, runs>>

\* execute refuses to start when an operand has no memory.
Runnable(n) ==
    \A i \in Range(nodes[n].ins) \cup {nodes[n].out} :
        tensors[i].size > 0 => tensors[i].data # NULL

Execute ==
    /\ built /\ step = 0
    /\ runs < MaxRuns
    /\ \A n \in Range(topo) : Runnable(n)
    /\ step' = 1
    /\ runs' = runs + 1
    /\ returned' = FALSE
    /\ UNCHANGED <<graphVars, compilerVars, writes, binds, value>>

RunKernel ==
    /\ step \in DOMAIN topo
    /\ mem' = Kernel(topo[step])
    /\ value' = [value EXCEPT ![nodes[topo[step]].out] = ShouldCompute(topo[step])]
    /\ step' = step + 1
    /\ UNCHANGED <<tensors, nodes, hasExplicit, explicit, built, compilerVars, runs, writes, binds, returned>>

ExecuteReturns ==
    /\ step = Len(topo) + 1
    /\ step' = 0
    /\ returned' = TRUE
    /\ UNCHANGED <<graphVars, compilerVars, runs, writes, binds, value>>

\* An index that is out of the vocabulary: execute gives up between two kernels.
ExecuteThrows ==
    /\ step \in DOMAIN topo
    /\ nodes[topo[step]].op = "Map"
    /\ step' = 0
    /\ UNCHANGED <<graphVars, compilerVars, runs, writes, binds, value, returned>>

Next ==
    \/ Construct /\ UNCHANGED <<compilerVars, executionVars>>
    \/ BuildGraph
    \/ \E i \in Tensors : IsInput(i) /\ (CopyFromHost(i) \/ BindInput(i))
    \/ Execute
    \/ RunKernel
    \/ ExecuteReturns
    \/ ExecuteThrows

Spec == Init /\ [][Next]_vars
-----------------------------------------------------------------------------
TypeOK ==
    /\ tensors \in Seq([rank : Ranks, size : Sizes, strides : {"row", "swapped"}, data : 0..Len(mem), offset : Nat,
                      device : Devices \cup {"CPU"}])
    /\ \A n \in Nodes :
         /\ nodes[n].op \in Ops
         /\ nodes[n].ins \in Seq(1 .. nodes[n].out - 1)
         /\ nodes[n].out \in Tensors
    /\ hasExplicit \in BOOLEAN /\ built \in BOOLEAN /\ returned \in BOOLEAN
    /\ explicit \subseteq Tensors
    /\ topo \in Seq(Nodes)
    /\ step \in 0 .. Len(topo) + 1

(* Every kernel finds in each of its operands the value that operand's     *)
(* producer computed in this execution, or that the caller last put there: *)
(* no sharing, packing or view lets another tensor's bytes get in between, *)
(* and no kernel that ignores strides is given a strided view.             *)
KernelsSeeTheirOperands == step \in DOMAIN topo => SeesOperands(topo[step])

\* outputs(): the chosen tensors, or else what no node consumes.
Outputs ==
    IF hasExplicit THEN explicit
    ELSE {i \in Tensors : ~ IsInput(i) /\ \A n \in Nodes : ~ Uses(n, i)}

(* When execute returns, what copy_to_host reads of an output, byte after  *)
(* byte and without regard to strides, is the value of that output.        *)
OutputsReadable == returned => \A o \in Outputs : Seen(mem, o, FALSE) = value[o]

(* Execution never changes an input: weights shared by several graphs and  *)
(* inputs filled once survive any number of executions.                    *)
InputsKept ==
    built => \A i \in Tensors : IsInput(i) /\ tensors[i].data # NULL => Seen(mem, i, FALSE) = value[i]

(* The compiled order is a schedule: a kernel runs once, after all its     *)
(* producers, and none that an output depends on was eliminated.           *)
ScheduleIsComplete ==
    built =>
        /\ \A j, k \in DOMAIN topo : j # k => topo[j] # topo[k]
        /\ \A k \in DOMAIN topo : \A i \in Range(nodes[topo[k]].ins) :
             IsInput(i) \/ \E j \in 1 .. k - 1 : nodes[topo[j]].out = i
        /\ \A o \in Outputs : IsInput(o) \/ \E k \in DOMAIN topo : nodes[topo[k]].out = o

(* A build gives memory to every operand it compiled, inside what it       *)
(* allocated, so that execute never refuses to start.                      *)
OperandsAllocated ==
    built => \A n \in Range(topo) :
        /\ Runnable(n)
        /\ \A i \in Range(nodes[n].ins) \cup {nodes[n].out} :
             tensors[i].size > 0 => tensors[i].data + tensors[i].size - 1 \in DOMAIN mem
=============================================================================
