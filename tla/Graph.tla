------------------------------- MODULE Graph -------------------------------
(***************************************************************************)
(* src/graph.cpp: a dataflow graph under construction.  Building a graph   *)
(* only appends tensors and nodes and chooses outputs; the operators below *)
(* are what a build asks of the finished graph: the nodes that the outputs *)
(* need and an order to run them in.                                       *)
(*                                                                         *)
(* A tensor is named by its index and described by its TensorStorage: the  *)
(* number of axes, the size in bytes, the strides ("row": row-major,       *)
(* "swapped": the last two axes exchanged), the address of its first byte, *)
(* the offset_bytes it was given in a larger buffer and its device.  mem   *)
(* is the memory those addresses are in; a byte holds the value it is a    *)
(* part of and its position in it.                                         *)
(***************************************************************************)
EXTENDS Naturals, Sequences, FiniteSets, SequencesExt

CONSTANTS Sizes,      \* sizes a tensor may have
          Ranks,      \* numbers of axes a tensor may have
          Ops,        \* operators in use, out of those below
          Devices,    \* devices in use
          MaxTensors, \* bound on the tensors of a graph
          MaxOutputs  \* bound on the tensors chosen as outputs

\* "Map" stands for the operators whose kernels read their operand row by row,
\* "Transpose" exchanges the last two axes.
AllOps == {"Map", "MatMul", "Reshape", "Transpose"}

ASSUME GraphAssumption ==
    /\ Sizes \subseteq Nat /\ Ranks \subseteq Nat /\ Ops \subseteq AllOps
    /\ Devices \subseteq {"CPU", "ISPC", "CUDA"}
    /\ MaxTensors \in Nat /\ MaxOutputs \in Nat

VARIABLES tensors,      \* _tensors
          nodes,        \* _nodes
          hasExplicit,  \* _has_explicit_outputs
          explicit,     \* _explicit_outputs
          built,        \* _built
          mem           \* memory: a sequence of cells, addressed from 1

graphVars == <<tensors, nodes, hasExplicit, explicit, built, mem>>

NULL == 0
Tensors == DOMAIN tensors
Nodes == DOMAIN nodes

\* A value: the tensor it was first computed for, the number of times the last
\* two axes were exchanged since, and when it was computed or written.
Value(i, gen) == [of |-> i, swaps |-> 0, gen |-> gen]
Swap(v) == [v EXCEPT !.swaps = @ + 1]
Cell(v, k) == [value |-> v, pos |-> k]
Cells(v, size) == [k \in 1..size |-> Cell(v, k)]
Junk == Value(0, 0)

Storage(rank, size, data, device) ==
    [rank |-> rank, size |-> size, strides |-> "row", data |-> data, offset |-> 0,
     device |-> device]

GraphInit ==
    /\ tensors = <<>>
    /\ nodes = <<>>
    /\ hasExplicit = FALSE
    /\ explicit = {}
    /\ built = FALSE
    /\ mem = <<>>

\* input(shape, dtype): a placeholder without memory.
Input(rank, size) ==
    /\ tensors' = Append(tensors, Storage(rank, size, NULL, "CPU"))
    /\ UNCHANGED <<nodes, hasExplicit, explicit, built, mem>>

\* input(storage): memory that is filled already, for instance with weights.
InputStorage(rank, size, dev) ==
    /\ size > 0
    /\ tensors' = Append(tensors, Storage(rank, size, Len(mem) + 1, dev))
    /\ mem' = mem \o Cells(Value(Len(tensors) + 1, 0), size)
    /\ UNCHANGED <<nodes, hasExplicit, explicit, built>>

\* op_signature: the operands and the result that op accepts.
Signature(op, ins, rank, size) ==
    /\ Len(ins) = (IF op = "MatMul" THEN 2 ELSE 1)
    /\ op # "Reshape" => rank = Max({tensors[ins[k]].rank : k \in DOMAIN ins})
    /\ op \in {"Reshape", "Transpose"} => tensors[ins[1]].size = size

\* op(desc, inputs...): a node and the tensor it computes.
AddOp(op, ins, rank, size) ==
    /\ Signature(op, ins, rank, size)
    /\ tensors' = Append(tensors, Storage(rank, size, NULL, "CPU"))
    /\ nodes' = Append(nodes, [op |-> op, ins |-> ins, out |-> Len(tensors) + 1])
    /\ UNCHANGED <<hasExplicit, explicit, built, mem>>

MarkOutput(i) ==
    /\ hasExplicit' = TRUE
    /\ explicit' = explicit \cup {i}
    /\ UNCHANGED <<tensors, nodes, built, mem>>

SetOutputs(is) ==
    /\ explicit' = is
    /\ hasExplicit' = (is # {})
    /\ UNCHANGED <<tensors, nodes, built, mem>>

\* A foreign handle behind valid ones: the old outputs are gone when it throws.
SetOutputsThrows(is) ==
    /\ explicit' = is
    /\ hasExplicit' = TRUE
    /\ UNCHANGED <<tensors, nodes, built, mem>>

\* Every one of these calls throws once the graph is built.
Construct ==
    /\ ~ built
    /\ \/ /\ Len(tensors) < MaxTensors
          /\ \E rank \in Ranks, size \in Sizes :
                \/ Input(rank, size)
                \/ \E dev \in Devices : InputStorage(rank, size, dev)
                \/ \E op \in Ops, ins \in BoundedSeq(Tensors, 2) : AddOp(op, ins, rank, size)
       \/ \E i \in Tensors : Cardinality(explicit \cup {i}) <= MaxOutputs /\ MarkOutput(i)
       \/ \E is \in SUBSET Tensors :
             Cardinality(is) <= MaxOutputs /\ (SetOutputs(is) \/ SetOutputsThrows(is))
-----------------------------------------------------------------------------
IsInput(i) == \A n \in Nodes : nodes[n].out # i

Uses(n, i) == \E k \in DOMAIN nodes[n].ins : nodes[n].ins[k] = i

\* Faulty: only the producers of the outputs themselves are required.
RequiredDirect ==
    IF hasExplicit THEN {n \in Nodes : nodes[n].out \in explicit} ELSE Nodes

\* The nodes the explicit outputs depend on; a node feeds only later ones.
Required ==
    LET needed[n \in Nodes] ==
            \/ nodes[n].out \in explicit
            \/ \E m \in n+1 .. Len(nodes) : Uses(m, nodes[n].out) /\ needed[m]
    IN  IF hasExplicit THEN {n \in Nodes : needed[n]} ELSE Nodes

\* A node can run when all its producers have.
Ready(producers, done) == producers \subseteq done

\* The nodes of S, in the order they were added.
Ascending(S) == MapThenFoldSet(LAMBDA n, s : Append(s, n), <<>>, LAMBDA n : n, Max, S)

\* Kahn's algorithm with a queue: after k pops, the queue and the order.
TopologicalOrder ==
    LET required == Required
        producers == [n \in required |-> {m \in required : Uses(n, nodes[m].out)}]
        Pop(s) ==
            LET done == Range(s.order)
                u == Head(s.queue)
                freed == {v \in required : /\ u \in producers[v]
                                           /\ Ready(producers[v], done \cup {u})
                                           /\ ~ Ready(producers[v], done)}
            IN  [queue |-> Tail(s.queue) \o Ascending(freed), order |-> Append(s.order, u)]
        after[k \in 0 .. Len(nodes)] ==
            IF k = 0
            THEN [queue |-> Ascending({n \in required : Ready(producers[n], {})}), order |-> <<>>]
            ELSE LET s == after[k - 1] IN IF s.queue = <<>> THEN s ELSE Pop(s)
    IN  after[Len(nodes)].order
=============================================================================
