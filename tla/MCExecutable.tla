---------------------------- MODULE MCExecutable ----------------------------
(* Small graphs for TLC.  Sizes are in bytes of the modelled memory.       *)
EXTENDS Executable

OneSize == {1}
EmptyOrTwo == {0, 2}
Matrices == {2}
MatricesAndBatches == {2, 3}
AllDevices == {"CPU", "ISPC", "CUDA"}
OnlyCPU == {"CPU"}
StructureOps == {"Map", "MatMul", "Reshape"}
Products == {"MatMul", "Transpose"}

HasOp(op) == \E n \in Nodes : nodes[n].op = op

\* Two families of histories: graphs of four tensors without products that are
\* built after failures, written, bound and executed twice; and graphs of five
\* tensors of two bytes, unpopulated, with products, built and executed once,
\* whose arena is large enough for bytes to be taken over from the dead.
Focus ==
    \/ Len(tensors) <= 4 /\ ~ HasOp("MatMul")
    \/ /\ ~ HasOp("Reshape")
       /\ \A i \in Tensors : tensors[i].size = 2
       /\ built \/ Populated = {}
       /\ failures = 0 /\ writes = 0 /\ runs <= 1
=============================================================================
