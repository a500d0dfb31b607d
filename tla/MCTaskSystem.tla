---------------------------- MODULE MCTaskSystem ----------------------------
(* Small instances of TaskSystem for TLC.                                   *)
EXTENDS TaskSystemInv, TLC

(* Workers, groups and launches are interchangeable, and so are callers     *)
(* that have the same rights: sound for invariants, not used with liveness. *)
Symmetry == Permutations(Workers) \cup Permutations(Groups) \cup Permutations(Launches)
SymmetryCallers == Symmetry \cup Permutations(Callers)
=============================================================================
