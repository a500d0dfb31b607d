---------------------------- MODULE ArenaPlanner ----------------------------
(***************************************************************************)
(* _plan_arena_offsets of src/internal/graph_compiler.cpp: every group of  *)
(* intermediate tensors gets an offset in one arena, so that groups alive  *)
(* at the same time never share a byte while the others may.  One step     *)
(* places one group, in the order of the sort; the last step computes the  *)
(* size the arena is then allocated with.                                  *)
(***************************************************************************)
EXTENDS ArenaPlan

CONSTANTS Roots,     \* the groups, each named by the index of its root tensor
          LastStep,  \* steps of the execution are 0..LastStep
          Sizes      \* sizes in bytes a group may have

ASSUME RootsAssumption == Roots \subseteq Nat
ASSUME StepsAssumption == LastStep \in Nat
ASSUME SizesAssumption == Sizes \subseteq Nat \ {0}

VARIABLES intermediates,  \* the groups left to place
          planned_groups, \* the groups placed so far
          groups,         \* all the groups: what the planner was called with
          total           \* total_size_bytes, 0 until the last step

vars == <<intermediates, planned_groups, groups, total>>

Span == {s \in [birth : 0..LastStep, death : 0..LastStep, size : Sizes] :
            s.birth <= s.death}

GroupInterval == [root : Roots, birth : 0..LastStep, death : 0..LastStep, size : Sizes]

TypeOK ==
    /\ groups \subseteq GroupInterval
    /\ intermediates \subseteq groups
    /\ planned_groups \subseteq [root : Roots, birth : 0..LastStep, death : 0..LastStep,
                                 size : Sizes, offset : Nat, aligned_size : Nat \ {0}]
    /\ total \in Nat

\* Every root has one interval.
Init ==
    /\ \E span \in [Roots -> Span] :
          groups = {[root |-> r, birth |-> span[r].birth, death |-> span[r].death,
                     size |-> span[r].size] : r \in Roots}
    /\ intermediates = groups
    /\ planned_groups = {}
    /\ total = 0

PlaceGroup(g) ==
    /\ \A h \in intermediates \ {g} : Before(g, h)
    /\ planned_groups' = Place(planned_groups, g)
    /\ intermediates' = intermediates \ {g}
    /\ UNCHANGED <<groups, total>>

ComputeTotal ==
    /\ intermediates = {}
    /\ total = 0
    /\ planned_groups # {}
    /\ total' = TotalSize(planned_groups)
    /\ UNCHANGED <<intermediates, planned_groups, groups>>

Next == (\E g \in intermediates : PlaceGroup(g)) \/ ComputeTotal

Spec == Init /\ [][Next]_vars
-----------------------------------------------------------------------------
AliveAt(p, step) == p.birth <= step /\ step <= p.death

(* Two groups that are alive at the same step never share a byte of the    *)
(* arena, whatever was packed into the gaps between them: otherwise a      *)
(* kernel would overwrite an operand that is still to be read.             *)
NoLiveOverlap ==
    \A p, q \in planned_groups, step \in 0..LastStep :
        p.root # q.root /\ AliveAt(p, step) /\ AliveAt(q, step)
            => End(p) <= q.offset \/ End(q) <= p.offset

(* The arena that is allocated holds every group whole, and the bytes of a *)
(* group hold the largest of its members.                                  *)
ArenaHoldsGroups ==
    total > 0 => \A p \in planned_groups : End(p) <= total /\ p.size <= p.aligned_size

(* Packing never costs memory: the arena is at most as large as separate   *)
(* (aligned) buffers would be, and it cannot be smaller than the bytes     *)
(* alive at the busiest step.  The reported bytes_saved rests on this.     *)
ArenaNeverWorse ==
    total > 0 =>
        /\ total <= MapThenSumSet(LAMBDA p : p.aligned_size, planned_groups)
        /\ \A step \in 0..LastStep :
             MapThenSumSet(LAMBDA p : p.size,
                           {p \in planned_groups : AliveAt(p, step)}) <= total
=============================================================================
