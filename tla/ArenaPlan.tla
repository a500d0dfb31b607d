----------------------------- MODULE ArenaPlan -----------------------------
(***************************************************************************)
(* The arithmetic of the arena packing in src/internal/graph_compiler.cpp. *)
(* A group is a set of tensors that share their bytes; it is alive during  *)
(* the closed interval of steps [birth, death] and needs size bytes.  A    *)
(* planned group has, in addition, an offset in the arena and its size     *)
(* rounded up to ARENA_ALIGNMENT.  The operators are the parts of one turn *)
(* of the packing loop; ArenaPlanner runs that loop one group per step and *)
(* GraphCompiler runs it as a whole inside a build.                        *)
(***************************************************************************)
EXTENDS Naturals, FiniteSetsExt

CONSTANT ARENA_ALIGNMENT

ASSUME AlignmentAssumption == ARENA_ALIGNMENT \in Nat \ {0}

\* Faulty: the low bits are masked without adding first.
AlignDown(size) == size - (size % ARENA_ALIGNMENT)

\* Rounding to a multiple of the alignment; the code masks the low bits, which
\* is the same for the powers of two it is called with.
AlignUp(size) ==
    LET top == size + (ARENA_ALIGNMENT - 1) IN top - (top % ARENA_ALIGNMENT)

End(p) == p.offset + p.aligned_size

\* The order of the packing: large first, then long-lived, then early born.
Before(a, b) ==
    \/ a.size > b.size
    \/ a.size = b.size /\ a.death - a.birth > b.death - b.birth
    \/ a.size = b.size /\ a.death - a.birth = b.death - b.birth /\ a.birth < b.birth
    \/ /\ a.size = b.size /\ a.death - a.birth = b.death - b.birth
       /\ a.birth = b.birth /\ a.root < b.root

\* Faulty: the step that ends one interval may begin the other.
CoexistHalfOpen(a, b) == a.birth < b.death /\ b.birth < a.death

\* Both are alive at some step: a step that reads one may write the other.
Coexist(a, b) == a.birth <= b.death /\ b.birth <= a.death

Overlapping(planned, g) == {p \in planned : Coexist(p, g)}

Candidates(planned, g) == {0} \cup {End(p) : p \in Overlapping(planned, g)}

\* Faulty: neighbours that only touch count as colliding.
CollidesTouching(offset, aligned_size, p) ==
    offset <= End(p) /\ p.offset <= offset + aligned_size

\* The bytes [offset, offset + aligned_size) meet those of p.
Collides(offset, aligned_size, p) ==
    offset < End(p) /\ p.offset < offset + aligned_size

FreeOffsets(planned, g) ==
    {c \in Candidates(planned, g) :
        \A p \in Overlapping(planned, g) : ~ Collides(c, AlignUp(g.size), p)}

\* The lowest free candidate; the code's variable starts at 0 and keeps that
\* value when every candidate collides.
ChosenOffset(planned, g) ==
    IF FreeOffsets(planned, g) = {} THEN 0 ELSE Min(FreeOffsets(planned, g))

Planned(planned, g) ==
    [root |-> g.root, birth |-> g.birth, death |-> g.death, size |-> g.size,
     offset |-> ChosenOffset(planned, g), aligned_size |-> AlignUp(g.size)]

Place(planned, g) == planned \cup {Planned(planned, g)}

\* Faulty: the size of the topmost group is left out.
HighestOffset(planned) == Max({0} \cup {p.offset : p \in planned})

TotalSize(planned) == Max({0} \cup {End(p) : p \in planned})
=============================================================================
