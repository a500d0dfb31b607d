-------------------------- MODULE AlgorithmProofs --------------------------
(***************************************************************************)
(* What the pure algorithms compute, for every input: the arena into which *)
(* the compiler packs its tensors, the files that are loaded, and the      *)
(* round trip of a text through the tokenizer.  Those that are folds or    *)
(* recursive functions are turned into a sequence of partial results,      *)
(* whose steps are then followed with the induction lemmas of ProofLemmas. *)
(***************************************************************************)
EXTENDS ArenaPlanner, Tokenizer, Safetensors, ProofLemmas, SequenceTheorems

-----------------------------------------------------------------------------
(* One turn of the packing loop.  Some candidate is always free: the       *)
(* highest end among the groups that coexist with the one being placed, so *)
(* the fall-back offset 0 is never used and no coexisting group collides   *)
(* with the chosen offset.                                                 *)

Apart(p, q) == End(p) <= q.offset \/ End(q) <= p.offset

\* Groups that have been placed: what their offsets must satisfy.
Packing(planned) ==
    /\ \A p \in planned : p.offset \in Nat /\ p.aligned_size \in Nat /\ p.size <= p.aligned_size
    /\ \E b \in Nat : \A p \in planned : End(p) <= b
    /\ \A p, q \in planned : p.root # q.root /\ Coexist(p, q) => Apart(p, q)

\* Rounding up never shrinks.
LEMMA AlignUpBounds ==
    ASSUME NEW size \in Nat
    PROVE  AlignUp(size) \in Nat /\ size <= AlignUp(size)
<1> DEFINE top == size + (ARENA_ALIGNMENT - 1)
<1>1. top \in Nat
  BY AlignmentAssumption
<1>2. top % ARENA_ALIGNMENT \in 0 .. ARENA_ALIGNMENT - 1
  BY <1>1, AlignmentAssumption
<1> QED
  BY <1>1, <1>2, AlignmentAssumption DEF AlignUp

\* Some candidate is free: at worst the highest end of the coexisting groups.
LEMMA ChosenOffsetIsFree ==
    ASSUME NEW planned, Packing(planned), NEW g
    PROVE  /\ ChosenOffset(planned, g) \in Nat
           /\ \A p \in Overlapping(planned, g) :
                ~ Collides(ChosenOffset(planned, g), AlignUp(g.size), p)
<1> DEFINE C == Candidates(planned, g)
           F == FreeOffsets(planned, g)
<1>1. PICK b \in Nat : \A p \in planned : End(p) <= b
  BY DEF Packing
<1>2. \A p \in planned : p.offset \in Nat /\ p.aligned_size \in Nat /\ End(p) \in Nat
  BY DEF Packing, End
<1>3. C \in SUBSET Nat /\ C # {} /\ \A c \in C : c <= b
  BY <1>1, <1>2 DEF Candidates, Overlapping
<1>4. PICK top \in C : \A c \in C : c <= top
  BY <1>3, GreatestNat
<1>5. \A p \in Overlapping(planned, g) : ~ Collides(top, AlignUp(g.size), p)
  <2>1. \A p \in Overlapping(planned, g) : End(p) \in C /\ End(p) \in Nat
    BY <1>2 DEF Candidates, Overlapping
  <2>2. \A p \in Overlapping(planned, g) : ~ (top < End(p))
    BY <1>3, <1>4, <2>1
  <2> QED
    BY <2>2 DEF Collides
<1>6. top \in F
  BY <1>5 DEF FreeOffsets
<1>7. F \in SUBSET Nat /\ F # {}
  BY <1>3, <1>6 DEF FreeOffsets
<1>8. ChosenOffset(planned, g) \in F
  BY <1>7, MinNat DEF ChosenOffset
<1> QED
  BY <1>7, <1>8 DEF FreeOffsets

\* Placing one more group keeps the groups that coexist apart.
LEMMA PlacingKeepsPacking ==
    ASSUME NEW planned, Packing(planned), NEW g, g.size \in Nat,
           \A p \in planned : p.root # g.root
    PROVE  Packing(Place(planned, g))
<1> DEFINE new == Planned(planned, g)
<1>1. AlignUp(g.size) \in Nat /\ g.size <= AlignUp(g.size)
  BY AlignUpBounds
<1>2. /\ new.offset \in Nat
      /\ \A p \in Overlapping(planned, g) : ~ Collides(new.offset, AlignUp(g.size), p)
  BY ChosenOffsetIsFree DEF Planned
<1>3. /\ new.root = g.root /\ new.birth = g.birth /\ new.death = g.death
      /\ new.size = g.size /\ new.aligned_size = AlignUp(g.size)
      /\ End(new) = new.offset + AlignUp(g.size) /\ End(new) \in Nat
  BY <1>1, <1>2 DEF Planned, End
<1>4. \A p \in planned : p.offset \in Nat /\ p.aligned_size \in Nat /\ End(p) \in Nat
  BY DEF Packing, End
<1> HIDE DEF new
<1>5. \E b \in Nat : \A p \in planned \cup {new} : End(p) <= b
  <2>1. PICK b \in Nat : \A p \in planned : End(p) <= b
    BY DEF Packing
  <2>2. \A p \in planned \cup {new} : End(p) <= b + End(new)
    BY <1>3, <1>4, <2>1
  <2> QED
    BY <1>3, <2>2
<1>6. ASSUME NEW p \in planned, Coexist(p, g) PROVE Apart(p, new) /\ Apart(new, p)
  <2>1. ~ Collides(new.offset, AlignUp(g.size), p)
    BY <1>2, <1>6 DEF Overlapping
  <2>2. End(p) <= new.offset \/ End(new) <= p.offset
    BY <1>1, <1>2, <1>3, <1>4, <2>1 DEF Collides
  <2> QED
    BY <2>2 DEF Apart
<1>7. ASSUME NEW p \in planned \cup {new}, NEW q \in planned \cup {new}, p.root # q.root, Coexist(p, q)
      PROVE  Apart(p, q)
  <2>1. CASE p \in planned /\ q \in planned
    BY <1>7, <2>1 DEF Packing
  <2>2. CASE p \in planned /\ q = new
    BY <1>3, <1>6, <1>7, <2>2 DEF Coexist
  <2>3. CASE p = new /\ q \in planned
    <3>1. Coexist(q, g)
      BY <1>3, <1>7, <2>3 DEF Coexist
    <3> QED
      BY <1>6, <2>3, <3>1
  <2> QED
    BY <1>7, <2>1, <2>2, <2>3
<1>8. \A p \in planned \cup {new} : p.offset \in Nat /\ p.aligned_size \in Nat /\ p.size <= p.aligned_size
  BY <1>1, <1>2, <1>3 DEF Packing
<1> QED
  BY <1>5, <1>7, <1>8 DEF Packing, Place, new

\* What _plan_arena_offsets returns holds every group.
LEMMA TotalHoldsGroups ==
    ASSUME NEW planned, Packing(planned)
    PROVE  TotalSize(planned) \in Nat /\ \A p \in planned : End(p) <= TotalSize(planned)
<1> DEFINE Ends == {0} \cup {End(p) : p \in planned}
<1>1. PICK b \in Nat : \A p \in planned : End(p) <= b
  BY DEF Packing
<1>2. \A p \in planned : End(p) \in Nat
  BY DEF Packing, End
<1>3. Ends \in SUBSET Nat /\ Ends # {} /\ \A n \in Ends : n <= b
  BY <1>1, <1>2
<1>4. Max(Ends) \in Ends /\ \A n \in Ends : n <= Max(Ends)
  BY <1>3, MaxNat
<1>5. TotalSize(planned) = Max(Ends)
  BY DEF TotalSize
<1> HIDE DEF Ends
<1>6. \A p \in planned : End(p) \in Ends
  BY DEF Ends
<1> QED
  BY <1>3, <1>4, <1>5, <1>6

-----------------------------------------------------------------------------
(* Sums over finite sets, whatever order their elements are taken in.      *)

OneOf(s) == CHOOSE x \in s : TRUE

\* f[s] is the sum of the weights w over s, for every part s of S.
IsSum(f, w, S) ==
    /\ f \in [SUBSET S -> Nat] /\ f[{}] = 0
    /\ \A s \in SUBSET S : s # {} => f[s] = w[OneOf(s)] + f[s \ {OneOf(s)}]

\* An element of a set that is not empty.
LEMMA AnyIsElement ==
    ASSUME NEW s, s # {}
    PROVE  OneOf(s) \in s
BY DEF OneOf

\* Every element can be taken first.
LEMMA SumSplits ==
    ASSUME NEW S, IsFiniteSet(S), NEW w \in [S -> Nat], NEW f, IsSum(f, w, S)
    PROVE  \A s \in SUBSET S : \A x \in s : f[s] = w[x] + f[s \ {x}]
<1> DEFINE Splits(s) == \A x \in s : f[s] = w[x] + f[s \ {x}]
           T == {n \in Nat : \A s \in SUBSET S : Cardinality(s) = n => Splits(s)}
<1>1. \A s \in SUBSET S : IsFiniteSet(s) /\ Cardinality(s) \in Nat
  BY FS_Subset, FS_CardinalityType
<1>2. \A s \in SUBSET S : \A x \in s : Cardinality(s \ {x}) = Cardinality(s) - 1
  <2> SUFFICES ASSUME NEW s \in SUBSET S, NEW x \in s
               PROVE  Cardinality(s \ {x}) = Cardinality(s) - 1
    OBVIOUS
  <2>1. IsFiniteSet(s)
    BY <1>1
  <2> QED
    BY <2>1, FS_RemoveElement
<1>3. \A s \in SUBSET S : f[s] \in Nat
  BY DEF IsSum
<1>4. 0 \in T
  <2>1. \A s \in SUBSET S : Cardinality(s) = 0 => s = {}
    BY <1>1, FS_EmptySet
  <2> QED
    BY <2>1
<1>5. ASSUME NEW n \in Nat, n \in T PROVE n + 1 \in T
  <2>1. SUFFICES ASSUME NEW s \in SUBSET S, Cardinality(s) = n + 1, NEW x \in s
                 PROVE  f[s] = w[x] + f[s \ {x}]
    BY <1>5
  <2>2. PICK c : c = OneOf(s)
    OBVIOUS
  <2>3. c \in s /\ f[s] = w[c] + f[s \ {c}]
    BY <2>2, AnyIsElement DEF IsSum
  <2>4. CASE c = x
    BY <2>3, <2>4
  <2>5. CASE c # x
    <3>1. /\ s \ {c} \in SUBSET S /\ s \ {x} \in SUBSET S /\ (s \ {c}) \ {x} \in SUBSET S
          /\ x \in s \ {c} /\ c \in s \ {x} /\ (s \ {c}) \ {x} = (s \ {x}) \ {c}
      BY <2>3, <2>5
    <3>2. Cardinality(s \ {c}) = n /\ Cardinality(s \ {x}) = n
      BY <1>2, <2>1, <2>3
    <3>3. Splits(s \ {c}) /\ Splits(s \ {x})
      BY <1>5, <3>1, <3>2
    <3>4. f[s \ {c}] = w[x] + f[(s \ {c}) \ {x}] /\ f[s \ {x}] = w[c] + f[(s \ {c}) \ {x}]
      BY <3>1, <3>3
    <3>5. w[x] \in Nat /\ w[c] \in Nat /\ f[(s \ {c}) \ {x}] \in Nat
      BY <1>3, <2>3, <3>1
    <3> QED
      BY <2>3, <3>4, <3>5
  <2> QED
    BY <2>4, <2>5
<1> HIDE DEF T
<1>6. \A n \in Nat : n \in T
  BY <1>4, <1>5, NatInductionSet
<1>7. ASSUME NEW s \in SUBSET S PROVE Splits(s)
  <2>1. Cardinality(s) \in T
    BY <1>1, <1>6
  <2> QED
    BY <2>1 DEF T
<1> QED
  BY <1>7

\* There is only one sum.
LEMMA SumsAgree ==
    ASSUME NEW S, IsFiniteSet(S), NEW R \in SUBSET S, NEW w, NEW v, \A x \in R : w[x] = v[x],
           NEW f, IsSum(f, w, S), NEW h, IsSum(h, v, R)
    PROVE  f[R] = h[R]
<1> DEFINE T == {s \in SUBSET R : f[s] = h[s]}
<1>1. {} \in T
  BY DEF IsSum
<1>2. ASSUME NEW s \in SUBSET R, s # {} PROVE \E x \in s : s \ {x} \in T => s \in T
  <2>1. OneOf(s) \in s
    BY <1>2, AnyIsElement
  <2>2. f[s] = w[OneOf(s)] + f[s \ {OneOf(s)}] /\ h[s] = v[OneOf(s)] + h[s \ {OneOf(s)}]
    BY <1>2 DEF IsSum
  <2> QED
    BY <2>1, <2>2
<1>3. IsFiniteSet(R)
  BY FS_Subset
<1> HIDE DEF T
<1>4. \A s \in SUBSET R : s \in T
  BY <1>1, <1>2, <1>3, SubsetInduction
<1> QED
  BY <1>4 DEF T

\* Sums exist, and are what MapThenSumSet computes.
LEMMA SumExists ==
    ASSUME NEW S, IsFiniteSet(S), NEW w \in [S -> Nat], NEW it,
           it = CHOOSE f : f = [s \in SUBSET S |-> IF s = {} THEN 0 ELSE w[OneOf(s)] + f[s \ {OneOf(s)}]]
    PROVE  IsSum(it, w, S)
<1> DEFINE Eq(f) == f = [s \in SUBSET S |-> IF s = {} THEN 0 ELSE w[OneOf(s)] + f[s \ {OneOf(s)}]]
           pick == [s \in SUBSET S |-> OneOf(s)]
           step == [p \in S \X Nat |-> w[p[1]] + p[2]]
<1>1. Picks(pick, S) /\ Folds(0, step, S, Nat)
  BY AnyIsElement DEF Picks, Folds
<1>2. PICK f \in [SUBSET S -> Nat] : IsFold(f, 0, pick, step, S)
  <2> HIDE DEF pick, step
  <2> QED
    BY <1>1, FoldExists
<1>3. ASSUME NEW s \in SUBSET S, s # {} PROVE f[s] = w[OneOf(s)] + f[s \ {OneOf(s)}]
  <2>1. OneOf(s) \in S /\ s \ {OneOf(s)} \in SUBSET S /\ pick[s] = OneOf(s)
    BY <1>3, AnyIsElement
  <2>2. f[s] = step[<<OneOf(s), f[s \ {OneOf(s)}]>>]
    BY <1>2, <1>3, <2>1 DEF IsFold
  <2> QED
    BY <2>1, <2>2
<1>4. f[{}] = 0
  BY <1>2 DEF IsFold
<1>5. \A g : Eq(g) => g = f
  <2> SUFFICES ASSUME NEW g, Eq(g) PROVE g = f
    OBVIOUS
  <2> DEFINE T == {s \in SUBSET S : g[s] = f[s]}
  <2>1. {} \in T
    BY <1>4
  <2>2. ASSUME NEW s \in SUBSET S, s # {} PROVE \E x \in s : s \ {x} \in T => s \in T
    <3>1. OneOf(s) \in s
      BY <2>2, AnyIsElement
    <3>2. g[s] = w[OneOf(s)] + g[s \ {OneOf(s)}]
      BY <2>2
    <3> QED
      BY <1>3, <2>2, <3>1, <3>2
  <2>3. \A s \in SUBSET S : s \in T
    <3> HIDE DEF T
    <3> QED
      BY <2>1, <2>2, SubsetInduction
  <2> QED
    BY <2>3
<1>6. Eq(f)
  BY <1>3, <1>4
<1>7. it = f
  <2>1. it = CHOOSE g : Eq(g)
    OBVIOUS
  <2> HIDE DEF Eq
  <2> QED
    BY <1>5, <1>6, <2>1
<1> QED
  BY <1>3, <1>4, <1>7 DEF IsSum

SumOfSizes(S) == MapThenSumSet(LAMBDA p : p.size, S)
SumOfAligned(S) == MapThenSumSet(LAMBDA p : p.aligned_size, S)

\* Both sums of ArenaNeverWorse are sums.
LEMMA SizesAreSummed ==
    ASSUME NEW S, IsFiniteSet(S), \A p \in S : p.size \in Nat
    PROVE  \E f : IsSum(f, [p \in S |-> p.size], S) /\ SumOfSizes(S) = f[S]
<1> DEFINE w == [p \in S |-> p.size]
           Eq(f) == f = [s \in SUBSET S |-> IF s = {} THEN 0 ELSE OneOf(s).size + f[s \ {OneOf(s)}]]
           Sum(f) == f = [s \in SUBSET S |-> IF s = {} THEN 0 ELSE w[OneOf(s)] + f[s \ {OneOf(s)}]]
<1>1. SumOfSizes(S) = (CHOOSE f : Eq(f))[S]
  BY DEF SumOfSizes, MapThenSumSet, MapThenFoldSet, OneOf
<1>2. \A f : Eq(f) <=> Sum(f)
  <2>1. \A s \in SUBSET S : s # {} => OneOf(s).size = w[OneOf(s)]
    BY AnyIsElement
  <2> QED
    BY <2>1
<1>3. (CHOOSE f : Eq(f)) = (CHOOSE f : Sum(f))
  <2> HIDE DEF Eq, Sum
  <2> QED
    BY <1>2
<1> QED
  BY <1>1, <1>3, SumExists

\* The same of the aligned sizes.
LEMMA AlignedAreSummed ==
    ASSUME NEW S, IsFiniteSet(S), \A p \in S : p.aligned_size \in Nat
    PROVE  \E f : IsSum(f, [p \in S |-> p.aligned_size], S) /\ SumOfAligned(S) = f[S]
<1> DEFINE w == [p \in S |-> p.aligned_size]
           Eq(f) == f = [s \in SUBSET S |-> IF s = {} THEN 0 ELSE OneOf(s).aligned_size + f[s \ {OneOf(s)}]]
           Sum(f) == f = [s \in SUBSET S |-> IF s = {} THEN 0 ELSE w[OneOf(s)] + f[s \ {OneOf(s)}]]
<1>1. SumOfAligned(S) = (CHOOSE f : Eq(f))[S]
  BY DEF SumOfAligned, MapThenSumSet, MapThenFoldSet, OneOf
<1>2. \A f : Eq(f) <=> Sum(f)
  <2>1. \A s \in SUBSET S : s # {} => OneOf(s).aligned_size = w[OneOf(s)]
    BY AnyIsElement
  <2> QED
    BY <2>1
<1>3. (CHOOSE f : Eq(f)) = (CHOOSE f : Sum(f))
  <2> HIDE DEF Eq, Sum
  <2> QED
    BY <1>2
<1> QED
  BY <1>1, <1>3, SumExists

-----------------------------------------------------------------------------
(* The invariant.                                                          *)

\* What the loop keeps true: the records it has placed form a packing and their
\* roots are none of those still to come; none ends above the sum of them all.
PlannedOK ==
    /\ Packing(planned_groups)
    /\ \A p \in planned_groups, g \in intermediates : p.root # g.root
    /\ \A g, h \in intermediates : g.root = h.root => g = h
    /\ total > 0 => /\ intermediates = {}
                    /\ \A p \in planned_groups : End(p) <= total

Economical ==
    /\ IsFiniteSet(planned_groups)
    /\ \A p, q \in planned_groups : p.root = q.root => p = q
    /\ \A p \in planned_groups : End(p) <= SumOfAligned(planned_groups)
    /\ total > 0 => total = TotalSize(planned_groups)

PlannerInv == TypeOK /\ PlannedOK /\ Economical

\* The invariant holds before a tensor has been placed.
LEMMA InitPlannerInv == Init => PlannerInv
<1> SUFFICES ASSUME Init PROVE PlannerInv
  OBVIOUS
<1>1. PICK span \in [Roots -> Span] :
        groups = {[root |-> r, birth |-> span[r].birth, death |-> span[r].death,
                   size |-> span[r].size] : r \in Roots}
  BY DEF Init
<1>2. intermediates = groups /\ planned_groups = {} /\ total = 0
  BY DEF Init
<1>3. groups \subseteq GroupInterval
  <2>1. \A r \in Roots : span[r] \in [birth : 0..LastStep, death : 0..LastStep, size : Sizes]
    BY DEF Span
  <2> QED
    BY <1>1, <2>1 DEF GroupInterval
<1>4. TypeOK
  BY <1>2, <1>3 DEF TypeOK
<1>5. \A g, h \in intermediates : g.root = h.root => g = h
  BY <1>1, <1>2
<1>6. PlannedOK
  BY <1>2, <1>5 DEF PlannedOK, Packing
<1>7. Economical
  BY <1>2, FS_EmptySet DEF Economical
<1> QED
  BY <1>4, <1>6, <1>7 DEF PlannerInv

\* The offset that is chosen lies on the ground or on another group.
LEMMA LowOffset ==
    ASSUME NEW planned, Packing(planned), NEW g
    PROVE  \/ ChosenOffset(planned, g) = 0
           \/ \E p \in planned : ChosenOffset(planned, g) = End(p)
<1>1. CASE FreeOffsets(planned, g) = {}
  BY <1>1 DEF ChosenOffset
<1>2. CASE FreeOffsets(planned, g) # {}
  <2>1. FreeOffsets(planned, g) \in SUBSET Nat
    BY DEF FreeOffsets, Candidates, Overlapping, Packing, End
  <2>2. ChosenOffset(planned, g) \in FreeOffsets(planned, g)
    BY <1>2, <2>1, MinNat DEF ChosenOffset
  <2> QED
    BY <2>2 DEF FreeOffsets, Candidates, Overlapping
<1> QED
  BY <1>1, <1>2

\* f[s] is the sum of the sizes in s, for every part s of S.
AddsSizes(f, S) ==
    /\ f[{}] = 0
    /\ \A s \in SUBSET S : f[s] \in Nat /\ \A x \in s : f[s] = x.size + f[s \ {x}]

\* The sum of the sizes loses that of an element which is taken away.
LEMMA SizesSplit ==
    ASSUME NEW S, IsFiniteSet(S), \A p \in S : p.size \in Nat
    PROVE  \E f : SumOfSizes(S) = f[S] /\ AddsSizes(f, S)
<1>1. PICK weight : weight = [p \in S |-> p.size]
  OBVIOUS
<1>2. PICK f : IsSum(f, weight, S) /\ SumOfSizes(S) = f[S]
  BY <1>1, SizesAreSummed
<1>3. weight \in [S -> Nat]
  BY <1>1
<1>4. ASSUME NEW s \in SUBSET S PROVE \A x \in s : f[s] = weight[x] + f[s \ {x}]
  BY <1>2, <1>3, SumSplits
<1>5. \A x \in S : weight[x] = x.size
  BY <1>1
<1>6. ASSUME NEW s \in SUBSET S, NEW x \in s PROVE f[s] = x.size + f[s \ {x}]
  BY <1>4, <1>5
<1>7. f[{}] = 0 /\ \A s \in SUBSET S : f[s] \in Nat
  BY <1>2 DEF IsSum
<1>8. AddsSizes(f, S)
  BY <1>6, <1>7 DEF AddsSizes
<1> QED
  BY <1>2, <1>8

\* The sum of the aligned sizes grows by that of a new element.
LEMMA AlignedGrows ==
    ASSUME NEW old, IsFiniteSet(old), NEW new, new \notin old,
           \A p \in old \cup {new} : p.aligned_size \in Nat
    PROVE  /\ SumOfAligned(old \cup {new}) = SumOfAligned(old) + new.aligned_size
           /\ SumOfAligned(old) \in Nat
<1>1. PICK all, weight, before : /\ all = old \cup {new}
                                 /\ weight = [p \in all |-> p.aligned_size]
                                 /\ before = [p \in old |-> p.aligned_size]
  OBVIOUS
<1>2. IsFiniteSet(all)
  BY <1>1, FS_AddElement
<1>3. PICK f : IsSum(f, weight, all) /\ SumOfAligned(all) = f[all]
  BY <1>1, <1>2, AlignedAreSummed
<1>4. PICK h : IsSum(h, before, old) /\ SumOfAligned(old) = h[old]
  BY <1>1, AlignedAreSummed
<1>5. old \in SUBSET all /\ weight \in [all -> Nat] /\ \A x \in old : weight[x] = before[x]
  BY <1>1
<1>6. f[old] = h[old]
  BY <1>2, <1>3, <1>4, <1>5, SumsAgree
<1>7. \A s \in SUBSET all : \A x \in s : f[s] = weight[x] + f[s \ {x}]
  <2>1. SUFFICES ASSUME NEW s \in SUBSET all PROVE \A x \in s : f[s] = weight[x] + f[s \ {x}]
    OBVIOUS
  <2> QED
    BY <1>2, <1>3, <1>5, SumSplits
<1>8. f[all] = weight[new] + f[old]
  <2>1. all \in SUBSET all /\ new \in all /\ all \ {new} = old
    BY <1>1
  <2> QED
    BY <1>7, <2>1
<1>9. weight[new] = new.aligned_size
  BY <1>1
<1>10. f[old] \in Nat /\ new.aligned_size \in Nat
  BY <1>3, <1>5 DEF IsSum
<1> QED
  BY <1>1, <1>3, <1>4, <1>6, <1>8, <1>9, <1>10

\* A group on top of another, or on the ground, ends below the sum of all.
LEMMA HigherOnly ==
    ASSUME NEW old, IsFiniteSet(old), NEW new, new \notin old,
           \A p \in old : p.offset \in Nat /\ p.aligned_size \in Nat,
           new.offset \in Nat, new.aligned_size \in Nat,
           \A p \in old : End(p) <= SumOfAligned(old),
           new.offset = 0 \/ \E p \in old : new.offset = End(p)
    PROVE  \A p \in old \cup {new} : End(p) <= SumOfAligned(old \cup {new})
<1>1. PICK sum : sum = SumOfAligned(old)
  OBVIOUS
<1>2. SumOfAligned(old \cup {new}) = sum + new.aligned_size /\ sum \in Nat
  BY <1>1, AlignedGrows
<1>3. new.offset <= sum
  BY <1>1, <1>2
<1>4. End(new) <= sum + new.aligned_size
  BY <1>2, <1>3 DEF End
<1>5. ASSUME NEW p \in old PROVE End(p) <= sum + new.aligned_size
  <2>1. End(p) \in Nat /\ End(p) <= sum
    BY <1>1 DEF End
  <2> QED
    BY <1>2, <2>1
<1> QED
  BY <1>2, <1>4, <1>5

\* Groups that lie apart, below b.
Disjoint(S, b) ==
    /\ \A p \in S : /\ p.offset \in Nat /\ p.aligned_size \in Nat \ {0}
                    /\ p.size \in Nat /\ p.size <= p.aligned_size /\ End(p) <= b
    /\ \A p, q \in S : p # q => Apart(p, q)

\* They reach at least as high as the sum of their sizes.
LEMMA DisjointSum ==
    ASSUME NEW S, IsFiniteSet(S), NEW b \in Nat, Disjoint(S, b)
    PROVE  SumOfSizes(S) <= b
<1>0. \A p \in S : p.size \in Nat
  BY DEF Disjoint
<1>1. PICK f : SumOfSizes(S) = f[S] /\ AddsSizes(f, S)
  BY <1>0, SizesSplit
<1>2. \A p \in S : End(p) \in Nat /\ End(p) = p.offset + p.aligned_size /\ End(p) <= b
  BY DEF End, Disjoint
<1> DEFINE T == {s \in SUBSET S : \A c \in Nat : (\A p \in s : End(p) <= c) => f[s] <= c}
<1>3. {} \in T
  BY <1>1 DEF AddsSizes
<1>4. ASSUME NEW s \in SUBSET S, s # {} PROVE \E x \in s : s \ {x} \in T => s \in T
  <2> DEFINE Ends == {End(p) : p \in s}
  <2>1. Ends \in SUBSET Nat /\ Ends # {} /\ \A n \in Ends : n <= b
    BY <1>2, <1>4
  <2>2. PICK top \in Ends : \A n \in Ends : n <= top
    <3> HIDE DEF Ends
    <3> QED
      BY <2>1, GreatestNat
  <2>3. PICK x \in s : \A p \in s : End(p) <= End(x)
    BY <2>2
  <2>4. ASSUME NEW p \in s \ {x} PROVE End(p) <= x.offset
    <3>1. End(p) <= x.offset \/ End(x) <= p.offset
      BY DEF Apart, Disjoint
    <3>2. p.offset < End(p) /\ End(p) <= End(x) /\ p.offset \in Nat /\ End(p) \in Nat /\ End(x) \in Nat
      BY <1>2, <2>3 DEF Disjoint
    <3> QED
      BY <3>1, <3>2
  <2>5. ASSUME s \ {x} \in T, NEW c \in Nat, \A p \in s : End(p) <= c PROVE f[s] <= c
    <3>1. x.offset \in Nat /\ x.size \in Nat /\ x.aligned_size \in Nat /\ x.size <= x.aligned_size
      BY DEF Disjoint
    <3>2. f[s \ {x}] <= x.offset
      BY <2>4, <2>5, <3>1
    <3>3. f[s] = x.size + f[s \ {x}] /\ f[s \ {x}] \in Nat
      <4>1. s \in SUBSET S /\ s \ {x} \in SUBSET S
        OBVIOUS
      <4> QED
        BY <1>1, <4>1 DEF AddsSizes
    <3>4. x.offset + x.aligned_size <= c
      BY <1>2, <2>5
    <3> QED
      BY <3>1, <3>2, <3>3, <3>4
  <2> QED
    BY <2>5
<1>5. S \in T
  <2> HIDE DEF T
  <2>1. \A s \in SUBSET S : s \in T
    BY <1>3, <1>4, SubsetInduction
  <2> QED
    BY <2>1
<1>6. \A p \in S : End(p) <= b
  BY <1>2
<1> QED
  BY <1>1, <1>5, <1>6

\* Placing a tensor (arena_planner.cpp, the loop over the sorted requirements) keeps it.
LEMMA PlaceKeepsInv ==
    ASSUME PlannerInv, NEW g \in intermediates, PlaceGroup(g)
    PROVE  PlannerInv'
<1> DEFINE new == Planned(planned_groups, g)
<1>1. /\ planned_groups' = planned_groups \cup {new}
      /\ planned_groups' = Place(planned_groups, g)
      /\ intermediates' = intermediates \ {g}
      /\ groups' = groups /\ total' = total
  BY DEF PlaceGroup, Place
<1>2. /\ g.root \in Roots /\ g.birth \in 0..LastStep /\ g.death \in 0..LastStep
      /\ g.size \in Sizes /\ g.size \in Nat \ {0}
  BY SizesAssumption DEF PlannerInv, TypeOK, GroupInterval
<1>3. AlignUp(g.size) \in Nat /\ g.size <= AlignUp(g.size) /\ AlignUp(g.size) # 0
  BY <1>2, AlignUpBounds
<1>4. Packing(planned_groups) /\ new.offset \in Nat
  BY ChosenOffsetIsFree DEF Planned, PlannerInv, PlannedOK
<1>5. TypeOK'
  <2>1. new \in [root : Roots, birth : 0..LastStep, death : 0..LastStep,
                 size : Sizes, offset : Nat, aligned_size : Nat \ {0}]
    BY <1>2, <1>3, <1>4 DEF Planned
  <2> QED
    BY <1>1, <2>1 DEF PlannerInv, TypeOK
<1>6. Packing(planned_groups')
  <2>1. g.size \in Nat /\ \A p \in planned_groups : p.root # g.root
    BY <1>2 DEF PlannerInv, PlannedOK
  <2>2. Packing(Place(planned_groups, g))
    BY <1>4, <2>1, PlacingKeepsPacking
  <2> QED
    BY <1>1, <2>2
<1>7. \A p \in planned_groups', h \in intermediates' : p.root # h.root
  BY <1>1 DEF PlannerInv, PlannedOK, Planned
<1>8. \A h, k \in intermediates' : h.root = k.root => h = k
  BY <1>1 DEF PlannerInv, PlannedOK
<1>9. total' = 0
  BY <1>1 DEF PlannerInv, PlannedOK, TypeOK
<1>10. PlannedOK'
  BY <1>6, <1>7, <1>8, <1>9 DEF PlannedOK, Packing, End, Coexist, Apart
<1>11. Economical'
  <2>1. /\ IsFiniteSet(planned_groups) /\ \A p \in planned_groups : End(p) <= SumOfAligned(planned_groups)
        /\ \A p, q \in planned_groups : p.root = q.root => p = q
    BY DEF PlannerInv, Economical
  <2>2. PICK old : old = planned_groups
    OBVIOUS
  <2>3. new.root = g.root /\ new.aligned_size = AlignUp(g.size) /\ \A p \in old : p.root # new.root
    BY <2>2 DEF Planned, PlannerInv, PlannedOK
  <2>4. /\ \A p \in old : p.offset \in Nat /\ p.aligned_size \in Nat
        /\ new.offset \in Nat /\ new.aligned_size \in Nat
    BY <1>3, <1>4, <2>2, <2>3 DEF Packing
  <2>5. \/ new.offset = 0
        \/ \E p \in old : new.offset = End(p)
    BY <1>4, <2>2, LowOffset DEF Planned
  <2> HIDE DEF new
  <2>6. IsFiniteSet(old \cup {new}) /\ planned_groups' = old \cup {new} /\ total' = 0
    BY <1>1, <1>9, <2>1, <2>2, FS_AddElement
  <2>7. new \notin old
    BY <2>3
  <2>8. \A p \in old \cup {new} : End(p) <= SumOfAligned(old \cup {new})
    BY <2>1, <2>2, <2>4, <2>5, <2>7, HigherOnly
  <2>9. \A p, q \in old \cup {new} : p.root = q.root => p = q
    BY <2>1, <2>2, <2>3
  <2> QED
    BY <2>6, <2>8, <2>9 DEF Economical, End
<1> QED
  BY <1>5, <1>10, <1>11 DEF PlannerInv

\* So does computing the size of the arena from the placements.
LEMMA TotalKeepsInv ==
    ASSUME PlannerInv, ComputeTotal
    PROVE  PlannerInv'
<1>1. TotalSize(planned_groups) \in Nat /\ \A p \in planned_groups : End(p) <= TotalSize(planned_groups)
  BY TotalHoldsGroups DEF PlannerInv, PlannedOK
<1>2. /\ total' = TotalSize(planned_groups) /\ intermediates = {}
      /\ UNCHANGED <<intermediates, planned_groups, groups>>
  BY DEF ComputeTotal
<1>3. TypeOK'
  BY <1>1, <1>2 DEF PlannerInv, TypeOK
<1>4. PlannedOK'
  BY <1>1, <1>2 DEF PlannerInv, PlannedOK, Packing, End, Coexist, Apart
<1>5. Economical'
  BY <1>2 DEF PlannerInv, Economical, End
<1> QED
  BY <1>3, <1>4, <1>5 DEF PlannerInv

\* The invariant is inductive.
LEMMA NextPlannerInv == PlannerInv /\ [Next]_vars => PlannerInv'
<1> SUFFICES ASSUME PlannerInv, [Next]_vars PROVE PlannerInv'
  OBVIOUS
<1>1. CASE \E g \in intermediates : PlaceGroup(g)
  BY <1>1, PlaceKeepsInv
<1>2. CASE ComputeTotal
  BY <1>2, TotalKeepsInv
<1>3. CASE UNCHANGED vars
  BY <1>3 DEF vars, PlannerInv, TypeOK, PlannedOK, Packing, End, Coexist, Apart, Economical
<1> QED
  BY <1>1, <1>2, <1>3 DEF Next

\* The size of the arena is 0 or the end of a group.
LEMMA TotalIsAnEnd ==
    ASSUME NEW planned, Packing(planned)
    PROVE  TotalSize(planned) \in {0} \cup {End(p) : p \in planned}
<1> DEFINE Ends == {0} \cup {End(p) : p \in planned}
<1>1. PICK b \in Nat : \A p \in planned : End(p) <= b
  BY DEF Packing
<1>2. Ends \in SUBSET Nat /\ Ends # {} /\ \A n \in Ends : n <= b
  BY <1>1 DEF Packing, End
<1>3. TotalSize(planned) = Max(Ends)
  BY DEF TotalSize
<1> HIDE DEF Ends
<1>4. TotalSize(planned) \in Ends
  BY <1>1, <1>2, <1>3, MaxNat
<1> QED
  BY <1>4 DEF Ends

(* The planner's state is well typed, and its invariant holds for ever.    *)
THEOREM PlannerInvariant == Spec => []PlannerInv
BY InitPlannerInv, NextPlannerInv, PTL DEF Spec

\* The placements, and what remains to place, have the types the planner gives them.
THEOREM PlannerTypes == Spec => []TypeOK
<1>1. PlannerInv => TypeOK
  BY DEF PlannerInv
<1> QED
  BY <1>1, PlannerInvariant, PTL

(* _plan_arena_offsets never gives two groups that are alive at the same   *)
(* step a common byte, for every number, size and lifetime of groups.      *)
THEOREM LiveGroupsNeverOverlap == Spec => []NoLiveOverlap
<1>1. PlannerInv => NoLiveOverlap
  <2> SUFFICES ASSUME PlannerInv, NEW p \in planned_groups, NEW q \in planned_groups,
                      NEW step \in 0..LastStep,
                      p.root # q.root, AliveAt(p, step), AliveAt(q, step)
               PROVE  End(p) <= q.offset \/ End(q) <= p.offset
    BY DEF NoLiveOverlap
  <2>1. /\ p.birth \in 0..LastStep /\ p.death \in 0..LastStep
        /\ q.birth \in 0..LastStep /\ q.death \in 0..LastStep
    BY DEF PlannerInv, TypeOK
  <2>2. Coexist(p, q)
    BY <2>1, StepsAssumption DEF AliveAt, Coexist
  <2> QED
    BY <2>2 DEF PlannerInv, PlannedOK, Packing, Apart
<1> QED
  BY <1>1, PlannerInvariant, PTL

(* The arena that _allocate_arena_storage requests holds every group.      *)
THEOREM ArenaIsLargeEnough == Spec => []ArenaHoldsGroups
<1>1. PlannerInv => ArenaHoldsGroups
  BY DEF PlannerInv, PlannedOK, Packing, ArenaHoldsGroups
<1> QED
  BY <1>1, PlannerInvariant, PTL

(* The arena never costs more memory than separate buffers, and never holds *)
(* less than is alive at some step.                                        *)
THEOREM ArenaNeverCosts == Spec => []ArenaNeverWorse
<1>1. ASSUME PlannerInv, total > 0 PROVE total <= SumOfAligned(planned_groups)
  <2>1. total = TotalSize(planned_groups)
    BY <1>1 DEF PlannerInv, Economical
  <2>2. \A p \in planned_groups : End(p) <= SumOfAligned(planned_groups) /\ End(p) \in Nat
    BY <1>1 DEF PlannerInv, PlannedOK, Packing, Economical, End
  <2>3. total \in {0} \cup {End(p) : p \in planned_groups}
    BY <1>1, <2>1, TotalIsAnEnd DEF PlannerInv, PlannedOK
  <2>4. 0 # total
    BY <1>1 DEF PlannerInv, TypeOK
  <2> QED
    BY <2>2, <2>3, <2>4
<1>2. ASSUME PlannerInv, total > 0, NEW step \in 0..LastStep
      PROVE  SumOfSizes({p \in planned_groups : AliveAt(p, step)}) <= total
  <2> DEFINE S == {p \in planned_groups : AliveAt(p, step)}
  <2>1. IsFiniteSet(S) /\ total \in Nat
    BY <1>2, FS_Subset DEF PlannerInv, Economical, TypeOK
  <2>2. \A p \in S : /\ p.offset \in Nat /\ p.aligned_size \in Nat \ {0}
                     /\ p.size \in Nat /\ p.size <= p.aligned_size /\ End(p) <= total
    BY <1>2, SizesAssumption DEF PlannerInv, TypeOK, PlannedOK, Packing
  <2>3. \A p, q \in S : p # q => Apart(p, q)
    <3> SUFFICES ASSUME NEW p \in S, NEW q \in S, p # q PROVE Apart(p, q)
      OBVIOUS
    <3>1. p.root # q.root
      BY <1>2 DEF PlannerInv, Economical
    <3>2. /\ p.birth \in 0..LastStep /\ p.death \in 0..LastStep
          /\ q.birth \in 0..LastStep /\ q.death \in 0..LastStep
      BY <1>2 DEF PlannerInv, TypeOK
    <3>3. Coexist(p, q)
      BY <3>2, StepsAssumption DEF AliveAt, Coexist
    <3> QED
      BY <1>2, <3>1, <3>3 DEF PlannerInv, PlannedOK, Packing
  <2> HIDE DEF S
  <2>4. SumOfSizes(S) <= total
    BY <2>1, <2>2, <2>3, DisjointSum DEF Disjoint
  <2> QED
    BY <2>4 DEF S
<1>3. PlannerInv => ArenaNeverWorse
  BY <1>1, <1>2 DEF ArenaNeverWorse, SumOfSizes, SumOfAligned
<1> QED
  BY <1>3, PlannerInvariant, PTL

-----------------------------------------------------------------------------
(* Sizes of tensors in a file.                                              *)

\* What an entry needs is the product of all dimensions, times the bytes of an element.
LEMMA NeedsIsProduct ==
    ASSUME NEW shape \in Seq(Nat), NEW h, Multiplies(h, shape), NEW dtype
    PROVE  Needs(dtype, shape) = ByteSize(dtype) * h[Len(shape)]
<1> DEFINE n == Len(shape)
           S == 1 .. n
           B == ByteSize(dtype)
           Eq(f) == f = [s \in SUBSET S |-> IF s = {} THEN B ELSE f[s \ {Max(s)}] * shape[Max(s)]]
           it == CHOOSE f : Eq(f)
           step == [p \in S \X Nat |-> p[2] * shape[p[1]]]
<1>1. DOMAIN shape = S /\ n \in Nat /\ B \in Nat /\ \A k \in S : shape[k] \in Nat
  BY DEF ByteSize
<1>2. Needs(dtype, shape) = it[S]
  <2>1. Needs(dtype, shape) = (CHOOSE f : f = [s \in SUBSET DOMAIN shape |->
                                 IF s = {} THEN B ELSE f[s \ {Max(s)}] * shape[Max(s)]])[DOMAIN shape]
    BY DEF Needs, FoldLeft, MapThenFoldSet
  <2> QED
    BY <1>1, <2>1
<1>3. step \in [S \X Nat -> Nat]
  <2>1. \A p \in S \X Nat : p[2] * shape[p[1]] \in Nat
    <3>1. ASSUME NEW p \in S \X Nat PROVE p[2] * shape[p[1]] \in Nat
      <4>1. p[1] \in S /\ p[2] \in Nat
        OBVIOUS
      <4>2. shape[p[1]] \in Nat
        BY <1>1, <4>1
      <4> HIDE DEF S, n
      <4> QED
        BY <4>1, <4>2
    <3> QED
      BY <3>1
  <2> HIDE DEF S
  <2> QED
    BY <2>1
<1> HIDE DEF B
<1>4. PICK g \in [SUBSET S -> Nat] : IsLeftFold(g, B, step, S)
  <2>1. n \in Nat /\ B \in Nat /\ S = 1 .. n
    BY <1>1
  <2> HIDE DEF step, S, n
  <2> QED
    BY <2>1, <1>3, LeftFoldExists
<1>5. Eq(g)
  <2>1. ASSUME NEW s \in SUBSET S, s # {} PROVE g[s] = g[s \ {Max(s)}] * shape[Max(s)]
    <3>1. Max(s) \in S /\ s \ {Max(s)} \in SUBSET S
      BY <1>1, <2>1, Segments
    <3>2. g[s \ {Max(s)}] \in Nat /\ g[s] = step[<<Max(s), g[s \ {Max(s)}]>>]
      BY <1>4, <2>1, <3>1 DEF IsLeftFold
    <3> HIDE DEF S
    <3> QED
      BY <3>1, <3>2
  <2> HIDE DEF S
  <2> QED
    BY <1>4, <2>1 DEF IsLeftFold
<1>6. Eq(it)
  <2> HIDE DEF Eq
  <2> QED
    BY <1>5
<1> DEFINE T == {k \in 0 .. n : it[1 .. k] = B * h[k]}
<1>7. it[{}] = B
  <2> HIDE DEF it
  <2> QED
    BY <1>6
<1>8. \A k \in 0 .. n : k \in T
  <2>1. 0 \in T
    <3>1. B * h[0] = B
      BY <1>1 DEF Multiplies
    <3> HIDE DEF it
    <3> QED
      BY <1>1, <1>7, <3>1, Segments
  <2>2. ASSUME NEW k \in 0 .. n - 1, k \in T PROVE k + 1 \in T
    <3>1. k + 1 \in 1 .. n /\ (k + 1) - 1 = k /\ k \in 0 .. n /\ it[1 .. k] = B * h[k]
      BY <2>2
    <3>2. it[1 .. k + 1] = it[1 .. k] * shape[k + 1]
      <4>1. /\ 1 .. k + 1 \in SUBSET S /\ 1 .. k + 1 # {} /\ Max(1 .. k + 1) = k + 1
            /\ (1 .. k + 1) \ {k + 1} = 1 .. k
        BY <1>1, <3>1, Segments
      <4> HIDE DEF it, S
      <4> QED
        BY <1>6, <4>1
    <3>3. h[k + 1] = h[k] * shape[k + 1] /\ h[k] \in Nat /\ shape[k + 1] \in Nat
      BY <1>1, <3>1 DEF Multiplies
    <3>4. (B * h[k]) * shape[k + 1] = B * (h[k] * shape[k + 1])
      BY <1>1, <3>3
    <3> HIDE DEF it
    <3> QED
      BY <3>1, <3>2, <3>3, <3>4
  <2> HIDE DEF T, n
  <2> QED
    BY <1>1, <2>1, <2>2, BoundedInduction
<1>9. it[1 .. n] = B * h[n]
  <2>1. n \in 0 .. n
    BY <1>1
  <2> HIDE DEF it
  <2> QED
    BY <1>8, <2>1
<1> QED
  BY <1>2, <1>9 DEF B

\* Whether a product exceeds a bound, asked of the quotient.
LEMMA ExceedsQuotient ==
    ASSUME NEW a \in Nat, NEW d \in Nat \ {0}, NEW M \in Nat
    PROVE  /\ M \div d \in Nat
           /\ a > M \div d <=> a * d > M
<1>1. M \div d \in Nat /\ M % d \in 0 .. d - 1 /\ M = d * (M \div d) + (M % d)
  OBVIOUS
<1>2. CASE a > M \div d
  <2>1. a >= M \div d + 1
    BY <1>1, <1>2
  <2>2. d * a >= d * (M \div d + 1)
    <3> DEFINE e == a - (M \div d + 1)
    <3>1. e \in Nat /\ a = (M \div d + 1) + e
      BY <1>1, <2>1
    <3>2. d * e >= 0
      <4> HIDE DEF e
      <4> QED
        BY <3>1
    <3>3. d * a = d * (M \div d + 1) + d * e
      <4> DEFINE q == M \div d
      <4>1. q \in Nat
        BY <1>1
      <4> HIDE DEF e, q
      <4>2. d * ((q + 1) + e) = d * (q + 1) + d * e
        BY <3>1, <4>1
      <4> QED
        BY <3>1, <4>2 DEF q
    <3> HIDE DEF e
    <3> QED
      BY <1>1, <3>1, <3>2, <3>3
  <2>3. d * (M \div d + 1) = d * (M \div d) + d
    BY <1>1
  <2>4. d * a = a * d
    OBVIOUS
  <2> QED
    BY <1>1, <1>2, <2>2, <2>3, <2>4
<1>3. CASE ~ (a > M \div d)
  <2> DEFINE q == M \div d
             e == q - a
  <2>1. q \in Nat /\ e \in Nat /\ q = a + e
    BY <1>1, <1>3
  <2>2. d * q = a * d + d * e /\ d * e >= 0
    <3> HIDE DEF q, e
    <3> QED
      BY <2>1
  <2>3. M = d * q + (M % d) /\ M % d >= 0
    BY <1>1
  <2> HIDE DEF q, e
  <2>4. a * d <= M
    BY <1>1, <2>1, <2>2, <2>3
  <2> QED
    BY <1>1, <1>3, <2>4
<1> QED
  BY <1>1, <1>2, <1>3

\* A product is no less than a factor when the other is positive.
LEMMA Grows ==
    ASSUME NEW a \in Nat, NEW d \in Nat \ {0}
    PROVE  a * d >= a /\ a * d \in Nat
<1>1. PICK e \in Nat : d = e + 1
  <2>1. d - 1 \in Nat /\ d = (d - 1) + 1
    OBVIOUS
  <2> QED
    BY <2>1
<1>2. a * (e + 1) = a * e + a /\ a * e \in Nat
  OBVIOUS
<1> QED
  BY <1>1, <1>2

\* Counting the elements of a shape finds the product of its dimensions, if it fits.
LEMMA CountingElements ==
    ASSUME NEW shape \in Seq(Nat), NEW h, Multiplies(h, shape), SIZE_MAX \in Nat \ {0}
    PROVE  Elements(shape) = IF h[Len(shape)] <= SIZE_MAX THEN h[Len(shape)] ELSE Overflow
<1> DEFINE n == Len(shape)
           S == 1 .. n
           D == {Overflow} \cup Nat
           Op(m, dim) == IF m = Overflow \/ m > SIZE_MAX \div dim THEN Overflow ELSE m * dim
           Eq(f) == f = [s \in SUBSET S |-> IF s = {} THEN 1 ELSE Op(f[s \ {Max(s)}], shape[Max(s)])]
           it == CHOOSE f : Eq(f)
           step == [p \in S \X D |-> Op(p[2], shape[p[1]])]
<1>1. DOMAIN shape = S /\ n \in Nat /\ (\A k \in S : shape[k] \in Nat) /\ Overflow \in Int /\ Overflow < 0
  BY DEF Overflow
<1>2. CASE 0 \in Range(shape)
  <2>1. PICK k \in S : shape[k] = 0
    BY <1>1, <1>2 DEF Range
  <2> DEFINE T == {j \in 0 .. n : j >= k => h[j] = 0}
  <2>2. \A j \in 0 .. n : j \in T
    <3>1. 0 \in T
      BY <1>1
    <3>2. ASSUME NEW j \in 0 .. n - 1, j \in T PROVE j + 1 \in T
      <4>1. j + 1 \in S /\ (j + 1) - 1 = j /\ j \in 0 .. n /\ k \in Nat
        BY <1>1, <3>2
      <4>2. h[j + 1] = h[j] * shape[j + 1] /\ h[j] \in Nat /\ shape[j + 1] \in Nat
        BY <1>1, <4>1 DEF Multiplies
      <4>3. CASE j + 1 = k
        <5>1. h[j + 1] = h[j] * 0
          BY <2>1, <4>2, <4>3
        <5> QED
          BY <3>2, <4>1, <4>2, <5>1
      <4>4. CASE j + 1 > k
        <5>1. h[j] = 0
          BY <3>2, <4>1, <4>4
        <5>2. h[j + 1] = 0 * shape[j + 1]
          BY <4>2, <5>1
        <5> QED
          BY <3>2, <4>1, <4>2, <5>2
      <4> QED
        BY <4>1, <4>3, <4>4
    <3> HIDE DEF T, n
    <3> QED
      BY <1>1, <3>1, <3>2, BoundedInduction
  <2>3. h[n] = 0
    <3>1. n \in 0 .. n /\ n >= k
      BY <1>1
    <3> QED
      BY <2>2, <3>1
  <2>4. Elements(shape) = 0
    BY <1>2, Zenon DEF Elements
  <2> QED
    BY <1>1, <2>3, <2>4
<1>3. CASE 0 \notin Range(shape)
  <2>1. \A k \in S : shape[k] \in Nat \ {0}
    BY <1>1, <1>3 DEF Range
  <2>2. Elements(shape) = it[S]
    <3>1. Elements(shape) = (CHOOSE f : f = [s \in SUBSET DOMAIN shape |->
                              IF s = {} THEN 1 ELSE Op(f[s \ {Max(s)}], shape[Max(s)])])[DOMAIN shape]
      BY <1>3 DEF Elements, FoldLeft, MapThenFoldSet
    <3> QED
      BY <1>1, <3>1
  <2>3. \A m \in D, dim \in Nat \ {0} : Op(m, dim) \in D
    <3>1. \A m \in Nat, dim \in Nat \ {0} : m * dim \in Nat
      OBVIOUS
    <3> QED
      BY <3>1
  <2> HIDE DEF Op, D
  <2>4. step \in [S \X D -> D]
    <3>1. ASSUME NEW p \in S \X D PROVE Op(p[2], shape[p[1]]) \in D
      <4>1. p[1] \in S /\ p[2] \in D
        OBVIOUS
      <4> HIDE DEF S
      <4> QED
        BY <2>1, <2>3, <4>1
    <3> HIDE DEF S
    <3> QED
      BY <3>1
  <2>5. PICK g \in [SUBSET S -> D] : IsLeftFold(g, 1, step, S)
    <3>1. n \in Nat /\ 1 \in D /\ S = 1 .. n
      BY <1>1 DEF D
    <3> HIDE DEF step, S, n
    <3> QED
      BY <2>4, <3>1, LeftFoldExists
  <2>6. Eq(g)
    <3>1. ASSUME NEW s \in SUBSET S, s # {} PROVE g[s] = Op(g[s \ {Max(s)}], shape[Max(s)])
      <4>1. Max(s) \in S /\ s \ {Max(s)} \in SUBSET S
        BY <1>1, <3>1, Segments
      <4>2. g[s \ {Max(s)}] \in D /\ g[s] = step[<<Max(s), g[s \ {Max(s)}]>>]
        BY <2>5, <3>1, <4>1 DEF IsLeftFold
      <4> HIDE DEF S
      <4> QED
        BY <4>1, <4>2
    <3> HIDE DEF S
    <3> QED
      BY <2>5, <3>1 DEF IsLeftFold
  <2>7. Eq(it)
    <3> HIDE DEF Eq
    <3> QED
      BY <2>6
  <2>8. it[{}] = 1
    <3> HIDE DEF it
    <3> QED
      BY <2>7
  <2> DEFINE Counted(m) == IF m <= SIZE_MAX THEN m ELSE Overflow
             T == {k \in 0 .. n : h[k] \in Nat \ {0} /\ it[1 .. k] = Counted(h[k])}
  <2>9. ASSUME NEW m \in Nat \ {0}, NEW dim \in Nat \ {0}
        PROVE  m * dim \in Nat \ {0} /\ Op(Counted(m), dim) = Counted(m * dim)
    <3>1. m * dim >= m /\ m * dim \in Nat
      BY Grows
    <3>2. m > SIZE_MAX \div dim <=> m * dim > SIZE_MAX
      BY ExceedsQuotient
    <3> QED
      <4>1. CASE m <= SIZE_MAX
        <5>1. Counted(m) = m /\ m # Overflow
          BY <1>1, <4>1
        <5> HIDE DEF Counted
        <5>2. Op(Counted(m), dim) = IF m > SIZE_MAX \div dim THEN Overflow ELSE m * dim
          BY <5>1 DEF Op
        <5> QED
          BY <3>1, <3>2, <5>2, <2>9 DEF Counted
      <4>2. CASE ~ (m <= SIZE_MAX)
        <5>1. Counted(m) = Overflow /\ ~ (m * dim <= SIZE_MAX)
          BY <3>1, <4>2
        <5> QED
          BY <5>1, <3>1, <2>9 DEF Op
      <4> QED
        BY <4>1, <4>2
  <2> HIDE DEF Counted
  <2>10. \A k \in 0 .. n : k \in T
    <3>1. 0 \in T
      <4>1. h[0] = 1 /\ Counted(1) = 1 /\ 1 .. 0 = {} /\ 0 \in 0 .. n
        BY <1>1, Segments DEF Multiplies, Counted
      <4> HIDE DEF it
      <4> QED
        BY <2>8, <4>1
    <3>2. ASSUME NEW k \in 0 .. n - 1, k \in T PROVE k + 1 \in T
      <4>1. /\ k + 1 \in 1 .. n /\ (k + 1) - 1 = k /\ k \in 0 .. n /\ k + 1 \in 0 .. n
            /\ h[k] \in Nat \ {0} /\ it[1 .. k] = Counted(h[k])
        BY <1>1, <3>2
      <4>2. it[1 .. k + 1] = Op(it[1 .. k], shape[k + 1])
        <5>1. /\ 1 .. k + 1 \in SUBSET S /\ 1 .. k + 1 # {} /\ Max(1 .. k + 1) = k + 1
              /\ (1 .. k + 1) \ {k + 1} = 1 .. k
          BY <1>1, <4>1, Segments
        <5> HIDE DEF it, S
        <5> QED
          BY <2>7, <5>1
      <4>3. h[k + 1] = h[k] * shape[k + 1] /\ shape[k + 1] \in Nat \ {0}
        BY <2>1, <4>1 DEF Multiplies
      <4> HIDE DEF it
      <4>4. h[k + 1] \in Nat \ {0} /\ it[1 .. k + 1] = Counted(h[k + 1])
        <5>1. /\ h[k] * shape[k + 1] \in Nat \ {0}
              /\ Op(Counted(h[k]), shape[k + 1]) = Counted(h[k] * shape[k + 1])
          BY <2>9, <4>1, <4>3
        <5> QED
          BY <4>1, <4>2, <4>3, <5>1
      <4> QED
        BY <4>1, <4>4
    <3> HIDE DEF T, n
    <3> QED
      BY <1>1, <3>1, <3>2, BoundedInduction
  <2>11. it[1 .. n] = Counted(h[n])
    <3>1. n \in 0 .. n
      BY <1>1
    <3> HIDE DEF it
    <3> QED
      BY <2>10, <3>1
  <2> QED
    BY <2>2, <2>11 DEF Counted
<1> QED
  BY <1>2, <1>3
-----------------------------------------------------------------------------
\* Two ranges that are not empty have no byte in common when one ends where the other begins.
LEMMA RangesApart ==
    ASSUME NEW a \in Int, NEW b \in Int, NEW c \in Int, NEW d \in Int
    PROVE  /\ b <= c => BytesOf(a, b) \cap BytesOf(c, d) = {}
           /\ a <= c /\ c < d /\ BytesOf(a, b) \cap BytesOf(c, d) = {} => b <= c
<1>1. ASSUME b <= c PROVE BytesOf(a, b) \cap BytesOf(c, d) = {}
  BY <1>1 DEF BytesOf
<1>2. ASSUME a <= c, c < d, b > c PROVE c \in BytesOf(a, b) \cap BytesOf(c, d)
  BY <1>2 DEF BytesOf
<1> QED
  BY <1>1, <1>2

\* The elements of a sequence.
LEMMA ElementsOf ==
    ASSUME NEW S, NEW s \in Seq(S)
    PROVE  Len(s) \in Nat /\ DOMAIN s = 1 .. Len(s) /\ \A k \in 1 .. Len(s) : s[k] \in S
OBVIOUS

\* An entry whose shape and offsets are numbers: what its shape needs.
LEMMA EntryNeeds ==
    ASSUME SafetensorsAssumption, NEW shape \in Seq(-1 .. INT_MAX), -1 \notin Range(shape), NEW dtype \in Supported
    PROVE  \E c \in Nat : /\ Needs(dtype, shape) = c * ByteSize(dtype)
                          /\ Elements(shape) = IF c <= SIZE_MAX THEN c ELSE Overflow
<1>1. shape \in Seq(Nat) /\ Len(shape) \in 0 .. Len(shape)
  <2>1. INT_MAX \in Int
    BY DEF INT_MAX, SafetensorsAssumption
  <2>2. Len(shape) \in Nat /\ \A k \in 1 .. Len(shape) : shape[k] \in -1 .. INT_MAX /\ shape[k] # -1
    BY ElementsOf DEF Range
  <2>3. \A k \in 1 .. Len(shape) : shape[k] \in Nat
    BY <2>1, <2>2
  <2> QED
    BY <2>2, <2>3
<1>2. PICK h : Multiplies(h, shape)
  BY <1>1, ProductsExist
<1>3. h[Len(shape)] \in Nat /\ SIZE_MAX \in Nat \ {0}
  BY <1>1, <1>2 DEF Multiplies, SafetensorsAssumption
<1>4. Needs(dtype, shape) = ByteSize(dtype) * h[Len(shape)]
  BY <1>1, <1>2, NeedsIsProduct
<1>5. Elements(shape) = IF h[Len(shape)] <= SIZE_MAX THEN h[Len(shape)] ELSE Overflow
  BY <1>1, <1>2, <1>3, CountingElements
<1>6. ByteSize(dtype) \in Nat
  BY DEF ByteSize
<1> QED
  BY <1>3, <1>4, <1>5, <1>6

\* The sizes of the elements are those of the supported types.
LEMMA SizesOfElements ==
    ASSUME NEW dtype \in Supported
    PROVE  ByteSize(dtype) \in Nat \ {0}
BY DEF ByteSize

\* A range that lies in the file passes the comparisons of the loader, none of which wraps.
LEMMA RangeFits ==
    ASSUME NEW start \in Nat, NEW length \in Nat, NEW signed \in Nat, NEW unsigned \in Nat,
           NEW from \in Nat, NEW to \in Nat, NEW x \in Nat,
           to = from + x, start + to <= length, length <= signed, signed <= unsigned
    PROVE  from <= to /\ x <= unsigned /\ to <= length - start /\ from <= unsigned - start /\ start + from <= signed
OBVIOUS

\* Offsets that are none of them negative are naturals.
LEMMA Offsets ==
    ASSUME SafetensorsAssumption, NEW o \in Seq(-1 .. INT_MAX), Len(o) = 2, -1 \notin Range(o)
    PROVE  o[1] \in Nat /\ o[2] \in Nat
<1>1. DOMAIN o = 1 .. 2 /\ 1 \in DOMAIN o /\ 2 \in DOMAIN o
  OBVIOUS
<1>2. INT_MAX \in Int
  BY DEF INT_MAX, SafetensorsAssumption
<1>3. o[1] \in -1 .. INT_MAX /\ o[2] \in -1 .. INT_MAX
  <2>1. \A k \in 1 .. Len(o) : o[k] \in -1 .. INT_MAX
    BY ElementsOf
  <2> QED
    BY <1>1, <2>1
<1>4. o[1] # -1 /\ o[2] # -1
  BY <1>1 DEF Range
<1> QED
  BY <1>2, <1>3, <1>4

\* What load_safetensors accepts: an entry whose range is as large as its shape needs.
LEMMA AcceptedEntry ==
    ASSUME SafetensorsAssumption, NEW e, e.shape \in Seq(-1 .. INT_MAX), e.data_offsets \in Seq(-1 .. INT_MAX),
           ValidEntry(e)
    PROVE  /\ e.data_offsets[1] \in Nat /\ e.data_offsets[2] \in Nat
           /\ e.data_offsets[2] - e.data_offsets[1] = Needs(e.dtype, e.shape)
<1>1. /\ e.dtype \in Supported /\ -1 \notin Range(e.shape) /\ Elements(e.shape) # Overflow
      /\ e.data_offsets[2] - e.data_offsets[1] = Elements(e.shape) * ByteSize(e.dtype)
  BY DEF ValidEntry
<1>2. PICK c \in Nat : /\ Needs(e.dtype, e.shape) = c * ByteSize(e.dtype)
                       /\ Elements(e.shape) = IF c <= SIZE_MAX THEN c ELSE Overflow
  BY <1>1, EntryNeeds
<1>3. Elements(e.shape) = c
  BY <1>1, <1>2
<1>4. e.data_offsets[1] \in Nat /\ e.data_offsets[2] \in Nat
  BY Offsets DEF ValidEntry
<1> QED
  BY <1>1, <1>2, <1>3, <1>4

\* And it accepts every entry that describes a range in the file.
LEMMA DescribedEntry ==
    ASSUME SafetensorsAssumption, NEW f, f.total \in 0 .. INT_MAX, f.header_len \in 0 .. SIZE_MAX,
           NEW e, e.shape \in Seq(-1 .. INT_MAX), e.data_offsets \in Seq(-1 .. INT_MAX), Describes(f, e)
    PROVE  /\ ValidEntry(e) /\ InFile(f, e)
           /\ e.data_offsets[1] \in Nat /\ e.data_offsets[2] \in Nat
<1>1. /\ e.dtype \in Supported /\ -1 \notin Range(e.shape)
      /\ Len(e.data_offsets) = 2 /\ -1 \notin Range(e.data_offsets)
      /\ e.data_offsets[2] = e.data_offsets[1] + Needs(e.dtype, e.shape)
      /\ DataStart(f) + e.data_offsets[2] <= f.total
  BY DEF Describes
<1>2. PICK c \in Nat : /\ Needs(e.dtype, e.shape) = c * ByteSize(e.dtype)
                       /\ Elements(e.shape) = IF c <= SIZE_MAX THEN c ELSE Overflow
  BY <1>1, EntryNeeds
<1>3. e.data_offsets[1] \in Nat /\ e.data_offsets[2] \in Nat
  BY <1>1, Offsets
<1>4. ByteSize(e.dtype) \in Nat \ {0}
  BY <1>1, SizesOfElements
<1>5. /\ SIZE_MAX \in Nat \ {0} /\ LENGTH_BYTES \in Nat /\ f.total \in Nat
      /\ f.total <= INT_MAX /\ INT_MAX \in Nat /\ INT_MAX <= SIZE_MAX /\ f.header_len \in Nat
  BY DEF SafetensorsAssumption, INT_MAX
<1>6. DataStart(f) \in Nat
  BY <1>5 DEF DataStart
<1> DEFINE B == ByteSize(e.dtype)
           x == c * B
<1>7. x >= c /\ x \in Nat
  BY <1>4, Grows
<1> HIDE DEF x
<1>8. /\ e.data_offsets[1] <= e.data_offsets[2] /\ x <= SIZE_MAX
      /\ e.data_offsets[2] <= f.total - DataStart(f)
      /\ e.data_offsets[1] <= SIZE_MAX - DataStart(f) /\ DataStart(f) + e.data_offsets[1] <= INT_MAX
  <2> DEFINE from == e.data_offsets[1]
             to == e.data_offsets[2]
             start == DataStart(f)
             length == f.total
  <2>1. to = from + x
    BY <1>1, <1>2 DEF x
  <2>2. /\ from \in Nat /\ to \in Nat /\ start \in Nat /\ length \in Nat
        /\ start + to <= length /\ length <= INT_MAX
    BY <1>1, <1>3, <1>5, <1>6
  <2> HIDE DEF from, to, start, length
  <2>3. from <= to /\ x <= SIZE_MAX /\ to <= length - start /\ from <= SIZE_MAX - start /\ start + from <= INT_MAX
    BY <1>5, <1>7, <2>1, <2>2, RangeFits
  <2> QED
    BY <2>3 DEF from, to, start, length
<1>9. Elements(e.shape) = c /\ c # Overflow
  <2>1. c <= SIZE_MAX
    <3>1. c \in Nat /\ x \in Nat /\ x >= c /\ x <= SIZE_MAX /\ SIZE_MAX \in Nat
      BY <1>5, <1>7, <1>8
    <3> QED
      BY ONLY <3>1
  <2> QED
    BY <1>2, <2>1 DEF Overflow
<1>10. c <= SIZE_MAX \div B
  <2>1. ~ (c * B > SIZE_MAX)
    <3>1. ~ (x > SIZE_MAX)
      BY <1>5, <1>7, <1>8
    <3> QED
      BY <3>1 DEF x
  <2> HIDE DEF B
  <2>2. B \in Nat \ {0}
    BY <1>4 DEF B
  <2>3. SIZE_MAX \div B \in Nat /\ ~ (c > SIZE_MAX \div B)
    BY <1>5, <2>1, <2>2, ExceedsQuotient
  <2> QED
    BY <2>3
<1>11. ValidEntry(e)
  <2>1. e.data_offsets[2] - e.data_offsets[1] = c * B
    BY <1>1, <1>2, <1>3, <1>7 DEF x
  <2> QED
    BY <1>1, <1>8, <1>9, <1>10, <2>1 DEF ValidEntry
<1>12. InFile(f, e)
  BY <1>8 DEF InFile
<1> QED
  BY <1>3, <1>11, <1>12
-----------------------------------------------------------------------------
\* All tensors of a file, or none.
Accepted(f) ==
    /\ HeaderIsThere(f)
    /\ ValidHeader(f.header)
    /\ \A name \in TensorNames(f.header) : InFile(f, f.header.entries[name])

Storages(f) == [name \in TensorNames(f.header) |-> TensorStorage(f, f.header.entries[name])]

\* What has been returned belongs to the file.
FilesInv ==
    \/ file = NoFile /\ loaded = nullopt
    \/ /\ file \in Files
       /\ loaded = IF Accepted(file) THEN [ok |-> TRUE, tensors |-> Storages(file)] ELSE nullopt

\* The tensors of an accepted file: as large as their shapes need, in the file and apart.
LEMMA AcceptedTensors ==
    ASSUME SafetensorsAssumption, NEW f, IsFile(f), Accepted(f), NEW m \in TensorNames(f.header)
    PROVE  /\ Storages(f)[m].to - Storages(f)[m].from = Needs(Storages(f)[m].dtype, Storages(f)[m].shape)
           /\ BytesOf(Storages(f)[m].from, Storages(f)[m].to) \subseteq DataStart(f) .. f.total - 1
           /\ \A n \in TensorNames(f.header) \ {m} :
                BytesOf(Storages(f)[m].from, Storages(f)[m].to) \cap BytesOf(Storages(f)[n].from, Storages(f)[n].to) = {}
<1> DEFINE o(n) == f.header.entries[n].data_offsets
<1>1. ASSUME NEW n \in TensorNames(f.header)
      PROVE  /\ o(n)[1] \in Nat /\ o(n)[2] \in Nat
             /\ o(n)[2] - o(n)[1] = Needs(f.header.entries[n].dtype, f.header.entries[n].shape)
             /\ o(n)[2] <= f.total - DataStart(f)
  <2>1. ValidEntry(f.header.entries[n]) /\ InFile(f, f.header.entries[n])
    BY <1>1 DEF Accepted, ValidHeader
  <2>2. f.header.entries[n].shape \in Seq(-1 .. INT_MAX) /\ o(n) \in Seq(-1 .. INT_MAX)
    BY <1>1 DEF IsFile
  <2>3. o(n)[2] <= f.total - DataStart(f)
    BY <2>1 DEF InFile
  <2> QED
    BY <2>1, <2>2, <2>3, AcceptedEntry
<1>2. DataStart(f) \in Nat /\ f.total \in Int
  BY DEF DataStart, IsFile, SafetensorsAssumption, INT_MAX
<1>3. ASSUME NEW n \in TensorNames(f.header)
      PROVE  /\ Storages(f)[n].from = DataStart(f) + o(n)[1]
             /\ Storages(f)[n].to = DataStart(f) + o(n)[2]
             /\ Storages(f)[n].dtype = f.header.entries[n].dtype
             /\ Storages(f)[n].shape = f.header.entries[n].shape
  BY <1>3 DEF Storages, TensorStorage
<1>4. Storages(f)[m].to - Storages(f)[m].from = Needs(Storages(f)[m].dtype, Storages(f)[m].shape)
  <2>1. (DataStart(f) + o(m)[2]) - (DataStart(f) + o(m)[1]) = o(m)[2] - o(m)[1]
    BY <1>1, <1>2
  <2> QED
    BY <1>1, <1>3, <2>1
<1>5. BytesOf(Storages(f)[m].from, Storages(f)[m].to) \subseteq DataStart(f) .. f.total - 1
  <2>1. BytesOf(DataStart(f) + o(m)[1], DataStart(f) + o(m)[2]) \subseteq DataStart(f) .. f.total - 1
    BY <1>1, <1>2 DEF BytesOf
  <2> QED
    BY <1>3, <2>1
<1>6. ASSUME NEW n \in TensorNames(f.header) \ {m}
      PROVE  BytesOf(Storages(f)[m].from, Storages(f)[m].to) \cap BytesOf(Storages(f)[n].from, Storages(f)[n].to) = {}
  <2>1. DisjointRanges(f.header)
    BY DEF Accepted, ValidHeader
  <2>2. o(m)[2] <= o(n)[1] \/ o(n)[2] <= o(m)[1]
    <3>1. \/ o(m)[1] < o(n)[1] \/ (o(m)[1] = o(n)[1] /\ o(m)[2] <= o(n)[2])
          \/ o(n)[1] < o(m)[1] \/ (o(n)[1] = o(m)[1] /\ o(n)[2] <= o(m)[2])
      <4>1. o(m)[1] \in Nat /\ o(m)[2] \in Nat /\ o(n)[1] \in Nat /\ o(n)[2] \in Nat
        BY <1>1, <1>6
      <4> HIDE DEF o
      <4> QED
        BY <4>1
    <3> QED
      BY <1>6, <2>1, <3>1 DEF DisjointRanges
  <2>3. BytesOf(DataStart(f) + o(m)[1], DataStart(f) + o(m)[2])
          \cap BytesOf(DataStart(f) + o(n)[1], DataStart(f) + o(n)[2]) = {}
    BY <1>1, <1>2, <1>6, <2>2 DEF BytesOf
  <2> QED
    BY <1>3, <1>6, <2>3
<1> QED
  BY <1>4, <1>5, <1>6

\* A header as the format has it, whose tensors describe ranges that are apart, is accepted.
LEMMA DescribedFiles ==
    ASSUME SafetensorsAssumption, NEW f, IsFile(f),
           f.header_len \in 1..MaxHeaderBytes, DataStart(f) <= f.total, f.header.parsed,
           \A n \in TensorNames(f.header) :
               /\ Describes(f, f.header.entries[n])
               /\ BytesOf(f.header.entries[n].data_offsets[1], f.header.entries[n].data_offsets[2]) # {},
           \A m, n \in TensorNames(f.header) : m # n =>
               BytesOf(f.header.entries[m].data_offsets[1], f.header.entries[m].data_offsets[2])
                 \cap BytesOf(f.header.entries[n].data_offsets[1], f.header.entries[n].data_offsets[2]) = {}
    PROVE  Accepted(f)
<1> DEFINE o(n) == f.header.entries[n].data_offsets
<1>1. /\ f.total \in 0 .. INT_MAX /\ f.header_len \in 0 .. SIZE_MAX /\ SIZE_MAX \in Nat
      /\ INT_MAX \in Nat /\ INT_MAX <= SIZE_MAX /\ LENGTH_BYTES \in Nat /\ MaxHeaderBytes \in Nat
  BY DEF IsFile, SafetensorsAssumption, INT_MAX
<1>2. ASSUME NEW n \in TensorNames(f.header)
      PROVE  /\ ValidEntry(f.header.entries[n]) /\ InFile(f, f.header.entries[n])
             /\ o(n)[1] \in Nat /\ o(n)[2] \in Nat /\ o(n)[1] < o(n)[2]
  <2>1. f.header.entries[n].shape \in Seq(-1 .. INT_MAX) /\ o(n) \in Seq(-1 .. INT_MAX)
    BY <1>2 DEF IsFile
  <2>2. Describes(f, f.header.entries[n]) /\ BytesOf(o(n)[1], o(n)[2]) # {}
    BY <1>2
  <2>3. /\ ValidEntry(f.header.entries[n]) /\ InFile(f, f.header.entries[n])
        /\ o(n)[1] \in Nat /\ o(n)[2] \in Nat
    BY <1>1, <2>1, <2>2, DescribedEntry
  <2>4. o(n)[1] < o(n)[2]
    BY <2>2, <2>3 DEF BytesOf
  <2> QED
    BY <2>3, <2>4
<1>3. DisjointRanges(f.header)
  <2>1. ASSUME NEW m \in TensorNames(f.header), NEW n \in TensorNames(f.header), m # n, o(m)[1] <= o(n)[1]
        PROVE  o(m)[2] <= o(n)[1]
    <3>1. BytesOf(o(m)[1], o(m)[2]) \cap BytesOf(o(n)[1], o(n)[2]) = {}
      BY <2>1
    <3>2. o(m)[1] \in Int /\ o(m)[2] \in Int /\ o(n)[1] \in Int /\ o(n)[2] \in Int /\ o(n)[1] < o(n)[2]
      BY <1>2, <2>1
    <3> HIDE DEF o
    <3> QED
      BY <2>1, <3>1, <3>2, RangesApart
  <2>2. ASSUME NEW m \in TensorNames(f.header), NEW n \in TensorNames(f.header), m # n,
               o(m)[1] < o(n)[1] \/ (o(m)[1] = o(n)[1] /\ o(m)[2] <= o(n)[2])
        PROVE  o(m)[2] <= o(n)[1]
    BY <1>2, <2>1, <2>2
  <2> QED
    BY <2>2 DEF DisjointRanges
<1>4. HeaderIsThere(f)
  BY <1>1 DEF HeaderIsThere, DataStart
<1>5. ValidHeader(f.header)
  BY <1>2, <1>3 DEF ValidHeader
<1> QED
  BY <1>2, <1>4, <1>5 DEF Accepted

\* The invariant is what is claimed of the files.
LEMMA FilesInvMeans ==
    ASSUME SafetensorsAssumption, FilesAssumption, FilesInv
    PROVE  LoadedTensorsAreTheFile
<1>1. CASE file = NoFile /\ loaded = nullopt
  <2>1. DOMAIN loaded.tensors = {}
    BY <1>1 DEF nullopt
  <2> QED
    BY <1>1, <2>1 DEF LoadedTensorsAreTheFile
<1>2. CASE file \in Files /\ Accepted(file) /\ loaded = [ok |-> TRUE, tensors |-> Storages(file)]
  <2>1. IsFile(file) /\ loaded.ok /\ loaded.tensors = Storages(file)
    BY <1>2 DEF FilesAssumption
  <2>2. DOMAIN Storages(file) = TensorNames(file.header)
    BY DEF Storages
  <2>3. \A m \in TensorNames(file.header) :
          /\ Storages(file)[m].to - Storages(file)[m].from = Needs(Storages(file)[m].dtype, Storages(file)[m].shape)
          /\ BytesOf(Storages(file)[m].from, Storages(file)[m].to) \subseteq DataStart(file) .. file.total - 1
          /\ \A n \in TensorNames(file.header) \ {m} :
               BytesOf(Storages(file)[m].from, Storages(file)[m].to)
                 \cap BytesOf(Storages(file)[n].from, Storages(file)[n].to) = {}
    BY <1>2, <2>1, AcceptedTensors
  <2> QED
    BY <2>1, <2>2, <2>3 DEF LoadedTensorsAreTheFile
<1>3. CASE file \in Files /\ ~ Accepted(file) /\ loaded = nullopt
  <2>1. DOMAIN loaded.tensors = {} /\ IsFile(file)
    BY <1>3 DEF nullopt, FilesAssumption
  <2>2. ASSUME file.header_len \in 1..MaxHeaderBytes, DataStart(file) <= file.total, file.header.parsed,
               \A n \in TensorNames(file.header) :
                 /\ Describes(file, file.header.entries[n])
                 /\ BytesOf(file.header.entries[n].data_offsets[1], file.header.entries[n].data_offsets[2]) # {},
               \A m, n \in TensorNames(file.header) : m # n =>
                 BytesOf(file.header.entries[m].data_offsets[1], file.header.entries[m].data_offsets[2])
                   \cap BytesOf(file.header.entries[n].data_offsets[1], file.header.entries[n].data_offsets[2]) = {}
        PROVE  FALSE
    BY <1>3, <2>1, <2>2, DescribedFiles
  <2> QED
    BY <2>1, <2>2 DEF LoadedTensorsAreTheFile
<1> QED
  BY <1>1, <1>2, <1>3 DEF FilesInv

\* What load_safetensors (safetensors.cpp) returns is the file, for every file, every width of a
\* size_t and every header: each tensor is as large as its shape needs and lies behind the header in
\* the file, apart from all others; and a file that describes such tensors is loaded.
THEOREM FilesAreLoaded == SafetensorsSpec => []LoadedTensorsAreTheFile
<1> USE SafetensorsAssumption, FilesAssumption
<1>1. SafetensorsInit => FilesInv
  BY DEF SafetensorsInit, FilesInv
<1>2. FilesInv /\ [SafetensorsNext]_<<file, loaded>> => FilesInv'
  <2> SUFFICES ASSUME FilesInv, [SafetensorsNext]_<<file, loaded>> PROVE FilesInv'
    OBVIOUS
  <2>1. ASSUME NEW f \in Files, LoadSafetensors(f) PROVE FilesInv'
    BY <2>1 DEF LoadSafetensors, FilesInv, Accepted, Storages
  <2>2. CASE Release
    BY <2>2 DEF Release, FilesInv
  <2>3. CASE UNCHANGED <<file, loaded>>
    BY <2>3 DEF FilesInv
  <2> QED
    BY <2>1, <2>2, <2>3 DEF SafetensorsNext
<1>3. FilesInv => LoadedTensorsAreTheFile
  BY FilesInvMeans
<1> QED
  BY <1>1, <1>2, <1>3, PTL DEF SafetensorsSpec

-----------------------------------------------------------------------------
(* Sequences that are put together, and what respects it.                  *)

\* h[k] is what the first k of the sequences ss are, put together.
Joins(h, ss, A) ==
    /\ h \in [0 .. Len(ss) -> Seq(A)] /\ h[0] = <<>>
    /\ \A k \in 1 .. Len(ss) : h[k] = h[k - 1] \o ss[k]

\* Sequences can be put together one after the other.
LEMMA JoinExists ==
    ASSUME NEW A, NEW ss \in Seq(Seq(A))
    PROVE  \E h : Joins(h, ss, A)
<1> DEFINE n == Len(ss)
           S == 1 .. n
           D == Seq(A)
           step == [p \in S \X D |-> p[2] \o ss[p[1]]]
<1>1. n \in Nat /\ S = 1 .. n /\ <<>> \in D /\ \A k \in S : ss[k] \in D
  OBVIOUS
<1>2. step \in [S \X D -> D]
  <2>1. ASSUME NEW p \in S \X D PROVE p[2] \o ss[p[1]] \in D
    <3>1. p[1] \in S /\ p[2] \in D
      OBVIOUS
    <3>2. ss[p[1]] \in D
      BY <1>1, <3>1
    <3> QED
      BY <3>1, <3>2, ConcatProperties
  <2> HIDE DEF S, D
  <2> QED
    BY <2>1
<1>3. PICK h \in [0 .. n -> D] : Accumulates(h, <<>>, step, n)
  <2> HIDE DEF step, S, D, n
  <2> QED
    BY <1>1, <1>2, Accumulation
<1>4. ASSUME NEW k \in 1 .. n PROVE h[k] = h[k - 1] \o ss[k]
  <2>1. k \in S /\ k - 1 \in 0 .. n
    BY <1>1
  <2>2. h[k - 1] \in D
    BY <1>3, <2>1
  <2>3. h[k] = step[<<k, h[k - 1]>>]
    BY <1>3 DEF Accumulates
  <2>4. <<k, h[k - 1]>> \in S \X D
    BY <2>1, <2>2
  <2> HIDE DEF S, D
  <2> QED
    BY <2>3, <2>4
<1> QED
  BY <1>3, <1>4 DEF Joins, Accumulates

\* The last of them is all sequences put together.
LEMMA FlattenIs ==
    ASSUME NEW A, NEW ss \in Seq(Seq(A)), NEW h, Joins(h, ss, A)
    PROVE  FlattenSeq(ss) = h[Len(ss)]
<1> DEFINE n == Len(ss)
           Eq(f) == f = [i \in 1 .. n |-> IF i = 1 THEN ss[i] ELSE f[i - 1] \o ss[i]]
           it == CHOOSE f : Eq(f)
           g == [i \in 1 .. n |-> h[i]]
<1>1. n \in Nat /\ \A k \in 1 .. n : ss[k] \in Seq(A)
  OBVIOUS
<1>2. CASE n = 0
  <2>1. ss = <<>>
    BY <1>2
  <2> QED
    BY <1>2, <2>1 DEF FlattenSeq, Joins
<1>3. CASE n # 0
  <2>1. FlattenSeq(ss) = it[n]
    BY <1>3 DEF FlattenSeq
  <2>2. ASSUME NEW i \in 1 .. n PROVE g[i] = IF i = 1 THEN ss[i] ELSE g[i - 1] \o ss[i]
    <3>1. h[i] = h[i - 1] \o ss[i] /\ h[0] = <<>>
      BY DEF Joins
    <3>2. CASE i = 1
      <4>1. <<>> \o ss[1] = ss[1]
        BY <1>1, <1>3, ConcatEmptySeq
      <4>2. g[i] = h[i]
        OBVIOUS
      <4>3. g[i] = ss[i]
        <5>1. i - 1 = 0
          BY <3>2
        <5>2. h[i - 1] = <<>>
          BY <3>1, <5>1
        <5> HIDE DEF g
        <5> QED
          BY <3>1, <3>2, <4>1, <4>2, <5>2
      <4> HIDE DEF g
      <4> QED
        BY <3>2, <4>3
    <3>3. CASE i # 1
      <4>1. i - 1 \in 1 .. n
        BY <1>1, <3>3
      <4>2. g[i] = h[i] /\ g[i - 1] = h[i - 1]
        BY <4>1
      <4>3. g[i] = g[i - 1] \o ss[i]
        <5> HIDE DEF g
        <5> QED
          BY <3>1, <4>2
      <4> HIDE DEF g
      <4> QED
        BY <3>3, <4>3
    <3> QED
      BY <3>2, <3>3
  <2>3. Eq(g)
    <3>1. g = [i \in 1 .. n |-> g[i]]
      OBVIOUS
    <3> HIDE DEF g
    <3> QED
      BY <2>2, <3>1
  <2>4. Eq(it)
    <3> HIDE DEF Eq
    <3> QED
      BY <2>3
  <2> DEFINE T == {i \in 0 .. n : i > 0 => it[i] = g[i]}
  <2> HIDE DEF it
  <2>5. \A i \in 0 .. n : i \in T
    <3>1. 0 \in T
      BY <1>1
    <3>2. ASSUME NEW i \in 0 .. n - 1, i \in T PROVE i + 1 \in T
      <4>1. i + 1 \in 1 .. n /\ (i + 1) - 1 = i /\ (i + 1 = 1 <=> i = 0)
        BY <3>2
      <4>2. /\ it[i + 1] = IF i + 1 = 1 THEN ss[i + 1] ELSE it[i] \o ss[i + 1]
            /\ g[i + 1] = IF i + 1 = 1 THEN ss[i + 1] ELSE g[i] \o ss[i + 1]
        <5> HIDE DEF g
        <5> QED
          BY <2>2, <2>4, <4>1
      <4> HIDE DEF g
      <4> QED
        BY <3>2, <4>1, <4>2
    <3> HIDE DEF T, n
    <3> QED
      BY <1>1, <3>1, <3>2, BoundedInduction
  <2>6. it[n] = g[n]
    <3>1. n \in 0 .. n /\ n > 0
      BY <1>1, <1>3
    <3> HIDE DEF g
    <3> QED
      BY <2>5, <3>1
  <2> QED
    BY <1>1, <1>3, <2>1, <2>6
<1> QED
  BY <1>2, <1>3

\* The parts of an accumulation of sequences are sequences, and so is the whole.
LEMMA FlattenType ==
    ASSUME NEW A, NEW ss \in Seq(Seq(A))
    PROVE  FlattenSeq(ss) \in Seq(A)
<1>1. PICK h : Joins(h, ss, A)
  BY JoinExists
<1>2. FlattenSeq(ss) = h[Len(ss)] /\ Len(ss) \in 0 .. Len(ss)
  BY <1>1, FlattenIs
<1> QED
  BY <1>1, <1>2 DEF Joins

\* One sequence, put together, is itself.
LEMMA FlattenOne ==
    ASSUME NEW A, NEW s \in Seq(A)
    PROVE  FlattenSeq(<<s>>) = s
<1> DEFINE h == [k \in 0 .. 1 |-> IF k = 0 THEN <<>> ELSE s]
<1>1. <<>> \o s = s
  BY ConcatEmptySeq
<1>2. Joins(h, <<s>>, A)
  BY <1>1 DEF Joins
<1>3. <<s>> \in Seq(Seq(A)) /\ Len(<<s>>) = 1 /\ h[1] = s
  OBVIOUS
<1> HIDE DEF h
<1> QED
  BY <1>2, <1>3, FlattenIs

Associative(A) == \A x, y, z \in Seq(A) : (x \o y) \o z = x \o (y \o z)

\* Putting sequences together is associative.
LEMMA ConcatThree ==
    ASSUME NEW A
    PROVE  Associative(A)
<1>1. ASSUME NEW x \in Seq(A), NEW y \in Seq(A), NEW z \in Seq(A)
      PROVE  (x \o y) \o z = x \o (y \o z)
  BY <1>1, ConcatAssociative
<1> QED
  BY <1>1 DEF Associative

\* Sequences put together in two parts.
LEMMA FlattenConcat ==
    ASSUME NEW A, NEW ss \in Seq(Seq(A)), NEW tt \in Seq(Seq(A))
    PROVE  FlattenSeq(ss \o tt) = FlattenSeq(ss) \o FlattenSeq(tt)
<1> DEFINE m == Len(ss)
           n == Len(tt)
<1>1. PICK g : Joins(g, ss, A)
  BY JoinExists
<1>2. PICK h : Joins(h, tt, A)
  BY JoinExists
<1>3. m \in Nat /\ n \in Nat /\ FlattenSeq(ss) = g[m] /\ FlattenSeq(tt) = h[n]
  BY <1>1, <1>2, FlattenIs
<1>4. /\ ss \o tt \in Seq(Seq(A)) /\ Len(ss \o tt) = m + n
      /\ \A k \in 1 .. m + n : (ss \o tt)[k] = IF k <= m THEN ss[k] ELSE tt[k - m]
  BY ConcatProperties
<1>5. /\ g \in [0 .. m -> Seq(A)] /\ g[0] = <<>> /\ \A k \in 1 .. m : g[k] = g[k - 1] \o ss[k]
      /\ h \in [0 .. n -> Seq(A)] /\ h[0] = <<>> /\ \A k \in 1 .. n : h[k] = h[k - 1] \o tt[k]
      /\ \A k \in 1 .. n : tt[k] \in Seq(A)
  <2>1. \A k \in 1 .. n : tt[k] \in Seq(A)
    OBVIOUS
  <2>2. g \in [0 .. m -> Seq(A)] /\ g[0] = <<>> /\ \A k \in 1 .. m : g[k] = g[k - 1] \o ss[k]
    BY <1>1 DEF Joins
  <2>3. h \in [0 .. n -> Seq(A)] /\ h[0] = <<>> /\ \A k \in 1 .. n : h[k] = h[k - 1] \o tt[k]
    BY <1>2 DEF Joins
  <2> QED
    BY <2>1, <2>2, <2>3
<1> DEFINE j == [k \in 0 .. m + n |-> IF k <= m THEN g[k] ELSE g[m] \o h[k - m]]
<1> HIDE DEF m, n
<1>6. ASSUME NEW k \in 0 .. m + n PROVE j[k] \in Seq(A)
  <2>1. k <= m => k \in 0 .. m
    BY <1>3
  <2>2. ~ (k <= m) => k - m \in 0 .. n
    BY <1>3
  <2>3. m \in 0 .. m
    BY <1>3
  <2>4. (k <= m => g[k] \in Seq(A)) /\ (~ (k <= m) => h[k - m] \in Seq(A)) /\ g[m] \in Seq(A)
    BY <1>5, <2>1, <2>2, <2>3
  <2>5. ~ (k <= m) => g[m] \o h[k - m] \in Seq(A)
    BY <2>4, ConcatProperties
  <2> QED
    BY <2>4, <2>5
<1>7. ASSUME NEW k \in 1 .. m + n PROVE j[k] = j[k - 1] \o (ss \o tt)[k]
  <2>1. k \in 0 .. m + n /\ k - 1 \in 0 .. m + n /\ m \in 0 .. m
    BY <1>3
  <2>2. CASE k <= m
    <3>1. k \in 1 .. m /\ k - 1 <= m
      BY <1>3, <2>2
    <3>2. j[k] = g[k] /\ j[k - 1] = g[k - 1]
      BY <2>1, <2>2, <3>1
    <3> HIDE DEF j
    <3> QED
      BY <1>4, <1>5, <2>2, <3>1, <3>2
  <2>3. CASE k > m
    <3>1. PICK b \in 1 .. n : b = k - m
      BY <1>3, <2>3
    <3>2. PICK a \in 0 .. n : a = b - 1 /\ a = (k - 1) - m
      BY <1>3, <3>1
    <3>3. /\ g[m] \in Seq(A) /\ h[a] \in Seq(A) /\ tt[b] \in Seq(A) /\ h[b] = h[a] \o tt[b]
          /\ ~ (k <= m) /\ (k - 1 <= m => a = 0 /\ k - 1 = m)
      <4>1. g[m] \in Seq(A) /\ h[a] \in Seq(A) /\ tt[b] \in Seq(A)
        BY <1>5, <2>1, <3>1, <3>2
      <4>2. h[b] = h[a] \o tt[b]
        BY <1>5, <3>1, <3>2
      <4>3. ~ (k <= m) /\ (k - 1 <= m => a = 0 /\ k - 1 = m)
        <5> HIDE DEF j
        <5> QED
          BY <1>3, <2>3, <3>1, <3>2
      <4> QED
        BY <4>1, <4>2, <4>3
    <3>4. j[k] = g[m] \o h[b] /\ (ss \o tt)[k] = tt[b]
      BY <1>4, <2>1, <3>1, <3>3
    <3>5. j[k - 1] = g[m] \o h[a]
      <4>1. CASE k - 1 <= m
        <5>1. j[k - 1] = g[k - 1]
          BY <2>1, <4>1
        <5>2. g[m] \o <<>> = g[m]
          BY <3>3, ConcatEmptySeq
        <5> HIDE DEF j
        <5> QED
          BY <1>5, <3>3, <4>1, <5>1, <5>2
      <4>2. CASE ~ (k - 1 <= m)
        <5>1. j[k - 1] = g[m] \o h[(k - 1) - m]
          BY <2>1, <4>2
        <5> HIDE DEF j
        <5> QED
          BY <3>2, <5>1
      <4> QED
        BY <4>1, <4>2
    <3> DEFINE x == g[m]
               y == h[a]
               z == tt[b]
    <3>6. x \in Seq(A) /\ y \in Seq(A) /\ z \in Seq(A) /\ h[b] = y \o z /\ j[k] = x \o h[b]
          /\ (ss \o tt)[k] = z /\ j[k - 1] = x \o y
      <4> HIDE DEF j
      <4> QED
        BY <3>3, <3>4, <3>5
    <3> HIDE DEF j, x, y, z
    <3>7. Associative(A)
      BY ConcatThree
    <3>8. (x \o y) \o z = x \o (y \o z)
      BY <3>6, <3>7 DEF Associative
    <3> QED
      BY <3>6, <3>8
  <2>4. k <= m \/ k > m
    BY <1>3
  <2> HIDE DEF j
  <2> QED
    BY <2>2, <2>3, <2>4
<1>8. Joins(j, ss \o tt, A)
  <2>1. j[0] = <<>> /\ j = [k \in 0 .. m + n |-> j[k]]
    BY <1>3, <1>5
  <2> HIDE DEF j
  <2> QED
    BY <1>4, <1>6, <1>7, <2>1 DEF Joins
<1>9. j[m + n] = g[m] \o h[n]
  <2>1. m + n \in 0 .. m + n /\ (m + n) - m = n /\ (m + n <= m => n = 0)
    BY <1>3
  <2>2. g[m] \o <<>> = g[m]
    <3>1. m \in 0 .. m
      BY <1>3
    <3>2. g[m] \in Seq(A)
      BY <1>5, <3>1
    <3> QED
      BY <3>2, ConcatEmptySeq
  <2>3. CASE m + n <= m
    <3>1. n = 0 /\ m + n = m
      BY <1>3, <2>1, <2>3
    <3>2. h[n] = <<>>
      BY <1>5, <3>1
    <3> QED
      BY <2>1, <2>2, <2>3, <3>1, <3>2
  <2>4. CASE ~ (m + n <= m)
    <3>1. j[m + n] = g[m] \o h[(m + n) - m]
      BY <2>1, <2>4
    <3> HIDE DEF j
    <3> QED
      BY <2>1, <3>1
  <2> QED
    BY <2>3, <2>4
<1> HIDE DEF j
<1>10. FlattenSeq(ss \o tt) = j[m + n]
  BY <1>4, <1>8, FlattenIs
<1> QED
  BY <1>3, <1>9, <1>10

\* phi respects concatenation.
Respects(phi, A, B) ==
    /\ phi \in [Seq(A) -> Seq(B)] /\ phi[<<>>] = <<>>
    /\ \A s, t \in Seq(A) : phi[s \o t] = phi[s] \o phi[t]

\* phi can be done to the parts.
GoesToTheParts(phi, A) ==
    \A ss \in Seq(Seq(A)) : phi[FlattenSeq(ss)] = FlattenSeq([k \in DOMAIN ss |-> phi[ss[k]]])

\* What respects concatenation can be done to the parts.
LEMMA FlattenMap ==
    ASSUME NEW A, NEW B, NEW phi, Respects(phi, A, B)
    PROVE  GoesToTheParts(phi, A)
<1> SUFFICES ASSUME NEW ss \in Seq(Seq(A))
             PROVE  phi[FlattenSeq(ss)] = FlattenSeq([k \in DOMAIN ss |-> phi[ss[k]]])
  BY DEF GoesToTheParts
<1> DEFINE n == Len(ss)
           tt == [k \in DOMAIN ss |-> phi[ss[k]]]
<1>0. /\ phi \in [Seq(A) -> Seq(B)] /\ phi[<<>>] = <<>>
      /\ \A s, t \in Seq(A) : phi[s \o t] = phi[s] \o phi[t]
  BY DEF Respects
<1>1. PICK h : Joins(h, ss, A)
  BY JoinExists
<1>2. n \in Nat /\ n \in 0 .. n /\ FlattenSeq(ss) = h[n]
  BY <1>1, FlattenIs
<1>3. /\ h \in [0 .. n -> Seq(A)] /\ h[0] = <<>> /\ \A k \in 1 .. n : h[k] = h[k - 1] \o ss[k]
      /\ DOMAIN ss = 1 .. n /\ \A k \in 1 .. n : ss[k] \in Seq(A)
  <2>1. DOMAIN ss = 1 .. n /\ \A k \in 1 .. n : ss[k] \in Seq(A)
    OBVIOUS
  <2>2. h \in [0 .. n -> Seq(A)] /\ h[0] = <<>> /\ \A k \in 1 .. n : h[k] = h[k - 1] \o ss[k]
    BY <1>1 DEF Joins
  <2> QED
    BY <2>1, <2>2
<1> HIDE DEF n
<1>4. tt \in Seq(Seq(B)) /\ Len(tt) = n /\ \A k \in 1 .. n : tt[k] = phi[ss[k]]
  <2>1. tt \in [1 .. n -> Seq(B)] /\ \A k \in 1 .. n : tt[k] = phi[ss[k]]
    BY <1>0, <1>3
  <2> HIDE DEF tt
  <2> QED
    BY <1>2, <1>3, <2>1
<1> HIDE DEF tt
<1> DEFINE j == [k \in 0 .. n |-> phi[h[k]]]
<1>5. ASSUME NEW k \in 1 .. n PROVE j[k] = j[k - 1] \o tt[k]
  <2>1. k \in 0 .. n /\ k - 1 \in 0 .. n
    BY <1>2
  <2>2. h[k - 1] \in Seq(A) /\ ss[k] \in Seq(A) /\ h[k] = h[k - 1] \o ss[k]
    BY <1>3, <2>1
  <2>3. phi[h[k]] = phi[h[k - 1]] \o phi[ss[k]]
    BY <1>0, <2>2
  <2> QED
    BY <1>4, <2>1, <2>3
<1>6. j \in [0 .. n -> Seq(B)] /\ j[0] = <<>>
  BY <1>0, <1>2, <1>3
<1>7. Joins(j, tt, B)
  <2> HIDE DEF j
  <2> QED
    BY <1>4, <1>5, <1>6 DEF Joins
<1>8. FlattenSeq(tt) = j[n]
  <2> HIDE DEF j
  <2> QED
    BY <1>4, <1>7, FlattenIs
<1>9. j[n] = phi[h[n]]
  BY <1>2
<1> HIDE DEF j
<1>10. phi[FlattenSeq(ss)] = FlattenSeq(tt)
  BY <1>2, <1>8, <1>9
<1> QED
  BY <1>10 DEF tt

-----------------------------------------------------------------------------
(* Functions that look further on.                                         *)

\* f[k] is what follows[k] makes of what is found further on, or where nothing follows, the end.
Chains(f, n, follows, next, step, end) ==
    \A k \in 1 .. n + 1 : f[k] = IF k \in follows THEN step[<<k, f[next[k]]>>] ELSE end[k]

\* A function that looks further on only exists.
LEMMA ChainExists ==
    ASSUME NEW n \in Nat, NEW D, NEW follows \in SUBSET (1 .. n), NEW next, NEW S, S = 1 .. n,
           \A k \in follows : next[k] \in k + 1 .. n + 1,
           NEW step \in [S \X D -> D], NEW end \in [1 .. n + 1 -> D]
    PROVE  \E f \in [1 .. n + 1 -> D] : Chains(f, n, follows, next, step, end)
<1> DEFINE E == 1 .. n + 1
           P == [E -> D]
           grow == [f \in P |-> [k \in E |-> IF k \in follows THEN step[<<k, f[next[k]]>>] ELSE end[k]]]
<1>1. \A k \in follows : k \in S /\ next[k] \in E /\ next[k] > k
  OBVIOUS
<1>2. grow \in [P -> P]
  <2>1. ASSUME NEW f \in P, NEW k \in E
        PROVE  (IF k \in follows THEN step[<<k, f[next[k]]>>] ELSE end[k]) \in D
    <3>1. k \in follows => <<k, f[next[k]]>> \in S \X D
      BY <1>1
    <3>2. end[k] \in D
      OBVIOUS
    <3> HIDE DEF P, E
    <3> QED
      BY <3>1, <3>2
  <2> QED
    BY <2>1
<1>3. PICK F \in [0 .. n + 1 -> P] : Iterates(F, end, grow, n + 1)
  <2>1. end \in P /\ n + 1 \in Nat
    OBVIOUS
  <2> HIDE DEF P, grow
  <2> QED
    BY <1>2, <2>1, Recursion
<1>4. ASSUME NEW j \in 0 .. n, NEW k \in E
      PROVE  F[j + 1][k] = IF k \in follows THEN step[<<k, F[j][next[k]]>>] ELSE end[k]
  <2>1. j + 1 \in 1 .. n + 1 /\ (j + 1) - 1 = j /\ j \in 0 .. n + 1
    OBVIOUS
  <2>2. F[j + 1] = grow[F[j]] /\ F[j] \in P
    BY <1>3, <2>1 DEF Iterates
  <2>3. grow[F[j]][k] = IF k \in follows THEN step[<<k, F[j][next[k]]>>] ELSE end[k]
    BY <2>2
  <2> HIDE DEF grow, P, E
  <2> QED
    BY <2>2, <2>3
<1> DEFINE T == {j \in 0 .. n : \A k \in E : k >= (n + 1) - j => F[j + 1][k] = F[j][k]}
<1> HIDE DEF grow, P
<1>5. \A j \in 0 .. n : j \in T
  <2>1. 0 \in T
    <3>1. F[0] = end
      BY <1>3 DEF Iterates
    <3>2. ASSUME NEW k \in E, k >= (n + 1) - 0 PROVE F[0 + 1][k] = F[0][k]
      <4>1. k \notin follows
        BY <3>2
      <4>2. 0 \in 0 .. n
        OBVIOUS
      <4>3. F[0 + 1][k] = IF k \in follows THEN step[<<k, F[0][next[k]]>>] ELSE end[k]
        BY <1>4, <4>2
      <4> QED
        BY <3>1, <4>1, <4>3
    <3> QED
      BY <3>2
  <2>2. ASSUME NEW j \in 0 .. n - 1, j \in T PROVE j + 1 \in T
    <3>1. j \in 0 .. n /\ j + 1 \in 0 .. n
      OBVIOUS
    <3>2. ASSUME NEW k \in E, k >= (n + 1) - (j + 1) PROVE F[(j + 1) + 1][k] = F[j + 1][k]
      <4>1. F[(j + 1) + 1][k] = IF k \in follows THEN step[<<k, F[j + 1][next[k]]>>] ELSE end[k]
        BY <1>4, <3>1
      <4>2. F[j + 1][k] = IF k \in follows THEN step[<<k, F[j][next[k]]>>] ELSE end[k]
        BY <1>4, <3>1
      <4>3. ASSUME k \in follows PROVE F[j + 1][next[k]] = F[j][next[k]]
        <5>1. next[k] \in E /\ next[k] > k
          BY <1>1, <4>3
        <5>2. next[k] >= (n + 1) - j
          BY <3>1, <3>2, <5>1
        <5> QED
          BY <2>2, <5>1, <5>2
      <4> QED
        BY <4>1, <4>2, <4>3
    <3> QED
      BY <3>1, <3>2
  <2> HIDE DEF T
  <2> QED
    BY <2>1, <2>2, BoundedInduction
<1>6. n \in T
  BY <1>5
<1>7. ASSUME NEW k \in E PROVE F[n][k] = IF k \in follows THEN step[<<k, F[n][next[k]]>>] ELSE end[k]
  <2>1. n \in 0 .. n /\ k >= (n + 1) - n
    OBVIOUS
  <2>2. F[n + 1][k] = F[n][k]
    BY <1>6, <2>1
  <2> QED
    BY <1>4, <2>1, <2>2
<1>8. F[n] \in [1 .. n + 1 -> D]
  <2>1. n \in 0 .. n + 1
    OBVIOUS
  <2> QED
    BY <1>3, <2>1 DEF P
<1> QED
  BY <1>7, <1>8 DEF Chains

\* What holds at the end and spreads to the front holds everywhere.
LEMMA DownwardInduction ==
    ASSUME NEW n \in Nat, NEW T,
           \A k \in 1 .. n + 1 : (\A m \in k + 1 .. n + 1 : m \in T) => k \in T
    PROVE  \A k \in 1 .. n + 1 : k \in T
<1> DEFINE U == {j \in 0 .. n : \A m \in (n + 1) - j .. n + 1 : m \in T}
<1>1. 0 \in U
  <2>1. n + 1 \in 1 .. n + 1 /\ \A m \in (n + 1) + 1 .. n + 1 : m \in T
    OBVIOUS
  <2>2. n + 1 \in T
    BY <2>1
  <2> QED
    BY <2>2
<1>2. ASSUME NEW j \in 0 .. n - 1, j \in U PROVE j + 1 \in U
  <2>1. (n + 1) - (j + 1) \in 1 .. n + 1
    OBVIOUS
  <2>2. \A m \in ((n + 1) - (j + 1)) + 1 .. n + 1 : m \in T
    BY <1>2
  <2>3. (n + 1) - (j + 1) \in T
    BY <2>1, <2>2
  <2>4. \A m \in (n + 1) - (j + 1) .. n + 1 : m = (n + 1) - (j + 1) \/ m \in ((n + 1) - (j + 1)) + 1 .. n + 1
    OBVIOUS
  <2> QED
    BY <2>2, <2>3, <2>4
<1>3. \A j \in 0 .. n : j \in U
  <2> HIDE DEF U
  <2> QED
    BY <1>1, <1>2, BoundedInduction
<1>4. ASSUME NEW k \in 1 .. n + 1 PROVE k \in T
  <2>1. n \in U /\ k \in (n + 1) - n .. n + 1
    BY <1>3
  <2> QED
    BY <2>1
<1> QED
  BY <1>4
-----------------------------------------------------------------------------
\* One element each.
LEMMA FlattenSingles ==
    ASSUME NEW A, NEW s \in Seq(A), NEW ss, ss = [k \in DOMAIN s |-> <<s[k]>>]
    PROVE  FlattenSeq(ss) = s
<1> DEFINE n == Len(s)
           h == [k \in 0 .. n |-> SubSeq(s, 1, k)]
<1>1. n \in Nat /\ DOMAIN s = 1 .. n /\ \A k \in 1 .. n : s[k] \in A
  BY ElementsOf
<1>2. ss \in Seq(Seq(A)) /\ Len(ss) = n /\ \A k \in 1 .. n : ss[k] = <<s[k]>>
  <2>1. ss \in [1 .. n -> Seq(A)]
    BY <1>1
  <2> QED
    BY <1>1, <2>1
<1> HIDE DEF n
<1>3. \A k \in 0 .. n : h[k] = SubSeq(s, 1, k) /\ h[k] \in Seq(A) /\ Len(h[k]) = k
                        /\ \A i \in 1 .. k : h[k][i] = s[i]
  <2> SUFFICES ASSUME NEW k \in 0 .. n
               PROVE  h[k] = SubSeq(s, 1, k) /\ h[k] \in Seq(A) /\ Len(h[k]) = k
                      /\ \A i \in 1 .. k : h[k][i] = s[i]
    OBVIOUS
  <2>1. \A i \in 1 .. k : s[i] \in A
    BY <1>1
  <2>2. /\ SubSeq(s, 1, k) \in Seq(A) /\ Len(SubSeq(s, 1, k)) = IF 1 <= k THEN k - 1 + 1 ELSE 0
        /\ \A i \in 1 .. k - 1 + 1 : SubSeq(s, 1, k)[i] = s[1 + i - 1]
    BY <2>1, SubSeqProperties
  <2>3. h[k] = SubSeq(s, 1, k)
    OBVIOUS
  <2> HIDE DEF h
  <2> QED
    BY <2>2, <2>3
<1>4. h[0] = <<>> /\ h \in [0 .. n -> Seq(A)]
  <2>1. h = [k \in 0 .. n |-> h[k]] /\ 0 \in 0 .. n
    BY <1>1
  <2>2. SubSeq(s, 1, 0) = <<>>
    BY SubSeqEmpty
  <2> HIDE DEF h
  <2> QED
    BY <1>3, <2>1, <2>2
<1>5. ASSUME NEW k \in 1 .. n PROVE h[k] = h[k - 1] \o ss[k]
  <2>1. k \in 0 .. n /\ k - 1 \in 0 .. n
    BY <1>1
  <2>2. ss[k] = <<s[k]>> /\ <<s[k]>> \in Seq(A)
    BY <1>1, <1>2
  <2> DEFINE u == h[k - 1]
             v == <<s[k]>>
  <2>3. u \in Seq(A) /\ v \in Seq(A) /\ Len(u) = k - 1 /\ Len(v) = 1 /\ v[1] = s[k]
        /\ \A i \in 1 .. k - 1 : u[i] = s[i]
    <3> HIDE DEF h
    <3> QED
      BY <1>3, <2>1, <2>2
  <2> HIDE DEF u, v, h
  <2>4. /\ u \o v \in Seq(A) /\ Len(u \o v) = k
        /\ \A i \in 1 .. k : (u \o v)[i] = IF i <= k - 1 THEN u[i] ELSE v[i - (k - 1)]
    <3>1. /\ u \o v \in Seq(A) /\ Len(u \o v) = Len(u) + Len(v)
          /\ \A i \in 1 .. Len(u) + Len(v) : (u \o v)[i] = IF i <= Len(u) THEN u[i] ELSE v[i - Len(u)]
      BY <2>3, ConcatProperties
    <3>2. Len(u) + Len(v) = k
      BY <2>3
    <3> QED
      BY <2>3, <3>1, <3>2
  <2>5. h[k] = u \o v
    <3>1. ASSUME NEW i \in 1 .. k PROVE h[k][i] = (u \o v)[i]
      <4>1. CASE i <= k - 1
        BY <1>3, <2>1, <2>3, <2>4, <4>1
      <4>2. CASE i = k
        <5>1. i - (k - 1) = 1 /\ ~ (i <= k - 1)
          BY <4>2
        <5>2. (u \o v)[i] = s[k]
          BY <2>3, <2>4, <5>1
        <5> QED
          BY <1>3, <2>1, <4>2, <5>2
      <4>3. i <= k - 1 \/ i = k
        OBVIOUS
      <4> QED
        BY <4>1, <4>2, <4>3
    <3>2. h[k] \in Seq(A) /\ Len(h[k]) = k
      BY <1>3, <2>1
    <3> QED
      BY <2>4, <3>1, <3>2, SeqEqual
  <2> QED
    BY <2>2, <2>5 DEF u, v
<1>6. Joins(h, ss, A)
  <2> HIDE DEF h
  <2> QED
    BY <1>2, <1>4, <1>5 DEF Joins
<1>7. FlattenSeq(ss) = h[n]
  <2> HIDE DEF h
  <2> QED
    BY <1>2, <1>6, FlattenIs
<1>8. h[n] = s
  <2>1. n \in 0 .. n /\ SubSeq(s, 1, Len(s)) = s
    BY <1>1, SubSeqFull
  <2>2. h[n] = SubSeq(s, 1, n)
    BY <2>1
  <2> HIDE DEF h
  <2> QED
    BY <2>1, <2>2 DEF n
<1> QED
  BY <1>7, <1>8

-----------------------------------------------------------------------------
(* The pieces of a text.                                                   *)

\* A character ends within its text.
LEMMA CharacterEnds ==
    ASSUME NEW s \in Seq(0 .. 255), NEW i \in 1 .. Len(s)
    PROVE  Character(s, i).next \in i + 1 .. Len(s) + 1
<1>1. Len(s) \in Nat /\ s[i] \in 0 .. 255
  BY ElementsOf
<1> DEFINE b == s[i]
           n == Len(s)
<1>2. \/ Character(s, i).next = i + 1
      \/ i + 1 <= n /\ Character(s, i).next = i + 2
      \/ i + 2 <= n /\ Character(s, i).next = i + 3
      \/ i + 3 <= n /\ Character(s, i).next = i + 4
  <2>1. CASE b < 128
    BY <2>1 DEF Character
  <2>2. CASE b \in 192 .. 223 /\ i + 1 <= n
    BY <1>1, <2>2 DEF Character
  <2>3. CASE b \in 224 .. 239 /\ i + 2 <= n
    BY <1>1, <2>3 DEF Character
  <2>4. CASE b \in 240 .. 247 /\ i + 3 <= n
    BY <1>1, <2>4 DEF Character
  <2>5. CASE ~ (b < 128) /\ ~ (b \in 192 .. 223 /\ i + 1 <= n) /\ ~ (b \in 224 .. 239 /\ i + 2 <= n)
             /\ ~ (b \in 240 .. 247 /\ i + 3 <= n)
    BY <1>1, <2>5 DEF Character
  <2> QED
    BY <2>1, <2>2, <2>3, <2>4, <2>5
<1> QED
  BY <1>1, <1>2

\* A run of characters ends within its text.
LEMMA RunEnds ==
    ASSUME NEW s \in Seq(0 .. 255), NEW kind, NEW i \in 1 .. Len(s) + 1
    PROVE  EndOfRun(s, i, kind) \in i .. Len(s) + 1
<1> DEFINE n == Len(s)
           S == 1 .. n
           D == Seq(Nat)
           next == [k \in S |-> Character(s, k).next]
           follows == {k \in S : KindOf(Character(s, k).cp) = kind}
           step == [p \in S \X D |-> <<p[1]>> \o p[2]]
           end == [k \in 1 .. n + 1 |-> <<k>>]
           Eq(f) == f = [k \in 1 .. Len(s) + 1 |->
                           IF k <= Len(s) /\ KindOf(Character(s, k).cp) = kind
                           THEN <<k>> \o f[Character(s, k).next] ELSE <<k>>]
           it == CHOOSE f : Eq(f)
<1>1. n \in Nat /\ S = 1 .. n /\ follows \in SUBSET S
  OBVIOUS
<1>2. \A k \in S : next[k] = Character(s, k).next /\ next[k] \in k + 1 .. n + 1
  BY CharacterEnds
<1>3. \A k \in 1 .. n + 1 : k \in follows <=> k <= Len(s) /\ KindOf(Character(s, k).cp) = kind
  BY <1>1
<1>4. \A k \in S, x \in D : /\ <<k>> \o x \in D /\ <<k>> \o x # <<>>
                            /\ x # <<>> => Last(<<k>> \o x) = Last(x)
  <2> SUFFICES ASSUME NEW k \in S, NEW x \in D
               PROVE  /\ <<k>> \o x \in D /\ <<k>> \o x # <<>>
                      /\ x # <<>> => Last(<<k>> \o x) = Last(x)
    OBVIOUS
  <2>1. <<k>> \in D /\ Len(<<k>>) = 1 /\ Len(x) \in Nat /\ (x # <<>> => Len(x) > 0)
    BY EmptySeq
  <2> DEFINE u == <<k>>
  <2>2. u \in Seq(Nat) /\ Len(u) = 1
    BY <2>1
  <2> HIDE DEF u
  <2>3. /\ u \o x \in Seq(Nat) /\ Len(u \o x) = 1 + Len(x)
        /\ \A m \in 1 .. 1 + Len(x) : (u \o x)[m] = IF m <= 1 THEN u[m] ELSE x[m - 1]
    <3>1. /\ u \o x \in Seq(Nat) /\ Len(u \o x) = Len(u) + Len(x)
          /\ \A m \in 1 .. Len(u) + Len(x) : (u \o x)[m] = IF m <= Len(u) THEN u[m] ELSE x[m - Len(u)]
      BY <2>2, ConcatProperties, Zenon
    <3> QED
      BY <2>2, <3>1
  <2>4. u \o x # <<>>
    BY <2>1, <2>3, EmptySeq
  <2>5. ASSUME x # <<>> PROVE Last(u \o x) = Last(x)
    <3>1. 1 + Len(x) \in 1 .. 1 + Len(x) /\ ~ (1 + Len(x) <= 1) /\ (1 + Len(x)) - 1 = Len(x)
      BY <2>1, <2>5
    <3> QED
      BY <2>3, <3>1 DEF Last
  <2> QED
    BY <2>3, <2>4, <2>5 DEF u
<1>5. step \in [S \X D -> D] /\ \A p \in S \X D : step[p] = <<p[1]>> \o p[2]
  <2>1. ASSUME NEW p \in S \X D PROVE <<p[1]>> \o p[2] \in D
    <3>1. p[1] \in S /\ p[2] \in D
      OBVIOUS
    <3> QED
      BY <1>4, <3>1
  <2> HIDE DEF S, D
  <2> QED
    BY <2>1
<1>6. end \in [1 .. n + 1 -> D] /\ \A k \in 1 .. n + 1 : end[k] = <<k>>
  OBVIOUS
<1>7. PICK f \in [1 .. n + 1 -> D] : Chains(f, n, follows, next, step, end)
  <2>1. \A k \in follows : next[k] \in k + 1 .. n + 1
    BY <1>1, <1>2
  <2> HIDE DEF S, D, follows, next, step, end, n
  <2> QED
    BY <1>1, <1>5, <1>6, <2>1, ChainExists
<1>8. Eq(f)
  <2>1. ASSUME NEW k \in 1 .. n + 1
        PROVE  f[k] = IF k <= Len(s) /\ KindOf(Character(s, k).cp) = kind
                      THEN <<k>> \o f[Character(s, k).next] ELSE <<k>>
    <3>1. f[k] = IF k \in follows THEN step[<<k, f[next[k]]>>] ELSE end[k]
      BY <1>7 DEF Chains
    <3>2. ASSUME k \in follows PROVE step[<<k, f[next[k]]>>] = <<k>> \o f[Character(s, k).next]
      <4>1. k \in S /\ next[k] = Character(s, k).next /\ next[k] \in 1 .. n + 1
        BY <1>1, <1>2, <3>2
      <4>2. <<k, f[next[k]]>> \in S \X D
        BY <1>7, <4>1
      <4> HIDE DEF S, D, next, step
      <4> QED
        BY <1>5, <4>1, <4>2
    <3> HIDE DEF step, follows, next, end
    <3> QED
      BY <1>3, <1>6, <3>1, <3>2
  <2>2. f = [k \in 1 .. n + 1 |-> f[k]]
    BY <1>7
  <2> QED
    BY <2>1, <2>2
<1>9. Eq(it)
  <2> HIDE DEF Eq
  <2> QED
    BY <1>8
<1> HIDE DEF it
<1>10. \A k \in 1 .. n + 1 : it[k] = IF k \in follows THEN <<k>> \o it[next[k]] ELSE <<k>>
  <2> SUFFICES ASSUME NEW k \in 1 .. n + 1
               PROVE  it[k] = IF k \in follows THEN <<k>> \o it[next[k]] ELSE <<k>>
    OBVIOUS
  <2>1. it[k] = IF k <= Len(s) /\ KindOf(Character(s, k).cp) = kind
                THEN <<k>> \o it[Character(s, k).next] ELSE <<k>>
    BY <1>9
  <2>2. k \in follows => next[k] = Character(s, k).next
    OBVIOUS
  <2> HIDE DEF follows, next
  <2> QED
    BY <1>3, <2>1, <2>2
<1> DEFINE T == {k \in 1 .. n + 1 : it[k] \in D /\ it[k] # <<>> /\ Last(it[k]) \in k .. n + 1}
<1>11. ASSUME NEW k \in 1 .. n + 1, \A m \in k + 1 .. n + 1 : m \in T PROVE k \in T
  <2>1. CASE k \in follows
    <3>1. k \in S /\ next[k] \in k + 1 .. n + 1
      BY <1>2, <2>1
    <3>2. next[k] \in T
      BY <1>11, <3>1
    <3>3. it[next[k]] \in D /\ it[next[k]] # <<>> /\ Last(it[next[k]]) \in k .. n + 1
      BY <1>1, <3>1, <3>2
    <3>4. it[k] = <<k>> \o it[next[k]]
      BY <1>10, <2>1
    <3>5. it[k] \in D /\ it[k] # <<>> /\ Last(it[k]) = Last(it[next[k]])
      <4> HIDE DEF D, S, next
      <4> QED
        BY <1>4, <3>1, <3>3, <3>4
    <3> HIDE DEF D, next
    <3> QED
      BY <3>3, <3>5
  <2>2. CASE k \notin follows
    <3>1. it[k] = <<k>>
      BY <1>10, <2>2
    <3>2. <<k>> \in D /\ <<k>> # <<>> /\ Last(<<k>>) = k /\ k \in k .. n + 1
      BY DEF Last
    <3> HIDE DEF D
    <3> QED
      BY <3>1, <3>2
  <2> QED
    BY <2>1, <2>2
<1>12. i \in T
  <2> HIDE DEF T
  <2> QED
    BY <1>1, <1>11, DownwardInduction
<1>13. EndOfRun(s, i, kind) = Last(it[i])
  BY DEF EndOfRun, Run, it
<1> QED
  BY <1>12, <1>13

\* A contraction ends within its text.
LEMMA ContractionEnds ==
    ASSUME NEW s \in Seq(0 .. 255), NEW i \in 1 .. Len(s)
    PROVE  Contraction(s, i) \in Nat /\ i + Contraction(s, i) <= Len(s) + 1
<1>1. Len(s) \in Nat
  OBVIOUS
<1>2. \/ Contraction(s, i) = 0
      \/ i + 1 <= Len(s) /\ Contraction(s, i) = 2
      \/ i + 2 <= Len(s) /\ Contraction(s, i) = 3
  <2>1. CASE s[i] # 39 \/ i = Len(s)
    BY <2>1 DEF Contraction
  <2>2. CASE s[i] = 39 /\ i < Len(s) /\ s[i + 1] \in {115, 116, 109, 100}
    BY <2>2 DEF Contraction
  <2>3. CASE s[i] = 39 /\ i + 1 < Len(s) /\ <<s[i + 1], s[i + 2]>> \in {<<114, 101>>, <<118, 101>>, <<108, 108>>}
    BY <2>3 DEF Contraction
  <2>4. CASE /\ ~ (s[i] # 39 \/ i = Len(s))
             /\ ~ (s[i] = 39 /\ i < Len(s) /\ s[i + 1] \in {115, 116, 109, 100})
             /\ ~ (s[i] = 39 /\ i + 1 < Len(s) /\ <<s[i + 1], s[i + 2]>> \in {<<114, 101>>, <<118, 101>>, <<108, 108>>})
    BY <2>4 DEF Contraction
  <2> QED
    BY <2>1, <2>2, <2>3, <2>4
<1> QED
  BY <1>1, <1>2

\* No character of s is a digit.
WithoutDigits(s) == \A i \in DOMAIN s : KindOf(Character(s, i).cp) # "digit"

\* Without digits a single piece begins at a position, and reaches to where the next one begins.
LEMMA OnePieceAt ==
    ASSUME NEW s \in Seq(0 .. 255), WithoutDigits(s), NEW i \in 1 .. Len(s)
    PROVE  /\ PiecesAt(s, i).next \in i + 1 .. Len(s) + 1
           /\ PiecesAt(s, i).pieces = <<SubSeq(s, i, PiecesAt(s, i).next - 1)>>
<1> DEFINE n == Len(s)
           first == Character(s, i)
           j == first.next
           second == Character(s, j)
           upTo(end) == [pieces |-> <<SubSeq(s, i, end - 1)>>, next |-> end]
           kind == KindOf(first.cp)
           spaced == IF first.cp = 32 /\ j <= Len(s) THEN KindOf(second.cp) ELSE "none"
           c == Contraction(s, i)
<1>1. n \in Nat /\ c \in Nat /\ i + c <= n + 1 /\ j \in i + 1 .. n + 1 /\ DOMAIN s = 1 .. n
  BY ContractionEnds, CharacterEnds
<1>2. kind # "digit" /\ spaced # "digit"
  <2>1. kind # "digit"
    BY <1>1 DEF WithoutDigits
  <2>2. j <= n => KindOf(second.cp) # "digit"
    <3>1. j <= n => j \in DOMAIN s
      BY <1>1
    <3> QED
      BY <3>1 DEF WithoutDigits
  <2> QED
    BY <2>1, <2>2
<1>3. \E end \in i + 1 .. n + 1 : PiecesAt(s, i) = upTo(end)
  <2>1. CASE c > 0
    <3>1. PiecesAt(s, i) = upTo(i + c)
      BY <2>1 DEF PiecesAt
    <3>2. i + c \in i + 1 .. n + 1
      BY <1>1, <2>1
    <3> HIDE DEF upTo, c
    <3> QED
      BY <3>1, <3>2
  <2>2. CASE c = 0 /\ spaced = "letter"
    <3>1. PiecesAt(s, i) = upTo(EndOfRun(s, second.next, "letter"))
      BY <1>2, <2>2 DEF PiecesAt
    <3>2. j \in 1 .. n
      BY <1>1, <2>2
    <3>3. second.next \in j + 1 .. n + 1
      BY <3>2, CharacterEnds
    <3>4. second.next \in 1 .. n + 1
      BY <3>2, <3>3
    <3>5. EndOfRun(s, second.next, "letter") \in second.next .. n + 1
      BY <3>4, RunEnds
    <3>6. EndOfRun(s, second.next, "letter") \in i + 1 .. n + 1
      BY <1>1, <3>3, <3>5
    <3> HIDE DEF upTo, second
    <3> QED
      BY <3>1, <3>6
  <2>3. CASE c = 0 /\ spaced # "letter"
    <3>1. PiecesAt(s, i) = upTo(EndOfRun(s, j, kind))
      BY <1>2, <2>3 DEF PiecesAt
    <3>2. j \in 1 .. n + 1
      BY <1>1
    <3>3. EndOfRun(s, j, kind) \in j .. n + 1
      BY <3>2, RunEnds
    <3>4. EndOfRun(s, j, kind) \in i + 1 .. n + 1
      BY <1>1, <3>3
    <3> HIDE DEF upTo, j, kind
    <3> QED
      BY <3>1, <3>4
  <2> QED
    BY <1>1, <2>1, <2>2, <2>3
<1>4. PICK end \in i + 1 .. n + 1 : PiecesAt(s, i) = upTo(end)
  BY <1>3
<1>5. PiecesAt(s, i).next = end /\ PiecesAt(s, i).pieces = <<SubSeq(s, i, end - 1)>>
  BY <1>4
<1> QED
  BY <1>5

\* A part of a sequence and the part behind it.
LEMMA AdjacentParts ==
    ASSUME NEW A, NEW s \in Seq(A), NEW i \in 1 .. Len(s) + 1, NEW m \in i .. Len(s) + 1
    PROVE  /\ SubSeq(s, i, m - 1) \in Seq(A) /\ SubSeq(s, m, Len(s)) \in Seq(A)
           /\ SubSeq(s, i, Len(s)) = SubSeq(s, i, m - 1) \o SubSeq(s, m, Len(s))
<1> DEFINE n == Len(s)
           u == SubSeq(s, i, m - 1)
           v == SubSeq(s, m, n)
           w == SubSeq(s, i, n)
<1>1. n \in Nat /\ i \in Nat /\ m \in Nat /\ i >= 1 /\ m >= i /\ m <= n + 1 /\ \A k \in 1 .. n : s[k] \in A
  BY ElementsOf
<1> HIDE DEF n
<1>2. u \in Seq(A) /\ Len(u) = m - i /\ \A k \in 1 .. m - i : u[k] = s[i + k - 1]
  <2>1. \A k \in i .. m - 1 : s[k] \in A
    BY <1>1
  <2>2. m - 1 \in Int /\ i \in Int
    BY <1>1
  <2>3. /\ u \in Seq(A) /\ Len(u) = IF i <= m - 1 THEN (m - 1) - i + 1 ELSE 0
        /\ \A k \in 1 .. (m - 1) - i + 1 : u[k] = s[i + k - 1]
    BY <2>1, <2>2, SubSeqProperties
  <2> HIDE DEF u
  <2> QED
    BY <1>1, <2>3
<1>3. v \in Seq(A) /\ Len(v) = (n + 1) - m /\ \A k \in 1 .. (n + 1) - m : v[k] = s[m + k - 1]
  <2>1. \A k \in m .. n : s[k] \in A
    BY <1>1
  <2>2. m \in Int /\ n \in Int
    BY <1>1
  <2>3. /\ v \in Seq(A) /\ Len(v) = IF m <= n THEN n - m + 1 ELSE 0
        /\ \A k \in 1 .. n - m + 1 : v[k] = s[m + k - 1]
    BY <2>1, <2>2, SubSeqProperties
  <2> HIDE DEF v
  <2> QED
    BY <1>1, <2>3
<1>4. w \in Seq(A) /\ Len(w) = (n + 1) - i /\ \A k \in 1 .. (n + 1) - i : w[k] = s[i + k - 1]
  <2>1. \A k \in i .. n : s[k] \in A
    BY <1>1
  <2>2. i \in Int /\ n \in Int
    BY <1>1
  <2>3. /\ w \in Seq(A) /\ Len(w) = IF i <= n THEN n - i + 1 ELSE 0
        /\ \A k \in 1 .. n - i + 1 : w[k] = s[i + k - 1]
    BY <2>1, <2>2, SubSeqProperties
  <2> HIDE DEF w
  <2> QED
    BY <1>1, <2>3
<1> HIDE DEF u, v, w
<1>5. /\ u \o v \in Seq(A) /\ Len(u \o v) = (n + 1) - i
      /\ \A k \in 1 .. (n + 1) - i : (u \o v)[k] = IF k <= m - i THEN u[k] ELSE v[k - (m - i)]
  <2>1. /\ u \o v \in Seq(A) /\ Len(u \o v) = Len(u) + Len(v)
        /\ \A k \in 1 .. Len(u) + Len(v) : (u \o v)[k] = IF k <= Len(u) THEN u[k] ELSE v[k - Len(u)]
    BY <1>2, <1>3, ConcatProperties
  <2>2. Len(u) + Len(v) = (n + 1) - i
    BY <1>1, <1>2, <1>3
  <2> QED
    BY <1>2, <2>1, <2>2
<1>6. ASSUME NEW k \in 1 .. (n + 1) - i PROVE w[k] = (u \o v)[k]
  <2>1. CASE k <= m - i
    <3>1. k \in 1 .. m - i
      BY <1>1, <2>1
    <3> QED
      BY <1>2, <1>4, <1>5, <2>1, <3>1
  <2>2. CASE ~ (k <= m - i)
    <3>1. k - (m - i) \in 1 .. (n + 1) - m /\ m + (k - (m - i)) - 1 = i + k - 1
      BY <1>1, <2>2
    <3>2. v[k - (m - i)] = s[i + k - 1]
      BY <1>3, <3>1
    <3> QED
      BY <1>4, <1>5, <2>2, <3>2
  <2> QED
    BY <2>1, <2>2
<1>7. w = u \o v
  BY <1>4, <1>5, <1>6, SeqEqual
<1> QED
  BY <1>2, <1>3, <1>7 DEF u, v, w, n

\* A piece as it is looked up.
Coded(piece) == [n \in DOMAIN piece |-> ByteToUnicode[piece[n]]]

\* The pieces of a text without digits make up the text.
LEMMA PiecesMakeUpTheText ==
    ASSUME NEW s \in Seq(0 .. 255), WithoutDigits(s)
    PROVE  \E pieces \in Seq(Seq(Range(s))) :
              FlattenSeq(pieces) = s /\ Pretokens(s) = [k \in DOMAIN pieces |-> Coded(pieces[k])]
<1> DEFINE n == Len(s)
           S == 1 .. n
           A == Range(s)
           D == Seq(Seq(A))
           next == [k \in S |-> PiecesAt(s, k).next]
           part == [k \in S |-> SubSeq(s, k, PiecesAt(s, k).next - 1)]
           step == [p \in S \X D |-> <<part[p[1]]>> \o p[2]]
           end == [k \in 1 .. n + 1 |-> <<>>]
           Eq(f) == f = [i \in 1 .. Len(s) + 1 |->
                           IF i > Len(s) THEN <<>> ELSE PiecesAt(s, i).pieces \o f[PiecesAt(s, i).next]]
           it == CHOOSE f : Eq(f)
<1>1. n \in Nat /\ S = 1 .. n /\ s \in Seq(A)
  <2>1. n \in Nat /\ DOMAIN s = S
    BY ElementsOf
  <2>2. s \in [1 .. n -> Range(s)]
    BY <2>1 DEF Range
  <2>3. s = [k \in 1 .. n |-> s[k]]
    BY <2>2
  <2> HIDE DEF n
  <2>4. s \in Seq(Range(s))
    BY <2>1, <2>2
  <2> QED
    BY <2>1, <2>4
<1>2. \A k \in S : /\ next[k] = PiecesAt(s, k).next /\ next[k] \in k + 1 .. n + 1
                   /\ PiecesAt(s, k).pieces = <<part[k]>>
  BY OnePieceAt
<1>3. ASSUME NEW k \in S
      PROVE  /\ part[k] \in Seq(A) /\ SubSeq(s, next[k], n) \in Seq(A)
             /\ SubSeq(s, k, n) = part[k] \o SubSeq(s, next[k], n)
  <2>1. k \in 1 .. Len(s) + 1 /\ next[k] \in k .. Len(s) + 1 /\ part[k] = SubSeq(s, k, next[k] - 1)
    BY <1>1, <1>2
  <2> DEFINE m == next[k]
  <2>2. k \in 1 .. Len(s) + 1 /\ m \in k .. Len(s) + 1
    BY <2>1
  <2> HIDE DEF next, part, m, A
  <2>3. /\ SubSeq(s, k, m - 1) \in Seq(A) /\ SubSeq(s, m, Len(s)) \in Seq(A)
        /\ SubSeq(s, k, Len(s)) = SubSeq(s, k, m - 1) \o SubSeq(s, m, Len(s))
    BY <1>1, <2>2, AdjacentParts DEF A
  <2> QED
    BY <2>1, <2>3 DEF m
<1>4. \A k \in S, x \in D : <<part[k]>> \in D /\ <<part[k]>> \o x \in D
  <2> SUFFICES ASSUME NEW k \in S, NEW x \in D PROVE <<part[k]>> \in D /\ <<part[k]>> \o x \in D
    OBVIOUS
  <2>1. <<part[k]>> \in D
    <3>1. part[k] \in Seq(A)
      BY <1>3
    <3> HIDE DEF part
    <3> QED
      BY <3>1
  <2> HIDE DEF part
  <2> QED
    BY <2>1, ConcatProperties
<1>5. step \in [S \X D -> D] /\ \A p \in S \X D : step[p] = <<part[p[1]]>> \o p[2]
  <2>1. ASSUME NEW p \in S \X D PROVE <<part[p[1]]>> \o p[2] \in D
    <3>1. p[1] \in S /\ p[2] \in D
      OBVIOUS
    <3> HIDE DEF S, D, part
    <3> QED
      BY <1>4, <3>1
  <2> HIDE DEF S, D, part
  <2> QED
    BY <2>1
<1>6. end \in [1 .. n + 1 -> D] /\ \A k \in 1 .. n + 1 : end[k] = <<>>
  OBVIOUS
<1>7. PICK f \in [1 .. n + 1 -> D] : Chains(f, n, S, next, step, end)
  <2>1. \A k \in S : next[k] \in k + 1 .. n + 1
    BY <1>2
  <2>2. S \in SUBSET (1 .. n)
    OBVIOUS
  <2> HIDE DEF S, D, next, step, end, n
  <2> QED
    BY <1>1, <1>5, <1>6, <2>1, <2>2, ChainExists
<1>8. Eq(f)
  <2>1. ASSUME NEW k \in 1 .. n + 1
        PROVE  f[k] = IF k > Len(s) THEN <<>> ELSE PiecesAt(s, k).pieces \o f[PiecesAt(s, k).next]
    <3>1. f[k] = IF k \in S THEN step[<<k, f[next[k]]>>] ELSE end[k]
      BY <1>7 DEF Chains
    <3>2. ASSUME k \in S PROVE step[<<k, f[next[k]]>>] = PiecesAt(s, k).pieces \o f[PiecesAt(s, k).next]
      <4>1. next[k] = PiecesAt(s, k).next /\ next[k] \in 1 .. n + 1 /\ PiecesAt(s, k).pieces = <<part[k]>>
        <5> HIDE DEF S, next, part, n
        <5>1. /\ next[k] = PiecesAt(s, k).next /\ next[k] \in k + 1 .. n + 1
              /\ PiecesAt(s, k).pieces = <<part[k]>>
          BY <1>2, <3>2
        <5>2. k \in 1 .. n + 1 /\ n \in Nat
          BY <1>1
        <5> QED
          BY <5>1, <5>2
      <4>2. <<k, f[next[k]]>> \in S \X D
        BY <1>7, <3>2, <4>1
      <4> HIDE DEF S, D, next, step, part
      <4> QED
        BY <1>5, <4>1, <4>2
    <3>3. k > Len(s) <=> k \notin S
      BY <1>1
    <3> HIDE DEF step, S, next, end
    <3> QED
      BY <1>6, <3>1, <3>2, <3>3
  <2>2. f = [k \in 1 .. n + 1 |-> f[k]]
    BY <1>7
  <2> QED
    BY <2>1, <2>2
<1>9. Eq(it)
  <2> HIDE DEF Eq
  <2> QED
    BY <1>8
<1> HIDE DEF it
<1>10. \A k \in 1 .. n + 1 : it[k] = IF k \in S THEN <<part[k]>> \o it[next[k]] ELSE <<>>
  <2> SUFFICES ASSUME NEW k \in 1 .. n + 1
               PROVE  it[k] = IF k \in S THEN <<part[k]>> \o it[next[k]] ELSE <<>>
    OBVIOUS
  <2>1. it[k] = IF k > Len(s) THEN <<>> ELSE PiecesAt(s, k).pieces \o it[PiecesAt(s, k).next]
    BY <1>9
  <2>2. k > Len(s) <=> k \notin S
    BY <1>1
  <2> HIDE DEF S, part, next
  <2> QED
    BY <1>2, <2>1, <2>2
<1> DEFINE T == {k \in 1 .. n + 1 : it[k] \in D /\ FlattenSeq(it[k]) = SubSeq(s, k, n)}
<1>11. ASSUME NEW k \in 1 .. n + 1, \A m \in k + 1 .. n + 1 : m \in T PROVE k \in T
  <2>1. CASE k \in S
    <3>1. next[k] \in T
      BY <1>2, <1>11, <2>1
    <3>2. it[next[k]] \in D /\ FlattenSeq(it[next[k]]) = SubSeq(s, next[k], n)
      BY <3>1
    <3>3. it[k] = <<part[k]>> \o it[next[k]] /\ <<part[k]>> \in D /\ it[k] \in D
      <4> HIDE DEF S, part, next, D
      <4> QED
        BY <1>4, <1>10, <2>1, <3>2
    <3>4. part[k] \in Seq(A)
      BY <1>3, <2>1
    <3> HIDE DEF part, next, S, n, A
    <3>5. FlattenSeq(<<part[k]>>) = part[k]
      BY <3>4, FlattenOne
    <3>6. FlattenSeq(<<part[k]>> \o it[next[k]]) = FlattenSeq(<<part[k]>>) \o FlattenSeq(it[next[k]])
      BY <3>2, <3>3, FlattenConcat
    <3>7. FlattenSeq(it[k]) = part[k] \o SubSeq(s, next[k], n)
      BY <3>2, <3>3, <3>5, <3>6
    <3> HIDE DEF D
    <3> QED
      BY <1>3, <2>1, <3>3, <3>7
  <2>2. CASE k \notin S
    <3>1. it[k] = <<>> /\ k > n
      <4>1. k > n
        BY <1>1, <2>2
      <4> HIDE DEF S, part, next
      <4> QED
        BY <1>10, <2>2, <4>1
    <3>2. FlattenSeq(<<>>) = <<>>
      BY DEF FlattenSeq
    <3>3. SubSeq(s, k, n) = <<>>
      BY <1>1, <3>1, SubSeqEmpty
    <3>4. <<>> \in D
      OBVIOUS
    <3> HIDE DEF D, n
    <3> QED
      BY <3>1, <3>2, <3>3, <3>4
  <2> QED
    BY <2>1, <2>2
<1>12. 1 \in T
  <2>1. 1 \in 1 .. n + 1
    BY <1>1
  <2> HIDE DEF T
  <2> QED
    BY <1>1, <1>11, <2>1, DownwardInduction
<1>13. it[1] \in D /\ FlattenSeq(it[1]) = s
  <2>1. SubSeq(s, 1, Len(s)) = s
    BY SubSeqFull
  <2> QED
    BY <1>12, <2>1
<1>14. Pretokens(s) = [k \in DOMAIN it[1] |-> Coded(it[1][k])]
  BY DEF Pretokens, Coded, it
<1> QED
  BY <1>13, <1>14
-----------------------------------------------------------------------------
\* Every byte has a code of its own.
LEMMA ByteCodes ==
    /\ ByteToUnicode \in [0 .. 255 -> Nat]
    /\ \A b, c \in 0 .. 255 : ByteToUnicode[b] = ByteToUnicode[c] => b = c
<1> DEFINE Earlier(b) == {c \in 0 .. b - 1 : c \notin Printable}
<1>1. \A b \in 0 .. 255 : ByteToUnicode[b] = IF b \in Printable THEN b ELSE 256 + Cardinality(Earlier(b))
  BY DEF ByteToUnicode
<1>2. ASSUME NEW b \in 0 .. 255 PROVE IsFiniteSet(Earlier(b)) /\ Cardinality(Earlier(b)) \in Nat
  <2>1. IsFiniteSet(0 .. b - 1) /\ Earlier(b) \in SUBSET (0 .. b - 1)
    BY FS_Interval
  <2> HIDE DEF Earlier
  <2> QED
    BY <2>1, FS_Subset, FS_CardinalityType
<1>3. ASSUME NEW b \in 0 .. 255, NEW c \in 0 .. 255, b < c, b \notin Printable
      PROVE  Cardinality(Earlier(b)) # Cardinality(Earlier(c))
  <2>1. Earlier(b) \in SUBSET Earlier(c) /\ b \in Earlier(c) /\ b \notin Earlier(b)
    BY <1>3
  <2> HIDE DEF Earlier
  <2>2. Earlier(b) # Earlier(c)
    BY <2>1
  <2> QED
    BY <1>2, <2>1, <2>2, FS_Subset, Zenon
<1> DEFINE below == [b \in 0 .. 255 |-> Cardinality(Earlier(b))]
<1>4. \A b \in 0 .. 255 : below[b] \in Nat /\ ByteToUnicode[b] = IF b \in Printable THEN b ELSE 256 + below[b]
  <2> SUFFICES ASSUME NEW b \in 0 .. 255
               PROVE  below[b] \in Nat /\ ByteToUnicode[b] = IF b \in Printable THEN b ELSE 256 + below[b]
    OBVIOUS
  <2>1. below[b] = Cardinality(Earlier(b))
    OBVIOUS
  <2>2. Cardinality(Earlier(b)) \in Nat
    BY <1>2, Zenon
  <2>3. ByteToUnicode[b] = IF b \in Printable THEN b ELSE 256 + Cardinality(Earlier(b))
    BY <1>1, Zenon
  <2> HIDE DEF Earlier, below
  <2> QED
    BY <2>1, <2>2, <2>3
<1>5. \A b, c \in 0 .. 255 : b < c /\ b \notin Printable => below[b] # below[c]
  <2> SUFFICES ASSUME NEW b \in 0 .. 255, NEW c \in 0 .. 255, b < c, b \notin Printable
               PROVE  below[b] # below[c]
    BY Zenon
  <2>1. below[b] = Cardinality(Earlier(b)) /\ below[c] = Cardinality(Earlier(c))
    BY Zenon
  <2>2. Cardinality(Earlier(b)) # Cardinality(Earlier(c))
    BY <1>3, Zenon
  <2> HIDE DEF Earlier, below
  <2> QED
    BY <2>1, <2>2
<1> HIDE DEF below
<1>6. ASSUME NEW b \in 0 .. 255, NEW c \in 0 .. 255, b < c PROVE ByteToUnicode[b] # ByteToUnicode[c]
  <2>1. b \in Int /\ c \in Int /\ b >= 0 /\ c <= 255 /\ b <= 255 /\ b < c
    BY <1>6
  <2>2. below[b] \in Nat /\ ByteToUnicode[b] = IF b \in Printable THEN b ELSE 256 + below[b]
    BY <1>4
  <2>3. below[c] \in Nat /\ ByteToUnicode[c] = IF c \in Printable THEN c ELSE 256 + below[c]
    BY <1>4
  <2>4. b \notin Printable => below[b] # below[c]
    BY <1>5, <1>6, Zenon
  <2> QED
    BY <2>1, <2>2, <2>3, <2>4
<1>7. ASSUME NEW b \in 0 .. 255 PROVE ByteToUnicode[b] \in Nat
  <2>1. below[b] \in Nat /\ ByteToUnicode[b] = IF b \in Printable THEN b ELSE 256 + below[b]
    BY <1>4
  <2> QED
    BY <2>1
<1>8. ByteToUnicode = [b \in 0 .. 255 |-> ByteToUnicode[b]]
  BY DEF ByteToUnicode
<1>9. \A b, c \in 0 .. 255 : b < c \/ c < b \/ b = c
  OBVIOUS
<1> QED
  BY <1>6, <1>7, <1>8, <1>9, Zenon

\* A code leads back to its byte.
LEMMA CodeLeadsBack ==
    ASSUME NEW b \in 0 .. 255
    PROVE  UnicodeToByte(ByteToUnicode[b]) = b
<1>1. DOMAIN ByteToUnicode = 0 .. 255
  BY ByteCodes, Zenon
<1>2. ByteToUnicode[b] \in Range(ByteToUnicode)
  BY <1>1, Zenon DEF Range
<1>3. \A c \in 0 .. 255 : ByteToUnicode[c] = ByteToUnicode[b] => c = b
  BY ByteCodes, Zenon
<1> QED
  BY <1>2, <1>3 DEF UnicodeToByte

-----------------------------------------------------------------------------
(* Merging the symbols of a word.                                          *)

\* The elements of three parts put together.
LEMMA ThreeParts ==
    ASSUME NEW A, NEW u \in Seq(A), NEW v \in Seq(A), NEW w \in Seq(A)
    PROVE  /\ (u \o v) \o w \in Seq(A) /\ Len((u \o v) \o w) = Len(u) + Len(v) + Len(w)
           /\ \A i \in 1 .. Len(u) + Len(v) + Len(w) :
                ((u \o v) \o w)[i] = IF i <= Len(u) THEN u[i]
                                     ELSE IF i <= Len(u) + Len(v) THEN v[i - Len(u)]
                                     ELSE w[i - (Len(u) + Len(v))]
<1> DEFINE x == u \o v
<1>1. /\ Len(u) \in Nat /\ Len(v) \in Nat /\ Len(w) \in Nat
      /\ x \in Seq(A) /\ Len(x) = Len(u) + Len(v)
      /\ \A i \in 1 .. Len(u) + Len(v) : x[i] = IF i <= Len(u) THEN u[i] ELSE v[i - Len(u)]
  BY ConcatProperties
<1> HIDE DEF x
<1>2. /\ x \o w \in Seq(A) /\ Len(x \o w) = Len(x) + Len(w)
      /\ \A i \in 1 .. Len(x) + Len(w) : (x \o w)[i] = IF i <= Len(x) THEN x[i] ELSE w[i - Len(x)]
  <2>1. x \in Seq(A) /\ w \in Seq(A)
    BY <1>1
  <2> QED
    BY ONLY <2>1, ConcatProperties
<1>3. ASSUME NEW i \in 1 .. Len(u) + Len(v) + Len(w)
      PROVE  (x \o w)[i] = IF i <= Len(u) THEN u[i]
                           ELSE IF i <= Len(u) + Len(v) THEN v[i - Len(u)]
                           ELSE w[i - (Len(u) + Len(v))]
  <2>1. (x \o w)[i] = IF i <= Len(u) + Len(v) THEN x[i] ELSE w[i - (Len(u) + Len(v))]
    BY <1>1, <1>2
  <2>2. i <= Len(u) + Len(v) => x[i] = IF i <= Len(u) THEN u[i] ELSE v[i - Len(u)]
    BY <1>1
  <2>3. i <= Len(u) => i <= Len(u) + Len(v)
    BY <1>1
  <2> QED
    BY <2>1, <2>2, <2>3
<1> QED
  BY <1>1, <1>2, <1>3 DEF x

\* A part of a sequence.
LEMMA PartOf ==
    ASSUME NEW A, NEW s \in Seq(A), NEW i \in 1 .. Len(s) + 1, NEW m \in i - 1 .. Len(s)
    PROVE  /\ SubSeq(s, i, m) \in Seq(A) /\ Len(SubSeq(s, i, m)) = (m + 1) - i
           /\ \A k \in 1 .. (m + 1) - i : SubSeq(s, i, m)[k] = s[i + k - 1]
<1>1. Len(s) \in Nat /\ \A k \in 1 .. Len(s) : s[k] \in A
  BY ElementsOf
<1>2. i \in Int /\ m \in Int /\ \A k \in i .. m : s[k] \in A
  BY <1>1
<1> DEFINE v == SubSeq(s, i, m)
<1>3. /\ v \in Seq(A) /\ Len(v) = IF i <= m THEN m - i + 1 ELSE 0
      /\ \A k \in 1 .. m - i + 1 : v[k] = s[i + k - 1]
  BY <1>2, SubSeqProperties
<1> HIDE DEF v
<1>4. Len(v) = (m + 1) - i /\ (m + 1) - i = m - i + 1
  BY <1>1, <1>3
<1> QED
  BY <1>3, <1>4 DEF v
-----------------------------------------------------------------------------
\* The tokens are sequences of codes.
LEMMA TokensAreCodes ==
    ASSUME EntriesAssumption
    PROVE  DOMAIN TokenToId \in SUBSET Seq(Nat) /\ SpelledTokens \in SUBSET Seq(Nat)
<1> DEFINE E == [token : Seq(Nat), id : Nat]
           F == [token : Seq(Nat), id : Nat, role : {"bos", "eos", "pad", "unk", "none"}]
<1>1. \A k \in DOMAIN Entries : Entries[k].token \in Seq(Nat)
  <2>1. /\ Vocabulary \in Seq(E) /\ Len(Vocabulary) \in Nat /\ Len(AddedTokens) \in Nat
        /\ \A k \in 1 .. Len(Vocabulary) : Vocabulary[k].token \in Seq(Nat)
        /\ \A k \in 1 .. Len(AddedTokens) : AddedTokens[k].token \in Seq(Nat)
    <3>1. Vocabulary \in Seq(E) /\ AddedTokens \in Seq(F)
      BY DEF EntriesAssumption
    <3>2. /\ Len(Vocabulary) \in Nat /\ \A k \in 1 .. Len(Vocabulary) : Vocabulary[k] \in E
          /\ Len(AddedTokens) \in Nat /\ \A k \in 1 .. Len(AddedTokens) : AddedTokens[k] \in F
      <4> HIDE DEF E, F
      <4> QED
        BY <3>1, ElementsOf
    <3> QED
      BY <3>1, <3>2
  <2>2. /\ DOMAIN Entries = 1 .. Len(Vocabulary) + Len(AddedTokens)
        /\ \A k \in DOMAIN Entries : Entries[k] = IF k <= Len(Vocabulary) THEN Vocabulary[k]
                                                  ELSE AddedTokens[k - Len(Vocabulary)]
    BY DEF Entries, EntriesAssumption
  <2>3. \A k \in DOMAIN Entries : ~ (k <= Len(Vocabulary)) => k - Len(Vocabulary) \in 1 .. Len(AddedTokens)
    BY <2>1, <2>2
  <2>4. \A k \in DOMAIN Entries : k <= Len(Vocabulary) => k \in 1 .. Len(Vocabulary)
    BY <2>1, <2>2
  <2> QED
    BY <2>1, <2>2, <2>3, <2>4
<1>2. DOMAIN TokenToId = {Entries[k].token : k \in DOMAIN Entries}
  BY DEF TokenToId
<1> QED
  BY <1>1, <1>2 DEF SpelledTokens

\* The rank of a pair that is merged is the place of a merge.
LEMMA RankIs ==
    ASSUME EntriesAssumption, NEW pair
    PROVE  RankOf(pair) \in Nat /\ (RankOf(pair) <= Len(Merges) => pair \in Range(Merges))
<1> DEFINE at == {k \in DOMAIN Merges : Merges[k] = pair}
<1>1. Len(Merges) \in Nat /\ DOMAIN Merges = 1 .. Len(Merges)
  BY DEF EntriesAssumption
<1>2. CASE at = {}
  <2>1. RankOf(pair) = Len(Merges) + 1
    BY <1>2 DEF RankOf
  <2> QED
    BY <1>1, <2>1
<1>3. CASE at # {}
  <2>1. at \in SUBSET Nat /\ \A k \in at : k <= Len(Merges)
    BY <1>1
  <2>2. \E k \in at : \A n \in at : n <= k
    BY <1>1, <1>3, <2>1, GreatestNat
  <2>3. RankOf(pair) = CHOOSE k \in at : \A n \in at : n <= k
    BY <1>3 DEF RankOf
  <2>4. RankOf(pair) \in at
    <3> HIDE DEF at
    <3> QED
      BY <2>2, <2>3
  <2> QED
    BY <1>1, <2>4 DEF Range
<1> QED
  BY <1>2, <1>3

\* Of the pairs there are the best is merged.
LEMMA BestIs ==
    ASSUME EntriesAssumption, NEW X, NEW pairs \in Seq(X), pairs # <<>>
    PROVE  Best(pairs) \in DOMAIN pairs /\ \A n \in DOMAIN pairs : RankOf(pairs[Best(pairs)]) <= RankOf(pairs[n])
<1> DEFINE S == DOMAIN pairs
           rank == [k \in S |-> RankOf(pairs[k])]
           R == {rank[k] : k \in S}
           IsBest(k) == \A n \in S : rank[k] < rank[n] \/ (rank[k] = rank[n] /\ k <= n)
<1>1. S = 1 .. Len(pairs) /\ Len(pairs) \in Nat \ {0}
  BY EmptySeq, ElementsOf
<1>2. \A k \in S : rank[k] \in Nat /\ rank[k] = RankOf(pairs[k])
  BY RankIs
<1> HIDE DEF rank, S
<1>3. R \in SUBSET Nat /\ R # {}
  <2>1. 1 \in S
    BY <1>1
  <2> QED
    BY <1>2, <2>1
<1>4. PICK r \in R : \A q \in R : r <= q
  <2> HIDE DEF R
  <2> QED
    BY <1>3, LeastNat
<1> DEFINE K == {k \in S : rank[k] = r}
<1>5. K \in SUBSET Nat /\ K # {}
  <2>1. S \in SUBSET Nat
    BY <1>1
  <2>2. PICK k \in S : rank[k] = r
    BY <1>4
  <2> QED
    BY <2>1, <2>2
<1>6. PICK k \in K : \A n \in K : k <= n
  <2> HIDE DEF K
  <2> QED
    BY <1>5, LeastNat
<1>7. k \in S /\ IsBest(k)
  <2>1. k \in S /\ rank[k] = r
    BY <1>6
  <2>2. ASSUME NEW n \in S PROVE rank[k] < rank[n] \/ (rank[k] = rank[n] /\ k <= n)
    <3>1. r <= rank[n] /\ r \in Nat /\ rank[n] \in Nat
      BY <1>2, <1>3, <1>4
    <3>2. CASE rank[n] = r
      BY <1>6, <2>1, <3>2
    <3>3. CASE rank[n] # r
      BY <2>1, <3>1, <3>3
    <3> QED
      BY <3>2, <3>3
  <2> QED
    BY <2>1, <2>2
<1>8. Best(pairs) = CHOOSE b \in S : IsBest(b)
  BY DEF Best, rank, S
<1>9. Best(pairs) \in S /\ IsBest(Best(pairs))
  <2> HIDE DEF IsBest
  <2> QED
    BY <1>7, <1>8
<1>10. \A n \in S : rank[Best(pairs)] <= rank[n]
  <2> SUFFICES ASSUME NEW n \in S PROVE rank[Best(pairs)] <= rank[n]
    OBVIOUS
  <2>1. rank[Best(pairs)] \in Nat /\ rank[n] \in Nat
    BY <1>2, <1>9
  <2>2. rank[Best(pairs)] < rank[n] \/ rank[Best(pairs)] = rank[n]
    BY <1>9
  <2> QED
    BY <2>1, <2>2
<1> QED
  BY <1>2, <1>9, <1>10 DEF S

\* A word in progress: its symbols, and the pairs of neighbours there are.
InProgress(symbols) == [symbols |-> symbols, pairs |-> PairsOf(symbols)]

\* The pairs of neighbours: one less than there are symbols.
LEMMA PairsAre ==
    ASSUME NEW A, NEW symbols \in Seq(A)
    PROVE  /\ PairsOf(symbols) \in Seq(A \X A)
           /\ Len(symbols) > 0 => Len(PairsOf(symbols)) = Len(symbols) - 1
           /\ DOMAIN PairsOf(symbols) = 1 .. Len(symbols) - 1
           /\ \A k \in 1 .. Len(symbols) - 1 : PairsOf(symbols)[k] = <<symbols[k], symbols[k + 1]>>
<1> DEFINE n == Len(symbols)
           p == PairsOf(symbols)
<1>1. n \in Nat /\ \A k \in 1 .. n : symbols[k] \in A
  BY ElementsOf
<1>2. DOMAIN p = 1 .. n - 1 /\ \A k \in 1 .. n - 1 : p[k] = <<symbols[k], symbols[k + 1]>>
  BY DEF PairsOf
<1>3. p \in [1 .. n - 1 -> A \X A]
  <2>1. ASSUME NEW k \in 1 .. n - 1 PROVE <<symbols[k], symbols[k + 1]>> \in A \X A
    <3>1. k \in 1 .. n /\ k + 1 \in 1 .. n
      BY <1>1
    <3> QED
      BY <1>1, <3>1
  <2> QED
    BY <2>1 DEF PairsOf
<1>4. CASE n > 0
  <2>1. n - 1 \in Nat
    BY <1>1, <1>4
  <2> HIDE DEF n, p
  <2>2. p \in Seq(A \X A) /\ Len(p) = n - 1
    BY <1>3, <2>1
  <2> QED
    BY <1>2, <2>2 DEF n, p
<1>5. CASE n = 0
  <2>1. 1 .. n - 1 = {} /\ 1 .. n - 1 = 1 .. 0 /\ 0 \in Nat
    BY <1>5
  <2>2. p \in [1 .. 0 -> A \X A]
    BY <1>3, <2>1
  <2>3. p \in Seq(A \X A)
    <3> HIDE DEF p
    <3> QED
      BY <2>1, <2>2
  <2> QED
    BY <1>2, <1>5, <2>3
<1> QED
  BY <1>1, <1>4, <1>5

\* Two sequences, put together.
LEMMA FlattenTwo ==
    ASSUME NEW A, NEW u \in Seq(A), NEW v \in Seq(A)
    PROVE  <<u, v>> \in Seq(Seq(A)) /\ FlattenSeq(<<u, v>>) = u \o v
<1>1. <<u>> \in Seq(Seq(A)) /\ <<v>> \in Seq(Seq(A)) /\ <<u, v>> \in Seq(Seq(A))
  OBVIOUS
<1>2. <<u>> \o <<v>> = <<u, v>>
  <2> DEFINE x == <<u>>
             y == <<v>>
             z == <<u, v>>
  <2>1. x \in Seq(Seq(A)) /\ y \in Seq(Seq(A)) /\ z \in Seq(Seq(A)) /\ Len(x) = 1 /\ Len(y) = 1 /\ Len(z) = 2
        /\ x[1] = u /\ y[1] = v /\ z[1] = u /\ z[2] = v
    OBVIOUS
  <2> HIDE DEF x, y, z
  <2>2. /\ x \o y \in Seq(Seq(A)) /\ Len(x \o y) = 2
        /\ \A i \in 1 .. 2 : (x \o y)[i] = IF i <= 1 THEN x[i] ELSE y[i - 1]
    <3>1. x \in Seq(Seq(A)) /\ y \in Seq(Seq(A))
      BY <2>1
    <3>2. /\ x \o y \in Seq(Seq(A)) /\ Len(x \o y) = Len(x) + Len(y)
          /\ \A i \in 1 .. Len(x) + Len(y) : (x \o y)[i] = IF i <= Len(x) THEN x[i] ELSE y[i - Len(x)]
      BY ONLY <3>1, ConcatProperties
    <3>3. Len(x) + Len(y) = 2
      BY <2>1
    <3> QED
      BY <2>1, <3>2, <3>3
  <2>3. \A i \in 1 .. 2 : (x \o y)[i] = z[i]
    BY <2>1, <2>2
  <2>4. x \o y = z
    BY <2>1, <2>2, <2>3, SeqEqual
  <2> QED
    BY <2>4 DEF x, y, z
<1>3. FlattenSeq(<<u>>) = u /\ FlattenSeq(<<v>>) = v
  BY FlattenOne
<1>4. FlattenSeq(<<u>> \o <<v>>) = FlattenSeq(<<u>>) \o FlattenSeq(<<v>>)
  BY <1>1, FlattenConcat
<1> QED
  BY <1>1, <1>2, <1>3, <1>4

\* Merging the best pair leaves what the symbols spell, and the pairs those of the new symbols.
LEMMA MergedKeeps ==
    ASSUME EntriesAssumption, VocabularyAssumption, NEW symbols \in Seq(SpelledTokens),
           \E k \in DOMAIN PairsOf(symbols) : RankOf(PairsOf(symbols)[k]) <= Len(Merges)
    PROVE  \E new \in Seq(SpelledTokens) :
              Merged(InProgress(symbols)) = InProgress(new) /\ FlattenSeq(new) = FlattenSeq(symbols)
<1> DEFINE V == SpelledTokens
           n == Len(symbols)
           pairs == PairsOf(symbols)
           k == Best(pairs)
           join == symbols[k] \o symbols[k + 1]
           a == SubSeq(symbols, 1, k - 1)
           c == SubSeq(symbols, k + 2, n)
           new == (a \o <<join>>) \o c
<1>1. V \in SUBSET Seq(Nat)
  BY TokensAreCodes
<1>2. n \in Nat /\ \A i \in 1 .. n : symbols[i] \in V
  BY ElementsOf
<1>3. /\ pairs \in Seq(V \X V) /\ DOMAIN pairs = 1 .. n - 1 /\ pairs # <<>> /\ n > 1 /\ Len(pairs) = n - 1
      /\ \A i \in 1 .. n - 1 : pairs[i] = <<symbols[i], symbols[i + 1]>>
  <2>1. pairs \in Seq(V \X V) /\ DOMAIN pairs = 1 .. n - 1 /\ (n > 0 => Len(pairs) = n - 1)
        /\ \A i \in 1 .. n - 1 : pairs[i] = <<symbols[i], symbols[i + 1]>>
    BY PairsAre
  <2>2. PICK i \in DOMAIN pairs : RankOf(pairs[i]) <= Len(Merges)
    OBVIOUS
  <2>3. n > 1
    BY <1>2, <2>1, <2>2
  <2>4. pairs # <<>>
    <3> HIDE DEF pairs
    <3> QED
      BY <2>1, <2>2
  <2> QED
    BY <2>1, <2>3, <2>4
<1>4. k \in 1 .. n - 1 /\ \A i \in 1 .. n - 1 : RankOf(pairs[k]) <= RankOf(pairs[i])
  <2> HIDE DEF pairs
  <2> QED
    BY <1>3, BestIs
<1>5. pairs[k] \in Range(Merges)
  <2>1. PICK i \in 1 .. n - 1 : RankOf(pairs[i]) <= Len(Merges)
    BY <1>3
  <2>2. RankOf(pairs[k]) <= RankOf(pairs[i])
    BY <1>4
  <2>3. RankOf(pairs[k]) \in Nat /\ RankOf(pairs[i]) \in Nat /\ Len(Merges) \in Nat
    BY RankIs DEF EntriesAssumption
  <2>4. RankOf(pairs[k]) <= Len(Merges)
    <3> HIDE DEF pairs, k
    <3> QED
      BY <2>1, <2>2, <2>3
  <2> HIDE DEF pairs, k
  <2> QED
    BY <2>4, RankIs
<1>6. join \in V
  <2>1. pairs[k] = <<symbols[k], symbols[k + 1]>>
    BY <1>3, <1>4
  <2>2. pairs[k][1] \o pairs[k][2] \in SpelledTokens
    BY <1>5 DEF VocabularyAssumption
  <2> HIDE DEF pairs, k
  <2> QED
    BY <2>1, <2>2
<1> HIDE DEF k
<1>7. k \in Nat /\ k >= 1 /\ k <= n - 1 /\ k \in 1 .. n /\ k + 1 \in 1 .. n
  BY <1>2, <1>4
<1>8. a \in Seq(V) /\ Len(a) = k - 1 /\ \A i \in 1 .. k - 1 : a[i] = symbols[i]
  <2>1. 1 \in 1 .. n + 1 /\ k - 1 \in 1 - 1 .. n /\ ((k - 1) + 1) - 1 = k - 1
    BY <1>2, <1>7
  <2>2. /\ SubSeq(symbols, 1, k - 1) \in Seq(V) /\ Len(SubSeq(symbols, 1, k - 1)) = ((k - 1) + 1) - 1
        /\ \A i \in 1 .. ((k - 1) + 1) - 1 : SubSeq(symbols, 1, k - 1)[i] = symbols[1 + i - 1]
    BY <2>1, PartOf
  <2> QED
    BY <2>1, <2>2
<1>9. c \in Seq(V) /\ Len(c) = n - (k + 1) /\ \A i \in 1 .. n - (k + 1) : c[i] = symbols[(k + 1) + i]
  <2>1. k + 2 \in 1 .. n + 1 /\ n \in (k + 2) - 1 .. n /\ (n + 1) - (k + 2) = n - (k + 1)
    BY <1>2, <1>7
  <2>2. /\ SubSeq(symbols, k + 2, n) \in Seq(V) /\ Len(SubSeq(symbols, k + 2, n)) = (n + 1) - (k + 2)
        /\ \A i \in 1 .. (n + 1) - (k + 2) : SubSeq(symbols, k + 2, n)[i] = symbols[(k + 2) + i - 1]
    BY <2>1, PartOf
  <2> HIDE DEF V
  <2>3. c \in Seq(V) /\ Len(c) = n - (k + 1)
    BY <2>1, <2>2
  <2>4. ASSUME NEW i \in 1 .. n - (k + 1) PROVE c[i] = symbols[(k + 1) + i]
    <3>1. i \in 1 .. (n + 1) - (k + 2) /\ (k + 2) + i - 1 = (k + 1) + i
      BY <1>2, <1>7
    <3>2. c[i] = symbols[(k + 2) + i - 1]
      BY <2>2, <3>1
    <3> HIDE DEF c
    <3> QED
      BY <3>1, <3>2
  <2> HIDE DEF c
  <2> QED
    BY <2>3, <2>4
<1> HIDE DEF a, c, join, V, n
<1>10. symbols \in Seq(V) /\ symbols[k] \in V /\ symbols[k + 1] \in V /\ n = Len(symbols)
  BY <1>2, <1>7 DEF V, n
<1>11. symbols = (a \o <<symbols[k], symbols[k + 1]>>) \o c
  <2> DEFINE b == <<symbols[k], symbols[k + 1]>>
             z == (a \o b) \o c
  <2>1. b \in Seq(V) /\ Len(b) = 2 /\ b[1] = symbols[k] /\ b[2] = symbols[k + 1]
    BY <1>10
  <2> HIDE DEF b
  <2>2. /\ z \in Seq(V) /\ Len(z) = Len(a) + Len(b) + Len(c)
        /\ \A i \in 1 .. Len(a) + Len(b) + Len(c) :
             z[i] = IF i <= Len(a) THEN a[i] ELSE IF i <= Len(a) + Len(b) THEN b[i - Len(a)]
                    ELSE c[i - (Len(a) + Len(b))]
    <3>1. a \in Seq(V) /\ b \in Seq(V) /\ c \in Seq(V)
      BY <1>8, <1>9, <2>1
    <3> QED
      BY ONLY <3>1, ThreeParts
  <2> HIDE DEF z
  <2>3. Len(a) + Len(b) + Len(c) = n /\ Len(a) + Len(b) = k + 1
    <3>1. Len(a) = k - 1 /\ Len(c) = n - (k + 1) /\ n \in Nat /\ k \in Nat /\ Len(b) = 2
      BY <1>2, <1>7, <1>8, <1>9, <2>1
    <3> QED
      BY ONLY <3>1
  <2>4. ASSUME NEW i \in 1 .. n PROVE symbols[i] = z[i]
    <3>1. z[i] = IF i <= k - 1 THEN a[i] ELSE IF i <= k + 1 THEN b[i - (k - 1)] ELSE c[i - (k + 1)]
      BY <1>8, <2>2, <2>3
    <3>2. CASE i <= k - 1
      BY <1>7, <1>8, <3>1, <3>2
    <3>3. CASE i = k
      <4>1. i - (k - 1) = 1
        BY <1>7, <3>3
      <4> QED
        BY <1>7, <2>1, <3>1, <3>3, <4>1
    <3>4. CASE i = k + 1
      <4>1. i - (k - 1) = 2
        BY <1>7, <3>4
      <4> QED
        BY <1>7, <2>1, <3>1, <3>4, <4>1
    <3>5. CASE i > k + 1
      <4>1. i - (k + 1) \in 1 .. n - (k + 1) /\ (k + 1) + (i - (k + 1)) = i
        BY <1>2, <1>7, <3>5
      <4>2. c[i - (k + 1)] = symbols[i]
        BY <1>9, <4>1
      <4> QED
        BY <1>7, <3>1, <3>5, <4>2
    <3>6. i <= k - 1 \/ i = k \/ i = k + 1 \/ i > k + 1
      BY <1>7
    <3> QED
      BY <3>2, <3>3, <3>4, <3>5, <3>6
  <2>5. Len(z) = Len(symbols)
    BY <1>10, <2>2, <2>3
  <2>6. symbols = z
    BY <1>10, <2>2, <2>4, <2>5, SeqEqual
  <2> QED
    BY <2>6 DEF z, b
<1>12. /\ new \in Seq(V) /\ Len(new) = n - 1
       /\ \A i \in 1 .. n - 1 : new[i] = IF i < k THEN symbols[i] ELSE IF i = k THEN join ELSE symbols[i + 1]
  <2> DEFINE b == <<join>>
             z == (a \o b) \o c
  <2>1. b \in Seq(V) /\ Len(b) = 1 /\ b[1] = join
    BY <1>6
  <2> HIDE DEF b
  <2>2. /\ z \in Seq(V) /\ Len(z) = Len(a) + Len(b) + Len(c)
        /\ \A i \in 1 .. Len(a) + Len(b) + Len(c) :
             z[i] = IF i <= Len(a) THEN a[i] ELSE IF i <= Len(a) + Len(b) THEN b[i - Len(a)]
                    ELSE c[i - (Len(a) + Len(b))]
    <3>1. a \in Seq(V) /\ b \in Seq(V) /\ c \in Seq(V)
      BY <1>8, <1>9, <2>1
    <3> QED
      BY ONLY <3>1, ThreeParts
  <2> HIDE DEF z
  <2>3. Len(a) + Len(b) + Len(c) = n - 1 /\ Len(a) + Len(b) = k
    <3>1. Len(a) = k - 1 /\ Len(c) = n - (k + 1) /\ n \in Nat /\ k \in Nat
      BY <1>2, <1>7, <1>8, <1>9
    <3> QED
      BY <2>1, <3>1
  <2>4. ASSUME NEW i \in 1 .. n - 1
        PROVE  z[i] = IF i < k THEN symbols[i] ELSE IF i = k THEN join ELSE symbols[i + 1]
    <3>1. z[i] = IF i <= k - 1 THEN a[i] ELSE IF i <= k THEN b[i - (k - 1)] ELSE c[i - k]
      BY <1>8, <2>2, <2>3
    <3>2. CASE i < k
      BY <1>7, <1>8, <3>1, <3>2
    <3>3. CASE i = k
      <4>1. i - (k - 1) = 1
        BY <1>7, <3>3
      <4> QED
        BY <1>7, <2>1, <3>1, <3>3, <4>1
    <3>4. CASE i > k
      <4>1. i - k \in 1 .. n - (k + 1) /\ (k + 1) + (i - k) = i + 1
        BY <1>2, <1>7, <3>4
      <4>2. c[i - k] = symbols[i + 1]
        BY <1>9, <4>1
      <4> QED
        BY <1>7, <3>1, <3>4, <4>2
    <3> QED
      BY <1>7, <3>2, <3>3, <3>4
  <2> QED
    BY <2>2, <2>3, <2>4 DEF z, b
<1>13. FlattenSeq(new) = FlattenSeq(symbols)
  <2> DEFINE b == <<join>>
             d == <<symbols[k], symbols[k + 1]>>
             T == Seq(Nat)
  <2>1. a \in Seq(T) /\ c \in Seq(T)
    BY <1>1, <1>8, <1>9, SeqMonotonic
  <2>2. symbols[k] \in T /\ symbols[k + 1] \in T /\ join \in T
    BY <1>1, <1>6, <1>10
  <2>3. b \in Seq(T) /\ FlattenSeq(b) = join
    <3>1. FlattenSeq(<<join>>) = join
      BY <2>2, FlattenOne
    <3> QED
      BY <2>2, <3>1
  <2>4. d \in Seq(T) /\ FlattenSeq(d) = join
    <3>1. d \in Seq(Seq(Nat)) /\ FlattenSeq(d) = symbols[k] \o symbols[k + 1]
      BY <2>2, FlattenTwo
    <3> QED
      BY <3>1 DEF join
  <2> HIDE DEF b, d
  <2>5. \A x \in Seq(T), y \in Seq(T) : x \o y \in Seq(T) /\ FlattenSeq(x \o y) = FlattenSeq(x) \o FlattenSeq(y)
    BY FlattenConcat, ConcatProperties
  <2> HIDE DEF T
  <2>6. FlattenSeq((a \o b) \o c) = (FlattenSeq(a) \o join) \o FlattenSeq(c)
    <3>1. a \o b \in Seq(T) /\ FlattenSeq(a \o b) = FlattenSeq(a) \o join
      BY <2>1, <2>3, <2>5
    <3>2. FlattenSeq((a \o b) \o c) = FlattenSeq(a \o b) \o FlattenSeq(c)
      BY <2>1, <2>5, <3>1
    <3> QED
      BY <3>1, <3>2
  <2>7. FlattenSeq((a \o d) \o c) = (FlattenSeq(a) \o join) \o FlattenSeq(c)
    <3>1. a \o d \in Seq(T) /\ FlattenSeq(a \o d) = FlattenSeq(a) \o join
      BY <2>1, <2>4, <2>5
    <3>2. FlattenSeq((a \o d) \o c) = FlattenSeq(a \o d) \o FlattenSeq(c)
      BY <2>1, <2>5, <3>1
    <3> QED
      BY <3>1, <3>2
  <2> QED
    BY <1>11, <2>6, <2>7 DEF b, d
<1>14. Merged(InProgress(symbols)) = InProgress(new)
  <2> DEFINE others == RemoveAt(pairs, k)
             next == [i \in DOMAIN others |-> IF i \in {k - 1, k} THEN <<new[i], new[i + 1]>> ELSE others[i]]
  <2>1. Merged(InProgress(symbols)) = [symbols |-> new, pairs |-> next]
    BY DEF Merged, InProgress, k, a, c, join, n
  <2> HIDE DEF new, pairs
  <2>2. /\ DOMAIN others = 1 .. n - 2
        /\ \A i \in 1 .. n - 2 : others[i] = IF i < k THEN pairs[i] ELSE pairs[i + 1]
    <3> DEFINE u == SubSeq(pairs, 1, k - 1)
               v == SubSeq(pairs, k + 1, n - 1)
    <3>1. u \in Seq(V \X V) /\ Len(u) = k - 1 /\ \A i \in 1 .. k - 1 : u[i] = pairs[i]
      <4>1. 1 \in 1 .. Len(pairs) + 1 /\ k - 1 \in 1 - 1 .. Len(pairs) /\ ((k - 1) + 1) - 1 = k - 1
        BY <1>2, <1>3, <1>7
      <4>2. /\ u \in Seq(V \X V) /\ Len(u) = ((k - 1) + 1) - 1
            /\ \A i \in 1 .. ((k - 1) + 1) - 1 : u[i] = pairs[1 + i - 1]
        BY <1>3, <4>1, PartOf
      <4> QED
        BY <4>1, <4>2
    <3>2. v \in Seq(V \X V) /\ Len(v) = (n - 1) - k /\ \A i \in 1 .. (n - 1) - k : v[i] = pairs[k + i]
      <4>1. k + 1 \in 1 .. Len(pairs) + 1 /\ n - 1 \in (k + 1) - 1 .. Len(pairs) /\ ((n - 1) + 1) - (k + 1) = (n - 1) - k
        BY <1>2, <1>3, <1>7
      <4>2. /\ v \in Seq(V \X V) /\ Len(v) = ((n - 1) + 1) - (k + 1)
            /\ \A i \in 1 .. ((n - 1) + 1) - (k + 1) : v[i] = pairs[(k + 1) + i - 1]
        <5> DEFINE e == k + 1
                   m == n - 1
        <5>1. pairs \in Seq(V \X V) /\ e \in 1 .. Len(pairs) + 1 /\ m \in e - 1 .. Len(pairs)
          BY <1>3, <4>1
        <5> HIDE DEF e, m
        <5>2. /\ SubSeq(pairs, e, m) \in Seq(V \X V) /\ Len(SubSeq(pairs, e, m)) = (m + 1) - e
              /\ \A i \in 1 .. (m + 1) - e : SubSeq(pairs, e, m)[i] = pairs[e + i - 1]
          BY ONLY <5>1, PartOf
        <5> QED
          BY <5>2 DEF e, m
      <4>3. ASSUME NEW i \in 1 .. (n - 1) - k PROVE v[i] = pairs[k + i]
        <5>1. i \in 1 .. ((n - 1) + 1) - (k + 1) /\ (k + 1) + i - 1 = k + i
          BY <1>2, <1>7
        <5>2. v[i] = pairs[(k + 1) + i - 1]
          BY <4>2, <5>1
        <5> HIDE DEF v
        <5> QED
          BY <5>1, <5>2
      <4> HIDE DEF v
      <4> QED
        BY <4>1, <4>2, <4>3
    <3>3. others = u \o v
      BY <1>3 DEF RemoveAt
    <3> HIDE DEF u, v, others
    <3>4. /\ u \o v \in Seq(V \X V) /\ Len(u \o v) = Len(u) + Len(v)
          /\ \A i \in 1 .. Len(u) + Len(v) : (u \o v)[i] = IF i <= Len(u) THEN u[i] ELSE v[i - Len(u)]
      <4>1. u \in Seq(V \X V) /\ v \in Seq(V \X V)
        BY <3>1, <3>2
      <4> QED
        BY ONLY <4>1, ConcatProperties
    <3>5. Len(u) + Len(v) = n - 2
      BY <1>2, <1>7, <3>1, <3>2
    <3>6. DOMAIN others = 1 .. n - 2
      BY <3>3, <3>4, <3>5
    <3>7. ASSUME NEW i \in 1 .. n - 2 PROVE others[i] = IF i < k THEN pairs[i] ELSE pairs[i + 1]
      <4>1. others[i] = IF i <= k - 1 THEN u[i] ELSE v[i - (k - 1)]
        BY <3>1, <3>3, <3>4, <3>5
      <4>2. CASE i < k
        BY <1>7, <3>1, <4>1, <4>2
      <4>3. CASE ~ (i < k)
        <5>1. i - (k - 1) \in 1 .. (n - 1) - k /\ k + (i - (k - 1)) = i + 1 /\ ~ (i <= k - 1)
          BY <1>2, <1>7, <4>3
        <5>2. v[i - (k - 1)] = pairs[i + 1]
          BY <3>2, <5>1
        <5> QED
          BY <4>1, <4>3, <5>1, <5>2
      <4> QED
        BY <4>2, <4>3
    <3> QED
      BY <3>6, <3>7
  <2> HIDE DEF others
  <2>3. ASSUME NEW i \in 1 .. n - 2 PROVE next[i] = <<new[i], new[i + 1]>>
    <3>1. next[i] = IF i \in {k - 1, k} THEN <<new[i], new[i + 1]>> ELSE others[i]
      BY <2>2
    <3> HIDE DEF next
    <3>2. i \in 1 .. n - 1 /\ i + 1 \in 1 .. n - 1
      BY <1>2
    <3>3. CASE i < k - 1
      <4>1. others[i] = <<symbols[i], symbols[i + 1]>> /\ i \notin {k - 1, k}
        BY <1>3, <1>7, <2>2, <3>2, <3>3
      <4>2. new[i] = symbols[i] /\ new[i + 1] = symbols[i + 1]
        BY <1>7, <1>12, <3>2, <3>3
      <4> QED
        BY <3>1, <4>1, <4>2
    <3>4. CASE i > k
      <4>1. others[i] = <<symbols[i + 1], symbols[(i + 1) + 1]>> /\ i \notin {k - 1, k}
        BY <1>3, <1>7, <2>2, <3>2, <3>4
      <4>2. new[i] = symbols[i + 1] /\ new[i + 1] = symbols[(i + 1) + 1]
        BY <1>7, <1>12, <3>2, <3>4
      <4> QED
        BY <3>1, <4>1, <4>2
    <3>5. i < k - 1 \/ i > k \/ i \in {k - 1, k}
      BY <1>7
    <3> QED
      BY <3>1, <3>3, <3>4, <3>5
  <2>4. PairsOf(new) = [i \in 1 .. n - 2 |-> <<new[i], new[i + 1]>>]
    <3>1. Len(new) - 1 = n - 2
      BY <1>2, <1>12
    <3> QED
      BY <3>1 DEF PairsOf
  <2>5. next = [i \in 1 .. n - 2 |-> next[i]]
    BY <2>2
  <2>6. next = PairsOf(new)
    <3> HIDE DEF next
    <3> QED
      BY <2>3, <2>4, <2>5
  <2> HIDE DEF next
  <2> QED
    BY <2>1, <2>6 DEF InProgress
<1> HIDE DEF new
<1>15. new \in Seq(SpelledTokens)
  BY <1>12 DEF V
<1> QED
  BY <1>13, <1>14, <1>15

\* A round of bpe_apply.
MergedOnce(w) == IF \E k \in DOMAIN w.pairs : RankOf(w.pairs[k]) <= Len(Merges) THEN Merged(w) ELSE w

\* The symbols that spell a word.
Spellings(word) == {symbols \in Seq(SpelledTokens) : FlattenSeq(symbols) = word}

\* A round of bpe_apply leaves symbols that spell the same word.
LEMMA RoundKeeps ==
    ASSUME EntriesAssumption, VocabularyAssumption, NEW word, NEW w \in {InProgress(y) : y \in Spellings(word)}
    PROVE  MergedOnce(w) \in {InProgress(y) : y \in Spellings(word)}
<1>1. PICK y \in Seq(SpelledTokens) : w = InProgress(y) /\ FlattenSeq(y) = word
  BY DEF Spellings
<1>2. w.pairs = PairsOf(y)
  BY <1>1 DEF InProgress
<1>3. CASE \E k \in DOMAIN PairsOf(y) : RankOf(PairsOf(y)[k]) <= Len(Merges)
  <2>1. PICK new \in Seq(SpelledTokens) : Merged(InProgress(y)) = InProgress(new) /\ FlattenSeq(new) = FlattenSeq(y)
    BY <1>3, MergedKeeps
  <2>2. MergedOnce(w) = InProgress(new)
    BY <1>1, <1>2, <1>3, <2>1 DEF MergedOnce
  <2>3. new \in Spellings(word)
    BY <1>1, <2>1 DEF Spellings
  <2> QED
    BY <2>2, <2>3
<1>4. CASE ~ \E k \in DOMAIN PairsOf(y) : RankOf(PairsOf(y)[k]) <= Len(Merges)
  BY <1>2, <1>4 DEF MergedOnce
<1> QED
  BY <1>3, <1>4

\* Byte pair encoding: the symbols are tokens, and put together they are the word.
LEMMA SymbolsSpellTheWord ==
    ASSUME EntriesAssumption, VocabularyAssumption, NEW word \in Seq(Nat),
           \A k \in DOMAIN word : <<word[k]>> \in SpelledTokens
    PROVE  BpeApply(word) \in Spellings(word)
<1> DEFINE n == Len(word)
           S == 1 .. n
           D == {InProgress(y) : y \in Spellings(word)}
           start == InProgress(Symbols(word))
           step == [p \in S \X D |-> MergedOnce(p[2])]
           Eq(f) == f = [s \in SUBSET S |-> IF s = {} THEN start ELSE MergedOnce(f[s \ {Max(s)}])]
           it == CHOOSE f : Eq(f)
<1>1. n \in Nat /\ S = 1 .. n /\ DOMAIN word = S
  BY ElementsOf
<1>2. start \in D
  <2>1. Symbols(word) \in [1 .. n -> SpelledTokens]
    BY <1>1 DEF Symbols
  <2>2. Symbols(word) \in Seq(SpelledTokens)
    <3> DEFINE y == Symbols(word)
    <3>1. y \in [1 .. n -> SpelledTokens] /\ n \in Nat
      BY <1>1, <2>1
    <3> HIDE DEF y, n
    <3>2. y \in Seq(SpelledTokens)
      BY <3>1
    <3> QED
      BY <3>2 DEF y
  <2>3. Symbols(word) = [k \in DOMAIN word |-> <<word[k]>>]
    BY DEF Symbols
  <2>4. FlattenSeq(Symbols(word)) = word
    BY <2>3, FlattenSingles
  <2> QED
    BY <2>2, <2>4 DEF Spellings
<1>3. BpeApply(word) = it[S].symbols
  <2> DEFINE places == [k \in 1 .. Len(word) |-> k]
  <2>1. DOMAIN places = S
    OBVIOUS
  <2>2. BpeApply(word) = (CHOOSE f : f = [s \in SUBSET DOMAIN places |->
                            IF s = {} THEN start
                            ELSE IF \E k \in DOMAIN f[s \ {Max(s)}].pairs : RankOf(f[s \ {Max(s)}].pairs[k]) <= Len(Merges)
                                 THEN Merged(f[s \ {Max(s)}]) ELSE f[s \ {Max(s)}]])[DOMAIN places].symbols
    BY DEF BpeApply, FoldLeft, MapThenFoldSet, InProgress
  <2> QED
    BY <2>1, <2>2 DEF MergedOnce
<1>4. \A w \in D : MergedOnce(w) \in D
  BY RoundKeeps
<1> HIDE DEF D, start
<1>5. step \in [S \X D -> D]
  BY <1>4
<1>6. PICK f \in [SUBSET S -> D] : IsLeftFold(f, start, step, S)
  <2> HIDE DEF step, S, n
  <2> QED
    BY <1>1, <1>2, <1>5, LeftFoldExists
<1>7. Eq(f)
  <2>1. ASSUME NEW s \in SUBSET S, s # {} PROVE f[s] = MergedOnce(f[s \ {Max(s)}])
    <3>1. Max(s) \in S /\ s \ {Max(s)} \in SUBSET S
      BY <1>1, <2>1, Segments
    <3>2. f[s \ {Max(s)}] \in D /\ f[s] = step[<<Max(s), f[s \ {Max(s)}]>>]
      BY <1>6, <2>1, <3>1 DEF IsLeftFold
    <3> HIDE DEF S
    <3> QED
      BY <3>1, <3>2
  <2> HIDE DEF S
  <2> QED
    BY <1>6, <2>1 DEF IsLeftFold
<1>8. Eq(it)
  <2> HIDE DEF Eq
  <2> QED
    BY <1>7
<1> HIDE DEF it
<1> DEFINE T == {s \in SUBSET S : it[s] \in D}
<1>9. \A s \in SUBSET S : s \in T
  <2>1. {} \in T
    BY <1>2, <1>8
  <2>2. ASSUME NEW s \in SUBSET S, s # {} PROVE \E x \in s : s \ {x} \in T => s \in T
    <3>1. Max(s) \in s /\ s \ {Max(s)} \in SUBSET S
      BY <1>1, <2>2, Segments
    <3>2. it[s] = MergedOnce(it[s \ {Max(s)}])
      <4> HIDE DEF S
      <4> QED
        BY <1>8, <2>2
    <3> HIDE DEF S
    <3> QED
      BY <1>4, <3>1, <3>2
  <2>3. IsFiniteSet(S)
    BY <1>1, Segments
  <2> HIDE DEF T, S
  <2> QED
    BY <2>1, <2>2, <2>3, SubsetInduction
<1>10. it[S] \in D
  BY <1>9
<1>11. PICK y \in Spellings(word) : it[S] = InProgress(y)
  BY <1>10 DEF D
<1> QED
  BY <1>3, <1>11 DEF InProgress

-----------------------------------------------------------------------------
(* Ids and their bytes.                                                    *)

\* What g makes of every element of a sequence.
Mapped(g, s) == [k \in DOMAIN s |-> g[s[k]]]

\* Sequences over A become sequences over B.
MapsSequences(g, A, B) ==
    \A s \in Seq(A) : /\ Mapped(g, s) \in Seq(B) /\ Len(Mapped(g, s)) = Len(s)
                      /\ \A k \in 1 .. Len(s) : Mapped(g, s)[k] = g[s[k]]

\* A function on elements takes sequences to sequences.
LEMMA MappedIs ==
    ASSUME NEW A, NEW B, NEW g \in [A -> B]
    PROVE  MapsSequences(g, A, B)
<1> SUFFICES ASSUME NEW s \in Seq(A)
             PROVE  /\ Mapped(g, s) \in Seq(B) /\ Len(Mapped(g, s)) = Len(s)
                    /\ \A k \in 1 .. Len(s) : Mapped(g, s)[k] = g[s[k]]
  BY DEF MapsSequences
<1> DEFINE n == Len(s)
           m == Mapped(g, s)
<1>1. n \in Nat /\ DOMAIN s = 1 .. n /\ \A k \in 1 .. n : s[k] \in A
  BY ElementsOf
<1>2. m = [k \in 1 .. n |-> g[s[k]]]
  BY <1>1 DEF Mapped
<1>3. m \in [1 .. n -> B] /\ \A k \in 1 .. n : m[k] = g[s[k]]
  <2> HIDE DEF m, n
  <2> QED
    BY <1>1, <1>2
<1> HIDE DEF m, n
<1>4. m \in Seq(B) /\ Len(m) = n
  BY <1>1, <1>3
<1> QED
  BY <1>3, <1>4 DEF m, n

MapsParts(g, A) == \A s, t \in Seq(A) : Mapped(g, s \o t) = Mapped(g, s) \o Mapped(g, t)

\* A function on elements is applied to the parts of a sequence.
LEMMA MappedConcat ==
    ASSUME NEW A, NEW B, NEW g \in [A -> B]
    PROVE  MapsParts(g, A)
<1> SUFFICES ASSUME NEW s \in Seq(A), NEW t \in Seq(A)
             PROVE  Mapped(g, s \o t) = Mapped(g, s) \o Mapped(g, t)
  BY DEF MapsParts
<1>0. MapsSequences(g, A, B)
  BY MappedIs
<1> DEFINE c == s \o t
           u == Mapped(g, s)
           v == Mapped(g, t)
           w == Mapped(g, c)
<1>1. /\ c \in Seq(A) /\ Len(c) = Len(s) + Len(t) /\ Len(s) \in Nat /\ Len(t) \in Nat
      /\ \A k \in 1 .. Len(s) + Len(t) : c[k] = IF k <= Len(s) THEN s[k] ELSE t[k - Len(s)]
  BY ConcatProperties
<1> HIDE DEF c
<1>2. u \in Seq(B) /\ Len(u) = Len(s) /\ \A k \in 1 .. Len(s) : u[k] = g[s[k]]
  BY <1>0 DEF MapsSequences
<1>3. v \in Seq(B) /\ Len(v) = Len(t) /\ \A k \in 1 .. Len(t) : v[k] = g[t[k]]
  BY <1>0 DEF MapsSequences
<1>4. w \in Seq(B) /\ Len(w) = Len(c) /\ \A k \in 1 .. Len(c) : w[k] = g[c[k]]
  BY <1>0, <1>1 DEF MapsSequences
<1> HIDE DEF u, v, w
<1>5. /\ u \o v \in Seq(B) /\ Len(u \o v) = Len(u) + Len(v)
      /\ \A k \in 1 .. Len(u) + Len(v) : (u \o v)[k] = IF k <= Len(u) THEN u[k] ELSE v[k - Len(u)]
  <2>1. u \in Seq(B) /\ v \in Seq(B)
    BY <1>2, <1>3
  <2> QED
    BY ONLY <2>1, ConcatProperties
<1>6. Len(w) = Len(s) + Len(t) /\ Len(u \o v) = Len(s) + Len(t)
  BY <1>1, <1>2, <1>3, <1>4, <1>5
<1>7. ASSUME NEW k \in 1 .. Len(s) + Len(t) PROVE w[k] = (u \o v)[k]
  <2>1. w[k] = g[c[k]] /\ (u \o v)[k] = IF k <= Len(s) THEN u[k] ELSE v[k - Len(s)]
    BY <1>1, <1>2, <1>3, <1>4, <1>5
  <2>2. CASE k <= Len(s)
    <3>1. k \in 1 .. Len(s)
      BY <1>1, <2>2
    <3> QED
      BY <1>1, <1>2, <2>1, <2>2, <3>1
  <2>3. CASE ~ (k <= Len(s))
    <3>1. k - Len(s) \in 1 .. Len(t)
      BY <1>1, <2>3
    <3>2. v[k - Len(s)] = g[t[k - Len(s)]] /\ c[k] = t[k - Len(s)]
      BY <1>1, <1>3, <2>3, <3>1
    <3> QED
      BY <2>1, <2>3, <3>2
  <2> QED
    BY <2>2, <2>3
<1>8. w = u \o v
  BY <1>4, <1>5, <1>6, <1>7, SeqEqual
<1> QED
  BY <1>8 DEF u, v, w, c

\* What is done to every element respects concatenation.
LEMMA MappingRespects ==
    ASSUME NEW A, NEW B, NEW g \in [A -> B], NEW phi, phi = [s \in Seq(A) |-> Mapped(g, s)]
    PROVE  Respects(phi, A, B)
<1>1. MapsSequences(g, A, B) /\ MapsParts(g, A)
  BY MappedIs, MappedConcat
<1>2. phi \in [Seq(A) -> Seq(B)] /\ \A s \in Seq(A) : phi[s] = Mapped(g, s)
  <2>1. \A s \in Seq(A) : Mapped(g, s) \in Seq(B)
    BY <1>1 DEF MapsSequences
  <2> QED
    BY <2>1
<1>3. phi[<<>>] = <<>>
  <2>1. <<>> \in Seq(A) /\ Mapped(g, <<>>) = <<>>
    BY DEF Mapped
  <2>2. phi[<<>>] = Mapped(g, <<>>)
    BY <1>2, <2>1
  <2> QED
    BY <2>1, <2>2
<1>4. ASSUME NEW s \in Seq(A), NEW t \in Seq(A) PROVE phi[s \o t] = phi[s] \o phi[t]
  <2>1. s \o t \in Seq(A)
    BY ConcatProperties
  <2>2. phi[s \o t] = Mapped(g, s \o t)
    BY <1>2, <2>1
  <2>3. Mapped(g, s \o t) = Mapped(g, s) \o Mapped(g, t)
    BY <1>1 DEF MapsParts
  <2>4. phi[s] = Mapped(g, s) /\ phi[t] = Mapped(g, t)
    BY <1>2
  <2> QED
    BY <2>2, <2>3, <2>4
<1> QED
  BY <1>2, <1>3, <1>4 DEF Respects
-----------------------------------------------------------------------------
\* The id of a token is one of its entries'.
LEMMA IdOfToken ==
    ASSUME EntriesAssumption, NEW t \in DOMAIN TokenToId
    PROVE  \E k \in DOMAIN Entries : Entries[k].token = t /\ Entries[k].id = TokenToId[t]
<1> DEFINE v == Len(Vocabulary)
           added == {k \in DOMAIN AddedTokens : AddedTokens[k].token = t}
           plain == {k \in DOMAIN Vocabulary : Vocabulary[k].token = t}
<1>1. /\ v \in Nat /\ Len(AddedTokens) \in Nat
      /\ DOMAIN Vocabulary = 1 .. v /\ DOMAIN AddedTokens = 1 .. Len(AddedTokens)
      /\ DOMAIN Entries = 1 .. v + Len(AddedTokens)
      /\ \A k \in DOMAIN Entries : Entries[k] = IF k <= v THEN Vocabulary[k] ELSE AddedTokens[k - v]
  BY DEF Entries, EntriesAssumption
<1>2. PICK k \in DOMAIN Entries : Entries[k].token = t
  BY DEF TokenToId
<1>3. TokenToId[t] = IF added # {} THEN AddedTokens[CHOOSE i \in added : \A n \in added : n <= i].id
                     ELSE Vocabulary[CHOOSE i \in plain : \A n \in plain : i <= n].id
  BY DEF TokenToId
<1>4. CASE added # {}
  <2>1. added \in SUBSET Nat /\ \A n \in added : n <= Len(AddedTokens)
    BY <1>1
  <2>2. \E i \in added : \A n \in added : n <= i
    <3> HIDE DEF added
    <3> QED
      BY <1>1, <1>4, <2>1, GreatestNat
  <2>3. PICK i \in added : TokenToId[t] = AddedTokens[i].id
    <3> HIDE DEF added
    <3> QED
      BY <1>3, <1>4, <2>2
  <2>4. i \in 1 .. Len(AddedTokens) /\ AddedTokens[i].token = t
    BY <1>1
  <2>5. v + i \in DOMAIN Entries /\ ~ (v + i <= v) /\ (v + i) - v = i
    BY <1>1, <2>4
  <2>6. Entries[v + i] = AddedTokens[i]
    <3> HIDE DEF v
    <3> QED
      BY <1>1, <2>5
  <2> QED
    BY <2>3, <2>4, <2>5, <2>6
<1>5. CASE added = {}
  <2>1. plain \in SUBSET Nat
    BY <1>1
  <2>2. k <= v
    <3>1. ~ (k <= v) => k - v \in DOMAIN AddedTokens /\ Entries[k] = AddedTokens[k - v]
      BY <1>1
    <3> QED
      BY <1>2, <1>5, <3>1
  <2>3. k \in plain
    BY <1>1, <1>2, <2>2
  <2>4. \E i \in plain : \A n \in plain : i <= n
    <3> HIDE DEF plain
    <3> QED
      BY <2>1, <2>3, LeastNat
  <2>5. PICK i \in plain : TokenToId[t] = Vocabulary[i].id
    <3> HIDE DEF plain, added
    <3> QED
      BY <1>3, <1>5, <2>4
  <2>6. i \in DOMAIN Entries /\ Entries[i] = Vocabulary[i] /\ Vocabulary[i].token = t
    BY <1>1
  <2> QED
    BY <2>5, <2>6
<1> QED
  BY <1>4, <1>5

\* The ids and the tokens lead to each other.
LEMMA TokenOfId ==
    ASSUME EntriesAssumption, VocabularyAssumption, NEW t \in DOMAIN TokenToId
    PROVE  TokenToId[t] \in DOMAIN IdToToken /\ IdToToken[TokenToId[t]] = t
<1> DEFINE v == Len(Vocabulary)
           E == DOMAIN Entries
           id == TokenToId[t]
           at == {k \in E : Entries[k].id = id}
<1>1. PICK k \in E : Entries[k].token = t /\ Entries[k].id = id
  BY IdOfToken
<1>2. \E m \in Nat : E = 1 .. m
  <2>1. v \in Nat /\ Len(AddedTokens) \in Nat /\ E = 1 .. v + Len(AddedTokens)
    BY DEF Entries, EntriesAssumption
  <2> QED
    BY <2>1
<1>3. PICK m \in Nat : E = 1 .. m
  BY <1>2
<1>4. \A i \in E : Entries[i].id \in Nat
  <2>1. \A i \in DOMAIN Vocabulary : Vocabulary[i].id \in Nat
    <3> DEFINE F == [token : Seq(Nat), id : Nat]
    <3>1. Vocabulary \in Seq(F)
      BY DEF EntriesAssumption
    <3>2. \A i \in DOMAIN Vocabulary : Vocabulary[i] \in F
      <4> HIDE DEF F
      <4> QED
        BY <3>1, ElementsOf
    <3> QED
      BY <3>2
  <2>2. \A i \in DOMAIN AddedTokens : AddedTokens[i].id \in Nat
    <3> DEFINE F == [token : Seq(Nat), id : Nat, role : {"bos", "eos", "pad", "unk", "none"}]
    <3>1. AddedTokens \in Seq(F)
      BY DEF EntriesAssumption
    <3>2. \A i \in DOMAIN AddedTokens : AddedTokens[i] \in F
      <4> HIDE DEF F
      <4> QED
        BY <3>1, ElementsOf
    <3> QED
      BY <3>2
  <2>3. /\ v \in Nat /\ Len(AddedTokens) \in Nat
        /\ DOMAIN Vocabulary = 1 .. v /\ DOMAIN AddedTokens = 1 .. Len(AddedTokens)
        /\ E = 1 .. v + Len(AddedTokens)
        /\ \A i \in E : Entries[i] = IF i <= v THEN Vocabulary[i] ELSE AddedTokens[i - v]
    BY DEF Entries, EntriesAssumption
  <2>4. \A i \in E : IF i <= v THEN i \in DOMAIN Vocabulary ELSE i - v \in DOMAIN AddedTokens
    BY <2>3
  <2> HIDE DEF E, v
  <2> QED
    BY <2>1, <2>2, <2>3, <2>4
<1>5. id \in 0 .. TokenCountOf - 1
  <2>1. Ids \in SUBSET Nat /\ Ids # {} /\ id \in Ids
    BY <1>1, <1>4 DEF Ids
  <2>2. \E b \in Nat : \A n \in Ids : n <= b
    <3> DEFINE T == {j \in 0 .. m : \E b \in Nat : \A i \in 1 .. j : Entries[i].id <= b}
    <3>1. 0 \in T
      <4>1. 0 \in 0 .. m /\ 1 .. 0 = {} /\ 0 \in Nat
        OBVIOUS
      <4> QED
        BY <4>1
    <3>2. ASSUME NEW j \in 0 .. m - 1, j \in T PROVE j + 1 \in T
      <4>1. PICK b \in Nat : \A i \in 1 .. j : Entries[i].id <= b
        BY <3>2
      <4>2. j + 1 \in E /\ Entries[j + 1].id \in Nat
        <5>1. j + 1 \in 1 .. m
          BY <1>3
        <5> QED
          BY <1>3, <1>4, <5>1
      <4> DEFINE c == b + Entries[j + 1].id
      <4>3. c \in Nat /\ b <= c /\ Entries[j + 1].id <= c
        BY <4>2
      <4>4. ASSUME NEW i \in 1 .. j + 1 PROVE Entries[i].id <= c
        <5>1. i \in E /\ Entries[i].id \in Nat
          BY <1>3, <1>4
        <5>2. CASE i \in 1 .. j
          <6>1. Entries[i].id <= b
            BY <4>1, <5>2
          <6> HIDE DEF c
          <6> QED
            BY <4>3, <5>1, <6>1
        <5>3. CASE i = j + 1
          BY <4>3, <5>3
        <5> QED
          BY <5>2, <5>3
      <4>5. j + 1 \in 0 .. m
        BY <1>3
      <4> HIDE DEF c
      <4> QED
        BY <4>3, <4>4, <4>5
    <3>3. m \in T
      <4>1. m \in 0 .. m
        BY <1>3
      <4> HIDE DEF T
      <4> QED
        BY <1>3, <3>1, <3>2, <4>1, BoundedInduction
    <3> QED
      BY <1>3, <3>3 DEF Ids
  <2>3. PICK b \in Nat : \A n \in Ids : n <= b
    BY <2>2
  <2>4. \E g \in Ids : \A n \in Ids : n <= g
    BY <2>1, <2>3, GreatestNat
  <2> DEFINE top == CHOOSE g \in Ids : \A n \in Ids : n <= g
  <2>5. top \in Ids /\ \A n \in Ids : n <= top
    BY <2>4
  <2>6. TokenCountOf = 1 + top
    BY DEF TokenCountOf
  <2> HIDE DEF top, id
  <2>7. id <= top /\ id \in Nat /\ top \in Nat
    BY <2>1, <2>5
  <2> QED
    BY <2>6, <2>7
<1>6. at \in SUBSET Nat /\ at # {} /\ \A n \in at : n <= m
  BY <1>1, <1>3
<1>7. \E i \in at : \A n \in at : n <= i
  <2> HIDE DEF at
  <2> QED
    BY <1>6, GreatestNat
<1>8. IdToToken[id] = Entries[CHOOSE i \in at : \A n \in at : n <= i].token
  BY <1>5, <1>6 DEF IdToToken
<1>9. PICK i \in at : IdToToken[id] = Entries[i].token
  <2> HIDE DEF at
  <2> QED
    BY <1>7, <1>8
<1>10. Entries[i].token = t
  BY <1>1 DEF VocabularyAssumption
<1>11. DOMAIN IdToToken = 0 .. TokenCountOf - 1
  BY DEF IdToToken
<1> QED
  BY <1>5, <1>9, <1>10, <1>11

\* The byte of a code; a code that stands for no byte is shown as a question mark.
ByteOf == [cp \in Nat |-> IF UnicodeToByte(cp) = Unmapped THEN 63 ELSE UnicodeToByte(cp)]

\* The byte of the code of a byte is that byte: byte_to_unicode_ and unicode_to_byte_ are inverses.
LEMMA BytesOfCodes ==
    /\ ByteOf \in [Nat -> 0 .. 255]
    /\ \A b \in 0 .. 255 : ByteToUnicode[b] \in Nat /\ ByteOf[ByteToUnicode[b]] = b
<1>1. ASSUME NEW cp \in Nat PROVE UnicodeToByte(cp) \in 0 .. 255 \/ UnicodeToByte(cp) = Unmapped
  <2>1. CASE cp \in Range(ByteToUnicode)
    <3>1. PICK b \in 0 .. 255 : ByteToUnicode[b] = cp
      <4>1. DOMAIN ByteToUnicode = 0 .. 255
        BY ByteCodes, Zenon
      <4> QED
        BY <2>1, <4>1, Zenon DEF Range
    <3>2. UnicodeToByte(cp) = b
      BY <3>1, CodeLeadsBack
    <3> QED
      BY <3>2
  <2>2. CASE cp \notin Range(ByteToUnicode)
    BY <2>2 DEF UnicodeToByte
  <2> QED
    BY <2>1, <2>2
<1>2. ASSUME NEW b \in 0 .. 255 PROVE ByteToUnicode[b] \in Nat /\ ByteOf[ByteToUnicode[b]] = b
  <2>1. ByteToUnicode[b] \in Nat /\ UnicodeToByte(ByteToUnicode[b]) = b /\ b # Unmapped
    <3>1. ByteToUnicode[b] \in Nat
      BY ByteCodes, Zenon
    <3>2. UnicodeToByte(ByteToUnicode[b]) = b
      BY CodeLeadsBack
    <3>3. b # Unmapped
      BY DEF Unmapped
    <3> QED
      BY <3>1, <3>2, <3>3, Zenon
  <2> QED
    BY <2>1 DEF ByteOf
<1>3. ByteOf \in [Nat -> 0 .. 255]
  BY <1>1 DEF ByteOf
<1> QED
  BY <1>2, <1>3

\* The bytes a token stands for.
TokenBytes == [t \in Seq(Nat) |-> Mapped(ByteOf, t)]

\* The bytes of a token are the bytes of its parts.
LEMMA TokenBytesRespect ==
    /\ Respects(TokenBytes, Nat, 0 .. 255) /\ GoesToTheParts(TokenBytes, Nat)
    /\ TokenBytes \in [Seq(Nat) -> Seq(0 .. 255)]
<1>1. ByteOf \in [Nat -> 0 .. 255]
  BY BytesOfCodes
<1>2. Respects(TokenBytes, Nat, 0 .. 255)
  BY <1>1, MappingRespects, Zenon DEF TokenBytes
<1>3. GoesToTheParts(TokenBytes, Nat)
  BY <1>2, FlattenMap
<1> QED
  BY <1>2, <1>3 DEF Respects

\* Tokens and pieces are decoded to their bytes.
LEMMA BytesOfAPiece ==
    ASSUME NEW piece \in Seq(0 .. 255)
    PROVE  Coded(piece) \in Seq(Nat) /\ TokenBytes[Coded(piece)] = piece
<1>1. ByteToUnicode \in [0 .. 255 -> Nat] /\ ByteOf \in [Nat -> 0 .. 255]
  BY ByteCodes, BytesOfCodes, Zenon
<1>2. Coded(piece) = Mapped(ByteToUnicode, piece)
  BY DEF Coded, Mapped
<1>3. MapsSequences(ByteToUnicode, 0 .. 255, Nat)
  BY <1>1, MappedIs
<1>4. Coded(piece) \in Seq(Nat)
  BY <1>2, <1>3 DEF MapsSequences
<1>5. TokenBytes[Coded(piece)] = Mapped(ByteOf, Mapped(ByteToUnicode, piece))
  BY <1>2, <1>4 DEF TokenBytes
<1>6. DOMAIN piece = 1 .. Len(piece) /\ \A k \in DOMAIN piece : piece[k] \in 0 .. 255
  BY ElementsOf
<1>7. \A k \in DOMAIN piece : ByteOf[ByteToUnicode[piece[k]]] = piece[k]
  BY <1>6, BytesOfCodes
<1>8. Mapped(ByteOf, Mapped(ByteToUnicode, piece)) = [k \in DOMAIN piece |-> ByteOf[ByteToUnicode[piece[k]]]]
  BY DEF Mapped
<1>9. piece = [k \in DOMAIN piece |-> piece[k]]
  <2>1. piece \in [1 .. Len(piece) -> 0 .. 255]
    BY LenProperties
  <2> QED
    BY <1>6, <2>1
<1> QED
  BY <1>4, <1>5, <1>7, <1>8, <1>9
-----------------------------------------------------------------------------
\* The ids decode spells.
SpelledIds == {TokenToId[t] : t \in SpelledTokens}
SpelledAs == [id \in SpelledIds |-> Spelled(id)]
IdOf == [t \in SpelledTokens |-> TokenToId[t]]
DecodedAs == [tokens \in Seq(SpelledIds) |-> Decoded(tokens)]

\* decode gives the bytes of the token of an id, unless it is one of the special ids.
LEMMA SpelledIsTheToken ==
    ASSUME EntriesAssumption, VocabularyAssumption
    PROVE  /\ IdOf \in [SpelledTokens -> SpelledIds] /\ SpelledAs \in [SpelledIds -> Seq(0 .. 255)]
           /\ \A t \in SpelledTokens : IdOf[t] = TokenToId[t] /\ SpelledAs[IdOf[t]] = TokenBytes[t]
<1>1. SpelledTokens \in SUBSET DOMAIN TokenToId /\ SpelledTokens \in SUBSET Seq(Nat)
  BY TokensAreCodes DEF SpelledTokens
<1>2. ASSUME NEW t \in SpelledTokens PROVE Spelled(TokenToId[t]) = TokenBytes[t]
  <2>1. TokenToId[t] \in DOMAIN IdToToken /\ IdToToken[TokenToId[t]] = t /\ t \in Seq(Nat)
    BY <1>1, TokenOfId
  <2>2. TokenToId[t] \notin {Special.bos, Special.eos, Special.pad}
    BY DEF SpelledTokens
  <2>3. Spelled(TokenToId[t]) = [k \in DOMAIN t |->
            IF UnicodeToByte(t[k]) = Unmapped THEN 63 ELSE UnicodeToByte(t[k])]
    BY <2>1, <2>2 DEF Spelled
  <2>4. \A k \in DOMAIN t : t[k] \in Nat
    BY <2>1, ElementsOf
  <2>5. TokenBytes[t] = Mapped(ByteOf, t)
    BY <2>1 DEF TokenBytes
  <2>6. Mapped(ByteOf, t) = [k \in DOMAIN t |-> IF UnicodeToByte(t[k]) = Unmapped THEN 63 ELSE UnicodeToByte(t[k])]
    BY <2>4 DEF Mapped, ByteOf
  <2> QED
    BY <2>3, <2>5, <2>6
<1>3. \A t \in SpelledTokens : TokenToId[t] \in SpelledIds /\ IdOf[t] = TokenToId[t]
  BY DEF SpelledIds, IdOf
<1>4. IdOf \in [SpelledTokens -> SpelledIds]
  BY <1>3 DEF IdOf
<1>5. \A id \in SpelledIds : SpelledAs[id] = Spelled(id)
  BY DEF SpelledAs
<1>6. ASSUME NEW id \in SpelledIds PROVE Spelled(id) \in Seq(0 .. 255)
  <2>1. PICK t \in SpelledTokens : id = TokenToId[t]
    BY DEF SpelledIds
  <2>2. TokenBytes[t] \in Seq(0 .. 255)
    BY <1>1, TokenBytesRespect
  <2> QED
    BY <1>2, <2>1, <2>2
<1>7. SpelledAs \in [SpelledIds -> Seq(0 .. 255)]
  BY <1>6 DEF SpelledAs
<1>8. ASSUME NEW t \in SpelledTokens PROVE IdOf[t] = TokenToId[t] /\ SpelledAs[IdOf[t]] = TokenBytes[t]
  BY <1>2, <1>3, <1>5
<1> QED
  BY <1>4, <1>7, <1>8

\* Decoding respects concatenation.
LEMMA DecodingRespects ==
    ASSUME EntriesAssumption, VocabularyAssumption
    PROVE  /\ \A tokens \in Seq(SpelledIds) : Decoded(tokens) = FlattenSeq(Mapped(SpelledAs, tokens))
           /\ GoesToTheParts(DecodedAs, SpelledIds)
<1> DEFINE S == SpelledIds
           A == 0 .. 255
<1>1. SpelledAs \in [S -> Seq(A)] /\ \A id \in S : SpelledAs[id] = Spelled(id)
  BY SpelledIsTheToken DEF SpelledAs
<1>2. MapsSequences(SpelledAs, S, Seq(A)) /\ MapsParts(SpelledAs, S)
  <2> HIDE DEF S, A
  <2> QED
    BY <1>1, MappedIs, MappedConcat
<1>3. ASSUME NEW tokens \in Seq(S) PROVE Decoded(tokens) = FlattenSeq(Mapped(SpelledAs, tokens))
  <2>1. \A k \in DOMAIN tokens : tokens[k] \in S
    BY ElementsOf
  <2>2. Mapped(SpelledAs, tokens) = [k \in DOMAIN tokens |-> Spelled(tokens[k])]
    BY <1>1, <2>1 DEF Mapped
  <2> QED
    BY <2>2 DEF Decoded
<1>4. ASSUME NEW x \in Seq(S) PROVE Mapped(SpelledAs, x) \in Seq(Seq(A)) /\ Decoded(x) \in Seq(A)
  <2>1. Mapped(SpelledAs, x) \in Seq(Seq(A))
    BY <1>2 DEF MapsSequences
  <2>2. FlattenSeq(Mapped(SpelledAs, x)) \in Seq(A)
    <3> HIDE DEF A
    <3> QED
      BY <2>1, FlattenType
  <2> QED
    BY <1>3, <2>1, <2>2
<1>5. DecodedAs \in [Seq(S) -> Seq(A)] /\ \A x \in Seq(S) : DecodedAs[x] = Decoded(x)
  BY <1>4 DEF DecodedAs
<1>6. DecodedAs[<<>>] = <<>>
  <2>1. <<>> \in Seq(S) /\ Mapped(SpelledAs, <<>>) = <<>>
    BY DEF Mapped
  <2>2. FlattenSeq(<<>>) = <<>>
    BY DEF FlattenSeq
  <2> HIDE DEF S
  <2> QED
    BY <1>3, <1>5, <2>1, <2>2
<1>7. ASSUME NEW x \in Seq(S), NEW y \in Seq(S) PROVE DecodedAs[x \o y] = DecodedAs[x] \o DecodedAs[y]
  <2> DEFINE u == Mapped(SpelledAs, x)
             v == Mapped(SpelledAs, y)
  <2>1. x \o y \in Seq(S)
    BY ConcatProperties
  <2>2. Mapped(SpelledAs, x \o y) = u \o v
    BY <1>2 DEF MapsParts
  <2>3. u \in Seq(Seq(A)) /\ v \in Seq(Seq(A))
    BY <1>4
  <2> HIDE DEF u, v, A, S
  <2>4. FlattenSeq(u \o v) = FlattenSeq(u) \o FlattenSeq(v)
    BY <2>3, FlattenConcat
  <2>5. Decoded(x \o y) = FlattenSeq(u \o v)
    BY <1>3, <2>1, <2>2
  <2>6. Decoded(x) = FlattenSeq(u) /\ Decoded(y) = FlattenSeq(v)
    BY <1>3 DEF u, v
  <2>7. DecodedAs[x \o y] = Decoded(x \o y) /\ DecodedAs[x] = Decoded(x) /\ DecodedAs[y] = Decoded(y)
    BY <1>5, <2>1
  <2> QED
    BY <2>4, <2>5, <2>6, <2>7
<1>8. Respects(DecodedAs, S, A)
  BY <1>5, <1>6, <1>7 DEF Respects
<1>9. GoesToTheParts(DecodedAs, S)
  <2> HIDE DEF S, A
  <2> QED
    BY <1>8, FlattenMap
<1> QED
  BY <1>3, <1>9

\* The ids of the symbols of a word are decoded to the bytes of the word.
LEMMA IdsSpellTheWord ==
    ASSUME EntriesAssumption, VocabularyAssumption, NEW word \in Seq(Nat), NEW symbols \in Spellings(word)
    PROVE  IdsOf(symbols) \in Seq(SpelledIds) /\ Decoded(IdsOf(symbols)) = TokenBytes[word]
<1> DEFINE ids_ == Mapped(IdOf, symbols)
<1>1. symbols \in Seq(SpelledTokens) /\ FlattenSeq(symbols) = word
  BY DEF Spellings
<1>2. \A k \in DOMAIN symbols : symbols[k] \in SpelledTokens
  BY <1>1, ElementsOf
<1>3. /\ IdOf \in [SpelledTokens -> SpelledIds] /\ SpelledAs \in [SpelledIds -> Seq(0 .. 255)]
      /\ \A t \in SpelledTokens : IdOf[t] = TokenToId[t] /\ SpelledAs[IdOf[t]] = TokenBytes[t]
  BY SpelledIsTheToken
<1>4. ids_ \in Seq(SpelledIds)
  <2>1. MapsSequences(IdOf, SpelledTokens, SpelledIds)
    BY <1>3, MappedIs
  <2> QED
    BY <1>1, <2>1 DEF MapsSequences
<1>5. IdsOf(symbols) = ids_
  <2>1. \A k \in DOMAIN symbols : symbols[k] \in DOMAIN TokenToId
    BY <1>2 DEF SpelledTokens
  <2>2. \A k \in DOMAIN symbols : ids_[k] = TokenToId[symbols[k]]
    BY <1>2, <1>3 DEF Mapped
  <2>3. DOMAIN ids_ = DOMAIN symbols
    BY DEF Mapped
  <2> DEFINE singles == [k \in DOMAIN ids_ |-> <<ids_[k]>>]
  <2>4. IdsOf(symbols) = FlattenSeq(singles)
    <3>1. IdsOf(symbols) = FlattenSeq([k \in DOMAIN symbols |->
              CASE symbols[k] \in DOMAIN TokenToId -> <<TokenToId[symbols[k]]>>
                [] symbols[k] \notin DOMAIN TokenToId /\ Special.unk # NoId -> <<Special.unk>>
                [] OTHER -> <<>>])
      BY DEF IdsOf
    <3>2. \A k \in DOMAIN symbols :
             (CASE symbols[k] \in DOMAIN TokenToId -> <<TokenToId[symbols[k]]>>
                [] symbols[k] \notin DOMAIN TokenToId /\ Special.unk # NoId -> <<Special.unk>>
                [] OTHER -> <<>>) = <<ids_[k]>>
      <4> HIDE DEF ids_
      <4> QED
        BY <2>1, <2>2
    <3> HIDE DEF ids_
    <3>3. [k \in DOMAIN symbols |->
              CASE symbols[k] \in DOMAIN TokenToId -> <<TokenToId[symbols[k]]>>
                [] symbols[k] \notin DOMAIN TokenToId /\ Special.unk # NoId -> <<Special.unk>>
                [] OTHER -> <<>>] = singles
      BY <2>3, <3>2
    <3> QED
      BY <3>1, <3>3
  <2> HIDE DEF ids_
  <2>5. FlattenSeq(singles) = ids_
    BY <1>4, FlattenSingles
  <2> QED
    BY <2>4, <2>5
<1>6. Mapped(SpelledAs, ids_) = [k \in DOMAIN symbols |-> TokenBytes[symbols[k]]]
  <2>1. DOMAIN ids_ = DOMAIN symbols /\ \A k \in DOMAIN symbols : ids_[k] = IdOf[symbols[k]]
    BY DEF Mapped
  <2>2. \A k \in DOMAIN symbols : SpelledAs[ids_[k]] = TokenBytes[symbols[k]]
    <3> HIDE DEF ids_
    <3> QED
      BY <1>2, <1>3, <2>1
  <2> HIDE DEF ids_
  <2> QED
    BY <2>1, <2>2 DEF Mapped
<1>7. TokenBytes[FlattenSeq(symbols)] = FlattenSeq([k \in DOMAIN symbols |-> TokenBytes[symbols[k]]])
  <2>1. symbols \in Seq(Seq(Nat))
    <3>1. SpelledTokens \in SUBSET Seq(Nat)
      BY TokensAreCodes
    <3> QED
      BY <1>1, <3>1, SeqMonotonic
  <2>2. GoesToTheParts(TokenBytes, Nat)
    BY TokenBytesRespect
  <2> QED
    BY <2>1, <2>2 DEF GoesToTheParts
<1>8. Decoded(ids_) = FlattenSeq(Mapped(SpelledAs, ids_))
  <2> HIDE DEF ids_
  <2> QED
    BY <1>4, DecodingRespects
<1> HIDE DEF ids_
<1> QED
  BY <1>1, <1>4, <1>5, <1>6, <1>7, <1>8
-----------------------------------------------------------------------------
\* Encoding and decoding gives the text back.
LEMMA RoundTrip ==
    ASSUME EntriesAssumption, VocabularyAssumption, NEW s \in Texts, WithoutDigits(s)
    PROVE  Decoded(Encoded(s)) = s
<1>1. /\ s \in Seq(0 .. 255)
      /\ \A b \in Range(s) : <<ByteToUnicode[b]>> \in SpelledTokens
      /\ \A piece \in Range(Pretokens(s)) : piece \in DOMAIN TokenToId => piece \in SpelledTokens
  <2>1. \A t \in Texts : /\ t \in Seq(0 .. 255)
                         /\ \A b \in Range(t) : <<ByteToUnicode[b]>> \in SpelledTokens
                         /\ \A piece \in Range(Pretokens(t)) : piece \in DOMAIN TokenToId => piece \in SpelledTokens
    BY VocabularyAssumption, Zenon DEF VocabularyAssumption
  <2> QED
    BY <2>1, Zenon
<1>2. PICK pieces \in Seq(Seq(Range(s))) :
         FlattenSeq(pieces) = s /\ Pretokens(s) = [k \in DOMAIN pieces |-> Coded(pieces[k])]
  BY <1>1, PiecesMakeUpTheText
<1>3. Range(s) \in SUBSET (0 .. 255)
  <2>1. s \in Seq(0 .. 255)
    BY <1>1, Zenon
  <2>2. \A k \in DOMAIN s : s[k] \in 0 .. 255
    BY <2>1, Zenon, ElementsOf
  <2> QED
    BY <2>2 DEF Range
<1> DEFINE n == Len(pieces)
           pre(k) == Coded(pieces[k])
           parts == [k \in 1 .. n |-> IdsOf(SymbolsOf(Coded(pieces[k])))]
<1>4. n \in Nat /\ DOMAIN pieces = 1 .. n /\ \A k \in 1 .. n : pieces[k] \in Seq(Range(s))
  BY ElementsOf
<1>5. ASSUME NEW k \in 1 .. n
      PROVE  /\ IdsOf(SymbolsOf(Coded(pieces[k]))) \in Seq(SpelledIds)
             /\ Decoded(IdsOf(SymbolsOf(Coded(pieces[k])))) = pieces[k]
  <2> DEFINE piece == pieces[k]
             word == Coded(piece)
  <2>1. piece \in Seq(Range(s)) /\ piece \in Seq(0 .. 255)
    BY <1>3, <1>4, SeqMonotonic
  <2> HIDE DEF piece
  <2>2. word \in Seq(Nat) /\ TokenBytes[word] = piece
    BY <2>1, BytesOfAPiece
  <2>3. SymbolsOf(word) \in Spellings(word)
    <3>1. CASE word \in DOMAIN TokenToId
      <4>1. word \in Range(Pretokens(s))
        BY <1>2, <1>4 DEF Range, piece
      <4>2. word \in SpelledTokens
        BY <1>1, <3>1, <4>1
      <4> HIDE DEF word
      <4>3. <<word>> \in Seq(SpelledTokens) /\ FlattenSeq(<<word>>) = word
        BY <2>2, <4>2, FlattenOne
      <4> QED
        BY <3>1, <4>3 DEF SymbolsOf, Spellings
    <3>2. CASE word \notin DOMAIN TokenToId
      <4>1. ASSUME NEW i \in DOMAIN word PROVE <<word[i]>> \in SpelledTokens
        <5>1. DOMAIN word = DOMAIN piece /\ word[i] = ByteToUnicode[piece[i]]
          BY DEF Coded
        <5>2. piece[i] \in Range(s)
          BY <2>1, <4>1, <5>1, ElementsOf
        <5> QED
          BY <1>1, <5>1, <5>2
      <4> HIDE DEF word
      <4>2. BpeApply(word) \in Spellings(word)
        BY <2>2, <4>1, SymbolsSpellTheWord
      <4> QED
        BY <3>2, <4>2 DEF SymbolsOf
    <3> QED
      BY <3>1, <3>2
  <2> HIDE DEF word
  <2>4. IdsOf(SymbolsOf(word)) \in Seq(SpelledIds) /\ Decoded(IdsOf(SymbolsOf(word))) = TokenBytes[word]
    BY <2>2, <2>3, IdsSpellTheWord
  <2> QED
    BY <2>2, <2>4 DEF word, piece
<1>6. parts \in Seq(Seq(SpelledIds)) /\ DOMAIN parts = 1 .. n
      /\ \A k \in 1 .. n : parts[k] \in Seq(SpelledIds) /\ Decoded(parts[k]) = pieces[k]
  <2>1. parts \in [1 .. n -> Seq(SpelledIds)]
    BY <1>5
  <2>2. \A k \in 1 .. n : parts[k] \in Seq(SpelledIds) /\ Decoded(parts[k]) = pieces[k]
    BY <1>5
  <2> HIDE DEF parts, n
  <2> QED
    BY <1>4, <2>1, <2>2
<1>7. Encoded(s) = FlattenSeq(parts)
  <2> DEFINE pres == Pretokens(s)
  <2>1. DOMAIN pres = 1 .. n /\ \A k \in 1 .. n : pres[k] = Coded(pieces[k])
    BY <1>2, <1>4
  <2>2. Encoded(s) = FlattenSeq([k \in DOMAIN pres |-> IdsOf(SymbolsOf(pres[k]))])
    BY DEF Encoded
  <2> HIDE DEF pres, n
  <2>3. [k \in DOMAIN pres |-> IdsOf(SymbolsOf(pres[k]))] = parts
    BY <2>1
  <2> QED
    BY <2>2, <2>3
<1> HIDE DEF parts
<1>8. DecodedAs[FlattenSeq(parts)] = FlattenSeq([k \in DOMAIN parts |-> DecodedAs[parts[k]]])
  <2>1. GoesToTheParts(DecodedAs, SpelledIds)
    BY DecodingRespects
  <2> QED
    BY <1>6, <2>1 DEF GoesToTheParts
<1>9. [k \in DOMAIN parts |-> DecodedAs[parts[k]]] = pieces
  <2>1. \A k \in 1 .. n : DecodedAs[parts[k]] = pieces[k]
    BY <1>6 DEF DecodedAs
  <2>2. pieces = [k \in 1 .. n |-> pieces[k]]
    <3>1. pieces \in [1 .. n -> Seq(Range(s))]
      OBVIOUS
    <3> QED
      BY <3>1
  <2> HIDE DEF n
  <2> QED
    BY <1>6, <2>1, <2>2
<1>10. DecodedAs[FlattenSeq(parts)] = Decoded(FlattenSeq(parts))
  <2>1. FlattenSeq(parts) \in Seq(SpelledIds)
    BY <1>6, FlattenType
  <2> QED
    BY <2>1 DEF DecodedAs
<1> QED
  BY <1>2, <1>7, <1>8, <1>9, <1>10

\* What is said is the text the ids were made of.
TokenizerInv ==
    /\ text # NoText => text \in Texts /\ ids = Encoded(text)
    /\ said # NoText => text # NoText /\ said = text

\* decode(encode(text)) is the text, for every vocabulary of the byte-level kind and every set of
\* texts without digits: the pieces byte_level_pretokenize cuts make up the text, the symbols that
\* bpe_apply leaves make up the piece, each of them is a token, and decode spells the token of an id.
\* (A digit is lost, or a run of them repeats its first one: DigitPieces.)
THEOREM TextsAreSpelled ==
    ASSUME \A s \in Texts : WithoutDigits(s)
    PROVE  TokenizerSpec => []TokensSpellTheText
<1>1. TokenizerInit => TokenizerInv
  BY DEF TokenizerInit, TokenizerInv
<1>2. ASSUME TokenizerInv, [TokenizerNext]_<<text, ids, said>> PROVE TokenizerInv'
  <2>1. ASSUME NEW t \in Texts, Encode(t) PROVE TokenizerInv'
    BY <1>2, <2>1 DEF TokenizerInv, Encode
  <2>2. CASE Decode
    <3>1. text \in Texts /\ ids = Encoded(text) /\ said' = Decoded(ids) /\ text' = text /\ ids' = ids /\ text # NoText
      BY <1>2, <2>2 DEF TokenizerInv, Decode
    <3>2. Decoded(Encoded(text)) = text
      BY <3>1, RoundTrip, EntriesAssumption, VocabularyAssumption
    <3> QED
      BY <3>1, <3>2 DEF TokenizerInv
  <2>3. CASE Forget
    BY <2>3 DEF TokenizerInv, Forget
  <2>4. CASE UNCHANGED <<text, ids, said>>
    BY <1>2, <2>4 DEF TokenizerInv
  <2> QED
    BY <1>2, <2>1, <2>2, <2>3, <2>4 DEF TokenizerNext
<1>3. TokenizerInv => TokensSpellTheText
  BY DEF TokenizerInv, TokensSpellTheText
<1> QED
  BY <1>1, <1>2, <1>3, PTL DEF TokenizerSpec
=============================================================================
