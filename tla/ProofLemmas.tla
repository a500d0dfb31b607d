---------------------------- MODULE ProofLemmas ----------------------------
(***************************************************************************)
(* What the proofs about several components need of numbers, finite sets   *)
(* and recursion.  The induction theorems of the library quantify over     *)
(* operators; these quantify over sets and functions instead, so that a    *)
(* proof can instantiate them: an induction is about the set of the        *)
(* numbers, or of the subsets, that have a property, and a recursion about *)
(* the function that makes one step.                                       *)
(***************************************************************************)
EXTENDS Integers, SequencesExt, FiniteSetTheorems, WellFoundedInduction, TLAPS

\* A non-empty set of naturals has a least element.
LEMMA LeastNat ==
    ASSUME NEW S \in SUBSET Nat, S # {}
    PROVE  \E n \in S : \A m \in S : n <= m
<1>1. IsWellFoundedOn(OpToRel(<, Nat), Nat)
  BY NatLessThanWellFounded
<1>2. PICK n \in S : \A m \in S : ~ (<<m, n>> \in OpToRel(<, Nat))
  BY <1>1, WFMin
<1>3. ASSUME NEW m \in S PROVE n <= m
  <2>1. ~ (m < n)
    BY <1>2, <1>3 DEF OpToRel
  <2> QED
    BY <2>1
<1> QED
  BY <1>2, <1>3

\* A non-empty bounded set of naturals has a greatest element.
LEMMA GreatestNat ==
    ASSUME NEW S \in SUBSET Nat, S # {}, NEW b \in Nat, \A n \in S : n <= b
    PROVE  \E n \in S : \A m \in S : m <= n
<1> DEFINE T == {b - n : n \in S}
<1>1. T \in SUBSET Nat /\ T # {}
  <2>1. \A n \in S : n \in Nat /\ n <= b /\ b - n \in Nat
    OBVIOUS
  <2> QED
    BY <2>1
<1>2. PICK t \in T : \A u \in T : t <= u
  BY <1>1, LeastNat
<1>3. PICK n \in S : t = b - n
  BY <1>2
<1>4. ASSUME NEW m \in S PROVE m <= n
  <2>1. b - m \in T
    OBVIOUS
  <2>2. b - n <= b - m
    BY <1>2, <1>3, <2>1
  <2> QED
    BY <2>2
<1> QED
  BY <1>4

\* Min and Max pick what their names say.
LEMMA MinNat ==
    ASSUME NEW S \in SUBSET Nat, S # {}
    PROVE  Min(S) \in S /\ \A n \in S : Min(S) <= n
BY LeastNat DEF Min

\* A set of naturals with a bound contains its Max.
LEMMA MaxNat ==
    ASSUME NEW S \in SUBSET Nat, S # {}, NEW b \in Nat, \A n \in S : n <= b
    PROVE  Max(S) \in S /\ \A n \in S : n <= Max(S)
<1>1. \E n \in S : \A m \in S : n >= m
  BY GreatestNat
<1> QED
  BY <1>1 DEF Max

\* Induction over the naturals, and from 0 to a bound.
LEMMA NatInductionSet ==
    ASSUME NEW T, 0 \in T, \A n \in Nat : n \in T => n + 1 \in T
    PROVE  \A n \in Nat : n \in T
<1>1. SUFFICES ASSUME Nat \ T # {} PROVE FALSE
  OBVIOUS
<1>2. PICK x \in Nat \ T : \A y \in Nat \ T : x <= y
  BY <1>1, LeastNat
<1>3. x # 0 /\ x - 1 \in Nat /\ x - 1 \in T
  BY <1>2
<1> QED
  BY <1>3

\* Induction up to a bound.
LEMMA BoundedInduction ==
    ASSUME NEW b \in Nat, NEW T, 0 \in T, \A n \in 0 .. b - 1 : n \in T => n + 1 \in T
    PROVE  \A n \in 0 .. b : n \in T
<1> DEFINE U == {n \in Nat : n <= b => n \in T}
<1>1. 0 \in U
  OBVIOUS
<1>2. ASSUME NEW n \in Nat, n \in U PROVE n + 1 \in U
  <2>1. CASE n + 1 <= b
    <3>1. n \in T /\ n \in 0 .. b - 1
      BY <1>2, <2>1
    <3> QED
      BY <3>1
  <2> QED
    BY <2>1
<1>3. \A n \in Nat : n \in U
  <2> HIDE DEF U
  <2> QED
    BY <1>1, <1>2, NatInductionSet
<1> QED
  BY <1>3

\* Induction over the subsets of a finite set, one element at a time.
LEMMA SubsetInduction ==
    ASSUME NEW S, IsFiniteSet(S), NEW T, {} \in T,
           \A s \in SUBSET S : s # {} => \E x \in s : s \ {x} \in T => s \in T
    PROVE  \A s \in SUBSET S : s \in T
<1> DEFINE Less == StrictSubsetOrdering(S)
<1>1. IsWellFoundedOn(Less, SUBSET S)
  BY FS_StrictSubsetOrderingWellFounded, FS_FiniteSubsetsOfFinite
<1>2. SUFFICES ASSUME (SUBSET S) \ T # {} PROVE FALSE
  OBVIOUS
<1>3. PICK s \in (SUBSET S) \ T : \A u \in (SUBSET S) \ T : <<u, s>> \notin Less
  <2> HIDE DEF Less
  <2> QED
    BY <1>1, <1>2, WFMin
<1>4. PICK x \in s : s \ {x} \in T => s \in T
  OBVIOUS
<1>5. s \ {x} \in SUBSET S /\ s \ {x} # s /\ s \ {x} \subseteq s
  OBVIOUS
<1>6. <<s \ {x}, s>> \in Less
  BY <1>5 DEF StrictSubsetOrdering
<1> QED
  BY <1>3, <1>4, <1>5, <1>6

\* f[k] is where k steps from a lead, for the first n steps.
Iterates(f, a, step, n) == f[0] = a /\ \A k \in 1 .. n : f[k] = step[f[k - 1]]

\* A finite number of steps can be taken.
LEMMA Recursion ==
    ASSUME NEW S, NEW a \in S, NEW step \in [S -> S], NEW n \in Nat
    PROVE  \E f \in [0 .. n -> S] : Iterates(f, a, step, n)
<1> USE DEF Iterates
<1> DEFINE Done(f, m) == f[0] = a /\ \A k \in 1 .. m : f[k] = step[f[k - 1]]
           T == {m \in Nat : \E f \in [0 .. m -> S] : Done(f, m)}
<1>1. 0 \in T
  <2>1. [k \in 0 .. 0 |-> a] \in [0 .. 0 -> S] /\ Done([k \in 0 .. 0 |-> a], 0)
    OBVIOUS
  <2> QED
    BY <2>1
<1>2. ASSUME NEW m \in Nat, m \in T PROVE m + 1 \in T
  <2>1. PICK f \in [0 .. m -> S] : Done(f, m)
    BY <1>2
  <2> DEFINE h == [k \in 0 .. m + 1 |-> IF k = m + 1 THEN step[f[m]] ELSE f[k]]
  <2>2. h \in [0 .. m + 1 -> S]
    OBVIOUS
  <2>3. \A k \in 0 .. m : h[k] = f[k]
    OBVIOUS
  <2>4. h[m + 1] = step[h[m]]
    BY <2>3
  <2>5. ASSUME NEW k \in 1 .. m + 1 PROVE h[k] = step[h[k - 1]]
    <3>1. CASE k = m + 1
      BY <2>4, <3>1
    <3>2. CASE k # m + 1
      <4>1. k \in 1 .. m /\ k \in 0 .. m /\ k - 1 \in 0 .. m
        BY <3>2
      <4>2. h[k] = f[k] /\ h[k - 1] = f[k - 1] /\ f[k] = step[f[k - 1]]
        BY <2>1, <2>3, <4>1
      <4> QED
        BY <4>2
    <3> QED
      BY <3>1, <3>2
  <2>6. Done(h, m + 1)
    BY <2>1, <2>3, <2>5
  <2>7. \E g \in [0 .. m + 1 -> S] : Done(g, m + 1)
    <3> HIDE DEF h, Done
    <3> QED
      BY <2>2, <2>6
  <2> QED
    BY <2>7
<1>3. \A m \in Nat : m \in T
  <2> HIDE DEF T
  <2> QED
    BY <1>1, <1>2, NatInductionSet
<1> QED
  BY <1>3

\* A choice of an element in every non-empty part of S, the steps of a fold over S
\* with results in D, and what such a fold does.
Picks(pick, S) == \A s \in SUBSET S : s # {} => pick[s] \in s

Folds(base, step, S, D) == base \in D /\ step \in [S \X D -> D]

IsFold(f, base, pick, step, S) ==
    /\ f[{}] = base
    /\ \A s \in SUBSET S : s # {} => f[s] = step[<<pick[s], f[s \ {pick[s]}]>>]

\* A finite set can be folded, whatever order its elements are picked in.
LEMMA FoldExists ==
    ASSUME NEW S, IsFiniteSet(S), NEW pick, Picks(pick, S), NEW D, NEW base, NEW step,
           Folds(base, step, S, D)
    PROVE  \E f \in [SUBSET S -> D] : IsFold(f, base, pick, step, S)
<1> USE DEF Picks, Folds, IsFold
<1> DEFINE Fold(f, u) ==
              /\ f \in [SUBSET u -> D]
              /\ f[{}] = base
              /\ \A s \in SUBSET u : s # {} => f[s] = step[<<pick[s], f[s \ {pick[s]}]>>]
           T == {u \in SUBSET S : \E f : Fold(f, u)}
<1>0. \A u, v \in SUBSET S : \A f, h : Fold(f, u) /\ Fold(h, v) => \A s \in SUBSET (u \cap v) : f[s] = h[s]
  <2>0. SUFFICES ASSUME NEW u \in SUBSET S, NEW v \in SUBSET S, NEW f, NEW h, Fold(f, u), Fold(h, v)
                 PROVE  \A s \in SUBSET (u \cap v) : f[s] = h[s]
    <3> HIDE DEF Fold
    <3> QED
      OBVIOUS
  <2> DEFINE U == {s \in SUBSET S : s \subseteq u \cap v => f[s] = h[s]}
  <2>1. {} \in U
    BY <2>0
  <2>2. ASSUME NEW s \in SUBSET S, s # {}
        PROVE  \E x \in s : s \ {x} \in U => s \in U
    <3>1. pick[s] \in s /\ s \ {pick[s]} \in SUBSET S
      BY <2>2
    <3>2. ASSUME s \ {pick[s]} \in U, s \subseteq u \cap v PROVE f[s] = h[s]
      <4>1. f[s \ {pick[s]}] = h[s \ {pick[s]}]
        BY <3>2
      <4>2. s \in SUBSET u /\ s \in SUBSET v
        BY <3>2
      <4> QED
        BY <2>0, <2>2, <4>1, <4>2
    <3> QED
      BY <3>1, <3>2
  <2>3. \A s \in SUBSET S : s \in U
    <3> HIDE DEF U
    <3> QED
      BY <2>1, <2>2, SubsetInduction
  <2> QED
    BY <2>3
<1>1. {} \in T
  <2>1. Fold([s \in SUBSET {} |-> base], {})
    OBVIOUS
  <2> QED
    BY <2>1
<1>2. ASSUME NEW u \in SUBSET S, \A v \in SUBSET u : v # u => v \in T
      PROVE  u \in T
  <2> DEFINE F(v) == CHOOSE f : Fold(f, v)
             rest(s) == s \ {pick[s]}
             G == [s \in SUBSET u |-> IF s = {} THEN base ELSE step[<<pick[s], F(rest(s))[rest(s)]>>]]
  <2>1. ASSUME NEW v \in SUBSET u, v # u PROVE Fold(F(v), v)
    <3>1. \E f : Fold(f, v)
      BY <1>2, <2>1
    <3> HIDE DEF Fold
    <3> QED
      BY <3>1
  <2>2. ASSUME NEW s \in SUBSET u, s # {}
        PROVE  pick[s] \in s /\ pick[s] \in S /\ rest(s) \in SUBSET u /\ rest(s) # u
    BY <2>2
  <2>3. ASSUME NEW s \in SUBSET u, s # {} PROVE F(rest(s))[rest(s)] \in D
    <3>1. Fold(F(rest(s)), rest(s))
      <4> HIDE DEF Fold, F, rest
      <4> QED
        BY <2>1, <2>2, <2>3
    <3> HIDE DEF F, rest
    <3> QED
      BY <3>1
  <2>4. G \in [SUBSET u -> D]
    <3>1. ASSUME NEW s \in SUBSET u
          PROVE  (IF s = {} THEN base ELSE step[<<pick[s], F(rest(s))[rest(s)]>>]) \in D
      <4> HIDE DEF F, rest
      <4> QED
        BY <2>2, <2>3
    <3> HIDE DEF F, rest
    <3> QED
      BY <3>1
  <2>5. ASSUME NEW s \in SUBSET u, s # {} PROVE G[s] = step[<<pick[s], G[rest(s)]>>]
    <3>1. rest(s) \in SUBSET u /\ rest(s) # u
      BY <2>2, <2>5
    <3>2. G[s] = step[<<pick[s], F(rest(s))[rest(s)]>>]
      BY <2>5
    <3>3. CASE rest(s) = {}
      <4>1. Fold(F(rest(s)), rest(s))
        BY <2>1, <3>1
      <4>2. F(rest(s))[{}] = base /\ G[{}] = base
        <5>1. F(rest(s))[{}] = base
          <6> HIDE DEF F, rest
          <6> QED
            BY <4>1
        <5> HIDE DEF F, rest
        <5> QED
          BY <5>1
      <4> HIDE DEF G, F, rest
      <4> QED
        BY <3>2, <3>3, <4>2
    <3>4. CASE rest(s) # {}
      <4> DEFINE r == rest(s)
                 q == rest(r)
      <4>0. r \in SUBSET u /\ r # {} /\ r # u
        BY <3>1, <3>4
      <4>1. pick[r] \in r /\ q \in SUBSET u /\ q # u /\ q \in SUBSET r
        <5> HIDE DEF r
        <5> QED
          BY <2>2, <4>0
      <4>2. Fold(F(r), r) /\ Fold(F(q), q)
        <5> HIDE DEF Fold, F, r, q
        <5> QED
          BY <2>1, <4>0, <4>1
      <4>3. F(r)[q] = F(q)[q]
        <5>1. r \in SUBSET S /\ q \in SUBSET S /\ q \in SUBSET (r \cap q)
          BY <4>0, <4>1
        <5> HIDE DEF F, G, T, rest, r, q, Fold
        <5>4. \A t \in SUBSET (r \cap q) : F(r)[t] = F(q)[t]
          <6>1. PICK f1, f2 : f1 = F(r) /\ f2 = F(q)
            OBVIOUS
          <6>2. Fold(f1, r) /\ Fold(f2, q)
            BY <4>2, <6>1
          <6>3. \A t \in SUBSET (r \cap q) : f1[t] = f2[t]
            <7>1. PICK r1 \in SUBSET S, q1 \in SUBSET S : r1 = r /\ q1 = q
              BY <5>1
            <7>2. Fold(f1, r1) /\ Fold(f2, q1)
              BY <6>2, <7>1
            <7>4. \A f, h : Fold(f, r1) /\ Fold(h, q1) => \A t \in SUBSET (r1 \cap q1) : f[t] = h[t]
              BY <1>0
            <7>3. \A t \in SUBSET (r1 \cap q1) : f1[t] = f2[t]
              BY <7>2, <7>4
            <7> QED
              BY <7>1, <7>3
          <6> QED
            BY <6>1, <6>3
        <5> QED
          BY <5>1, <5>4
      <4>4. F(r)[r] = step[<<pick[r], F(r)[r \ {pick[r]}]>>]
        <5> HIDE DEF F, r, q
        <5> QED
          BY <4>0, <4>2
      <4>5. G[r] = step[<<pick[r], F(q)[q]>>]
        <5> HIDE DEF F, r
        <5> QED
          BY <4>0
      <4>6. q = r \ {pick[r]}
        OBVIOUS
      <4>7. F(r)[r] = G[r]
        <5> HIDE DEF F, G, r, q
        <5> QED
          BY <4>3, <4>4, <4>5, <4>6
      <4> QED
        BY <3>2, <4>7
    <3> QED
      BY <3>3, <3>4
  <2>6. G[{}] = base
    <3> HIDE DEF F, rest
    <3> QED
      OBVIOUS
  <2>7. Fold(G, u)
    <3> HIDE DEF G
    <3> QED
      BY <2>4, <2>5, <2>6
  <2>8. \E f : Fold(f, u)
    <3> HIDE DEF G, Fold
    <3> QED
      BY <2>7
  <2> QED
    BY <2>8
<1>3. S \in T
  <2> HIDE DEF T
  <2>1. IsWellFoundedOn(StrictSubsetOrdering(S), SUBSET S)
    BY FS_StrictSubsetOrderingWellFounded, FS_FiniteSubsetsOfFinite
  <2>2. SUFFICES ASSUME (SUBSET S) \ T # {} PROVE FALSE
    OBVIOUS
  <2>3. PICK u \in (SUBSET S) \ T : \A v \in (SUBSET S) \ T : <<v, u>> \notin StrictSubsetOrdering(S)
    BY <2>1, <2>2, WFMin
  <2>4. ASSUME NEW v \in SUBSET u, v # u PROVE v \in T
    <3>1. v \in SUBSET S /\ <<v, u>> \in StrictSubsetOrdering(S)
      BY <2>4 DEF StrictSubsetOrdering
    <3> QED
      BY <2>3, <3>1
  <2> QED
    BY <1>2, <2>3, <2>4
<1> QED
  BY <1>3
-----------------------------------------------------------------------------
\* A sequence that lists no element twice.
Distinct(q) == \A j, k \in DOMAIN q : j # k => q[j] # q[k]

\* What is left of a sequence without repetition has none, and the head is not in it.
LEMMA DistinctTail ==
    ASSUME NEW S, NEW q \in Seq(S), q # <<>>, Distinct(q)
    PROVE  /\ Head(q) \in S /\ Tail(q) \in Seq(S)
           /\ Distinct(Tail(q))
           /\ Range(q) = {Head(q)} \cup Range(Tail(q))
           /\ Head(q) \notin Range(Tail(q))
<1>1. /\ Len(q) \in Nat \ {0} /\ DOMAIN q = 1 .. Len(q)
      /\ Tail(q) \in Seq(S) /\ DOMAIN Tail(q) = 1 .. Len(q) - 1
      /\ \A k \in 1 .. Len(q) - 1 : Tail(q)[k] = q[k + 1]
      /\ Head(q) = q[1] /\ q[1] \in S
  OBVIOUS
<1>2. \A j, k \in 1 .. Len(q) : j # k => q[j] # q[k]
  BY <1>1 DEF Distinct
<1>3. \A k \in 1 .. Len(q) - 1 : k + 1 \in 1 .. Len(q) /\ k + 1 # 1
  BY <1>1
<1>4. \A k \in 1 .. Len(q) : k = 1 \/ (k - 1 \in 1 .. Len(q) - 1 /\ (k - 1) + 1 = k)
  BY <1>1
<1>5. Distinct(Tail(q))
  <2> SUFFICES ASSUME NEW j \in 1 .. Len(q) - 1, NEW k \in 1 .. Len(q) - 1, j # k
               PROVE  Tail(q)[j] # Tail(q)[k]
    BY <1>1 DEF Distinct
  <2>1. j + 1 # k + 1
    OBVIOUS
  <2> QED
    BY <1>1, <1>2, <1>3, <2>1
<1>6. Range(Tail(q)) = {q[k + 1] : k \in 1 .. Len(q) - 1}
  BY <1>1 DEF Range
<1>7. Range(q) = {q[k] : k \in 1 .. Len(q)}
  BY <1>1 DEF Range
<1>8. 1 \in 1 .. Len(q)
  BY <1>1
<1>9. Range(q) = {Head(q)} \cup Range(Tail(q))
  <2>1. ASSUME NEW x \in Range(q) PROVE x \in {Head(q)} \cup Range(Tail(q))
    <3>1. PICK k \in 1 .. Len(q) : x = q[k]
      BY <1>7
    <3> QED
      BY <1>1, <1>4, <1>6, <3>1
  <2>2. ASSUME NEW x \in {Head(q)} \cup Range(Tail(q)) PROVE x \in Range(q)
    BY <1>1, <1>3, <1>6, <1>7, <1>8
  <2> QED
    BY <2>1, <2>2
<1>10. Head(q) \notin Range(Tail(q))
  <2> SUFFICES ASSUME NEW k \in 1 .. Len(q) - 1 PROVE q[1] # q[k + 1]
    BY <1>1, <1>6
  <2> QED
    BY <1>2, <1>3, <1>8
<1> QED
  BY <1>1, <1>5, <1>9, <1>10

\* Two sequences without repetition and without a common element.
LEMMA DistinctConcat ==
    ASSUME NEW S, NEW q \in Seq(S), NEW r \in Seq(S), Distinct(q), Distinct(r),
           Range(q) \cap Range(r) = {}
    PROVE  /\ q \o r \in Seq(S)
           /\ Distinct(q \o r)
           /\ Range(q \o r) = Range(q) \cup Range(r)
<1> DEFINE c == q \o r
           m == Len(q)
           n == Len(r)
<1>1. /\ c \in Seq(S) /\ m \in Nat /\ n \in Nat
      /\ DOMAIN q = 1 .. m /\ DOMAIN r = 1 .. n /\ DOMAIN c = 1 .. m + n
  OBVIOUS
<1>2. \A k \in 1 .. m : c[k] = q[k] /\ k \in 1 .. m + n
  OBVIOUS
<1>3. \A k \in 1 .. n : c[m + k] = r[k] /\ m + k \in 1 .. m + n
  OBVIOUS
<1> HIDE DEF c, m, n
<1>4. \A k \in 1 .. m + n : k \in 1 .. m \/ (k \notin 1 .. m /\ \E h \in 1 .. n : k = m + h)
  <2> SUFFICES ASSUME NEW k \in 1 .. m + n, k \notin 1 .. m PROVE \E h \in 1 .. n : k = m + h
    OBVIOUS
  <2>1. k - m \in 1 .. n /\ k = m + (k - m)
    BY <1>1
  <2> QED
    BY <2>1
<1>5. Range(q) = {q[k] : k \in 1 .. m} /\ Range(r) = {r[k] : k \in 1 .. n}
      /\ Range(c) = {c[k] : k \in 1 .. m + n}
  BY <1>1 DEF Range
<1>6. Distinct(c)
  <2> SUFFICES ASSUME NEW j \in 1 .. m + n, NEW k \in 1 .. m + n, j # k
               PROVE  c[j] # c[k]
    BY <1>1 DEF Distinct
  <2>1. CASE j \in 1 .. m /\ k \in 1 .. m
    BY <1>1, <1>2, <2>1 DEF Distinct
  <2>2. CASE j \notin 1 .. m /\ k \notin 1 .. m
    <3>1. PICK h \in 1 .. n, i \in 1 .. n : j = m + h /\ k = m + i /\ h # i
      BY <1>4, <2>2
    <3> QED
      BY <1>1, <1>3, <3>1, ZenonT(60) DEF Distinct
  <2>3. CASE j \in 1 .. m /\ k \notin 1 .. m
    <3>1. PICK h \in 1 .. n : k = m + h
      BY <1>4, <2>3
    <3>2. c[j] \in Range(q) /\ c[k] \in Range(r)
      BY <1>2, <1>3, <1>5, <2>3, <3>1
    <3> QED
      BY <3>2
  <2>4. CASE j \notin 1 .. m /\ k \in 1 .. m
    <3>1. PICK h \in 1 .. n : j = m + h
      BY <1>4, <2>4
    <3>2. c[k] \in Range(q) /\ c[j] \in Range(r)
      BY <1>2, <1>3, <1>5, <2>4, <3>1
    <3> QED
      BY <3>2
  <2> QED
    BY <2>1, <2>2, <2>3, <2>4
<1>7. Range(c) = Range(q) \cup Range(r)
  <2>1. ASSUME NEW x \in Range(c) PROVE x \in Range(q) \cup Range(r)
    <3>1. PICK k \in 1 .. m + n : x = c[k]
      BY <1>5
    <3> QED
      BY <1>2, <1>3, <1>4, <1>5, <3>1
  <2>2. ASSUME NEW x \in Range(q) \cup Range(r) PROVE x \in Range(c)
    BY <1>2, <1>3, <1>5
  <2> QED
    BY <2>1, <2>2
<1> QED
  BY <1>1, <1>6, <1>7 DEF c

\* One more element that is not in the sequence yet.
LEMMA DistinctAppend ==
    ASSUME NEW S, NEW q \in Seq(S), NEW x \in S, Distinct(q), x \notin Range(q)
    PROVE  /\ Append(q, x) \in Seq(S)
           /\ Distinct(Append(q, x))
           /\ Range(Append(q, x)) = Range(q) \cup {x}
<1> DEFINE r == <<x>>
<1>1. r \in Seq(S) /\ Distinct(r) /\ Range(r) = {x}
  BY DEF Distinct, Range
<1>2. Append(q, x) = q \o r
  OBVIOUS
<1> HIDE DEF r
<1>3. Range(q) \cap Range(r) = {}
  BY <1>1
<1>4. /\ q \o r \in Seq(S)
      /\ Distinct(q \o r)
      /\ Range(q \o r) = Range(q) \cup Range(r)
  BY <1>1, <1>3, DistinctConcat
<1> QED
  BY <1>1, <1>2, <1>4

\* Distinct elements of 1 .. n are at most n.
LEMMA DistinctLength ==
    ASSUME NEW n \in Nat, NEW q \in Seq(1 .. n), Distinct(q)
    PROVE  Len(q) <= n
<1>1. q \in Injection(1 .. Len(q), 1 .. n)
  BY DEF Injection, Distinct, IsInjective
<1>2. Cardinality(1 .. Len(q)) <= Cardinality(1 .. n)
  BY <1>1, FS_Injection, FS_Interval
<1> QED
  BY <1>2, FS_Interval
-----------------------------------------------------------------------------
(* Folds over sequences.                                                    *)

\* The first k naturals from 1 on, and the last of them.
LEMMA Segments ==
    ASSUME NEW n \in Nat
    PROVE  /\ IsFiniteSet(1 .. n)
           /\ \A s \in SUBSET (1 .. n) : s # {} => Max(s) \in s
           /\ 1 .. 0 = {}
           /\ \A k \in 1 .. n : /\ 1 .. k \in SUBSET (1 .. n) /\ 1 .. k # {}
                                /\ Max(1 .. k) = k /\ (1 .. k) \ {k} = 1 .. k - 1
<1>1. \A s \in SUBSET (1 .. n) : s # {} => Max(s) \in s /\ \A x \in s : x <= Max(s)
  <2> SUFFICES ASSUME NEW s \in SUBSET (1 .. n), s # {} PROVE Max(s) \in s /\ \A x \in s : x <= Max(s)
    OBVIOUS
  <2>1. s \in SUBSET Nat /\ \A k \in s : k <= n
    OBVIOUS
  <2> QED
    BY <2>1, MaxNat
<1>2. ASSUME NEW k \in 1 .. n
      PROVE  1 .. k \in SUBSET (1 .. n) /\ 1 .. k # {} /\ Max(1 .. k) = k /\ (1 .. k) \ {k} = 1 .. k - 1
  <2>1. 1 .. k \in SUBSET (1 .. n) /\ k \in 1 .. k
    OBVIOUS
  <2>2. Max(1 .. k) \in 1 .. k /\ k <= Max(1 .. k)
    BY <1>1, <2>1
  <2> QED
    BY <2>1, <2>2
<1>3. IsFiniteSet(1 .. n) /\ 1 .. 0 = {}
  BY FS_Interval
<1> QED
  BY <1>1, <1>2, <1>3

\* f[s] is what a fold from the left makes of the elements at the places s.
IsLeftFold(f, base, step, S) ==
    /\ f[{}] = base
    /\ \A s \in SUBSET S : s # {} => f[s] = step[<<Max(s), f[s \ {Max(s)}]>>]

\* A fold from the left exists.
LEMMA LeftFoldExists ==
    ASSUME NEW n \in Nat, NEW S, S = 1 .. n, NEW D, NEW base \in D, NEW step \in [S \X D -> D]
    PROVE  \E f \in [SUBSET S -> D] : IsLeftFold(f, base, step, S)
<1> DEFINE pick == [s \in SUBSET S |-> Max(s)]
<1>1. IsFiniteSet(S) /\ Picks(pick, S) /\ Folds(base, step, S, D)
  BY Segments DEF Picks, Folds
<1>2. PICK f \in [SUBSET S -> D] : IsFold(f, base, pick, step, S)
  <2> HIDE DEF pick
  <2> QED
    BY <1>1, FoldExists
<1>3. \A s \in SUBSET S : pick[s] = Max(s)
  OBVIOUS
<1> QED
  BY <1>2, <1>3 DEF IsFold, IsLeftFold

\* h[k] is what the first k steps make of the base.
Accumulates(h, base, step, n) == h[0] = base /\ \A k \in 1 .. n : h[k] = step[<<k, h[k - 1]>>]

\* Steps can be taken one after the other.
LEMMA Accumulation ==
    ASSUME NEW n \in Nat, NEW S, S = 1 .. n, NEW D, NEW base \in D, NEW step \in [S \X D -> D]
    PROVE  \E h \in [0 .. n -> D] : Accumulates(h, base, step, n)
<1>1. PICK f \in [SUBSET S -> D] : IsLeftFold(f, base, step, S)
  BY LeftFoldExists
<1> DEFINE h == [k \in 0 .. n |-> f[1 .. k]]
<1>2. 1 .. 0 = {} /\ \A k \in 1 .. n : /\ 1 .. k \in SUBSET S /\ 1 .. k # {}
                                       /\ Max(1 .. k) = k /\ (1 .. k) \ {k} = 1 .. k - 1
  BY Segments
<1>3. h \in [0 .. n -> D]
  <2>1. \A k \in 0 .. n : 1 .. k \in SUBSET S
    OBVIOUS
  <2> QED
    BY <2>1
<1>4. h[0] = base
  BY <1>1, <1>2 DEF IsLeftFold
<1>5. ASSUME NEW k \in 1 .. n PROVE h[k] = step[<<k, h[k - 1]>>]
  <2>1. f[1 .. k] = step[<<Max(1 .. k), f[(1 .. k) \ {Max(1 .. k)}]>>]
    BY <1>1, <1>2 DEF IsLeftFold
  <2>2. f[1 .. k] = step[<<k, f[1 .. k - 1]>>]
    BY <1>2, <2>1
  <2>3. k \in 0 .. n /\ k - 1 \in 0 .. n
    OBVIOUS
  <2> QED
    BY <2>2, <2>3
<1> QED
  BY <1>3, <1>4, <1>5 DEF Accumulates

\* The products h of the first dimensions.
Multiplies(h, shape) ==
    /\ h \in [0 .. Len(shape) -> Nat] /\ h[0] = 1
    /\ \A k \in 1 .. Len(shape) : h[k] = h[k - 1] * shape[k]

\* There are such products.
LEMMA ProductsExist ==
    ASSUME NEW shape \in Seq(Nat)
    PROVE  \E h : Multiplies(h, shape)
<1> DEFINE n == Len(shape)
           D == Nat \X (0 .. n)
           step == [p \in D |-> <<IF p[2] < n THEN p[1] * shape[p[2] + 1] ELSE p[1], IF p[2] < n THEN p[2] + 1 ELSE n>>]
<1>1. step \in [D -> D]
  <2>1. ASSUME NEW p \in D PROVE step[p] \in D
    <3>1. p[1] \in Nat /\ p[2] \in 0 .. n /\ n \in Nat
      OBVIOUS
    <3>2. p[2] < n => shape[p[2] + 1] \in Nat
      BY <3>1
    <3>3. p[2] < n => p[1] * shape[p[2] + 1] \in Nat
      BY <3>1, <3>2
    <3> QED
      BY <3>1, <3>3
  <2> QED
    BY <2>1
<1>2. PICK f \in [0 .. n -> D] : Iterates(f, <<1, 0>>, step, n)
  <2>1. <<1, 0>> \in D /\ n \in Nat
    OBVIOUS
  <2> HIDE DEF D, step
  <2> QED
    BY <1>1, <2>1, Recursion
<1>3. \A k \in 0 .. n : f[k] \in D
  OBVIOUS
<1> DEFINE T == {k \in 0 .. n : f[k][2] = k}
<1>4. \A k \in 0 .. n : k \in T
  <2>1. 0 \in T
    BY <1>2 DEF Iterates
  <2>2. ASSUME NEW k \in 0 .. n - 1, k \in T PROVE k + 1 \in T
    <3>1. k \in 0 .. n /\ k + 1 \in 1 .. n /\ (k + 1) - 1 = k /\ f[k][2] = k /\ k < n
      BY <2>2
    <3>2. f[k + 1] = step[f[k]]
      BY <1>2, <3>1 DEF Iterates
    <3>3. step[f[k]][2] = k + 1
      BY <1>3, <3>1
    <3> QED
      BY <3>1, <3>2, <3>3
  <2>3. n \in Nat
    OBVIOUS
  <2> HIDE DEF T, n
  <2> QED
    BY <2>1, <2>2, <2>3, BoundedInduction
<1> DEFINE h == [k \in 0 .. n |-> f[k][1]]
<1>5. h \in [0 .. n -> Nat] /\ h[0] = 1
  BY <1>2, <1>3 DEF Iterates
<1>6. ASSUME NEW k \in 1 .. n PROVE h[k] = h[k - 1] * shape[k]
  <2>1. k - 1 \in 0 .. n /\ f[k - 1][2] = k - 1 /\ k - 1 < n /\ (k - 1) + 1 = k
    BY <1>4
  <2>2. f[k] = step[f[k - 1]] /\ f[k - 1] \in D
    BY <1>2, <1>3, <2>1 DEF Iterates
  <2>3. step[f[k - 1]][1] = f[k - 1][1] * shape[k]
    BY <2>1, <2>2
  <2> QED
    BY <2>1, <2>2, <2>3
<1> HIDE DEF h
<1> QED
  BY <1>5, <1>6 DEF Multiplies
=============================================================================
