---------------------------- MODULE KernelProofs ----------------------------
(***************************************************************************)
(* What the kernels compute, for every shape and every size of their       *)
(* blocks: a row of online softmax, what the products read of weights      *)
(* stored as integers, and the products of matrices on every path of the   *)
(* CPU.  Each is a sum whose terms are divided among loops, lanes, blocks  *)
(* and threads; the proofs find every term once.                           *)
(***************************************************************************)
EXTENDS OperatorMeanings, ProofLemmas

-----------------------------------------------------------------------------
(* One row of online softmax.                                              *)

\* How often each term is among f[i], i \in I (SumOf, of a function).
CountOver(f, I) == [t \in {f[i] : i \in I} |-> Cardinality({i \in I : f[i] = t})]

\* A sum of terms without one of them, and that one.
LEMMA CountInsert ==
    ASSUME NEW I, IsFiniteSet(I), NEW x \in I, NEW f
    PROVE  CountOver(f, I) = Add2(CountOver(f, I \ {x}), [e \in {f[x]} |-> 1])
<1> DEFINE J == I \ {x}
           A == CountOver(f, J)
           B == [e \in {f[x]} |-> 1]
           part(K, t) == {i \in K : f[i] = t}
<1>1. DOMAIN A = {f[i] : i \in J} /\ DOMAIN B = {f[x]} /\ DOMAIN A \cup DOMAIN B = {f[i] : i \in I}
  BY DEF CountOver
<1>2. ASSUME NEW t \in {f[i] : i \in I}
      PROVE  Cardinality(part(I, t)) = (IF t \in DOMAIN A THEN A[t] ELSE 0) + (IF t \in DOMAIN B THEN B[t] ELSE 0)
  <2>0. IsFiniteSet(part(J, t)) /\ Cardinality(part(J, t)) \in Nat
    <3>1. part(J, t) \subseteq I
      OBVIOUS
    <3> HIDE DEF part
    <3> QED
      BY <3>1, FS_Subset, FS_CardinalityType
  <2>1. (IF t \in DOMAIN A THEN A[t] ELSE 0) = Cardinality(part(J, t))
    <3>1. CASE t \in DOMAIN A
      BY <1>1, <3>1 DEF CountOver
    <3>2. CASE t \notin DOMAIN A
      <4>1. part(J, t) = {}
        BY <1>1, <3>2
      <4> QED
        BY <3>2, <4>1, FS_EmptySet
    <3> QED
      BY <3>1, <3>2
  <2>2. CASE t = f[x]
    <3>1. part(I, t) = part(J, t) \cup {x} /\ x \notin part(J, t)
      BY <2>2
    <3>2. Cardinality(part(I, t)) = Cardinality(part(J, t)) + 1
      <4> HIDE DEF part
      <4> QED
        BY <2>0, <3>1, FS_AddElement
    <3>3. (IF t \in DOMAIN B THEN B[t] ELSE 0) = 1
      BY <1>1, <2>2
    <3> HIDE DEF A, B, part
    <3> QED
      BY <2>1, <3>2, <3>3
  <2>3. CASE t # f[x]
    <3>1. part(I, t) = part(J, t)
      BY <2>3
    <3>2. (IF t \in DOMAIN B THEN B[t] ELSE 0) = 0
      BY <1>1, <2>3
    <3> HIDE DEF A, B, part
    <3> QED
      BY <2>0, <2>1, <3>1, <3>2
  <2> QED
    BY <2>2, <2>3
<1>3. CountOver(f, I) = [t \in {f[i] : i \in I} |-> Cardinality(part(I, t))]
  BY DEF CountOver
<1>4. Add2(A, B) = [t \in DOMAIN A \cup DOMAIN B |->
                      (IF t \in DOMAIN A THEN A[t] ELSE 0) + (IF t \in DOMAIN B THEN B[t] ELSE 0)]
  BY DEF Add2
<1> HIDE DEF A, B, part
<1>5. CountOver(f, I) = Add2(A, B)
  BY <1>1, <1>2, <1>3, <1>4
<1> QED
  BY <1>5 DEF A, B

\* Weights whose exponents are all raised by n.
LEMMA CountRescaled ==
    ASSUME NEW I, NEW a, NEW e \in [I -> Int], NEW n \in Int
    PROVE  Rescaled(CountOver([i \in I |-> <<a[i], e[i]>>], I), n) = CountOver([i \in I |-> <<a[i], e[i] + n>>], I)
<1> DEFINE f == [i \in I |-> <<a[i], e[i]>>]
           g == [i \in I |-> <<a[i], e[i] + n>>]
           s == CountOver(f, I)
<1>1. DOMAIN s = {f[i] : i \in I}
  BY DEF CountOver
<1>2. ASSUME NEW i \in I
      PROVE  /\ f[i][1] = a[i] /\ f[i][2] = e[i] /\ e[i] \in Int
             /\ g[i] = <<a[i], e[i] + n>> /\ <<f[i][1], f[i][2] + n>> = g[i] /\ <<g[i][1], g[i][2] - n>> = f[i]
  OBVIOUS
<1> HIDE DEF f, g
<1>7. {<<x[1], x[2] + n>> : x \in DOMAIN s} = {g[i] : i \in I}
  <2> DEFINE raised(x) == <<x[1], x[2] + n>>
  <2>0. \A i \in I : raised(f[i]) = g[i]
    BY <1>2
  <2>1. {raised(x) : x \in {f[i] : i \in I}} = {g[i] : i \in I}
    <3> HIDE DEF raised
    <3> QED
      BY <2>0
  <2> HIDE DEF s
  <2> QED
    BY <1>1, <2>1
<1>3. ASSUME NEW i \in I PROVE s[<<g[i][1], g[i][2] - n>>] = Cardinality({k \in I : g[k] = g[i]})
  <2>1. s[f[i]] = Cardinality({k \in I : f[k] = f[i]})
    BY DEF CountOver
  <2>2. \A k \in I : f[k] = f[i] <=> g[k] = g[i]
    <3>1. ASSUME NEW k \in I, g[k] = g[i] PROVE f[k] = f[i]
      BY <1>2, <3>1
    <3>2. ASSUME NEW k \in I, f[k] = f[i] PROVE g[k] = g[i]
      BY <1>2, <3>2
    <3> QED
      BY <3>1, <3>2
  <2>3. {k \in I : f[k] = f[i]} = {k \in I : g[k] = g[i]}
    BY <2>2
  <2> HIDE DEF s
  <2> QED
    BY <1>2, <2>1, <2>3
<1>4. Rescaled(s, n) = [x \in {g[i] : i \in I} |-> s[<<x[1], x[2] - n>>]]
  BY <1>7 DEF Rescaled
<1>5. CountOver(g, I) = [x \in {g[i] : i \in I} |-> Cardinality({k \in I : g[k] = x})]
  BY DEF CountOver
<1> HIDE DEF s
<1>6. Rescaled(s, n) = CountOver(g, I)
  BY <1>3, <1>4, <1>5
<1> QED
  BY <1>6 DEF s, f, g
-----------------------------------------------------------------------------
\* The largest score of the keys s; less than every score when there is none.
Top(scores, s) == Max({NoScore} \cup {scores[j] : j \in s})

\* The largest score is one of the scores, and none is larger.
LEMMA TopIsLargest ==
    ASSUME NEW S, IsFiniteSet(S), NEW scores \in [S -> Int]
    PROVE  \A s \in SUBSET S : /\ Top(scores, s) \in {NoScore} \cup {scores[j] : j \in s}
                             /\ \A y \in {NoScore} \cup {scores[j] : j \in s} : y <= Top(scores, s)
<1> DEFINE V(s) == {NoScore} \cup {scores[j] : j \in s}
           T == {s \in SUBSET S : \E m \in V(s) : \A y \in V(s) : y <= m}
<1>1. \A s \in SUBSET S : V(s) \subseteq Int
  BY DEF NoScore
<1>2. {} \in T
  BY DEF NoScore
<1>3. ASSUME NEW s \in SUBSET S, s # {} PROVE \E x \in s : s \ {x} \in T => s \in T
  <2>1. PICK x \in s : TRUE
    BY <1>3
  <2>2. ASSUME s \ {x} \in T PROVE s \in T
    <3>1. PICK m \in V(s \ {x}) : \A y \in V(s \ {x}) : y <= m
      BY <2>2
    <3>2. V(s) = V(s \ {x}) \cup {scores[x]} /\ scores[x] \in Int /\ m \in Int /\ V(s) \subseteq Int
      BY <1>1
    <3> HIDE DEF V
    <3>3. CASE scores[x] > m
      <4>1. \A y \in V(s) : y <= scores[x]
        BY <3>1, <3>2, <3>3
      <4> QED
        BY <3>2, <4>1
    <3>4. CASE ~ (scores[x] > m)
      <4>1. \A y \in V(s) : y <= m
        BY <3>1, <3>2, <3>4
      <4> QED
        BY <3>2, <4>1
    <3> QED
      BY <3>3, <3>4
  <2> QED
    BY <2>2
<1>4. \A s \in SUBSET S : s \in T
  <2> HIDE DEF T
  <2> QED
    BY <1>2, <1>3, SubsetInduction
<1>5. ASSUME NEW s \in SUBSET S
      PROVE  Top(scores, s) \in V(s) /\ \A y \in V(s) : y <= Top(scores, s)
  <2>1. PICK m \in V(s) : \A y \in V(s) : y <= m
    BY <1>4
  <2>2. Top(scores, s) = CHOOSE x \in V(s) : \A y \in V(s) : x >= y
    BY DEF Top, Max
  <2>3. V(s) \subseteq Int
    BY <1>1
  <2> HIDE DEF V
  <2>4. \A y \in V(s) : m >= y
    BY <2>1, <2>3
  <2>5. Top(scores, s) \in V(s) /\ \A y \in V(s) : Top(scores, s) >= y
    BY <2>2, <2>4
  <2> QED
    BY <2>3, <2>5
<1> QED
  BY <1>5

\* One more score is the largest, or leaves the largest as it was.
LEMMA TopOfOneMore ==
    ASSUME NEW S, IsFiniteSet(S), NEW scores \in [S -> Int], NEW s \in SUBSET S, NEW x \in s
    PROVE  /\ Top(scores, s \ {x}) \in Int
           /\ Top(scores, s) = IF scores[x] > Top(scores, s \ {x}) THEN scores[x] ELSE Top(scores, s \ {x})
<1> DEFINE m == Top(scores, s \ {x})
           V(u) == {NoScore} \cup {scores[j] : j \in u}
<1>1. s \ {x} \in SUBSET S /\ V(s) = V(s \ {x}) \cup {scores[x]} /\ V(s) \subseteq Int
  BY DEF NoScore
<1>2. /\ m \in V(s \ {x}) /\ \A y \in V(s \ {x}) : y <= m
      /\ Top(scores, s) \in V(s) /\ \A y \in V(s) : y <= Top(scores, s)
  BY <1>1, TopIsLargest
<1> HIDE DEF V, m
<1>3. m \in Int /\ Top(scores, s) = IF scores[x] > m THEN scores[x] ELSE m
  BY <1>1, <1>2
<1> QED
  BY <1>3 DEF m
-----------------------------------------------------------------------------
\* What the two-pass definition makes of the keys s: weights relative to the largest of their scores.
TwoPass(b, h, z, dims, scores, s) ==
    [max |-> Top(scores, s),
     sum |-> CountOver([j \in s |-> <<1, scores[j] - Top(scores, s)>>], s),
     acc |-> [d \in dims |->
                CountOver([j \in s |-> <<Elem(3, ValueRow(b, h, j - 1, z) + d), scores[j] - Top(scores, s)>>], s)]]

\* The terms a[j] of the keys u, each with its weight relative to the score n.
ScoreWeights(a, scores, n, u) == CountOver([j \in u |-> <<a[j], scores[j] - n>>], u)

\* The weights of the keys s are those without x, seen relative to another score, and that of x.
LEMMA WeightsOfOneMore ==
    ASSUME NEW S, IsFiniteSet(S), NEW scores \in [S -> Int], NEW s \in SUBSET S, NEW x \in s, NEW a,
           NEW m \in Int
    PROVE  /\ Add2(Rescaled(ScoreWeights(a, scores, m, s \ {x}), m - scores[x]), Weighted(a[x], 0))
                = ScoreWeights(a, scores, scores[x], s)
           /\ Add2(ScoreWeights(a, scores, m, s \ {x}), Weighted(a[x], scores[x] - m)) = ScoreWeights(a, scores, m, s)
<1> DEFINE r == s \ {x}
           e(n) == [j \in r |-> scores[j] - n]
           f(n) == [j \in s |-> <<a[j], scores[j] - n>>]
           g(n) == [j \in r |-> <<a[j], scores[j] - n>>]
<1>1. IsFiniteSet(s)
  BY FS_Subset
<1>2. ASSUME NEW n \in Int
      PROVE  CountOver(f(n), s) = Add2(CountOver(g(n), r), Weighted(a[x], scores[x] - n))
  <2>1. CountOver(f(n), s) = Add2(CountOver(f(n), r), [t \in {f(n)[x]} |-> 1])
    <3> HIDE DEF f
    <3> QED
      BY <1>1, CountInsert
  <2>2. CountOver(f(n), r) = CountOver(g(n), r)
    <3>1. \A j \in r : f(n)[j] = g(n)[j]
      OBVIOUS
    <3>2. {f(n)[j] : j \in r} = {g(n)[j] : j \in r}
      BY <3>1
    <3>3. \A t : {j \in r : f(n)[j] = t} = {j \in r : g(n)[j] = t}
      BY <3>1
    <3> HIDE DEF f, g, r
    <3> QED
      BY <3>2, <3>3 DEF CountOver
  <2>3. [t \in {f(n)[x]} |-> 1] = Weighted(a[x], scores[x] - n)
    BY DEF Weighted
  <2> HIDE DEF f, g, r
  <2> QED
    BY <2>1, <2>2, <2>3
<1>3. Rescaled(CountOver(g(m), r), m - scores[x]) = CountOver(g(scores[x]), r)
  <2> DEFINE E == e(m)
             n == m - scores[x]
  <2>1. E \in [r -> Int] /\ n \in Int
    OBVIOUS
  <2>2. Rescaled(CountOver([j \in r |-> <<a[j], E[j]>>], r), n) = CountOver([j \in r |-> <<a[j], E[j] + n>>], r)
    <3> HIDE DEF E, n, r
    <3> QED
      BY ONLY <2>1, CountRescaled
  <2>3. /\ [j \in r |-> <<a[j], e(m)[j]>>] = g(m)
        /\ [j \in r |-> <<a[j], e(m)[j] + (m - scores[x])>>] = g(scores[x])
    <3>1. \A j \in r : scores[j] \in Int /\ (scores[j] - m) + (m - scores[x]) = scores[j] - scores[x]
      OBVIOUS
    <3> QED
      BY <3>1
  <2> QED
    BY <2>2, <2>3
<1>4. scores[x] \in Int /\ scores[x] - scores[x] = 0
  OBVIOUS
<1>5. CountOver(f(scores[x]), s) = Add2(CountOver(g(scores[x]), r), Weighted(a[x], 0))
  BY <1>2, <1>4
<1> HIDE DEF f, g, r
<1>6. /\ Add2(Rescaled(CountOver(g(m), r), m - scores[x]), Weighted(a[x], 0)) = CountOver(f(scores[x]), s)
      /\ Add2(CountOver(g(m), r), Weighted(a[x], scores[x] - m)) = CountOver(f(m), s)
  BY <1>2, <1>3, <1>5
<1> QED
  BY <1>6 DEF f, g, r, ScoreWeights

\* One step of the streaming computation takes what is right for some keys to what is right for
\* one more.
LEMMA StepIsTwoPass ==
    ASSUME NEW S, IsFiniteSet(S), NEW scores \in [S -> Int], NEW s \in SUBSET S, NEW x \in s,
           NEW b, NEW h, NEW z, NEW dims
    PROVE  OnlineStep(TwoPass(b, h, z, dims, scores, s \ {x}), scores[x], ValueRow(b, h, x - 1, z))
             = TwoPass(b, h, z, dims, scores, s)
<1> DEFINE r == s \ {x}
           m == Top(scores, r)
           one == [j \in S |-> 1]
           value(d) == [j \in S |-> Elem(3, ValueRow(b, h, j - 1, z) + d)]
           C(a, n, u) == ScoreWeights(a, scores, n, u)
<1>1. m \in Int /\ Top(scores, s) = IF scores[x] > m THEN scores[x] ELSE m
  BY TopOfOneMore
<1>2. ASSUME NEW u \in SUBSET S
      PROVE  TwoPass(b, h, z, dims, scores, u)
               = [max |-> Top(scores, u), sum |-> C(one, Top(scores, u), u),
                  acc |-> [d \in dims |-> C(value(d), Top(scores, u), u)]]
  <2>1. \A j \in u : one[j] = 1
    OBVIOUS
  <2>2. \A d \in dims : \A j \in u : value(d)[j] = Elem(3, ValueRow(b, h, j - 1, z) + d)
    OBVIOUS
  <2>3. [j \in u |-> <<1, scores[j] - Top(scores, u)>>] = [j \in u |-> <<one[j], scores[j] - Top(scores, u)>>]
    BY <2>1
  <2>4. \A d \in dims : [j \in u |-> <<Elem(3, ValueRow(b, h, j - 1, z) + d), scores[j] - Top(scores, u)>>]
                         = [j \in u |-> <<value(d)[j], scores[j] - Top(scores, u)>>]
    BY <2>2
  <2> HIDE DEF one, value
  <2> QED
    BY <2>3, <2>4 DEF TwoPass, ScoreWeights
<1>3. r \in SUBSET S /\ x \in S /\ scores[x] \in Int
  OBVIOUS
<1>4. one[x] = 1 /\ \A d \in dims : value(d)[x] = Elem(3, ValueRow(b, h, x - 1, z) + d)
  BY <1>3
<1>5. ASSUME NEW a
      PROVE  /\ Add2(Rescaled(C(a, m, r), m - scores[x]), Weighted(a[x], 0)) = C(a, scores[x], s)
             /\ Add2(C(a, m, r), Weighted(a[x], scores[x] - m)) = C(a, m, s)
  <2> HIDE DEF m
  <2> QED
    BY <1>1, WeightsOfOneMore
<1> HIDE DEF one, value, C, r, m
<1>6. TwoPass(b, h, z, dims, scores, r) = [max |-> m, sum |-> C(one, m, r), acc |-> [d \in dims |-> C(value(d), m, r)]]
  BY <1>2, <1>3 DEF m
<1> DEFINE st == TwoPass(b, h, z, dims, scores, r)
<1>7. /\ st.max = m /\ st.sum = C(one, m, r) /\ DOMAIN st.acc = dims
      /\ \A d \in dims : st.acc[d] = C(value(d), m, r)
  BY <1>6
<1>8. st = [max |-> st.max, sum |-> st.sum, acc |-> st.acc]
  BY <1>6
<1> DEFINE step == OnlineStep(st, scores[x], ValueRow(b, h, x - 1, z))
<1> HIDE DEF st
<1>9. CASE scores[x] > m
  <2>1. step = [max |-> scores[x],
                sum |-> Add2(Rescaled(C(one, m, r), m - scores[x]), Weighted(1, 0)),
                acc |-> [d \in dims |->
                          Add2(Rescaled(C(value(d), m, r), m - scores[x]),
                               Weighted(Elem(3, ValueRow(b, h, x - 1, z) + d), 0))]]
    BY <1>9, <1>7, <1>8 DEF OnlineStep
  <2>2. Top(scores, s) = scores[x]
    BY <1>1, <1>9
  <2>3. step = [max |-> scores[x], sum |-> C(one, scores[x], s), acc |-> [d \in dims |-> C(value(d), scores[x], s)]]
    BY <1>4, <1>5, <2>1
  <2> HIDE DEF step
  <2>4. step = TwoPass(b, h, z, dims, scores, s)
    BY <1>2, <2>2, <2>3
  <2> QED
    BY <2>4 DEF step, st, r
<1>10. CASE ~ (scores[x] > m)
  <2>1. step = [max |-> m,
                sum |-> Add2(C(one, m, r), Weighted(1, scores[x] - m)),
                acc |-> [d \in dims |->
                          Add2(C(value(d), m, r), Weighted(Elem(3, ValueRow(b, h, x - 1, z) + d), scores[x] - m))]]
    BY <1>10, <1>7, <1>8 DEF OnlineStep
  <2>2. Top(scores, s) = m
    BY <1>1, <1>10
  <2>3. step = [max |-> m, sum |-> C(one, m, s), acc |-> [d \in dims |-> C(value(d), m, s)]]
    BY <1>4, <1>5, <2>1
  <2> HIDE DEF step
  <2>4. step = TwoPass(b, h, z, dims, scores, s)
    BY <1>2, <2>2, <2>3
  <2> QED
    BY <2>4 DEF step, st, r
<1> QED
  BY <1>9, <1>10

\* A row of the streaming softmax is what the two-pass definition makes of all its keys, whatever
\* the order in which the scores rise and fall.
THEOREM RowIsTwoPass ==
    ASSUME NEW scores \in Seq(Int), NEW b, NEW h, NEW z, NEW dims
    PROVE  OnlineRow(b, h, z, dims, scores) = TwoPass(b, h, z, dims, scores, 1 .. Len(scores))
<1> DEFINE n == Len(scores)
           S == 1 .. n
           q == [j \in DOMAIN scores |-> j]
           Step(s, x) == OnlineStep(s, scores[x], ValueRow(b, h, x - 1, z))
           Eq(f) == f = [s \in SUBSET S |-> IF s = {} THEN NoKeys(dims) ELSE Step(f[s \ {Max(s)}], q[Max(s)])]
           it == CHOOSE f : Eq(f)
           closed == [s \in SUBSET S |-> TwoPass(b, h, z, dims, scores, s)]
<1>1. DOMAIN scores = S /\ n \in Nat /\ scores \in [S -> Int] /\ DOMAIN q = S /\ \A j \in S : q[j] = j
  OBVIOUS
<1>2. OnlineRow(b, h, z, dims, scores) = it[S]
  <2>1. OnlineRow(b, h, z, dims, scores)
          = (CHOOSE f : f = [s \in SUBSET DOMAIN q |->
                IF s = {} THEN NoKeys(dims) ELSE Step(f[s \ {Max(s)}], q[Max(s)])])[DOMAIN q]
    BY DEF OnlineRow, FoldLeft, MapThenFoldSet
  <2> HIDE DEF q, Step
  <2> QED
    BY <1>1, <2>1
<1>3. IsFiniteSet(S) /\ \A s \in SUBSET S : s # {} => Max(s) \in s
  BY <1>1, Segments
<1> HIDE DEF S, n, q
<1>4. ASSUME NEW s \in SUBSET S, s # {} PROVE closed[s] = Step(closed[s \ {Max(s)}], q[Max(s)])
  <2>1. Max(s) \in s /\ s \ {Max(s)} \in SUBSET S /\ q[Max(s)] = Max(s)
    BY <1>1, <1>3, <1>4
  <2>2. OnlineStep(TwoPass(b, h, z, dims, scores, s \ {Max(s)}), scores[Max(s)], ValueRow(b, h, Max(s) - 1, z))
          = TwoPass(b, h, z, dims, scores, s)
    BY <1>1, <1>3, <2>1, StepIsTwoPass
  <2> QED
    BY <2>1, <2>2
<1>5. closed[{}] = NoKeys(dims)
  <2>1. {NoScore} \cup {scores[j] : j \in {}} = {NoScore} /\ NoScore \in Int
    BY DEF NoScore
  <2>2. Top(scores, {}) = NoScore
    BY <2>1 DEF Top, Max
  <2>3. \A f : CountOver(f, {}) = Zero
    BY DEF CountOver, Zero
  <2> QED
    BY <2>2, <2>3 DEF TwoPass, NoKeys
<1> HIDE DEF Step
<1>6. Eq(closed)
  <2> HIDE DEF closed
  <2>1. closed = [s \in SUBSET S |-> closed[s]]
    BY DEF closed
  <2> QED
    BY <1>4, <1>5, <2>1
<1>7. Eq(it)
  <2> HIDE DEF Eq
  <2> QED
    BY <1>6
<1> DEFINE T == {s \in SUBSET S : it[s] = closed[s]}
<1> HIDE DEF it
<1>8. {} \in T
  <2> HIDE DEF closed
  <2> QED
    BY <1>5, <1>7
<1>9. ASSUME NEW s \in SUBSET S, s # {} PROVE \E x \in s : s \ {x} \in T => s \in T
  <2>1. Max(s) \in s /\ s \ {Max(s)} \in SUBSET S
    BY <1>3, <1>9
  <2>2. it[s] = Step(it[s \ {Max(s)}], q[Max(s)])
    BY <1>7, <1>9
  <2> HIDE DEF closed, Eq
  <2> QED
    BY <1>4, <1>9, <2>1, <2>2
<1>10. S \in T
  <2> HIDE DEF T
  <2>1. \A s \in SUBSET S : s \in T
    BY <1>3, <1>8, <1>9, SubsetInduction
  <2> QED
    BY <2>1
<1> QED
  BY <1>2, <1>10 DEF S, n

-----------------------------------------------------------------------------
(* Sums whose terms are divided among loops, blocks and threads.           *)

\* The sum over two sets without a common element.
LEMMA MergeCounts ==
    ASSUME NEW I, NEW J, IsFiniteSet(I), IsFiniteSet(J), I \cap J = {}, NEW f
    PROVE  Add2(CountOver(f, I), CountOver(f, J)) = CountOver(f, I \cup J)
<1> DEFINE K == I \cup J
           A == CountOver(f, I)
           B == CountOver(f, J)
           part(L, t) == {i \in L : f[i] = t}
<1>1. DOMAIN A = {f[i] : i \in I} /\ DOMAIN B = {f[i] : i \in J} /\ DOMAIN A \cup DOMAIN B = {f[i] : i \in K}
  BY DEF CountOver
<1>2. ASSUME NEW L \in SUBSET K, NEW t
      PROVE  IsFiniteSet(part(L, t)) /\ Cardinality(part(L, t)) \in Nat
  <2>1. part(L, t) \subseteq K /\ IsFiniteSet(K)
    BY FS_Union
  <2> HIDE DEF part, K
  <2> QED
    BY <2>1, FS_Subset, FS_CardinalityType
<1>3. ASSUME NEW L \in {I, J}, NEW t
      PROVE  (IF t \in {f[i] : i \in L} THEN CountOver(f, L)[t] ELSE 0) = Cardinality(part(L, t))
  <2>1. CASE t \in {f[i] : i \in L}
    BY <2>1 DEF CountOver
  <2>2. CASE t \notin {f[i] : i \in L}
    <3>1. part(L, t) = {}
      BY <2>2
    <3> QED
      BY <2>2, <3>1, FS_EmptySet
  <2> QED
    BY <2>1, <2>2
<1>4. ASSUME NEW t
      PROVE  Cardinality(part(K, t)) = (IF t \in DOMAIN A THEN A[t] ELSE 0) + (IF t \in DOMAIN B THEN B[t] ELSE 0)
  <2>1. part(K, t) = part(I, t) \cup part(J, t) /\ part(I, t) \cap part(J, t) = {}
    OBVIOUS
  <2>2. IsFiniteSet(part(I, t)) /\ IsFiniteSet(part(J, t)) /\ Cardinality(part(I, t)) \in Nat /\ Cardinality(part(J, t)) \in Nat
    BY <1>2
  <2>3. Cardinality(part(K, t)) = Cardinality(part(I, t)) + Cardinality(part(J, t))
    <3> DEFINE P == part(I, t)
               Q == part(J, t)
    <3>1. Cardinality(P \cup Q) = Cardinality(P) + Cardinality(Q) - Cardinality(P \cap Q)
      <4>1. IsFiniteSet(P) /\ IsFiniteSet(Q)
        BY <2>2
      <4> HIDE DEF P, Q
      <4> QED
        BY <4>1, FS_Union
    <3>2. Cardinality(P \cap Q) = 0
      BY <2>1, FS_EmptySet
    <3> HIDE DEF part, K
    <3> QED
      BY <2>1, <2>2, <3>1, <3>2
  <2>4. (IF t \in DOMAIN A THEN A[t] ELSE 0) = Cardinality(part(I, t))
    BY <1>1, <1>3
  <2>5. (IF t \in DOMAIN B THEN B[t] ELSE 0) = Cardinality(part(J, t))
    BY <1>1, <1>3
  <2> HIDE DEF A, B, part
  <2> QED
    BY <2>3, <2>4, <2>5
<1>5. CountOver(f, K) = [t \in {f[i] : i \in K} |-> Cardinality(part(K, t))]
  BY DEF CountOver
<1>6. Add2(A, B) = [t \in DOMAIN A \cup DOMAIN B |->
                      (IF t \in DOMAIN A THEN A[t] ELSE 0) + (IF t \in DOMAIN B THEN B[t] ELSE 0)]
  BY DEF Add2
<1> HIDE DEF A, B, part, K
<1>7. CountOver(f, K) = Add2(A, B)
  BY <1>1, <1>4, <1>5, <1>6
<1> QED
  BY <1>7 DEF A, B, K

\* A sum over elements that have been given other names.
LEMMA RenamedCounts ==
    ASSUME NEW I, IsFiniteSet(I), NEW J, NEW r \in [I -> J], \A j \in J : \E i \in I : r[i] = j,
           \A i, k \in I : r[i] = r[k] => i = k,
           NEW f, NEW g, \A i \in I : f[i] = g[r[i]]
    PROVE  CountOver(f, I) = CountOver(g, J)
<1>1. {f[i] : i \in I} = {g[j] : j \in J}
  OBVIOUS
<1>2. ASSUME NEW t
      PROVE  Cardinality({i \in I : f[i] = t}) = Cardinality({j \in J : g[j] = t})
  <2> DEFINE S == {i \in I : f[i] = t}
             T == {j \in J : g[j] = t}
             q == [i \in S |-> r[i]]
  <2>1. IsFiniteSet(S)
    BY FS_Subset
  <2>2. q \in Bijection(S, T)
    <3>1. q \in [S -> T]
      OBVIOUS
    <3>2. \A a, b \in S : a # b => q[a] # q[b]
      OBVIOUS
    <3>3. \A j \in T : \E i \in S : q[i] = j
      OBVIOUS
    <3> HIDE DEF q, S, T
    <3> QED
      BY <3>1, <3>2, <3>3 DEF Bijection, Injection, Surjection, IsInjective
  <2> HIDE DEF q, S, T
  <2>3. Cardinality(S) = Cardinality(T)
    BY <2>1, <2>2, FS_Bijection DEF ExistsBijection
  <2> QED
    BY <2>3 DEF S, T
<1> QED
  BY <1>1, <1>2 DEF CountOver

\* What CHOOSE takes from a set of parts.
AnyOf(s) == CHOOSE x \in s : TRUE

\* A fold adds up what v gives the elements of Z, in the order in which they are picked.
AddsUp(it, v, pick, Z) ==
    it = CHOOSE g : g = [s \in SUBSET Z |-> IF s = {} THEN Zero ELSE Add2(g[s \ {pick[s]}], v[pick[s]])]

\* To every element of Z belongs the sum over a part of I, and no two of the parts meet.
SumsOfParts(v, f, part, I, Z) ==
    /\ part \in [Z -> SUBSET I]
    /\ \A y, z \in Z : y # z => part[y] \cap part[z] = {}
    /\ \A z \in Z : v[z] = CountOver(f, part[z])

\* A fold that adds up the sums over the parts of a set, none of which meet, is the sum over all.
LEMMA FoldedParts ==
    ASSUME NEW Z, IsFiniteSet(Z), NEW I, IsFiniteSet(I), NEW part, NEW f, NEW v,
           SumsOfParts(v, f, part, I, Z), NEW pick, Picks(pick, Z), NEW it, AddsUp(it, v, pick, Z)
    PROVE  it[Z] = CountOver(f, UNION {part[z] : z \in Z})
<1> DEFINE Eq(g) == g = [s \in SUBSET Z |-> IF s = {} THEN Zero
                                          ELSE Add2(g[s \ {pick[s]}], v[pick[s]])]
           all(s) == UNION {part[z] : z \in s}
           closed == [s \in SUBSET Z |-> CountOver(f, all(s))]
<1>1. /\ \A s \in SUBSET Z : s # {} => pick[s] \in s
      /\ part \in [Z -> SUBSET I] /\ \A y, z \in Z : y # z => part[y] \cap part[z] = {}
      /\ \A s \in SUBSET Z : s # {} => v[pick[s]] = CountOver(f, part[pick[s]])
  BY DEF SumsOfParts, Picks
<1>2. ASSUME NEW s \in SUBSET Z, s # {}
      PROVE  closed[s] = Add2(closed[s \ {pick[s]}], CountOver(f, part[pick[s]]))
  <2> DEFINE x == pick[s]
  <2>1. x \in s /\ x \in Z /\ s \ {x} \in SUBSET Z
    BY <1>1, <1>2
  <2> HIDE DEF x
  <2>2. all(s) = all(s \ {x}) \cup part[x]
    BY <2>1
  <2>3. all(s \ {x}) \cap part[x] = {}
    <3>1. ASSUME NEW e, e \in all(s \ {x}), e \in part[x] PROVE FALSE
      <4>1. PICK z \in s \ {x} : e \in part[z]
        BY <3>1
      <4> QED
        BY <2>1, <3>1, <1>1, <4>1
    <3> HIDE DEF all
    <3> QED
      BY <3>1
  <2>4. IsFiniteSet(all(s \ {x})) /\ IsFiniteSet(part[x])
    <3>1. all(s \ {x}) \in SUBSET I /\ part[x] \in SUBSET I
      BY <1>1, <2>1
    <3> HIDE DEF all
    <3> QED
      BY <3>1, FS_Subset
  <2>5. CountOver(f, all(s)) = Add2(CountOver(f, all(s \ {x})), CountOver(f, part[x]))
    <3> HIDE DEF all
    <3> QED
      BY <2>2, <2>3, <2>4, MergeCounts
  <2>6. closed[s] = CountOver(f, all(s)) /\ closed[s \ {x}] = CountOver(f, all(s \ {x}))
    BY <2>1
  <2> HIDE DEF closed, all
  <2>7. closed[s] = Add2(closed[s \ {x}], CountOver(f, part[x]))
    BY <2>5, <2>6
  <2> QED
    BY <2>7 DEF x
<1>3. closed[{}] = Zero
  <2>1. all({}) = {}
    OBVIOUS
  <2>2. CountOver(f, {}) = Zero
    BY DEF CountOver, Zero
  <2> QED
    BY <2>1, <2>2
<1>4. Eq(closed)
  <2>1. closed = [s \in SUBSET Z |-> closed[s]]
    OBVIOUS
  <2> HIDE DEF closed
  <2>2. \A s \in SUBSET Z : s # {} => closed[s] = Add2(closed[s \ {pick[s]}], v[pick[s]])
    BY <1>1, <1>2
  <2> QED
    BY <1>3, <2>1, <2>2
<1>5. Eq(it)
  <2>1. it = CHOOSE g : Eq(g)
    BY DEF AddsUp
  <2> HIDE DEF Eq
  <2> QED
    BY <1>4, <2>1
<1> DEFINE T == {s \in SUBSET Z : it[s] = closed[s]}
<1>6. {} \in T
  <2> HIDE DEF closed
  <2> QED
    BY <1>3, <1>5
<1>7. ASSUME NEW s \in SUBSET Z, s # {} PROVE \E x \in s : s \ {x} \in T => s \in T
  <2>1. it[s] = Add2(it[s \ {pick[s]}], CountOver(f, part[pick[s]]))
    BY <1>1, <1>5, <1>7
  <2> HIDE DEF closed, Eq
  <2> QED
    BY <1>1, <1>2, <1>7, <2>1
<1>8. Z \in T
  <2> HIDE DEF T
  <2>1. \A s \in SUBSET Z : s \in T
    BY <1>6, <1>7, SubsetInduction
  <2> QED
    BY <2>1
<1> QED
  BY <1>8
-----------------------------------------------------------------------------
(* Weights stored as integers.                                             *)

\* The largest of the values v that a fold comes across.
LEMMA LargestOfAll ==
    ASSUME NEW S, IsFiniteSet(S), NEW v \in [S -> Nat],
           NEW it, it = CHOOSE g : g = [s \in SUBSET S |-> IF s = {} THEN 0
                                          ELSE Greatest(g[s \ {AnyOf(s)}], v[AnyOf(s)])]
    PROVE  it[S] \in Nat /\ \A x \in S : v[x] <= it[S]
<1> DEFINE Eq(g) == g = [s \in SUBSET S |-> IF s = {} THEN 0 ELSE Greatest(g[s \ {AnyOf(s)}], v[AnyOf(s)])]
           pick == [s \in SUBSET S |-> AnyOf(s)]
           step == [p \in S \X Nat |-> Greatest(p[2], v[p[1]])]
<1>0. \A s : s # {} => AnyOf(s) \in s
  BY DEF AnyOf
<1>1. Picks(pick, S) /\ Folds(0, step, S, Nat)
  <2>1. step \in [S \X Nat -> Nat]
    BY DEF Greatest
  <2>2. \A s \in SUBSET S : s # {} => pick[s] \in s
    BY <1>0
  <2> HIDE DEF step, pick
  <2> QED
    BY <2>1, <2>2 DEF Picks, Folds
<1>2. PICK f \in [SUBSET S -> Nat] : IsFold(f, 0, pick, step, S)
  <2> HIDE DEF pick, step
  <2> QED
    BY <1>1, FoldExists
<1>3. ASSUME NEW s \in SUBSET S, s # {} PROVE f[s] = Greatest(f[s \ {AnyOf(s)}], v[AnyOf(s)])
  <2>1. AnyOf(s) \in S /\ s \ {AnyOf(s)} \in SUBSET S /\ pick[s] = AnyOf(s)
    BY <1>0, <1>3
  <2>2. f[s] = step[<<AnyOf(s), f[s \ {AnyOf(s)}]>>]
    BY <1>2, <1>3, <2>1 DEF IsFold
  <2> QED
    BY <2>1, <2>2
<1>4. f[{}] = 0
  BY <1>2 DEF IsFold
<1>5. Eq(it)
  <2>1. Eq(f)
    BY <1>3, <1>4
  <2>2. it = CHOOSE g : Eq(g)
    OBVIOUS
  <2> HIDE DEF Eq
  <2> QED
    BY <2>1, <2>2
<1> DEFINE T == {s \in SUBSET S : it[s] \in Nat /\ \A x \in s : v[x] <= it[s]}
<1>6. {} \in T
  <2>1. it[{}] = 0
    BY <1>5
  <2> HIDE DEF Eq
  <2> QED
    BY <2>1
<1>7. ASSUME NEW s \in SUBSET S, s # {} PROVE \E x \in s : s \ {x} \in T => s \in T
  <2> DEFINE x == AnyOf(s)
  <2>1. x \in s /\ x \in S /\ v[x] \in Nat
    BY <1>0, <1>7
  <2>2. it[s] = Greatest(it[s \ {x}], v[x])
    BY <1>5, <1>7
  <2> HIDE DEF x, Eq
  <2>3. ASSUME s \ {x} \in T PROVE s \in T
    <3>1. it[s \ {x}] \in Nat /\ \A y \in s \ {x} : v[y] <= it[s \ {x}]
      BY <2>3
    <3>2. it[s] \in Nat /\ v[x] <= it[s] /\ it[s \ {x}] <= it[s]
      BY <2>1, <2>2, <3>1 DEF Greatest
    <3>3. ASSUME NEW y \in s PROVE v[y] <= it[s]
      <4>1. CASE y = x
        BY <3>2, <4>1
      <4>2. CASE y # x
        <5>1. v[y] <= it[s \ {x}] /\ v[y] \in Nat
          BY <3>1, <4>2
        <5> QED
          BY <3>1, <3>2, <5>1
      <4> QED
        BY <4>1, <4>2
    <3> QED
      BY <3>2, <3>3
  <2> QED
    BY <2>1, <2>3
<1>8. S \in T
  <2> HIDE DEF T
  <2>1. \A s \in SUBSET S : s \in T
    BY <1>6, <1>7, SubsetInduction
  <2> QED
    BY <2>1
<1> QED
  BY <1>8

\* A scale for the rows R of a column: the largest magnitude is the largest level.
Fits(s, w, R, c, levels) ==
    \/ /\ s.num \in Nat \ {0} /\ s.den = levels
       /\ \A r \in R : Magnitude(w.at[<<r, c>>]) <= s.num
    \/ /\ s.num = 1 /\ s.den = 1
       /\ \A r \in R : w.at[<<r, c>>] = 0

\* The scale quant.cpp takes for a block fits the block: no weight of it is above its levels.
LEMMA ScaleFits ==
    ASSUME NEW w, NEW R, IsFiniteSet(R), NEW c, \A r \in R : w.at[<<r, c>>] \in Int, NEW levels
    PROVE  Fits(ScaleOf(w, R, c, levels), w, R, c, levels)
<1> DEFINE v == [r \in R |-> Magnitude(w.at[<<r, c>>])]
           Eq(g) == g = [s \in SUBSET R |-> IF s = {} THEN 0 ELSE Greatest(g[s \ {AnyOf(s)}], v[AnyOf(s)])]
           Eq2(g) == g = [s \in SUBSET R |-> IF s = {} THEN 0
                              ELSE Greatest(g[s \ {AnyOf(s)}], Magnitude(w.at[<<AnyOf(s), c>>]))]
           it == CHOOSE g : Eq(g)
           largest == it[R]
<1>1. v \in [R -> Nat]
  BY DEF Magnitude
<1>2. \A g : Eq(g) <=> Eq2(g)
  <2>1. \A s \in SUBSET R : s # {} => v[AnyOf(s)] = Magnitude(w.at[<<AnyOf(s), c>>])
    BY DEF AnyOf
  <2> HIDE DEF v
  <2> QED
    BY <2>1
<1>3. it = CHOOSE g : Eq2(g)
  <2> HIDE DEF Eq, Eq2
  <2> QED
    BY <1>2
<1>4. largest \in Nat /\ \A r \in R : v[r] <= largest
  <2> HIDE DEF v
  <2> QED
    BY <1>1, LargestOfAll
<1>5. ScaleOf(w, R, c, levels) = IF largest > 0 THEN [num |-> largest, den |-> levels] ELSE [num |-> 1, den |-> 1]
  <2> HIDE DEF it
  <2> QED
    BY <1>3 DEF ScaleOf, FoldSet, MapThenFoldSet, AnyOf
<1>6. \A r \in R : v[r] = Magnitude(w.at[<<r, c>>])
  OBVIOUS
<1> HIDE DEF largest, v
<1>7. CASE largest > 0
  BY <1>4, <1>5, <1>6, <1>7 DEF Fits
<1>8. CASE ~ (largest > 0)
  <2>1. \A r \in R : w.at[<<r, c>>] = 0
    BY <1>1, <1>4, <1>6, <1>8 DEF Magnitude
  <2> QED
    BY <1>4, <1>5, <1>8, <2>1 DEF Fits
<1> QED
  BY <1>7, <1>8

\* Rounding a quotient is off by half at most.
LEMMA RoundedIsNear ==
    ASSUME NEW a \in Nat, NEW m \in Nat \ {0}, NEW levels \in Nat, a <= levels * m
    PROVE  LET q == (2 * a + m) \div (2 * m)
           IN  q \in 0 .. levels /\ 2 * (q * m - a) <= m /\ 2 * (a - q * m) <= m
<1> DEFINE n == 2 * a + m
           d == 2 * m
           q == n \div d
<1>1. n \in Nat /\ d \in Nat \ {0}
  OBVIOUS
<1>2. q \in Nat /\ d * q <= n /\ n < d * (q + 1)
  <2> HIDE DEF n, d
  <2> QED
    BY <1>1
<1>3. d * q = 2 * (q * m) /\ d * (q + 1) = 2 * (q * m) + 2 * m /\ q * m \in Nat
  <2> HIDE DEF n
  <2>1. q \in Nat
    BY <1>2
  <2> HIDE DEF q
  <2> QED
    BY <2>1
<1>4. 2 * (q * m - a) <= m /\ 2 * (a - q * m) <= m
  <2> HIDE DEF q, d
  <2>1. 2 * (q * m) <= 2 * a + m /\ 2 * a + m < 2 * (q * m) + 2 * m
    BY <1>2, <1>3
  <2>2. q * m \in Nat
    BY <1>3
  <2> DEFINE x == q * m
  <2> HIDE DEF x
  <2> QED
    BY <2>1, <2>2 DEF x
<1>5. q <= levels
  <2> SUFFICES ASSUME q >= levels + 1 PROVE FALSE
    BY <1>2
  <2>1. q * m >= (levels + 1) * m
    <3> HIDE DEF q
    <3> QED
      BY <1>2
  <2>2. (levels + 1) * m = levels * m + m /\ levels * m \in Nat
    OBVIOUS
  <2>3. 2 * (q * m) <= 2 * a + m /\ q * m \in Nat
    BY <1>2, <1>3
  <2> DEFINE x == q * m
             y == levels * m
  <2>4. x >= y + m /\ 2 * x <= 2 * a + m /\ a <= y /\ x \in Nat /\ y \in Nat
    <3> HIDE DEF q
    <3> QED
      BY <2>1, <2>2, <2>3
  <2> HIDE DEF x, y
  <2> QED
    BY <2>4
<1> QED
  BY <1>2, <1>4, <1>5

\* The level of a weight is between the extreme ones, and half a scale away at most.
LEMMA LevelIsNear ==
    ASSUME NEW s, NEW w, NEW R, NEW c, NEW r \in R, w.at[<<r, c>>] \in Int, NEW levels \in Nat \ {0},
           Fits(s, w, R, c, levels), NEW low \in Int, low <= -levels
    PROVE  /\ Level(w.at[<<r, c>>], s, low, levels) \in -levels .. levels
           /\ Near(Times(Level(w.at[<<r, c>>], s, low, levels), s), w.at[<<r, c>>])
<1> DEFINE x == w.at[<<r, c>>]
           a == Magnitude(x) * s.den
           q == (2 * a + s.num) \div (2 * s.num)
<1>1. s.num \in Nat \ {0} /\ s.den \in Nat \ {0} /\ Magnitude(x) \in Nat /\ a \in Nat /\ a <= levels * s.num
  <2>1. Magnitude(x) \in Nat
    BY DEF Magnitude
  <2>2. CASE s.den = levels /\ s.num \in Nat \ {0} /\ Magnitude(x) <= s.num
    <3> DEFINE y == Magnitude(x)
               m == s.num
    <3>1. y \in Nat /\ m \in Nat /\ y <= m
      BY <2>1, <2>2
    <3> HIDE DEF y, m
    <3>2. y * levels <= levels * m /\ y * levels \in Nat
      BY <3>1
    <3> QED
      BY <2>1, <2>2, <3>2 DEF y, m
  <2>3. CASE s.num = 1 /\ s.den = 1 /\ x = 0
    BY <2>1, <2>3 DEF Magnitude
  <2> QED
    BY <2>2, <2>3 DEF Fits
<1>2. q \in 0 .. levels /\ 2 * (q * s.num - a) <= s.num /\ 2 * (a - q * s.num) <= s.num
  <2> HIDE DEF a
  <2> QED
    BY <1>1, RoundedIsNear
<1>3. IF x >= 0 THEN x * s.den = a /\ x * s.den >= 0 ELSE (-(x * s.den)) = a /\ x * s.den < 0
  <2> DEFINE d == s.den
  <2>1. d \in Nat \ {0}
    BY <1>1
  <2> HIDE DEF d
  <2>2. CASE x >= 0
    <3>1. x * d >= 0
      BY <2>1, <2>2
    <3> QED
      BY <2>1, <2>2, <3>1 DEF d, Magnitude
  <2>3. CASE x < 0
    <3>1. x * d < 0 /\ (-x) * d = -(x * d)
      BY <2>1, <2>3
    <3> QED
      BY <2>1, <2>3, <3>1 DEF d, Magnitude
  <2> QED
    BY <2>2, <2>3
<1>4. x * s.den \in Int
  BY <1>1
<1>5. Level(x, s, low, levels) = IF x >= 0 THEN q ELSE -q
  <2>1. Rounded(x * s.den, s.num) = IF x >= 0 THEN q ELSE -q
    <3> DEFINE y == x * s.den
    <3>1. y \in Int /\ IF x >= 0 THEN y = a /\ y >= 0 ELSE -y = a /\ y < 0
      BY <1>3, <1>4
    <3> HIDE DEF y, a
    <3>2. Rounded(y, s.num) = IF x >= 0 THEN q ELSE -q
      BY <3>1 DEF Rounded
    <3> QED
      BY <3>2 DEF y
  <2> HIDE DEF q
  <2> QED
    BY <1>2, <2>1 DEF Level, Clamp, Greatest, Least
<1>6. x * s.den = IF x >= 0 THEN a ELSE -a
  BY <1>1, <1>3, <1>4
<1> DEFINE l == Level(x, s, low, levels)
<1>7. l \in -levels .. levels /\ l * s.num - x * s.den = (IF x >= 0 THEN q * s.num - a ELSE a - q * s.num)
  <2> DEFINE m == s.num
  <2>1. m \in Nat /\ q \in Nat /\ q <= levels /\ l = IF x >= 0 THEN q ELSE -q
    BY <1>1, <1>2, <1>5
  <2> HIDE DEF q, m, l, a
  <2>2. (-q) * m = -(q * m) /\ q * m \in Nat
    BY <2>1
  <2>3. l * m - x * s.den = (IF x >= 0 THEN q * m - a ELSE a - q * m)
    BY <1>1, <1>6, <2>1, <2>2
  <2> QED
    BY <2>1, <2>3 DEF m
<1>8. q * s.num \in Nat
  <2> DEFINE m == s.num
  <2>1. m \in Nat /\ q \in Nat
    BY <1>1, <1>2
  <2> HIDE DEF q, m
  <2> QED
    BY <2>1 DEF m
<1>9. 2 * Magnitude(l * s.num - x * s.den) <= s.num
  <2> DEFINE y == q * s.num
  <2>1. y \in Nat /\ 2 * (y - a) <= s.num /\ 2 * (a - y) <= s.num /\ a \in Nat /\ s.num \in Nat
    BY <1>1, <1>2, <1>8
  <2>2. l * s.num - x * s.den = (IF x >= 0 THEN y - a ELSE a - y)
    BY <1>7
  <2> HIDE DEF y, l, a, q
  <2> QED
    BY <2>1, <2>2 DEF Magnitude
<1> QED
  BY <1>7, <1>9 DEF Near, Times

\* Row and column of an index.
LEMMA RowAndColumn ==
    ASSUME NEW n \in Nat \ {0}, NEW r \in Nat, NEW c \in 0 .. n - 1
    PROVE  /\ r * n + c \in Nat /\ (r * n + c) \div n = r /\ (r * n + c) % n = c
           /\ \A m \in Nat : r < m => r * n + c < m * n
<1> DEFINE x == r * n
<1>1. x \in Nat /\ (r + 1) * n = x + n
  OBVIOUS
<1>2. \A m \in Nat : r < m => x + n <= m * n
  <2> SUFFICES ASSUME NEW m \in Nat, r < m PROVE (r + 1) * n <= m * n
    BY <1>1
  <2>1. \E d \in Nat : m = r + 1 + d
    <3>1. m - (r + 1) \in Nat /\ m = r + 1 + (m - (r + 1))
      OBVIOUS
    <3> QED
      BY <3>1
  <2>2. PICK d \in Nat : m = r + 1 + d
    BY <2>1
  <2>3. m * n = (r + 1) * n + d * n /\ d * n \in Nat /\ (r + 1) * n \in Nat
    BY <2>2
  <2> QED
    BY <2>3
<1>3. \A m \in Nat : r < m => r * n + c < m * n
  <2> SUFFICES ASSUME NEW m \in Nat, r < m PROVE x + c < m * n
    OBVIOUS
  <2>1. x + n <= m * n /\ m * n \in Nat
    BY <1>2
  <2> HIDE DEF x
  <2> QED
    BY <1>1, <2>1
<1>4. (r * n + c) \div n = r /\ (r * n + c) % n = c
  OBVIOUS
<1> QED
  BY <1>1, <1>3, <1>4

\* A matrix to be stored.
IsMatrix(w) ==
    /\ w.rows \in Nat \ {0} /\ w.cols \in Nat \ {0}
    /\ w.at \in [(0 .. w.rows - 1) \X (0 .. w.cols - 1) -> Int]

\* The weights that are stored are matrices of integers.
LEMMA WeightsAreMatrices ==
    \A w \in Weights : IsMatrix(w)
BY WeightsAssumption DEF IsMatrix

\* A byte of eight-bit weights and the scale of its column.
LEMMA Int8IsNear ==
    ASSUME NEW w, IsMatrix(w), NEW r \in 0 .. w.rows - 1, NEW c \in 0 .. w.cols - 1
    PROVE  Near(Times(Int8Bytes(w)[r * w.cols + c], Int8Scales(w)[c]), w.at[<<r, c>>])
<1> DEFINE n == w.cols
           i == r * n + c
           R == 0 .. w.rows - 1
           s == Int8Scale(w, c)
<1>1. w.rows \in Nat \ {0} /\ n \in Nat \ {0} /\ c \in 0 .. n - 1 /\ \A q \in R : w.at[<<q, c>>] \in Int
  BY DEF IsMatrix
<1>2. i \in 0 .. w.rows * n - 1 /\ i \div n = r /\ i % n = c
  <2>1. r \in Nat /\ r < w.rows /\ w.rows \in Nat
    BY <1>1
  <2>2. w.rows * n \in Nat
    BY <1>1
  <2>3. i \in Nat /\ i < w.rows * n /\ i \div n = r /\ i % n = c
    <3> HIDE DEF n
    <3> QED
      BY <1>1, <2>1, RowAndColumn
  <2> HIDE DEF i, n
  <2> QED
    BY <2>2, <2>3
<1>3. Int8Bytes(w)[i] = Level(w.at[<<r, c>>], s, -127, 127)
  <2> HIDE DEF i
  <2> QED
    BY <1>2 DEF Int8Bytes
<1>4. Int8Scales(w)[c] = s
  BY DEF Int8Scales
<1>5. Fits(s, w, R, c, 127)
  <2>1. IsFiniteSet(R)
    <3>1. w.rows - 1 \in Int
      BY <1>1
    <3> QED
      BY <3>1, FS_Interval
  <2> HIDE DEF R
  <2> QED
    BY <1>1, <2>1, ScaleFits DEF Int8Scale, R
<1>6. Near(Times(Level(w.at[<<r, c>>], s, -127, 127), s), w.at[<<r, c>>])
  <2>1. r \in R
    OBVIOUS
  <2> HIDE DEF R, s
  <2> QED
    BY <1>1, <1>5, <2>1, LevelIsNear
<1> QED
  BY <1>3, <1>4, <1>6

\* In blocks of even length, rows alternate as they do in the matrix.
LEMMA EvenBlocks ==
    ASSUME NEW size \in Nat \ {0}, size % 2 = 0, NEW r \in Nat
    PROVE  (r % size) % 2 = r % 2
<1> DEFINE h == size \div 2
           q == r \div size
           t == r % size
<1>1. h \in Nat /\ size = 2 * h
  OBVIOUS
<1>2. q \in Nat /\ t \in Nat /\ r = size * q + t
  OBVIOUS
<1>3. size * q = 2 * (h * q) /\ h * q \in Nat
  <2> HIDE DEF h, q
  <2> QED
    BY <1>1, <1>2
<1> DEFINE x == h * q
<1>4. r = 2 * x + t /\ x \in Nat
  BY <1>2, <1>3
<1> HIDE DEF x, t
<1> QED
  BY <1>2, <1>4 DEF t

\* Four-bit weights: a nibble, and the scale of its block.
LEMMA NibbleIsNear ==
    ASSUME NEW w, IsMatrix(w), NEW size \in Nat \ {0}, NEW r \in 0 .. w.rows - 1, NEW c \in 0 .. w.cols - 1
    PROVE  LET scale == Int4Scale(w, r \div size, c, size)
               nibble == Nibble(w, r, c, size)
           IN  nibble \in 0 .. 15 /\ Near(Times(SignExtended(nibble), scale), w.at[<<r, c>>])
<1> DEFINE b == r \div size
           R == BlockOf(w, b, size)
           s == Int4Scale(w, b, c, size)
           l == Level(w.at[<<r, c>>], s, -8, 7)
<1>1. w.rows \in Nat \ {0} /\ \A q \in 0 .. w.rows - 1 : w.at[<<q, c>>] \in Int
  BY DEF IsMatrix
<1>2. r \in R /\ R \in SUBSET (0 .. w.rows - 1) /\ IsFiniteSet(R)
  <2> DEFINE x == b * size
  <2>1. b \in Nat /\ x \in Nat /\ x <= r /\ r < x + size
    <3>1. b \in Nat /\ size * b <= r /\ r < size * (b + 1)
      OBVIOUS
    <3> HIDE DEF b
    <3>2. x = size * b /\ size * (b + 1) = x + size /\ x \in Nat
      BY <3>1
    <3> HIDE DEF x
    <3> QED
      BY <3>1, <3>2
  <2>2. R = x .. Least(w.rows, x + size) - 1
    BY DEF BlockOf
  <2> HIDE DEF x, R
  <2>3. r \in R /\ R \in SUBSET (0 .. w.rows - 1)
    BY <1>1, <2>1, <2>2 DEF Least
  <2>4. IsFiniteSet(0 .. w.rows - 1)
    <3>1. w.rows - 1 \in Int
      BY <1>1
    <3> QED
      BY <3>1, FS_Interval
  <2> QED
    BY <2>3, <2>4, FS_Subset
<1>3. Fits(s, w, R, c, 7)
  <2>1. \A q \in R : w.at[<<q, c>>] \in Int
    BY <1>1, <1>2
  <2> HIDE DEF R, b
  <2> QED
    BY <1>2, <2>1, ScaleFits DEF Int4Scale, R
<1>4. l \in -7 .. 7 /\ Near(Times(l, s), w.at[<<r, c>>])
  <2>1. w.at[<<r, c>>] \in Int
    BY <1>1
  <2> HIDE DEF R, b, s
  <2> QED
    BY <1>2, <1>3, <2>1, LevelIsNear
<1>5. Nibble(w, r, c, size) = l % 16
  BY DEF Nibble
<1>6. SignExtended(l % 16) = l /\ l % 16 \in 0 .. 15
  <2> HIDE DEF l
  <2> QED
    BY <1>4 DEF SignExtended
<1> QED
  BY <1>4, <1>5, <1>6

\* Which half of which byte holds a four-bit weight.
LEMMA HalfOfByte ==
    ASSUME NEW w, IsMatrix(w), NEW size \in Nat \ {0}, size % 2 = 0,
           NEW r \in 0 .. w.rows - 1, NEW c \in 0 .. w.cols - 1
    PROVE  LET byte == Int4Bytes(w, size)[(r \div 2) * w.cols + c]
           IN  Nibble(w, r, c, size) = IF r % 2 = 0 THEN Lower(byte) ELSE Upper(byte)
<1> DEFINE n == w.cols
           b == r \div 2
           i == b * n + c
           first == 2 * b
           pairs == PairsInto(w, b, size)
<1>1. w.rows \in Nat \ {0} /\ n \in Nat \ {0} /\ r \in Nat /\ r < w.rows
  BY DEF IsMatrix
<1>2. b \in Nat /\ first \in 0 .. w.rows - 1 /\ r \in {first, first + 1} /\ b < CeilDiv(w.rows, 2) /\ CeilDiv(w.rows, 2) \in Nat
  BY <1>1 DEF CeilDiv
<1>3. i \in 0 .. CeilDiv(w.rows, 2) * n - 1 /\ i \div n = b /\ i % n = c
  <2> DEFINE m == CeilDiv(w.rows, 2)
  <2>1. m * n \in Nat
    <3>1. m \in Nat
      BY <1>2
    <3> HIDE DEF m
    <3> QED
      BY <1>1, <3>1
  <2>2. i \in Nat /\ i < m * n /\ i \div n = b /\ i % n = c
    <3> HIDE DEF n, b
    <3> QED
      BY <1>1, <1>2, RowAndColumn DEF n
  <2> HIDE DEF i, n, m
  <2> QED
    BY <2>1, <2>2 DEF m
<1>4. pairs = {first}
  <2>1. ASSUME NEW q \in 0 .. w.rows - 1 PROVE q \in pairs <=> q = first
    <3>1. (q % size) % 2 = q % 2
      BY EvenBlocks
    <3>2. q \in pairs <=> q \div 2 = b /\ q % 2 = 0
      BY <3>1 DEF PairsInto
    <3> HIDE DEF pairs, b
    <3> QED
      BY <1>2, <3>2
  <2>2. pairs \in SUBSET (0 .. w.rows - 1)
    BY DEF PairsInto
  <2> HIDE DEF pairs, first
  <2> QED
    BY <1>2, <2>1, <2>2
<1>5. Int4Bytes(w, size)[i] = Packed(w, first, c, size)
  <2>1. (CHOOSE q \in {first} : \A p \in {first} : p <= q) = first
    <3>1. first \in Int
      BY <1>2
    <3> HIDE DEF first
    <3> QED
      BY <3>1
  <2> DEFINE Byte(x, y) == LET ps == PairsInto(w, x, size)
                               q == CHOOSE q \in ps : \A p \in ps : p <= q
                           IN  IF ps = {} THEN 0 ELSE Packed(w, q, y, size)
  <2>2. Int4Bytes(w, size)[i] = Byte(i \div n, i % n)
    <3> HIDE DEF i
    <3> QED
      BY <1>3 DEF Int4Bytes
  <2>3. Int4Bytes(w, size)[i] = Byte(b, c)
    <3> HIDE DEF Byte, i, b, n
    <3> QED
      BY <1>3, <2>2
  <2>4. Byte(b, c) = LET q == CHOOSE q \in pairs : \A p \in pairs : p <= q
                     IN  IF pairs = {} THEN 0 ELSE Packed(w, q, c, size)
    OBVIOUS
  <2> HIDE DEF pairs, first, i, Byte
  <2> QED
    BY <1>4, <2>1, <2>3, <2>4
<1>6. (first + 1) % size # 0
  <2>1. ((first + 1) % size) % 2 = (first + 1) % 2
    <3>1. first + 1 \in Nat
      BY <1>2
    <3> HIDE DEF first
    <3> QED
      BY <3>1, EvenBlocks
  <2>2. (first + 1) % 2 = 1
    <3> HIDE DEF b
    <3> QED
      BY <1>2
  <2> QED
    BY <2>1, <2>2
<1> DEFINE low == Nibble(w, first, c, size)
           high == Nibble(w, first + 1, c, size)
           byte == Int4Bytes(w, size)[i]
<1>7. byte = low + (IF first + 1 = w.rows THEN 0 ELSE 16 * high)
  <2> HIDE DEF first, i
  <2> QED
    BY <1>5, <1>6 DEF Packed
<1>8. low \in 0 .. 15 /\ (first + 1 # w.rows => high \in 0 .. 15)
  <2>1. first + 1 # w.rows => first + 1 \in 0 .. w.rows - 1
    BY <1>1, <1>2
  <2> HIDE DEF first
  <2> QED
    BY <1>2, <2>1, NibbleIsNear
<1> HIDE DEF byte, low, high
<1>9. CASE r = first
  <2>1. r % 2 = 0
    <3> HIDE DEF b
    <3> QED
      BY <1>2, <1>9
  <2>2. Lower(byte) = low
    BY <1>7, <1>8 DEF Lower
  <2> HIDE DEF first, i
  <2>3. Nibble(w, r, c, size) = low
    BY <1>9 DEF low
  <2> QED
    BY <2>1, <2>2, <2>3 DEF byte, i
<1>10. CASE r = first + 1
  <2>1. r % 2 # 0
    <3> HIDE DEF b
    <3> QED
      BY <1>2, <1>10
  <2>2. first + 1 # w.rows
    <3> HIDE DEF first
    <3> QED
      BY <1>1, <1>10
  <2>3. Upper(byte) = high
    BY <1>7, <1>8, <2>2 DEF Upper
  <2> HIDE DEF first, i
  <2>4. Nibble(w, r, c, size) = high
    BY <1>10 DEF high
  <2> QED
    BY <2>1, <2>3, <2>4 DEF byte, i
<1> QED
  BY <1>2, <1>9, <1>10

\* A four-bit weight and its scale, found by row and column.
LEMMA Int4IsNear ==
    ASSUME NEW w, IsMatrix(w), NEW size \in Nat \ {0}, size % 2 = 0,
           NEW r \in 0 .. w.rows - 1, NEW c \in 0 .. w.cols - 1
    PROVE  LET byte == Int4Bytes(w, size)[(r \div 2) * w.cols + c]
               nibble == IF r % 2 = 0 THEN Lower(byte) ELSE Upper(byte)
               scale == Int4Scales(w, size)[(r \div size) * w.cols + c]
           IN  Near(Times(SignExtended(nibble), scale), w.at[<<r, c>>])
<1> DEFINE n == w.cols
           b == r \div size
           i == b * n + c
           m == Int4Blocks(w, size)
<1>1. w.rows \in Nat \ {0} /\ n \in Nat \ {0} /\ r \in Nat /\ r < w.rows
  BY DEF IsMatrix
<1>2. b \in Nat /\ m \in Nat /\ b < m
  <2> DEFINE x == w.rows + size - 1
  <2>1. m = x \div size /\ x \in Nat /\ r + size <= x
    BY <1>1 DEF Int4Blocks, CeilDiv
  <2>2. b \in Nat /\ size * b <= r
    OBVIOUS
  <2>3. x \div size \in Nat /\ x < size * (x \div size + 1)
    <3>1. x \in Nat
      BY <2>1
    <3> HIDE DEF x
    <3> QED
      BY <3>1
  <2> HIDE DEF x, b, m
  <2>4. m \in Nat /\ x < size * (m + 1) /\ size * (m + 1) = size * m + size /\ size * m \in Nat
    BY <2>1, <2>3
  <2>5. size * b < size * m
    <3>1. size * b \in Nat
      BY <2>2
    <3> QED
      BY <2>1, <2>2, <2>4, <3>1
  <2>6. ASSUME m <= b PROVE FALSE
    <3>1. \E d \in Nat : b = m + d
      <4>1. b - m \in Nat /\ b = m + (b - m)
        BY <2>2, <2>4, <2>6
      <4> QED
        BY <4>1
    <3>2. PICK d \in Nat : b = m + d
      BY <3>1
    <3>3. size * b = size * m + size * d /\ size * d \in Nat
      BY <2>4, <3>2
    <3> QED
      BY <2>4, <2>5, <3>3
  <2> QED
    BY <2>2, <2>4, <2>6
<1>3. i \in 0 .. m * n - 1 /\ i \div n = b /\ i % n = c
  <2>1. m * n \in Nat
    <3> HIDE DEF m
    <3> QED
      BY <1>1, <1>2
  <2>2. i \in Nat /\ i < m * n /\ i \div n = b /\ i % n = c
    <3> HIDE DEF n, b, m
    <3> QED
      BY <1>1, <1>2, RowAndColumn DEF n
  <2> HIDE DEF i, n, m
  <2> QED
    BY <2>1, <2>2
<1>4. Int4Scales(w, size)[i] = Int4Scale(w, b, c, size)
  <2> HIDE DEF i, b
  <2> QED
    BY <1>3 DEF Int4Scales
<1>5. Near(Times(SignExtended(Nibble(w, r, c, size)), Int4Scale(w, b, c, size)), w.at[<<r, c>>])
  BY NibbleIsNear
<1> QED
  BY <1>4, <1>5, HalfOfByte
-----------------------------------------------------------------------------
(* Loops over blocks and vectors, and warps.                               *)

\* The last multiple of a width does not grow when the width is multiplied.
LEMMA MultipleBelow ==
    ASSUME NEW n \in Nat, NEW a \in Nat \ {0}, NEW b \in Nat \ {0}, a % b = 0
    PROVE  (n \div a) * a \in 0 .. (n \div b) * b
<1> DEFINE e == a \div b
           q == n \div a
           r == n \div b
<1>1. e \in Nat /\ a = b * e
  OBVIOUS
<1>2. q \in Nat /\ a * q <= n
  OBVIOUS
<1>3. r \in Nat /\ n < b * (r + 1)
  OBVIOUS
<1> HIDE DEF e, q, r
<1>4. q * a = b * (q * e) /\ q * e \in Nat /\ a * q = q * a
  BY <1>1, <1>2
<1> DEFINE x == q * e
<1>5. x \in Nat /\ b * x <= n /\ b * x < b * (r + 1)
  BY <1>1, <1>2, <1>3, <1>4
<1>6. ASSUME r + 1 <= x PROVE FALSE
  <2>1. PICK d \in Nat : x = r + 1 + d
    <3>1. x - (r + 1) \in Nat /\ x = r + 1 + (x - (r + 1))
      BY <1>3, <1>5, <1>6
    <3> QED
      BY <3>1
  <2>2. b * x = b * (r + 1) + b * d /\ b * d \in Nat /\ b * (r + 1) \in Nat
    BY <1>3, <2>1
  <2> QED
    BY <1>5, <2>2
<1>7. x <= r
  BY <1>3, <1>5, <1>6
<1>8. b * x <= b * r /\ b * x \in Nat /\ r * b = b * r /\ b * r \in Nat
  <2>1. PICK d \in Nat : r = x + d
    <3>1. r - x \in Nat /\ r = x + (r - x)
      BY <1>3, <1>5, <1>7
    <3> QED
      BY <3>1
  <2>2. b * r = b * x + b * d /\ b * d \in Nat /\ b * x \in Nat
    BY <1>5, <2>1
  <2> QED
    BY <1>3, <2>2
<1>9. q * a \in 0 .. r * b
  BY <1>4, <1>8
<1> QED
  BY <1>9 DEF q, r

\* Widths of loops that run one after the other: each a multiple of the next, the last of them one.
Falling(w) ==
    /\ w \in Seq(Nat \ {0}) /\ Len(w) > 0 /\ w[Len(w)] = 1
    /\ \A u, v \in 1 .. Len(w) : u <= v => w[u] % w[v] = 0

\* The loops cover every index once.
LEMMA StripsDivide ==
    ASSUME NEW n \in Nat, NEW w, Falling(w)
    PROVE  /\ \A u \in DOMAIN w : Strips(n, w)[u] \in SUBSET (0 .. n - 1)
           /\ \A i \in 0 .. n - 1 : \E u \in DOMAIN w : i \in Strips(n, w)[u]
           /\ \A i \in 0 .. n - 1 : \A u, v \in DOMAIN w : i \in Strips(n, w)[u] /\ i \in Strips(n, w)[v] => u = v
<1> DEFINE q == Len(w)
           end(u) == IF u = 0 THEN 0 ELSE (n \div w[u]) * w[u]
<1>1. q \in Nat \ {0} /\ DOMAIN w = 1 .. q /\ w[q] = 1 /\ \A u \in 1 .. q : w[u] \in Nat \ {0}
  BY DEF Falling
<1>2. \A u \in 1 .. q : Strips(n, w)[u] = end(u - 1) .. end(u) - 1
  BY <1>1 DEF Strips
<1>3. ASSUME NEW u \in 0 .. q, NEW v \in 0 .. q, u <= v
      PROVE  end(u) \in Nat /\ end(v) \in Nat /\ end(u) <= end(v)
  <2>1. CASE u = 0 /\ v = 0
    BY <2>1
  <2>2. CASE u = 0 /\ v # 0
    <3>1. w[v] % w[v] = 0 /\ w[v] \in Nat \ {0}
      BY <1>1, <2>2 DEF Falling
    <3>2. (n \div w[v]) * w[v] \in 0 .. (n \div w[v]) * w[v]
      BY <3>1, MultipleBelow
    <3> QED
      BY <2>2, <3>2
  <2>3. CASE u # 0
    <3>1. w[u] % w[v] = 0 /\ w[v] \in Nat \ {0} /\ w[u] \in Nat \ {0} /\ v # 0
      BY <1>1, <1>3, <2>3 DEF Falling
    <3>2. (n \div w[u]) * w[u] \in 0 .. (n \div w[v]) * w[v]
      BY <3>1, MultipleBelow
    <3> DEFINE x == (n \div w[u]) * w[u]
               y == (n \div w[v]) * w[v]
    <3>3. end(u) = x /\ end(v) = y
      BY <2>3, <3>1
    <3>4. y \in Nat
      <4> DEFINE d == n \div w[v]
      <4>1. d \in Nat
        BY <3>1
      <4> HIDE DEF d
      <4> QED
        BY <3>1, <4>1 DEF d
    <3> HIDE DEF x, y, end
    <3> QED
      BY <3>2, <3>3, <3>4 DEF x, y
  <2> QED
    BY <2>1, <2>2, <2>3
<1>4. end(q) = n /\ end(0) = 0
  BY <1>1
<1> HIDE DEF end, q
<1>5. ASSUME NEW u \in DOMAIN w PROVE Strips(n, w)[u] \in SUBSET (0 .. n - 1)
  <2>1. u \in 1 .. q /\ u - 1 \in 0 .. q /\ u \in 0 .. q /\ q \in 0 .. q
    BY <1>1
  <2>2. end(u - 1) \in Nat /\ end(u) \in Nat /\ end(u) <= n
    BY <1>1, <1>3, <1>4, <2>1
  <2> QED
    BY <1>2, <2>1, <2>2
<1>6. ASSUME NEW i \in 0 .. n - 1 PROVE \E u \in DOMAIN w : i \in Strips(n, w)[u]
  <2> DEFINE T == {u \in 0 .. q : i < end(u)}
  <2>1. q \in T /\ 0 \notin T /\ T \in SUBSET Nat
    BY <1>1, <1>4
  <2>2. PICK u \in T : \A v \in T : u <= v
    <3> HIDE DEF T
    <3> QED
      BY <2>1, LeastNat
  <2>3. u \in 1 .. q /\ u - 1 \in 0 .. q /\ u - 1 \notin T
    BY <1>1, <2>1, <2>2
  <2>4. end(u - 1) \in Nat /\ end(u) \in Nat
    BY <1>3, <2>3
  <2>5. end(u - 1) <= i /\ i < end(u)
    BY <2>2, <2>3, <2>4
  <2>6. Strips(n, w)[u] = end(u - 1) .. end(u) - 1 /\ u \in DOMAIN w /\ i \in Int
    BY <1>1, <1>2, <2>3
  <2>7. i \in Strips(n, w)[u]
    BY <2>4, <2>5, <2>6
  <2> QED
    BY <2>6, <2>7
<1>7. ASSUME NEW i \in 0 .. n - 1, NEW u \in DOMAIN w, NEW v \in DOMAIN w,
             i \in Strips(n, w)[u], i \in Strips(n, w)[v], u < v
      PROVE  FALSE
  <2>1. u \in 0 .. q /\ v - 1 \in 0 .. q /\ u <= v - 1 /\ u - 1 \in 0 .. q /\ v \in 0 .. q
    BY <1>1, <1>7
  <2>2. end(u) \in Nat /\ end(v - 1) \in Nat /\ end(u) <= end(v - 1)
    BY <1>3, <2>1
  <2>4. i \in end(u - 1) .. end(u) - 1 /\ i \in end(v - 1) .. end(v) - 1
    BY <1>1, <1>2, <1>7
  <2>3. i < end(u) /\ end(v - 1) <= i
    BY <2>2, <2>4
  <2> QED
    BY <2>2, <2>3
<1>8. \A i \in 0 .. n - 1 : \A u, v \in DOMAIN w : i \in Strips(n, w)[u] /\ i \in Strips(n, w)[v] => u = v
  <2>1. \A u, v \in DOMAIN w : u = v \/ u < v \/ v < u
    BY <1>1
  <2> QED
    BY <1>7, <2>1
<1> QED
  BY <1>5, <1>6, <1>8

\* The widths of the loops of the kernels.
LEMMA WidthsFall ==
    ASSUME NEW w, w \in {<< 1 >>, <<LANES, 1>>, Vectors, <<ROWS, 1>>, <<UNROLL, 1>>}
    PROVE  Falling(w)
<1>1. LANES \in Nat \ {0} /\ ROWS \in Nat \ {0} /\ UNROLL \in Nat \ {0}
  BY MatMulAssumption
<1>2. \A x \in Nat \ {0} : x % 1 = 0 /\ x % x = 0
  OBVIOUS
<1>3. 4 * LANES \in Nat \ {0} /\ (4 * LANES) % LANES = 0
  BY <1>1
<1>4. CASE w = <<1>>
  BY <1>2, <1>4 DEF Falling
<1>5. ASSUME NEW x \in Nat \ {0}, w = <<x, 1>> PROVE Falling(w)
  <2>1. Len(w) = 2 /\ w[1] = x /\ w[2] = 1 /\ w \in Seq(Nat \ {0})
    BY <1>5
  <2>2. \A u, v \in 1 .. 2 : u <= v => w[u] % w[v] = 0
    BY <1>2, <2>1
  <2> QED
    BY <2>1, <2>2 DEF Falling
<1>6. CASE w = Vectors
  <2>1. Len(w) = 3 /\ w[1] = 4 * LANES /\ w[2] = LANES /\ w[3] = 1 /\ w \in Seq(Nat \ {0})
    BY <1>1, <1>3, <1>6 DEF Vectors
  <2>2. \A u, v \in 1 .. 3 : u <= v => w[u] % w[v] = 0
    BY <1>1, <1>2, <1>3, <2>1
  <2> QED
    BY <2>1, <2>2 DEF Falling
<1> QED
  BY <1>1, <1>4, <1>5, <1>6

\* The block an index is in.
Begin(i, w) == i - (i % w)

\* Every index is in one block.
LEMMA BlocksDivide ==
    ASSUME NEW n \in Nat, NEW w \in Nat \ {0}, NEW i \in 0 .. n - 1
    PROVE  /\ Begin(i, w) \in Blocks(n, w)
           /\ i - Begin(i, w) \in 0 .. Least(n - Begin(i, w), w) - 1
           /\ \A x \in Blocks(n, w) : i - x \in 0 .. Least(n - x, w) - 1 => x = Begin(i, w)
<1> DEFINE b == i - (i % w)
<1>0. b = Begin(i, w)
  BY DEF Begin
<1>1. b \in 0 .. i /\ b % w = 0 /\ i - b < w
  <2> DEFINE q == i \div w
             r == i % w
  <2>1. q \in Nat /\ r \in 0 .. w - 1 /\ i = w * q + r
    OBVIOUS
  <2>2. w * q \in Nat /\ (w * q) % w = 0 /\ b = w * q
    <3>1. w * q \in Nat /\ (w * q) % w = 0
      <4> HIDE DEF q
      <4> QED
        BY <2>1
    <3>2. b = i - r
      OBVIOUS
    <3> HIDE DEF q, r, b
    <3> QED
      BY <2>1, <3>1, <3>2
  <2> HIDE DEF b, q, r
  <2> QED
    BY <2>1, <2>2
<1>2. ASSUME NEW x \in Blocks(n, w), i - x \in 0 .. Least(n - x, w) - 1 PROVE x = b
  <2>1. x \in Nat /\ x % w = 0 /\ x <= i /\ i - x < w
    BY <1>2 DEF Blocks, Least
  <2> DEFINE q == x \div w
             t == i - x
  <2>2. q \in Nat /\ x = w * q /\ t \in 0 .. w - 1
    BY <2>1
  <2>3. i = w * q + t
    BY <2>1, <2>2
  <2>4. i % w = t
    <3> HIDE DEF q, t
    <3> QED
      BY <2>2, <2>3
  <2>5. i - t = x
    BY <2>1
  <2> HIDE DEF t
  <2> QED
    BY <2>4, <2>5
<1> HIDE DEF b
<1>3. b \in Blocks(n, w) /\ i - b \in 0 .. Least(n - b, w) - 1
  BY <1>1 DEF Blocks, Least
<1> QED
  BY <1>0, <1>2, <1>3

\* What a fold from the left computes is the last of a sequence of partial results.
LEMMA FoldIs ==
    ASSUME NEW n \in Nat, NEW S, S = 1 .. n, NEW D, NEW base \in D, NEW step \in [S \X D -> D],
           NEW it, it = CHOOSE f : f = [s \in SUBSET S |->
                                          IF s = {} THEN base ELSE step[<<Max(s), f[s \ {Max(s)}]>>]]
    PROVE  \E h \in [0 .. n -> D] : Accumulates(h, base, step, n) /\ it[S] = h[n]
<1> DEFINE Eq(f) == f = [s \in SUBSET S |-> IF s = {} THEN base ELSE step[<<Max(s), f[s \ {Max(s)}]>>]]
<1>1. PICK g \in [SUBSET S -> D] : IsLeftFold(g, base, step, S)
  BY LeftFoldExists
<1>2. Eq(g)
  <2>1. g = [s \in SUBSET S |-> g[s]]
    OBVIOUS
  <2> QED
    BY <1>1, <2>1 DEF IsLeftFold
<1>3. Eq(it)
  <2>1. it = CHOOSE f : Eq(f)
    OBVIOUS
  <2> HIDE DEF Eq
  <2> QED
    BY <1>2, <2>1
<1>4. IsFiniteSet(S) /\ \A s \in SUBSET S : s # {} => Max(s) \in s
  BY Segments
<1> DEFINE T == {s \in SUBSET S : it[s] = g[s]}
<1>5. {} \in T
  <2>1. it[{}] = base /\ g[{}] = base
    BY <1>1, <1>3 DEF IsLeftFold
  <2> QED
    BY <2>1
<1>6. ASSUME NEW s \in SUBSET S, s # {} PROVE \E x \in s : s \ {x} \in T => s \in T
  <2>1. Max(s) \in s
    BY <1>4, <1>6
  <2>2. it[s] = step[<<Max(s), it[s \ {Max(s)}]>>]
    BY <1>3, <1>6
  <2>3. g[s] = step[<<Max(s), g[s \ {Max(s)}]>>]
    BY <1>1, <1>6 DEF IsLeftFold
  <2>4. s \ {Max(s)} \in T => s \in T
    BY <1>6, <2>2, <2>3
  <2> QED
    BY <2>1, <2>4
<1>7. it[S] = g[S]
  <2>1. S \in T
    <3> HIDE DEF T
    <3>0. IsFiniteSet(S)
      BY <1>4
    <3>1. \A s \in SUBSET S : s \in T
      BY <3>0, <1>5, <1>6, SubsetInduction
    <3> QED
      BY <3>1
  <2> QED
    BY <2>1
<1> DEFINE h == [k \in 0 .. n |-> g[1 .. k]]
<1>8. 1 .. 0 = {} /\ \A k \in 1 .. n : /\ 1 .. k \in SUBSET S /\ 1 .. k # {}
                                       /\ Max(1 .. k) = k /\ (1 .. k) \ {k} = 1 .. k - 1
  BY Segments
<1>9. h \in [0 .. n -> D] /\ h[0] = base /\ h[n] = g[S]
  <2>1. \A k \in 0 .. n : 1 .. k \in SUBSET S
    OBVIOUS
  <2> QED
    BY <1>1, <1>8, <2>1 DEF IsLeftFold
<1>10. ASSUME NEW k \in 1 .. n PROVE h[k] = step[<<k, h[k - 1]>>]
  <2>1. g[1 .. k] = step[<<Max(1 .. k), g[(1 .. k) \ {Max(1 .. k)}]>>]
    BY <1>1, <1>8 DEF IsLeftFold
  <2>2. g[1 .. k] = step[<<k, g[1 .. k - 1]>>]
    BY <1>8, <2>1
  <2>3. k \in 0 .. n /\ k - 1 \in 0 .. n
    OBVIOUS
  <2> QED
    BY <2>2, <2>3
<1> HIDE DEF h
<1> QED
  BY <1>7, <1>9, <1>10 DEF Accumulates

\* When the loops of the given widths over k rows, blocks of n columns at a time, come across column j.
Updates(n, size, w, k, j) ==
    {x \in Blocks(n, size) \X (DOMAIN w) \X (0 .. k - 1) :
        j - x[1] \in Strips(Least(n - x[1], size), w)[x[2]]}

\* Every update by row p adds g[p].
AddsRows(f, g, U) == \A x \in U : f[x] = g[x[3]]

\* An element that is brought up to date by loops over columns gets every product once.
LEMMA StreamedOnce ==
    ASSUME NEW n \in Nat, NEW size \in Nat \ {0}, NEW w, Falling(w), NEW k \in Nat, NEW j \in 0 .. n - 1,
           NEW f, NEW g, AddsRows(f, g, Updates(n, size, w, k, j))
    PROVE  CountOver(f, Updates(n, size, w, k, j)) = CountOver(g, 0 .. k - 1)
<1> DEFINE U == Updates(n, size, w, k, j)
           b == Begin(j, size)
           len == Least(n - b, size)
           i == j - b
<1>1. b \in Blocks(n, size) /\ i \in 0 .. len - 1
  BY BlocksDivide
<1>2. len \in Nat /\ \A x \in Blocks(n, size) : Least(n - x, size) \in Nat
  BY <1>1 DEF Blocks, Least
<1>3. PICK u \in DOMAIN w : i \in Strips(len, w)[u]
  <2> HIDE DEF i, len
  <2> QED
    BY <1>1, <1>2, StripsDivide
<1>4. ASSUME NEW x \in U PROVE x = <<b, u, x[3]>> /\ x[3] \in 0 .. k - 1
  <2>1. x = <<x[1], x[2], x[3]>> /\ x[1] \in Blocks(n, size) /\ x[2] \in DOMAIN w /\ x[3] \in 0 .. k - 1
    BY DEF Updates
  <2>2. j - x[1] \in Strips(Least(n - x[1], size), w)[x[2]]
    BY DEF Updates
  <2>3. j - x[1] \in 0 .. Least(n - x[1], size) - 1
    BY <1>2, <2>1, <2>2, StripsDivide
  <2>4. x[1] = b
    BY <2>1, <2>3, BlocksDivide
  <2>5. i \in Strips(len, w)[x[2]]
    BY <2>2, <2>4
  <2>6. x[2] = u
    <3> HIDE DEF i, len
    <3> QED
      BY <1>1, <1>2, <1>3, <2>1, <2>5, StripsDivide
  <2> QED
    BY <2>1, <2>4, <2>6
<1> DEFINE I == 0 .. k - 1
           r == [p \in I |-> <<b, u, p>>]
<1>5. ASSUME NEW p \in I PROVE <<b, u, p>> \in U
  BY <1>1, <1>3 DEF Updates
<1> HIDE DEF b, U
<1>6. r \in [I -> U] /\ \A p \in I : r[p][3] = p
  <2> HIDE DEF I
  <2> QED
    BY <1>5
<1>7. \A x \in U : \E p \in I : r[p] = x
  <2>1. ASSUME NEW x \in U PROVE x[3] \in I /\ r[x[3]] = x
    BY <1>4
  <2> QED
    BY <2>1
<1>8. \A p, q \in I : r[p] = r[q] => p = q
  <2> HIDE DEF r
  <2> QED
    BY <1>6
<1>9. \A p \in I : g[p] = f[r[p]]
  <2>1. \A x \in U : f[x] = g[x[3]]
    BY DEF U, AddsRows
  <2> HIDE DEF r
  <2> QED
    BY <1>6, <2>1
<1>10. IsFiniteSet(I)
  <2>1. k - 1 \in Int
    OBVIOUS
  <2> QED
    BY <2>1, FS_Interval
<1>11. CountOver(g, I) = CountOver(f, U)
  <2> HIDE DEF r, I
  <2> QED
    BY <1>6, <1>7, <1>8, <1>9, <1>10, RenamedCounts
<1> QED
  BY <1>11 DEF U

\* The rows of weights are divided into blocks.
LEMMA RowsDivide ==
    ASSUME NEW k \in Nat, NEW a, a.block_size \in Nat, NEW p \in 0 .. k - 1
    PROVE  /\ p \div BlockRows(a) \in QuantBlocks(k, a)
           /\ p \in RowsOf(p \div BlockRows(a), k, a)
           /\ \A x \in QuantBlocks(k, a) : p \in RowsOf(x, k, a) => x = p \div BlockRows(a)
<1> DEFINE B == BlockRows(a)
           q == p \div B
           m == k + B - 1
           z == m \div B
<1>1. B \in Nat \ {0}
  BY QuantizedAssumption DEF BlockRows
<1> HIDE DEF B
<1>2. q \in Nat /\ B * q <= p /\ p < B * (q + 1)
  BY <1>1
<1>3. m \in Nat /\ z \in Nat /\ m < B * (z + 1)
  <2>1. m \in Nat
    BY <1>1
  <2> HIDE DEF m
  <2> QED
    BY <1>1, <2>1
<1>4. QuantBlocks(k, a) = 0 .. z - 1
  BY DEF QuantBlocks, CeilDiv, B
<1> HIDE DEF q, z
<1>5. B * q = q * B /\ q * B \in Nat /\ B * (q + 1) = q * B + B /\ B * (z + 1) = B * z + B /\ B * z \in Nat
  BY <1>1, <1>2, <1>3
<1>6. q < z
  <2> SUFFICES ASSUME z <= q PROVE FALSE
    BY <1>2, <1>3
  <2>1. PICK d \in Nat : q = z + d
    <3>1. q - z \in Nat /\ q = z + (q - z)
      BY <1>2, <1>3
    <3> QED
      BY <3>1
  <2>2. B * q = B * z + B * d /\ B * d \in Nat
    BY <1>1, <1>3, <2>1
  <2>3. B * q \in Nat /\ B * z \in Nat /\ k + B - 1 < B * z + B /\ B * q <= p /\ p <= k - 1
    BY <1>2, <1>3, <1>5
  <2> QED
    BY <1>1, <2>2, <2>3
<1>7. \A x \in Int : RowsOf(x, k, a) = x * B .. Least(k, x * B + B) - 1
  BY DEF RowsOf, B
<1>8. p \in RowsOf(q, k, a)
  <2> DEFINE y == q * B
  <2>1. y \in Nat /\ y <= p /\ p < y + B /\ RowsOf(q, k, a) = y .. Least(k, y + B) - 1
    BY <1>2, <1>5, <1>7
  <2> HIDE DEF y
  <2> QED
    BY <1>1, <2>1 DEF Least
<1>9. ASSUME NEW x \in Nat, p \in RowsOf(x, k, a) PROVE x = q
  <2> DEFINE y == x * B
             t == p - y
  <2>1. y \in Nat
    BY <1>1
  <2>2. y <= p /\ p < y + B
    <3>1. p \in y .. Least(k, y + B) - 1
      <4>1. RowsOf(x, k, a) = y .. Least(k, y + B) - 1
        BY <1>7
      <4> HIDE DEF y
      <4> QED
        BY <1>9, <4>1
    <3> HIDE DEF y
    <3> QED
      BY <1>1, <2>1, <3>1 DEF Least
  <2>3. t \in 0 .. B - 1 /\ p = y + t
    <3> HIDE DEF y
    <3> QED
      BY <1>1, <2>1, <2>2
  <2> HIDE DEF t
  <2>4. (x * B + t) \div B = x
    BY <1>1, <2>3, RowAndColumn
  <2> QED
    BY <2>3, <2>4 DEF q
<1> QED
  BY <1>2, <1>3, <1>4, <1>6, <1>8, <1>9 DEF q, B

\* Powers of two, one by one.
LEMMA PowersOfTwo ==
    /\ \A n \in 0..10 : 2^n \in Nat \ {0}
    /\ 2^0 = 1
    /\ \A n \in 1..10 : 2^n = 2 * 2^(n - 1)
<1>1. /\ 2^0 = 1 /\ 2^1 = 2 /\ 2^2 = 4 /\ 2^3 = 8 /\ 2^4 = 16 /\ 2^5 = 32 /\ 2^6 = 64 /\ 2^7 = 128
      /\ 2^8 = 256 /\ 2^9 = 512 /\ 2^10 = 1024
  OBVIOUS
<1> DEFINE p == [n \in 0..10 |-> 2^n]
<1>2. /\ p[0] = 1 /\ p[1] = 2 /\ p[2] = 4 /\ p[3] = 8 /\ p[4] = 16 /\ p[5] = 32 /\ p[6] = 64 /\ p[7] = 128
      /\ p[8] = 256 /\ p[9] = 512 /\ p[10] = 1024
  BY <1>1
<1>3. \A n \in 0..10 : p[n] = 2^n
  OBVIOUS
<1> HIDE DEF p
<1>4. \A n \in 0..10 : n \in {0, 1, 2, 3, 4, 5, 6, 7, 8, 9, 10}
  OBVIOUS
<1>5. \A n \in 0..10 : p[n] \in Nat \ {0}
  BY <1>2, <1>4
<1>6. \A n \in 1..10 : p[n] = 2 * p[n - 1]
  BY <1>2, <1>4
<1> QED
  BY <1>1, <1>3, <1>5, <1>6

\* The distances of a reduction over a width: each half the one before, down to one.
LEMMA HalvingIs ==
    ASSUME NEW width, \E n \in 0..10 : width = 2^n
    PROVE  \E n \in 0..10 : \E w \in [0 .. n -> Nat \ {0}] :
              /\ w[0] = width /\ w[n] = 1 /\ \A k \in 1 .. n : w[k - 1] = 2 * w[k]
              /\ Halving(width) = [k \in 1 .. n |-> w[k]]
<1> DEFINE n == CHOOSE n \in 0..10 : width = 2^n
           p == [k \in 0..10 |-> 2^k]
           w == [k \in 0 .. n |-> p[n - k]]
<1>1. n \in 0..10 /\ width = 2^n
  OBVIOUS
<1>2. /\ p[0] = 1 /\ \A k \in 0..10 : p[k] \in Nat \ {0} /\ p[k] = 2^k
      /\ \A k \in 1..10 : p[k] = 2 * p[k - 1]
  BY PowersOfTwo
<1>3. Halving(width) = [k \in 1 .. n |-> width \div 2^k]
  BY DEF Halving
<1> HIDE DEF p, n
<1>4. w \in [0 .. n -> Nat \ {0}] /\ w[0] = width /\ w[n] = 1
  <2>1. n \in 0..10 /\ 0 \in 0 .. n /\ n \in 0 .. n /\ n - 0 = n /\ n - n = 0
    BY <1>1
  <2>2. \A k \in 0 .. n : n - k \in 0..10
    BY <2>1
  <2>3. p[n] = width /\ p[0] = 1
    BY <1>1, <1>2
  <2>4. \A k \in 0 .. n : p[n - k] \in Nat \ {0}
    BY <1>2, <2>2
  <2> QED
    BY <2>1, <2>3, <2>4
<1>5. \A k \in 0 .. n : w[k] = p[n - k]
  OBVIOUS
<1>6. ASSUME NEW k \in 1 .. n PROVE w[k - 1] = 2 * w[k]
  <2>1. k - 1 \in 0 .. n /\ k \in 0 .. n /\ n - (k - 1) \in 1..10 /\ (n - (k - 1)) - 1 = n - k
    BY <1>1
  <2> HIDE DEF w
  <2> QED
    BY <1>2, <1>5, <2>1
<1> HIDE DEF w
<1> DEFINE T == {k \in 0 .. n : p[k] * w[k] = width}
<1>7. \A k \in 0 .. n : k \in T
  <2>1. 0 \in T
    <3>1. 0 \in 0 .. n /\ p[0] = 1 /\ w[0] = width /\ w[0] \in Nat
      BY <1>1, <1>2, <1>4
    <3>2. p[0] * w[0] = width
      BY <3>1
    <3> QED
      BY <3>1, <3>2
  <2>2. ASSUME NEW k \in 0 .. n - 1, k \in T PROVE k + 1 \in T
    <3>1. k + 1 \in 1 .. n /\ k + 1 \in 0 .. n /\ (k + 1) - 1 = k /\ k + 1 \in 1..10 /\ k \in 0..10 /\ k \in 0 .. n
      BY <1>1
    <3>2. w[k] = 2 * w[k + 1] /\ p[k + 1] = 2 * p[k]
      BY <1>2, <1>6, <3>1
    <3>3. w[k + 1] \in Nat /\ p[k] \in Nat /\ p[k] * w[k] = width
      BY <1>2, <1>4, <2>2, <3>1
    <3>4. (2 * p[k]) * w[k + 1] = p[k] * (2 * w[k + 1])
      BY <3>3
    <3> QED
      BY <3>1, <3>2, <3>3, <3>4
  <2>3. n \in Nat
    BY <1>1
  <2> HIDE DEF T
  <2> QED
    BY <2>1, <2>2, <2>3, BoundedInduction
<1>8. ASSUME NEW k \in 1 .. n PROVE width \div 2^k = w[k]
  <2>1. k \in 0 .. n /\ k \in 0..10
    BY <1>1
  <2>2. p[k] * w[k] = width /\ p[k] = 2^k /\ p[k] \in Nat \ {0} /\ w[k] \in Nat
    BY <1>2, <1>4, <1>7, <2>1
  <2>3. \A a \in Nat \ {0}, b \in Nat : (a * b) \div a = b
    <3> SUFFICES ASSUME NEW a \in Nat \ {0}, NEW b \in Nat PROVE (a * b) \div a = b
      OBVIOUS
    <3>1. 0 \in 0 .. a - 1 /\ b * a + 0 = a * b
      OBVIOUS
    <3>2. (b * a + 0) \div a = b
      BY <3>1, RowAndColumn
    <3> QED
      BY <3>1, <3>2
  <2> QED
    BY <2>2, <2>3
<1>9. Halving(width) = [k \in 1 .. n |-> w[k]]
  BY <1>3, <1>8
<1> QED
  BY <1>1, <1>4, <1>6, <1>9

\* What a reduction adds up: how often terms are counted.
Tallies(T) == UNION {[X -> Nat] : X \in SUBSET T}

\* Sums of tallies are tallies.
LEMMA TalliesAdd ==
    ASSUME NEW T, NEW s \in Tallies(T), NEW t \in Tallies(T)
    PROVE  Add2(s, t) \in Tallies(T)
<1>1. PICK X \in SUBSET T : s \in [X -> Nat]
  BY DEF Tallies
<1>2. PICK Y \in SUBSET T : t \in [Y -> Nat]
  BY DEF Tallies
<1>3. DOMAIN s = X /\ DOMAIN t = Y /\ X \cup Y \in SUBSET T
  BY <1>1, <1>2
<1>4. Add2(s, t) = [x \in X \cup Y |-> (IF x \in X THEN s[x] ELSE 0) + (IF x \in Y THEN t[x] ELSE 0)]
  BY <1>3 DEF Add2
<1>5. \A x \in X \cup Y : (IF x \in X THEN s[x] ELSE 0) + (IF x \in Y THEN t[x] ELSE 0) \in Nat
  BY <1>1, <1>2
<1>6. Add2(s, t) \in [X \cup Y -> Nat]
  BY <1>4, <1>5
<1> QED
  BY <1>3, <1>6 DEF Tallies

\* So are the sums of a kernel.
LEMMA CountsAreTallies ==
    ASSUME NEW I, IsFiniteSet(I), NEW J \in SUBSET I, NEW f, NEW T, \A i \in I : f[i] \in T
    PROVE  CountOver(f, J) \in Tallies(T)
<1> DEFINE X == {f[i] : i \in J}
<1>1. X \in SUBSET T
  OBVIOUS
<1>2. ASSUME NEW t PROVE Cardinality({i \in J : f[i] = t}) \in Nat
  <2> DEFINE S == {i \in J : f[i] = t}
  <2>1. S \in SUBSET I
    OBVIOUS
  <2> HIDE DEF S
  <2>2. Cardinality(S) \in Nat
    BY <2>1, FS_Subset, FS_CardinalityType
  <2> QED
    BY <2>2 DEF S
<1>3. CountOver(f, J) \in [X -> Nat]
  BY <1>2 DEF CountOver
<1> QED
  BY <1>1, <1>3 DEF Tallies

\* Halves of a range of lanes.
LEMMA LanesMerge ==
    ASSUME NEW h \in Nat \ {0}, NEW t \in 0 .. h - 1, NEW l \in Nat
    PROVE  /\ (l % h = t) <=> (l % (2 * h) = t \/ l % (2 * h) = t + h)
           /\ t # t + h
<1> DEFINE d == 2 * h
           q == l \div d
           r == l % d
<1>1. q \in Nat /\ r \in 0 .. d - 1 /\ l = d * q + r
  <2>1. d \in Nat \ {0}
    OBVIOUS
  <2> HIDE DEF d
  <2> QED
    BY <2>1
<1> HIDE DEF q, r
<1>2. d * q = (2 * q) * h /\ (2 * q + 1) * h = (2 * q) * h + h /\ (2 * q) * h \in Nat /\ 2 * q \in Nat
  BY <1>1
<1>3. CASE r < h
  <2>1. r \in 0 .. h - 1
    BY <1>1, <1>3
  <2>2. ((2 * q) * h + r) % h = r
    BY <1>2, <2>1, RowAndColumn
  <2>3. l % h = r
    BY <1>1, <1>2, <2>2
  <2> QED
    BY <1>3, <2>1, <2>3 DEF r
<1>4. CASE r >= h
  <2> DEFINE s == r - h
  <2>1. s \in 0 .. h - 1 /\ r = s + h
    BY <1>1, <1>4
  <2>2. ((2 * q + 1) * h + s) % h = s
    <3> DEFINE u == 2 * q + 1
    <3>1. u \in Nat
      BY <1>2
    <3> HIDE DEF u
    <3>2. (u * h + s) % h = s
      BY <3>1, <2>1, RowAndColumn
    <3> QED
      BY <3>2 DEF u
  <2>3. l = (2 * q + 1) * h + s
    BY <1>1, <1>2, <2>1
  <2>4. l % h = s
    BY <2>2, <2>3
  <2> HIDE DEF s
  <2> QED
    BY <1>4, <2>1, <2>4 DEF r
<1> QED
  BY <1>1, <1>3, <1>4

\* The lanes of a warp add up all they have: what is left in lane 0 counts every term of every
\* lane once.
LEMMA WarpAddsUp ==
    ASSUME NEW I, IsFiniteSet(I), NEW lane \in [I -> 0 .. WARP - 1], NEW f
    PROVE  ShuffleDown([t \in 0 .. WARP - 1 |-> CountOver(f, {i \in I : lane[i] = t})]) = CountOver(f, I)
<1>1. \E n \in 0..10 : WARP = 2^n
  BY ThreadsAssumption
<1>2. PICK n \in 0..10 : \E w \in [0 .. n -> Nat \ {0}] :
              /\ w[0] = WARP /\ w[n] = 1 /\ \A k \in 1 .. n : w[k - 1] = 2 * w[k]
              /\ Halving(WARP) = [k \in 1 .. n |-> w[k]]
  BY <1>1, HalvingIs
<1>3. PICK w \in [0 .. n -> Nat \ {0}] :
              /\ w[0] = WARP /\ w[n] = 1 /\ \A k \in 1 .. n : w[k - 1] = 2 * w[k]
              /\ Halving(WARP) = [k \in 1 .. n |-> w[k]]
  BY <1>2
<1> DEFINE Lanes == 0 .. WARP - 1
           of(h, t) == {i \in I : lane[i] % h = t}
           base == [t \in Lanes |-> CountOver(f, {i \in I : lane[i] = t})]
           T == {f[i] : i \in I}
           D == [Lanes -> Tallies(T)]
           S == 1 .. n
           fold(s, h) == [t \in DOMAIN s |-> Add2(s[t], IF t + h < WARP THEN s[t + h] ELSE s[t])]
           step == [p \in S \X D |-> fold(p[2], w[p[1]])]
           q == Halving(WARP)
           Eq2(g) == g = [s \in SUBSET S |-> IF s = {} THEN base ELSE fold(g[s \ {Max(s)}], q[Max(s)])]
           it == CHOOSE z : Eq2(z)
<1>4. n \in Nat /\ WARP \in Nat \ {0} /\ DOMAIN q = S /\ \A k \in S : q[k] = w[k] /\ w[k] \in Nat \ {0}
  BY <1>3
<1>5. base \in D
  <2>1. \A J \in SUBSET I : CountOver(f, J) \in Tallies(T)
    BY CountsAreTallies
  <2> HIDE DEF T
  <2> QED
    BY <2>1
<1>6. ASSUME NEW s \in D, NEW h \in Nat PROVE fold(s, h) \in D
  <2>1. DOMAIN s = Lanes /\ \A t \in Lanes : s[t] \in Tallies(T)
    OBVIOUS
  <2>2. ASSUME NEW t \in Lanes PROVE Add2(s[t], IF t + h < WARP THEN s[t + h] ELSE s[t]) \in Tallies(T)
    <3>1. t + h < WARP => t + h \in Lanes
      BY <1>4
    <3>2. s[t] \in Tallies(T) /\ (IF t + h < WARP THEN s[t + h] ELSE s[t]) \in Tallies(T)
      BY <2>1, <3>1
    <3> HIDE DEF T
    <3> QED
      BY <3>2, TalliesAdd
  <2> HIDE DEF T, Lanes
  <2> QED
    BY <2>1, <2>2
<1>7. step \in [S \X D -> D]
  <2>1. ASSUME NEW p \in S \X D PROVE fold(p[2], w[p[1]]) \in D
    <3>1. p[1] \in S /\ p[2] \in D
      OBVIOUS
    <3>2. w[p[1]] \in Nat
      BY <1>4, <3>1
    <3> HIDE DEF fold, D
    <3> QED
      BY <1>6, <3>1, <3>2
  <2> HIDE DEF fold, D, S
  <2> QED
    BY <2>1
<1>8. PICK g \in [SUBSET S -> D] : IsLeftFold(g, base, step, S)
  <2> HIDE DEF base, D, step
  <2> QED
    BY <1>4, <1>5, <1>7, LeftFoldExists
<1>9. Eq2(g)
  <2>1. g = [s \in SUBSET S |-> g[s]] /\ g[{}] = base
    BY <1>8 DEF IsLeftFold
  <2>2. ASSUME NEW s \in SUBSET S, s # {} PROVE g[s] = fold(g[s \ {Max(s)}], q[Max(s)])
    <3>1. Max(s) \in S
      BY <1>4, <2>2, Segments
    <3>2. g[s \ {Max(s)}] \in D
      BY <1>8
    <3>3. g[s] = step[<<Max(s), g[s \ {Max(s)}]>>]
      BY <1>8, <2>2 DEF IsLeftFold
    <3>4. q[Max(s)] = w[Max(s)]
      BY <1>4, <3>1
    <3> HIDE DEF fold, D, S, base
    <3>5. step[<<Max(s), g[s \ {Max(s)}]>>] = fold(g[s \ {Max(s)}], w[Max(s)])
      BY <3>1, <3>2
    <3> HIDE DEF step, q
    <3> QED
      BY <3>3, <3>4, <3>5
  <2> HIDE DEF fold, S, base, q
  <2> QED
    BY <2>1, <2>2
<1>10. Eq2(it)
  <2> HIDE DEF Eq2
  <2> QED
    BY <1>9
<1>11. ShuffleDown(base) = it[S][0]
  <2>1. ShuffleDown(base) = (CHOOSE z : z = [s \in SUBSET DOMAIN q |->
                               IF s = {} THEN base ELSE fold(z[s \ {Max(s)}], q[Max(s)])])[DOMAIN q][0]
    BY DEF ShuffleDown, FoldLeft, MapThenFoldSet
  <2> HIDE DEF fold, base, q, S
  <2> QED
    BY <1>4, <2>1
<1> HIDE DEF it
<1>12. 1 .. 0 = {} /\ \A k \in 1 .. n : /\ 1 .. k \in SUBSET S /\ 1 .. k # {}
                                        /\ Max(1 .. k) = k /\ (1 .. k) \ {k} = 1 .. k - 1
  BY <1>4, Segments
<1> DEFINE h == [k \in 0 .. n |-> it[1 .. k]]
<1>13. h[0] = base /\ h[n] = it[S]
  <2>1. 0 \in 0 .. n /\ n \in 0 .. n /\ {} \in SUBSET S
    BY <1>4
  <2>2. it[{}] = base
    <3> HIDE DEF base, fold, q, S
    <3> QED
      BY <1>10, <2>1
  <2> HIDE DEF base, fold, q
  <2> QED
    BY <1>12, <2>1, <2>2
<1>14. ASSUME NEW k \in 1 .. n PROVE h[k] = fold(h[k - 1], w[k])
  <2>1. it[1 .. k] = fold(it[1 .. k - 1], q[k])
    <3> DEFINE s == 1 .. k
    <3>1. s \in SUBSET S /\ s # {} /\ Max(s) = k /\ s \ {Max(s)} = 1 .. k - 1
      BY <1>12
    <3> HIDE DEF base, fold, q, S, s
    <3>2. it[s] = fold(it[s \ {Max(s)}], q[Max(s)])
      BY <1>10, <3>1
    <3>3. it[s] = fold(it[1 .. k - 1], q[k])
      BY <3>1, <3>2
    <3> QED
      BY <3>3 DEF s
  <2>2. k \in 0 .. n /\ k - 1 \in 0 .. n /\ q[k] = w[k]
    BY <1>4
  <2> HIDE DEF fold, q
  <2> QED
    BY <2>1, <2>2
<1> HIDE DEF h
<1> DEFINE Summed(k) == /\ w[k] <= WARP /\ DOMAIN h[k] = Lanes
                        /\ \A t \in 0 .. w[k] - 1 : h[k][t] = CountOver(f, of(w[k], t))
           U == {k \in 0 .. n : Summed(k)}
<1>15. 0 \in U
  <2>1. w[0] = WARP /\ h[0] = base /\ DOMAIN base = Lanes
    BY <1>3, <1>13
  <2>2. ASSUME NEW t \in Lanes PROVE {i \in I : lane[i] = t} = of(WARP, t)
    <3>1. ASSUME NEW i \in I PROVE lane[i] % WARP = lane[i]
      <4>1. lane[i] \in 0 .. WARP - 1
        OBVIOUS
      <4> DEFINE l == lane[i]
      <4> HIDE DEF l
      <4>2. l \in 0 .. WARP - 1 => l % WARP = l
        <5> SUFFICES ASSUME l \in 0 .. WARP - 1 PROVE l % WARP = l
          OBVIOUS
        <5>1. (0 * WARP + l) % WARP = l
          BY <1>4, RowAndColumn
        <5>2. 0 * WARP + l = l
          BY <1>4
        <5> QED
          BY <5>1, <5>2
      <4> QED
        BY <4>1, <4>2 DEF l
    <3> QED
      BY <3>1
  <2>3. \A t \in Lanes : base[t] = CountOver(f, of(WARP, t))
    BY <2>2
  <2> HIDE DEF base, of
  <2> QED
    BY <1>4, <2>1, <2>3
<1>16. ASSUME NEW k \in 0 .. n - 1, k \in U PROVE k + 1 \in U
  <2> DEFINE d == w[k + 1]
  <2>1. k + 1 \in 1 .. n /\ k + 1 \in 0 .. n /\ (k + 1) - 1 = k
    BY <1>4
  <2>2. w[k] = 2 * d /\ d \in Nat \ {0}
    BY <1>3, <1>4, <2>1
  <2>3. h[k + 1] = fold(h[k], d)
    BY <1>14, <2>1
  <2> HIDE DEF d, fold
  <2>4. d <= WARP /\ Summed(k)
    BY <1>4, <1>16, <2>2
  <2>5. h[k + 1] = [t \in Lanes |-> Add2(h[k][t], IF t + d < WARP THEN h[k][t + d] ELSE h[k][t])]
    BY <2>3, <2>4 DEF fold
  <2>6. ASSUME NEW t \in 0 .. d - 1 PROVE h[k + 1][t] = CountOver(f, of(d, t))
    <3>1. t \in Lanes /\ t + d < WARP /\ t \in 0 .. 2 * d - 1 /\ t + d \in 0 .. 2 * d - 1
      BY <1>4, <2>2, <2>4
    <3>2. h[k + 1][t] = Add2(h[k][t], h[k][t + d])
      BY <2>5, <3>1
    <3>3. h[k][t] = CountOver(f, of(2 * d, t)) /\ h[k][t + d] = CountOver(f, of(2 * d, t + d))
      BY <2>2, <2>4, <3>1
    <3>4. ASSUME NEW i \in I
          PROVE  (lane[i] % d = t) <=> (lane[i] % (2 * d) = t \/ lane[i] % (2 * d) = t + d)
      <4>1. lane[i] \in Nat
        BY <1>4
      <4> QED
        BY <2>2, <4>1, LanesMerge
    <3>5. of(d, t) = of(2 * d, t) \cup of(2 * d, t + d)
      BY <3>4
    <3>6. t # t + d
      BY <2>2
    <3>7. of(2 * d, t) \cap of(2 * d, t + d) = {}
      BY <3>6
    <3>8. IsFiniteSet(of(2 * d, t)) /\ IsFiniteSet(of(2 * d, t + d))
      BY FS_Subset
    <3> HIDE DEF of
    <3>9. Add2(CountOver(f, of(2 * d, t)), CountOver(f, of(2 * d, t + d))) = CountOver(f, of(d, t))
      BY <3>5, <3>7, <3>8, MergeCounts
    <3> QED
      BY <3>2, <3>3, <3>9
  <2>7. DOMAIN h[k + 1] = Lanes
    BY <2>5
  <2>8. Summed(k + 1)
    <3> HIDE DEF of, Lanes
    <3> QED
      BY <2>4, <2>6, <2>7 DEF d
  <2> HIDE DEF Summed
  <2> QED
    BY <2>1, <2>8
<1>17. n \in U
  <2>1. n \in Nat /\ n \in 0 .. n
    BY <1>4
  <2> HIDE DEF U
  <2>2. \A k \in 0 .. n : k \in U
    BY <2>1, <1>15, <1>16, BoundedInduction
  <2> QED
    BY <2>1, <2>2
<1>18. h[n][0] = CountOver(f, of(1, 0))
  BY <1>3, <1>17
<1>19. of(1, 0) = I
  <2>1. ASSUME NEW i \in I PROVE lane[i] % 1 = 0
    <3> DEFINE l == lane[i]
    <3>1. l \in Nat
      BY <1>4
    <3> HIDE DEF l
    <3>2. l % 1 = 0
      BY <3>1
    <3> QED
      BY <3>2 DEF l
  <2> QED
    BY <2>1
<1> HIDE DEF of
<1> QED
  BY <1>11, <1>13, <1>18, <1>19
-----------------------------------------------------------------------------
(* Products with stored weights.                                           *)

\* What is read of weight (p, j) of n columns and multiplied with activation p.
Term(a, n, p, j) ==
    <<p, Weight(Matrix(0, n, 1), a, p, j), IF Blocked(a) THEN (p \div BlockRows(a)) * n + j ELSE j>>

\* The product of a row of activations and column j.
Column(a, k, n, j) == CountOver([p \in 0 .. k - 1 |-> Term(a, n, p, j)], 0 .. k - 1)

\* How weights of four bits, or of eight bits with one scale for a column, are described.
Attributes(a) ==
    /\ a.quant_type \in {"Int8", "Int4"} /\ a.block_size \in Nat
    /\ a.quant_type = "Int8" => a.block_size = 0

\* The elements of a matrix without gaps and of its first row.
LEMMA EntriesOf ==
    ASSUME NEW k \in Nat, NEW n \in Nat, NEW p \in Int, NEW j \in Int
    PROVE  Entry(Matrix(0, k, 1), 0, p) = p /\ Entry(Matrix(0, n, 1), p, j) = p * n + j
<1> DEFINE q == p * n
<1>1. q \in Int
  OBVIOUS
<1>2. Entry(Matrix(0, k, 1), 0, p) = 0 + 0 * k + p * 1
  BY DEF Entry, Matrix
<1>3. Entry(Matrix(0, n, 1), p, j) = 0 + q + j * 1
  BY DEF Entry, Matrix
<1> HIDE DEF q
<1>4. 0 + q + j * 1 = q + j /\ 0 + 0 * k + p * 1 = p
  BY <1>1
<1> QED
  BY <1>2, <1>3, <1>4 DEF q

\* The rows of a block are rows of the matrix.
LEMMA RowsOfABlock ==
    ASSUME NEW k \in Nat, NEW a, a.block_size \in Nat, NEW x \in QuantBlocks(k, a)
    PROVE  RowsOf(x, k, a) \in SUBSET (0 .. k - 1) /\ x \in Nat /\ BlockRows(a) \in Nat \ {0}
<1> DEFINE B == BlockRows(a)
           y == x * B
<1>1. B \in Nat \ {0} /\ x \in Nat
  BY QuantizedAssumption DEF BlockRows, QuantBlocks
<1>2. y \in Nat
  BY <1>1
<1>3. RowsOf(x, k, a) = y .. Least(k, y + B) - 1
  BY DEF RowsOf
<1> HIDE DEF B, y
<1>4. y .. Least(k, y + B) - 1 \in SUBSET (0 .. k - 1)
  BY <1>1, <1>2 DEF Least
<1> QED
  BY <1>1, <1>3, <1>4 DEF B

\* The scalar code computes the product.
LEMMA ReferenceIsColumn ==
    ASSUME NEW k \in Nat, NEW n \in Nat, NEW a, Attributes(a), NEW j \in Int
    PROVE  QuantizedReference(Matrix(0, k, 1), Matrix(0, n, 1), a, k, n, 0, j) = Column(a, k, n, j)
<1> DEFINE K == 0 .. k - 1
           act == Matrix(0, k, 1)
           b == Matrix(0, n, 1)
           g == [p \in K |-> Term(a, n, p, j)]
<1>1. \A p \in K : Entry(act, 0, p) = p
  BY EntriesOf
<1> HIDE DEF act
<1>2. CASE Blocked(a)
  <2> DEFINE U == UNION {{<<x, p>> : p \in RowsOf(x, k, a)} : x \in QuantBlocks(k, a)}
             f == [z \in U |-> <<Entry(act, 0, z[2]), Weight(b, a, z[2], j), z[1] * n + j>>]
             r == [p \in K |-> <<p \div BlockRows(a), p>>]
  <2>1. QuantizedReference(act, b, a, k, n, 0, j) = CountOver(f, U)
    BY <1>2 DEF QuantizedReference, SumOf, CountOver
  <2>2. a.block_size \in Nat
    BY DEF Attributes
  <2>3. ASSUME NEW p \in K PROVE r[p] \in U /\ f[r[p]] = g[p]
    <3>1. p \div BlockRows(a) \in QuantBlocks(k, a) /\ p \in RowsOf(p \div BlockRows(a), k, a)
      BY <2>2, RowsDivide
    <3>2. r[p] = <<p \div BlockRows(a), p>> /\ r[p] \in U
      BY <3>1
    <3>3. g[p] = <<p, Weight(b, a, p, j), (p \div BlockRows(a)) * n + j>>
      BY <1>2 DEF Term
    <3> HIDE DEF U, b, r
    <3>4. f[r[p]] = <<Entry(act, 0, p), Weight(b, a, p, j), (p \div BlockRows(a)) * n + j>>
      BY <3>2
    <3> QED
      BY <1>1, <3>2, <3>3, <3>4
  <2>4. ASSUME NEW z \in U PROVE \E p \in K : r[p] = z
    <3>1. PICK x \in QuantBlocks(k, a) : \E p \in RowsOf(x, k, a) : z = <<x, p>>
      OBVIOUS
    <3>2. PICK p \in RowsOf(x, k, a) : z = <<x, p>>
      BY <3>1
    <3>3. p \in K
      BY <2>2, RowsOfABlock
    <3>4. x = p \div BlockRows(a)
      BY <2>2, <3>3, RowsDivide
    <3> QED
      BY <3>2, <3>3, <3>4
  <2>5. \A p, q \in K : r[p] = r[q] => p = q
    OBVIOUS
  <2>6. r \in [K -> U] /\ IsFiniteSet(K)
    <3>1. k - 1 \in Int
      OBVIOUS
    <3>2. IsFiniteSet(K)
      BY <3>1, FS_Interval
    <3>3. r = [p \in K |-> r[p]]
      OBVIOUS
    <3>4. \A p \in K : r[p] \in U
      BY <2>3
    <3> HIDE DEF U, K, r
    <3> QED
      BY <3>2, <3>3, <3>4
  <2> HIDE DEF r, f, g, U, K
  <2>7. CountOver(g, K) = CountOver(f, U)
    BY <2>3, <2>4, <2>5, <2>6, RenamedCounts
  <2> QED
    BY <2>1, <2>7 DEF Column, act, b, g, K
<1>3. CASE ~ Blocked(a)
  <2> DEFINE f == [p \in K |-> <<Entry(act, 0, p), Weight(b, a, p, j), j>>]
  <2>1. QuantizedReference(act, b, a, k, n, 0, j) = CountOver(f, K)
    BY <1>3 DEF QuantizedReference, SumOf, CountOver
  <2>2. \A p \in K : f[p] = g[p]
    BY <1>1, <1>3 DEF Term
  <2>3. f = g
    BY <2>2
  <2> QED
    BY <2>1, <2>3 DEF Column, act
<1> QED
  BY <1>2, <1>3

\* What is read of eight-bit weights.
LEMMA BytesRead ==
    ASSUME NEW n \in Nat, NEW a, Attributes(a), a.quant_type = "Int8", NEW p \in Int, NEW j \in Int
    PROVE  Term(a, n, p, j) = <<p, <<p * n + j, "byte">>, j>>
<1>1. ~ Blocked(a)
  BY DEF Attributes, Blocked
<1>2. Entry(Matrix(0, n, 1), p, j) = p * n + j
  BY EntriesOf
<1> QED
  BY <1>1, <1>2 DEF Term, Weight

\* So does the code for a single row, in loops over columns.
LEMMA DecodeIsColumn ==
    ASSUME NEW k \in Nat, NEW n \in Nat, NEW a, Attributes(a), a.quant_type = "Int8", NEW j \in 0 .. n - 1,
           NEW avx2 \in BOOLEAN
    PROVE  DecodeRow(Matrix(0, k, 1), Matrix(0, n, 1), k, n, j, avx2) = Column(a, k, n, j)
<1> DEFINE K == 0 .. k - 1
           act == Matrix(0, k, 1)
           b == Matrix(0, n, 1)
           g == [p \in K |-> Term(a, n, p, j)]
<1>1. ASSUME NEW w, Falling(w) PROVE DecodeStream(act, b, k, n, j, w) = Column(a, k, n, j)
  <2> DEFINE U == Updates(n, CHUNK, w, k, j)
             f == [x \in U |-> <<act.base + x[3], <<b.base + x[3] * b.row + j, "byte">>, j>>]
  <2>1. DecodeStream(act, b, k, n, j, w) = CountOver(f, U)
    BY DEF DecodeStream, SumOf, CountOver, Updates
  <2>2. ASSUME NEW x \in U PROVE f[x] = g[x[3]]
    <3>1. x[3] \in K
      BY DEF Updates
    <3>2. f[x] = <<0 + x[3], <<0 + x[3] * n + j, "byte">>, j>>
      BY DEF Matrix
    <3>3. ASSUME NEW p \in K PROVE g[p] = <<0 + p, <<0 + p * n + j, "byte">>, j>>
      <4>1. g[p] = <<p, <<p * n + j, "byte">>, j>>
        BY BytesRead
      <4> DEFINE q == p * n
      <4>2. q \in Int
        OBVIOUS
      <4>3. g[p] = <<p, <<q + j, "byte">>, j>>
        BY <4>1
      <4> HIDE DEF q, g
      <4>4. 0 + p = p /\ 0 + q + j = q + j
        BY <4>2
      <4>5. g[p] = <<0 + p, <<0 + q + j, "byte">>, j>>
        BY <4>3, <4>4
      <4> QED
        BY <4>5 DEF q
    <3> HIDE DEF f, g, K
    <3> QED
      BY <3>1, <3>2, <3>3
  <2>3. Falling(w)
    BY <1>1
  <2>4. CHUNK \in Nat \ {0}
    BY QuantizedAssumption
  <2>5. CountOver(f, U) = CountOver(g, 0 .. k - 1)
    <3>1. AddsRows(f, g, Updates(n, CHUNK, w, k, j))
      BY <2>2 DEF AddsRows
    <3> HIDE DEF f, g
    <3> QED
      BY <2>3, <2>4, <3>1, StreamedOnce
  <2> QED
    BY <2>1, <2>5 DEF Column
<1> HIDE DEF act, b
<1>2. DecodeRow(act, b, k, n, j, avx2) = DecodeStream(act, b, k, n, j, IF avx2 THEN <<LANES, 1>> ELSE <<1>>)
  BY DEF DecodeRow, DecodeStreamAvx2
<1>3. Falling(IF avx2 THEN <<LANES, 1>> ELSE <<1>>)
  BY WidthsFall
<1> QED
  BY <1>1, <1>2, <1>3 DEF act, b

\* A sum only depends on the terms it has.
LEMMA CountsAgree ==
    ASSUME NEW I, NEW f, NEW g, \A i \in I : f[i] = g[i]
    PROVE  CountOver(f, I) = CountOver(g, I)
<1>1. {f[i] : i \in I} = {g[i] : i \in I}
  OBVIOUS
<1>2. \A t : {i \in I : f[i] = t} = {i \in I : g[i] = t}
  OBVIOUS
<1> QED
  BY <1>1, <1>2 DEF CountOver

\* The first element of a row.
LEMMA ColumnOfRow ==
    ASSUME NEW n \in Nat, NEW j \in 0 .. n - 1
    PROVE  j % n = j /\ j \div n = 0
<1>1. n \in Nat \ {0}
  OBVIOUS
<1>2. (0 * n + j) % n = j /\ (0 * n + j) \div n = 0
  BY <1>1, RowAndColumn
<1>3. 0 * n + j = j
  OBVIOUS
<1> QED
  BY <1>2, <1>3

\* A warp computes the product with eight-bit weights.
LEMMA GemvInt8IsColumn ==
    ASSUME NEW k \in Nat, NEW n \in Nat, NEW j \in 0 .. n - 1, NEW a, Attributes(a), a.quant_type = "Int8"
    PROVE  GemvInt8(k, n, j) = Column(a, k, n, j)
<1> DEFINE K == 0 .. k - 1
           g == [p \in K |-> Term(a, n, p, j)]
           lane == [p \in K |-> p % WARP]
           term(t) == [p \in Strided(t, k, WARP) |-> <<0 * k + p, <<p * n + j, "byte">>, j>>]
<1>1. j % n = j /\ j \div n = 0
  BY ColumnOfRow
<1>2. GemvInt8(k, n, j) = ShuffleDown([t \in 0 .. WARP - 1 |-> CountOver(term(t), Strided(t, k, WARP))])
  <2> DEFINE warp(row, col) ==
               ShuffleDown([t \in 0 .. WARP - 1 |->
                 CountOver([p \in Strided(t, k, WARP) |-> <<row * k + p, <<p * n + col, "byte">>, col>>],
                           Strided(t, k, WARP))])
  <2>1. GemvInt8(k, n, j) = warp(j \div n, j % n)
    BY DEF GemvInt8, SumOf, CountOver
  <2> HIDE DEF warp
  <2>2. GemvInt8(k, n, j) = warp(0, j)
    BY <1>1, <2>1
  <2> QED
    BY <2>2 DEF warp
<1>3. \E e \in 0..10 : WARP = 2^e
  BY ThreadsAssumption
<1>4. WARP \in Nat \ {0}
  BY <1>3, PowersOfTwo
<1>5. lane \in [K -> 0 .. WARP - 1] /\ IsFiniteSet(K)
  <2>1. \A p \in K : p % WARP \in 0 .. WARP - 1
    BY <1>4
  <2>2. k - 1 \in Int
    OBVIOUS
  <2> QED
    BY <2>1, <2>2, FS_Interval
<1>6. ASSUME NEW t \in 0 .. WARP - 1
      PROVE  CountOver(term(t), Strided(t, k, WARP)) = CountOver(g, {p \in K : lane[p] = t})
  <2>1. Strided(t, k, WARP) = {p \in K : lane[p] = t}
    BY DEF Strided
  <2>2. ASSUME NEW p \in Strided(t, k, WARP) PROVE term(t)[p] = g[p]
    <3>1. p \in K
      BY DEF Strided
    <3>2. g[p] = <<p, <<p * n + j, "byte">>, j>>
      BY <3>1, BytesRead
    <3>3. 0 * k + p = p
      BY <3>1
    <3>4. term(t)[p] = <<0 * k + p, <<p * n + j, "byte">>, j>>
      OBVIOUS
    <3> HIDE DEF g, term
    <3> QED
      BY <3>2, <3>3, <3>4
  <2> HIDE DEF g, term, lane, K
  <2> QED
    BY <2>1, <2>2, CountsAgree
<1>7. [t \in 0 .. WARP - 1 |-> CountOver(term(t), Strided(t, k, WARP))]
        = [t \in 0 .. WARP - 1 |-> CountOver(g, {p \in K : lane[p] = t})]
  <2> HIDE DEF g, term, lane, K
  <2> QED
    BY <1>6
<1> HIDE DEF g, term, lane, K
<1>8. ShuffleDown([t \in 0 .. WARP - 1 |-> CountOver(g, {p \in K : lane[p] = t})]) = CountOver(g, K)
  BY <1>5, WarpAddsUp
<1> QED
  BY <1>2, <1>7, <1>8 DEF Column, g, K

\* And, block by block, with four-bit weights.
LEMMA GemvInt4IsColumn ==
    ASSUME NEW k \in Nat, NEW n \in Nat, NEW j \in 0 .. n - 1, NEW a, Attributes(a), a.quant_type = "Int4"
    PROVE  GemvInt4(Matrix(0, n, 1), a, k, n, j) = Column(a, k, n, j)
<1> DEFINE K == 0 .. k - 1
           g == [p \in K |-> Term(a, n, p, j)]
           Z == QuantBlocks(k, a)
           b == Matrix(0, n, 1)
           lane(x, t) == {p \in RowsOf(x, k, a) : (p - x * BlockRows(a)) % WARP = t}
           term(x, t) == [p \in lane(x, t) |-> <<0 * k + p, Weight(b, a, p, j), x * n + j>>]
           block(x) == ShuffleDown([t \in 0 .. WARP - 1 |-> CountOver(term(x, t), lane(x, t))])
           part == [x \in Z |-> RowsOf(x, k, a)]
           v == [x \in Z |-> block(x)]
           pick == [s \in SUBSET Z |-> AnyOf(s)]
           Eq(f) == f = [s \in SUBSET Z |-> IF s = {} THEN Zero ELSE Add2(f[s \ {pick[s]}], v[pick[s]])]
           Eq2(f) == f = [s \in SUBSET Z |-> IF s = {} THEN Zero ELSE Add2(f[s \ {AnyOf(s)}], block(AnyOf(s)))]
           it == CHOOSE f : Eq(f)
<1>1. j % n = j /\ j \div n = 0
  BY ColumnOfRow
<1>2. a.block_size \in Nat /\ Blocked(a)
  BY DEF Attributes, Blocked
<1>3. GemvInt4(b, a, k, n, j) = (CHOOSE f : Eq2(f))[Z]
  <2> DEFINE blocks(row, col, x) ==
               ShuffleDown([t \in 0 .. WARP - 1 |->
                 CountOver([p \in lane(x, t) |-> <<row * k + p, Weight(b, a, p, col), x * n + col>>], lane(x, t))])
             Eq3(row, col, f) == f = [s \in SUBSET Z |-> IF s = {} THEN Zero
                                                  ELSE Add2(f[s \ {AnyOf(s)}], blocks(row, col, AnyOf(s)))]
             all(row, col) == (CHOOSE f : Eq3(row, col, f))[Z]
  <2>1. GemvInt4(b, a, k, n, j) = all(j \div n, j % n)
    BY DEF GemvInt4, SumOf, CountOver, FoldSet, MapThenFoldSet, AnyOf
  <2> HIDE DEF all
  <2>2. GemvInt4(b, a, k, n, j) = all(0, j)
    BY <1>1, <2>1
  <2> QED
    BY <2>2 DEF all
<1>4. \E e \in 0..10 : WARP = 2^e
  BY ThreadsAssumption
<1>5. WARP \in Nat \ {0}
  BY <1>4, PowersOfTwo
<1>6. IsFiniteSet(K) /\ IsFiniteSet(Z)
  <2>1. k - 1 \in Int /\ CeilDiv(k, BlockRows(a)) - 1 \in Int
    BY QuantizedAssumption, <1>2 DEF CeilDiv, BlockRows
  <2> QED
    BY <2>1, FS_Interval DEF QuantBlocks
<1>7. ASSUME NEW x \in Z
      PROVE  /\ RowsOf(x, k, a) \in SUBSET K /\ IsFiniteSet(RowsOf(x, k, a))
             /\ \A p \in RowsOf(x, k, a) : x = p \div BlockRows(a) /\ p - x * BlockRows(a) \in Nat
  <2>1. RowsOf(x, k, a) \in SUBSET K
    BY <1>2, RowsOfABlock
  <2>2. IsFiniteSet(RowsOf(x, k, a))
    BY <1>6, <2>1, FS_Subset
  <2>3. ASSUME NEW p \in RowsOf(x, k, a) PROVE x = p \div BlockRows(a) /\ p - x * BlockRows(a) \in Nat
    <3>1. p \in K
      BY <2>1
    <3>2. x = p \div BlockRows(a)
      BY <1>2, <3>1, RowsDivide
    <3> DEFINE y == x * BlockRows(a)
    <3>3. y \in Nat
      BY <1>2, RowsOfABlock
    <3>4. p \in y .. Least(k, y + BlockRows(a)) - 1
      BY DEF RowsOf
    <3> HIDE DEF y
    <3>5. p - y \in Nat
      BY <3>1, <3>3, <3>4
    <3> QED
      BY <3>2, <3>5 DEF y
  <2> QED
    BY <2>1, <2>2, <2>3
<1>8. ASSUME NEW x \in Z PROVE block(x) = CountOver(g, RowsOf(x, k, a))
  <2> DEFINE R == RowsOf(x, k, a)
             l == [p \in R |-> (p - x * BlockRows(a)) % WARP]
  <2>1. l \in [R -> 0 .. WARP - 1] /\ IsFiniteSet(R)
    <3>1. \A p \in R : (p - x * BlockRows(a)) % WARP \in 0 .. WARP - 1
      <4>1. ASSUME NEW p \in R PROVE (p - x * BlockRows(a)) % WARP \in 0 .. WARP - 1
        <5> DEFINE d == p - x * BlockRows(a)
        <5>1. d \in Nat
          BY <1>7
        <5> HIDE DEF d
        <5>2. d % WARP \in 0 .. WARP - 1
          BY <1>5, <5>1
        <5> QED
          BY <5>2 DEF d
      <4> QED
        BY <4>1
    <3> QED
      BY <1>7, <3>1
  <2>2. ASSUME NEW t \in 0 .. WARP - 1 PROVE CountOver(term(x, t), lane(x, t)) = CountOver(g, {p \in R : l[p] = t})
    <3>1. lane(x, t) = {p \in R : l[p] = t}
      OBVIOUS
    <3>2. ASSUME NEW p \in lane(x, t) PROVE term(x, t)[p] = g[p]
      <4>1. p \in K /\ x = p \div BlockRows(a)
        BY <1>7
      <4>2. g[p] = <<p, Weight(b, a, p, j), (p \div BlockRows(a)) * n + j>>
        BY <1>2, <4>1 DEF Term
      <4>3. 0 * k + p = p
        BY <4>1
      <4>4. term(x, t)[p] = <<0 * k + p, Weight(b, a, p, j), x * n + j>>
        OBVIOUS
      <4> HIDE DEF g, term, lane, b
      <4> QED
        BY <4>1, <4>2, <4>3, <4>4
    <3> HIDE DEF g, term, l, K, R, lane
    <3> QED
      BY <3>1, <3>2, CountsAgree
  <2>3. block(x) = ShuffleDown([t \in 0 .. WARP - 1 |-> CountOver(g, {p \in R : l[p] = t})])
    <3> HIDE DEF g, term, l, K, R, lane
    <3> QED
      BY <2>2
  <2> HIDE DEF g, l, K, R, block
  <2>4. ShuffleDown([t \in 0 .. WARP - 1 |-> CountOver(g, {p \in R : l[p] = t})]) = CountOver(g, R)
    BY <2>1, WarpAddsUp
  <2> QED
    BY <2>3, <2>4 DEF R
<1>9. \A s \in SUBSET Z : s # {} => pick[s] = AnyOf(s) /\ pick[s] \in s /\ v[pick[s]] = block(AnyOf(s))
  <2>1. \A s \in SUBSET Z : s # {} => AnyOf(s) \in Z /\ AnyOf(s) \in s
    BY DEF AnyOf
  <2> HIDE DEF block, Z
  <2> QED
    BY <2>1
<1>10. \A f : Eq(f) <=> Eq2(f)
  <2> HIDE DEF block, v, pick, Z
  <2> QED
    BY <1>9
<1>11. it = CHOOSE f : Eq2(f)
  <2> HIDE DEF Eq, Eq2
  <2> QED
    BY <1>10
<1>12. SumsOfParts(v, g, part, K, Z)
  <2>1. part \in [Z -> SUBSET K] /\ \A y, z \in Z : y # z => part[y] \cap part[z] = {}
    BY <1>7
  <2>2. \A x \in Z : v[x] = CountOver(g, part[x])
    <3> HIDE DEF block, g
    <3> QED
      BY <1>8
  <2> HIDE DEF v, g, part, K, Z
  <2> QED
    BY <2>1, <2>2 DEF SumsOfParts
<1>13. it[Z] = CountOver(g, UNION {part[z] : z \in Z})
  <2>1. AddsUp(it, v, pick, Z)
    BY DEF AddsUp
  <2>2. Picks(pick, Z)
    <3> HIDE DEF pick, Z, v, block
    <3> QED
      BY <1>9 DEF Picks
  <2> HIDE DEF part, Z, K, g, it, v, pick
  <2> QED
    BY <1>6, <1>12, <2>1, <2>2, FoldedParts
<1>14. UNION {part[z] : z \in Z} = K
  <2>1. UNION {part[z] : z \in Z} \subseteq K
    BY <1>7
  <2>2. ASSUME NEW p \in K PROVE p \in UNION {part[z] : z \in Z}
    <3>1. p \div BlockRows(a) \in Z /\ p \in RowsOf(p \div BlockRows(a), k, a)
      BY <1>2, RowsDivide
    <3> HIDE DEF Z
    <3> QED
      BY <3>1
  <2> QED
    BY <2>1, <2>2
<1> HIDE DEF it, Eq2, g, K, b, part
<1> QED
  BY <1>3, <1>11, <1>13, <1>14 DEF Column, g, K, b
-----------------------------------------------------------------------------
(* The calls that make them.                                               *)

\* Products and sums of no numbers, and of one.
LEMMA SmallFolds ==
    Product(<<>>) = 1 /\ Total(<<>>) = 0 /\ \A n \in Int : Product(<<n>>) = n
<1>1. Product(<<>>) = 1
  <2> DEFINE Eq(g) == g = [s \in SUBSET {} |-> IF s = {} THEN 1 ELSE g[s \ {Max(s)}] * <<>>[Max(s)]]
             h == [s \in SUBSET {} |-> 1]
             it == CHOOSE g : Eq(g)
  <2>1. DOMAIN <<>> = {}
    OBVIOUS
  <2>2. Product(<<>>) = it[{}]
    BY <2>1 DEF Product, FoldLeft, MapThenFoldSet
  <2>3. Eq(h)
    OBVIOUS
  <2>4. Eq(it)
    <3> HIDE DEF Eq, h
    <3> QED
      BY <2>3
  <2> HIDE DEF it
  <2>5. it[{}] = 1
    BY <2>4
  <2> QED
    BY <2>2, <2>5
<1>2. Total(<<>>) = 0
  <2> DEFINE Eq(g) == g = [s \in SUBSET {} |-> IF s = {} THEN 0 ELSE g[s \ {Max(s)}] + <<>>[Max(s)]]
             h == [s \in SUBSET {} |-> 0]
             it == CHOOSE g : Eq(g)
  <2>1. DOMAIN <<>> = {}
    OBVIOUS
  <2>2. Total(<<>>) = it[{}]
    BY <2>1 DEF Total, FoldLeft, MapThenFoldSet
  <2>3. Eq(h)
    OBVIOUS
  <2>4. Eq(it)
    <3> HIDE DEF Eq, h
    <3> QED
      BY <2>3
  <2> HIDE DEF it
  <2>5. it[{}] = 0
    BY <2>4
  <2> QED
    BY <2>2, <2>5
<1>3. ASSUME NEW n \in Int PROVE Product(<<n>>) = n
  <2> DEFINE x == <<n>>
             S == 1 .. 1
             Eq(g) == g = [s \in SUBSET S |-> IF s = {} THEN 1 ELSE g[s \ {Max(s)}] * x[Max(s)]]
             h == [s \in SUBSET S |-> IF s = {} THEN 1 ELSE n]
             it == CHOOSE g : Eq(g)
  <2>1. DOMAIN x = S /\ x[1] = n /\ Max(S) = 1 /\ S = {1}
    BY Segments
  <2>2. Product(x) = it[S]
    <3>1. Product(x) = (CHOOSE g : g = [s \in SUBSET DOMAIN x |-> IF s = {} THEN 1
                                          ELSE g[s \ {Max(s)}] * x[Max(s)]])[DOMAIN x]
      BY DEF Product, FoldLeft, MapThenFoldSet
    <3> HIDE DEF x, S
    <3> QED
      BY <2>1, <3>1
  <2>3. Eq(h)
    <3>1. ASSUME NEW s \in SUBSET S, s # {} PROVE h[s] = h[s \ {Max(s)}] * x[Max(s)]
      <4>1. s = S /\ s \ {Max(s)} = {} /\ {} \in SUBSET S
        BY <2>1, <3>1
      <4>2. h[s] = n /\ h[s \ {Max(s)}] = 1
        BY <3>1, <4>1
      <4>3. x[Max(s)] = n
        BY <2>1, <4>1
      <4>4. 1 * n = n
        OBVIOUS
      <4> HIDE DEF h, x
      <4> QED
        BY <4>2, <4>3, <4>4
    <3>2. h[{}] = 1 /\ h = [s \in SUBSET S |-> h[s]]
      OBVIOUS
    <3> HIDE DEF h, x, S
    <3> QED
      BY <3>1, <3>2
  <2>4. Eq(it)
    <3> HIDE DEF Eq, h
    <3> QED
      BY <2>3
  <2> HIDE DEF it
  <2>5. it[S] = it[{}] * x[1] /\ it[{}] = 1
    <3>1. S \in SUBSET S /\ S # {} /\ {} \in SUBSET S /\ S \ {Max(S)} = {}
      BY <2>1
    <3> HIDE DEF x, S
    <3> QED
      BY <2>1, <2>4, <3>1
  <2>6. 1 * n = n
    OBVIOUS
  <2> QED
    BY <2>1, <2>2, <2>5, <2>6
<1> QED
  BY <1>1, <1>2, <1>3

\* A matrix without gaps.
LEMMA MatrixStrides ==
    ASSUME NEW m \in Nat, NEW n \in Nat, NEW type
    PROVE  Tensor(<<m, n>>, type) = [shape |-> <<m, n>>, strides |-> <<n, 1>>, dtype |-> type]
<1> DEFINE s == <<m, n>>
<1>1. SubSeq(s, 2, 2) = <<n>> /\ SubSeq(s, 3, 2) = <<>> /\ Len(s) = 2 /\ DOMAIN s = {1, 2}
  <2>1. s \in Seq(Nat) /\ Len(s) = 2 /\ s[2] = n
    OBVIOUS
  <2>2. DOMAIN s = {1, 2}
    OBVIOUS
  <2> HIDE DEF s
  <2>3. SubSeq(s, 2, 2) \in Seq(Nat) /\ Len(SubSeq(s, 2, 2)) = 1 /\ SubSeq(s, 2, 2)[1] = s[2]
    BY <2>1
  <2>4. SubSeq(s, 3, 2) \in Seq(Nat) /\ Len(SubSeq(s, 3, 2)) = 0
    BY <2>1
  <2>5. \A q \in Seq(Nat) : /\ Len(q) = 0 => q = <<>>
                            /\ Len(q) = 1 => q = <<q[1]>>
    OBVIOUS
  <2>6. SubSeq(s, 2, 2) = <<n>>
    BY <2>1, <2>3, <2>5
  <2>7. SubSeq(s, 3, 2) = <<>>
    BY <2>4, <2>5
  <2> QED
    BY <2>1, <2>2, <2>6, <2>7
<1>2. Product(<<n>>) = n /\ Product(<<>>) = 1
  BY SmallFolds
<1>3. DefaultStrides(s) = [d \in {1, 2} |-> IF d = 1 THEN n ELSE 1]
  <2>1. Product(SubSeq(s, 1 + 1, Len(s))) = n /\ Product(SubSeq(s, 2 + 1, Len(s))) = 1
    <3>1. 1 + 1 = 2 /\ 2 + 1 = 3
      OBVIOUS
    <3> HIDE DEF s
    <3> QED
      BY <1>1, <1>2, <3>1
  <2>2. DefaultStrides(s) = [d \in {1, 2} |-> Product(SubSeq(s, d + 1, Len(s)))]
    BY <1>1 DEF DefaultStrides
  <2> HIDE DEF s
  <2> QED
    BY <2>1, <2>2
<1>4. <<n, 1>> = [d \in {1, 2} |-> IF d = 1 THEN n ELSE 1]
  OBVIOUS
<1> QED
  BY <1>3, <1>4 DEF Tensor

\* One row of activations, weights and scales in matrices or scales in a row.
Operands(k, n, wt, sc) == <<Tensor(<<1, k>>, "f32"), wt, sc>>

\* A matrix with n columns.
Columns(x, n) == Len(x.shape) = 2 /\ x.shape[2] = n /\ x.strides = <<n, 1>>

\* The sizes the kernels take from their operands: a single batch that begins at 0, of a single row.
LEMMA OperandSizes ==
    ASSUME NEW k \in Nat, NEW n \in Nat, NEW wt, Columns(wt, n), NEW sc
    PROVE  LET in == Operands(k, n, wt, sc)
               y == Tensor(<<1, n>>, "f32")
           IN  /\ Back(in[1], 0) = k /\ Back(in[1], 1) = 1 /\ Dim(in[2], 2) = n /\ Batches(y) = 1
               /\ \A bi : LET c == BatchCoords(y, bi)
                         IN  /\ MatrixAt(in[1], BatchOffset(in[1], c)) = Matrix(0, k, 1)
                             /\ MatrixAt(y, BatchOffset(y, c)) = Matrix(0, n, 1)
               /\ MatrixAt(in[2], 0) = Matrix(0, n, 1)
<1> DEFINE in == Operands(k, n, wt, sc)
           y == Tensor(<<1, n>>, "f32")
<1>1. /\ in[1] = [shape |-> <<1, k>>, strides |-> <<k, 1>>, dtype |-> "f32"]
      /\ y = [shape |-> <<1, n>>, strides |-> <<n, 1>>, dtype |-> "f32"]
  BY MatrixStrides DEF Operands
<1>0. Product(<<>>) = 1 /\ Total(<<>>) = 0
  BY SmallFolds
<1>2. in[2] = wt
  BY DEF Operands
<1>3. Back(in[1], 0) = k /\ Back(in[1], 1) = 1 /\ Dim(in[2], 2) = n
  BY <1>1, <1>2 DEF Back, Dim, Columns
<1>4. Batches(y) = 1
  <2>1. SubSeq(<<1, n>>, 1, 0) = <<>>
    <3> DEFINE s == <<1, n>>
    <3>1. s \in Seq(Nat)
      OBVIOUS
    <3> HIDE DEF s
    <3>2. SubSeq(s, 1, 0) \in Seq(Nat) /\ Len(SubSeq(s, 1, 0)) = 0
      BY <3>1
    <3>3. \A q \in Seq(Nat) : Len(q) = 0 => q = <<>>
      OBVIOUS
    <3> QED
      BY <3>2, <3>3 DEF s
  <2>2. Rank(y) - 2 = 0 /\ y.shape = <<1, n>>
    BY <1>1 DEF Rank
  <2> HIDE DEF y
  <2>3. Batches(y) = Product(<<>>)
    BY <2>1, <2>2 DEF Batches
  <2> QED
    BY <1>0, <2>3
<1>5. ASSUME NEW bi, NEW x, x \in {in[1], y} PROVE BatchOffset(x, BatchCoords(y, bi)) = 0
  <2> DEFINE c == BatchCoords(y, bi)
  <2>1. Rank(y) - 2 = 0 /\ Rank(x) - 2 = 0
    BY <1>1, <1>5 DEF Rank
  <2>2. c = <<>>
    <3> HIDE DEF y
    <3>1. 1 .. Rank(y) - 2 = {}
      BY <2>1
    <3>2. DOMAIN c = {} /\ c = [d \in {} |-> c[d]]
      BY <3>1 DEF BatchCoords
    <3> HIDE DEF c
    <3> QED
      BY <3>2
  <2> HIDE DEF c, y
  <2>3. Least(Len(c), Rank(x) - 2) = 0
    BY <2>1, <2>2 DEF Least
  <2>4. [d \in 1 .. 0 |-> c[d] * x.strides[d]] = <<>>
    OBVIOUS
  <2>5. BatchOffset(x, c) = Total(<<>>)
    BY <2>3, <2>4 DEF BatchOffset
  <2> QED
    BY <1>0, <2>5 DEF c
<1>6. ASSUME NEW x, NEW m, x.strides = <<m, 1>> PROVE MatrixAt(x, 0) = Matrix(0, m, 1)
  BY <1>6 DEF MatrixAt, Back, Matrix
<1>7. in[1].strides = <<k, 1>> /\ y.strides = <<n, 1>> /\ in[2].strides = <<n, 1>>
  BY <1>1, <1>2 DEF Columns
<1>8. ASSUME NEW bi
      PROVE  /\ MatrixAt(in[1], BatchOffset(in[1], BatchCoords(y, bi))) = Matrix(0, k, 1)
             /\ MatrixAt(y, BatchOffset(y, BatchCoords(y, bi))) = Matrix(0, n, 1)
  <2> HIDE DEF in, y
  <2> QED
    BY <1>5, <1>6, <1>7
<1>9. MatrixAt(in[2], 0) = Matrix(0, n, 1)
  <2> HIDE DEF in
  <2> QED
    BY <1>6, <1>7
<1> QED
  BY <1>3, <1>4, <1>8, <1>9

\* What the CPU kernel may write, with AVX2 or without.
CpuStores(in, y, a) == UNION {CpuQuantizedMatMul(in, y, a, avx2) : avx2 \in BOOLEAN}

\* The kernels write the product.
LEMMA CpuWrites ==
    ASSUME NEW k \in Nat, NEW n \in Nat, NEW wt, Columns(wt, n), NEW sc, NEW a, Attributes(a),
           NEW w \in CpuStores(Operands(k, n, wt, sc), Tensor(<<1, n>>, "f32"), a)
    PROVE  w.at \in 0 .. n - 1 /\ w.val = Column(a, k, n, w.at)
<1>0. PICK avx2 \in BOOLEAN : w \in CpuQuantizedMatMul(Operands(k, n, wt, sc), Tensor(<<1, n>>, "f32"), a, avx2)
  BY DEF CpuStores
<1> DEFINE in == Operands(k, n, wt, sc)
           y == Tensor(<<1, n>>, "f32")
           b == MatrixAt(in[2], 0)
           single == in[1].dtype = "f32" /\ in[3].dtype = "f32"
           act(bi) == MatrixAt(in[1], BatchOffset(in[1], BatchCoords(y, bi)))
           c(bi) == MatrixAt(y, BatchOffset(y, BatchCoords(y, bi)))
           value(bi, i, j) ==
               IF single THEN Quantized2D(act(bi), b, c(bi), a, Back(in[1], 1), Back(in[1], 0), Dim(in[2], 2), i, j, avx2)
               ELSE QuantizedReference(act(bi), b, a, Back(in[1], 0), Dim(in[2], 2), i, j)
<1>1. PICK bi \in 0 .. Batches(y) - 1, i \in 0 .. Back(in[1], 1) - 1, j \in 0 .. Dim(in[2], 2) - 1 :
        w = Store(Entry(c(bi), i, j), Caller, value(bi, i, j))
  <2>1. PICK bi \in 0 .. Batches(y) - 1 :
          w \in {Store(Entry(c(bi), i, j), Caller, value(bi, i, j)) :
                    i \in 0 .. Back(in[1], 1) - 1, j \in 0 .. Dim(in[2], 2) - 1}
    BY <1>0 DEF CpuQuantizedMatMul
  <2> HIDE DEF value, c, y, in
  <2> QED
    BY <2>1
<1>2. /\ Back(in[1], 0) = k /\ Back(in[1], 1) = 1 /\ Dim(in[2], 2) = n
      /\ act(bi) = Matrix(0, k, 1) /\ c(bi) = Matrix(0, n, 1) /\ b = Matrix(0, n, 1)
  BY OperandSizes
<1> HIDE DEF in, y, b, act, c, single
<1>3. i = 0 /\ j \in 0 .. n - 1
  BY <1>1, <1>2
<1>4. Entry(c(bi), i, j) = j
  <2>1. j \in Int
    BY <1>3
  <2>2. Entry(Matrix(0, n, 1), 0, j) = j
    BY <2>1, EntriesOf
  <2> QED
    BY <1>2, <1>3, <2>2
<1>5. QuantizedReference(act(bi), b, a, k, n, 0, j) = Column(a, k, n, j)
  BY <1>2, <1>3, ReferenceIsColumn
<1>6. DecodeApplies(act(bi), b, a) => DecodeRow(act(bi), b, k, n, j, avx2) = Column(a, k, n, j)
  BY <1>2, <1>3, DecodeIsColumn DEF DecodeApplies
<1>7. value(bi, i, j) = Column(a, k, n, j)
  BY <1>2, <1>3, <1>5, <1>6 DEF Quantized2D
<1> HIDE DEF value
<1> QED
  BY <1>1, <1>3, <1>4, <1>7 DEF Store

\* The same on the device.
LEMMA CudaWrites ==
    ASSUME NEW k \in Nat, NEW n \in Nat, NEW wt, Columns(wt, n), NEW sc, NEW a, Attributes(a),
           NEW w \in CudaQuantizedMatMul(Operands(k, n, wt, sc), Tensor(<<1, n>>, "f32"), a)
    PROVE  w.at \in 0 .. n - 1 /\ w.val = Column(a, k, n, w.at)
<1> DEFINE in == Operands(k, n, wt, sc)
           y == Tensor(<<1, n>>, "f32")
           b(m) == Matrix(0, m, 1)
           gemv(l, m, j) == IF a.quant_type = "Int4" THEN GemvInt4(b(m), a, l, m, j) ELSE GemvInt8(l, m, j)
<1>1. Back(in[1], 0) = k /\ Back(in[1], 1) = 1 /\ Dim(in[2], 2) = n /\ Batches(y) = 1
  BY OperandSizes
<1>2. PICK j \in Guarded(Batches(y) * Dim(in[2], 2), WARPS) :
        w = Store(j, <<j>>, gemv(Back(in[1], 0), Dim(in[2], 2), j))
  BY <1>1 DEF CudaQuantizedMatMul
<1> HIDE DEF in, y
<1>3. j \in 0 .. n - 1
  <2>1. Batches(y) * Dim(in[2], 2) = n
    BY <1>1
  <2> QED
    BY <2>1 DEF Guarded
<1>4. gemv(k, n, j) = Column(a, k, n, j)
  BY <1>3, GemvInt8IsColumn, GemvInt4IsColumn DEF Attributes
<1> HIDE DEF gemv
<1> QED
  BY <1>1, <1>2, <1>3, <1>4 DEF Store

\* A call for one row of activations is accepted, and gives one row.
LEMMA ProductAccepted ==
    ASSUME NEW k \in Nat \ {0}, NEW n \in Nat \ {0}, NEW rows \in Nat \ {0}, NEW s, NEW a,
           a.kind = "QuantizedMatMul", a.quant_type = "Int4" /\ a.block_size > 0 => a.block_size % 2 = 0,
           rows = IF a.quant_type = "Int4" THEN (k + 1) \div 2 ELSE k,
           s \in {<<ScaleRows(k, a), n>>, <<ScaleRows(k, a) * n>>}, s # <<>>, 0 \notin Range(s)
    PROVE  LET in == Operands(k, n, Tensor(<<rows, n>>, "i8"), Tensor(s, "f32"))
           IN  /\ Accepts("QuantizedMatMul", in, a)
               /\ Signature("QuantizedMatMul", in, a) = Tensor(<<1, n>>, "f32")
<1> DEFINE op == "QuantizedMatMul"
           x == Tensor(<<1, k>>, "f32")
           wt == Tensor(<<rows, n>>, "i8")
           sc == Tensor(s, "f32")
           in == Operands(k, n, wt, sc)
<1>1. in = <<x, wt, sc>> /\ in[1] = x /\ in[2] = wt /\ in[3] = sc /\ Len(in) = 3 /\ DOMAIN in = {1, 2, 3}
  BY DEF Operands
<1>2. /\ x.shape = <<1, k>> /\ x.dtype = "f32" /\ wt.shape = <<rows, n>> /\ wt.dtype = "i8"
      /\ sc.shape = s /\ sc.dtype = "f32"
  BY DEF Tensor
<1>3. Given(op, a) = a
  <2>1. a # NoAttrs
    <3>1. NoAttrs.kind = "None"
      BY DEF NoAttrs
    <3> QED
      BY <3>1
  <2> QED
    BY <2>1 DEF Given
<1>4. op \in Operators /\ InputCount(op) = 3 /\ DefaultAttrs(op).kind = op
  BY DEF Operators, InputCount, DefaultAttrs, Binary, Unary
<1>5. op \in MixedTypes /\ op \notin Binary
  BY DEF MixedTypes, Binary
<1>6. Back(x, 0) = k /\ Dim(wt, 2) = n /\ Dim(wt, 1) = rows /\ Rank(x) = 2 /\ Rank(wt) = 2
  <2> HIDE DEF x, wt
  <2>1. Len(x.shape) = 2 /\ x.shape[1] = 1 /\ x.shape[2] = k
    BY <1>2
  <2>2. Len(wt.shape) = 2 /\ wt.shape[1] = rows /\ wt.shape[2] = n
    BY <1>2
  <2> QED
    BY <2>1, <2>2 DEF Back, Dim, Rank
<1> HIDE DEF in, x, wt, sc
<1>7. \A d \in DOMAIN in : in[d].shape # <<>> /\ 0 \notin Range(in[d].shape)
  <2>1. <<1, k>> # <<>> /\ 0 \notin Range(<<1, k>>) /\ <<rows, n>> # <<>> /\ 0 \notin Range(<<rows, n>>)
    BY DEF Range
  <2> QED
    BY <1>1, <1>2, <2>1
<1>8. ValidQuantized(in, a)
  BY <1>1, <1>2, <1>6 DEF ValidQuantized, Floats
<1>9. QuantizedDims(in, a)
  BY <1>1, <1>2, <1>6 DEF QuantizedDims
<1>10. ValidMetadata(op, in, a)
  BY <1>4, <1>5, <1>7, <1>8 DEF ValidMetadata
<1>11. SignatureAccepts(op, in, a)
  BY <1>9 DEF SignatureAccepts
<1>12. Accepts(op, in, a)
  BY <1>1, <1>3, <1>4, <1>10, <1>11 DEF Accepts
<1>13. ResultShape(op, in, a) = <<1, n>>
  <2>1. ResultShape(op, in, a) = [in[1].shape EXCEPT ![Rank(in[1])] = Dim(in[2], 2)]
    BY DEF ResultShape
  <2>2. [<<1, k>> EXCEPT ![2] = n] = <<1, n>>
    OBVIOUS
  <2> QED
    BY <1>1, <1>2, <1>6, <2>1, <2>2
<1>14. Signature(op, in, a) = Tensor(<<1, n>>, "f32")
  BY <1>1, <1>2, <1>3, <1>13 DEF Signature
<1> QED
  BY <1>12, <1>14 DEF in, wt, sc

\* What a kernel of any backend writes.
LEMMA KernelWrites ==
    ASSUME NEW k \in Nat, NEW n \in Nat, NEW wt, Columns(wt, n), NEW sc, NEW a, Attributes(a),
           NEW backend \in {"CPU", "AVX2", "CUDA"},
           NEW w \in Kernel(backend, "QuantizedMatMul", Operands(k, n, wt, sc), Tensor(<<1, n>>, "f32"), a, <<>>)
    PROVE  w.at \in 0 .. n - 1 /\ w.val = Column(a, k, n, w.at)
<1> DEFINE op == "QuantizedMatMul"
           in == Operands(k, n, wt, sc)
           y == Tensor(<<1, n>>, "f32")
<1>1. op \notin Elementwise
  BY DEF Elementwise, Unary, Binary
<1> HIDE DEF in, y
<1>2. \A avx2 : CpuKernel(op, in, y, a, <<>>, avx2) = CpuQuantizedMatMul(in, y, a, avx2)
  BY <1>1 DEF CpuKernel
<1>3. CudaKernel(op, in, y, a, <<>>) = CudaQuantizedMatMul(in, y, a)
  BY <1>1 DEF CudaKernel
<1>4. CASE backend = "CUDA"
  <2>1. w \in CudaQuantizedMatMul(in, y, a)
    BY <1>3, <1>4 DEF Kernel, in, y
  <2> QED
    BY <2>1, CudaWrites DEF in, y
<1>5. CASE backend # "CUDA"
  <2>1. w \in CpuStores(in, y, a)
    BY <1>2, <1>5 DEF Kernel, CpuStores, in, y
  <2> QED
    BY <2>1, CpuWrites DEF in, y
<1> QED
  BY <1>4, <1>5

\* What quantize_storage_* returns.
StoredInt8(w) ==
    [kind |-> "Int8", block |-> 0, rows |-> w.rows, cols |-> w.cols,
     bytes |-> Int8Bytes(w), scales |-> Int8Scales(w), source |-> w.at,
     weight |-> Tensor(<<w.rows, w.cols>>, "i8"), scale |-> Tensor(<<w.cols>>, "f32")]
StoredInt4(w, size) ==
    [kind |-> "Int4", block |-> size, rows |-> w.rows, cols |-> w.cols,
     bytes |-> Int4Bytes(w, size), scales |-> Int4Scales(w, size), source |-> w.at,
     weight |-> Tensor(<<CeilDiv(w.rows, 2), w.cols>>, "i8"),
     scale |-> Tensor(<<Int4Blocks(w, size), w.cols>>, "f32")]

\* Blocks of an even number of rows.
EvenSizes(Sizes) == \A size \in Sizes : size \in Nat \ {0} /\ size % 2 = 0

\* What has been stored and what has been restored.
QuantisationInv(Sizes) ==
    /\ \/ stored = Nothing
       \/ \E w \in Weights : stored = StoredInt8(w)
       \/ \E w \in Weights : \E size \in Sizes : stored = StoredInt4(w, size)
    /\ stored = Nothing => restored = <<>>
    /\ restored # <<>> => restored = IF stored.kind = "Int8" THEN DequantisedInt8(stored) ELSE DequantisedInt4(stored)

\* How QuantizedMatMul is told of them.
AttributesOf(s) == [kind |-> "QuantizedMatMul", quant_type |-> s.kind, block_size |-> s.block]

\* The call that multiplies a row of activations with s, and what each element of the result reads.
ReadsWeights(s) ==
    /\ s.rows \in Nat \ {0} /\ s.cols \in Nat \ {0}
    /\ Accepts("QuantizedMatMul", Operands(s.rows, s.cols, s.weight, s.scale), AttributesOf(s))
    /\ Signature("QuantizedMatMul", Operands(s.rows, s.cols, s.weight, s.scale), AttributesOf(s))
         = Tensor(<<1, s.cols>>, "f32")
    /\ Columns(s.weight, s.cols) /\ Attributes(AttributesOf(s))
    /\ stored = s =>
         \A r \in 0 .. s.rows - 1, c \in 0 .. s.cols - 1 :
            LET t == Term(AttributesOf(s), s.cols, r, c)
            IN  t[1] = r /\ Near(Read(t[2], t[3]), s.source[<<r, c>>])

\* What the products read of eight-bit weights is near the weights.
LEMMA Int8IsRead ==
    ASSUME NEW w, IsMatrix(w)
    PROVE  ReadsWeights(StoredInt8(w))
<1> DEFINE s == StoredInt8(w)
           a == AttributesOf(s)
           k == w.rows
           n == w.cols
<1>1. /\ s.kind = "Int8" /\ s.block = 0 /\ s.rows = k /\ s.cols = n /\ s.source = w.at
      /\ s.bytes = Int8Bytes(w) /\ s.scales = Int8Scales(w)
      /\ s.weight = Tensor(<<k, n>>, "i8") /\ s.scale = Tensor(<<n>>, "f32")
  BY DEF StoredInt8
<1> HIDE DEF s
<1>2. a.kind = "QuantizedMatMul" /\ a.quant_type = "Int8" /\ a.block_size = 0
  BY <1>1 DEF AttributesOf
<1>3. k \in Nat \ {0} /\ n \in Nat \ {0}
  BY DEF IsMatrix
<1> HIDE DEF a, k, n
<1>4. Attributes(a)
  BY <1>2 DEF Attributes
<1>5. Columns(s.weight, n)
  <2>1. s.weight = [shape |-> <<k, n>>, strides |-> <<n, 1>>, dtype |-> "i8"]
    BY <1>1, <1>3, MatrixStrides
  <2>2. s.weight.shape = <<k, n>> /\ s.weight.strides = <<n, 1>> /\ Len(<<k, n>>) = 2
    BY <2>1
  <2> QED
    BY <2>2 DEF Columns
<1>6. /\ Accepts("QuantizedMatMul", Operands(k, n, s.weight, s.scale), a)
      /\ Signature("QuantizedMatMul", Operands(k, n, s.weight, s.scale), a) = Tensor(<<1, n>>, "f32")
  <2>1. ScaleRows(k, a) = 1
    BY <1>2 DEF ScaleRows
  <2>2. <<n>> \in {<<ScaleRows(k, a), n>>, <<ScaleRows(k, a) * n>>}
    BY <1>3, <2>1
  <2>3. <<n>> # <<>> /\ 0 \notin Range(<<n>>)
    BY <1>3 DEF Range
  <2>4. k = IF a.quant_type = "Int4" THEN (k + 1) \div 2 ELSE k
    BY <1>2
  <2>5. a.quant_type = "Int4" /\ a.block_size > 0 => a.block_size % 2 = 0
    BY <1>2
  <2> DEFINE z == <<n>>
  <2> HIDE DEF z
  <2>6. z \in {<<ScaleRows(k, a), n>>, <<ScaleRows(k, a) * n>>} /\ z # <<>> /\ 0 \notin Range(z)
    BY <2>2, <2>3 DEF z
  <2>7. /\ Accepts("QuantizedMatMul", Operands(k, n, Tensor(<<k, n>>, "i8"), Tensor(z, "f32")), a)
        /\ Signature("QuantizedMatMul", Operands(k, n, Tensor(<<k, n>>, "i8"), Tensor(z, "f32")), a)
             = Tensor(<<1, n>>, "f32")
    BY <1>2, <1>3, <2>4, <2>5, <2>6, ProductAccepted
  <2> QED
    BY <1>1, <2>7 DEF z
<1>7. ASSUME stored = s, NEW r \in 0 .. k - 1, NEW c \in 0 .. n - 1
      PROVE  LET t == Term(a, n, r, c) IN t[1] = r /\ Near(Read(t[2], t[3]), s.source[<<r, c>>])
  <2>1. Term(a, n, r, c) = <<r, <<r * n + c, "byte">>, c>>
    BY <1>2, <1>3, <1>4, BytesRead
  <2>2. Read(<<r * n + c, "byte">>, c) = Times(s.bytes[r * n + c], s.scales[c])
    BY <1>7 DEF Read
  <2>3. Near(Times(s.bytes[r * n + c], s.scales[c]), s.source[<<r, c>>])
    BY <1>1, Int8IsNear DEF k, n
  <2> QED
    BY <2>1, <2>2, <2>3
<1> QED
  BY <1>1, <1>3, <1>4, <1>5, <1>6, <1>7 DEF ReadsWeights, s, a

\* The same for four-bit weights in blocks of an even number of rows.
LEMMA Int4IsRead ==
    ASSUME NEW w, IsMatrix(w), NEW size \in Nat \ {0}, size % 2 = 0
    PROVE  ReadsWeights(StoredInt4(w, size))
<1> DEFINE s == StoredInt4(w, size)
           a == AttributesOf(s)
           k == w.rows
           n == w.cols
           rows == CeilDiv(k, 2)
           m == Int4Blocks(w, size)
<1>1. /\ s.kind = "Int4" /\ s.block = size /\ s.rows = k /\ s.cols = n /\ s.source = w.at
      /\ s.bytes = Int4Bytes(w, size) /\ s.scales = Int4Scales(w, size)
      /\ s.weight = Tensor(<<rows, n>>, "i8") /\ s.scale = Tensor(<<m, n>>, "f32")
  BY DEF StoredInt4
<1> HIDE DEF s
<1>2. a.kind = "QuantizedMatMul" /\ a.quant_type = "Int4" /\ a.block_size = size
  BY <1>1 DEF AttributesOf
<1>3. k \in Nat \ {0} /\ n \in Nat \ {0}
  BY DEF IsMatrix
<1>4. rows \in Nat \ {0} /\ rows = (k + 1) \div 2
  <2>1. rows = (k + 2 - 1) \div 2
    BY DEF CeilDiv
  <2> HIDE DEF rows, k
  <2> QED
    BY <1>3, <2>1
<1>5. m \in Nat \ {0} /\ m = CeilDiv(k, size)
  <2> DEFINE l == k + size - 1
  <2>1. m = l \div size
    BY DEF Int4Blocks, CeilDiv
  <2>2. l \in Nat /\ l >= size
    BY <1>3
  <2> HIDE DEF l, m
  <2> DEFINE q == l \div size
  <2>3. q \in Nat /\ l < size * (q + 1)
    BY <2>2
  <2>4. q # 0
    <3> SUFFICES ASSUME q = 0 PROVE FALSE
      OBVIOUS
    <3>1. l < size * (0 + 1)
      BY <2>3
    <3> QED
      BY <2>2, <3>1
  <2> QED
    BY <2>1, <2>3, <2>4 DEF m, Int4Blocks
<1> HIDE DEF a, k, n, rows, m
<1>6. Attributes(a)
  BY <1>2 DEF Attributes
<1>7. Columns(s.weight, n)
  <2>1. s.weight = [shape |-> <<rows, n>>, strides |-> <<n, 1>>, dtype |-> "i8"]
    BY <1>1, <1>3, <1>4, MatrixStrides
  <2>2. s.weight.shape = <<rows, n>> /\ s.weight.strides = <<n, 1>> /\ Len(<<rows, n>>) = 2
    BY <2>1
  <2> QED
    BY <2>2 DEF Columns
<1>8. /\ Accepts("QuantizedMatMul", Operands(k, n, s.weight, s.scale), a)
      /\ Signature("QuantizedMatMul", Operands(k, n, s.weight, s.scale), a) = Tensor(<<1, n>>, "f32")
  <2> DEFINE z == <<m, n>>
  <2>1. ScaleRows(k, a) = m
    BY <1>2, <1>5 DEF ScaleRows
  <2>2. z \in {<<ScaleRows(k, a), n>>, <<ScaleRows(k, a) * n>>}
    BY <2>1
  <2>3. z # <<>> /\ 0 \notin Range(z)
    BY <1>3, <1>5 DEF Range
  <2>4. rows = IF a.quant_type = "Int4" THEN (k + 1) \div 2 ELSE k
    BY <1>2, <1>4
  <2>5. a.quant_type = "Int4" /\ a.block_size > 0 => a.block_size % 2 = 0
    BY <1>2
  <2> HIDE DEF z
  <2>6. /\ Accepts("QuantizedMatMul", Operands(k, n, Tensor(<<rows, n>>, "i8"), Tensor(z, "f32")), a)
        /\ Signature("QuantizedMatMul", Operands(k, n, Tensor(<<rows, n>>, "i8"), Tensor(z, "f32")), a)
             = Tensor(<<1, n>>, "f32")
    BY <1>2, <1>3, <1>4, <2>2, <2>3, <2>4, <2>5, ProductAccepted
  <2> QED
    BY <1>1, <2>6 DEF z
<1>9. ASSUME stored = s, NEW r \in 0 .. k - 1, NEW c \in 0 .. n - 1
      PROVE  LET t == Term(a, n, r, c) IN t[1] = r /\ Near(Read(t[2], t[3]), s.source[<<r, c>>])
  <2> DEFINE i == (r \div 2) * n + c
             half == IF r % 2 = 0 THEN "low" ELSE "high"
             x == (r \div size) * n + c
             byte == s.bytes[i]
             nibble == IF r % 2 = 0 THEN Lower(byte) ELSE Upper(byte)
  <2>1. Term(a, n, r, c) = <<r, <<i, half>>, x>>
    <3>1. r \div 2 \in Int /\ c \in Int
      BY <1>3
    <3>2. Entry(Matrix(0, n, 1), r \div 2, c) = i
      BY <1>3, <3>1, EntriesOf
    <3>3. BlockRows(a) = size /\ Blocked(a)
      BY <1>2 DEF BlockRows, Blocked
    <3> QED
      BY <1>2, <3>2, <3>3 DEF Term, Weight
  <2> HIDE DEF i, x
  <2>2. Read(<<i, half>>, x) = Times(SignExtended(nibble), s.scales[x])
    BY <1>9 DEF Read
  <2>3. Near(Times(SignExtended(nibble), s.scales[x]), s.source[<<r, c>>])
    BY <1>1, Int4IsNear DEF k, n, i, x
  <2> HIDE DEF nibble, half
  <2> QED
    BY <2>1, <2>2, <2>3
<1> QED
  BY <1>1, <1>3, <1>6, <1>7, <1>8, <1>9 DEF ReadsWeights, s, a

\* What a call with stored weights computes reads every one of a column, near its source.
LEMMA ReadWeightsAreNear ==
    ASSUME NEW s, stored = s, ReadsWeights(s), NEW backend \in {"CPU", "AVX2", "CUDA"}
    PROVE  /\ Product1(backend).accepted
           /\ \A w \in Product1(backend).writes :
                /\ {t[1] : t \in DOMAIN w.val} = 0 .. stored.rows - 1
                /\ \A t \in DOMAIN w.val : Near(Read(t[2], t[3]), stored.source[<<t[1], w.at>>])
<1> DEFINE k == s.rows
           n == s.cols
           a == AttributesOf(s)
           in == Operands(k, n, s.weight, s.scale)
<1>1. /\ Product1(backend).accepted = Accepts("QuantizedMatMul", in, a)
      /\ Product1(backend).writes = Kernel(backend, "QuantizedMatMul", in, Signature("QuantizedMatMul", in, a), a, <<>>)
  BY DEF Product1, Operands, AttributesOf
<1>2. /\ k \in Nat \ {0} /\ n \in Nat \ {0} /\ Accepts("QuantizedMatMul", in, a)
      /\ Signature("QuantizedMatMul", in, a) = Tensor(<<1, n>>, "f32")
      /\ Columns(s.weight, n) /\ Attributes(a)
  BY DEF ReadsWeights
<1>3. ASSUME NEW r \in 0 .. k - 1, NEW c \in 0 .. n - 1
      PROVE  Term(a, n, r, c)[1] = r /\ Near(Read(Term(a, n, r, c)[2], Term(a, n, r, c)[3]), s.source[<<r, c>>])
  BY DEF ReadsWeights
<1>4. ASSUME NEW w \in Product1(backend).writes
      PROVE  /\ {t[1] : t \in DOMAIN w.val} = 0 .. k - 1
             /\ \A t \in DOMAIN w.val : Near(Read(t[2], t[3]), s.source[<<t[1], w.at>>])
  <2>1. w \in Kernel(backend, "QuantizedMatMul", in, Tensor(<<1, n>>, "f32"), a, <<>>)
    BY <1>1, <1>2
  <2>2. w.at \in 0 .. n - 1 /\ w.val = Column(a, k, n, w.at)
    <3> HIDE DEF k, n, a
    <3> QED
      BY <1>2, <2>1, KernelWrites
  <2> HIDE DEF k, n, a, in
  <2> DEFINE K == 0 .. k - 1
  <2>3. DOMAIN w.val = {Term(a, n, p, w.at) : p \in K}
    <3> DEFINE f == [p \in K |-> Term(a, n, p, w.at)]
    <3>1. DOMAIN w.val = {f[p] : p \in K}
      BY <2>2 DEF Column, CountOver
    <3> QED
      BY <3>1
  <2>4. \A p \in K : Term(a, n, p, w.at)[1] = p
    BY <1>3, <2>2
  <2>5. {t[1] : t \in DOMAIN w.val} = K
    <3> HIDE DEF K
    <3> QED
      BY <2>3, <2>4
  <2>6. ASSUME NEW t \in DOMAIN w.val PROVE Near(Read(t[2], t[3]), s.source[<<t[1], w.at>>])
    <3>1. PICK p \in K : t = Term(a, n, p, w.at)
      BY <2>3
    <3> QED
      BY <1>3, <2>2, <2>4, <3>1
  <2> QED
    BY <2>5, <2>6
<1> QED
  BY <1>1, <1>2, <1>4

\* What the functions that restore weights give back.
LEMMA RestoredInt8 ==
    ASSUME NEW w, IsMatrix(w), NEW r \in 0 .. w.rows - 1, NEW c \in 0 .. w.cols - 1
    PROVE  Near(DequantisedInt8(StoredInt8(w))[<<r, c>>], w.at[<<r, c>>])
<1> DEFINE s == StoredInt8(w)
<1>1. /\ s.rows = w.rows /\ s.cols = w.cols /\ s.bytes = Int8Bytes(w) /\ s.scales = Int8Scales(w)
  BY DEF StoredInt8
<1> HIDE DEF s
<1>2. DequantisedInt8(s)[<<r, c>>] = Times(s.bytes[r * s.cols + c], s.scales[c])
  BY <1>1 DEF DequantisedInt8
<1> QED
  BY <1>1, <1>2, Int8IsNear DEF s

\* The same for four bits.
LEMMA RestoredInt4 ==
    ASSUME NEW w, IsMatrix(w), NEW size \in Nat \ {0}, size % 2 = 0,
           NEW r \in 0 .. w.rows - 1, NEW c \in 0 .. w.cols - 1
    PROVE  Near(DequantisedInt4(StoredInt4(w, size))[<<r, c>>], w.at[<<r, c>>])
<1> DEFINE s == StoredInt4(w, size)
           byte == Int4Bytes(w, size)[(r \div 2) * w.cols + c]
           nibble == IF r % 2 = 0 THEN Lower(byte) ELSE Upper(byte)
           scale == Int4Scales(w, size)[(r \div size) * w.cols + c]
<1>1. /\ s.rows = w.rows /\ s.cols = w.cols /\ s.block = size
      /\ s.bytes = Int4Bytes(w, size) /\ s.scales = Int4Scales(w, size)
  BY DEF StoredInt4
<1> HIDE DEF s
<1>2. (r % size) % 2 = r % 2
  BY EvenBlocks
<1> DEFINE value(i, j) ==
             LET y == s.bytes[(i \div 2) * s.cols + j]
                 half == IF (i % s.block) % 2 = 0 THEN Lower(y) ELSE Upper(y)
             IN  Times(SignExtended(half), s.scales[(i \div s.block) * s.cols + j])
<1>3. DequantisedInt4(s)[<<r, c>>] = value(r, c)
  <2>1. DequantisedInt4(s) = [e \in (0 .. s.rows - 1) \X (0 .. s.cols - 1) |-> value(e[1], e[2])]
    BY DEF DequantisedInt4
  <2> HIDE DEF value
  <2> QED
    BY <1>1, <2>1
<1>4. value(r, c) = Times(SignExtended(nibble), scale)
  BY <1>1, <1>2
<1>5. Near(Times(SignExtended(nibble), scale), w.at[<<r, c>>])
  BY Int4IsNear
<1> HIDE DEF value, nibble, scale
<1> QED
  BY <1>3, <1>4, <1>5 DEF s

\* The invariant implies the property.
LEMMA QuantisationInvMeans ==
    ASSUME NEW Sizes, EvenSizes(Sizes), QuantisationInv(Sizes)
    PROVE  WeightsSurviveQuantisation
<1>1. CASE stored = Nothing
  BY <1>1 DEF QuantisationInv, WeightsSurviveQuantisation
<1>2. ASSUME NEW s, stored = s, ReadsWeights(s), s # Nothing,
             restored # <<>> => \A r \in 0 .. s.rows - 1, c \in 0 .. s.cols - 1 :
                                  Near(restored[<<r, c>>], s.source[<<r, c>>])
      PROVE  WeightsSurviveQuantisation
  <2>1. \A backend \in {"CPU", "AVX2", "CUDA"} :
          /\ Product1(backend).accepted
          /\ \A w \in Product1(backend).writes :
               /\ {t[1] : t \in DOMAIN w.val} = 0 .. stored.rows - 1
               /\ \A t \in DOMAIN w.val : Near(Read(t[2], t[3]), stored.source[<<t[1], w.at>>])
    BY <1>2, ReadWeightsAreNear
  <2> QED
    BY <1>2, <2>1 DEF WeightsSurviveQuantisation
<1>3. Nothing.kind = "nothing"
  BY DEF Nothing
<1>4. CASE \E w \in Weights : stored = StoredInt8(w)
  <2>1. PICK w \in Weights : stored = StoredInt8(w)
    BY <1>4
  <2> DEFINE s == StoredInt8(w)
  <2>2. s.kind = "Int8" /\ s.rows = w.rows /\ s.cols = w.cols /\ s.source = w.at
    BY DEF StoredInt8
  <2> HIDE DEF s
  <2>3. IsMatrix(w)
    BY WeightsAreMatrices
  <2>4. ReadsWeights(s)
    BY <2>3, Int8IsRead DEF s
  <2>5. restored # <<>> => restored = DequantisedInt8(s)
    BY <2>1, <2>2 DEF QuantisationInv, s
  <2>6. \A r \in 0 .. s.rows - 1, c \in 0 .. s.cols - 1 : Near(DequantisedInt8(s)[<<r, c>>], s.source[<<r, c>>])
    BY <2>2, <2>3, RestoredInt8 DEF s
  <2>7. s # Nothing
    BY <1>3, <2>2
  <2>8. restored # <<>> => \A r \in 0 .. s.rows - 1, c \in 0 .. s.cols - 1 : Near(restored[<<r, c>>], s.source[<<r, c>>])
    BY <2>5, <2>6
  <2> QED
    BY <1>2, <2>1, <2>4, <2>7, <2>8 DEF s
<1>5. CASE \E w \in Weights : \E size \in Sizes : stored = StoredInt4(w, size)
  <2>1. PICK w \in Weights, size \in Sizes : stored = StoredInt4(w, size)
    BY <1>5
  <2> DEFINE s == StoredInt4(w, size)
  <2>2. s.kind = "Int4" /\ s.rows = w.rows /\ s.cols = w.cols /\ s.source = w.at
    BY DEF StoredInt4
  <2> HIDE DEF s
  <2>3. IsMatrix(w) /\ size \in Nat \ {0} /\ size % 2 = 0
    BY WeightsAreMatrices DEF EvenSizes
  <2>4. ReadsWeights(s)
    BY <2>3, Int4IsRead DEF s
  <2>5. restored # <<>> => restored = DequantisedInt4(s)
    BY <2>1, <2>2 DEF QuantisationInv, s
  <2>6. \A r \in 0 .. s.rows - 1, c \in 0 .. s.cols - 1 : Near(DequantisedInt4(s)[<<r, c>>], s.source[<<r, c>>])
    BY <2>2, <2>3, RestoredInt4 DEF s
  <2>7. s # Nothing
    BY <1>3, <2>2
  <2>8. restored # <<>> => \A r \in 0 .. s.rows - 1, c \in 0 .. s.cols - 1 : Near(restored[<<r, c>>], s.source[<<r, c>>])
    BY <2>5, <2>6
  <2> QED
    BY <1>2, <2>1, <2>4, <2>7, <2>8 DEF s
<1> QED
  BY <1>1, <1>4, <1>5 DEF QuantisationInv

(* Weights survive being stored in eight bits, or in four bits in blocks   *)
(* of an even number of rows: for any weights and any shape of a matrix,   *)
(* what quant.cpp packs is accepted by QuantizedMatMul, every kernel reads *)
(* each weight of a column once with the level and the scale that are its  *)
(* own, and neither that nor a restored weight is further than half a      *)
(* scale from the source.                                                  *)
THEOREM StoredWeightsAreNear ==
    ASSUME NEW CONSTANT Sizes, EvenSizes(Sizes)
    PROVE  QuantisationInit /\ [][QuantisationNext(Sizes)]_<<stored, restored>> => []WeightsSurviveQuantisation
<1>1. QuantisationInit => QuantisationInv(Sizes)
  BY DEF QuantisationInit, QuantisationInv
<1>2. QuantisationInv(Sizes) /\ [QuantisationNext(Sizes)]_<<stored, restored>> => QuantisationInv(Sizes)'
  <2> SUFFICES ASSUME QuantisationInv(Sizes), [QuantisationNext(Sizes)]_<<stored, restored>>
               PROVE  QuantisationInv(Sizes)'
    OBVIOUS
  <2>1. ASSUME NEW w \in Weights, QuantiseInt8(w) PROVE QuantisationInv(Sizes)'
    <3>1. stored = Nothing /\ restored' = restored /\ stored' = StoredInt8(w)
      BY <2>1 DEF QuantiseInt8, StoredInt8
    <3>2. restored = <<>> /\ stored'.kind = "Int8"
      BY <3>1 DEF QuantisationInv, StoredInt8
    <3> QED
      BY <3>1, <3>2 DEF QuantisationInv, Nothing
  <2>2. ASSUME NEW w \in Weights, NEW size \in Sizes, QuantiseInt4(w, size) PROVE QuantisationInv(Sizes)'
    <3>1. stored = Nothing /\ restored' = restored /\ stored' = StoredInt4(w, size)
      BY <2>2 DEF QuantiseInt4, StoredInt4
    <3>2. restored = <<>> /\ stored'.kind = "Int4"
      BY <3>1 DEF QuantisationInv, StoredInt4
    <3> QED
      BY <3>1, <3>2 DEF QuantisationInv, Nothing
  <2>3. CASE Dequantise
    BY <2>3 DEF Dequantise, QuantisationInv
  <2>4. CASE Discard
    BY <2>4 DEF Discard, QuantisationInv
  <2>5. CASE UNCHANGED <<stored, restored>>
    BY <2>5 DEF QuantisationInv
  <2> QED
    BY <2>1, <2>2, <2>3, <2>4, <2>5 DEF QuantisationNext
<1>3. QuantisationInv(Sizes) => WeightsSurviveQuantisation
  BY QuantisationInvMeans
<1> QED
  BY <1>1, <1>2, <1>3, PTL
-----------------------------------------------------------------------------
(* Products of matrices on the paths of the CPU.                           *)

\* A matrix somewhere in memory, with any strides.
Placed(mat) == mat.base \in Int /\ mat.row \in Int /\ mat.col \in Int

\* The pairs that are multiplied for element (i, j) of a product.
Pairs(a, b, k, i, j) == [p \in 0 .. k - 1 |-> <<Entry(a, i, p), Entry(b, p, j)>>]

\* The scalar code adds up the products of all pairs.
LEMMA ReferenceCounts ==
    ASSUME NEW a, NEW b, NEW k \in Nat, NEW i, NEW j
    PROVE  ScalarReference(a, b, k, i, j) = CountOver(Pairs(a, b, k, i, j), 0 .. k - 1)
BY DEF ScalarReference, SumOf, CountOver, Pairs

\* Where the elements of a row of a and a column of b are, one behind the other.
LEMMA EntryInRow ==
    ASSUME NEW a, Placed(a), a.col = 1, NEW i \in Int, NEW p \in Int
    PROVE  Entry(a, i, p) = a.base + i * a.row + p
<1> DEFINE x == i * a.row
<1>1. x \in Int /\ Entry(a, i, p) = a.base + x + p * a.col /\ a.base \in Int
  BY DEF Entry, Placed
<1> HIDE DEF x
<1>2. Entry(a, i, p) = a.base + x + p
  BY <1>1
<1> QED
  BY <1>2 DEF x

\* Likewise for a matrix whose columns are contiguous.
LEMMA EntryInColumn ==
    ASSUME NEW b, Placed(b), b.row = 1, NEW j \in Int, NEW p \in Int
    PROVE  Entry(b, p, j) = b.base + j * b.col + p
<1> DEFINE x == j * b.col
<1>1. x \in Int /\ Entry(b, p, j) = b.base + p * b.row + x /\ b.base \in Int
  BY DEF Entry, Placed
<1> HIDE DEF x
<1>2. Entry(b, p, j) = b.base + x + p
  BY <1>1
<1> QED
  BY <1>2 DEF x

\* The products over some of the elements of a row and a column.
LEMMA ProductsCount ==
    ASSUME NEW a, Placed(a), a.col = 1, NEW b, Placed(b), b.row = 1, NEW k \in Nat,
           NEW i \in Int, NEW j \in Int, NEW P \in SUBSET (0 .. k - 1)
    PROVE  Products(a, b, i, j, P) = CountOver(Pairs(a, b, k, i, j), P)
<1> DEFINE f == [p \in P |-> <<a.base + i * a.row + p, b.base + j * b.col + p>>]
           g == Pairs(a, b, k, i, j)
<1>1. Products(a, b, i, j, P) = CountOver(f, P)
  BY DEF Products, SumOf, CountOver
<1>2. ASSUME NEW p \in P PROVE f[p] = g[p]
  <2>1. p \in 0 .. k - 1 /\ p \in Int
    OBVIOUS
  <2>2. g[p] = <<Entry(a, i, p), Entry(b, p, j)>>
    BY <2>1 DEF Pairs
  <2>3. Entry(a, i, p) = a.base + i * a.row + p /\ Entry(b, p, j) = b.base + j * b.col + p
    BY <2>1, EntryInRow, EntryInColumn
  <2> QED
    BY <2>2, <2>3
<1> HIDE DEF f, g
<1>3. CountOver(f, P) = CountOver(g, P)
  BY <1>2, CountsAgree
<1> QED
  BY <1>1, <1>3 DEF g

\* Columns that stream by.
LEMMA StreamedIsReference ==
    ASSUME NEW a, Placed(a), a.col = 1, NEW b, Placed(b), b.col = 1, NEW k \in Nat, NEW n \in Nat,
           NEW i \in Int, NEW j \in 0 .. n - 1, NEW w, Falling(w)
    PROVE  Streamed(a, b, k, n, i, j, w) = ScalarReference(a, b, k, i, j)
<1> DEFINE U == Updates(n, BLOCK_N, w, k, j)
           f == [x \in U |-> <<a.base + i * a.row + x[3], b.base + x[3] * b.row + j>>]
           g == Pairs(a, b, k, i, j)
<1>1. Streamed(a, b, k, n, i, j, w) = CountOver(f, U)
  BY DEF Streamed, SumOf, CountOver, Updates
<1>2. ASSUME NEW x \in U PROVE f[x] = g[x[3]]
  <2>1. x[3] \in 0 .. k - 1
    BY DEF Updates
  <2> DEFINE p == x[3]
  <2>2. p \in 0 .. k - 1 /\ p \in Int
    BY <2>1
  <2>3. f[x] = <<a.base + i * a.row + p, b.base + p * b.row + j>>
    OBVIOUS
  <2> HIDE DEF p, f
  <2>4. g[p] = <<Entry(a, i, p), Entry(b, p, j)>>
    BY <2>2 DEF Pairs
  <2>5. Entry(a, i, p) = a.base + i * a.row + p /\ Entry(b, p, j) = b.base + p * b.row + j
    BY <2>2, EntryInRow
  <2> QED
    BY <2>3, <2>4, <2>5 DEF p
<1>3. AddsRows(f, g, U)
  <2> HIDE DEF f, g, U
  <2> QED
    BY <1>2 DEF AddsRows
<1>4. CountOver(f, U) = CountOver(g, 0 .. k - 1)
  <2>1. BLOCK_N \in Nat \ {0}
    BY MatMulAssumption
  <2> HIDE DEF f, g
  <2> QED
    BY <1>3, <2>1, StreamedOnce
<1> QED
  BY <1>1, <1>4, ReferenceCounts

\* A dot product in four registers.
LEMMA DotAvx2IsReference ==
    ASSUME NEW a, Placed(a), a.col = 1, NEW b, Placed(b), b.row = 1, NEW k \in Nat,
           NEW i \in Int, NEW j \in Int
    PROVE  DotAvx2(a, b, i, j, k) = ScalarReference(a, b, k, i, j)
<1> DEFINE K == 0 .. k - 1
           s == Strips(k, Vectors)
           lane(u) == {p \in s[1] : (p \div LANES) % 4 = u}
           g == Pairs(a, b, k, i, j)
           sum(P) == CountOver(g, P)
<1>1. DOMAIN Vectors = 1 .. 3 /\ Falling(Vectors)
  BY WidthsFall DEF Vectors
<1>2. /\ s[1] \in SUBSET K /\ s[2] \in SUBSET K /\ s[3] \in SUBSET K
      /\ s[1] \cap s[2] = {} /\ s[1] \cap s[3] = {} /\ s[2] \cap s[3] = {}
      /\ K \in SUBSET (s[1] \cup s[2] \cup s[3])
  <2>1. /\ \A u \in 1 .. 3 : s[u] \in SUBSET K
        /\ \A p \in K : \E u \in 1 .. 3 : p \in s[u]
        /\ \A p \in K : \A u, v \in 1 .. 3 : p \in s[u] /\ p \in s[v] => u = v
    BY <1>1, StripsDivide
  <2> HIDE DEF s, K
  <2>2. s[1] \in SUBSET K /\ s[2] \in SUBSET K /\ s[3] \in SUBSET K
    BY <2>1
  <2>3. \A p \in K : (p \in s[1] => p \notin s[2] /\ p \notin s[3]) /\ (p \in s[2] => p \notin s[3])
    BY <2>1
  <2>4. \A p \in K : p \in s[1] \/ p \in s[2] \/ p \in s[3]
    <3>1. ASSUME NEW p \in K PROVE p \in s[1] \/ p \in s[2] \/ p \in s[3]
      <4>1. PICK u \in 1 .. 3 : p \in s[u]
        BY <2>1
      <4>2. u = 1 \/ u = 2 \/ u = 3
        OBVIOUS
      <4> QED
        BY <4>1, <4>2
    <3> QED
      BY <3>1
  <2> QED
    BY <2>2, <2>3, <2>4
<1>3. IsFiniteSet(K)
  <2>1. k - 1 \in Int
    OBVIOUS
  <2> QED
    BY <2>1, FS_Interval
<1>4. \A P \in SUBSET K : IsFiniteSet(P) /\ Products(a, b, i, j, P) = sum(P)
  <2>1. \A P \in SUBSET K : IsFiniteSet(P)
    <3> HIDE DEF K
    <3> QED
      BY <1>3, FS_Subset
  <2> QED
    BY <2>1, ProductsCount
<1>5. /\ \A u \in 0 .. 3 : lane(u) \in SUBSET s[1]
      /\ \A u, v \in 0 .. 3 : u # v => lane(u) \cap lane(v) = {}
      /\ s[1] \in SUBSET (lane(0) \cup lane(1) \cup lane(2) \cup lane(3))
  <2>1. \A p \in s[1] : (p \div LANES) % 4 \in 0 .. 3
    <3>1. ASSUME NEW p \in s[1] PROVE (p \div LANES) % 4 \in 0 .. 3
      <4>1. p \in Nat
        BY <1>2
      <4> DEFINE q == p \div LANES
      <4>2. q \in Nat
        BY <4>1, MatMulAssumption
      <4> HIDE DEF q
      <4>3. q % 4 \in 0 .. 3
        BY <4>2
      <4> QED
        BY <4>3 DEF q
    <3> QED
      BY <3>1
  <2> HIDE DEF s
  <2>2. \A p \in s[1] : p \in lane(0) \cup lane(1) \cup lane(2) \cup lane(3)
    <3>1. ASSUME NEW p \in s[1] PROVE p \in lane(0) \cup lane(1) \cup lane(2) \cup lane(3)
      <4> DEFINE q == (p \div LANES) % 4
      <4>1. q = 0 \/ q = 1 \/ q = 2 \/ q = 3
        <5>1. q \in 0 .. 3
          BY <2>1
        <5> HIDE DEF q
        <5> QED
          BY <5>1
      <4>2. p \in lane(q)
        OBVIOUS
      <4> HIDE DEF q, lane
      <4> QED
        BY <4>1, <4>2
    <3> QED
      BY <3>1
  <2> QED
    BY <2>2
<1> DEFINE l0 == lane(0)
           l1 == lane(1)
           l2 == lane(2)
           l3 == lane(3)
           s1 == s[1]
           s2 == s[2]
           s3 == s[3]
<1>6. DotAvx2(a, b, i, j, k)
        = Add2(Add2(Add2(Add2(Products(a, b, i, j, l0), Products(a, b, i, j, s2)), Products(a, b, i, j, l1)),
                    Add2(Products(a, b, i, j, l2), Products(a, b, i, j, l3))), Products(a, b, i, j, s3))
  BY DEF DotAvx2
<1>7. /\ l0 \in SUBSET s1 /\ l1 \in SUBSET s1 /\ l2 \in SUBSET s1 /\ l3 \in SUBSET s1
      /\ s1 \in SUBSET (l0 \cup l1 \cup l2 \cup l3)
      /\ l0 \cap l1 = {} /\ l0 \cap l2 = {} /\ l0 \cap l3 = {} /\ l1 \cap l2 = {} /\ l1 \cap l3 = {} /\ l2 \cap l3 = {}
  <2> HIDE DEF lane, s
  <2> QED
    BY <1>5
<1>8. /\ s1 \in SUBSET K /\ s2 \in SUBSET K /\ s3 \in SUBSET K
      /\ s1 \cap s2 = {} /\ s1 \cap s3 = {} /\ s2 \cap s3 = {} /\ K \in SUBSET (s1 \cup s2 \cup s3)
  BY <1>2
<1> HIDE DEF l0, l1, l2, l3, s1, s2, s3, lane, s, K, g
<1>9. /\ l0 \in SUBSET K /\ l1 \in SUBSET K /\ l2 \in SUBSET K /\ l3 \in SUBSET K
      /\ l0 \cup s2 \in SUBSET K /\ l0 \cup s2 \cup l1 \in SUBSET K /\ l2 \cup l3 \in SUBSET K
      /\ l0 \cup s2 \cup l1 \cup (l2 \cup l3) \in SUBSET K
  BY <1>7, <1>8
<1>10. Add2(sum(l0), sum(s2)) = sum(l0 \cup s2)
  <2>1. l0 \cap s2 = {}
    BY <1>7, <1>8
  <2> QED
    BY <2>1, <1>4, <1>8, <1>9, MergeCounts
<1>11. Add2(sum(l0 \cup s2), sum(l1)) = sum(l0 \cup s2 \cup l1)
  <2>1. (l0 \cup s2) \cap l1 = {}
    BY <1>7, <1>8
  <2> QED
    BY <2>1, <1>4, <1>9, MergeCounts
<1>12. Add2(sum(l2), sum(l3)) = sum(l2 \cup l3)
  BY <1>4, <1>7, <1>9, MergeCounts
<1>13. Add2(sum(l0 \cup s2 \cup l1), sum(l2 \cup l3)) = sum(l0 \cup s2 \cup l1 \cup (l2 \cup l3))
  <2>1. (l0 \cup s2 \cup l1) \cap (l2 \cup l3) = {}
    BY <1>7, <1>8
  <2> QED
    BY <2>1, <1>4, <1>9, MergeCounts
<1>14. Add2(sum(l0 \cup s2 \cup l1 \cup (l2 \cup l3)), sum(s3)) = sum(K)
  <2>1. (l0 \cup s2 \cup l1 \cup (l2 \cup l3)) \cap s3 = {}
    BY <1>7, <1>8
  <2>2. l0 \cup s2 \cup l1 \cup (l2 \cup l3) \cup s3 = K
    BY <1>7, <1>8, <1>9
  <2> QED
    BY <2>1, <2>2, <1>4, <1>8, <1>9, MergeCounts
<1>15. /\ Products(a, b, i, j, l0) = sum(l0) /\ Products(a, b, i, j, l1) = sum(l1)
       /\ Products(a, b, i, j, l2) = sum(l2) /\ Products(a, b, i, j, l3) = sum(l3)
       /\ Products(a, b, i, j, s2) = sum(s2) /\ Products(a, b, i, j, s3) = sum(s3)
  BY <1>4, <1>8, <1>9
<1>16. DotAvx2(a, b, i, j, k) = sum(K)
  BY <1>6, <1>10, <1>11, <1>12, <1>13, <1>14, <1>15
<1> QED
  BY <1>16, ReferenceCounts DEF g, K

\* A dot product in one sum for each step of an unrolled loop.
LEMMA DotPortableIsReference ==
    ASSUME NEW a, Placed(a), a.col = 1, NEW b, Placed(b), b.row = 1, NEW k \in Nat,
           NEW i \in Int, NEW j \in Int
    PROVE  DotPortable(a, b, i, j, k) = ScalarReference(a, b, k, i, j)
<1> DEFINE K == 0 .. k - 1
           s == Strips(k, <<UNROLL, 1>>)
           s1 == s[1]
           s2 == s[2]
           Z == 1 .. UNROLL
           lane(u) == {p \in s1 : p % UNROLL = u}
           part == [u \in Z |-> lane(u - 1)]
           v == [u \in Z |-> Products(a, b, i, j, lane(u - 1))]
           pick == [x \in SUBSET Z |-> Max(x)]
           g == Pairs(a, b, k, i, j)
           Eq(f) == f = [x \in SUBSET Z |-> IF x = {} THEN Zero ELSE Add2(f[x \ {pick[x]}], v[pick[x]])]
           Eq2(f) == f = [x \in SUBSET Z |-> IF x = {} THEN Zero ELSE Add2(f[x \ {Max(x)}], v[Max(x)])]
           it == CHOOSE f : Eq(f)
<1>1. UNROLL \in Nat \ {0}
  BY MatMulAssumption
<1>2. /\ s1 \in SUBSET K /\ s2 \in SUBSET K /\ s1 \cap s2 = {} /\ s1 \cup s2 = K
  <2>1. Falling(<<UNROLL, 1>>) /\ DOMAIN <<UNROLL, 1>> = 1 .. 2
    BY WidthsFall
  <2>2. /\ \A u \in 1 .. 2 : s[u] \in SUBSET K
        /\ \A p \in K : \E u \in 1 .. 2 : p \in s[u]
        /\ \A p \in K : \A u, w \in 1 .. 2 : p \in s[u] /\ p \in s[w] => u = w
    BY <2>1, StripsDivide
  <2> HIDE DEF s, K
  <2>3. s1 \in SUBSET K /\ s2 \in SUBSET K
    BY <2>2
  <2>4. \A p \in K : p \in s1 => p \notin s2
    BY <2>2
  <2>5. \A p \in K : p \in s1 \/ p \in s2
    <3>1. ASSUME NEW p \in K PROVE p \in s1 \/ p \in s2
      <4>1. PICK u \in 1 .. 2 : p \in s[u]
        BY <2>2
      <4>2. u = 1 \/ u = 2
        OBVIOUS
      <4> QED
        BY <4>1, <4>2
    <3> QED
      BY <3>1
  <2> QED
    BY <2>3, <2>4, <2>5
<1>3. DotPortable(a, b, i, j, k) = Add2((CHOOSE f : Eq2(f))[Z], Products(a, b, i, j, s2))
  <2>1. DOMAIN [u \in 1 .. UNROLL |-> Products(a, b, i, j, lane(u - 1))] = Z
    OBVIOUS
  <2> QED
    BY DEF DotPortable, FoldLeft, MapThenFoldSet
<1>4. \A x \in SUBSET Z : x # {} => Max(x) \in x
  <2>1. UNROLL \in Nat
    BY <1>1
  <2> QED
    BY <2>1, Segments
<1>5. (CHOOSE f : Eq2(f)) = it
  <2>1. \A x \in SUBSET Z : pick[x] = Max(x)
    OBVIOUS
  <2> HIDE DEF v, pick, Z
  <2>2. \A f : Eq(f) <=> Eq2(f)
    BY <2>1
  <2> HIDE DEF Eq, Eq2
  <2> QED
    BY <2>2
<1>6. IsFiniteSet(K) /\ IsFiniteSet(Z)
  <2>1. k - 1 \in Int /\ UNROLL \in Int
    BY <1>1
  <2> QED
    BY <2>1, FS_Interval
<1>7. SumsOfParts(v, g, part, K, Z)
  <2>1. ASSUME NEW u \in Z PROVE lane(u - 1) \in SUBSET K
    BY <1>2
  <2>2. ASSUME NEW u \in Z PROVE v[u] = CountOver(g, part[u])
    <3>1. part[u] = lane(u - 1) /\ v[u] = Products(a, b, i, j, lane(u - 1))
      OBVIOUS
    <3> HIDE DEF part, v, lane, g
    <3>2. Products(a, b, i, j, lane(u - 1)) = CountOver(g, lane(u - 1))
      BY <2>1, ProductsCount DEF g
    <3> QED
      BY <3>1, <3>2
  <2>3. ASSUME NEW u \in Z, NEW w \in Z, u # w PROVE lane(u - 1) \cap lane(w - 1) = {}
    <3>1. u - 1 # w - 1
      BY <2>3
    <3> QED
      BY <3>1
  <2>4. part \in [Z -> SUBSET K]
    <3> HIDE DEF lane
    <3> QED
      BY <2>1
  <2>5. \A u, w \in Z : u # w => part[u] \cap part[w] = {}
    <3> HIDE DEF lane
    <3> QED
      BY <2>3
  <2> HIDE DEF part, v, g, K
  <2> QED
    BY <2>2, <2>4, <2>5 DEF SumsOfParts
<1>8. UNION {part[u] : u \in Z} = s1
  <2>1. ASSUME NEW p \in s1 PROVE (p % UNROLL) + 1 \in Z /\ p \in lane(p % UNROLL)
    <3>1. p \in Nat
      BY <1>2
    <3>2. p % UNROLL \in 0 .. UNROLL - 1
      BY <1>1, <3>1
    <3> QED
      BY <1>1, <3>2
  <2>2. ASSUME NEW p \in s1 PROVE \E u \in Z : p \in part[u]
    <3> DEFINE q == p % UNROLL
    <3>1. q \in Int /\ q + 1 \in Z /\ p \in lane(q)
      <4>1. p \in Nat
        BY <1>2
      <4>2. q \in Int
        BY <1>1, <4>1
      <4> QED
        BY <2>1, <4>2
    <3> HIDE DEF q, lane
    <3>2. q + 1 - 1 = q
      BY <3>1
    <3>3. part[q + 1] = lane(q)
      BY <3>1, <3>2
    <3> QED
      BY <3>1, <3>3
  <2>3. \A u \in Z : part[u] \in SUBSET s1
    OBVIOUS
  <2> HIDE DEF part, s1, Z
  <2> QED
    BY <2>2, <2>3
<1>9. it[Z] = CountOver(g, s1)
  <2>1. AddsUp(it, v, pick, Z)
    BY DEF AddsUp
  <2>2. Picks(pick, Z)
    <3> HIDE DEF Z
    <3> QED
      BY <1>4 DEF Picks
  <2> HIDE DEF it, v, pick, part, Z, K, g, s1, lane
  <2> QED
    BY <1>6, <1>7, <1>8, <2>1, <2>2, FoldedParts
<1>10. Products(a, b, i, j, s2) = CountOver(g, s2)
  <2>1. s2 \in SUBSET (0 .. k - 1)
    BY <1>2
  <2> HIDE DEF s2
  <2> QED
    BY <2>1, ProductsCount
<1>11. IsFiniteSet(s1) /\ IsFiniteSet(s2)
  <2> HIDE DEF s1, s2, K
  <2> QED
    BY <1>2, <1>6, FS_Subset
<1> HIDE DEF it, Eq2, s1, s2, K, g, v
<1>12. Add2(CountOver(g, s1), CountOver(g, s2)) = CountOver(g, K)
  BY <1>2, <1>11, MergeCounts
<1>13. DotPortable(a, b, i, j, k) = CountOver(g, K)
  BY <1>3, <1>5, <1>9, <1>10, <1>12
<1> QED
  BY <1>13, ReferenceCounts DEF g, K

\* Every path that packs nothing.
LEMMA SmallMIsReference ==
    ASSUME NEW a, Placed(a), NEW b, Placed(b), SmallPathApplies(a, b), NEW m, NEW k \in Nat, NEW n \in Nat,
           NEW i \in Int, NEW j \in 0 .. n - 1, NEW avx2 \in BOOLEAN
    PROVE  SmallM(a, b, m, k, n, i, j, avx2) = ScalarReference(a, b, k, i, j)
<1>1. a.col = 1 /\ (b.col = 1 \/ b.row = 1) /\ j \in Int
  BY DEF SmallPathApplies
<1>2. CASE b.col = 1
  <2>1. SmallM(a, b, m, k, n, i, j, avx2)
          = Streamed(a, b, k, n, i, j, IF avx2 THEN (IF m = 1 THEN Vectors ELSE <<LANES, 1>>) ELSE <<1>>)
    BY <1>2 DEF SmallM, SmallStreamAvx2, SmallStreamPortable
  <2>2. Falling(IF avx2 THEN (IF m = 1 THEN Vectors ELSE <<LANES, 1>>) ELSE <<1>>)
    BY WidthsFall
  <2> QED
    BY <1>1, <1>2, <2>1, <2>2, StreamedIsReference
<1>3. CASE b.col # 1
  <2>1. b.row = 1
    BY <1>1, <1>3
  <2>2. SmallM(a, b, m, k, n, i, j, avx2) = IF avx2 THEN DotAvx2(a, b, i, j, k) ELSE DotPortable(a, b, i, j, k)
    BY <1>3 DEF SmallM
  <2> QED
    BY <1>1, <2>1, <2>2, DotAvx2IsReference, DotPortableIsReference
<1> QED
  BY <1>2, <1>3

\* A block has the index of every element in it.
LEMMA BlockIndex ==
    ASSUME NEW n \in Nat, NEW w \in Nat \ {0}, NEW i \in 0 .. n - 1
    PROVE  /\ i \div w \in Nat /\ i \div w < CeilDiv(n, w)
           /\ Begin(i, w) = (i \div w) * w /\ Begin(i, w) \div w = i \div w /\ i - Begin(i, w) = i % w
           /\ i % w \in 0 .. w - 1 /\ i = (i \div w) * w + (i % w)
<1> DEFINE q == i \div w
           c == i % w
           y == q * w
           z == (n + w - 1) \div w
<1>1. q \in Nat /\ c \in 0 .. w - 1 /\ i = y + c /\ y \in Nat
  OBVIOUS
<1>2. z \in Nat /\ n + w - 1 < w * (z + 1) /\ z = CeilDiv(n, w)
  <2> DEFINE m == n + w - 1
  <2>1. m \in Nat
    OBVIOUS
  <2>2. z = m \div w
    OBVIOUS
  <2> HIDE DEF m, z
  <2>3. z \in Nat /\ m < w * (z + 1)
    BY <2>1, <2>2
  <2> QED
    BY <2>3 DEF CeilDiv, m, z
<1>3. Begin(i, w) = i - c
  BY DEF Begin
<1>4. Begin(i, w) = y /\ i - Begin(i, w) = c
  <2> HIDE DEF c, y, q
  <2>1. y + c - c = y /\ y + c - y = c
    BY <1>1
  <2> QED
    BY <1>1, <1>3, <2>1
<1> HIDE DEF q, c, z
<1>5. (q * w + 0) \div w = q
  BY <1>1, RowAndColumn
<1>6. y \div w = q
  <2>1. y + 0 = y
    BY <1>1
  <2> QED
    BY <1>5, <2>1
<1>7. q < z
  <2> SUFFICES ASSUME z <= q PROVE FALSE
    BY <1>1, <1>2
  <2>1. PICK d \in Nat : q = z + d
    <3>1. q - z \in Nat /\ q = z + (q - z)
      BY <1>1, <1>2
    <3> QED
      BY <3>1
  <2>2. w * (z + 1) = w * z + w /\ y = w * z + w * d /\ w * d \in Nat /\ w * z \in Nat
    BY <1>1, <1>2, <2>1
  <2> HIDE DEF y
  <2> QED
    BY <1>1, <1>2, <2>2
<1> QED
  BY <1>1, <1>2, <1>4, <1>6, <1>7 DEF q, c, y

\* An element of b is found in the packed block, behind the panels of other columns.
LEMMA PackedEntry ==
    ASSUME NEW b, Placed(b), NEW kLen \in Nat, NEW nLen \in Nat, NEW k0 \in Int, NEW n0 \in Int,
           NEW j \in 0 .. nLen - 1, NEW p \in 0 .. kLen - 1
    PROVE  PackBPanel(b, k0, kLen, n0, nLen)[((Begin(j, PANEL) \div PANEL) * kLen + p) * PANEL + (j - Begin(j, PANEL))]
             = Entry(b, k0 + p, n0 + j)
<1> DEFINE t == j \div PANEL
           c == j % PANEL
           C == CeilDiv(nLen, PANEL)
           r == t * kLen + p
           q == r * PANEL + c
           d == p * PANEL + c
           w == kLen * PANEL
           y == t * PANEL
<1>1. PANEL \in Nat \ {0} /\ kLen \in Nat \ {0}
  BY MatMulAssumption
<1>2. /\ t \in Nat /\ t < C /\ c \in 0 .. PANEL - 1 /\ j = y + c /\ y \in Nat
      /\ Begin(j, PANEL) \div PANEL = t /\ j - Begin(j, PANEL) = c
  <2>1. y \in Nat
    BY <1>1
  <2> QED
    BY <1>1, <2>1, BlockIndex
<1>3. C \in Int
  BY <1>1 DEF CeilDiv
<1> HIDE DEF t, c, C
<1>4. C \in Nat
  BY <1>2, <1>3
<1>5. r \in Nat /\ r % kLen = p /\ r < C * kLen
  BY <1>1, <1>2, <1>4, RowAndColumn
<1>6. C * kLen \in Nat
  BY <1>1, <1>4
<1>7. q \in Nat /\ q \div PANEL = r /\ q % PANEL = c /\ q < (C * kLen) * PANEL
  <2> HIDE DEF r
  <2> QED
    BY <1>1, <1>2, <1>5, <1>6, RowAndColumn
<1>8. d \in Nat /\ d < w
  <2>1. p \in Nat /\ p < kLen
    OBVIOUS
  <2> QED
    BY <1>1, <1>2, <2>1, RowAndColumn
<1>9. w \in Nat \ {0}
  BY <1>1
<1>10. q = t * w + d
  <2>1. q = t * kLen * PANEL + p * PANEL + c
    BY <1>1, <1>2
  <2>2. t * w = t * kLen * PANEL
    BY <1>1, <1>2
  <2> DEFINE e == t * kLen * PANEL
             h == p * PANEL
  <2>3. e \in Int /\ h \in Int
    BY <1>1, <1>2
  <2>4. q = e + h + c /\ d = h + c /\ t * w = e
    BY <2>1, <2>2
  <2> HIDE DEF e, h, q, d, w
  <2> QED
    BY <1>2, <2>3, <2>4
<1>11. q \div w = t
  <2> HIDE DEF q, d, w
  <2>1. d \in 0 .. w - 1
    BY <1>8, <1>9
  <2> QED
    BY <1>2, <1>9, <1>10, <2>1, RowAndColumn
<1>12. c < Least(nLen - t * PANEL, PANEL)
  <2>1. nLen - t * PANEL = nLen - y
    OBVIOUS
  <2> HIDE DEF y
  <2> QED
    BY <1>1, <1>2, <2>1 DEF Least
<1>13. q \in 0 .. CeilDiv(nLen, PANEL) * kLen * PANEL - 1
  <2> DEFINE e == (C * kLen) * PANEL
  <2>1. e \in Int /\ q < e
    BY <1>1, <1>6, <1>7
  <2>2. e = CeilDiv(nLen, PANEL) * kLen * PANEL
    BY DEF C
  <2> HIDE DEF e, q
  <2>3. q \in 0 .. e - 1
    BY <1>7, <2>1
  <2> QED
    BY <2>2, <2>3
<1>14. PackBPanel(b, k0, kLen, n0, nLen)[q] = b.base + (k0 + p) * b.row + (n0 + t * PANEL + c) * b.col
  <2> HIDE DEF q, w, r
  <2>1. PackBPanel(b, k0, kLen, n0, nLen)[q]
          = IF q % PANEL < Least(nLen - (q \div w) * PANEL, PANEL)
            THEN b.base + (k0 + ((q \div PANEL) % kLen)) * b.row + (n0 + (q \div w) * PANEL + (q % PANEL)) * b.col
            ELSE Pad
    BY <1>13 DEF PackBPanel, w
  <2> QED
    BY <1>5, <1>7, <1>11, <1>12, <2>1
<1>15. n0 + t * PANEL + c = n0 + j
  <2>1. n0 + y + c = n0 + j
    <3> HIDE DEF y
    <3> QED
      BY <1>2
  <2> QED
    BY <2>1
<1>16. ((Begin(j, PANEL) \div PANEL) * kLen + p) * PANEL + (j - Begin(j, PANEL)) = q
  BY <1>2
<1> QED
  BY <1>14, <1>15, <1>16 DEF Entry

\* The rows of b a block multiplies for element (i, j): its own, if the element is in the block.
RowsAdded(kLen, nLen, mLen, i, j, k0, n0, m0) ==
    IF i - m0 \in 0 .. mLen - 1 /\ j - n0 \in 0 .. nLen - 1 THEN k0 .. k0 + kLen - 1 ELSE {}

\* What a block of k and n adds to an element.
LEMMA BlockAdds ==
    ASSUME NEW a, NEW b, NEW w, NEW k \in Nat, NEW kLen \in Nat, NEW nLen \in Nat, NEW mLen \in Nat,
           NEW i \in Int, NEW j \in Int, NEW k0 \in Nat, NEW n0 \in Int, NEW m0 \in Int,
           Placed(a), a.col = 1, Placed(b), Falling(w), k0 + kLen <= k
    PROVE  BlockSum(a, PackBPanel(b, k0, kLen, n0, nLen), kLen, nLen, mLen, i, j, k0, n0, m0, w)
             = CountOver(Pairs(a, b, k, i, j), RowsAdded(kLen, nLen, mLen, i, j, k0, n0, m0))
<1> DEFINE packed == PackBPanel(b, k0, kLen, n0, nLen)
           Q == 0 .. kLen - 1
           jj == j - n0
           U == {x \in Blocks(nLen, PANEL) \X (DOMAIN w) \X Q :
                   /\ i - m0 \in Strips(mLen, w)[x[2]]
                   /\ jj - x[1] \in 0 .. Least(nLen - x[1], PANEL) - 1}
           f == [x \in U |-> <<a.base + i * a.row + k0 + x[3],
                               packed[((x[1] \div PANEL) * kLen + x[3]) * PANEL + (jj - x[1])]>>]
           g == Pairs(a, b, k, i, j)
           I == k0 .. k0 + kLen - 1
           here == i - m0 \in 0 .. mLen - 1 /\ jj \in 0 .. nLen - 1
<1>1. BlockSum(a, packed, kLen, nLen, mLen, i, j, k0, n0, m0, w) = CountOver(f, U)
  BY DEF BlockSum, SumOf, CountOver
<1>2. PANEL \in Nat \ {0}
  BY MatMulAssumption
<1>3. ASSUME NEW x \in U
      PROVE  /\ x[3] \in Q /\ x[2] \in DOMAIN w /\ x[1] \in Blocks(nLen, PANEL) /\ x = <<x[1], x[2], x[3]>>
             /\ here /\ x[1] = Begin(jj, PANEL)
  <2>1. /\ x[3] \in Q /\ x[2] \in DOMAIN w /\ x[1] \in Blocks(nLen, PANEL) /\ x = <<x[1], x[2], x[3]>>
        /\ i - m0 \in Strips(mLen, w)[x[2]] /\ jj - x[1] \in 0 .. Least(nLen - x[1], PANEL) - 1
    OBVIOUS
  <2>2. i - m0 \in 0 .. mLen - 1
    BY <2>1, StripsDivide
  <2>3. jj \in 0 .. nLen - 1
    BY <1>2, <2>1 DEF Blocks, Least
  <2>4. x[1] = Begin(jj, PANEL)
    <3> HIDE DEF jj
    <3> QED
      BY <1>2, <2>1, <2>3, BlocksDivide
  <2> HIDE DEF U
  <2> QED
    BY <2>1, <2>2, <2>3, <2>4
<1>4. CASE ~ here
  <2>1. U = {}
    <3> HIDE DEF U, here
    <3> QED
      BY <1>3, <1>4
  <2>2. CountOver(f, U) = CountOver(g, {})
    <3> HIDE DEF f, g
    <3> QED
      BY <2>1 DEF CountOver
  <2> QED
    BY <1>1, <1>4, <2>2 DEF RowsAdded
<1>5. CASE here
  <2> DEFINE x1 == Begin(jj, PANEL)
  <2>1. jj \in 0 .. nLen - 1
    BY <1>5
  <2>2. x1 \in Blocks(nLen, PANEL) /\ jj - x1 \in 0 .. Least(nLen - x1, PANEL) - 1
    <3> HIDE DEF jj
    <3> QED
      BY <1>2, <2>1, BlocksDivide
  <2>3. PICK u \in DOMAIN w : i - m0 \in Strips(mLen, w)[u]
    BY <1>5, StripsDivide
  <2>4. ASSUME NEW x \in U PROVE x[2] = u
    <3>1. i - m0 \in Strips(mLen, w)[x[2]] /\ x[2] \in DOMAIN w
      OBVIOUS
    <3>2. i - m0 \in 0 .. mLen - 1
      BY <1>5
    <3> DEFINE ii == i - m0
    <3> HIDE DEF U
    <3>3. ii \in 0 .. mLen - 1 /\ ii \in Strips(mLen, w)[x[2]] /\ ii \in Strips(mLen, w)[u]
      BY <2>3, <3>1, <3>2
    <3> HIDE DEF ii
    <3> QED
      BY <3>1, <3>3, StripsDivide
  <2> DEFINE r == [p \in I |-> <<x1, u, p - k0>>]
  <2>5. ASSUME NEW p \in Q PROVE <<x1, u, p>> \in U
    BY <2>2, <2>3
  <2>6. ASSUME NEW p \in Q
        PROVE  f[<<x1, u, p>>] = <<Entry(a, i, k0 + p), Entry(b, k0 + p, j)>>
    <3>1. f[<<x1, u, p>>] = <<a.base + i * a.row + k0 + p, packed[((x1 \div PANEL) * kLen + p) * PANEL + (jj - x1)]>>
      <4> DEFINE x == <<x1, u, p>>
      <4>1. x \in U /\ x[1] = x1 /\ x[3] = p
        BY <2>5
      <4>2. f[x] = <<a.base + i * a.row + k0 + x[3], packed[((x[1] \div PANEL) * kLen + x[3]) * PANEL + (jj - x[1])]>>
        <5> HIDE DEF x, U, packed
        <5> QED
          BY <4>1
      <4> HIDE DEF f, U, packed, x1, jj
      <4> QED
        BY <4>1, <4>2
    <3>2. packed[((x1 \div PANEL) * kLen + p) * PANEL + (jj - x1)] = Entry(b, k0 + p, n0 + jj)
      <4> HIDE DEF jj
      <4> QED
        BY <2>1, PackedEntry
    <3>3. n0 + jj = j
      OBVIOUS
    <3>4. Entry(a, i, k0 + p) = a.base + i * a.row + (k0 + p)
      BY EntryInRow
    <3>5. a.base + i * a.row + (k0 + p) = a.base + i * a.row + k0 + p
      <4> DEFINE e == i * a.row
      <4>1. e \in Int /\ a.base \in Int /\ p \in Int
        BY DEF Placed
      <4> HIDE DEF e
      <4>2. a.base + e + (k0 + p) = a.base + e + k0 + p
        BY <4>1
      <4> QED
        BY <4>2 DEF e
    <3> HIDE DEF f, packed, jj, x1
    <3> QED
      BY <3>1, <3>2, <3>3, <3>4, <3>5
  <2> HIDE DEF x1, jj
  <2>7. ASSUME NEW p \in I PROVE r[p] \in U /\ g[p] = f[r[p]]
    <3>1. p - k0 \in Q /\ k0 + (p - k0) = p /\ p \in 0 .. k - 1
      OBVIOUS
    <3>2. g[p] = <<Entry(a, i, p), Entry(b, p, j)>>
      BY <3>1 DEF Pairs
    <3>3. r[p] = <<x1, u, p - k0>>
      OBVIOUS
    <3> HIDE DEF f, g, U, Q, r
    <3>4. f[<<x1, u, p - k0>>] = <<Entry(a, i, k0 + (p - k0)), Entry(b, k0 + (p - k0), j)>>
      BY <2>6, <3>1
    <3> QED
      BY <2>5, <3>1, <3>2, <3>3, <3>4
  <2>8. ASSUME NEW x \in U PROVE \E p \in I : r[p] = x
    <3>1. x[3] \in Q /\ x = <<x1, u, x[3]>>
      <4> HIDE DEF U
      <4> QED
        BY <1>3, <2>4 DEF x1
    <3> DEFINE p == x[3]
    <3>2. p \in Q /\ k0 + p \in I /\ (k0 + p) - k0 = p
      BY <3>1
    <3>3. x = <<x1, u, p>>
      BY <3>1
    <3> HIDE DEF p, I, Q
    <3>4. r[k0 + p] = x
      BY <3>2, <3>3
    <3> QED
      BY <3>2, <3>4
  <2>9. \A p, q \in I : r[p] = r[q] => p = q
    <3>1. ASSUME NEW p \in I, NEW q \in I, r[p] = r[q] PROVE p = q
      <4>1. r[p] = <<x1, u, p - k0>> /\ r[q] = <<x1, u, q - k0>>
        OBVIOUS
      <4> DEFINE d == p - k0
                 e == q - k0
      <4>2. d = e
        <5>1. <<x1, u, d>> = <<x1, u, e>>
          BY <3>1, <4>1
        <5> HIDE DEF r, d, e
        <5> QED
          BY <5>1
      <4> QED
        BY <4>2
    <3> QED
      BY <3>1
  <2>10. IsFiniteSet(I) /\ r \in [I -> U]
    <3>1. k0 + kLen - 1 \in Int
      OBVIOUS
    <3>2. IsFiniteSet(I)
      BY <3>1, FS_Interval
    <3>3. r = [p \in I |-> r[p]]
      OBVIOUS
    <3> HIDE DEF r, I, U
    <3> QED
      BY <2>7, <3>2, <3>3
  <2> HIDE DEF f, g, U, I, r
  <2>11. CountOver(g, I) = CountOver(f, U)
    BY <2>7, <2>8, <2>9, <2>10, RenamedCounts
  <2> QED
    BY <1>1, <1>5, <2>11 DEF g, I, jj, RowsAdded
<1> QED
  BY <1>4, <1>5

\* The blocks over n begin at finitely many indices.
LEMMA FewBlocks ==
    ASSUME NEW n \in Nat, NEW w \in Nat \ {0}
    PROVE  IsFiniteSet(Blocks(n, w)) /\ \A x \in Blocks(n, w) : x \in Nat /\ x < n /\ Least(n - x, w) \in Nat
<1>1. Blocks(n, w) \in SUBSET (0 .. n - 1)
  BY DEF Blocks
<1>2. IsFiniteSet(0 .. n - 1)
  <2>1. n - 1 \in Int
    OBVIOUS
  <2> QED
    BY <2>1, FS_Interval
<1>3. IsFiniteSet(Blocks(n, w))
  BY <1>1, <1>2, FS_Subset
<1> QED
  BY <1>1, <1>3 DEF Least

\* The product by the scalar code.
ReferenceProduct(a, b, m, k, n) ==
    [e \in (0 .. m - 1) \X (0 .. n - 1) |-> ScalarReference(a, b, k, e[1], e[2])]

\* The blocks of k, n and m together add up every product of every element once.
LEMMA BlockedIsReference ==
    ASSUME NEW a, Placed(a), a.col = 1, NEW b, Placed(b), NEW m \in Nat, NEW k \in Nat, NEW n \in Nat,
           NEW avx2 \in BOOLEAN
    PROVE  BlockedPacked(a, b, m, k, n, avx2) = ReferenceProduct(a, b, m, k, n)
<1> DEFINE blocks == Blocks(k, KC) \X Blocks(n, NC)
           Z == blocks \X Blocks(m, MC)
           K == 0 .. k - 1
           kLen(z) == Least(k - z[1][1], KC)
           nLen(z) == Least(n - z[1][2], NC)
           mLen(z) == Least(m - z[2], MC)
           packed == [x \in blocks |->
                        PackBPanel(b, x[1], Least(k - x[1], KC), x[2], Least(n - x[2], NC))]
           w == IF avx2 THEN <<ROWS, 1>> ELSE <<1>>
           sum(i, j, z) == BlockSum(a, packed[z[1]], kLen(z), nLen(z), mLen(z), i, j, z[1][1], z[1][2], z[2], w)
           Eq2(i, j, f) == f = [s \in SUBSET Z |-> IF s = {} THEN Zero
                                                  ELSE Add2(f[s \ {AnyOf(s)}], sum(i, j, AnyOf(s)))]
           all(i, j) == (CHOOSE f : Eq2(i, j, f))[Z]
<1>1. BlockedPacked(a, b, m, k, n, avx2) = [e \in (0 .. m - 1) \X (0 .. n - 1) |-> all(e[1], e[2])]
  <2>1. CASE avx2
    BY <2>1 DEF BlockedPacked, BlockAvx2, FoldSet, MapThenFoldSet, AnyOf
  <2>2. CASE ~ avx2
    BY <2>2 DEF BlockedPacked, BlockPortable, FoldSet, MapThenFoldSet, AnyOf
  <2> QED
    BY <2>1, <2>2
<1>2. KC \in Nat \ {0} /\ NC \in Nat \ {0} /\ MC \in Nat \ {0} /\ Falling(w)
  BY MatMulAssumption, WidthsFall
<1>3. ASSUME NEW z \in Z
      PROVE  /\ z[1][1] \in Blocks(k, KC) /\ z[1][2] \in Blocks(n, NC) /\ z[2] \in Blocks(m, MC)
             /\ z = <<<<z[1][1], z[1][2]>>, z[2]>> /\ z[1] \in blocks
             /\ kLen(z) \in Nat /\ nLen(z) \in Nat /\ mLen(z) \in Nat
             /\ z[1][1] \in Nat /\ z[1][2] \in Nat /\ z[2] \in Nat /\ z[1][1] + kLen(z) <= k
  <2>1. /\ z[1][1] \in Blocks(k, KC) /\ z[1][2] \in Blocks(n, NC) /\ z[2] \in Blocks(m, MC)
        /\ z = <<<<z[1][1], z[1][2]>>, z[2]>> /\ z[1] \in blocks
    OBVIOUS
  <2> HIDE DEF Z, blocks
  <2>2. /\ kLen(z) \in Nat /\ nLen(z) \in Nat /\ mLen(z) \in Nat
        /\ z[1][1] \in Nat /\ z[1][2] \in Nat /\ z[2] \in Nat /\ z[1][1] < k
    BY <1>2, <2>1, FewBlocks
  <2>3. z[1][1] + kLen(z) <= k
    BY <1>2, <2>2 DEF Least
  <2> QED
    BY <2>1, <2>2, <2>3
<1> DEFINE rowsAt(i, j, z) == RowsAdded(kLen(z), nLen(z), mLen(z), i, j, z[1][1], z[1][2], z[2])
<1>4. ASSUME NEW i \in Int, NEW j \in Int, NEW z \in Z
      PROVE  sum(i, j, z) = CountOver(Pairs(a, b, k, i, j), rowsAt(i, j, z))
  <2> DEFINE k0 == z[1][1]
             n0 == z[1][2]
             m0 == z[2]
             kl == kLen(z)
             nl == nLen(z)
             ml == mLen(z)
  <2>1. packed[z[1]] = PackBPanel(b, k0, kl, n0, nl)
    <3>1. z[1] \in blocks
      BY <1>3
    <3> HIDE DEF blocks, Z
    <3> QED
      BY <3>1
  <2>2. kl \in Nat /\ nl \in Nat /\ ml \in Nat /\ k0 \in Nat /\ n0 \in Int /\ m0 \in Int /\ k0 + kl <= k
    BY <1>3
  <2>3. sum(i, j, z) = BlockSum(a, PackBPanel(b, k0, kl, n0, nl), kl, nl, ml, i, j, k0, n0, m0, w)
    <3> HIDE DEF packed, kl, nl, ml, k0, n0, m0, w
    <3> QED
      BY <2>1 DEF kl, nl, ml, k0, n0, m0
  <2>4. rowsAt(i, j, z) = RowsAdded(kl, nl, ml, i, j, k0, n0, m0)
    OBVIOUS
  <2> HIDE DEF k0, n0, m0, kl, nl, ml, w, packed, rowsAt, Z
  <2>5. BlockSum(a, PackBPanel(b, k0, kl, n0, nl), kl, nl, ml, i, j, k0, n0, m0, w)
          = CountOver(Pairs(a, b, k, i, j), RowsAdded(kl, nl, ml, i, j, k0, n0, m0))
    BY <1>2, <2>2, BlockAdds
  <2> QED
    BY <2>3, <2>4, <2>5
<1>5. ASSUME NEW i \in Int, NEW j \in Int, i \in 0 .. m - 1, j \in 0 .. n - 1
      PROVE  all(i, j) = ScalarReference(a, b, k, i, j)
  <2> DEFINE g == Pairs(a, b, k, i, j)
             here(z) == i - z[2] \in 0 .. mLen(z) - 1 /\ j - z[1][2] \in 0 .. nLen(z) - 1
             rows(z) == rowsAt(i, j, z)
             part == [z \in Z |-> rows(z)]
             v == [z \in Z |-> sum(i, j, z)]
             pick == [s \in SUBSET Z |-> AnyOf(s)]
             Eq(f) == f = [s \in SUBSET Z |-> IF s = {} THEN Zero ELSE Add2(f[s \ {pick[s]}], v[pick[s]])]
             it == CHOOSE f : Eq(f)
  <2>1. \A z \in Z : sum(i, j, z) = CountOver(g, rows(z))
    BY <1>4
  <2>2. all(i, j) = it[Z]
    <3>1. ASSUME NEW s \in SUBSET Z, s # {} PROVE pick[s] = AnyOf(s) /\ v[AnyOf(s)] = sum(i, j, AnyOf(s))
      <4>1. AnyOf(s) \in Z
        BY <3>1 DEF AnyOf
      <4> QED
        BY <4>1
    <3> HIDE DEF v, pick, Z, sum
    <3>2. \A f : Eq(f) <=> Eq2(i, j, f)
      BY <3>1
    <3> HIDE DEF Eq, Eq2
    <3>3. it = CHOOSE f : Eq2(i, j, f)
      BY <3>2
    <3> HIDE DEF it
    <3> QED
      BY <3>3
  <2>3. IsFiniteSet(K) /\ IsFiniteSet(Z)
    <3>1. k - 1 \in Int
      OBVIOUS
    <3>2. IsFiniteSet(K)
      BY <3>1, FS_Interval
    <3>3. IsFiniteSet(Blocks(k, KC)) /\ IsFiniteSet(Blocks(n, NC)) /\ IsFiniteSet(Blocks(m, MC))
      BY <1>2, FewBlocks
    <3>4. IsFiniteSet(blocks)
      BY <3>3, FS_Product
    <3> HIDE DEF blocks
    <3>5. IsFiniteSet(Z)
      BY <3>3, <3>4, FS_Product
    <3> QED
      BY <3>2, <3>5
  <2> DEFINE n0 == Begin(j, NC)
             m0 == Begin(i, MC)
  <2>4. /\ n0 \in Blocks(n, NC) /\ j - n0 \in 0 .. Least(n - n0, NC) - 1
        /\ m0 \in Blocks(m, MC) /\ i - m0 \in 0 .. Least(m - m0, MC) - 1
        /\ \A x \in Blocks(n, NC) : j - x \in 0 .. Least(n - x, NC) - 1 => x = n0
        /\ \A x \in Blocks(m, MC) : i - x \in 0 .. Least(m - x, MC) - 1 => x = m0
    BY <1>2, <1>5, BlocksDivide
  <2> HIDE DEF n0, m0
  <2>5. ASSUME NEW z \in Z, NEW p, p \in rows(z)
        PROVE  p \in K /\ z = <<<<Begin(p, KC), n0>>, m0>>
    <3>1. here(z) /\ p \in z[1][1] .. z[1][1] + kLen(z) - 1
      BY <2>5 DEF RowsAdded
    <3>2. z[1][2] = n0 /\ z[2] = m0
      <4>1. z[1][2] \in Blocks(n, NC) /\ z[2] \in Blocks(m, MC)
        BY <1>3
      <4> HIDE DEF Z
      <4> QED
        BY <2>4, <3>1, <4>1
    <3> DEFINE x == z[1][1]
               l == Least(k - x, KC)
    <3>3. x \in Nat /\ l \in Nat /\ x + l <= k /\ x \in Blocks(k, KC) /\ p \in x .. x + l - 1
      BY <1>3, <3>1
    <3>4. z = <<<<x, n0>>, m0>>
      <4>1. z = <<<<z[1][1], z[1][2]>>, z[2]>>
        BY <1>3
      <4> HIDE DEF Z
      <4> QED
        BY <3>2, <4>1
    <3> HIDE DEF x, Z
    <3>5. p \in K /\ p - x \in 0 .. l - 1
      <4> HIDE DEF l
      <4> QED
        BY <3>3
    <3>6. x = Begin(p, KC)
      BY <1>2, <3>3, <3>5, BlocksDivide
    <3> QED
      BY <3>4, <3>5, <3>6
  <2>6. ASSUME NEW p \in K PROVE \E z \in Z : p \in rows(z)
    <3> DEFINE x == Begin(p, KC)
               z == <<<<x, n0>>, m0>>
    <3>1. x \in Blocks(k, KC) /\ p - x \in 0 .. Least(k - x, KC) - 1
      BY <1>2, BlocksDivide
    <3> HIDE DEF x
    <3>2. z \in Z
      BY <2>4, <3>1
    <3>3. z[1][1] = x /\ z[1][2] = n0 /\ z[2] = m0
      OBVIOUS
    <3>4. here(z)
      <4> HIDE DEF z
      <4> QED
        BY <2>4, <3>3
    <3>5. p \in z[1][1] .. z[1][1] + kLen(z) - 1
      <4>1. x \in Nat /\ Least(k - x, KC) \in Nat
        BY <1>2, <3>1, FewBlocks
      <4> DEFINE l == Least(k - x, KC)
      <4>2. l \in Nat /\ p - x \in 0 .. l - 1
        BY <3>1, <4>1
      <4> HIDE DEF l
      <4>3. p \in x .. x + l - 1
        BY <4>1, <4>2
      <4> QED
        BY <3>3, <4>3 DEF l
    <3>6. p \in rows(z)
      <4> HIDE DEF z
      <4> QED
        BY <3>4, <3>5 DEF RowsAdded
    <3> HIDE DEF z, Z, here, rows
    <3> QED
      BY <3>2, <3>6
  <2>7. SumsOfParts(v, g, part, K, Z)
    <3> HIDE DEF Z, K, rows, g, sum
    <3>1. part \in [Z -> SUBSET K]
      BY <2>5
    <3>2. \A y, z \in Z : y # z => part[y] \cap part[z] = {}
      <4>1. ASSUME NEW y \in Z, NEW z \in Z, NEW p, p \in rows(y), p \in rows(z) PROVE y = z
        BY <2>5, <4>1
      <4> QED
        BY <4>1
    <3>3. \A z \in Z : v[z] = CountOver(g, part[z])
      BY <2>1
    <3> HIDE DEF part, v
    <3> QED
      BY <3>1, <3>2, <3>3 DEF SumsOfParts
  <2>8. UNION {part[z] : z \in Z} = K
    <3> HIDE DEF Z, K, rows
    <3>1. \A z \in Z : part[z] = rows(z)
      OBVIOUS
    <3> HIDE DEF part
    <3> QED
      BY <2>5, <2>6, <3>1
  <2>9. AddsUp(it, v, pick, Z)
    BY DEF AddsUp
  <2>10. Picks(pick, Z)
    <3> HIDE DEF Z
    <3> QED
      BY DEF Picks, AnyOf
  <2> HIDE DEF it, v, pick, part, Z, K, g, all
  <2>11. it[Z] = CountOver(g, K)
    BY <2>3, <2>7, <2>8, <2>9, <2>10, FoldedParts
  <2> QED
    BY <2>2, <2>11, ReferenceCounts DEF g, K
<1> HIDE DEF all
<1>6. \A e \in (0 .. m - 1) \X (0 .. n - 1) : all(e[1], e[2]) = ScalarReference(a, b, k, e[1], e[2])
  BY <1>5
<1> QED
  BY <1>1, <1>6 DEF ReferenceProduct

(* A product of two matrices of any size, with any strides, with or        *)
(* without AVX2, is that of the scalar code: matmul_2d_f32 takes one of    *)
(* six paths by sizes and strides, and each of them, however it streams,   *)
(* unrolls, packs and pads, multiplies and adds every pair once.           *)
THEOREM MatMulPathsAgree ==
    ASSUME NEW a, Placed(a), NEW b, Placed(b), NEW m \in Nat, NEW k \in Nat, NEW n \in Nat,
           NEW avx2 \in BOOLEAN
    PROVE  MatMul2D(a, b, m, k, n, avx2) = ReferenceProduct(a, b, m, k, n)
<1>1. CASE m > SMALL_M /\ a.col = 1
  <2>1. MatMul2D(a, b, m, k, n, avx2) = BlockedPacked(a, b, m, k, n, avx2) /\ a.col = 1
    BY <1>1 DEF MatMul2D
  <2> QED
    BY <2>1, BlockedIsReference
<1>2. CASE ~ (m > SMALL_M /\ a.col = 1)
  <2> DEFINE E == (0 .. m - 1) \X (0 .. n - 1)
             one(i, j) == IF m <= SMALL_M /\ SmallPathApplies(a, b) THEN SmallM(a, b, m, k, n, i, j, avx2)
                          ELSE ScalarReference(a, b, k, i, j)
  <2>1. MatMul2D(a, b, m, k, n, avx2) = [e \in E |-> one(e[1], e[2])]
    BY <1>2 DEF MatMul2D
  <2>2. ASSUME NEW i \in 0 .. m - 1, NEW j \in 0 .. n - 1 PROVE one(i, j) = ScalarReference(a, b, k, i, j)
    BY SmallMIsReference
  <2> HIDE DEF one
  <2>3. \A e \in E : one(e[1], e[2]) = ScalarReference(a, b, k, e[1], e[2])
    BY <2>2
  <2> QED
    BY <2>1, <2>3 DEF ReferenceProduct
<1> QED
  BY <1>1, <1>2
=============================================================================
