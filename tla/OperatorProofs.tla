------------------------- MODULE OperatorProofs -------------------------
(***************************************************************************)
(* That the kernels which copy elements, or compute with one element or    *)
(* one line at a time, do on every backend what their operator means: a    *)
(* shape of any rank is divided into lines and blocks, and these among     *)
(* tasks, spans, warps and threads, each element once.                     *)
(***************************************************************************)
EXTENDS KernelProofs, SequenceTheorems

\* The sums h of the first n elements of a sequence.
Sums(h, q, n) ==
    /\ h \in [0 .. n -> Int] /\ h[0] = 0
    /\ \A k \in 1 .. n : h[k] = h[k - 1] + q[k]

\* Adding up gives the last of these sums.
LEMMA TotalIs ==
    ASSUME NEW n \in Nat, NEW q \in [1 .. n -> Int], NEW h, Sums(h, q, n)
    PROVE  Total(q) = h[n]
<1> DEFINE S == 1 .. n
           Eq(f) == f = [s \in SUBSET S |-> IF s = {} THEN 0 ELSE f[s \ {Max(s)}] + q[Max(s)]]
           it == CHOOSE f : Eq(f)
           step == [p \in S \X Int |-> p[2] + q[p[1]]]
<1>1. DOMAIN q = S /\ \A k \in S : q[k] \in Int
  OBVIOUS
<1>2. Total(q) = it[S]
  <2>1. Total(q) = (CHOOSE f : f = [s \in SUBSET DOMAIN q |->
                                 IF s = {} THEN 0 ELSE f[s \ {Max(s)}] + q[Max(s)]])[DOMAIN q]
    BY DEF Total, FoldLeft, MapThenFoldSet
  <2> QED
    BY <1>1, <2>1
<1>3. step \in [S \X Int -> Int]
  <2>1. ASSUME NEW p \in S \X Int PROVE p[2] + q[p[1]] \in Int
    <3>1. p[1] \in S /\ p[2] \in Int
      OBVIOUS
    <3> HIDE DEF S
    <3> QED
      BY <1>1, <3>1
  <2> HIDE DEF S
  <2> QED
    BY <2>1
<1>4. PICK g \in [SUBSET S -> Int] : IsLeftFold(g, 0, step, S)
  <2>1. S = 1 .. n /\ 0 \in Int
    OBVIOUS
  <2> HIDE DEF step, S
  <2> QED
    BY <2>1, <1>3, LeftFoldExists
<1>5. Eq(g)
  <2>1. ASSUME NEW s \in SUBSET S, s # {} PROVE g[s] = g[s \ {Max(s)}] + q[Max(s)]
    <3>1. Max(s) \in S /\ s \ {Max(s)} \in SUBSET S
      BY <2>1, Segments
    <3>2. g[s \ {Max(s)}] \in Int /\ g[s] = step[<<Max(s), g[s \ {Max(s)}]>>]
      BY <1>4, <2>1, <3>1 DEF IsLeftFold
    <3> HIDE DEF S
    <3> QED
      BY <3>1, <3>2
  <2> HIDE DEF S
  <2> QED
    BY <1>4, <2>1 DEF IsLeftFold
<1>6. Eq(it)
  <2> HIDE DEF Eq
  <2> QED
    BY <1>5
<1> DEFINE T == {k \in 0 .. n : it[1 .. k] = h[k]}
<1>7. it[{}] = 0
  <2> HIDE DEF it
  <2> QED
    BY <1>6
<1>8. \A k \in 0 .. n : k \in T
  <2>1. 0 \in T
    <3> HIDE DEF it
    <3> QED
      BY <1>7, Segments DEF Sums
  <2>2. ASSUME NEW k \in 0 .. n - 1, k \in T PROVE k + 1 \in T
    <3>1. k + 1 \in 1 .. n /\ (k + 1) - 1 = k /\ k \in 0 .. n /\ k + 1 \in 0 .. n /\ it[1 .. k] = h[k]
      BY <2>2
    <3>2. it[1 .. k + 1] = it[1 .. k] + q[k + 1]
      <4>1. /\ 1 .. k + 1 \in SUBSET S /\ 1 .. k + 1 # {} /\ Max(1 .. k + 1) = k + 1
            /\ (1 .. k + 1) \ {k + 1} = 1 .. k
        BY <3>1, Segments
      <4> HIDE DEF it, S
      <4> QED
        BY <1>6, <4>1
    <3>3. h[k + 1] = h[k] + q[k + 1]
      BY <3>1 DEF Sums
    <3> HIDE DEF it
    <3> QED
      BY <3>1, <3>2, <3>3
  <2> HIDE DEF T
  <2> QED
    BY <2>1, <2>2, BoundedInduction
<1>9. it[1 .. n] = h[n]
  <2>1. n \in 0 .. n
    OBVIOUS
  <2> HIDE DEF it
  <2> QED
    BY <1>8, <2>1
<1> HIDE DEF it
<1> QED
  BY <1>2, <1>9

\* There are such sums.
LEMMA SumsExist ==
    ASSUME NEW n \in Nat, NEW q \in [1 .. n -> Int]
    PROVE  \E h : Sums(h, q, n)
<1> DEFINE S == 1 .. n
           step == [p \in S \X Int |-> p[2] + q[p[1]]]
<1>1. \A p \in S \X Int : p[2] + q[p[1]] \in Int
  <2> SUFFICES ASSUME NEW p \in S \X Int PROVE p[2] + q[p[1]] \in Int
    OBVIOUS
  <2>1. p[1] \in S /\ p[2] \in Int /\ \A k \in S : q[k] \in Int
    OBVIOUS
  <2> HIDE DEF S
  <2> QED
    BY <2>1
<1>2. step \in [S \X Int -> Int]
  <2> HIDE DEF S
  <2> QED
    BY <1>1
<1>3. PICK h \in [0 .. n -> Int] : Accumulates(h, 0, step, n)
  <2>1. S = 1 .. n /\ 0 \in Int
    OBVIOUS
  <2> HIDE DEF S, step
  <2> QED
    BY <1>2, <2>1, Accumulation
<1>4. ASSUME NEW k \in 1 .. n PROVE h[k] = h[k - 1] + q[k]
  <2>1. k - 1 \in 0 .. n /\ h[k - 1] \in Int /\ k \in S
    OBVIOUS
  <2>2. h[k] = step[<<k, h[k - 1]>>]
    BY <1>3 DEF Accumulates
  <2> QED
    BY <2>1, <2>2
<1> QED
  BY <1>3, <1>4 DEF Accumulates, Sums

\* Multiplying gives the last of the products of the first elements.
LEMMA ProductIs ==
    ASSUME NEW s \in Seq(Nat), NEW h, Multiplies(h, s)
    PROVE  Product(s) = h[Len(s)]
<1> DEFINE n == Len(s)
           S == 1 .. n
           Eq(f) == f = [u \in SUBSET S |-> IF u = {} THEN 1 ELSE f[u \ {Max(u)}] * s[Max(u)]]
           it == CHOOSE f : Eq(f)
           step == [p \in S \X Nat |-> p[2] * s[p[1]]]
<1>1. DOMAIN s = S /\ n \in Nat /\ \A k \in S : s[k] \in Nat
  OBVIOUS
<1>2. Product(s) = it[S]
  <2>1. Product(s) = (CHOOSE f : f = [u \in SUBSET DOMAIN s |->
                                 IF u = {} THEN 1 ELSE f[u \ {Max(u)}] * s[Max(u)]])[DOMAIN s]
    BY DEF Product, FoldLeft, MapThenFoldSet
  <2> QED
    BY <1>1, <2>1
<1>3. step \in [S \X Nat -> Nat]
  <2>1. ASSUME NEW p \in S \X Nat PROVE p[2] * s[p[1]] \in Nat
    <3>1. p[1] \in S /\ p[2] \in Nat
      OBVIOUS
    <3>2. s[p[1]] \in Nat
      BY <1>1, <3>1
    <3> HIDE DEF S, n
    <3> QED
      BY <3>1, <3>2
  <2> HIDE DEF S
  <2> QED
    BY <2>1
<1>4. PICK g \in [SUBSET S -> Nat] : IsLeftFold(g, 1, step, S)
  <2>1. n \in Nat /\ 1 \in Nat /\ S = 1 .. n
    BY <1>1
  <2> HIDE DEF step, S, n
  <2> QED
    BY <2>1, <1>3, LeftFoldExists
<1>5. Eq(g)
  <2>1. ASSUME NEW u \in SUBSET S, u # {} PROVE g[u] = g[u \ {Max(u)}] * s[Max(u)]
    <3>1. Max(u) \in S /\ u \ {Max(u)} \in SUBSET S
      BY <1>1, <2>1, Segments
    <3>2. g[u \ {Max(u)}] \in Nat /\ g[u] = step[<<Max(u), g[u \ {Max(u)}]>>]
      BY <1>4, <2>1, <3>1 DEF IsLeftFold
    <3> HIDE DEF S
    <3> QED
      BY <3>1, <3>2
  <2> HIDE DEF S
  <2> QED
    BY <1>4, <2>1 DEF IsLeftFold
<1>6. Eq(it)
  <2> HIDE DEF Eq
  <2> QED
    BY <1>5
<1> DEFINE T == {k \in 0 .. n : it[1 .. k] = h[k]}
<1>7. it[{}] = 1
  <2> HIDE DEF it
  <2> QED
    BY <1>6
<1>8. \A k \in 0 .. n : k \in T
  <2>1. 0 \in T
    <3> HIDE DEF it
    <3> QED
      BY <1>1, <1>7, Segments DEF Multiplies
  <2>2. ASSUME NEW k \in 0 .. n - 1, k \in T PROVE k + 1 \in T
    <3>1. k + 1 \in 1 .. n /\ (k + 1) - 1 = k /\ k \in 0 .. n /\ k + 1 \in 0 .. n /\ it[1 .. k] = h[k]
      BY <2>2
    <3>2. it[1 .. k + 1] = it[1 .. k] * s[k + 1]
      <4>1. /\ 1 .. k + 1 \in SUBSET S /\ 1 .. k + 1 # {} /\ Max(1 .. k + 1) = k + 1
            /\ (1 .. k + 1) \ {k + 1} = 1 .. k
        BY <1>1, <3>1, Segments
      <4> HIDE DEF it, S
      <4> QED
        BY <1>6, <4>1
    <3>3. h[k + 1] = h[k] * s[k + 1]
      BY <1>1, <3>1 DEF Multiplies
    <3> HIDE DEF it
    <3> QED
      BY <3>1, <3>2, <3>3
  <2> HIDE DEF T, n
  <2> QED
    BY <1>1, <2>1, <2>2, BoundedInduction
<1>9. it[1 .. n] = h[n]
  <2>1. n \in 0 .. n
    BY <1>1
  <2> HIDE DEF it
  <2> QED
    BY <1>8, <2>1
<1> HIDE DEF it
<1> QED
  BY <1>2, <1>9

\* One more factor, at either end; no factors at all.
LEMMA ProductsGrow ==
    ASSUME NEW s \in Seq(Nat), NEW x \in Nat
    PROVE  /\ Product(s) \in Nat
           /\ Product(<<x>> \o s) = x * Product(s) /\ Product(s \o <<x>>) = Product(s) * x
           /\ s = <<>> => Product(s) = 1
<1>1. PICK h : Multiplies(h, s)
  BY ProductsExist
<1> DEFINE n == Len(s)
           f == [k \in 0 .. n + 1 |-> IF k = 0 THEN 1 ELSE x * h[k - 1]]
           g == [k \in 0 .. n + 1 |-> IF k = n + 1 THEN h[n] * x ELSE h[k]]
<1>2. n \in Nat /\ Product(s) = h[n] /\ h[n] \in Nat /\ h[0] = 1 /\ \A k \in 0 .. n : h[k] \in Nat
  <2>1. Product(s) = h[n]
    BY <1>1, ProductIs
  <2>2. n \in Nat
    OBVIOUS
  <2>3. h[0] = 1 /\ \A k \in 0 .. n : h[k] \in Nat
    BY <1>1 DEF Multiplies
  <2> QED
    BY <2>1, <2>2, <2>3
<1>3. /\ <<x>> \o s \in Seq(Nat) /\ Len(<<x>> \o s) = n + 1 /\ (<<x>> \o s)[1] = x
      /\ \A k \in 2 .. n + 1 : (<<x>> \o s)[k] = s[k - 1]
  OBVIOUS
<1>4. /\ s \o <<x>> \in Seq(Nat) /\ Len(s \o <<x>>) = n + 1 /\ (s \o <<x>>)[n + 1] = x
      /\ \A k \in 1 .. n : (s \o <<x>>)[k] = s[k]
  OBVIOUS
<1>5. Multiplies(f, <<x>> \o s)
  <2>1. \A k \in 0 .. n + 1 : k # 0 => x * h[k - 1] \in Nat
    BY <1>2
  <2>2. f \in [0 .. n + 1 -> Nat] /\ f[0] = 1
    BY <1>2, <2>1
  <2>3. ASSUME NEW k \in 1 .. n + 1 PROVE f[k] = f[k - 1] * (<<x>> \o s)[k]
    <3>1. CASE k = 1
      BY <1>2, <1>3, <3>1
    <3>2. CASE k # 1
      <4>1. k \in 2 .. n + 1 /\ k - 1 \in 1 .. n /\ s[k - 1] \in Nat /\ (k - 1) - 1 \in 0 .. n
        BY <1>2, <3>2
      <4>2. h[k - 1] = h[(k - 1) - 1] * s[k - 1] /\ h[(k - 1) - 1] \in Nat
        BY <1>1, <1>2, <4>1 DEF Multiplies
      <4>3. f[k] = x * h[k - 1] /\ f[k - 1] = x * h[(k - 1) - 1]
        BY <1>2, <4>1
      <4>4. x * (h[(k - 1) - 1] * s[k - 1]) = (x * h[(k - 1) - 1]) * s[k - 1]
        BY <4>1, <4>2
      <4> HIDE DEF f
      <4> QED
        BY <1>3, <4>1, <4>2, <4>3, <4>4
    <3> QED
      BY <3>1, <3>2
  <2> HIDE DEF f
  <2> QED
    BY <1>3, <2>2, <2>3 DEF Multiplies
<1>6. Multiplies(g, s \o <<x>>)
  <2>1. g \in [0 .. n + 1 -> Nat] /\ g[0] = 1
    BY <1>2
  <2>2. ASSUME NEW k \in 1 .. n + 1 PROVE g[k] = g[k - 1] * (s \o <<x>>)[k]
    <3>1. CASE k = n + 1
      BY <1>2, <1>4, <3>1
    <3>2. CASE k # n + 1
      <4>1. k \in 1 .. n /\ k - 1 # n + 1 /\ k - 1 \in 0 .. n
        BY <1>2, <3>2
      <4>2. h[k] = h[k - 1] * s[k]
        BY <1>1, <4>1 DEF Multiplies
      <4> QED
        BY <1>2, <1>4, <4>1, <4>2
    <3> QED
      BY <3>1, <3>2
  <2> HIDE DEF g
  <2> QED
    BY <1>4, <2>1, <2>2 DEF Multiplies
<1>7. f[n + 1] = x * h[n] /\ g[n + 1] = h[n] * x
  BY <1>2
<1>8. s = <<>> => n = 0
  OBVIOUS
<1> HIDE DEF f, g
<1>9. Product(<<x>> \o s) = f[n + 1]
  BY <1>3, <1>5, ProductIs
<1>10. Product(s \o <<x>>) = g[n + 1]
  BY <1>4, <1>6, ProductIs
<1>11. s = <<>> => Product(s) = 1
  BY <1>2, <1>8
<1> HIDE DEF n
<1> QED
  BY <1>2, <1>7, <1>9, <1>10, <1>11

\* A shape without an empty axis.
IsShape(s) == s \in Seq(Nat \ {0})

\* A number and its quotient and remainder.
LEMMA BlockParts ==
    ASSUME NEW a \in Nat, NEW w \in Nat \ {0}
    PROVE  a \div w \in Nat /\ a % w \in 0 .. w - 1 /\ a = (a \div w) * w + (a % w)
<1>1. a \in 0 .. (a + 1) - 1 /\ a + 1 \in Nat
  OBVIOUS
<1> QED
  BY <1>1, BlockIndex

\* A product of positive numbers is positive.
LEMMA NonZeroProduct ==
    ASSUME NEW s \in Nat \ {0}, NEW w \in Nat \ {0}
    PROVE  s * w \in Nat \ {0}
<1>1. \E k \in Nat : s = k + 1
  <2>1. s - 1 \in Nat /\ s = (s - 1) + 1
    OBVIOUS
  <2> QED
    BY <2>1
<1>2. PICK k \in Nat : s = k + 1
  BY <1>1
<1>3. (k + 1) * w = k * w + w /\ k * w \in Nat
  OBVIOUS
<1> QED
  BY <1>2, <1>3

\* A number in a system of two radices.
LEMMA MixedRadix ==
    ASSUME NEW a \in Nat, NEW s \in Nat \ {0}, NEW w \in Nat \ {0}
    PROVE  /\ s * w \in Nat \ {0} /\ a \div w \in Nat /\ a % w \in 0 .. w - 1
           /\ (a \div w) % s \in 0 .. s - 1
           /\ a % (s * w) = ((a \div w) % s) * w + (a % w)
           /\ a \div (s * w) = (a \div w) \div s
<1> DEFINE q == a \div w
           r == a % w
           t == q \div s
           u == q % s
           m == s * w
           x == u * w + r
<1>1. q \in Nat /\ r \in 0 .. w - 1 /\ a = q * w + r
  BY BlockParts
<1>2. t \in Nat /\ u \in 0 .. s - 1 /\ q = t * s + u
  BY <1>1, BlockParts
<1>3. m \in Nat \ {0} /\ x \in 0 .. m - 1
  <2>1. m \in Nat \ {0}
    BY NonZeroProduct
  <2>2. u * w \in Nat /\ (s - 1 - u) * w \in Nat /\ (s - 1 - u) * w = m - w - u * w
    BY <1>2
  <2> QED
    BY <1>1, <2>1, <2>2
<1>4. a = t * m + x
  <2>1. (t * s + u) * w = t * m + u * w /\ t * m \in Nat /\ u * w \in Nat
    BY <1>2
  <2>2. a = (t * s + u) * w + r
    BY <1>1, <1>2
  <2> HIDE DEF t, u, m, r
  <2>3. r \in Int
    BY <1>1
  <2> QED
    BY <2>1, <2>2, <2>3
<1> HIDE DEF x, m, t
<1>5. a % m = x /\ a \div m = t
  BY <1>2, <1>3, <1>4, RowAndColumn
<1> QED
  BY <1>1, <1>2, <1>3, <1>5 DEF x, m, t

\* The sizes of what lies behind each axis: default_strides.
LEMMA InnerSizes ==
    ASSUME NEW s, IsShape(s)
    PROVE  /\ \A d \in 0 .. Len(s) : Inner(s, d) \in Nat \ {0}
           /\ Inner(s, Len(s)) = 1 /\ Inner(s, 0) = Numel(s)
           /\ \A d \in 1 .. Len(s) : /\ Inner(s, d - 1) = s[d] * Inner(s, d)
                                     /\ s[d] \in Nat \ {0} /\ DefaultStrides(s)[d] = Inner(s, d)
<1> DEFINE n == Len(s)
<1>1. n \in Nat /\ s \in Seq(Nat) /\ DOMAIN s = 1 .. n /\ \A d \in 1 .. n : s[d] \in Nat \ {0}
  BY DEF IsShape
<1>2. ASSUME NEW d \in 1 .. n PROVE Inner(s, d - 1) = s[d] * Inner(s, d)
  <2> DEFINE v == SubSeq(s, d + 1, n)
             u == SubSeq(s, d, n)
  <2>1. v \in Seq(Nat)
    BY <1>1, SubSeqProperties
  <2>2. u = <<s[d]>> \o v
    BY <1>1, SubSeqRecursiveFirst
  <2>3. Product(u) = s[d] * Product(v)
    BY <1>1, <2>1, <2>2, ProductsGrow
  <2>4. (d - 1) + 1 = d
    OBVIOUS
  <2> QED
    BY <2>3, <2>4 DEF Inner
<1>3. Inner(s, n) = 1
  <2>1. SubSeq(s, n + 1, n) = <<>> /\ <<>> \in Seq(Nat)
    BY <1>1
  <2>2. Product(<<>>) = 1
    BY <2>1, ProductsGrow
  <2> QED
    BY <2>1, <2>2 DEF Inner
<1>4. Inner(s, 0) = Numel(s)
  <2>1. SubSeq(s, 0 + 1, n) = s
    BY <1>1
  <2> QED
    BY <2>1 DEF Inner, Numel
<1> DEFINE T == {k \in 0 .. n : Inner(s, n - k) \in Nat \ {0}}
<1>5. \A k \in 0 .. n : k \in T
  <2>1. 0 \in T
    BY <1>1, <1>3
  <2>2. ASSUME NEW k \in 0 .. n - 1, k \in T PROVE k + 1 \in T
    <3>1. n - k \in 1 .. n /\ (n - k) - 1 = n - (k + 1) /\ k + 1 \in 0 .. n /\ Inner(s, n - k) \in Nat \ {0}
      BY <1>1, <2>2
    <3>2. Inner(s, n - (k + 1)) = s[n - k] * Inner(s, n - k)
      BY <1>2, <3>1
    <3>3. s[n - k] \in Nat \ {0}
      BY <1>1, <3>1
    <3> HIDE DEF n
    <3> QED
      BY <3>1, <3>2, <3>3, NonZeroProduct
  <2> HIDE DEF T, n
  <2> QED
    BY <1>1, <2>1, <2>2, BoundedInduction
<1>6. \A d \in 0 .. n : Inner(s, d) \in Nat \ {0}
  <2> SUFFICES ASSUME NEW d \in 0 .. n PROVE Inner(s, d) \in Nat \ {0}
    OBVIOUS
  <2>1. n - d \in 0 .. n /\ n - (n - d) = d
    BY <1>1
  <2> QED
    BY <1>5, <2>1
<1>7. \A d \in 1 .. n : DefaultStrides(s)[d] = Inner(s, d)
  BY <1>1 DEF DefaultStrides, Inner
<1> QED
  BY <1>1, <1>2, <1>3, <1>4, <1>6, <1>7

\* The axes in front of axis d, as a shape.
FrontOf(s, d) == SubSeq(s, 1, d - 1)

\* What lies in front of an axis is divided as if it were a shape of its own.
LEMMA FrontSizes ==
    ASSUME NEW s, IsShape(s), NEW d \in 1 .. Len(s)
    PROVE  /\ IsShape(FrontOf(s, d)) /\ Len(FrontOf(s, d)) = d - 1 /\ Numel(FrontOf(s, d)) = Outer(s, d)
           /\ \A e \in 1 .. d - 1 : FrontOf(s, d)[e] = s[e]
           /\ \A e \in 0 .. d - 1 : Inner(s, e) = Inner(FrontOf(s, d), e) * (s[d] * Inner(s, d))
           /\ Numel(s) = Outer(s, d) * (s[d] * Inner(s, d)) /\ Outer(s, d) \in Nat \ {0}
<1> DEFINE p == FrontOf(s, d)
           U == s[d] * Inner(s, d)
<1>1. /\ Len(s) \in Nat /\ d \in Nat /\ d >= 1 /\ d <= Len(s) /\ \A e \in 1 .. Len(s) : s[e] \in Nat \ {0}
      /\ s \in Seq(Nat \ {0})
  BY DEF IsShape
<1>2. p \in Seq(Nat \ {0}) /\ Len(p) = d - 1 /\ \A e \in 1 .. d - 1 : p[e] = s[e]
  <2>1. \A e \in 1 .. d - 1 : s[e] \in Nat \ {0}
    BY <1>1
  <2>2. 1 \in Int /\ d - 1 \in Int
    BY <1>1
  <2>3. /\ SubSeq(s, 1, d - 1) \in Seq(Nat \ {0})
        /\ Len(SubSeq(s, 1, d - 1)) = IF 1 <= d - 1 THEN (d - 1) - 1 + 1 ELSE 0
        /\ \A e \in 1 .. (d - 1) - 1 + 1 : SubSeq(s, 1, d - 1)[e] = s[1 + e - 1]
    BY <2>1, <2>2, SubSeqProperties
  <2>4. (d - 1) - 1 + 1 = d - 1 /\ \A e \in 1 .. d - 1 : 1 + e - 1 = e
    BY <1>1
  <2> QED
    BY <1>1, <2>3, <2>4 DEF FrontOf
<1>3. IsShape(p)
  BY <1>2 DEF IsShape
<1>4. U \in Nat \ {0} /\ Inner(s, d - 1) = U
  BY <1>1, InnerSizes, NonZeroProduct
<1> HIDE DEF U
<1> DEFINE m == d - 1
           T == {k \in 0 .. m : Inner(s, m - k) = Inner(p, m - k) * U}
<1>5. \A k \in 0 .. m : k \in T
  <2>1. 0 \in T
    <3>1. Inner(p, m) = 1
      BY <1>2, <1>3, InnerSizes
    <3>2. m - 0 = m /\ 0 \in 0 .. m
      BY <1>1
    <3> QED
      BY <1>4, <3>1, <3>2
  <2>2. ASSUME NEW k \in 0 .. m - 1, k \in T PROVE k + 1 \in T
    <3> DEFINE e == m - k
    <3>1. e \in 1 .. m /\ e \in 1 .. Len(s) /\ e - 1 = m - (k + 1) /\ k + 1 \in 0 .. m
      BY <1>1
    <3>2. Inner(s, e) = Inner(p, e) * U
      BY <2>2
    <3>3. Inner(s, e - 1) = s[e] * Inner(s, e) /\ Inner(p, e - 1) = s[e] * Inner(p, e) /\ s[e] \in Nat
      BY <1>1, <1>2, <1>3, <3>1, InnerSizes
    <3>4. Inner(p, e) \in Nat
      BY <1>2, <1>3, <3>1, InnerSizes
    <3>5. s[e] * (Inner(p, e) * U) = (s[e] * Inner(p, e)) * U
      BY <1>4, <3>3, <3>4
    <3> HIDE DEF e
    <3> QED
      BY <3>1, <3>2, <3>3, <3>5
  <2>3. m \in Nat
    BY <1>1
  <2> HIDE DEF T, m
  <2> QED
    BY <2>1, <2>2, <2>3, BoundedInduction
<1>6. ASSUME NEW e \in 0 .. d - 1 PROVE Inner(s, e) = Inner(p, e) * U
  <2>1. m - e \in 0 .. m /\ m - (m - e) = e
    BY <1>1
  <2> QED
    BY <1>5, <2>1
<1>7. Numel(p) = Outer(s, d)
  BY DEF FrontOf, Outer, Numel
<1>8. Numel(s) = Outer(s, d) * U /\ Outer(s, d) \in Nat \ {0}
  <2>1. 0 \in 0 .. d - 1 /\ 0 \in 0 .. Len(s) /\ 0 \in 0 .. Len(p)
    BY <1>1, <1>2
  <2>2. Inner(s, 0) = Numel(s) /\ Inner(p, 0) = Numel(p) /\ Inner(p, 0) \in Nat \ {0}
    BY <1>3, <2>1, InnerSizes
  <2> QED
    BY <1>6, <1>7, <2>1, <2>2
<1> HIDE DEF p
<1> QED
  BY <1>2, <1>3, <1>6, <1>7, <1>8 DEF U, p

\* Shapes that differ in one axis have the same sizes behind it and in front of it.
LEMMA SameAround ==
    ASSUME NEW s, IsShape(s), NEW u, IsShape(u), Len(u) = Len(s), NEW d \in 1 .. Len(s),
           \A e \in 1 .. Len(s) : e # d => u[e] = s[e]
    PROVE  FrontOf(u, d) = FrontOf(s, d) /\ \A e \in d .. Len(s) : Inner(u, e) = Inner(s, e)
<1>1. /\ Len(s) \in Nat /\ d \in Nat /\ s \in Seq(Nat \ {0}) /\ u \in Seq(Nat \ {0})
      /\ \A e \in 1 .. Len(s) : s[e] \in Nat \ {0} /\ u[e] \in Nat \ {0}
  BY DEF IsShape
<1>2. FrontOf(u, d) = FrontOf(s, d)
  <2>1. /\ FrontOf(s, d) \in Seq(Nat \ {0}) /\ Len(FrontOf(s, d)) = d - 1
        /\ \A e \in 1 .. d - 1 : FrontOf(s, d)[e] = s[e]
    BY FrontSizes DEF IsShape
  <2>2. /\ FrontOf(u, d) \in Seq(Nat \ {0}) /\ Len(FrontOf(u, d)) = d - 1
        /\ \A e \in 1 .. d - 1 : FrontOf(u, d)[e] = u[e]
    BY FrontSizes DEF IsShape
  <2>3. \A e \in 1 .. d - 1 : u[e] = s[e]
    BY <1>1
  <2> QED
    BY <2>1, <2>2, <2>3, SeqEqual
<1> DEFINE n == Len(s)
           T == {k \in 0 .. n - d : Inner(u, n - k) = Inner(s, n - k)}
<1>3. \A k \in 0 .. n - d : k \in T
  <2>1. 0 \in T
    BY <1>1, InnerSizes
  <2>2. ASSUME NEW k \in 0 .. (n - d) - 1, k \in T PROVE k + 1 \in T
    <3> DEFINE e == n - k
    <3>1. e \in 1 .. n /\ e # d /\ e - 1 = n - (k + 1) /\ k + 1 \in 0 .. n - d
      BY <1>1
    <3>2. Inner(u, e) = Inner(s, e)
      BY <2>2
    <3>3. Inner(u, e - 1) = u[e] * Inner(u, e) /\ Inner(s, e - 1) = s[e] * Inner(s, e) /\ u[e] = s[e]
      BY <3>1, InnerSizes
    <3> HIDE DEF e, n
    <3> QED
      BY <3>1, <3>2, <3>3
  <2>3. n - d \in Nat
    BY <1>1
  <2> HIDE DEF T, n
  <2> QED
    BY <2>1, <2>2, <2>3, BoundedInduction
<1>4. ASSUME NEW e \in d .. Len(s) PROVE Inner(u, e) = Inner(s, e)
  <2>1. n - e \in 0 .. n - d /\ n - (n - e) = e
    BY <1>1
  <2> QED
    BY <1>3, <2>1
<1> QED
  BY <1>2, <1>4

\* The coordinates of an index.
LEMMA CoordinatesAre ==
    ASSUME NEW s, IsShape(s), NEW i \in Nat
    PROVE  /\ DOMAIN Coordinates(i, s) = 1 .. Len(s) /\ Coordinates(i, s) \in Seq(Nat)
           /\ Len(Coordinates(i, s)) = Len(s)
           /\ \A d \in 1 .. Len(s) : /\ Coordinates(i, s)[d] = (i \div Inner(s, d)) % s[d]
                                     /\ Coordinates(i, s)[d] \in 0 .. s[d] - 1
                                     /\ i \div Inner(s, d) \in Nat
<1> DEFINE c == Coordinates(i, s)
<1>1. DOMAIN s = 1 .. Len(s) /\ Len(s) \in Nat /\ \A d \in 1 .. Len(s) : s[d] \in Nat \ {0}
  BY DEF IsShape
<1>2. DOMAIN c = 1 .. Len(s) /\ \A d \in 1 .. Len(s) : c[d] = (i \div Inner(s, d)) % s[d]
  BY <1>1 DEF Coordinates
<1>3. ASSUME NEW d \in 1 .. Len(s) PROVE c[d] \in 0 .. s[d] - 1 /\ c[d] \in Nat /\ i \div Inner(s, d) \in Nat
  <2>1. Inner(s, d) \in Nat \ {0} /\ s[d] \in Nat \ {0}
    BY <1>1, InnerSizes
  <2>2. i \div Inner(s, d) \in Nat
    BY <2>1, BlockParts
  <2>3. (i \div Inner(s, d)) % s[d] \in 0 .. s[d] - 1
    BY <2>1, <2>2, BlockParts
  <2> QED
    BY <1>2, <2>1, <2>2, <2>3
<1>4. c \in Seq(Nat) /\ Len(c) = Len(s)
  <2>1. c = [d \in 1 .. Len(s) |-> c[d]]
    BY <1>1, <1>2 DEF Coordinates
  <2>2. c \in [1 .. Len(s) -> Nat]
    BY <1>3, <2>1
  <2> HIDE DEF c
  <2> QED
    BY <1>1, <2>2
<1> QED
  BY <1>2, <1>3, <1>4

\* The quotient of a number below a product.
LEMMA QuotientFits ==
    ASSUME NEW k \in Nat, NEW w \in Nat \ {0}, NEW a \in Nat, a < k * w
    PROVE  a \div w \in 0 .. k - 1
<1> DEFINE q == a \div w
<1>1. q \in Nat /\ a % w \in 0 .. w - 1 /\ a = q * w + (a % w)
  BY BlockParts
<1>2. k <= q => a >= k * w
  <2> SUFFICES ASSUME k <= q PROVE a >= k * w
    OBVIOUS
  <2>1. CASE k = q
    <3>1. q * w \in Nat /\ a % w \in Nat
      BY <1>1
    <3> HIDE DEF q
    <3> QED
      BY <1>1, <2>1, <3>1
  <2>2. CASE k < q
    <3>1. k * w + 0 < q * w
      <4>1. 0 \in 0 .. w - 1
        OBVIOUS
      <4> HIDE DEF q
      <4> QED
        BY <1>1, <2>2, <4>1, RowAndColumn
    <3>2. q * w \in Nat /\ a % w \in Nat /\ k * w \in Nat
      BY <1>1
    <3> HIDE DEF q
    <3> QED
      BY <1>1, <3>1, <3>2
  <2> HIDE DEF q
  <2> QED
    BY <1>1, <2>1, <2>2
<1>3. k * w \in Nat
  OBVIOUS
<1> HIDE DEF q
<1>4. q \in 0 .. k - 1
  BY <1>1, <1>2, <1>3
<1> QED
  BY <1>4 DEF q

\* What an axis adds to an offset is a difference of remainders.
LEMMA AxisAdds ==
    ASSUME NEW p, IsShape(p), NEW e \in 1 .. Len(p), NEW j \in Nat
    PROVE  /\ ((j \div Inner(p, e)) % p[e]) * Inner(p, e) = (j % Inner(p, e - 1)) - (j % Inner(p, e))
           /\ j % Inner(p, e - 1) \in Nat /\ j % Inner(p, e) \in Nat
           /\ (j \div Inner(p, e)) % p[e] \in Nat
<1>1. /\ Inner(p, e) \in Nat \ {0} /\ p[e] \in Nat \ {0} /\ Inner(p, e - 1) = p[e] * Inner(p, e)
  <2>1. e \in 0 .. Len(p)
    BY DEF IsShape
  <2> QED
    BY <2>1, InnerSizes
<1>2. ASSUME NEW w \in Nat \ {0}, NEW a \in Nat \ {0}
      PROVE  ((j \div w) % a) * w = (j % (a * w)) - (j % w) /\ j % (a * w) \in Nat /\ j % w \in Nat /\ (j \div w) % a \in Nat
  <2> DEFINE y == (j \div w) % a
             z == y * w
  <2>1. j % (a * w) = z + (j % w) /\ j % w \in Nat /\ y \in Nat
    <3>1. j % (a * w) = z + (j % w) /\ j % w \in 0 .. w - 1 /\ y \in 0 .. a - 1
      BY MixedRadix
    <3> HIDE DEF y, z
    <3> QED
      BY <3>1
  <2>2. z \in Nat
    BY <2>1
  <2> HIDE DEF z
  <2>3. (z + (j % w)) - (j % w) = z /\ z + (j % w) \in Nat
    BY <2>1, <2>2
  <2>4. z = (j % (a * w)) - (j % w) /\ j % (a * w) \in Nat
    BY <2>1, <2>3
  <2> QED
    BY <2>1, <2>4 DEF z
<1> QED
  BY <1>1, <1>2

\* The element at the coordinates of index i of one shape, one of them replaced, in another
\* shape that differs in that axis only.
LEMMA Resized ==
    ASSUME NEW s, IsShape(s), NEW u, IsShape(u), Len(u) = Len(s), NEW d \in 1 .. Len(s),
           \A e \in 1 .. Len(s) : e # d => u[e] = s[e], NEW i \in 0 .. Numel(u) - 1, NEW m \in Int
    PROVE  /\ Offset(With(Coordinates(i, u), d, m), DefaultStrides(s)) =
                (i \div (u[d] * Inner(u, d))) * (s[d] * Inner(s, d)) + m * Inner(s, d) + (i % Inner(u, d))
           /\ Inner(u, d) = Inner(s, d)
<1> DEFINE n == Len(s)
           p == FrontOf(u, d)
           U == u[d] * Inner(u, d)
           S == s[d] * Inner(s, d)
           j == i \div U
           c == With(Coordinates(i, u), d, m)
           q == [e \in DOMAIN c |-> c[e] * DefaultStrides(s)[e]]
           low == m * Inner(s, d) + (i % Inner(u, d))
           h == [e \in 0 .. n |-> IF e < d THEN (j - (j % Inner(p, e))) * S
                                  ELSE j * S + (low - (i % Inner(u, e)))]
<1>1. /\ n \in Nat /\ d \in Nat /\ d >= 1 /\ d <= n /\ \A e \in 1 .. n : s[e] \in Nat \ {0} /\ u[e] \in Nat \ {0}
      /\ Numel(u) \in Nat /\ i \in Nat /\ i < Numel(u) /\ d \in 0 .. n
  <2>1. Numel(u) \in Nat
    <3>1. 0 \in 0 .. Len(u)
      BY DEF IsShape
    <3> QED
      BY <3>1, InnerSizes
  <2> QED
    BY <2>1 DEF IsShape
<1>2. /\ U \in Nat \ {0} /\ S \in Nat \ {0} /\ Inner(u, d) = Inner(s, d) /\ Inner(s, d) \in Nat \ {0}
      /\ FrontOf(s, d) = p /\ IsShape(p) /\ Len(p) = d - 1 /\ \A e \in 1 .. d - 1 : p[e] = u[e]
      /\ Numel(u) = Numel(p) * U /\ Numel(p) \in Nat \ {0}
      /\ \A e \in 0 .. d - 1 : Inner(u, e) = Inner(p, e) * U /\ Inner(s, e) = Inner(p, e) * S
  <2>1. Inner(u, d) \in Nat \ {0} /\ Inner(s, d) \in Nat \ {0}
    BY <1>1, InnerSizes
  <2>2. U \in Nat \ {0} /\ S \in Nat \ {0}
    BY <1>1, <2>1, NonZeroProduct
  <2>3. FrontOf(s, d) = p
    BY SameAround
  <2>4. Inner(u, d) = Inner(s, d)
    <3>1. d \in d .. n
      BY <1>1
    <3> QED
      BY <3>1, SameAround
  <2>5. /\ IsShape(FrontOf(s, d)) /\ Len(FrontOf(s, d)) = d - 1 /\ Numel(FrontOf(s, d)) = Outer(s, d)
        /\ \A e \in 0 .. d - 1 : Inner(s, e) = Inner(FrontOf(s, d), e) * S
    BY FrontSizes
  <2>6. /\ \A e \in 1 .. d - 1 : p[e] = u[e]
        /\ \A e \in 0 .. d - 1 : Inner(u, e) = Inner(p, e) * U
        /\ Numel(u) = Numel(p) * U /\ Numel(p) \in Nat \ {0}
    BY FrontSizes
  <2> QED
    BY <2>1, <2>2, <2>3, <2>4, <2>5, <2>6
<1>3. /\ DOMAIN c = 1 .. n /\ c[d] = m
      /\ \A e \in 1 .. n : e # d => c[e] = (i \div Inner(u, e)) % u[e]
  <2>1. /\ DOMAIN Coordinates(i, u) = 1 .. n
        /\ \A e \in 1 .. n : Coordinates(i, u)[e] = (i \div Inner(u, e)) % u[e]
    BY <1>1, CoordinatesAre
  <2> QED
    BY <2>1 DEF With
<1>4. j \in Nat /\ j < Numel(p) /\ i % Inner(u, d) \in Nat /\ low \in Int
  <2>1. j \in Nat /\ i % U \in 0 .. U - 1 /\ i = j * U + (i % U)
    BY <1>1, <1>2, BlockParts
  <2>2. j < Numel(p)
    <3>1. j \in 0 .. Numel(p) - 1
      <4>1. i < Numel(p) * U /\ U \in Nat \ {0} /\ Numel(p) \in Nat
        BY <1>1, <1>2
      <4> HIDE DEF U
      <4> QED
        BY <1>1, <4>1, QuotientFits
    <3> QED
      BY <1>2, <3>1
  <2>3. i % Inner(u, d) \in Nat
    <3>1. Inner(u, d) \in Nat \ {0}
      BY <1>2
    <3>2. i % Inner(u, d) \in 0 .. Inner(u, d) - 1
      BY <1>1, <3>1, BlockParts
    <3> QED
      BY <3>1, <3>2
  <2>4. m * Inner(s, d) \in Int
    BY <1>2
  <2> QED
    BY <2>1, <2>2, <2>3, <2>4
<1> HIDE DEF j, c, low
<1>5. ASSUME NEW e \in 1 .. n
      PROVE  q[e] \in Int /\ h[e] \in Int /\ h[e - 1] \in Int /\ h[e] = h[e - 1] + q[e]
  <2>1. e \in 0 .. n /\ e - 1 \in 0 .. n /\ e \in Int
    BY <1>1
  <2>2. q[e] = c[e] * Inner(s, e)
    BY <1>3, InnerSizes
  <2> HIDE DEF q
  <2>3. CASE e < d
    <3> DEFINE t == ((j \div Inner(p, e)) % p[e]) * Inner(p, e)
               w == Inner(p, e)
               x == (j \div w) % p[e]
               y0 == j - (j % Inner(p, e - 1))
               y1 == j - (j % w)
    <3>1. e \in 1 .. d - 1 /\ e \in 1 .. Len(p) /\ e \in 0 .. d - 1 /\ e \in 0 .. Len(p) /\ e - 1 < d /\ e # d
      BY <1>1, <1>2, <2>1, <2>3
    <3>2. w \in Nat \ {0} /\ p[e] = u[e] /\ Inner(u, e) = w * U /\ Inner(s, e) = w * S
      BY <1>2, <3>1, InnerSizes
    <3>3. /\ x * w = (j % Inner(p, e - 1)) - (j % w) /\ x \in Nat
          /\ j % Inner(p, e - 1) \in Nat /\ j % w \in Nat
      BY <1>2, <1>4, <3>1, AxisAdds
    <3>4. i \div (w * U) = j \div w
      <4>1. \A a \in Nat \ {0}, b \in Nat \ {0} : i \div (a * b) = (i \div b) \div a
        BY <1>1, MixedRadix
      <4> QED
        BY <1>2, <3>2, <4>1 DEF j
    <3>5. c[e] = x
      BY <1>3, <3>1, <3>2, <3>4
    <3>6. q[e] = x * (w * S)
      BY <2>2, <3>2, <3>5
    <3>7. h[e] = y1 * S /\ h[e - 1] = y0 * S
      BY <2>1, <2>3, <3>1
    <3>8. y1 = y0 + x * w /\ y0 \in Int /\ y1 \in Int
      <4> HIDE DEF x, w
      <4>1. x * w \in Int
        BY <3>2, <3>3
      <4> QED
        BY <1>4, <3>3, <4>1
    <3> HIDE DEF x, w, y0, y1, h, U, S
    <3>9. (y0 + x * w) * S = y0 * S + x * (w * S) /\ y0 * S \in Int /\ x * (w * S) \in Int
      BY <1>2, <3>2, <3>3, <3>8
    <3> QED
      BY <3>6, <3>7, <3>8, <3>9
  <2>4. CASE e = d
    <3>1. h[e] = j * S + (low - (i % Inner(u, d)))
      BY <2>1, <2>4
    <3>2. h[e - 1] = j * S
      <4>1. h[e - 1] = (j - (j % Inner(p, d - 1))) * S
        BY <1>1, <2>1, <2>4
      <4>2. Inner(p, d - 1) = 1
        BY <1>2, InnerSizes
      <4>3. j - (j % 1) = j
        BY <1>4
      <4> HIDE DEF h
      <4> QED
        BY <4>1, <4>2, <4>3
    <3>3. q[e] = m * Inner(s, d)
      BY <1>3, <2>2, <2>4
    <3>4. low - (i % Inner(u, d)) = m * Inner(s, d) /\ m * Inner(s, d) \in Int
      BY <1>2, <1>4 DEF low
    <3>5. j * S \in Int
      BY <1>2, <1>4
    <3> HIDE DEF h
    <3> QED
      BY <3>1, <3>2, <3>3, <3>4, <3>5
  <2>5. CASE e > d
    <3>1. e # d /\ e \in 1 .. Len(u) /\ e \in d .. n /\ e - 1 >= d
      BY <1>1, <2>1, <2>5
    <3>2. Inner(s, e) = Inner(u, e)
      BY <3>1, SameAround
    <3>3. /\ ((i \div Inner(u, e)) % u[e]) * Inner(u, e) = (i % Inner(u, e - 1)) - (i % Inner(u, e))
          /\ i % Inner(u, e - 1) \in Nat /\ i % Inner(u, e) \in Nat
      BY <1>1, <3>1, AxisAdds
    <3>4. q[e] = (i % Inner(u, e - 1)) - (i % Inner(u, e))
      BY <1>3, <2>2, <3>1, <3>2, <3>3
    <3>5. h[e] = j * S + (low - (i % Inner(u, e))) /\ h[e - 1] = j * S + (low - (i % Inner(u, e - 1)))
      BY <2>1, <3>1, <2>5
    <3>6. j * S \in Int
      BY <1>2, <1>4
    <3>7. i % Inner(u, e - 1) \in Nat /\ i % Inner(u, e) \in Nat
      BY <3>3
    <3> HIDE DEF h, S
    <3> QED
      BY <1>4, <3>4, <3>5, <3>6, <3>7
  <2> QED
    BY <1>1, <2>1, <2>3, <2>4, <2>5
<1>6. h[0] = 0
  <2>1. h[0] = (j - (j % Inner(p, 0))) * S
    BY <1>1
  <2>2. Inner(p, 0) = Numel(p)
    BY <1>2, InnerSizes
  <2>3. j % Numel(p) = j
    <3>1. \A k \in Nat \ {0} : \A x \in Nat : x < k => x % k = x
      OBVIOUS
    <3> QED
      BY <1>2, <1>4, <3>1
  <2>4. j - j = 0 /\ 0 * S = 0
    BY <1>2, <1>4
  <2> HIDE DEF h, S
  <2> QED
    BY <2>1, <2>2, <2>3, <2>4
<1>7. h[n] = j * S + low
  <2>1. h[n] = j * S + (low - (i % Inner(u, n)))
    BY <1>1
  <2>2. Inner(u, n) = 1 /\ i % 1 = 0
    BY <1>1, InnerSizes
  <2>3. low - 0 = low
    BY <1>4
  <2> HIDE DEF h
  <2> QED
    BY <2>1, <2>2, <2>3
<1>8. q \in [1 .. n -> Int]
  <2>1. q = [e \in 1 .. n |-> q[e]]
    BY <1>3
  <2> HIDE DEF q
  <2> QED
    BY <1>5, <2>1
<1>9. Total(q) = j * S + low
  <2>1. Sums(h, q, n)
    <3>1. \A e \in 1 .. n : h[e] = h[e - 1] + q[e]
      BY <1>5
    <3>2. h \in [0 .. n -> Int]
      <4>1. h = [e \in 0 .. n |-> h[e]]
        OBVIOUS
      <4>2. ASSUME NEW e \in 0 .. n PROVE h[e] \in Int
        <5>1. e = 0 \/ e \in 1 .. n
          BY <1>1
        <5>2. \A k \in 1 .. n : h[k] \in Int
          BY <1>5
        <5> HIDE DEF h, n
        <5>3. CASE e = 0
          BY <1>6, <5>3
        <5>4. CASE e \in 1 .. n
          BY <5>2, <5>4
        <5> QED
          BY <5>1, <5>3, <5>4
      <4> HIDE DEF h, n
      <4> QED
        BY <4>1, <4>2
    <3> HIDE DEF h, q, n
    <3> QED
      BY <1>6, <3>1, <3>2 DEF Sums
  <2> HIDE DEF q, h, n
  <2> QED
    BY <1>1, <1>7, <1>8, <2>1, TotalIs
<1>10. Offset(c, DefaultStrides(s)) = j * S + low
  BY <1>9 DEF Offset
<1>11. j * S \in Int /\ m * Inner(s, d) \in Int
  BY <1>2, <1>4
<1>12. j * S + low = j * S + m * Inner(s, d) + (i % Inner(u, d))
  <2> DEFINE A == j * S
             B == m * Inner(s, d)
  <2>1. A \in Int /\ B \in Int
    BY <1>11
  <2> HIDE DEF A, B
  <2>2. A + (B + (i % Inner(u, d))) = A + B + (i % Inner(u, d))
    BY <1>4, <2>1
  <2> QED
    BY <2>2 DEF A, B, low
<1> QED
  BY <1>2, <1>10, <1>12 DEF j, c

\* Every element of f is stored once, by the thread or task who.
StoresOf(f, who) == {Store(i, who[i], f[i]) : i \in DOMAIN f}
Computes(W, f) == \E who : W = StoresOf(f, who)

\* What that says of the stores.
LEMMA ComputesMeans ==
    ASSUME NEW n \in Nat, NEW f, DOMAIN f = 0 .. n - 1, NEW W, Computes(W, f)
    PROVE  /\ {w.at : w \in W} = 0 .. n - 1 /\ Cardinality(W) = n
           /\ \A w \in W : w.at \in 0 .. n - 1 /\ w.val = f[w.at]
<1>1. PICK who : W = StoresOf(f, who)
  BY DEF Computes
<1> DEFINE g == [i \in 0 .. n - 1 |-> Store(i, who[i], f[i])]
<1>2. /\ \A i \in 0 .. n - 1 : g[i].at = i /\ g[i].val = f[i]
      /\ W = {g[i] : i \in 0 .. n - 1}
  BY <1>1 DEF Store, StoresOf
<1>3. {w.at : w \in W} = 0 .. n - 1 /\ \A w \in W : w.at \in 0 .. n - 1 /\ w.val = f[w.at]
  <2> HIDE DEF g
  <2> QED
    BY <1>2
<1>4. g \in Bijection(0 .. n - 1, W)
  <2>1. g \in [0 .. n - 1 -> W]
    BY <1>2
  <2>2. \A i, j \in 0 .. n - 1 : g[i] = g[j] => i = j
    <3> HIDE DEF g
    <3> QED
      BY <1>2
  <2>3. \A w \in W : \E i \in 0 .. n - 1 : g[i] = w
    BY <1>2
  <2> HIDE DEF g
  <2> QED
    BY <2>1, <2>2, <2>3 DEF Bijection, Injection, Surjection, IsInjective
<1>5. IsFiniteSet(0 .. n - 1) /\ Cardinality(0 .. n - 1) = n
  <2>1. n - 1 \in Int /\ 0 \in Int
    OBVIOUS
  <2>2. /\ IsFiniteSet(0 .. n - 1)
        /\ Cardinality(0 .. n - 1) = IF 0 > n - 1 THEN 0 ELSE (n - 1) - 0 + 1
    BY <2>1, FS_Interval
  <2> QED
    BY <2>2
<1>6. ExistsBijection(0 .. n - 1, W)
  BY <1>4 DEF ExistsBijection
<1>7. Cardinality(W) = Cardinality(0 .. n - 1)
  BY <1>5, <1>6, FS_Bijection
<1> QED
  BY <1>3, <1>5, <1>7

\* Indices are divided among tasks: task who[i] has index i, and no other has.
Divided(task, n, who) ==
    /\ \A t \in DOMAIN task : \A i \in task[t] : i \in 0 .. n - 1 /\ who[i] = t
    /\ \A i \in 0 .. n - 1 : who[i] \in DOMAIN task /\ i \in task[who[i]]

\* The tasks of a launch divide the indices.
LEMMA LaunchDivides ==
    ASSUME NEW n \in Nat \ {0}, NEW serial \in Nat, NEW tasks \in Nat \ {0}
    PROVE  \E who : Divided(LaunchOver(n, serial, tasks), n, who)
<1>1. CASE n <= serial
  <2> DEFINE who == [i \in 0 .. n - 1 |-> 0]
  <2>1. LaunchOver(n, serial, tasks) = [t \in {0} |-> 0 .. n - 1]
    BY <1>1 DEF LaunchOver
  <2>2. Divided(LaunchOver(n, serial, tasks), n, who)
    BY <2>1 DEF Divided
  <2> QED
    BY <2>2
<1>2. CASE n > serial
  <2> DEFINE span == CeilDiv(n, tasks)
             task == [t \in 0 .. tasks - 1 |-> t * span .. Least(t * span + span, n) - 1]
             who == [i \in 0 .. n - 1 |-> i \div span]
  <2>1. LaunchOver(n, serial, tasks) = task
    BY <1>2 DEF LaunchOver, Spans
  <2>2. span \in Nat \ {0} /\ n <= tasks * span
    <3> DEFINE x == n + tasks - 1
               q == x \div tasks
               r == x % tasks
    <3>1. x \in Nat /\ tasks \in Nat \ {0}
      OBVIOUS
    <3>2. q \in Nat /\ r \in 0 .. tasks - 1 /\ x = q * tasks + r
      <4> HIDE DEF x
      <4> QED
        BY <3>1, BlockParts
    <3>3. span = q
      BY DEF CeilDiv
    <3>4. q * tasks \in Nat /\ q * tasks = tasks * q
      <4> HIDE DEF q
      <4> QED
        BY <3>2
    <3>5. n <= q * tasks
      <4> HIDE DEF q, r
      <4> QED
        BY <3>2, <3>4
    <3>6. q # 0
      <4> HIDE DEF q, r
      <4> QED
        BY <3>4, <3>5
    <3> HIDE DEF span, q
    <3> QED
      BY <3>2, <3>3, <3>4, <3>5, <3>6
  <2> HIDE DEF span
  <2>3. ASSUME NEW t \in 0 .. tasks - 1, NEW i \in t * span .. Least(t * span + span, n) - 1
        PROVE  i \in 0 .. n - 1 /\ who[i] = t
    <3>1. t * span \in Nat
      BY <2>2
    <3>2. i \in Nat /\ t * span <= i /\ i < t * span + span /\ i < n
      BY <2>2, <3>1 DEF Least
    <3>3. \E c \in 0 .. span - 1 : i = t * span + c
      <4>1. i - t * span \in 0 .. span - 1 /\ i = t * span + (i - t * span)
        BY <2>2, <3>1, <3>2
      <4> QED
        BY <4>1
    <3>4. PICK c \in 0 .. span - 1 : i = t * span + c
      BY <3>3
    <3>5. (t * span + c) \div span = t
      <4>1. span \in Nat \ {0} /\ t \in Nat
        BY <2>2
      <4> QED
        BY <4>1, RowAndColumn, Zenon
    <3> QED
      BY <3>2, <3>4, <3>5
  <2>4. ASSUME NEW i \in 0 .. n - 1
        PROVE  who[i] \in 0 .. tasks - 1 /\ i \in who[i] * span .. Least(who[i] * span + span, n) - 1
    <3> DEFINE t == i \div span
    <3>0. i \in Nat /\ i < n
      OBVIOUS
    <3>1. t \in Nat /\ i % span \in 0 .. span - 1 /\ i = t * span + (i % span)
      BY <2>2, <3>0, BlockParts
    <3>2. t \in 0 .. tasks - 1
      <4>1. i < tasks * span /\ tasks \in Nat
        BY <2>2, <3>0
      <4> QED
        BY <2>2, <3>0, <4>1, QuotientFits
    <3>3. who[i] = t
      OBVIOUS
    <3>4. t * span \in Nat
      BY <2>2, <3>1
    <3> HIDE DEF t, who
    <3>5. i \in t * span .. Least(t * span + span, n) - 1
      BY <2>2, <3>1, <3>4 DEF Least
    <3> QED
      BY <3>2, <3>3, <3>5
  <2>5. DOMAIN task = 0 .. tasks - 1 /\ \A t \in 0 .. tasks - 1 : task[t] = t * span .. Least(t * span + span, n) - 1
    OBVIOUS
  <2> HIDE DEF who, task
  <2>6. Divided(task, n, who)
    BY <2>3, <2>4, <2>5 DEF Divided
  <2> QED
    BY <2>1, <2>6
<1> QED
  BY <1>1, <1>2

\* The guard of a grid of blocks leaves every index once.
LEMMA GuardsDivide ==
    ASSUME NEW n \in Nat, NEW size \in Nat \ {0}
    PROVE  Guarded(n, size) = 0 .. n - 1
<1> DEFINE x == n + size - 1
           q == x \div size
           r == x % size
<1>1. x \in Nat
  OBVIOUS
<1>2. q \in Nat /\ r \in 0 .. size - 1 /\ x = q * size + r
  <2> HIDE DEF x
  <2> QED
    BY <1>1, BlockParts
<1>3. CeilDiv(n, size) = q
  BY DEF CeilDiv
<1>4. q * size \in Nat
  <2> HIDE DEF q
  <2> QED
    BY <1>2
<1>5. n <= q * size
  <2> HIDE DEF q, r
  <2> QED
    BY <1>2, <1>4
<1> HIDE DEF q
<1> QED
  BY <1>3, <1>4, <1>5 DEF Guarded

\* The sizes of blocks and warps are positive.
LEMMA BlockSizes ==
    THREADS \in Nat \ {0} /\ WARP \in Nat \ {0} /\ WARPS \in Nat \ {0}
BY ThreadsAssumption, PowersOfTwo

\* An element for every thread.
LEMMA GridIs ==
    ASSUME NEW n \in Nat
    PROVE  Grid(n) = 0 .. n - 1
BY BlockSizes, GuardsDivide DEF Grid

\* Tasks that store the elements of their indices.
LEMMA TasksCompute ==
    ASSUME NEW n \in Nat, NEW f, DOMAIN f = 0 .. n - 1, NEW task, NEW who, Divided(task, n, who)
    PROVE  Computes(UNION {{Store(i, <<t>>, f[i]) : i \in task[t]} : t \in DOMAIN task}, f)
<1> DEFINE W == UNION {{Store(i, <<t>>, f[i]) : i \in task[t]} : t \in DOMAIN task}
           by == [i \in 0 .. n - 1 |-> <<who[i]>>]
<1>1. W \subseteq StoresOf(f, by)
  <2> SUFFICES ASSUME NEW x \in W PROVE x \in StoresOf(f, by)
    OBVIOUS
  <2>1. PICK t \in DOMAIN task : x \in {Store(i, <<t>>, f[i]) : i \in task[t]}
    BY Zenon
  <2>2. PICK i \in task[t] : x = Store(i, <<t>>, f[i])
    BY <2>1
  <2>3. i \in 0 .. n - 1 /\ who[i] = t
    BY DEF Divided
  <2> QED
    BY <2>2, <2>3 DEF StoresOf
<1>2. StoresOf(f, by) \subseteq W
  <2> SUFFICES ASSUME NEW i \in 0 .. n - 1 PROVE Store(i, by[i], f[i]) \in W
    BY DEF StoresOf
  <2> QED
    BY DEF Divided
<1> QED
  BY <1>1, <1>2 DEF Computes

\* The elements of f are divided into rows, given with their places.
Rowed(R, rows, f, rowOf) ==
    /\ \A r \in 0 .. rows - 1 : R[r] = {<<i, f[i]>> : i \in {i \in DOMAIN f : rowOf[i] = r}}
    /\ \A i \in DOMAIN f : rowOf[i] \in 0 .. rows - 1

\* Rows stored by the caller, by a block each, and by tasks.
ByCaller(R, rows) == {Store(w[1], Caller, w[2]) : w \in UNION {R[r] : r \in 0 .. rows - 1}}
ByBlocks(R, rows) == UNION {{Store(w[1], <<r>>, w[2]) : w \in R[r]} : r \in 0 .. rows - 1}
ByTasks(R, task) == UNION {{Store(w[1], <<t>>, w[2]) : w \in UNION {R[r] : r \in task[t]}} : t \in DOMAIN task}

\* Rows that are stored one after the other, by tasks, or each by a thread of its own.
LEMMA RowsCompute ==
    ASSUME NEW rows \in Nat, NEW f, NEW R, NEW rowOf, Rowed(R, rows, f, rowOf)
    PROVE  Computes(ByCaller(R, rows), f) /\ Computes(ByBlocks(R, rows), f)
<1> DEFINE V == {Store(w[1], Caller, w[2]) : w \in UNION {R[r] : r \in 0 .. rows - 1}}
           U == UNION {{Store(w[1], <<r>>, w[2]) : w \in R[r]} : r \in 0 .. rows - 1}
           caller == [i \in DOMAIN f |-> Caller]
           by == [i \in DOMAIN f |-> <<rowOf[i]>>]
<1>1. ASSUME NEW i \in DOMAIN f PROVE rowOf[i] \in 0 .. rows - 1 /\ <<i, f[i]>> \in R[rowOf[i]]
  BY DEF Rowed
<1>2. ASSUME NEW r \in 0 .. rows - 1, NEW w \in R[r]
      PROVE  w[1] \in DOMAIN f /\ w[2] = f[w[1]] /\ rowOf[w[1]] = r
  BY DEF Rowed
<1>3. V = StoresOf(f, caller)
  <2>1. ASSUME NEW r \in 0 .. rows - 1, NEW w \in R[r] PROVE Store(w[1], Caller, w[2]) \in StoresOf(f, caller)
    BY <1>2 DEF StoresOf
  <2>2. ASSUME NEW i \in DOMAIN f PROVE Store(i, caller[i], f[i]) \in V
    <3>1. \E w \in UNION {R[r] : r \in 0 .. rows - 1} : w = <<i, f[i]>>
      BY <1>1
    <3> QED
      BY <3>1
  <2> QED
    BY <2>1, <2>2 DEF StoresOf
<1>4. U = StoresOf(f, by)
  <2>1. ASSUME NEW r \in 0 .. rows - 1, NEW w \in R[r] PROVE Store(w[1], <<r>>, w[2]) \in StoresOf(f, by)
    BY <1>2 DEF StoresOf
  <2>2. ASSUME NEW i \in DOMAIN f PROVE Store(i, by[i], f[i]) \in U
    <3>1. \E r \in 0 .. rows - 1 : r = rowOf[i] /\ \E w \in R[r] : w = <<i, f[i]>>
      BY <1>1
    <3> QED
      BY <3>1
  <2>3. U \subseteq StoresOf(f, by)
    <3> SUFFICES ASSUME NEW x \in U PROVE x \in StoresOf(f, by)
      OBVIOUS
    <3>1. PICK r \in 0 .. rows - 1 : x \in {Store(w[1], <<r>>, w[2]) : w \in R[r]}
      BY Zenon
    <3> QED
      BY <2>1, <3>1
  <2>4. StoresOf(f, by) \subseteq U
    BY <2>2 DEF StoresOf
  <2> QED
    BY <2>3, <2>4
<1> QED
  BY <1>3, <1>4 DEF Computes, ByCaller, ByBlocks

\* Rows that are divided among tasks.
LEMMA TasksOfRowsCompute ==
    ASSUME NEW rows \in Nat, NEW f, NEW R, NEW rowOf, Rowed(R, rows, f, rowOf),
           NEW task, NEW who, Divided(task, rows, who)
    PROVE  Computes(ByTasks(R, task), f)
<1> DEFINE U == UNION {{Store(w[1], <<t>>, w[2]) : w \in UNION {R[r] : r \in task[t]}} : t \in DOMAIN task}
           by == [i \in DOMAIN f |-> <<who[rowOf[i]]>>]
<1>1. ASSUME NEW i \in DOMAIN f PROVE rowOf[i] \in 0 .. rows - 1 /\ <<i, f[i]>> \in R[rowOf[i]]
  BY DEF Rowed
<1>2. ASSUME NEW t \in DOMAIN task, NEW r \in task[t], NEW w \in R[r]
      PROVE  Store(w[1], <<t>>, w[2]) \in StoresOf(f, by)
  <2>1. r \in 0 .. rows - 1 /\ who[r] = t
    BY DEF Divided
  <2>2. w[1] \in DOMAIN f /\ w[2] = f[w[1]] /\ rowOf[w[1]] = r
    BY <2>1 DEF Rowed
  <2> QED
    BY <2>1, <2>2 DEF StoresOf
<1>3. ASSUME NEW i \in DOMAIN f PROVE Store(i, by[i], f[i]) \in U
  <2>1. who[rowOf[i]] \in DOMAIN task /\ rowOf[i] \in task[who[rowOf[i]]]
    BY <1>1 DEF Divided
  <2>2. \E t \in DOMAIN task : t = who[rowOf[i]] /\ \E r \in task[t] : r = rowOf[i] /\ \E w \in R[r] : w = <<i, f[i]>>
    BY <1>1, <2>1
  <2> QED
    BY <2>2
<1>4. U \subseteq StoresOf(f, by)
  <2> SUFFICES ASSUME NEW x \in U PROVE x \in StoresOf(f, by)
    OBVIOUS
  <2>1. PICK t \in DOMAIN task : x \in {Store(w[1], <<t>>, w[2]) : w \in UNION {R[r] : r \in task[t]}}
    BY Zenon
  <2>2. PICK w \in UNION {R[r] : r \in task[t]} : x = Store(w[1], <<t>>, w[2])
    BY <2>1
  <2>3. PICK r \in task[t] : w \in R[r]
    OBVIOUS
  <2> QED
    BY <1>2, <2>2, <2>3
<1>5. StoresOf(f, by) \subseteq U
  BY <1>3 DEF StoresOf
<1> QED
  BY <1>4, <1>5 DEF Computes, ByTasks

\* A row-major operand.
IsRowMajor(x) == IsShape(x.shape) /\ x.strides = DefaultStrides(x.shape)

\* What the operator means, for every element of a result of the given shape.
Meant(op, in, a, data, shape) ==
    [i \in 0 .. Numel(shape) - 1 |-> Meaning(op, in, a, data, Coordinates(i, shape))]

\* Stores of elements of f, among them every element.
LEMMA StoresOnce ==
    ASSUME NEW f, NEW W, NEW who, \A x \in W : \E i \in DOMAIN f : x = Store(i, who[i], f[i]),
           \A i \in DOMAIN f : Store(i, who[i], f[i]) \in W
    PROVE  Computes(W, f)
<1>1. W = StoresOf(f, who)
  BY DEF StoresOf
<1> QED
  BY <1>1 DEF Computes

\* The number of elements of a shape.
LEMMA NumelIs ==
    ASSUME NEW s, IsShape(s)
    PROVE  Numel(s) \in Nat \ {0} /\ Len(s) \in Nat /\ DOMAIN s = 1 .. Len(s)
<1>1. 0 \in 0 .. Len(s) /\ Len(s) \in Nat /\ DOMAIN s = 1 .. Len(s)
  BY DEF IsShape
<1> QED
  BY <1>1, InnerSizes

\* The element at the coordinates of an index, one of them replaced.
LEMMA AlongAxis ==
    ASSUME NEW s, IsShape(s), NEW d \in 1 .. Len(s), NEW i \in 0 .. Numel(s) - 1, NEW m \in Int
    PROVE  Offset(With(Coordinates(i, s), d, m), DefaultStrides(s)) =
             (i \div (s[d] * Inner(s, d))) * (s[d] * Inner(s, d)) + m * Inner(s, d) + (i % Inner(s, d))
BY Resized

\* The element at the coordinates of index i is element i.
LEMMA CoordinatesLeadBack ==
    ASSUME NEW s, IsShape(s), NEW i \in 0 .. Numel(s) - 1
    PROVE  Offset(Coordinates(i, s), DefaultStrides(s)) = i
<1>1. Numel(s) \in Nat /\ Len(s) \in Nat /\ i \in Nat
  BY NumelIs
<1>2. CASE Len(s) = 0
  <2>1. Numel(s) = 1
    BY <1>1, <1>2, InnerSizes
  <2>2. i = 0
    BY <2>1
  <2> DEFINE c == Coordinates(i, s)
             q == [d \in DOMAIN c |-> c[d] * DefaultStrides(s)[d]]
             h == [k \in 0 .. 0 |-> 0]
  <2>3. DOMAIN c = 1 .. 0
    BY <1>1, <1>2, CoordinatesAre
  <2>4. q \in [1 .. 0 -> Int]
    BY <2>3
  <2>5. Sums(h, q, 0)
    BY DEF Sums
  <2> HIDE DEF q, h
  <2>6. Total(q) = h[0]
    BY <2>4, <2>5, TotalIs
  <2> QED
    BY <2>2, <2>6 DEF Offset, q, h
<1>3. CASE Len(s) # 0
  <2> DEFINE d == Len(s)
             c == Coordinates(i, s)
             w == s[d]
             m == i % w
  <2>1. d \in 1 .. Len(s) /\ Inner(s, d) = 1 /\ w \in Nat \ {0}
    <3>1. d \in 1 .. Len(s)
      BY <1>1, <1>3
    <3> QED
      BY <3>1, InnerSizes
  <2>2. i \div 1 = i /\ i % 1 = 0 /\ w * 1 = w
    BY <1>1, <2>1
  <2>3. c[d] = m /\ c \in Seq(Nat) /\ Len(c) = Len(s)
    <3>1. c[d] = (i \div Inner(s, d)) % s[d] /\ c \in Seq(Nat) /\ Len(c) = Len(s)
      BY <1>1, <2>1, CoordinatesAre
    <3> QED
      BY <2>1, <2>2, <3>1
  <2>4. With(c, d, m) = c
    BY <2>1, <2>3 DEF With
  <2>5. m \in Int /\ m \in Nat /\ i = (i \div w) * w + m /\ i \div w \in Nat
    <3>1. m \in 0 .. w - 1 /\ i = (i \div w) * w + m /\ i \div w \in Nat
      <4> HIDE DEF w
      <4> QED
        BY <1>1, <2>1, BlockParts
    <3> QED
      BY <2>1, <3>1
  <2>6. Offset(With(c, d, m), DefaultStrides(s)) =
          (i \div (s[d] * Inner(s, d))) * (s[d] * Inner(s, d)) + m * Inner(s, d) + (i % Inner(s, d))
    <3> HIDE DEF m, w
    <3> QED
      BY <2>1, <2>5, AlongAxis
  <2>7. m * 1 = m /\ (i \div w) * w \in Nat
    BY <2>1, <2>5
  <2> HIDE DEF m, c
  <2>8. Offset(With(c, d, m), DefaultStrides(s)) = (i \div w) * w + m * 1 + (i % 1)
    BY <2>1, <2>2, <2>6
  <2> QED
    BY <2>2, <2>4, <2>5, <2>7, <2>8 DEF c
<1> QED
  BY <1>2, <1>3

\* Stores of every element by the caller, or by a thread each.
LEMMA EachComputes ==
    ASSUME NEW n \in Nat, NEW f, DOMAIN f = 0 .. n - 1
    PROVE  /\ Computes({Store(i, Caller, f[i]) : i \in 0 .. n - 1}, f)
           /\ Computes({Store(i, <<i>>, f[i]) : i \in Grid(n)}, f)
<1> DEFINE caller == [i \in 0 .. n - 1 |-> Caller]
           by == [i \in 0 .. n - 1 |-> <<i>>]
<1>1. {Store(i, Caller, f[i]) : i \in 0 .. n - 1} = StoresOf(f, caller)
  BY DEF StoresOf
<1>2. {Store(i, <<i>>, f[i]) : i \in 0 .. n - 1} = StoresOf(f, by)
  BY DEF StoresOf
<1> QED
  BY <1>1, <1>2, GridIs DEF Computes

\* The elementwise operators take the elements at one index.
LEMMA ElementwiseMeans ==
    ASSUME NEW op \in Elementwise, NEW in, DOMAIN in = 1 .. InputCount(op), NEW s, IsShape(s),
           \A k \in DOMAIN in : in[k].strides = DefaultStrides(s), NEW a, NEW data
    PROVE  Meant(op, in, a, data, s) = [i \in 0 .. Numel(s) - 1 |-> At(op, i)]
<1> SUFFICES ASSUME NEW i \in 0 .. Numel(s) - 1
             PROVE  Meaning(op, in, a, data, Coordinates(i, s)) = At(op, i)
  BY DEF Meant
<1>1. Meaning(op, in, a, data, Coordinates(i, s)) = [k \in DOMAIN in |-> Of(in, k, Coordinates(i, s))]
  <2>1. op \notin {"Softmax", "RMSNorm", "RotaryEmbedding", "Reshape", "Transpose", "Slice", "Concat", "RepeatKV",
                  "Embedding", "MatMul", "QuantizedMatMul"}
    BY DEF Elementwise, Unary, Binary
  <2> QED
    BY <2>1 DEF Meaning
<1>2. \A k \in DOMAIN in : Of(in, k, Coordinates(i, s)) = Elem(k, i)
  BY CoordinatesLeadBack DEF Of
<1>3. CASE op \in Binary
  <2>1. InputCount(op) = 2
    BY <1>3 DEF InputCount, Binary
  <2> QED
    BY <1>1, <1>2, <1>3, <2>1 DEF At, Pair
<1>4. CASE op \notin Binary
  <2>1. InputCount(op) = 1
    BY <1>4 DEF InputCount, Elementwise, Unary, Binary
  <2> QED
    BY <1>1, <1>2, <1>4, <2>1 DEF At, Single
<1> QED
  BY <1>3, <1>4

\* The elementwise operators on any backend.
LEMMA ElementwiseComputes ==
    ASSUME NEW op \in Elementwise, NEW in, DOMAIN in = 1 .. InputCount(op), NEW y, IsShape(y.shape),
           \A k \in DOMAIN in : in[k].strides = DefaultStrides(y.shape), NEW a, NEW data
    PROVE  /\ Computes(CpuElementwise(op, y), Meant(op, in, a, data, y.shape))
           /\ Computes(IspcElementwise(op, y), Meant(op, in, a, data, y.shape))
           /\ Computes(CudaElementwise(op, y), Meant(op, in, a, data, y.shape))
<1> DEFINE n == Numel(y.shape)
           f == [i \in 0 .. n - 1 |-> At(op, i)]
<1>1. Meant(op, in, a, data, y.shape) = f /\ n \in Nat \ {0} /\ DOMAIN f = 0 .. n - 1
  BY ElementwiseMeans, NumelIs
<1>2. Computes(CpuElementwise(op, y), f)
  BY <1>1, EachComputes DEF CpuElementwise
<1>3. Computes(CudaElementwise(op, y), f)
  <2>1. CudaElementwise(op, y) = {Store(i, <<i>>, f[i]) : i \in Grid(n)}
    BY <1>1, GridIs DEF CudaElementwise
  <2> QED
    BY <1>1, <2>1, EachComputes
<1>4. ASSUME NEW serial \in Nat PROVE Computes(Launched(op, n, serial), f)
  <2> DEFINE task == LaunchOver(n, serial, ElementTasks)
  <2>1. PICK who : Divided(task, n, who)
    BY <1>1, LaunchDivides, RowAssumption
  <2>2. Launched(op, n, serial) = UNION {{Store(i, <<t>>, At(op, i)) : i \in task[t]} : t \in DOMAIN task}
    BY DEF Launched
  <2>3. \A i \in 0 .. n - 1 : f[i] = At(op, i)
    OBVIOUS
  <2> DEFINE by == [i \in 0 .. n - 1 |-> <<who[i]>>]
             W == UNION {{Store(i, <<t>>, At(op, i)) : i \in task[t]} : t \in DOMAIN task}
  <2> HIDE DEF f, task
  <2>4. ASSUME NEW x \in W PROVE \E i \in 0 .. n - 1 : x = Store(i, by[i], f[i])
    <3>1. PICK t \in DOMAIN task : x \in {Store(i, <<t>>, At(op, i)) : i \in task[t]}
      BY Zenon
    <3>2. PICK i \in task[t] : x = Store(i, <<t>>, At(op, i))
      BY <3>1
    <3>3. i \in 0 .. n - 1 /\ who[i] = t
      BY <2>1 DEF Divided
    <3> QED
      BY <2>3, <3>2, <3>3
  <2>5. ASSUME NEW i \in 0 .. n - 1 PROVE Store(i, by[i], f[i]) \in W
    <3>1. who[i] \in DOMAIN task /\ i \in task[who[i]] /\ by[i] = <<who[i]>>
      BY <2>1 DEF Divided
    <3> QED
      BY <2>3, <3>1
  <2> HIDE DEF W, by
  <2>6. Computes(W, f)
    BY <1>1, <2>4, <2>5, StoresOnce
  <2> QED
    BY <2>2, <2>6 DEF W
<1>5. Computes(IspcElementwise(op, y), f)
  <2>1. AddSerial \in Nat /\ RsqrtSerial \in Nat
    BY RowAssumption
  <2>2. Computes(IspcForeach(op, n), f)
    BY <1>1, EachComputes DEF IspcForeach
  <2> HIDE DEF f, n
  <2>3. \/ op = "Add" /\ IspcElementwise(op, y) = Launched(op, n, AddSerial)
        \/ op = "Mul" /\ IspcElementwise(op, y) = Launched(op, n, AddSerial)
        \/ op = "Rsqrt" /\ IspcElementwise(op, y) = Launched(op, n, RsqrtSerial)
        \/ IspcElementwise(op, y) = IspcForeach(op, n)
    BY DEF IspcElementwise, IspcAdd, IspcMul, IspcRsqrt, n
  <2> QED
    BY <1>4, <2>1, <2>2, <2>3
<1> QED
  BY <1>1, <1>2, <1>3, <1>5

\* Reshape leaves every element at its index.
LEMMA ReshapeComputes ==
    ASSUME NEW in, NEW y, NEW a, IsShape(a.shape), y.shape = a.shape, NEW data
    PROVE  /\ Computes(CpuReshape(in, y, a), Meant("Reshape", in, a, data, y.shape))
           /\ Computes(IspcReshape(in, y, a), Meant("Reshape", in, a, data, y.shape))
           /\ Computes(CudaReshape(in, y, a), Meant("Reshape", in, a, data, y.shape))
<1> DEFINE n == Numel(y.shape)
           f == [i \in 0 .. n - 1 |-> Elem(1, i)]
<1>1. n \in Nat /\ DOMAIN f = 0 .. n - 1
  BY NumelIs
<1>2. Meant("Reshape", in, a, data, y.shape) = f
  <2> SUFFICES ASSUME NEW i \in 0 .. n - 1
               PROVE  Meaning("Reshape", in, a, data, Coordinates(i, y.shape)) = Elem(1, i)
    BY DEF Meant
  <2>1. Meaning("Reshape", in, a, data, Coordinates(i, y.shape))
          = Elem(1, Offset(Coordinates(i, y.shape), DefaultStrides(a.shape)))
    BY DEF Meaning, Elementwise, Unary, Binary
  <2> QED
    BY <2>1, CoordinatesLeadBack
<1>3. Memcpy(1, 0, 0, n) = {Store(i, Caller, f[i]) : i \in 0 .. n - 1}
  <2>1. \A j \in 0 .. n - 1 : 0 + j = j
    OBVIOUS
  <2> QED
    BY <2>1 DEF Memcpy
<1>4. Computes(Memcpy(1, 0, 0, n), f)
  <2> HIDE DEF f, n
  <2> QED
    BY <1>1, <1>3, EachComputes
<1> QED
  BY <1>2, <1>4 DEF CpuReshape, IspcReshape, CudaReshape

\* The cells of outer blocks of cols columns of inner elements, and where they lie.
IsCell(outer, cols, inner, w, o, j, q) ==
    /\ o * w + j * inner + q \in 0 .. outer * w - 1
    /\ (o * w + j * inner + q) \div w = o
    /\ ((o * w + j * inner + q) \div inner) % cols = j
    /\ (o * w + j * inner + q) % inner = q

HasCells(outer, cols, inner, w) ==
    /\ \A o \in 0 .. outer - 1, j \in 0 .. cols - 1, q \in 0 .. inner - 1 : IsCell(outer, cols, inner, w, o, j, q)
    /\ \A i \in 0 .. outer * w - 1 :
         /\ i \div w \in 0 .. outer - 1
         /\ (i \div inner) % cols \in 0 .. cols - 1 /\ i % inner \in 0 .. inner - 1
         /\ i = (i \div w) * w + ((i \div inner) % cols) * inner + (i % inner)

\* A flat index counts lines, rows of a line and columns of a row, in this order.
LEMMA Cells ==
    ASSUME NEW outer \in Nat, NEW cols \in Nat \ {0}, NEW inner \in Nat \ {0}, NEW w, w = cols * inner
    PROVE  w \in Nat \ {0} /\ HasCells(outer, cols, inner, w)
<1>1. w \in Nat \ {0}
  BY NonZeroProduct
<1>2. ASSUME NEW o \in 0 .. outer - 1, NEW j \in 0 .. cols - 1, NEW q \in 0 .. inner - 1
      PROVE  IsCell(outer, cols, inner, w, o, j, q)
  <2> DEFINE x == j * inner + q
             k == o * cols + j
             A == o * w
  <2>1. x \in Nat /\ x < w
    BY RowAndColumn
  <2>2. A \in Nat /\ j * inner \in Nat
    BY <1>1
  <2>3. A + j * inner + q = A + x
    <3> DEFINE B == j * inner
    <3> HIDE DEF A, B
    <3> QED
      BY <2>2 DEF B
  <2>4. A + x \in Nat /\ (A + x) \div w = o /\ A + x < outer * w
    <3>1. x \in 0 .. w - 1
      BY <1>1, <2>1
    <3> HIDE DEF x
    <3> QED
      BY <1>1, <3>1, RowAndColumn
  <2>5. k \in Nat /\ k % cols = j
    BY RowAndColumn
  <2>6. A + x = k * inner + q
    <3>1. (o * cols + j) * inner = A + j * inner
      OBVIOUS
    <3> DEFINE B == j * inner
               C == (o * cols + j) * inner
    <3> HIDE DEF A, B, C
    <3>2. C = A + B
      BY <3>1 DEF B, C
    <3> QED
      BY <2>2, <3>2 DEF B, C
  <2>7. (k * inner + q) \div inner = k /\ (k * inner + q) % inner = q
    <3> HIDE DEF k
    <3> QED
      BY <2>5, RowAndColumn
  <2>8. A + x \in 0 .. outer * w - 1
    <3>1. outer * w \in Nat
      BY <1>1
    <3> HIDE DEF x, A
    <3> QED
      BY <2>4, <3>1
  <2> HIDE DEF A, x, k
  <2> QED
    BY <2>3, <2>4, <2>5, <2>6, <2>7, <2>8 DEF A, IsCell
<1>3. ASSUME NEW i \in 0 .. outer * w - 1
      PROVE  /\ i \div w \in 0 .. outer - 1
             /\ (i \div inner) % cols \in 0 .. cols - 1 /\ i % inner \in 0 .. inner - 1
             /\ i = (i \div w) * w + ((i \div inner) % cols) * inner + (i % inner)
  <2>1. outer * w \in Nat /\ i \in Nat /\ i < outer * w
    BY <1>1
  <2>2. i \div w \in 0 .. outer - 1
    <3> QED
      BY <1>1, <2>1, QuotientFits
  <2>3. /\ (i \div inner) % cols \in 0 .. cols - 1 /\ i % inner \in 0 .. inner - 1
        /\ i % w = ((i \div inner) % cols) * inner + (i % inner)
    BY <2>1, MixedRadix
  <2>4. i = (i \div w) * w + (i % w)
    <3> QED
      BY <1>1, <2>1, BlockParts
  <2> DEFINE A == (i \div w) * w
             B == ((i \div inner) % cols) * inner
  <2>5. A \in Int /\ B \in Int /\ i % inner \in Int
    BY <1>1, <2>2, <2>3
  <2>6. i = A + (B + (i % inner))
    BY <2>3, <2>4
  <2> HIDE DEF A, B
  <2>7. i = A + B + (i % inner)
    BY <2>5, <2>6
  <2> QED
    BY <2>2, <2>3, <2>7 DEF A, B
<1> QED
  BY <1>1, <1>2, <1>3 DEF HasCells

\* The elements along an axis, and the element itself.
LEMMA AlongIs ==
    ASSUME NEW in, IsRowMajor(in[1]), NEW s, s = in[1].shape, NEW d \in 1 .. Len(s),
           NEW i \in 0 .. Numel(s) - 1, NEW c, c = Coordinates(i, s)
    PROVE  /\ \A m \in Int : Of(in, 1, With(c, d, m)) =
                Elem(1, (i \div (s[d] * Inner(s, d))) * (s[d] * Inner(s, d)) + m * Inner(s, d) + (i % Inner(s, d)))
           /\ Of(in, 1, c) = Elem(1, i)
<1>1. IsShape(s) /\ in[1].strides = DefaultStrides(s)
  BY DEF IsRowMajor
<1>2. ASSUME NEW m \in Int
      PROVE  Of(in, 1, With(c, d, m)) =
                Elem(1, (i \div (s[d] * Inner(s, d))) * (s[d] * Inner(s, d)) + m * Inner(s, d) + (i % Inner(s, d)))
  BY <1>1, AlongAxis DEF Of
<1>3. Of(in, 1, c) = Elem(1, i)
  BY <1>1, CoordinatesLeadBack DEF Of
<1> QED
  BY <1>2, <1>3

\* The elements of a row from base on, and a normalised element of the row.
RowOf(cols, inner, base) == [n \in 0 .. cols - 1 |-> Elem(1, base + n * inner)]
NormalisedIn(row, i) == Normalised(i, {row[n] : n \in DOMAIN row}, CountOver(row, DOMAIN row))

\* A row of softmax is its elements, normalised.
LEMMA SoftmaxRow ==
    ASSUME NEW l, NEW cols \in Nat \ {0}, l.cols = cols, NEW inner, l.inner = inner, NEW r, NEW base, base = RowBase(r, l)
    PROVE  /\ \A j \in 0 .. cols - 1 :
                <<base + j * inner, NormalisedIn(RowOf(cols, inner, base), base + j * inner)>> \in CpuSoftmaxRow(r, l)
           /\ \A x \in CpuSoftmaxRow(r, l) : \E j \in 0 .. cols - 1 :
                x = <<base + j * inner, NormalisedIn(RowOf(cols, inner, base), base + j * inner)>>
<1> DEFINE at(j) == base + j * inner
           maximum == {Elem(1, at(0))} \cup {Elem(1, at(j)) : j \in 1 .. cols - 1}
           sum == SumOf(0 .. cols - 1, LAMBDA j : Elem(1, at(j)))
           F == RowOf(cols, inner, base)
<1>1. CpuSoftmaxRow(r, l) = {<<at(j), Normalised(at(j), maximum, sum)>> : j \in 0 .. cols - 1}
  BY DEF CpuSoftmaxRow
<1>2. DOMAIN F = 0 .. cols - 1 /\ \A j \in 0 .. cols - 1 : F[j] = Elem(1, at(j))
  BY DEF RowOf
<1>3. maximum = {F[n] : n \in DOMAIN F}
  <2>1. 0 .. cols - 1 = {0} \cup 1 .. cols - 1
    OBVIOUS
  <2> HIDE DEF at, F
  <2> QED
    BY <1>2, <2>1
<1>4. sum = CountOver(F, DOMAIN F)
  <2>1. sum = CountOver([j \in 0 .. cols - 1 |-> Elem(1, at(j))], 0 .. cols - 1)
    BY DEF SumOf, CountOver
  <2>2. [j \in 0 .. cols - 1 |-> Elem(1, at(j))] = F
    BY DEF RowOf
  <2> HIDE DEF F
  <2> QED
    BY <1>2, <2>1, <2>2
<1>5. \A j \in 0 .. cols - 1 : Normalised(at(j), maximum, sum) = NormalisedIn(F, at(j))
  <2> HIDE DEF maximum, sum, F, at
  <2> QED
    BY <1>3, <1>4 DEF NormalisedIn
<1> HIDE DEF maximum, sum, F, at
<1>6. /\ \A j \in 0 .. cols - 1 : <<at(j), NormalisedIn(F, at(j))>> \in CpuSoftmaxRow(r, l)
      /\ \A x \in CpuSoftmaxRow(r, l) : \E j \in 0 .. cols - 1 : x = <<at(j), NormalisedIn(F, at(j))>>
  BY <1>1, <1>5
<1> QED
  BY <1>6 DEF F, at

\* A row-wise normalised function.
NormalisedRows(f, cols, inner, w) ==
    \A i \in DOMAIN f : \A base \in Int :
        base = (i \div w) * w + (i % inner) => f[i] = NormalisedIn(RowOf(cols, inner, base), i)

\* What softmax means along its axis.
LEMMA SoftmaxIsNormalised ==
    ASSUME NEW in, IsRowMajor(in[1]), NEW s, s = in[1].shape, NEW a, NEW d \in 1 .. Len(s), d = Axis(a.axis, s),
           NEW data, NEW inner, inner = Inner(s, d), NEW w, w = s[d] * inner,
           NEW f, f = Meant("Softmax", in, a, data, s)
    PROVE  NormalisedRows(f, s[d], inner, w)
<1> SUFFICES ASSUME NEW i \in 0 .. Numel(s) - 1, NEW base, base = (i \div w) * w + (i % inner)
             PROVE  Meaning("Softmax", in, a, data, Coordinates(i, s)) = NormalisedIn(RowOf(s[d], inner, base), i)
  BY DEF Meant, NormalisedRows
<1> DEFINE c == Coordinates(i, s)
           along == SumOf(0 .. Dim(in[1], d) - 1, LAMBDA n : Of(in, 1, With(c, d, n)))
           F == RowOf(s[d], inner, base)
<1>1. Meaning("Softmax", in, a, data, c) = Normalised(Of(in, 1, c)[2], DOMAIN along, along)
  BY DEF Meaning, Elementwise, Unary, Binary
<1>2. DOMAIN F = 0 .. s[d] - 1
  BY DEF RowOf
<1>3. \A n \in 0 .. s[d] - 1 : Of(in, 1, With(c, d, n)) = F[n]
  <2> SUFFICES ASSUME NEW n \in 0 .. s[d] - 1 PROVE Of(in, 1, With(c, d, n)) = F[n]
    OBVIOUS
  <2>1. Of(in, 1, With(c, d, n)) = Elem(1, (i \div w) * w + n * inner + (i % inner))
    BY AlongIs
  <2>2. F[n] = Elem(1, base + n * inner)
    BY DEF RowOf
  <2>3. IsShape(s) /\ s[d] \in Nat \ {0} /\ inner \in Nat \ {0} /\ i \in Nat
    <3>1. IsShape(s)
      BY DEF IsRowMajor
    <3>2. Numel(s) \in Nat /\ d \in 0 .. Len(s)
      BY <3>1, NumelIs
    <3> QED
      BY <3>1, <3>2, InnerSizes
  <2>4. w \in Nat \ {0}
    BY <2>3, NonZeroProduct
  <2>5. i \div w \in Nat /\ i % inner \in 0 .. inner - 1
    BY <2>3, <2>4, BlockParts
  <2> DEFINE A == (i \div w) * w
             B == n * inner
  <2>6. A \in Int /\ B \in Int /\ i % inner \in Int /\ base = A + (i % inner)
    <3> DEFINE k == i \div w
               q == i % inner
    <3>1. k \in Nat /\ q \in Int /\ inner \in Nat /\ w \in Nat /\ n \in Int
      BY <2>3, <2>4, <2>5
    <3>2. base = k * w + q
      OBVIOUS
    <3> HIDE DEF k, q
    <3>3. k * w \in Int /\ n * inner \in Int
      BY <3>1
    <3> QED
      BY <3>1, <3>2, <3>3 DEF k, q
  <2> HIDE DEF A, B
  <2>7. A + B + (i % inner) = base + B
    <3> DEFINE x == i % inner
    <3>1. A \in Int /\ B \in Int /\ x \in Int /\ base = A + x
      BY <2>6
    <3> HIDE DEF x
    <3>2. A + B + x = base + B
      BY ONLY <3>1
    <3> QED
      BY <3>2 DEF x
  <2> HIDE DEF F, c
  <2> QED
    BY <2>1, <2>2, <2>7 DEF A, B
<1>4. along = CountOver(F, DOMAIN F)
  <2>1. along = CountOver([n \in 0 .. s[d] - 1 |-> Of(in, 1, With(c, d, n))], 0 .. s[d] - 1)
    BY DEF SumOf, CountOver, Dim
  <2>2. [n \in 0 .. s[d] - 1 |-> Of(in, 1, With(c, d, n))] = F
    <3>1. F = [n \in 0 .. s[d] - 1 |-> F[n]]
      BY DEF RowOf
    <3> HIDE DEF c, F
    <3> QED
      BY <1>3, <3>1
  <2> HIDE DEF F
  <2> QED
    BY <1>2, <2>1, <2>2
<1>5. Of(in, 1, c)[2] = i
  <2>1. Of(in, 1, c) = Elem(1, i)
    BY AlongIs
  <2> QED
    BY <2>1 DEF Elem
<1>6. DOMAIN CountOver(F, DOMAIN F) = {F[n] : n \in DOMAIN F}
  BY DEF CountOver
<1> HIDE DEF along, c, F
<1>7. Meaning("Softmax", in, a, data, c) = NormalisedIn(F, i)
  BY <1>1, <1>4, <1>5, <1>6 DEF NormalisedIn
<1> QED
  BY <1>7 DEF F, c

\* Rows of cols elements, inner apart, from base on, and the row that an index lies in.
HasRows(outer, cols, inner, w, rows, base, rowOf) ==
    /\ \A r \in 0 .. rows - 1, j \in 0 .. cols - 1 :
         /\ base[r] + j * inner \in 0 .. outer * w - 1
         /\ rowOf[base[r] + j * inner] = r
         /\ base[r] \in Int
    /\ \A i \in 0 .. outer * w - 1 :
         /\ rowOf[i] \in 0 .. rows - 1
         /\ base[rowOf[i]] = (i \div w) * w + (i % inner)
         /\ \E j \in 0 .. cols - 1 : i = base[rowOf[i]] + j * inner

\* Two coordinates in one number.
LEMMA RowsFit ==
    ASSUME NEW outer \in Nat \ {0}, NEW inner \in Nat \ {0}
    PROVE  \A o \in 0 .. outer - 1, q \in 0 .. inner - 1 :
             /\ o * inner + q \in Nat /\ o * inner + q < outer * inner
             /\ (o * inner + q) \div inner = o /\ (o * inner + q) % inner = q
<1> SUFFICES ASSUME NEW o \in 0 .. outer - 1, NEW q \in 0 .. inner - 1
             PROVE  /\ o * inner + q \in Nat /\ o * inner + q < outer * inner
                    /\ (o * inner + q) \div inner = o /\ (o * inner + q) % inner = q
  OBVIOUS
<1>1. o \in Nat /\ o < outer /\ outer \in Nat
  OBVIOUS
<1> QED
  BY <1>1, RowAndColumn

\* Every element lies in one row, at one place of it.
LEMMA RowsHaveCells ==
    ASSUME NEW outer \in Nat \ {0}, NEW cols \in Nat \ {0}, NEW inner \in Nat \ {0}, NEW w \in Nat \ {0},
           HasCells(outer, cols, inner, w), NEW rows \in Nat \ {0}, rows = outer * inner,
           NEW base, \A r \in 0 .. rows - 1 : base[r] = (r \div inner) * w + (r % inner),
           NEW rowOf, \A i \in 0 .. outer * w - 1 : rowOf[i] = (i \div w) * inner + (i % inner)
    PROVE  HasRows(outer, cols, inner, w, rows, base, rowOf)
<1>0. \A o \in 0 .. outer - 1, q \in 0 .. inner - 1 :
        /\ o * inner + q \in Nat /\ o * inner + q < outer * inner
        /\ (o * inner + q) \div inner = o /\ (o * inner + q) % inner = q
  BY RowsFit
<1>1. ASSUME NEW o \in 0 .. outer - 1, NEW q \in 0 .. inner - 1, NEW r, r = o * inner + q
      PROVE  r \in 0 .. rows - 1 /\ base[r] = o * w + q /\ base[r] \in Int
  <2>1. /\ o * inner + q \in Nat /\ o * inner + q < outer * inner
        /\ (o * inner + q) \div inner = o /\ (o * inner + q) % inner = q
    BY <1>0
  <2>2. r \in 0 .. rows - 1 /\ r \div inner = o /\ r % inner = q
    BY <1>1, <2>1
  <2>3. base[r] = o * w + q
    BY <2>2
  <2>4. o * w \in Int /\ q \in Int
    OBVIOUS
  <2> DEFINE A == o * w
  <2> HIDE DEF A
  <2>5. A + q \in Int
    BY <2>4 DEF A
  <2> QED
    BY <2>2, <2>3, <2>5 DEF A
<1>2. ASSUME NEW o \in 0 .. outer - 1, NEW q \in 0 .. inner - 1, NEW j \in 0 .. cols - 1
      PROVE  o * w + q + j * inner = o * w + j * inner + q
  <2> DEFINE A == o * w
             B == j * inner
  <2>1. A \in Int /\ B \in Int /\ q \in Int
    OBVIOUS
  <2> HIDE DEF A, B
  <2>2. A + q + B = A + B + q
    BY <2>1
  <2> QED
    BY <2>2 DEF A, B
<1>3. ASSUME NEW r \in 0 .. rows - 1
      PROVE  r \div inner \in 0 .. outer - 1 /\ r % inner \in 0 .. inner - 1 /\ r = (r \div inner) * inner + (r % inner)
  <2>1. r \in Nat /\ r < outer * inner
    OBVIOUS
  <2> QED
    BY <2>1, QuotientFits, BlockParts
<1>4. ASSUME NEW r \in 0 .. rows - 1, NEW j \in 0 .. cols - 1
      PROVE  /\ base[r] + j * inner \in 0 .. outer * w - 1
             /\ rowOf[base[r] + j * inner] = r /\ base[r] \in Int
  <2> DEFINE o == r \div inner
             q == r % inner
             i == o * w + j * inner + q
  <2>1. o \in 0 .. outer - 1 /\ q \in 0 .. inner - 1 /\ r = o * inner + q
    BY <1>3
  <2> HIDE DEF o, q
  <2>2. base[r] = o * w + q /\ base[r] \in Int
    BY <1>1, <2>1
  <2>3. base[r] + j * inner = i
    BY <1>2, <2>1, <2>2
  <2>4. i \in 0 .. outer * w - 1 /\ i \div w = o /\ i % inner = q
    <3>1. IsCell(outer, cols, inner, w, o, j, q)
      BY <2>1 DEF HasCells
    <3> QED
      BY <3>1 DEF IsCell
  <2> HIDE DEF i
  <2>5. rowOf[i] = o * inner + q
    BY <2>4
  <2> QED
    BY <2>1, <2>2, <2>3, <2>4, <2>5
<1>5. ASSUME NEW i \in 0 .. outer * w - 1
      PROVE  /\ rowOf[i] \in 0 .. rows - 1
             /\ base[rowOf[i]] = (i \div w) * w + (i % inner)
             /\ \E j \in 0 .. cols - 1 : i = base[rowOf[i]] + j * inner
  <2> DEFINE o == i \div w
             q == i % inner
             j == (i \div inner) % cols
  <2>1. o \in 0 .. outer - 1 /\ q \in 0 .. inner - 1 /\ j \in 0 .. cols - 1 /\ i = o * w + j * inner + q
    BY DEF HasCells
  <2>2. rowOf[i] = o * inner + q
    OBVIOUS
  <2> HIDE DEF o, q, j
  <2>3. rowOf[i] \in 0 .. rows - 1 /\ base[rowOf[i]] = o * w + q
    BY <1>1, <2>1, <2>2
  <2>4. i = base[rowOf[i]] + j * inner
    BY <1>2, <2>1, <2>3
  <2> QED
    BY <2>1, <2>3, <2>4 DEF o, q
<1> QED
  BY <1>4, <1>5 DEF HasRows

\* Its rows are those of the kernels.
LEMMA NormalisedIsRowed ==
    ASSUME NEW outer, NEW cols \in Nat \ {0}, NEW inner, NEW w, NEW rows, NEW base, NEW rowOf,
           HasRows(outer, cols, inner, w, rows, base, rowOf),
           NEW f, DOMAIN f = 0 .. outer * w - 1, NormalisedRows(f, cols, inner, w),
           NEW l, \A r \in 0 .. rows - 1 : RowBase(r, l) = base[r], l.cols = cols, l.inner = inner,
           NEW R, \A r \in 0 .. rows - 1 : R[r] = CpuSoftmaxRow(r, l)
    PROVE  Rowed(R, rows, f, rowOf)
<1>1. ASSUME NEW r \in 0 .. rows - 1
      PROVE  CpuSoftmaxRow(r, l) = {<<i, f[i]>> : i \in {i \in DOMAIN f : rowOf[i] = r}}
  <2> DEFINE b == base[r]
             g == RowOf(cols, inner, b)
  <2>1. /\ \A j \in 0 .. cols - 1 : <<b + j * inner, NormalisedIn(g, b + j * inner)>> \in CpuSoftmaxRow(r, l)
        /\ \A x \in CpuSoftmaxRow(r, l) : \E j \in 0 .. cols - 1 :
             x = <<b + j * inner, NormalisedIn(g, b + j * inner)>>
    <3>1. b = RowBase(r, l)
      OBVIOUS
    <3> HIDE DEF b
    <3> QED
      BY <3>1, SoftmaxRow
  <2>2. ASSUME NEW i \in DOMAIN f, rowOf[i] = r PROVE f[i] = NormalisedIn(g, i)
    <3>1. b = (i \div w) * w + (i % inner) /\ \E j \in 0 .. cols - 1 : i = b + j * inner
      BY <2>2 DEF HasRows
    <3>2. b \in Int
      BY DEF HasRows
    <3> HIDE DEF b
    <3> QED
      BY <3>1, <3>2 DEF NormalisedRows
  <2>3. ASSUME NEW j \in 0 .. cols - 1 PROVE b + j * inner \in DOMAIN f /\ rowOf[b + j * inner] = r
    BY DEF HasRows
  <2>4. ASSUME NEW i \in DOMAIN f, rowOf[i] = r PROVE \E j \in 0 .. cols - 1 : i = b + j * inner
    BY <2>4 DEF HasRows
  <2> HIDE DEF b, g
  <2>5. ASSUME NEW x \in CpuSoftmaxRow(r, l) PROVE \E i \in DOMAIN f : rowOf[i] = r /\ x = <<i, f[i]>>
    <3>1. PICK j \in 0 .. cols - 1 : x = <<b + j * inner, NormalisedIn(g, b + j * inner)>>
      BY <2>1
    <3> DEFINE i == b + j * inner
    <3>2. i \in DOMAIN f /\ rowOf[i] = r
      BY <2>3
    <3>3. x = <<i, NormalisedIn(g, i)>>
      BY <3>1
    <3> HIDE DEF i
    <3>4. f[i] = NormalisedIn(g, i)
      BY <2>2, <3>2
    <3> QED
      BY <3>2, <3>3, <3>4
  <2>6. ASSUME NEW i \in DOMAIN f, rowOf[i] = r PROVE <<i, f[i]>> \in CpuSoftmaxRow(r, l)
    <3>1. PICK j \in 0 .. cols - 1 : i = b + j * inner
      BY <2>4, <2>6
    <3>2. f[i] = NormalisedIn(g, i)
      BY <2>2, <2>6
    <3>3. <<b + j * inner, NormalisedIn(g, b + j * inner)>> \in CpuSoftmaxRow(r, l)
      BY <2>1
    <3> QED
      BY <3>1, <3>2, <3>3
  <2> QED
    BY <2>5, <2>6
<1>2. ASSUME NEW i \in DOMAIN f PROVE rowOf[i] \in 0 .. rows - 1
  BY DEF HasRows
<1> QED
  BY <1>1, <1>2 DEF Rowed

\* Rows by the caller, by tasks, or by a block each.
LEMMA RowKernelsCompute ==
    ASSUME NEW rows \in Nat \ {0}, NEW f, NEW R, NEW rowOf, Rowed(R, rows, f, rowOf), NEW serial \in Nat
    PROVE  /\ Computes(ByCaller(R, rows), f) /\ Computes(ByBlocks(R, rows), f)
           /\ Computes(ByTasks(R, RowLaunch(rows, serial)), f)
<1>1. Least(rows, RowTasks) \in Nat \ {0}
  BY RowAssumption DEF Least
<1>2. PICK who : Divided(RowLaunch(rows, serial), rows, who)
  BY <1>1, LaunchDivides DEF RowLaunch
<1> QED
  BY <1>2, RowsCompute, TasksOfRowsCompute

\* Only the indices of a task are its rows.
LEMMA TaskRows ==
    ASSUME NEW rows \in Nat \ {0}, NEW serial \in Nat
    PROVE  \A t \in DOMAIN RowLaunch(rows, serial) : RowLaunch(rows, serial)[t] \subseteq 0 .. rows - 1
<1>1. Least(rows, RowTasks) \in Nat \ {0}
  BY RowAssumption DEF Least
<1>2. PICK who : Divided(RowLaunch(rows, serial), rows, who)
  BY <1>1, LaunchDivides DEF RowLaunch
<1> QED
  BY <1>2 DEF Divided

\* Softmax.
LEMMA SoftmaxComputes ==
    ASSUME NEW in, IsRowMajor(in[1]), NEW y, y.shape = in[1].shape, NEW a,
           Axis(a.axis, in[1].shape) \in DOMAIN in[1].shape, NEW data
    PROVE  /\ Computes(CpuSoftmax(in, y, a), Meant("Softmax", in, a, data, y.shape))
           /\ Computes(IspcSoftmax(in, y, a), Meant("Softmax", in, a, data, y.shape))
           /\ Computes(CudaSoftmax(in, y, a), Meant("Softmax", in, a, data, y.shape))
<1> DEFINE s == in[1].shape
           d == Axis(a.axis, s)
           cols == s[d]
           inner == Inner(s, d)
           outer == Outer(s, d)
           w == cols * inner
           f == Meant("Softmax", in, a, data, s)
           l == SoftmaxLayout(s, a)
           rows == outer * inner
           R == [r \in 0 .. rows - 1 |-> CpuSoftmaxRow(r, l)]
           base == [r \in 0 .. rows - 1 |-> (r \div inner) * w + (r % inner)]
           rowOf == [i \in 0 .. outer * w - 1 |-> (i \div w) * inner + (i % inner)]
<1>1. IsShape(s) /\ d \in 1 .. Len(s) /\ Len(s) \in Nat
  BY NumelIs DEF IsRowMajor
<1>2. l.outer = outer /\ l.cols = cols /\ l.inner = inner /\ Rows(l) = rows
  BY DEF SoftmaxLayout, Rows
<1>3. /\ cols \in Nat \ {0} /\ inner \in Nat \ {0} /\ outer \in Nat \ {0} /\ Numel(s) = outer * w
      /\ Numel(s) \in Nat
  BY <1>1, InnerSizes, FrontSizes, NumelIs
<1>4. DOMAIN f = 0 .. outer * w - 1
      /\ \A i \in 0 .. outer * w - 1 : f[i] = Meaning("Softmax", in, a, data, Coordinates(i, s))
  BY <1>3 DEF Meant
<1>5. NormalisedRows(f, cols, inner, w)
  <2>1. s = in[1].shape /\ d = Axis(a.axis, s) /\ f = Meant("Softmax", in, a, data, s)
    OBVIOUS
  <2>2. inner = Inner(s, d) /\ w = s[d] * inner /\ cols = s[d]
    OBVIOUS
  <2> HIDE DEF f, s, d, inner, w, cols
  <2> QED
    BY <1>1, <2>1, <2>2, SoftmaxIsNormalised
<1>6. w = cols * inner /\ rows = outer * inner
  OBVIOUS
<1>7. \A r \in 0 .. rows - 1 : RowBase(r, l) = (r \div inner) * cols * inner + (r % inner)
  BY <1>2 DEF RowBase
<1> HIDE DEF f, w, inner, cols, outer, l, rows
<1>8. rows \in Nat \ {0} /\ w \in Nat \ {0} /\ HasCells(outer, cols, inner, w)
  BY <1>3, <1>6, NonZeroProduct, Cells
<1>9. \A r \in 0 .. rows - 1 : RowBase(r, l) = base[r]
  <2> SUFFICES ASSUME NEW r \in 0 .. rows - 1 PROVE RowBase(r, l) = base[r]
    OBVIOUS
  <2> DEFINE o == r \div inner
  <2>1. o \in Nat /\ r \in Nat
    <3>1. r \in Nat
      BY <1>8
    <3> QED
      BY <1>3, <3>1, BlockParts
  <2>2. RowBase(r, l) = o * cols * inner + (r % inner) /\ base[r] = o * w + (r % inner)
    BY <1>7
  <2> HIDE DEF o, base
  <2>3. o * cols * inner = o * w
    BY <1>3, <1>6, <2>1
  <2> QED
    BY <2>2, <2>3
<1>10. /\ \A r \in 0 .. rows - 1 : base[r] = (r \div inner) * w + (r % inner)
       /\ \A i \in 0 .. outer * w - 1 : rowOf[i] = (i \div w) * inner + (i % inner)
       /\ \A r \in 0 .. rows - 1 : R[r] = CpuSoftmaxRow(r, l)
  OBVIOUS
<1> HIDE DEF base, rowOf, R
<1>11. HasRows(outer, cols, inner, w, rows, base, rowOf)
  BY <1>3, <1>6, <1>8, <1>10, RowsHaveCells
<1>12. Rowed(R, rows, f, rowOf)
  BY <1>2, <1>3, <1>4, <1>5, <1>9, <1>10, <1>11, NormalisedIsRowed
<1>13. RowSerial \in Nat
  BY RowAssumption
<1>14. /\ Computes(ByCaller(R, rows), f) /\ Computes(ByBlocks(R, rows), f)
       /\ Computes(ByTasks(R, RowLaunch(rows, RowSerial)), f)
  BY <1>8, <1>12, <1>13, RowKernelsCompute
<1>15. CpuSoftmax(in, y, a) = ByCaller(R, rows)
  <2>1. UNION {R[r] : r \in 0 .. rows - 1} = UNION {CpuSoftmaxRow(r, l) : r \in 0 .. rows - 1}
    BY <1>10
  <2> QED
    BY <1>2, <2>1 DEF CpuSoftmax, ByCaller, l
<1>16. CudaSoftmax(in, y, a) = ByBlocks(R, rows)
  <2>1. CudaSoftmax(in, y, a) = UNION {{Store(v[1], <<r>>, v[2]) : v \in CpuSoftmaxRow(r, l)} : r \in 0 .. rows - 1}
    BY <1>2 DEF CudaSoftmax, l
  <2>2. \A r \in 0 .. rows - 1 :
          {Store(v[1], <<r>>, v[2]) : v \in R[r]} = {Store(v[1], <<r>>, v[2]) : v \in CpuSoftmaxRow(r, l)}
    BY <1>10
  <2>3. ASSUME NEW x \in CudaSoftmax(in, y, a) PROVE x \in ByBlocks(R, rows)
    <3>1. PICK r \in 0 .. rows - 1 : x \in {Store(v[1], <<r>>, v[2]) : v \in CpuSoftmaxRow(r, l)}
      BY <2>1, Zenon
    <3> QED
      BY <2>2, <3>1 DEF ByBlocks
  <2>4. ASSUME NEW x \in ByBlocks(R, rows) PROVE x \in CudaSoftmax(in, y, a)
    <3>1. PICK r \in 0 .. rows - 1 : x \in {Store(v[1], <<r>>, v[2]) : v \in R[r]}
      BY Zenon DEF ByBlocks
    <3> QED
      BY <2>1, <2>2, <3>1
  <2> QED
    BY <2>3, <2>4
<1>17. IspcSoftmax(in, y, a) = ByTasks(R, RowLaunch(rows, RowSerial))
  <2> DEFINE task == RowLaunch(rows, RowSerial)
  <2>1. \A t \in DOMAIN task : task[t] \subseteq 0 .. rows - 1
    BY <1>8, <1>13, TaskRows
  <2>2. IspcSoftmax(in, y, a) =
          UNION {{Store(v[1], <<t>>, v[2]) : v \in UNION {CpuSoftmaxRow(r, l) : r \in task[t]}} : t \in DOMAIN task}
    BY <1>2 DEF IspcSoftmax, SoftmaxF32, l
  <2> HIDE DEF task
  <2>3. \A t \in DOMAIN task : UNION {CpuSoftmaxRow(r, l) : r \in task[t]} = UNION {R[r] : r \in task[t]}
    BY <1>10, <2>1
  <2>4. \A t \in DOMAIN task : {Store(v[1], <<t>>, v[2]) : v \in UNION {CpuSoftmaxRow(r, l) : r \in task[t]}}
                               = {Store(v[1], <<t>>, v[2]) : v \in UNION {R[r] : r \in task[t]}}
    BY <2>3
  <2>5. ASSUME NEW x \in IspcSoftmax(in, y, a) PROVE x \in ByTasks(R, task)
    <3>1. PICK t \in DOMAIN task : x \in {Store(v[1], <<t>>, v[2]) : v \in UNION {CpuSoftmaxRow(r, l) : r \in task[t]}}
      BY <2>2, Zenon
    <3>2. x \in {Store(v[1], <<t>>, v[2]) : v \in UNION {R[r] : r \in task[t]}}
      BY <2>4, <3>1
    <3> QED
      BY <3>2, Zenon DEF ByTasks
  <2>6. ASSUME NEW x \in ByTasks(R, task) PROVE x \in IspcSoftmax(in, y, a)
    <3>1. PICK t \in DOMAIN task : x \in {Store(v[1], <<t>>, v[2]) : v \in UNION {R[r] : r \in task[t]}}
      BY Zenon DEF ByTasks
    <3>2. x \in {Store(v[1], <<t>>, v[2]) : v \in UNION {CpuSoftmaxRow(r, l) : r \in task[t]}}
      BY <2>4, <3>1
    <3> DEFINE V == {Store(v[1], <<t>>, v[2]) : v \in UNION {CpuSoftmaxRow(r, l) : r \in task[t]}}
               Vs == {{Store(v[1], <<u>>, v[2]) : v \in UNION {CpuSoftmaxRow(r, l) : r \in task[u]}} : u \in DOMAIN task}
    <3>3. V \in Vs
      OBVIOUS
    <3>4. IspcSoftmax(in, y, a) = UNION Vs
      BY <2>2
    <3> QED
      BY <3>2, <3>3, <3>4, Zenon
  <2> QED
    BY <2>5, <2>6 DEF task
<1> QED
  BY <1>14, <1>15, <1>16, <1>17 DEF f

\* The threads of a block add up what they have, half as many each time: what is left in thread 0
\* counts every term of every thread once.
LEMMA ThreadsAddUp ==
    ASSUME NEW I, IsFiniteSet(I), NEW lane \in [I -> 0 .. THREADS - 1], NEW f
    PROVE  TreeSum([t \in 0 .. THREADS - 1 |-> CountOver(f, {i \in I : lane[i] = t})]) = CountOver(f, I)
<1>1. \E n \in 0..10 : THREADS = 2^n
  BY ThreadsAssumption
<1>2. PICK n \in 0..10 : \E w \in [0 .. n -> Nat \ {0}] :
              /\ w[0] = THREADS /\ w[n] = 1 /\ \A k \in 1 .. n : w[k - 1] = 2 * w[k]
              /\ Halving(THREADS) = [k \in 1 .. n |-> w[k]]
  BY <1>1, HalvingIs
<1>3. PICK w \in [0 .. n -> Nat \ {0}] :
              /\ w[0] = THREADS /\ w[n] = 1 /\ \A k \in 1 .. n : w[k - 1] = 2 * w[k]
              /\ Halving(THREADS) = [k \in 1 .. n |-> w[k]]
  BY <1>2
<1> DEFINE Lanes == 0 .. THREADS - 1
           of(h, t) == {i \in I : lane[i] % h = t}
           base == [t \in Lanes |-> CountOver(f, {i \in I : lane[i] = t})]
           T == {f[i] : i \in I}
           D == [Lanes -> Tallies(T)]
           S == 1 .. n
           fold(s, h) == [t \in DOMAIN s |-> IF t < h THEN Add2(s[t], s[t + h]) ELSE s[t]]
           step == [p \in S \X D |-> fold(p[2], w[p[1]])]
           q == Halving(THREADS)
           Eq2(g) == g = [s \in SUBSET S |-> IF s = {} THEN base ELSE fold(g[s \ {Max(s)}], q[Max(s)])]
           it == CHOOSE z : Eq2(z)
<1>4. n \in Nat /\ THREADS \in Nat \ {0} /\ DOMAIN q = S /\ \A k \in S : q[k] = w[k] /\ w[k] \in Nat \ {0}
  BY <1>3
<1>5. base \in D
  <2>1. \A J \in SUBSET I : CountOver(f, J) \in Tallies(T)
    BY CountsAreTallies
  <2> HIDE DEF T
  <2> QED
    BY <2>1
<1>20. \A k \in 1 .. n : 2 * w[k] <= THREADS
  <2> DEFINE V == {k \in 0 .. n : w[k] <= THREADS}
  <2>1. 0 \in V
    BY <1>3, <1>4
  <2>2. ASSUME NEW k \in 0 .. n - 1, k \in V PROVE k + 1 \in V
    <3>1. k + 1 \in 1 .. n /\ k + 1 \in 0 .. n /\ (k + 1) - 1 = k
      BY <1>4
    <3>2. w[k] = 2 * w[k + 1] /\ w[k + 1] \in Nat /\ w[k] <= THREADS
      BY <1>3, <1>4, <2>2, <3>1
    <3> QED
      BY <1>4, <3>1, <3>2
  <2> HIDE DEF V
  <2>3. \A k \in 0 .. n : k \in V
    BY <1>4, <2>1, <2>2, BoundedInduction
  <2>4. \A k \in 0 .. n : w[k] <= THREADS
    BY <2>3 DEF V
  <2>5. ASSUME NEW k \in 1 .. n PROVE w[k - 1] = 2 * w[k] /\ k - 1 \in 0 .. n
    BY <1>3, <1>4
  <2> QED
    BY <2>4, <2>5
<1>6. ASSUME NEW s \in D, NEW h \in Nat, 2 * h <= THREADS PROVE fold(s, h) \in D
  <2>1. DOMAIN s = Lanes /\ \A t \in Lanes : s[t] \in Tallies(T)
    OBVIOUS
  <2>2. ASSUME NEW t \in Lanes PROVE (IF t < h THEN Add2(s[t], s[t + h]) ELSE s[t]) \in Tallies(T)
    <3>1. t < h => t + h \in Lanes
      BY <1>4, <1>6
    <3>2. s[t] \in Tallies(T)
      BY <2>1
    <3>3. t < h => s[t + h] \in Tallies(T)
      BY <2>1, <3>1
    <3> HIDE DEF T
    <3>4. t < h => Add2(s[t], s[t + h]) \in Tallies(T)
      BY <3>2, <3>3, TalliesAdd
    <3> QED
      BY <3>2, <3>4
  <2> HIDE DEF T, Lanes
  <2> QED
    BY <2>1, <2>2
<1>7. step \in [S \X D -> D]
  <2>1. ASSUME NEW p \in S \X D PROVE fold(p[2], w[p[1]]) \in D
    <3>1. p[1] \in S /\ p[2] \in D
      OBVIOUS
    <3>2. w[p[1]] \in Nat /\ 2 * w[p[1]] <= THREADS
      BY <1>4, <1>20, <3>1
    <3> HIDE DEF fold, D
    <3> QED
      BY <1>6, <3>1, <3>2
  <2> HIDE DEF fold, D, S
  <2> QED
    BY <2>1
<1>8. PICK g \in [SUBSET S -> D] : IsLeftFold(g, base, step, S)
  <2> HIDE DEF base, D, step
  <2> QED
    BY <1>4, <1>5, <1>7, LeftFoldExists
<1>9. Eq2(g)
  <2>1. g = [s \in SUBSET S |-> g[s]] /\ g[{}] = base
    BY <1>8 DEF IsLeftFold
  <2>2. ASSUME NEW s \in SUBSET S, s # {} PROVE g[s] = fold(g[s \ {Max(s)}], q[Max(s)])
    <3>1. Max(s) \in S
      BY <1>4, <2>2, Segments
    <3>2. g[s \ {Max(s)}] \in D
      BY <1>8
    <3>3. g[s] = step[<<Max(s), g[s \ {Max(s)}]>>]
      BY <1>8, <2>2 DEF IsLeftFold
    <3>4. q[Max(s)] = w[Max(s)]
      BY <1>4, <3>1
    <3> HIDE DEF fold, D, S, base
    <3>5. step[<<Max(s), g[s \ {Max(s)}]>>] = fold(g[s \ {Max(s)}], w[Max(s)])
      BY <3>1, <3>2
    <3> HIDE DEF step, q
    <3> QED
      BY <3>3, <3>4, <3>5
  <2> HIDE DEF fold, S, base, q
  <2> QED
    BY <2>1, <2>2
<1>10. Eq2(it)
  <2> HIDE DEF Eq2
  <2> QED
    BY <1>9
<1>11. TreeSum(base) = it[S][0]
  <2>1. TreeSum(base) = (CHOOSE z : z = [s \in SUBSET DOMAIN q |->
                               IF s = {} THEN base ELSE fold(z[s \ {Max(s)}], q[Max(s)])])[DOMAIN q][0]
    BY DEF TreeSum, FoldLeft, MapThenFoldSet
  <2> HIDE DEF fold, base, q, S
  <2> QED
    BY <1>4, <2>1
<1> HIDE DEF it
<1>12. 1 .. 0 = {} /\ \A k \in 1 .. n : /\ 1 .. k \in SUBSET S /\ 1 .. k # {}
                                        /\ Max(1 .. k) = k /\ (1 .. k) \ {k} = 1 .. k - 1
  BY <1>4, Segments
<1> DEFINE h == [k \in 0 .. n |-> it[1 .. k]]
<1>13. h[0] = base /\ h[n] = it[S]
  <2>1. 0 \in 0 .. n /\ n \in 0 .. n /\ {} \in SUBSET S
    BY <1>4
  <2>2. it[{}] = base
    <3> HIDE DEF base, fold, q, S
    <3> QED
      BY <1>10, <2>1
  <2> HIDE DEF base, fold, q
  <2> QED
    BY <1>12, <2>1, <2>2
<1>14. ASSUME NEW k \in 1 .. n PROVE h[k] = fold(h[k - 1], w[k])
  <2>1. it[1 .. k] = fold(it[1 .. k - 1], q[k])
    <3> DEFINE s == 1 .. k
    <3>1. s \in SUBSET S /\ s # {} /\ Max(s) = k /\ s \ {Max(s)} = 1 .. k - 1
      BY <1>12
    <3> HIDE DEF base, fold, q, S, s
    <3>2. it[s] = fold(it[s \ {Max(s)}], q[Max(s)])
      BY <1>10, <3>1
    <3>3. it[s] = fold(it[1 .. k - 1], q[k])
      BY <3>1, <3>2
    <3> QED
      BY <3>3 DEF s
  <2>2. k \in 0 .. n /\ k - 1 \in 0 .. n /\ q[k] = w[k]
    BY <1>4
  <2> HIDE DEF fold, q
  <2> QED
    BY <2>1, <2>2
<1> HIDE DEF h
<1> DEFINE Summed(k) == /\ w[k] <= THREADS /\ DOMAIN h[k] = Lanes
                        /\ \A t \in 0 .. w[k] - 1 : h[k][t] = CountOver(f, of(w[k], t))
           U == {k \in 0 .. n : Summed(k)}
<1>15. 0 \in U
  <2>1. w[0] = THREADS /\ h[0] = base /\ DOMAIN base = Lanes
    BY <1>3, <1>13
  <2>2. ASSUME NEW t \in Lanes PROVE {i \in I : lane[i] = t} = of(THREADS, t)
    <3>1. ASSUME NEW i \in I PROVE lane[i] % THREADS = lane[i]
      <4>1. lane[i] \in 0 .. THREADS - 1
        OBVIOUS
      <4> DEFINE l == lane[i]
      <4> HIDE DEF l
      <4>2. l \in 0 .. THREADS - 1 => l % THREADS = l
        <5> SUFFICES ASSUME l \in 0 .. THREADS - 1 PROVE l % THREADS = l
          OBVIOUS
        <5>1. (0 * THREADS + l) % THREADS = l
          BY <1>4, RowAndColumn
        <5>2. 0 * THREADS + l = l
          BY <1>4
        <5> QED
          BY <5>1, <5>2
      <4> QED
        BY <4>1, <4>2 DEF l
    <3> QED
      BY <3>1
  <2>3. \A t \in Lanes : base[t] = CountOver(f, of(THREADS, t))
    BY <2>2
  <2> HIDE DEF base, of
  <2> QED
    BY <1>4, <2>1, <2>3
<1>16. ASSUME NEW k \in 0 .. n - 1, k \in U PROVE k + 1 \in U
  <2> DEFINE d == w[k + 1]
  <2>1. k + 1 \in 1 .. n /\ k + 1 \in 0 .. n /\ (k + 1) - 1 = k
    BY <1>4
  <2>2. w[k] = 2 * d /\ d \in Nat \ {0}
    BY <1>3, <1>4, <2>1
  <2>3. h[k + 1] = fold(h[k], d)
    BY <1>14, <2>1
  <2> HIDE DEF d, fold
  <2>4. d <= THREADS /\ Summed(k)
    BY <1>4, <1>16, <2>2
  <2>5. h[k + 1] = [t \in Lanes |-> IF t < d THEN Add2(h[k][t], h[k][t + d]) ELSE h[k][t]]
    BY <2>3, <2>4 DEF fold
  <2>6. ASSUME NEW t \in 0 .. d - 1 PROVE h[k + 1][t] = CountOver(f, of(d, t))
    <3>0. t \in Int /\ 0 <= t /\ t <= d - 1 /\ d \in Int /\ d <= THREADS
      BY <2>2, <2>4
    <3>1. t \in Lanes /\ t < d /\ t \in 0 .. 2 * d - 1 /\ t + d \in 0 .. 2 * d - 1
      BY <1>4, <3>0
    <3>2. h[k + 1][t] = Add2(h[k][t], h[k][t + d])
      BY <2>5, <3>1
    <3>3. h[k][t] = CountOver(f, of(2 * d, t)) /\ h[k][t + d] = CountOver(f, of(2 * d, t + d))
      BY <2>2, <2>4, <3>1
    <3>4. ASSUME NEW i \in I
          PROVE  (lane[i] % d = t) <=> (lane[i] % (2 * d) = t \/ lane[i] % (2 * d) = t + d)
      <4>1. lane[i] \in Nat
        BY <1>4
      <4> QED
        BY <2>2, <4>1, LanesMerge
    <3>5. of(d, t) = of(2 * d, t) \cup of(2 * d, t + d)
      BY <3>4
    <3>6. t # t + d
      BY <2>2
    <3>7. of(2 * d, t) \cap of(2 * d, t + d) = {}
      BY <3>6
    <3>8. IsFiniteSet(of(2 * d, t)) /\ IsFiniteSet(of(2 * d, t + d))
      BY FS_Subset
    <3> HIDE DEF of
    <3>9. Add2(CountOver(f, of(2 * d, t)), CountOver(f, of(2 * d, t + d))) = CountOver(f, of(d, t))
      BY <3>5, <3>7, <3>8, MergeCounts
    <3> QED
      BY <3>2, <3>3, <3>9
  <2>7. DOMAIN h[k + 1] = Lanes
    BY <2>5
  <2>8. Summed(k + 1)
    <3> HIDE DEF of, Lanes
    <3> QED
      BY <2>4, <2>6, <2>7 DEF d
  <2> HIDE DEF Summed
  <2> QED
    BY <2>1, <2>8
<1>17. n \in U
  <2>1. n \in Nat /\ n \in 0 .. n
    BY <1>4
  <2> HIDE DEF U
  <2>2. \A k \in 0 .. n : k \in U
    BY <2>1, <1>15, <1>16, BoundedInduction
  <2> QED
    BY <2>1, <2>2
<1>18. h[n][0] = CountOver(f, of(1, 0))
  BY <1>3, <1>17
<1>19. of(1, 0) = I
  <2>1. ASSUME NEW i \in I PROVE lane[i] % 1 = 0
    <3> DEFINE l == lane[i]
    <3>1. l \in Nat
      BY <1>4
    <3> HIDE DEF l
    <3>2. l % 1 = 0
      BY <3>1
    <3> QED
      BY <3>2 DEF l
  <2> QED
    BY <2>1
<1> HIDE DEF of
<1> QED
  BY <1>11, <1>13, <1>18, <1>19

\* The last axis: its lines lie one behind the other.
LEMMA LastAxis ==
    ASSUME NEW s, IsShape(s), Len(s) # 0, NEW dim, dim = s[Len(s)], NEW rows, rows = Numel(s) \div dim
    PROVE  /\ dim \in Nat \ {0} /\ rows \in Nat \ {0} /\ Numel(s) = rows * dim /\ Len(s) \in 1 .. Len(s)
           /\ \A i \in 0 .. Numel(s) - 1 : Coordinates(i, s)[Len(s)] = i % dim
<1> DEFINE d == Len(s)
           outer == Outer(s, d)
<1>1. d \in Nat /\ d \in 1 .. d /\ Numel(s) \in Nat
  BY NumelIs
<1>2. Inner(s, d) = 1 /\ s[d] \in Nat \ {0} /\ Numel(s) = outer * (s[d] * Inner(s, d)) /\ outer \in Nat \ {0}
  BY <1>1, InnerSizes, FrontSizes
<1> HIDE DEF outer
<1>3. Numel(s) = outer * dim /\ dim \in Nat \ {0}
  BY <1>2
<1>4. rows = outer
  <2>1. (outer * dim + 0) \div dim = outer
    BY <1>2, <1>3, RowAndColumn
  <2>2. outer * dim + 0 = outer * dim
    BY <1>2, <1>3
  <2> QED
    BY <1>3, <2>1, <2>2
<1>5. ASSUME NEW i \in 0 .. Numel(s) - 1 PROVE Coordinates(i, s)[d] = i % dim
  <2>1. i \in Nat
    BY <1>1
  <2>2. Coordinates(i, s)[d] = (i \div Inner(s, d)) % s[d]
    BY <1>1, <2>1, CoordinatesAre
  <2>3. i \div 1 = i
    BY <2>1
  <2> QED
    BY <1>2, <2>2, <2>3
<1> QED
  BY <1>1, <1>2, <1>3, <1>4, <1>5

\* Line r of f, with the places of its elements.
IsLine(X, f, dim, r) ==
    /\ \A j \in 0 .. dim - 1 : <<r * dim + j, f[r * dim + j]>> \in X
    /\ \A x \in X : \E j \in 0 .. dim - 1 : x = <<r * dim + j, f[r * dim + j]>>

\* The lines are the rows of such a tensor.
LEMMA LinesAreRowed ==
    ASSUME NEW rows \in Nat \ {0}, NEW dim \in Nat \ {0}, NEW n, n = rows * dim,
           NEW f, DOMAIN f = 0 .. n - 1,
           NEW R, \A r \in 0 .. rows - 1 : IsLine(R[r], f, dim, r)
    PROVE  Rowed(R, rows, f, [i \in 0 .. n - 1 |-> i \div dim])
<1> DEFINE rowOf == [i \in 0 .. n - 1 |-> i \div dim]
<1>1. n \in Nat
  BY NonZeroProduct
<1>2. ASSUME NEW i \in 0 .. n - 1
      PROVE  /\ rowOf[i] \in 0 .. rows - 1
             /\ \E j \in 0 .. dim - 1 : i = rowOf[i] * dim + j
  <2>1. i \in Nat /\ i < rows * dim /\ rows \in Nat
    BY <1>1
  <2>2. i \div dim \in 0 .. rows - 1
    BY <2>1, QuotientFits
  <2>3. i % dim \in 0 .. dim - 1 /\ i = (i \div dim) * dim + (i % dim)
    BY <2>1, BlockParts
  <2> QED
    BY <2>2, <2>3
<1>3. ASSUME NEW r \in 0 .. rows - 1, NEW j \in 0 .. dim - 1
      PROVE  r * dim + j \in 0 .. n - 1 /\ rowOf[r * dim + j] = r
  <2>1. r * dim + j \in Nat /\ r * dim + j < rows * dim /\ (r * dim + j) \div dim = r
    BY RowsFit
  <2> DEFINE k == r * dim + j
  <2>2. k \in 0 .. n - 1
    <3> HIDE DEF k
    <3> QED
      BY <1>1, <2>1 DEF k
  <2> QED
    BY <2>1, <2>2
<1> HIDE DEF rowOf
<1>4. ASSUME NEW r \in 0 .. rows - 1 PROVE R[r] = {<<i, f[i]>> : i \in {i \in DOMAIN f : rowOf[i] = r}}
  <2>1. ASSUME NEW x \in R[r] PROVE \E i \in DOMAIN f : rowOf[i] = r /\ x = <<i, f[i]>>
    <3>1. PICK j \in 0 .. dim - 1 : x = <<r * dim + j, f[r * dim + j]>>
      BY DEF IsLine
    <3> QED
      BY <1>3, <3>1
  <2>2. ASSUME NEW i \in DOMAIN f, rowOf[i] = r PROVE <<i, f[i]>> \in R[r]
    <3>1. PICK j \in 0 .. dim - 1 : i = r * dim + j
      BY <1>2, <2>2
    <3>2. <<r * dim + j, f[r * dim + j]>> \in R[r]
      BY DEF IsLine
    <3> QED
      BY <3>1, <3>2
  <2> QED
    BY <2>1, <2>2
<1>5. \A i \in DOMAIN f : rowOf[i] \in 0 .. rows - 1
  BY <1>2
<1>6. Rowed(R, rows, f, rowOf)
  BY <1>4, <1>5 DEF Rowed
<1> QED
  BY <1>6 DEF rowOf

\* The elements of the line that element i of the first operand lies in, at coordinates c.
LineIs(in, s, dim, i) ==
    LET c == Coordinates(i, s)
    IN  /\ Of(in, 1, c) = Elem(1, i)
        /\ \A m \in Int : Of(in, 1, With(c, Len(s), m)) = Elem(1, (i \div dim) * dim + m)

\* They lie side by side, for every element of a row-major operand.
LEMMA LineOfOperand ==
    ASSUME NEW in, IsRowMajor(in[1]), NEW s, s = in[1].shape, Len(s) # 0, NEW dim, dim = s[Len(s)],
           NEW i \in 0 .. Numel(s) - 1
    PROVE  LineIs(in, s, dim, i)
<1> DEFINE d == Len(s)
           c == Coordinates(i, s)
<1>1. IsShape(s) /\ d \in 1 .. Len(s) /\ Numel(s) \in Nat
  BY NumelIs DEF IsRowMajor
<1>2. Inner(s, d) = 1 /\ s[d] \in Nat \ {0}
  BY <1>1, InnerSizes
<1>3. ASSUME NEW m \in Int PROVE Of(in, 1, With(c, d, m)) = Elem(1, (i \div dim) * dim + m)
  <2>1. Of(in, 1, With(c, d, m)) =
          Elem(1, (i \div (s[d] * Inner(s, d))) * (s[d] * Inner(s, d)) + m * Inner(s, d) + (i % Inner(s, d)))
    BY <1>1, AlongIs
  <2>2. s[d] * 1 = dim /\ m * 1 = m /\ i % 1 = 0
    BY <1>1, <1>2
  <2>3. i \div dim \in Nat /\ dim \in Nat /\ i \in Nat
    <3>1. i \in Nat /\ dim \in Nat \ {0}
      BY <1>1, <1>2
    <3> QED
      BY <3>1, BlockParts
  <2> DEFINE A == (i \div dim) * dim
  <2>4. A \in Nat
    <3> DEFINE k == i \div dim
    <3> HIDE DEF k
    <3> QED
      BY <2>3 DEF k
  <2> HIDE DEF A, c
  <2>5. Of(in, 1, With(c, d, m)) = Elem(1, A + m + 0)
    BY <1>2, <2>1, <2>2 DEF A
  <2> QED
    BY <2>4, <2>5 DEF A
<1>4. Of(in, 1, c) = Elem(1, i)
  BY <1>1, AlongIs
<1> QED
  BY <1>3, <1>4 DEF LineIs

\* A line, and an element scaled by it.
LineOf(dim, r) == [j \in 0 .. dim - 1 |-> Elem(1, r * dim + j)]
ScaledIn(line, i, j, dim) == Scaled(i, j, CountOver(line, DOMAIN line), dim)

\* The lines of what RMSNorm means.
NormalisedLines(f, dim) == \A i \in DOMAIN f : f[i] = ScaledIn(LineOf(dim, i \div dim), i, i % dim, dim)

\* What RMSNorm means is found line by line.
LEMMA RMSNormMeans ==
    ASSUME NEW in, IsRowMajor(in[1]), NEW s, s = in[1].shape, Len(s) # 0, NEW dim, dim = s[Len(s)],
           NEW a, NEW data, NEW f, f = Meant("RMSNorm", in, a, data, s)
    PROVE  NormalisedLines(f, dim)
<1> SUFFICES ASSUME NEW i \in 0 .. Numel(s) - 1
             PROVE  Meaning("RMSNorm", in, a, data, Coordinates(i, s)) = ScaledIn(LineOf(dim, i \div dim), i, i % dim, dim)
  BY DEF Meant, NormalisedLines
<1> DEFINE c == Coordinates(i, s)
           d == Len(s)
           F == LineOf(dim, i \div dim)
           along == SumOf(0 .. Dim(in[1], d) - 1, LAMBDA n : Of(in, 1, With(c, d, n)))
<1>1. Meaning("RMSNorm", in, a, data, c) = Scaled(Of(in, 1, c)[2], c[Len(c)], along, Back(in[1], 0))
  BY DEF Meaning, Elementwise, Unary, Binary, Rank
<1>2. IsShape(s) /\ d \in Nat /\ d \in 1 .. d /\ Numel(s) \in Nat
  BY NumelIs DEF IsRowMajor
<1>3. Len(c) = d /\ c[d] = i % dim
  <2>1. i \in Nat
    BY <1>2
  <2>2. Len(c) = d
    BY <1>2, <2>1, CoordinatesAre
  <2> QED
    BY <1>2, <2>2, LastAxis
<1>4. Back(in[1], 0) = dim /\ Dim(in[1], d) = dim
  BY <1>2 DEF Back, Dim
<1>5. Of(in, 1, c)[2] = i
  <2>1. LineIs(in, s, dim, i)
    BY LineOfOperand
  <2>2. Of(in, 1, c) = Elem(1, i)
    BY <2>1 DEF LineIs
  <2> QED
    BY <2>2 DEF Elem
<1>6. along = CountOver(F, DOMAIN F)
  <2>1. along = CountOver([n \in 0 .. dim - 1 |-> Of(in, 1, With(c, d, n))], 0 .. dim - 1)
    BY <1>4 DEF SumOf, CountOver
  <2>2. DOMAIN F = 0 .. dim - 1 /\ \A n \in 0 .. dim - 1 : F[n] = Elem(1, (i \div dim) * dim + n)
    BY DEF LineOf
  <2>6. LineIs(in, s, dim, i)
    BY LineOfOperand
  <2>7. \A n \in 0 .. dim - 1 : Of(in, 1, With(c, d, n)) = Elem(1, (i \div dim) * dim + n)
    BY <2>6 DEF LineIs
  <2>3. \A n \in 0 .. dim - 1 : Of(in, 1, With(c, d, n)) = F[n]
    <3> HIDE DEF F, c, d
    <3> QED
      BY <2>2, <2>7
  <2> DEFINE g == [n \in 0 .. dim - 1 |-> Of(in, 1, With(c, d, n))]
  <2>4. \A n \in 0 .. dim - 1 : g[n] = F[n]
    BY <2>3
  <2> HIDE DEF g, F
  <2>5. CountOver(g, 0 .. dim - 1) = CountOver(F, 0 .. dim - 1)
    BY <2>4, CountsAgree
  <2> QED
    BY <2>1, <2>2, <2>5 DEF g
<1> HIDE DEF c, F, along
<1>7. Meaning("RMSNorm", in, a, data, c) = ScaledIn(F, i, i % dim, dim)
  BY <1>1, <1>3, <1>4, <1>5, <1>6 DEF ScaledIn
<1> QED
  BY <1>7 DEF c, F

\* The squares that the threads of a block add up are those of the line.
SquaresOf(dim, r) ==
    TreeSum([t \in 0 .. THREADS - 1 |-> SumOf(Strided(t, dim, THREADS), LAMBDA j : Elem(1, r * dim + j))])

\* The threads have every element of the line once.
LEMMA SquaresAddUp ==
    ASSUME NEW dim \in Nat \ {0}, NEW r \in Nat
    PROVE  SquaresOf(dim, r) = CountOver(LineOf(dim, r), 0 .. dim - 1)
<1> DEFINE I == 0 .. dim - 1
           F == LineOf(dim, r)
           lane == [j \in I |-> j % THREADS]
           partial == [t \in 0 .. THREADS - 1 |-> SumOf(Strided(t, dim, THREADS), LAMBDA j : Elem(1, r * dim + j))]
           parts == [t \in 0 .. THREADS - 1 |-> CountOver(F, {j \in I : lane[j] = t})]
<1>1. THREADS \in Nat \ {0}
  BY BlockSizes
<1>2. IsFiniteSet(I)
  BY FS_Interval
<1>3. lane \in [I -> 0 .. THREADS - 1]
  <2> SUFFICES ASSUME NEW j \in I PROVE j % THREADS \in 0 .. THREADS - 1
    OBVIOUS
  <2>1. j \in Nat
    OBVIOUS
  <2> QED
    BY <1>1, <2>1, BlockParts
<1>4. \A j \in I : F[j] = Elem(1, r * dim + j)
  BY DEF LineOf
<1>5. ASSUME NEW t \in 0 .. THREADS - 1 PROVE partial[t] = parts[t]
  <2> DEFINE J == Strided(t, dim, THREADS)
             g == [j \in J |-> Elem(1, r * dim + j)]
  <2>1. J = {j \in I : lane[j] = t}
    BY DEF Strided
  <2>2. partial[t] = CountOver(g, J)
    BY DEF SumOf, CountOver
  <2>3. \A j \in J : g[j] = F[j]
    BY <1>4, <2>1
  <2> HIDE DEF J, g, F, lane, partial
  <2>4. CountOver(g, J) = CountOver(F, J)
    BY <2>3, CountsAgree
  <2> QED
    BY <2>1, <2>2, <2>4
<1>6. partial = parts
  <2>1. DOMAIN partial = 0 .. THREADS - 1 /\ DOMAIN parts = 0 .. THREADS - 1
    OBVIOUS
  <2>2. partial = [t \in 0 .. THREADS - 1 |-> partial[t]] /\ parts = [t \in 0 .. THREADS - 1 |-> parts[t]]
    OBVIOUS
  <2> HIDE DEF partial, parts
  <2> QED
    BY <1>5, <2>2
<1>7. TreeSum(parts) = CountOver(F, I)
  <2> HIDE DEF F, I, lane
  <2> QED
    BY <1>2, <1>3, ThreadsAddUp
<1> HIDE DEF partial, parts, F
<1>8. TreeSum(partial) = CountOver(F, I)
  BY <1>6, <1>7
<1> QED
  BY <1>8 DEF partial, F, SquaresOf

\* A line of the operator and of a kernel.
ScaledLine(f, dim, r) ==
    \A j \in 0 .. dim - 1 : /\ r * dim + j \in DOMAIN f
                            /\ f[r * dim + j] = ScaledIn(LineOf(dim, r), r * dim + j, j, dim)

\* A line on the CPU.
LEMMA LineIsNormalised ==
    ASSUME NEW rows \in Nat \ {0}, NEW dim \in Nat \ {0}, NEW n, n = rows * dim,
           NEW f, DOMAIN f = 0 .. n - 1, NormalisedLines(f, dim), NEW r \in 0 .. rows - 1
    PROVE  ScaledLine(f, dim, r) /\ IsLine(CpuRMSNormRow(r, dim), f, dim, r)
<1> DEFINE F == LineOf(dim, r)
           squares == SumOf(0 .. dim - 1, LAMBDA j : Elem(1, r * dim + j))
<1>1. DOMAIN F = 0 .. dim - 1 /\ F = [j \in 0 .. dim - 1 |-> Elem(1, r * dim + j)]
  BY DEF LineOf
<1>2. squares = CountOver(F, DOMAIN F)
  <2>1. squares = CountOver([j \in 0 .. dim - 1 |-> Elem(1, r * dim + j)], 0 .. dim - 1)
    BY DEF SumOf, CountOver
  <2> HIDE DEF squares, F
  <2> QED
    BY <1>1, <2>1
<1>3. CpuRMSNormRow(r, dim) = {<<r * dim + j, Scaled(r * dim + j, j, squares, dim)>> : j \in 0 .. dim - 1}
  BY DEF CpuRMSNormRow
<1>4. ASSUME NEW j \in 0 .. dim - 1
      PROVE  /\ r * dim + j \in DOMAIN f
             /\ f[r * dim + j] = ScaledIn(F, r * dim + j, j, dim)
  <2> DEFINE i == r * dim + j
  <2>1. i \in Nat /\ i < rows * dim /\ i \div dim = r /\ i % dim = j
    BY RowsFit
  <2>2. n \in Nat
    BY NonZeroProduct
  <2> HIDE DEF i, F
  <2>3. i \in DOMAIN f
    BY <2>1, <2>2
  <2>4. f[i] = ScaledIn(LineOf(dim, i \div dim), i, i % dim, dim)
    BY <2>3 DEF NormalisedLines
  <2>5. f[i] = ScaledIn(F, i, j, dim)
    BY <2>1, <2>4 DEF F
  <2> QED
    BY <2>3, <2>5 DEF i
<1>5. \A i, j : ScaledIn(F, i, j, dim) = Scaled(i, j, squares, dim)
  BY <1>2 DEF ScaledIn
<1> HIDE DEF F, squares
<1>6. \A j \in 0 .. dim - 1 : f[r * dim + j] = Scaled(r * dim + j, j, squares, dim)
  BY <1>4, <1>5
<1>7. \A j \in 0 .. dim - 1 : <<r * dim + j, f[r * dim + j]>> \in CpuRMSNormRow(r, dim)
  BY <1>3, <1>6
<1>8. \A x \in CpuRMSNormRow(r, dim) : \E j \in 0 .. dim - 1 : x = <<r * dim + j, f[r * dim + j]>>
  BY <1>3, <1>6
<1>9. IsLine(CpuRMSNormRow(r, dim), f, dim, r)
  BY <1>7, <1>8 DEF IsLine
<1> QED
  BY <1>4, <1>9 DEF F, ScaledLine

\* RMSNorm.
LEMMA RMSNormComputes ==
    ASSUME NEW in, IsRowMajor(in[1]), Len(in[1].shape) # 0, NEW y, y.shape = in[1].shape, NEW a, NEW data
    PROVE  /\ Computes(CpuRMSNorm(in, y), Meant("RMSNorm", in, a, data, y.shape))
           /\ Computes(IspcRMSNorm(in, y), Meant("RMSNorm", in, a, data, y.shape))
           /\ Computes(CudaRMSNorm(in, y), Meant("RMSNorm", in, a, data, y.shape))
<1> DEFINE s == in[1].shape
           n == Numel(s)
           dim == Back(in[1], 0)
           rows == n \div dim
           f == Meant("RMSNorm", in, a, data, s)
           R == [r \in 0 .. rows - 1 |-> CpuRMSNormRow(r, dim)]
           rowOf == [i \in 0 .. n - 1 |-> i \div dim]
           task == RowLaunch(rows, RowSerial)
<1>1. IsShape(s) /\ Len(s) \in Nat
  BY NumelIs DEF IsRowMajor
<1>2. dim = s[Len(s)]
  BY <1>1 DEF Back
<1>3. dim \in Nat \ {0} /\ rows \in Nat \ {0} /\ n = rows * dim
  <2>1. rows = Numel(s) \div dim
    OBVIOUS
  <2> HIDE DEF rows, dim
  <2> QED
    BY <1>1, <1>2, <2>1, LastAxis
<1>4. DOMAIN f = 0 .. n - 1 /\ \A i \in 0 .. n - 1 : f[i] = Meaning("RMSNorm", in, a, data, Coordinates(i, s))
  BY DEF Meant
<1>5. NormalisedLines(f, dim)
  <2>1. s = in[1].shape /\ Len(s) # 0 /\ f = Meant("RMSNorm", in, a, data, s)
    OBVIOUS
  <2> HIDE DEF f, dim, s
  <2> QED
    BY <1>2, <2>1, RMSNormMeans
<1>6. /\ \A r \in 0 .. rows - 1 : R[r] = CpuRMSNormRow(r, dim)
      /\ s = y.shape
  OBVIOUS
<1>7. /\ CpuRMSNorm(in, y) = {Store(w[1], Caller, w[2]) : w \in UNION {CpuRMSNormRow(r, dim) : r \in 0 .. rows - 1}}
      /\ IspcRMSNorm(in, y) = UNION {{Store(w[1], <<t>>, w[2]) : w \in UNION {CpuRMSNormRow(r, dim) : r \in task[t]}} : t \in DOMAIN task}
  BY DEF CpuRMSNorm, IspcRMSNorm, RMSNormF32
<1>8. CudaRMSNorm(in, y) =
        UNION {UNION {{Store(r * dim + j, <<r, t>>, Scaled(r * dim + j, j,
                          SquaresOf(dim, r), dim)) :
                         j \in Strided(t, dim, THREADS)} : t \in 0 .. THREADS - 1} : r \in 0 .. rows - 1}
  BY DEF CudaRMSNorm, SquaresOf
<1> HIDE DEF R, f, rows, dim, n
<1>9. ASSUME NEW r \in 0 .. rows - 1 PROVE ScaledLine(f, dim, r) /\ IsLine(R[r], f, dim, r)
  <2>1. ScaledLine(f, dim, r) /\ IsLine(CpuRMSNormRow(r, dim), f, dim, r)
    BY <1>3, <1>4, <1>5, LineIsNormalised
  <2> QED
    BY <1>6, <2>1
<1>10. Rowed(R, rows, f, rowOf)
  BY <1>3, <1>4, <1>9, LinesAreRowed
<1>11. RowSerial \in Nat
  BY RowAssumption
<1>12. Computes(ByCaller(R, rows), f) /\ Computes(ByTasks(R, task), f)
  BY <1>3, <1>10, <1>11, RowKernelsCompute
<1>13. CpuRMSNorm(in, y) = ByCaller(R, rows)
  <2>1. UNION {R[r] : r \in 0 .. rows - 1} = UNION {CpuRMSNormRow(r, dim) : r \in 0 .. rows - 1}
    BY <1>6
  <2> QED
    BY <1>7, <2>1 DEF ByCaller
<1>14. IspcRMSNorm(in, y) = ByTasks(R, task)
  <2>1. \A t \in DOMAIN task : task[t] \subseteq 0 .. rows - 1
    BY <1>3, <1>11, TaskRows
  <2> HIDE DEF task
  <2>2. \A t \in DOMAIN task : UNION {CpuRMSNormRow(r, dim) : r \in task[t]} = UNION {R[r] : r \in task[t]}
    BY <1>6, <2>1
  <2>3. \A t \in DOMAIN task : {Store(w[1], <<t>>, w[2]) : w \in UNION {CpuRMSNormRow(r, dim) : r \in task[t]}}
                               = {Store(w[1], <<t>>, w[2]) : w \in UNION {R[r] : r \in task[t]}}
    BY <2>2
  <2>4. ASSUME NEW x \in IspcRMSNorm(in, y) PROVE x \in ByTasks(R, task)
    <3>1. PICK t \in DOMAIN task : x \in {Store(w[1], <<t>>, w[2]) : w \in UNION {CpuRMSNormRow(r, dim) : r \in task[t]}}
      BY <1>7, Zenon
    <3>2. x \in {Store(w[1], <<t>>, w[2]) : w \in UNION {R[r] : r \in task[t]}}
      BY <2>3, <3>1
    <3> QED
      BY <3>2, Zenon DEF ByTasks
  <2>5. ASSUME NEW x \in ByTasks(R, task) PROVE x \in IspcRMSNorm(in, y)
    <3>1. PICK t \in DOMAIN task : x \in {Store(w[1], <<t>>, w[2]) : w \in UNION {R[r] : r \in task[t]}}
      BY Zenon DEF ByTasks
    <3> DEFINE V == {Store(w[1], <<t>>, w[2]) : w \in UNION {CpuRMSNormRow(r, dim) : r \in task[t]}}
               Vs == {{Store(w[1], <<u>>, w[2]) : w \in UNION {CpuRMSNormRow(r, dim) : r \in task[u]}} : u \in DOMAIN task}
    <3>2. x \in V
      BY <2>3, <3>1
    <3>3. V \in Vs
      OBVIOUS
    <3>4. IspcRMSNorm(in, y) = UNION Vs
      BY <1>7
    <3> QED
      BY <3>2, <3>3, <3>4, Zenon
  <2> QED
    BY <2>4, <2>5
<1>15. Computes(CudaRMSNorm(in, y), f)
  <2> DEFINE who == [i \in 0 .. n - 1 |-> <<i \div dim, (i % dim) % THREADS>>]
  <2>1. ASSUME NEW r \in 0 .. rows - 1, NEW j \in 0 .. dim - 1
        PROVE  /\ Scaled(r * dim + j, j, SquaresOf(dim, r), dim) = f[r * dim + j]
               /\ r * dim + j \in 0 .. n - 1
    <3> DEFINE sum == SquaresOf(dim, r)
    <3>1. sum = CountOver(LineOf(dim, r), 0 .. dim - 1)
      BY <1>3, SquaresAddUp
    <3>2. DOMAIN LineOf(dim, r) = 0 .. dim - 1
      BY DEF LineOf
    <3>3. f[r * dim + j] = ScaledIn(LineOf(dim, r), r * dim + j, j, dim) /\ r * dim + j \in 0 .. n - 1
      BY <1>4, <1>9 DEF ScaledLine
    <3> HIDE DEF sum
    <3>4. Scaled(r * dim + j, j, sum, dim) = f[r * dim + j]
      BY <3>1, <3>2, <3>3 DEF ScaledIn
    <3> QED
      BY <3>3, <3>4 DEF sum
  <2>2. ASSUME NEW r \in 0 .. rows - 1, NEW j \in 0 .. dim - 1
        PROVE  who[r * dim + j] = <<r, j % THREADS>>
    <3>1. (r * dim + j) \div dim = r /\ (r * dim + j) % dim = j
      BY <1>3, RowsFit
    <3> QED
      BY <2>1, <3>1
  <2>3. THREADS \in Nat \ {0}
    BY BlockSizes
  <2>4. \A t, j : j \in Strided(t, dim, THREADS) <=> j \in 0 .. dim - 1 /\ j % THREADS = t
    BY DEF Strided
  <2> HIDE DEF who
  <2>5. ASSUME NEW x \in CudaRMSNorm(in, y) PROVE \E i \in DOMAIN f : x = Store(i, who[i], f[i])
    <3>1. PICK r \in 0 .. rows - 1 :
            x \in UNION {{Store(r * dim + j, <<r, t>>, Scaled(r * dim + j, j,
                          SquaresOf(dim, r), dim)) :
                         j \in Strided(t, dim, THREADS)} : t \in 0 .. THREADS - 1}
      BY <1>8, Zenon
    <3>2. PICK t \in 0 .. THREADS - 1 :
            x \in {Store(r * dim + j, <<r, t>>, Scaled(r * dim + j, j,
                          SquaresOf(dim, r), dim)) :
                         j \in Strided(t, dim, THREADS)}
      BY <3>1, Zenon
    <3>3. PICK j \in Strided(t, dim, THREADS) :
            x = Store(r * dim + j, <<r, t>>, Scaled(r * dim + j, j,
                          SquaresOf(dim, r), dim))
      BY <3>2, Zenon
    <3>4. j \in 0 .. dim - 1 /\ j % THREADS = t
      BY <2>4
    <3>5. x = Store(r * dim + j, <<r, t>>, f[r * dim + j])
      BY <2>1, <3>3, <3>4
    <3>6. who[r * dim + j] = <<r, t>> /\ r * dim + j \in DOMAIN f
      BY <1>9, <2>2, <3>4 DEF ScaledLine
    <3> QED
      BY <3>5, <3>6
  <2>6. ASSUME NEW i \in DOMAIN f PROVE Store(i, who[i], f[i]) \in CudaRMSNorm(in, y)
    <3> DEFINE r == i \div dim
               j == i % dim
               t == j % THREADS
    <3>1. i \in Nat /\ i < rows * dim /\ rows \in Nat
      BY <1>3, <1>4
    <3>2. r \in 0 .. rows - 1 /\ j \in 0 .. dim - 1 /\ i = r * dim + j
      BY <1>3, <3>1, BlockParts, QuotientFits
    <3> HIDE DEF r, j
    <3>3. t \in 0 .. THREADS - 1 /\ j \in Strided(t, dim, THREADS)
      <4>1. j \in Nat
        BY <3>2
      <4> QED
        BY <2>3, <2>4, <3>2, <4>1, BlockParts
    <3>4. who[i] = <<r, t>>
      BY <2>2, <3>2
    <3> DEFINE v == Scaled(r * dim + j, j, SquaresOf(dim, r), dim)
    <3>5. Store(i, who[i], f[i]) = Store(r * dim + j, <<r, t>>, v)
      BY <2>1, <3>2, <3>4
    <3> HIDE DEF t
    <3> DEFINE V(q, z) == {Store(q * dim + l, <<q, z>>, Scaled(q * dim + l, l, SquaresOf(dim, q), dim)) :
                              l \in Strided(z, dim, THREADS)}
               U(q) == UNION {V(q, z) : z \in 0 .. THREADS - 1}
    <3>6. Store(r * dim + j, <<r, t>>, v) \in V(r, t)
      BY <3>3, Zenon
    <3>9. CudaRMSNorm(in, y) = UNION {U(q) : q \in 0 .. rows - 1}
      BY <1>8
    <3> HIDE DEF V
    <3>7. Store(r * dim + j, <<r, t>>, v) \in U(r)
      BY <3>3, <3>6, Zenon
    <3> HIDE DEF U
    <3>8. Store(r * dim + j, <<r, t>>, v) \in CudaRMSNorm(in, y)
      BY <3>2, <3>7, <3>9, Zenon
    <3> HIDE DEF v
    <3> QED
      BY <3>5, <3>8
  <2> QED
    BY <2>5, <2>6, StoresOnce
<1> QED
  BY <1>6, <1>12, <1>13, <1>14, <1>15 DEF f

\* Element i of a rotated tensor: half of its line away is the other element of its pair.
Turned(dim, cached, i) ==
    LET half == dim \div 2
        r == i \div dim
        k == i % dim
        angle == RotaryPosition(r, cached) * half + (k % half)
    IN  IF k < half THEN Rotated("-", i, r * dim + (k + half), angle)
        ELSE Rotated("+", i, r * dim + (k - half), angle)

TurnedLines(f, dim, cached) == \A i \in DOMAIN f : f[i] = Turned(dim, cached, i)

\* The row of the cache that a line takes its angles from.
PositionsFit(s, cached) == cached > 1 => Len(s) >= 2 /\ s[Len(s) - 1] = cached

\* What RotaryEmbedding means is found line by line.
LEMMA RotaryMeans ==
    ASSUME NEW in, IsRowMajor(in[1]), NEW s, s = in[1].shape, Len(s) # 0, NEW dim, dim = s[Len(s)],
           NEW cached, cached = CacheRows(in), PositionsFit(s, cached),
           NEW a, NEW data, NEW f, f = Meant("RotaryEmbedding", in, a, data, s)
    PROVE  TurnedLines(f, dim, cached)
<1> SUFFICES ASSUME NEW i \in 0 .. Numel(s) - 1
             PROVE  Meaning("RotaryEmbedding", in, a, data, Coordinates(i, s)) = Turned(dim, cached, i)
  BY DEF Meant, TurnedLines
<1> DEFINE c == Coordinates(i, s)
           d == Len(s)
           half == dim \div 2
           r == i \div dim
           k == i % dim
           turn == (IF cached > 1 THEN c[d - 1] ELSE 0) * half + (c[d] % half)
<1>1. IsShape(s) /\ d \in Nat /\ d \in 1 .. d /\ Numel(s) \in Nat /\ i \in Nat
  BY NumelIs DEF IsRowMajor
<1>2. Len(c) = d /\ c[d] = k /\ dim \in Nat \ {0}
  <2>1. Len(c) = d
    BY <1>1, CoordinatesAre
  <2> QED
    BY <1>1, <2>1, LastAxis
<1>3. Back(in[1], 0) = dim
  BY <1>1 DEF Back
<1>4. Of(in, 1, c)[2] = i /\ \A m \in Int : Of(in, 1, With(c, d, m))[2] = r * dim + m
  <2>2. LineIs(in, s, dim, i)
    BY LineOfOperand
  <2>1. Of(in, 1, c) = Elem(1, i) /\ \A m \in Int : Of(in, 1, With(c, d, m)) = Elem(1, r * dim + m)
    BY <2>2 DEF LineIs
  <2> HIDE DEF c, r
  <2> QED
    BY <2>1 DEF Elem
<1>5. Meaning("RotaryEmbedding", in, a, data, c) = MeaningOfRotary(in, c)
  BY DEF Meaning, Elementwise, Unary, Binary
<1> HIDE DEF c
<1>6. MeaningOfRotary(in, c) =
        IF c[d] < half THEN Rotated("-", Of(in, 1, c)[2], Of(in, 1, With(c, d, c[d] + half))[2], turn)
        ELSE Rotated("+", Of(in, 1, c)[2], Of(in, 1, With(c, d, c[d] - half))[2], turn)
  BY <1>2, <1>3 DEF MeaningOfRotary
<1>7. cached > 1 => c[d - 1] = r % cached
  <2> SUFFICES ASSUME cached > 1 PROVE c[d - 1] = r % cached
    OBVIOUS
  <2>1. d >= 2 /\ s[d - 1] = cached
    BY DEF PositionsFit
  <2>2. d - 1 \in 1 .. Len(s)
    BY <1>1, <2>1
  <2>3. c[d - 1] = (i \div Inner(s, d - 1)) % s[d - 1]
    BY <1>1, <2>2, CoordinatesAre DEF c
  <2>4. Inner(s, d - 1) = s[d] * Inner(s, d) /\ Inner(s, d) = 1
    BY <1>1, InnerSizes
  <2>5. Inner(s, d - 1) = dim
    BY <1>2, <2>4
  <2> QED
    BY <2>1, <2>3, <2>5
<1>8. turn = RotaryPosition(r, cached) * half + (k % half)
  BY <1>2, <1>7 DEF RotaryPosition
<1>9. k \in Int /\ half \in Int
  <2>1. k \in 0 .. dim - 1
    BY <1>1, <1>2, BlockParts
  <2> QED
    BY <1>2, <2>1
<1> HIDE DEF turn, half, k, r
<1>10. k + half \in Int /\ k - half \in Int
  BY <1>9
<1>11. MeaningOfRotary(in, c) = IF k < half THEN Rotated("-", i, r * dim + (k + half), turn)
                               ELSE Rotated("+", i, r * dim + (k - half), turn)
  BY <1>2, <1>4, <1>6, <1>10
<1>12. Turned(dim, cached, i) = IF k < half THEN Rotated("-", i, r * dim + (k + half), turn)
                               ELSE Rotated("+", i, r * dim + (k - half), turn)
  BY <1>8 DEF Turned, half, k, r
<1> QED
  BY <1>5, <1>11, <1>12 DEF c

\* The halves of a line.
IsHalf(half, dim) ==
    /\ half \in Nat \ {0} /\ dim = half + half
    /\ \A j \in 0 .. half - 1 : /\ j \in 0 .. dim - 1 /\ j + half \in 0 .. dim - 1
                                /\ j % half = j /\ (j + half) % half = j
                                /\ j < half /\ ~ (j + half < half) /\ (j + half) - half = j
    /\ \A j \in 0 .. dim - 1 : j \in 0 .. half - 1 \/ \E k \in 0 .. half - 1 : j = k + half

\* An even line has two halves.
LEMMA HalfIs ==
    ASSUME NEW dim \in Nat \ {0}, dim % 2 = 0
    PROVE  IsHalf(dim \div 2, dim)
<1>1. PICK half : half = dim \div 2
  OBVIOUS
<1>2. half \in Nat \ {0} /\ dim = half + half
  BY <1>1
<1>3. ASSUME NEW h \in Nat \ {0}, NEW j \in 0 .. h - 1
      PROVE  /\ j \in 0 .. (h + h) - 1 /\ j + h \in 0 .. (h + h) - 1
             /\ j % h = j /\ (j + h) % h = j
             /\ j < h /\ ~ (j + h < h) /\ (j + h) - h = j
  <2>1. (0 * h + j) % h = j /\ (1 * h + j) % h = j
    BY RowAndColumn
  <2>2. 0 * h + j = j /\ 1 * h + j = j + h
    OBVIOUS
  <2>3. j % h = j /\ (j + h) % h = j
    BY <2>1, <2>2
  <2> QED
    BY <2>3
<1>4. ASSUME NEW h \in Nat \ {0}, NEW j \in 0 .. (h + h) - 1
      PROVE  j \in 0 .. h - 1 \/ \E k \in 0 .. h - 1 : j = k + h
  <2>1. j >= h => j - h \in 0 .. h - 1 /\ j = (j - h) + h
    OBVIOUS
  <2> QED
    BY <2>1
<1>5. IsHalf(half, dim)
  BY <1>2, <1>3, <1>4 DEF IsHalf
<1> QED
  BY <1>1, <1>5

\* A tensor whose lines are rotated.
HasLines(in, dim, half, rows, f) ==
    /\ dim = Back(in[1], 0) /\ half = dim \div 2 /\ dim \in Nat \ {0} /\ IsHalf(half, dim)
    /\ rows \in Nat \ {0} /\ DOMAIN f = 0 .. rows * dim - 1 /\ TurnedLines(f, dim, CacheRows(in))

\* A pair of a line, with the elements of f at its places.
IsPair(X, f, A, j, half) ==
    /\ X = {<<A + j, f[A + j]>>, <<A + (j + half), f[A + (j + half)]>>}
    /\ A + j \in DOMAIN f /\ A + (j + half) \in DOMAIN f

\* What the kernels make of a pair.
LEMMA PairIsTurned ==
    ASSUME NEW in, NEW dim, NEW half, NEW rows, NEW f, HasLines(in, dim, half, rows, f),
           NEW r \in 0 .. rows - 1, NEW j \in 0 .. half - 1
    PROVE  IsPair(RotatedPair(in, r, j), f, r * dim, j, half)
<1> DEFINE A == r * dim
           p == A + j
           q == A + (j + half)
           angle == RotaryPosition(r, CacheRows(in)) * half + j
<1>1. /\ half \in Nat \ {0} /\ dim \in Nat \ {0} /\ rows \in Nat \ {0} /\ j \in Nat
      /\ j \in 0 .. dim - 1 /\ j + half \in 0 .. dim - 1
      /\ j % half = j /\ (j + half) % half = j
      /\ j < half /\ ~ (j + half < half) /\ (j + half) - half = j
  BY DEF HasLines, IsHalf
<1>2. A \in Nat
  BY <1>1
<1>4. /\ p \in Nat /\ p < rows * dim /\ p \div dim = r /\ p % dim = j
      /\ q \in Nat /\ q < rows * dim /\ q \div dim = r /\ q % dim = j + half
  <2>1. \A x \in 0 .. dim - 1 : /\ r * dim + x \in Nat /\ r * dim + x < rows * dim
                                /\ (r * dim + x) \div dim = r /\ (r * dim + x) % dim = x
    BY <1>1, RowsFit
  <2> QED
    BY <1>1, <2>1
<1>5. rows * dim \in Nat /\ DOMAIN f = 0 .. rows * dim - 1
  <2>1. rows * dim \in Nat
    BY <1>1
  <2> QED
    BY <2>1 DEF HasLines
<1>7. RotatedPair(in, r, j) = {<<p, Rotated("-", p, A + j + half, angle)>>, <<A + j + half, Rotated("+", A + j + half, p, angle)>>}
  <2>1. dim = Back(in[1], 0) /\ half = dim \div 2
    BY DEF HasLines
  <2>2. /\ Back(in[1], 0) \div 2 = half /\ r * Back(in[1], 0) = A
    BY <2>1
  <2> HIDE DEF A
  <2> QED
    BY <2>2 DEF RotatedPair
<1> HIDE DEF A
<1>8. A + j + half = q
  BY <1>1, <1>2
<1> HIDE DEF p, q
<1>9. p \in DOMAIN f /\ q \in DOMAIN f
  BY <1>4, <1>5
<1>13. half = dim \div 2
  BY DEF HasLines
<1>10. f[p] = Rotated("-", p, A + (j + half), angle)
  <2>1. f[p] = Turned(dim, CacheRows(in), p)
    BY <1>9 DEF TurnedLines, HasLines
  <2>2. Turned(dim, CacheRows(in), p) = Rotated("-", p, r * dim + (j + half), RotaryPosition(r, CacheRows(in)) * half + (j % half))
    BY <1>1, <1>4, <1>13 DEF Turned
  <2> QED
    BY <1>1, <2>1, <2>2 DEF A
<1>11. f[q] = Rotated("+", q, A + j, angle)
  <2>1. f[q] = Turned(dim, CacheRows(in), q)
    BY <1>9 DEF TurnedLines, HasLines
  <2>2. Turned(dim, CacheRows(in), q) = Rotated("+", q, r * dim + ((j + half) - half), RotaryPosition(r, CacheRows(in)) * half + ((j + half) % half))
    BY <1>1, <1>4, <1>13 DEF Turned
  <2> QED
    BY <1>1, <2>1, <2>2 DEF A
<1>12. RotatedPair(in, r, j) = {<<p, f[p]>>, <<q, f[q]>>}
  <2>1. q = A + (j + half) /\ p = A + j
    BY DEF p, q
  <2> HIDE DEF angle
  <2> QED
    BY <1>7, <1>8, <1>10, <1>11, <2>1
<1> QED
  BY <1>9, <1>12 DEF p, q, A, IsPair

\* The pairs of a line are the line.
LEMMA LineIsTurned ==
    ASSUME NEW in, NEW dim, NEW half, NEW rows, NEW f, HasLines(in, dim, half, rows, f), NEW r \in 0 .. rows - 1
    PROVE  IsLine(RotatedRow(in, r), f, dim, r)
<1> DEFINE A == r * dim
<1>1. /\ \A j \in 0 .. half - 1 : j \in 0 .. dim - 1 /\ j + half \in 0 .. dim - 1
      /\ \A j \in 0 .. dim - 1 : j \in 0 .. half - 1 \/ \E k \in 0 .. half - 1 : j = k + half
  BY DEF HasLines, IsHalf
<1>2. \A j \in 0 .. half - 1 : IsPair(RotatedPair(in, r, j), f, A, j, half)
  BY PairIsTurned
<1>3. RotatedRow(in, r) = UNION {RotatedPair(in, r, j) : j \in 0 .. half - 1}
  BY DEF RotatedRow, HasLines
<1> HIDE DEF A
<1>6. \A j \in 0 .. half - 1 : RotatedPair(in, r, j) = {<<A + j, f[A + j]>>, <<A + (j + half), f[A + (j + half)]>>}
  BY <1>2 DEF IsPair
<1>4. ASSUME NEW j \in 0 .. dim - 1 PROVE <<A + j, f[A + j]>> \in RotatedRow(in, r)
  <2>1. CASE j \in 0 .. half - 1
    BY <1>3, <1>6, <2>1
  <2>2. ASSUME NEW k \in 0 .. half - 1, j = k + half PROVE <<A + j, f[A + j]>> \in RotatedRow(in, r)
    BY <1>3, <1>6, <2>2
  <2> QED
    BY <1>1, <2>1, <2>2
<1>5. ASSUME NEW x \in RotatedRow(in, r) PROVE \E j \in 0 .. dim - 1 : x = <<A + j, f[A + j]>>
  <2>1. PICK j \in 0 .. half - 1 : x \in RotatedPair(in, r, j)
    BY <1>3
  <2>2. x = <<A + j, f[A + j]>> \/ x = <<A + (j + half), f[A + (j + half)]>>
    BY <1>6, <2>1
  <2> QED
    BY <1>1, <2>2
<1> QED
  BY <1>4, <1>5 DEF IsLine, A

\* RotaryEmbedding.
LEMMA RotaryComputes ==
    ASSUME NEW in, IsRowMajor(in[1]), Len(in[1].shape) # 0, Back(in[1], 0) % 2 = 0,
           PositionsFit(in[1].shape, CacheRows(in)), NEW y, y.shape = in[1].shape, NEW a, NEW data
    PROVE  /\ Computes(CpuRotary(in, y), Meant("RotaryEmbedding", in, a, data, y.shape))
           /\ Computes(IspcRotary(in, y), Meant("RotaryEmbedding", in, a, data, y.shape))
           /\ Computes(CudaRotary(in, y), Meant("RotaryEmbedding", in, a, data, y.shape))
<1> DEFINE s == in[1].shape
           n == Numel(s)
           dim == Back(in[1], 0)
           half == dim \div 2
           rows == n \div dim
           f == Meant("RotaryEmbedding", in, a, data, s)
           R == [r \in 0 .. rows - 1 |-> RotatedRow(in, r)]
           rowOf == [i \in 0 .. n - 1 |-> i \div dim]
           task == RowLaunch(rows, RotarySerial)
<1>1. IsShape(s) /\ Len(s) \in Nat
  BY NumelIs DEF IsRowMajor
<1>2. dim = s[Len(s)]
  BY <1>1 DEF Back
<1>3. dim \in Nat \ {0} /\ rows \in Nat \ {0} /\ n = rows * dim
  <2>1. rows = Numel(s) \div dim
    OBVIOUS
  <2> HIDE DEF rows, dim
  <2> QED
    BY <1>1, <1>2, <2>1, LastAxis
<1>4. DOMAIN f = 0 .. n - 1
  BY DEF Meant
<1>5. TurnedLines(f, dim, CacheRows(in))
  <2>1. s = in[1].shape /\ Len(s) # 0 /\ f = Meant("RotaryEmbedding", in, a, data, s) /\ PositionsFit(s, CacheRows(in))
    OBVIOUS
  <2> HIDE DEF f, dim, s
  <2> QED
    BY <1>2, <2>1, RotaryMeans
<1>6. /\ \A r \in 0 .. rows - 1 : R[r] = RotatedRow(in, r)
      /\ s = y.shape
  OBVIOUS
<1>7. /\ CpuRotary(in, y) = {Store(w[1], Caller, w[2]) : w \in UNION {RotatedRow(in, r) : r \in 0 .. rows - 1}}
      /\ IspcRotary(in, y) = UNION {{Store(w[1], <<t>>, w[2]) : w \in UNION {RotatedRow(in, r) : r \in task[t]}} : t \in DOMAIN task}
  BY DEF CpuRotary, IspcRotary, RotaryF32
<1>8. CudaRotary(in, y) = UNION {{Store(w[1], <<i>>, w[2]) : w \in RotatedPair(in, i \div half, i % half)} : i \in Grid(rows * half)}
  BY DEF CudaRotary
<1>9. HasLines(in, dim, half, rows, f)
  <2>1. IsHalf(half, dim)
    <3>1. dim % 2 = 0
      OBVIOUS
    <3> HIDE DEF dim
    <3> QED
      BY <1>3, <3>1, HalfIs
  <2>2. dim = Back(in[1], 0) /\ half = dim \div 2
    OBVIOUS
  <2> HIDE DEF f, dim, half, rows, n
  <2> QED
    BY <1>3, <1>4, <1>5, <2>1, <2>2 DEF HasLines
<1> HIDE DEF R, f, rows, dim, n, half
<1>10. ASSUME NEW r \in 0 .. rows - 1 PROVE IsLine(R[r], f, dim, r)
  BY <1>6, <1>9, LineIsTurned
<1>11. Rowed(R, rows, f, rowOf)
  BY <1>3, <1>4, <1>10, LinesAreRowed
<1>12. RotarySerial \in Nat
  BY RowAssumption
<1>13. Computes(ByCaller(R, rows), f) /\ Computes(ByTasks(R, task), f)
  BY <1>3, <1>11, <1>12, RowKernelsCompute
<1>14. CpuRotary(in, y) = ByCaller(R, rows)
  <2>1. UNION {R[r] : r \in 0 .. rows - 1} = UNION {RotatedRow(in, r) : r \in 0 .. rows - 1}
    BY <1>6
  <2> QED
    BY <1>7, <2>1 DEF ByCaller
<1>15. IspcRotary(in, y) = ByTasks(R, task)
  <2>1. \A t \in DOMAIN task : task[t] \subseteq 0 .. rows - 1
    BY <1>3, <1>12, TaskRows
  <2> HIDE DEF task
  <2>2. \A t \in DOMAIN task : UNION {RotatedRow(in, r) : r \in task[t]} = UNION {R[r] : r \in task[t]}
    BY <1>6, <2>1
  <2>3. \A t \in DOMAIN task : {Store(w[1], <<t>>, w[2]) : w \in UNION {RotatedRow(in, r) : r \in task[t]}}
                               = {Store(w[1], <<t>>, w[2]) : w \in UNION {R[r] : r \in task[t]}}
    BY <2>2
  <2>4. ASSUME NEW x \in IspcRotary(in, y) PROVE x \in ByTasks(R, task)
    <3>1. PICK t \in DOMAIN task : x \in {Store(w[1], <<t>>, w[2]) : w \in UNION {RotatedRow(in, r) : r \in task[t]}}
      BY <1>7, Zenon
    <3>2. x \in {Store(w[1], <<t>>, w[2]) : w \in UNION {R[r] : r \in task[t]}}
      BY <2>3, <3>1
    <3> QED
      BY <3>2, Zenon DEF ByTasks
  <2>5. ASSUME NEW x \in ByTasks(R, task) PROVE x \in IspcRotary(in, y)
    <3>1. PICK t \in DOMAIN task : x \in {Store(w[1], <<t>>, w[2]) : w \in UNION {R[r] : r \in task[t]}}
      BY Zenon DEF ByTasks
    <3> DEFINE V == {Store(w[1], <<t>>, w[2]) : w \in UNION {RotatedRow(in, r) : r \in task[t]}}
               Vs == {{Store(w[1], <<u>>, w[2]) : w \in UNION {RotatedRow(in, r) : r \in task[u]}} : u \in DOMAIN task}
    <3>2. x \in V
      BY <2>3, <3>1
    <3>3. V \in Vs
      OBVIOUS
    <3>4. IspcRotary(in, y) = UNION Vs
      BY <1>7
    <3> QED
      BY <3>2, <3>3, <3>4, Zenon
  <2> QED
    BY <2>4, <2>5
<1>16. Computes(CudaRotary(in, y), f)
  <2> DEFINE at == [i \in 0 .. n - 1 |-> (i \div dim) * half + ((i % dim) % half)]
             who == [i \in 0 .. n - 1 |-> <<at[i]>>]
  <2>1. /\ half \in Nat \ {0}
        /\ \A j \in 0 .. half - 1 : /\ j \in 0 .. dim - 1 /\ j + half \in 0 .. dim - 1
                                    /\ j % half = j /\ (j + half) % half = j
        /\ \A j \in 0 .. dim - 1 : j \in 0 .. half - 1 \/ \E k \in 0 .. half - 1 : j = k + half
    BY <1>9 DEF HasLines, IsHalf
  <2>2. Grid(rows * half) = 0 .. rows * half - 1
    <3>1. rows * half \in Nat
      BY <1>3, <2>1
    <3> QED
      BY <3>1, GridIs
  <2>3. ASSUME NEW r \in 0 .. rows - 1, NEW j \in 0 .. half - 1
        PROVE  /\ r * half + j \in Grid(rows * half) /\ (r * half + j) \div half = r /\ (r * half + j) % half = j
    <3>1. r * half + j \in Nat /\ r * half + j < rows * half /\ (r * half + j) \div half = r /\ (r * half + j) % half = j
      BY <1>3, <2>1, RowsFit
    <3> DEFINE k == r * half + j
               m == rows * half
    <3>2. m \in Nat
      BY <1>3, <2>1
    <3> HIDE DEF k, m
    <3>3. k \in 0 .. m - 1
      BY <3>1, <3>2 DEF k, m
    <3> QED
      BY <2>2, <3>1, <3>3 DEF k, m
  <2>4. ASSUME NEW i \in Grid(rows * half)
        PROVE  i \div half \in 0 .. rows - 1 /\ i % half \in 0 .. half - 1 /\ i = (i \div half) * half + (i % half)
    <3>1. i \in Nat /\ i < rows * half /\ rows \in Nat
      <4>1. rows * half \in Nat
        BY <1>3, <2>1
      <4> QED
        BY <1>3, <2>2, <4>1
    <3> QED
      BY <2>1, <3>1, QuotientFits, BlockParts
  <2>5. ASSUME NEW r \in 0 .. rows - 1, NEW j \in 0 .. dim - 1
        PROVE  r * dim + j \in 0 .. n - 1 /\ at[r * dim + j] = r * half + (j % half)
    <3>1. /\ r * dim + j \in Nat /\ r * dim + j < rows * dim
          /\ (r * dim + j) \div dim = r /\ (r * dim + j) % dim = j
      BY <1>3, RowsFit
    <3> DEFINE k == r * dim + j
    <3> HIDE DEF k
    <3>2. n \in Nat
      BY <1>3, NonZeroProduct
    <3>3. k \in 0 .. n - 1
      BY <1>3, <3>1, <3>2 DEF k
    <3>4. at[k] = (k \div dim) * half + ((k % dim) % half)
      BY <3>3
    <3> HIDE DEF at
    <3> QED
      BY <3>1, <3>3, <3>4 DEF k
  <2> HIDE DEF at
  <2>6. ASSUME NEW r \in 0 .. rows - 1, NEW j \in 0 .. half - 1
        PROVE  /\ RotatedPair(in, r, j) = {<<r * dim + j, f[r * dim + j]>>, <<r * dim + (j + half), f[r * dim + (j + half)]>>}
               /\ r * dim + j \in DOMAIN f /\ r * dim + (j + half) \in DOMAIN f
               /\ at[r * dim + j] = r * half + j /\ at[r * dim + (j + half)] = r * half + j
    <3>1. IsPair(RotatedPair(in, r, j), f, r * dim, j, half)
      BY <1>9, PairIsTurned
    <3>2. at[r * dim + j] = r * half + j /\ at[r * dim + (j + half)] = r * half + j
      BY <2>1, <2>5
    <3> QED
      BY <3>1, <3>2 DEF IsPair
  <2>7. ASSUME NEW x \in CudaRotary(in, y) PROVE \E i \in DOMAIN f : x = Store(i, who[i], f[i])
    <3>1. PICK i \in Grid(rows * half) : x \in {Store(w[1], <<i>>, w[2]) : w \in RotatedPair(in, i \div half, i % half)}
      BY <1>8, Zenon
    <3>2. PICK w \in RotatedPair(in, i \div half, i % half) : x = Store(w[1], <<i>>, w[2])
      BY <3>1
    <3>3. \A k \in DOMAIN f : who[k] = <<at[k]>>
      BY <1>4
    <3> DEFINE r == i \div half
               j == i % half
    <3>4. r \in 0 .. rows - 1 /\ j \in 0 .. half - 1 /\ i = r * half + j /\ w \in RotatedPair(in, r, j)
      BY <2>4
    <3> HIDE DEF r, j, who
    <3>5. \E k \in DOMAIN f : w = <<k, f[k]>> /\ at[k] = i
      <4> DEFINE p == r * dim + j
                 q == r * dim + (j + half)
      <4>1. /\ RotatedPair(in, r, j) = {<<p, f[p]>>, <<q, f[q]>>} /\ p \in DOMAIN f /\ q \in DOMAIN f
            /\ at[p] = i /\ at[q] = i
        BY <2>6, <3>4
      <4> HIDE DEF p, q
      <4> QED
        BY <3>4, <4>1
    <3> QED
      BY <3>2, <3>3, <3>5
  <2>8. ASSUME NEW i \in DOMAIN f PROVE Store(i, who[i], f[i]) \in CudaRotary(in, y)
    <3> DEFINE r == i \div dim
               m == i % dim
    <3>1. i \in Nat /\ i < rows * dim /\ rows \in Nat
      <4>1. rows * dim \in Nat
        BY <1>3
      <4> QED
        BY <1>3, <1>4, <4>1
    <3>2. r \in 0 .. rows - 1 /\ m \in 0 .. dim - 1 /\ i = r * dim + m
      BY <1>3, <3>1, BlockParts, QuotientFits
    <3>3. who[i] = <<at[i]>>
      BY <1>4
    <3> HIDE DEF r, m, who
    <3>4. PICK j \in 0 .. half - 1 : m = j \/ m = j + half
      BY <2>1, <3>2
    <3>5. <<i, f[i]>> \in RotatedPair(in, r, j) /\ at[i] = r * half + j
      BY <2>6, <3>2, <3>4
    <3> DEFINE k == r * half + j
    <3>6. k \in Grid(rows * half) /\ k \div half = r /\ k % half = j
      BY <2>3, <3>2
    <3> HIDE DEF k
    <3> DEFINE V(z) == {Store(w[1], <<z>>, w[2]) : w \in RotatedPair(in, z \div half, z % half)}
    <3>7. Store(i, <<k>>, f[i]) \in V(k)
      <4>1. <<i, f[i]>> \in RotatedPair(in, k \div half, k % half)
        BY <3>5, <3>6
      <4> QED
        BY <4>1
    <3>8. CudaRotary(in, y) = UNION {V(z) : z \in Grid(rows * half)}
      BY <1>8
    <3> HIDE DEF V
    <3>9. Store(i, <<k>>, f[i]) \in CudaRotary(in, y)
      BY <3>6, <3>7, <3>8, Zenon
    <3> QED
      BY <3>3, <3>5, <3>9 DEF k
  <2> QED
    BY <2>7, <2>8, StoresOnce
<1> QED
  BY <1>6, <1>13, <1>14, <1>15, <1>16 DEF f

\* The coordinates in front of the last axis are those of the quotient.
LEMMA FrontCoordinates ==
    ASSUME NEW t, IsShape(t), NEW s, IsShape(s), NEW d, d = Len(s), d # 0, FrontOf(s, d) = t,
           NEW dim, dim = s[d], NEW i \in 0 .. Numel(s) - 1
    PROVE  SubSeq(Coordinates(i, s), 1, d - 1) = Coordinates(i \div dim, t) /\ i \div dim \in 0 .. Numel(t) - 1
<1> DEFINE c == Coordinates(i, s)
           u == i \div dim
           b == Coordinates(u, t)
<1>1. Numel(s) \in Nat /\ d \in Nat /\ d \in 1 .. d /\ i \in Nat
  BY NumelIs
<1>2. Inner(s, d) = 1 /\ s[d] \in Nat \ {0}
  BY <1>1, InnerSizes
<1>3. /\ Len(t) = d - 1 /\ Numel(t) = Outer(s, d) /\ Outer(s, d) \in Nat \ {0}
      /\ \A e \in 1 .. d - 1 : t[e] = s[e]
      /\ \A e \in 0 .. d - 1 : Inner(s, e) = Inner(t, e) * (s[d] * Inner(s, d))
      /\ Numel(s) = Outer(s, d) * (s[d] * Inner(s, d))
  BY <1>1, FrontSizes
<1>4. s[d] * Inner(s, d) = dim /\ dim \in Nat \ {0}
  BY <1>2
<1>5. u \in 0 .. Numel(t) - 1 /\ u \in Nat
  <2>1. Numel(t) \in Nat /\ i < Numel(t) * dim
    BY <1>1, <1>3, <1>4
  <2>2. u \in 0 .. Numel(t) - 1
    BY <1>1, <1>4, <2>1, QuotientFits
  <2> HIDE DEF u
  <2> QED
    BY <2>1, <2>2
<1>6. DOMAIN b = 1 .. d - 1 /\ b \in Seq(Nat) /\ Len(b) = d - 1
      /\ \A e \in 1 .. d - 1 : b[e] = (u \div Inner(t, e)) % t[e]
  <2> HIDE DEF u
  <2> QED
    BY <1>3, <1>5, CoordinatesAre
<1>7. c \in Seq(Nat) /\ Len(c) = d /\ \A e \in 1 .. d : c[e] = (i \div Inner(s, e)) % s[e]
  BY <1>1, CoordinatesAre
<1>8. ASSUME NEW e \in 1 .. d - 1 PROVE c[e] = b[e]
  <2>1. Inner(t, e) \in Nat \ {0} /\ Inner(s, e) = Inner(t, e) * dim /\ s[e] = t[e] /\ e \in 1 .. d
    <3>1. e \in 0 .. Len(t) /\ e \in 0 .. d - 1 /\ e \in 1 .. d
      BY <1>1, <1>3
    <3> QED
      BY <1>3, <1>4, <3>1, InnerSizes
  <2> DEFINE x == Inner(t, e)
  <2> HIDE DEF x
  <2>2. i \div (x * dim) = u \div x
    <3>1. \A y, w \in Nat \ {0} : i \div (y * w) = (i \div w) \div y
      BY <1>1, MixedRadix
    <3>2. x \in Nat \ {0}
      BY <2>1 DEF x
    <3> QED
      BY <1>4, <3>1, <3>2
  <2> HIDE DEF c, b, u
  <2> QED
    BY <1>6, <1>7, <2>1, <2>2 DEF x
<1>9. SubSeq(c, 1, d - 1) = [e \in 1 .. d - 1 |-> c[e]]
  <2> HIDE DEF c
  <2> QED
    BY <1>1, <1>7
<1>10. b = [e \in 1 .. d - 1 |-> b[e]]
  <2> HIDE DEF b
  <2> QED
    BY <1>6
<1>11. SubSeq(c, 1, d - 1) = b
  <2> HIDE DEF c, b
  <2> QED
    BY <1>8, <1>9, <1>10
<1> QED
  BY <1>5, <1>11

\* Where an element of a matrix lies.
LEMMA MatrixOffset ==
    ASSUME NEW s, IsShape(s), Len(s) = 2, NEW x \in Int, NEW k \in Int
    PROVE  Offset(<<x, k>>, DefaultStrides(s)) = x * s[2] + k
<1> DEFINE c == <<x, k>>
           q == [d \in DOMAIN c |-> c[d] * DefaultStrides(s)[d]]
           A == x * s[2]
           h == [e \in 0 .. 2 |-> IF e = 0 THEN 0 ELSE IF e = 1 THEN A ELSE A + k]
<1>1. /\ DefaultStrides(s)[1] = Inner(s, 1) /\ DefaultStrides(s)[2] = Inner(s, 2)
      /\ Inner(s, 1) = s[2] * Inner(s, 2) /\ Inner(s, 2) = 1 /\ s[2] \in Nat \ {0}
  <2>1. 1 \in 1 .. Len(s) /\ 2 \in 1 .. Len(s) /\ 2 - 1 = 1
    OBVIOUS
  <2>2. DefaultStrides(s)[1] = Inner(s, 1) /\ Inner(s, 1 - 1) = s[1] * Inner(s, 1)
    BY <2>1, InnerSizes
  <2>3. DefaultStrides(s)[2] = Inner(s, 2) /\ Inner(s, 2 - 1) = s[2] * Inner(s, 2) /\ s[2] \in Nat \ {0}
    BY <2>1, InnerSizes
  <2>4. Inner(s, Len(s)) = 1
    BY InnerSizes
  <2> QED
    BY <2>1, <2>2, <2>3, <2>4
<1>2. DOMAIN c = 1 .. 2 /\ c[1] = x /\ c[2] = k
  OBVIOUS
<1>3. q[1] = A /\ q[2] = k /\ DOMAIN q = 1 .. 2 /\ A \in Int
  <2>1. q[1] = x * (s[2] * 1) /\ q[2] = k * 1
    BY <1>1, <1>2
  <2> HIDE DEF q
  <2>2. DOMAIN q = 1 .. 2
    BY <1>2 DEF q
  <2> QED
    BY <1>1, <2>1, <2>2
<1>4. q \in [1 .. 2 -> Int]
  <2>1. q = [d \in 1 .. 2 |-> q[d]]
    BY <1>2
  <2>2. \A d \in 1 .. 2 : d = 1 \/ d = 2
    OBVIOUS
  <2>3. \A d \in 1 .. 2 : q[d] \in Int
    BY <1>3, <2>2
  <2> HIDE DEF q
  <2> QED
    BY <2>1, <2>3
<1> HIDE DEF q, A
<1>5. Sums(h, q, 2)
  BY <1>3 DEF Sums
<1>6. h[2] = A + k
  OBVIOUS
<1> HIDE DEF h
<1>7. Total(q) = A + k
  BY <1>4, <1>5, <1>6, TotalIs
<1> QED
  BY <1>7 DEF Offset, q, A

\* What Embedding means: line data[t] of the table, for each token.
Looked(f, data, hidden) == \A i \in DOMAIN f : f[i] = Elem(1, data[i \div hidden] * hidden + (i % hidden))

\* The coordinates lead to a line of the table.
LEMMA EmbeddingMeans ==
    ASSUME NEW in, IsRowMajor(in[1]), IsRowMajor(in[2]), Len(in[1].shape) = 2,
           NEW t, t = in[2].shape, NEW hidden, hidden = in[1].shape[2],
           NEW s, IsShape(s), Len(s) # 0, FrontOf(s, Len(s)) = t, s[Len(s)] = hidden,
           NEW a, NEW data, \A j \in 0 .. Numel(t) - 1 : data[j] \in Int,
           NEW f, f = Meant("Embedding", in, a, data, s)
    PROVE  Looked(f, data, hidden)
<1> SUFFICES ASSUME NEW i \in 0 .. Numel(s) - 1
             PROVE  Meaning("Embedding", in, a, data, Coordinates(i, s)) = Elem(1, data[i \div hidden] * hidden + (i % hidden))
  BY DEF Meant, Looked
<1> DEFINE c == Coordinates(i, s)
           u == i \div hidden
           k == i % hidden
           d == Len(s)
<1>1. Numel(s) \in Nat /\ d \in Nat /\ d \in 1 .. d /\ i \in Nat /\ IsShape(t) /\ IsShape(in[1].shape)
  BY NumelIs DEF IsRowMajor
<1>2. Len(c) = d /\ c[d] = k
  <2>1. Len(c) = d
    BY <1>1, CoordinatesAre
  <2> QED
    BY <2>1, LastAxis
<1>3. SubSeq(c, 1, d - 1) = Coordinates(u, t) /\ u \in 0 .. Numel(t) - 1
  BY <1>1, FrontCoordinates
<1>4. Offset(Coordinates(u, t), DefaultStrides(t)) = u
  <2> HIDE DEF u
  <2> QED
    BY <1>1, <1>3, CoordinatesLeadBack
<1>5. in[2].strides = DefaultStrides(t) /\ in[1].strides = DefaultStrides(in[1].shape)
  BY DEF IsRowMajor
<1>6. Meaning("Embedding", in, a, data, c) = Of(in, 1, <<data[Offset(SubSeq(c, 1, Len(c) - 1), in[2].strides)], c[Len(c)]>>)
  BY DEF Meaning, Elementwise, Unary, Binary
<1>7. k \in Int /\ data[u] \in Int
  <2>1. hidden \in Nat \ {0}
    BY <1>1, InnerSizes
  <2>2. k \in 0 .. hidden - 1
    BY <1>1, <2>1, BlockParts
  <2> HIDE DEF u, k
  <2> QED
    BY <1>3, <2>1, <2>2
<1> HIDE DEF c, u, k
<1>8. Meaning("Embedding", in, a, data, c) = Of(in, 1, <<data[u], k>>)
  BY <1>2, <1>3, <1>4, <1>5, <1>6
<1>9. Offset(<<data[u], k>>, DefaultStrides(in[1].shape)) = data[u] * hidden + k
  BY <1>1, <1>7, MatrixOffset
<1>10. Meaning("Embedding", in, a, data, c) = Elem(1, data[u] * hidden + k)
  BY <1>5, <1>8, <1>9 DEF Of
<1> QED
  BY <1>10 DEF c, u, k

\* Where element j of line t goes, what it is, and what one thread or task stores.
LinePlace(t, j, h) == t * h + j
LineEntry(data, t, j, h) == Elem(1, data[t] * h + j)
LinesOf(data, h, T, who) == {Store(LinePlace(t, j, h), who, LineEntry(data, t, j, h)) : t \in T, j \in 0 .. h - 1}

LinesBy(data, h, task) == UNION {LinesOf(data, h, task[u], <<u>>) : u \in DOMAIN task}

\* The lines are the elements of f.
AreLines(f, n, h, data) ==
    /\ \A t \in 0 .. n - 1, j \in 0 .. h - 1 :
         /\ LinePlace(t, j, h) \in DOMAIN f /\ LinePlace(t, j, h) \div h = t
         /\ f[LinePlace(t, j, h)] = LineEntry(data, t, j, h)
    /\ \A i \in DOMAIN f : i \div h \in 0 .. n - 1 /\ i % h \in 0 .. h - 1 /\ LinePlace(i \div h, i % h, h) = i

\* The lines the tokens name are the lines of what is looked up.
LEMMA LookedLines ==
    ASSUME NEW n \in Nat \ {0}, NEW h \in Nat \ {0}, NEW data, NEW f, DOMAIN f = 0 .. n * h - 1, Looked(f, data, h)
    PROVE  AreLines(f, n, h, data)
<1>1. ASSUME NEW t \in 0 .. n - 1, NEW j \in 0 .. h - 1
      PROVE  LinePlace(t, j, h) \in DOMAIN f /\ LinePlace(t, j, h) \div h = t /\ f[LinePlace(t, j, h)] = LineEntry(data, t, j, h)
  <2> DEFINE i == t * h + j
  <2>1. i \in Nat /\ i < n * h /\ i \div h = t /\ i % h = j
    BY RowAndColumn
  <2>2. n * h \in Nat
    OBVIOUS
  <2>4. LinePlace(t, j, h) = i
    BY DEF LinePlace
  <2> HIDE DEF i
  <2>3. i \in DOMAIN f
    BY <2>1, <2>2
  <2>5. f[i] = LineEntry(data, t, j, h)
    BY <2>1, <2>3 DEF Looked, LineEntry
  <2> QED
    BY <2>1, <2>3, <2>4, <2>5
<1>2. ASSUME NEW i \in 0 .. n * h - 1
      PROVE  i \div h \in 0 .. n - 1 /\ i % h \in 0 .. h - 1 /\ LinePlace(i \div h, i % h, h) = i
  <2>1. n * h \in Nat /\ i \in Nat /\ i < n * h
    OBVIOUS
  <2> QED
    BY <2>1, QuotientFits, BlockParts DEF LinePlace
<1> QED
  BY <1>1, <1>2 DEF AreLines

\* Lines stored one after the other, or by tasks that have lines.
LEMMA LinesAreStored ==
    ASSUME NEW n \in Nat \ {0}, NEW h \in Nat \ {0}, NEW data, NEW f, AreLines(f, n, h, data)
    PROVE  /\ Computes(LinesOf(data, h, 0 .. n - 1, Caller), f)
           /\ \A task : (\E who : Divided(task, n, who)) =>
                Computes(LinesBy(data, h, task), f)
<1> DEFINE W == LinesOf(data, h, 0 .. n - 1, Caller)
           caller == [i \in DOMAIN f |-> Caller]
<1>1. ASSUME NEW t \in 0 .. n - 1, NEW j \in 0 .. h - 1
      PROVE  /\ LinePlace(t, j, h) \in DOMAIN f /\ LinePlace(t, j, h) \div h = t
             /\ f[LinePlace(t, j, h)] = LineEntry(data, t, j, h)
  BY DEF AreLines
<1>2. ASSUME NEW i \in DOMAIN f
      PROVE  \E t \in 0 .. n - 1, j \in 0 .. h - 1 : i \div h = t /\ LinePlace(t, j, h) = i
  BY DEF AreLines
<1>3. Computes(W, f)
  <2>1. ASSUME NEW x \in W PROVE \E i \in DOMAIN f : x = Store(i, caller[i], f[i])
    <3>1. PICK t \in 0 .. n - 1, j \in 0 .. h - 1 : x = Store(LinePlace(t, j, h), Caller, LineEntry(data, t, j, h))
      BY DEF LinesOf
    <3>2. caller[LinePlace(t, j, h)] = Caller
      BY <1>1
    <3> QED
      BY <1>1, <3>1, <3>2
  <2>2. ASSUME NEW i \in DOMAIN f PROVE Store(i, caller[i], f[i]) \in W
    <3>1. PICK t \in 0 .. n - 1, j \in 0 .. h - 1 : i \div h = t /\ LinePlace(t, j, h) = i
      BY <1>2
    <3> QED
      BY <1>1, <3>1 DEF LinesOf
  <2> HIDE DEF W, caller
  <2> QED
    BY <2>1, <2>2, StoresOnce
<1>4. ASSUME NEW task, NEW who, Divided(task, n, who)
      PROVE  Computes(LinesBy(data, h, task), f)
  <2> DEFINE U == UNION {LinesOf(data, h, task[u], <<u>>) : u \in DOMAIN task}
             by == [i \in DOMAIN f |-> <<who[i \div h]>>]
  <2>1. ASSUME NEW x \in U PROVE \E i \in DOMAIN f : x = Store(i, by[i], f[i])
    <3>1. PICK u \in DOMAIN task : x \in LinesOf(data, h, task[u], <<u>>)
      BY Zenon
    <3>2. PICK t \in task[u], j \in 0 .. h - 1 : x = Store(LinePlace(t, j, h), <<u>>, LineEntry(data, t, j, h))
      BY <3>1 DEF LinesOf
    <3>3. t \in 0 .. n - 1 /\ who[t] = u
      BY <1>4 DEF Divided
    <3>4. /\ LinePlace(t, j, h) \in DOMAIN f /\ LinePlace(t, j, h) \div h = t
          /\ f[LinePlace(t, j, h)] = LineEntry(data, t, j, h)
      BY <1>1, <3>3
    <3>5. by[LinePlace(t, j, h)] = <<u>>
      BY <3>3, <3>4
    <3> QED
      BY <3>2, <3>4, <3>5
  <2>2. ASSUME NEW i \in DOMAIN f PROVE Store(i, by[i], f[i]) \in U
    <3>1. PICK t \in 0 .. n - 1, j \in 0 .. h - 1 : i \div h = t /\ LinePlace(t, j, h) = i
      BY <1>2
    <3>2. by[i] = <<who[t]>>
      BY <3>1
    <3>3. who[t] \in DOMAIN task /\ t \in task[who[t]]
      BY <1>4 DEF Divided
    <3>4. Store(i, <<who[t]>>, f[i]) \in LinesOf(data, h, task[who[t]], <<who[t]>>)
      BY <1>1, <3>1, <3>3 DEF LinesOf
    <3> HIDE DEF by
    <3> QED
      BY <3>2, <3>3, <3>4
  <2> HIDE DEF U, by
  <2>3. Computes(U, f)
    BY <2>1, <2>2, StoresOnce
  <2> QED
    BY <2>3 DEF U, LinesBy
<1> QED
  BY <1>3, <1>4

\* Embedding stores, for each token, the line of the table the token names.
LEMMA EmbeddingComputes ==
    ASSUME NEW in, IsRowMajor(in[1]), IsRowMajor(in[2]), Len(in[1].shape) = 2,
           NEW y, IsShape(y.shape), y.shape = Append(in[2].shape, Back(in[1], 0)), NEW a,
           NEW data, \A j \in 0 .. Numel(in[2].shape) - 1 : data[j] \in Int
    PROVE  /\ Computes(CpuEmbedding(in, y, data), Meant("Embedding", in, a, data, y.shape))
           /\ Computes(IspcEmbedding(in, y, data), Meant("Embedding", in, a, data, y.shape))
           /\ Computes(CudaEmbedding(in, y, data), Meant("Embedding", in, a, data, y.shape))
<1> DEFINE t == in[2].shape
           s == y.shape
           h == in[1].shape[2]
           n == Numel(t)
           f == Meant("Embedding", in, a, data, s)
<1>1. IsShape(t) /\ n \in Nat \ {0} /\ IsShape(in[1].shape) /\ h \in Nat \ {0} /\ Back(in[1], 0) = h
  <2>1. IsShape(t) /\ IsShape(in[1].shape)
    BY DEF IsRowMajor
  <2>2. 2 - 0 = 2 /\ 2 \in 1 .. 2
    OBVIOUS
  <2> QED
    BY <2>1, <2>2, NumelIs, InnerSizes DEF Back
<1>2. Len(s) = Len(t) + 1 /\ s[Len(s)] = h /\ FrontOf(s, Len(s)) = t /\ Len(s) # 0 /\ Len(s) \in 1 .. Len(s)
  <2>1. t \in Seq(Nat \ {0}) /\ s = Append(t, h) /\ Len(t) \in Nat
    BY <1>1 DEF IsShape
  <2>2. Len(s) = Len(t) + 1 /\ s[Len(t) + 1] = h /\ \A e \in 1 .. Len(t) : s[e] = t[e]
    BY <1>1, <2>1
  <2>3. Len(s) \in 1 .. Len(s) /\ Len(s) - 1 = Len(t)
    BY <2>1, <2>2
  <2>4. FrontOf(s, Len(s)) \in Seq(Nat \ {0}) /\ Len(FrontOf(s, Len(s))) = Len(t)
        /\ \A e \in 1 .. Len(t) : FrontOf(s, Len(s))[e] = s[e]
    <3>1. IsShape(FrontOf(s, Len(s))) /\ Len(FrontOf(s, Len(s))) = Len(s) - 1
          /\ \A e \in 1 .. Len(s) - 1 : FrontOf(s, Len(s))[e] = s[e]
      BY <2>3, FrontSizes
    <3> QED
      BY <2>3, <3>1 DEF IsShape
  <2>5. FrontOf(s, Len(s)) = t
    <3>1. Len(FrontOf(s, Len(s))) = Len(t) /\ \A e \in 1 .. Len(t) : FrontOf(s, Len(s))[e] = t[e]
      BY <2>2, <2>4
    <3> HIDE DEF s, t, h
    <3> QED
      BY <2>1, <2>4, <3>1, SeqEqual
  <2> QED
    BY <2>1, <2>2, <2>3, <2>5
<1>3. Numel(s) = n * h
  <2>1. Numel(FrontOf(s, Len(s))) = Outer(s, Len(s)) /\ Numel(s) = Outer(s, Len(s)) * (s[Len(s)] * Inner(s, Len(s)))
    BY <1>2, FrontSizes
  <2>2. Inner(s, Len(s)) = 1
    BY InnerSizes
  <2>3. h * 1 = h
    BY <1>1
  <2> HIDE DEF h, n, s, t
  <2> QED
    BY <1>2, <2>1, <2>2, <2>3 DEF n
<1>4. Looked(f, data, h)
  <2> HIDE DEF h
  <2> QED
    BY <1>2, EmbeddingMeans DEF h
<1>5. DOMAIN f = 0 .. n * h - 1
  BY <1>3 DEF Meant
<1>6. AreLines(f, n, h, data)
  <2> HIDE DEF f, h, n
  <2> QED
    BY <1>1, <1>4, <1>5, LookedLines
<1>7. Computes(LinesOf(data, h, 0 .. n - 1, Caller), f)
      /\ \A task : (\E who : Divided(task, n, who)) =>
            Computes(LinesBy(data, h, task), f)
  <2> HIDE DEF f, h, n
  <2> QED
    BY <1>1, <1>6, LinesAreStored
<1>8. CpuEmbedding(in, y, data) = LinesOf(data, h, 0 .. n - 1, Caller)
  BY <1>1 DEF CpuEmbedding, TokenCount, LinesOf, LinePlace, LineEntry
<1>9. Computes(IspcEmbedding(in, y, data), f)
  <2> DEFINE task == LaunchOver(n, EmbeddingSerial, Least(n, EmbeddingTasks))
  <2>1. EmbeddingSerial \in Nat /\ Least(n, EmbeddingTasks) \in Nat \ {0}
    BY <1>1, CopyAssumption DEF Least
  <2>2. \E who : Divided(task, n, who)
    <3> HIDE DEF n
    <3> QED
      BY <1>1, <2>1, LaunchDivides
  <2>3. IspcEmbedding(in, y, data) = LinesBy(data, h, task)
    <3>1. EmbeddingF32(data, n, h) = LinesBy(data, h, task)
      BY DEF EmbeddingF32, LinesBy, LinesOf, LinePlace, LineEntry
    <3> QED
      BY <1>1, <3>1 DEF IspcEmbedding, TokenCount
  <2> HIDE DEF task, f
  <2> QED
    BY <1>7, <2>2, <2>3
<1>10. Computes(CudaEmbedding(in, y, data), f)
  <2> DEFINE e(i) == Elem(1, data[i \div h] * h + (i % h))
  <2>1. n * h \in Nat
    BY <1>1
  <2>2. Grid(n * h) = 0 .. n * h - 1
    BY <2>1, GridIs
  <2>3. \A i \in 0 .. n * h - 1 : f[i] = e(i)
    <3> HIDE DEF f, h, n
    <3> QED
      BY <1>4, <1>5 DEF Looked
  <2>4. CudaEmbedding(in, y, data) = {Store(i, <<i>>, e(i)) : i \in Grid(n * h)}
    BY <1>1 DEF CudaEmbedding, TokenCount
  <2> HIDE DEF e, f, h, n
  <2>5. CudaEmbedding(in, y, data) = {Store(i, <<i>>, f[i]) : i \in Grid(n * h)}
    BY <2>2, <2>3, <2>4
  <2> QED
    BY <1>5, <2>1, <2>5, EachComputes
<1> HIDE DEF f, h, n
<1> QED
  BY <1>7, <1>8, <1>9, <1>10 DEF f

\* Element r of column k of block o, in blocks of K columns of w elements.
Spot(o, k, r, K, w) == (o * K + k) * w + r

\* The elements in such blocks, and where each is.
IsSpot(o, k, r, outer, K, w) ==
    /\ Spot(o, k, r, K, w) \in 0 .. outer * (K * w) - 1
    /\ (Spot(o, k, r, K, w) \div w) \div K = o /\ (Spot(o, k, r, K, w) \div w) % K = k
    /\ Spot(o, k, r, K, w) % w = r

HasSpots(outer, K, w) ==
    /\ \A o \in 0 .. outer - 1, k \in 0 .. K - 1, r \in 0 .. w - 1 : IsSpot(o, k, r, outer, K, w)
    /\ \A i \in 0 .. outer * (K * w) - 1 :
         /\ (i \div w) \div K \in 0 .. outer - 1 /\ (i \div w) % K \in 0 .. K - 1 /\ i % w \in 0 .. w - 1
         /\ Spot((i \div w) \div K, (i \div w) % K, i % w, K, w) = i

\* Every element has a place of its own.
LEMMA Spots ==
    ASSUME NEW outer \in Nat, NEW K \in Nat \ {0}, NEW w \in Nat \ {0}
    PROVE  HasSpots(outer, K, w)
<1>0. K * w \in Nat \ {0} /\ outer * (K * w) \in Nat /\ outer * K \in Nat
  <2>1. K * w \in Nat \ {0}
    BY NonZeroProduct
  <2> DEFINE x == K * w
  <2> HIDE DEF x
  <2>2. outer * x \in Nat
    BY <2>1 DEF x
  <2> QED
    BY <2>1, <2>2 DEF x
<1>1. ASSUME NEW o \in 0 .. outer - 1, NEW k \in 0 .. K - 1, NEW r \in 0 .. w - 1
      PROVE  IsSpot(o, k, r, outer, K, w)
  <2> DEFINE x == o * K + k
             i == x * w + r
  <2>1. x \in Nat /\ x \div K = o /\ x % K = k /\ x < outer * K
    BY RowAndColumn
  <2>2. i \in Nat /\ i \div w = x /\ i % w = r /\ i < (outer * K) * w
    <3> HIDE DEF x
    <3> QED
      BY <1>0, <2>1, RowAndColumn
  <2>3. (outer * K) * w = outer * (K * w)
    OBVIOUS
  <2>4. Spot(o, k, r, K, w) = i
    BY DEF Spot
  <2> DEFINE y == outer * (K * w)
  <2> HIDE DEF i, x, y
  <2>5. i \in 0 .. y - 1
    BY <1>0, <2>2, <2>3 DEF y
  <2> QED
    BY <2>1, <2>2, <2>4, <2>5 DEF IsSpot, y
<1>2. ASSUME NEW i \in 0 .. outer * (K * w) - 1
      PROVE  /\ (i \div w) \div K \in 0 .. outer - 1 /\ (i \div w) % K \in 0 .. K - 1 /\ i % w \in 0 .. w - 1
             /\ Spot((i \div w) \div K, (i \div w) % K, i % w, K, w) = i
  <2> DEFINE x == i \div w
  <2>1. i \in Nat /\ i < outer * (K * w) /\ outer * (K * w) = (outer * K) * w
    BY <1>0
  <2>2. x \in Nat /\ i % w \in 0 .. w - 1 /\ i = x * w + (i % w)
    BY <2>1, BlockParts
  <2>3. x \in 0 .. outer * K - 1
    BY <1>0, <2>1, QuotientFits
  <2> HIDE DEF x
  <2>4. x \div K \in 0 .. outer - 1 /\ x % K \in 0 .. K - 1 /\ x = (x \div K) * K + (x % K)
    <3>1. x < outer * K
      BY <1>0, <2>2, <2>3
    <3> QED
      BY <2>2, <3>1, QuotientFits, BlockParts
  <2> QED
    BY <2>2, <2>4 DEF Spot, x
<1> QED
  BY <1>1, <1>2 DEF HasSpots

\* A copy of p columns, column by column.
BlockColumns(m, x, z, p, w) ==
    {Store((x + k) * w + r, Caller, Elem(m, (z + k) * w + r)) : k \in 0 .. p - 1, r \in 0 .. w - 1}

\* BlockColumns that lie one behind the other are copied at once.
LEMMA RunIs ==
    ASSUME NEW m, NEW x \in Nat, NEW z \in Nat, NEW p \in Nat, NEW w \in Nat \ {0}
    PROVE  Memcpy(m, x * w, z * w, p * w) = BlockColumns(m, x, z, p, w)
<1> DEFINE A == Memcpy(m, x * w, z * w, p * w)
           B == BlockColumns(m, x, z, p, w)
           s(j) == Store(x * w + j, Caller, Elem(m, z * w + j))
           t(k, r) == Store((x + k) * w + r, Caller, Elem(m, (z + k) * w + r))
<1>1. ASSUME NEW k \in Nat, NEW r \in Nat PROVE t(k, r) = s(k * w + r)
  <2>1. (x + k) * w + r = x * w + (k * w + r) /\ (z + k) * w + r = z * w + (k * w + r)
    <3>1. (x + k) * w = x * w + k * w /\ (z + k) * w = z * w + k * w
      OBVIOUS
    <3>2. x * w \in Nat /\ z * w \in Nat /\ k * w \in Nat
      OBVIOUS
    <3> DEFINE a == x * w
               b == z * w
               c == k * w
               d == (x + k) * w
               e == (z + k) * w
    <3> HIDE DEF a, b, c, d, e
    <3>3. d = a + c /\ e = b + c /\ a \in Nat /\ b \in Nat /\ c \in Nat
      BY <3>1, <3>2 DEF a, b, c, d, e
    <3>4. d + r = a + (c + r) /\ e + r = b + (c + r)
      BY <3>3
    <3> QED
      BY <3>4 DEF a, b, c, d, e
  <2> QED
    BY <2>1
<1>2. A = {s(j) : j \in 0 .. p * w - 1} /\ B = {t(k, r) : k \in 0 .. p - 1, r \in 0 .. w - 1}
  BY DEF Memcpy, BlockColumns
<1>3. \A k \in 0 .. p - 1, r \in 0 .. w - 1 : k * w + r \in 0 .. p * w - 1
  <2>1. p * w \in Nat
    OBVIOUS
  <2>2. \A k \in 0 .. p - 1, r \in 0 .. w - 1 : k * w + r \in Nat /\ k * w + r < p * w
    BY RowAndColumn
  <2> QED
    BY <2>1, <2>2
<1>4. ASSUME NEW j \in 0 .. p * w - 1 PROVE \E k \in 0 .. p - 1, r \in 0 .. w - 1 : j = k * w + r
  <2>1. j \in Nat /\ j < p * w
    OBVIOUS
  <2>2. j \div w \in 0 .. p - 1 /\ j % w \in 0 .. w - 1 /\ j = (j \div w) * w + (j % w)
    BY <2>1, QuotientFits, BlockParts
  <2> QED
    BY <2>2
<1>5. \A k \in 0 .. p - 1, r \in 0 .. w - 1 : t(k, r) = s(k * w + r)
  BY <1>1
<1> HIDE DEF A, B, s, t
<1>6. A = B
  <2> DEFINE g(k, r) == k * w + r
             top == p * w - 1
  <2>1. \A k \in 0 .. p - 1, r \in 0 .. w - 1 : g(k, r) \in 0 .. top /\ t(k, r) = s(g(k, r))
    BY <1>3, <1>5
  <2>2. \A j \in 0 .. top : \E k \in 0 .. p - 1, r \in 0 .. w - 1 : j = g(k, r)
    BY <1>4
  <2>3. A = {s(j) : j \in 0 .. top}
    BY <1>2
  <2> HIDE DEF g, top
  <2> QED
    BY <1>2, <2>1, <2>2, <2>3
<1> QED
  BY <1>6 DEF A, B

\* The element at the coordinates of index i of one shape, one of them replaced, in another
\* shape that differs in that axis only.
LEMMA ResizedSpot ==
    ASSUME NEW s, IsShape(s), NEW u, IsShape(u), Len(u) = Len(s), NEW d \in 1 .. Len(s),
           \A e \in 1 .. Len(s) : e # d => u[e] = s[e], NEW i \in 0 .. Numel(u) - 1, NEW m \in Int
    PROVE  /\ Offset(With(Coordinates(i, u), d, m), DefaultStrides(s)) =
                Spot((i \div Inner(s, d)) \div u[d], m, i % Inner(s, d), s[d], Inner(s, d))
           /\ Coordinates(i, u)[d] = (i \div Inner(s, d)) % u[d]
<1> DEFINE w == Inner(s, d)
           o == (i \div w) \div u[d]
           r == i % w
<1>1. /\ Offset(With(Coordinates(i, u), d, m), DefaultStrides(s)) =
           (i \div (u[d] * Inner(u, d))) * (s[d] * w) + m * w + (i % Inner(u, d))
      /\ Inner(u, d) = w
  BY Resized
<1>2. u[d] \in Nat \ {0} /\ s[d] \in Nat \ {0} /\ w \in Nat \ {0} /\ i \in Nat
  <2>1. d \in 0 .. Len(s) /\ d \in 1 .. Len(u) /\ i \in Nat
    BY NumelIs
  <2> QED
    BY <2>1, InnerSizes
<1>3. i \div (u[d] * w) = o
  <2> HIDE DEF w
  <2> QED
    BY <1>2, MixedRadix DEF w
<1>4. o \in Nat /\ r \in Nat
  <2> HIDE DEF w
  <2>1. i \div w \in Nat /\ i % w \in 0 .. w - 1
    BY <1>2, BlockParts
  <2> DEFINE x == i \div w
  <2> HIDE DEF x
  <2>2. x \div u[d] \in Nat
    BY <1>2, <2>1, BlockParts DEF x
  <2> QED
    BY <1>2, <2>1, <2>2 DEF x
<1>5. Coordinates(i, u)[d] = (i \div w) % u[d]
  <2>1. d \in 1 .. Len(u)
    OBVIOUS
  <2>2. Coordinates(i, u)[d] = (i \div Inner(u, d)) % u[d]
    BY <2>1, CoordinatesAre
  <2> QED
    BY <1>1, <2>2
<1>6. Spot(o, m, r, s[d], w) = o * (s[d] * w) + m * w + r
  <2> HIDE DEF o, r, w
  <2>1. (o * s[d] + m) * w = o * (s[d] * w) + m * w
    BY <1>2, <1>4
  <2> QED
    BY <2>1 DEF Spot
<1> HIDE DEF o, r, w
<1> QED
  BY <1>1, <1>3, <1>5, <1>6 DEF o, r, w

\* What Concat means: columns of the first operand, then columns of the second.
Joined(f, p, q, w) ==
    \A i \in DOMAIN f :
        LET o == (i \div w) \div (p + q)
            k == (i \div w) % (p + q)
        IN  f[i] = IF k < p THEN Elem(1, Spot(o, k, i % w, p, w)) ELSE Elem(2, Spot(o, k - p, i % w, q, w))

\* What is copied from the operands for block o of the result.
JoinedBlock(o, p, q, w) == BlockColumns(1, o * (p + q), o * p, p, w) \cup BlockColumns(2, o * (p + q) + p, o * q, q, w)

\* The copies store the joined columns.
LEMMA BlocksAreJoined ==
    ASSUME NEW outer \in Nat, NEW p \in Nat \ {0}, NEW q \in Nat \ {0}, NEW w \in Nat \ {0},
           NEW f, DOMAIN f = 0 .. outer * ((p + q) * w) - 1, Joined(f, p, q, w)
    PROVE  Computes(UNION {JoinedBlock(o, p, q, w) : o \in 0 .. outer - 1}, f)
<1> DEFINE K == p + q
           W == UNION {JoinedBlock(o, p, q, w) : o \in 0 .. outer - 1}
           caller == [i \in DOMAIN f |-> Caller]
<1>1. HasSpots(outer, K, w)
  BY Spots
<1>2. ASSUME NEW o \in 0 .. outer - 1, NEW k \in 0 .. K - 1, NEW r \in 0 .. w - 1
      PROVE  /\ Spot(o, k, r, K, w) \in DOMAIN f
             /\ k < p => f[Spot(o, k, r, K, w)] = Elem(1, Spot(o, k, r, p, w))
             /\ ~ k < p => f[Spot(o, k, r, K, w)] = Elem(2, Spot(o, k - p, r, q, w))
  <2>1. IsSpot(o, k, r, outer, K, w)
    BY <1>1 DEF HasSpots
  <2> HIDE DEF K
  <2>2. Spot(o, k, r, K, w) \in DOMAIN f
    BY <2>1 DEF IsSpot, K
  <2> QED
    BY <2>1, <2>2 DEF IsSpot, Joined, K
<1>3. ASSUME NEW o \in 0 .. outer - 1, NEW k \in 0 .. p - 1, NEW r \in 0 .. w - 1
      PROVE  (o * K + k) * w + r \in DOMAIN f /\ f[(o * K + k) * w + r] = Elem(1, (o * p + k) * w + r)
  <2>1. k \in 0 .. K - 1 /\ k < p
    OBVIOUS
  <2> HIDE DEF K
  <2> QED
    BY <1>2, <2>1 DEF Spot
<1>4. ASSUME NEW o \in 0 .. outer - 1, NEW k \in 0 .. q - 1, NEW r \in 0 .. w - 1
      PROVE  (o * K + p + k) * w + r \in DOMAIN f /\ f[(o * K + p + k) * w + r] = Elem(2, (o * q + k) * w + r)
  <2>1. p + k \in 0 .. K - 1 /\ ~ p + k < p /\ (p + k) - p = k
    OBVIOUS
  <2>2. o * K \in Nat
    OBVIOUS
  <2>3. o * K + (p + k) = o * K + p + k
    <3> DEFINE z == o * K
    <3> HIDE DEF z
    <3> QED
      BY <2>2 DEF z
  <2> HIDE DEF K
  <2>4. Spot(o, p + k, r, K, w) = (o * K + p + k) * w + r
    BY <2>3 DEF Spot
  <2> QED
    BY <1>2, <2>1, <2>4 DEF Spot
<1> HIDE DEF K
<1>5. ASSUME NEW x \in W PROVE \E i \in DOMAIN f : x = Store(i, caller[i], f[i])
  <2>1. PICK o \in 0 .. outer - 1 : x \in JoinedBlock(o, p, q, w)
    BY Zenon
  <2>2. CASE x \in BlockColumns(1, o * K, o * p, p, w)
    <3>1. PICK k \in 0 .. p - 1, r \in 0 .. w - 1 : x = Store((o * K + k) * w + r, Caller, Elem(1, (o * p + k) * w + r))
      BY <2>2 DEF BlockColumns
    <3> DEFINE i == (o * K + k) * w + r
    <3>2. i \in DOMAIN f /\ f[i] = Elem(1, (o * p + k) * w + r) /\ x = Store(i, Caller, Elem(1, (o * p + k) * w + r))
      BY <1>3, <3>1
    <3> HIDE DEF i
    <3> QED
      BY <3>2
  <2>3. CASE x \in BlockColumns(2, o * K + p, o * q, q, w)
    <3>1. PICK k \in 0 .. q - 1, r \in 0 .. w - 1 : x = Store((o * K + p + k) * w + r, Caller, Elem(2, (o * q + k) * w + r))
      BY <2>3 DEF BlockColumns
    <3> DEFINE i == (o * K + p + k) * w + r
    <3>2. i \in DOMAIN f /\ f[i] = Elem(2, (o * q + k) * w + r) /\ x = Store(i, Caller, Elem(2, (o * q + k) * w + r))
      BY <1>4, <3>1
    <3> HIDE DEF i
    <3> QED
      BY <3>2
  <2> QED
    BY <2>1, <2>2, <2>3 DEF JoinedBlock, K
<1>6. ASSUME NEW i \in DOMAIN f PROVE Store(i, caller[i], f[i]) \in W
  <2> DEFINE o == (i \div w) \div K
             k == (i \div w) % K
             r == i % w
  <2>1. o \in 0 .. outer - 1 /\ k \in 0 .. K - 1 /\ r \in 0 .. w - 1 /\ Spot(o, k, r, K, w) = i
    BY <1>1 DEF HasSpots, K
  <2> HIDE DEF o, k, r
  <2>2. Store(i, Caller, f[i]) \in JoinedBlock(o, p, q, w)
    <3>1. CASE k < p
      <4>1. k \in 0 .. p - 1
        BY <2>1, <3>1
      <4>2. f[i] = Elem(1, (o * p + k) * w + r) /\ i = (o * K + k) * w + r
        BY <1>3, <2>1, <4>1 DEF Spot
      <4>3. Store((o * K + k) * w + r, Caller, Elem(1, (o * p + k) * w + r)) \in BlockColumns(1, o * K, o * p, p, w)
        BY <2>1, <4>1 DEF BlockColumns
      <4> QED
        BY <4>2, <4>3 DEF JoinedBlock, K
    <3>2. CASE ~ k < p
      <4> DEFINE h == k - p
      <4>1. h \in 0 .. q - 1 /\ p + h = k
        BY <2>1, <3>2 DEF K
      <4>2. o * K + p + h = o * K + k
        <5>1. o * K \in Nat
          BY <2>1 DEF K
        <5>2. \A z, u, v \in Nat : z + u + v = z + (u + v)
          OBVIOUS
        <5>3. h \in Nat
          BY <4>1
        <5> HIDE DEF h
        <5> QED
          BY <4>1, <5>1, <5>2, <5>3
      <4> HIDE DEF h
      <4>3. f[i] = Elem(2, (o * q + h) * w + r) /\ i = (o * K + p + h) * w + r
        BY <1>4, <2>1, <4>1, <4>2 DEF Spot
      <4>4. Store((o * K + p + h) * w + r, Caller, Elem(2, (o * q + h) * w + r)) \in BlockColumns(2, o * K + p, o * q, q, w)
        BY <2>1, <4>1 DEF BlockColumns
      <4> QED
        BY <4>3, <4>4 DEF JoinedBlock, K
    <3> QED
      BY <3>1, <3>2
  <2>3. JoinedBlock(o, p, q, w) \in {JoinedBlock(b, p, q, w) : b \in 0 .. outer - 1}
    BY <2>1
  <2>4. Store(i, Caller, f[i]) \in UNION {JoinedBlock(b, p, q, w) : b \in 0 .. outer - 1}
    BY <2>2, <2>3, Zenon
  <2> QED
    BY <2>4
<1> HIDE DEF W, caller
<1>7. Computes(W, f)
  BY <1>5, <1>6, StoresOnce
<1> QED
  BY <1>7 DEF W

\* The axis the attributes name, and a shape with another size of one axis.
IsAxis(d, a, x) == d = Axis(a.axis, x.shape) /\ d \in 1 .. Len(x.shape)
IsResized(u, s, d, n) == u = [s EXCEPT ![d] = n]

\* The operands of Concat, and the result it has.
AreJoinable(in, d, y) ==
    /\ IsRowMajor(in[1]) /\ IsRowMajor(in[2]) /\ Len(in[2].shape) = Len(in[1].shape) /\ d \in 1 .. Len(in[1].shape)
    /\ \A e \in 1 .. Len(in[1].shape) : e # d => in[2].shape[e] = in[1].shape[e]
    /\ IsResized(y.shape, in[1].shape, d, in[1].shape[d] + in[2].shape[d])

\* What else such a shape has.
LEMMA ResizedShape ==
    ASSUME NEW s, IsShape(s), NEW d \in 1 .. Len(s), NEW n \in Nat \ {0}, NEW u, IsResized(u, s, d, n)
    PROVE  /\ IsShape(u) /\ Len(u) = Len(s) /\ d \in 1 .. Len(u) /\ u[d] = n
           /\ \A e \in 1 .. Len(s) : e # d => u[e] = s[e]
           /\ Numel(u) = Outer(s, d) * (n * Inner(s, d)) /\ Inner(u, d) = Inner(s, d)
<1>1. s \in Seq(Nat \ {0}) /\ Len(s) \in Nat
  BY DEF IsShape
<1>2. u \in Seq(Nat \ {0}) /\ Len(u) = Len(s) /\ u[d] = n /\ \A e \in 1 .. Len(s) : e # d => u[e] = s[e]
  BY <1>1 DEF IsResized
<1>3. IsShape(u) /\ d \in 1 .. Len(u)
  BY <1>2 DEF IsShape
<1>4. FrontOf(u, d) = FrontOf(s, d) /\ Inner(u, d) = Inner(s, d)
  <2>1. d \in d .. Len(s)
    BY <1>1
  <2> QED
    BY <1>2, <1>3, <2>1, SameAround
<1>5. Outer(u, d) = Outer(s, d)
  BY <1>4 DEF Outer, FrontOf
<1>6. Numel(u) = Outer(u, d) * (u[d] * Inner(u, d))
  BY <1>3, FrontSizes
<1> QED
  BY <1>2, <1>3, <1>4, <1>5, <1>6

\* What Concat means, in blocks of the axes behind the joined one.
LEMMA ConcatMeans ==
    ASSUME NEW in, NEW d, NEW y, AreJoinable(in, d, y), NEW a, IsAxis(d, a, in[1]), NEW data,
           NEW f, f = Meant("Concat", in, a, data, y.shape)
    PROVE  Joined(f, in[1].shape[d], in[2].shape[d], Inner(in[1].shape, d))
<1> DEFINE s == in[1].shape
           t == in[2].shape
           u == y.shape
           p == s[d]
           q == t[d]
           w == Inner(s, d)
<1>1. /\ IsShape(s) /\ IsShape(t) /\ Len(t) = Len(s) /\ d \in 1 .. Len(s) /\ in[1].strides = DefaultStrides(s)
      /\ in[2].strides = DefaultStrides(t) /\ d \in 1 .. Len(t)
      /\ \A e \in 1 .. Len(s) : e # d => t[e] = s[e]
  BY DEF AreJoinable, IsRowMajor
<1>2. p \in Nat \ {0} /\ q \in Nat \ {0} /\ p + q \in Nat \ {0}
  <2>1. p \in Nat \ {0} /\ q \in Nat \ {0}
    <3> HIDE DEF s, t
    <3> QED
      BY <1>1, InnerSizes
  <2> HIDE DEF p, q
  <2> QED
    BY <2>1
<1>3. IsResized(u, s, d, p + q)
  BY DEF AreJoinable
<1>4. /\ IsShape(u) /\ Len(u) = Len(s) /\ u[d] = p + q /\ \A e \in 1 .. Len(s) : e # d => u[e] = s[e]
      /\ Len(u) = Len(t) /\ \A e \in 1 .. Len(t) : e # d => u[e] = t[e]
  <2> DEFINE n == p + q
  <2> HIDE DEF s, t, u, p, q, n
  <2>1. IsShape(u) /\ Len(u) = Len(s) /\ u[d] = n /\ \A e \in 1 .. Len(s) : e # d => u[e] = s[e]
    BY <1>1, <1>2, <1>3, ResizedShape DEF n
  <2> QED
    BY <1>1, <2>1 DEF n
<1>5. Inner(t, d) = w
  <2>1. d \in d .. Len(s)
    BY <1>1
  <2> QED
    BY <1>1, <2>1, SameAround
<1>6. ASSUME NEW i \in 0 .. Numel(u) - 1
      PROVE  LET o == (i \div w) \div (p + q)
                 k == (i \div w) % (p + q)
             IN  Meaning("Concat", in, a, data, Coordinates(i, u)) =
                   IF k < p THEN Elem(1, Spot(o, k, i % w, p, w)) ELSE Elem(2, Spot(o, k - p, i % w, q, w))
  <2> DEFINE o == (i \div w) \div (p + q)
             k == (i \div w) % (p + q)
             c == Coordinates(i, u)
  <2>0. \A m \in Int : /\ Offset(With(c, d, m), DefaultStrides(s)) = Spot(o, m, i % w, p, w)
                       /\ c[d] = k
    <3>1. \A m \in Int :
            /\ Offset(With(Coordinates(i, u), d, m), DefaultStrides(s)) =
                 Spot((i \div Inner(s, d)) \div u[d], m, i % Inner(s, d), s[d], Inner(s, d))
            /\ Coordinates(i, u)[d] = (i \div Inner(s, d)) % u[d]
      <4> HIDE DEF s, u
      <4> QED
        BY <1>1, <1>4, ResizedSpot
    <3> QED
      BY <1>4, <3>1
  <2>1. c[d] = k /\ DOMAIN c = DOMAIN u
    <3>1. 0 \in Int
      OBVIOUS
    <3> HIDE DEF k
    <3> QED
      BY <2>0, <3>1 DEF Coordinates
  <2>2. k \in Nat
    <3>1. i \in Nat /\ w \in Nat \ {0}
      <4>1. d \in 0 .. Len(s)
        BY <1>1
      <4> QED
        BY <1>1, <1>4, <4>1, NumelIs, InnerSizes
    <3> HIDE DEF w, p, q
    <3>2. i \div w \in Nat
      BY <3>1, BlockParts
    <3> DEFINE x == i \div w
    <3> HIDE DEF x
    <3>3. x % (p + q) \in 0 .. (p + q) - 1
      BY <1>2, <3>2, BlockParts DEF x
    <3> QED
      BY <1>2, <3>3 DEF x
  <2>3. Offset(With(c, d, k), DefaultStrides(s)) = Spot(o, k, i % w, p, w)
    <3> HIDE DEF k, c, o
    <3>1. k \in Int
      BY <2>2
    <3> QED
      BY <2>0, <3>1
  <2>4. Offset(With(c, d, k - p), DefaultStrides(t)) = Spot(o, k - p, i % w, q, w)
    <3>1. k - p \in Int
      BY <1>2, <2>2
    <3> DEFINE m == k - p
    <3> HIDE DEF k, m
    <3>2. Offset(With(c, d, m), DefaultStrides(t)) =
            Spot((i \div Inner(t, d)) \div u[d], m, i % Inner(t, d), t[d], Inner(t, d))
      <4>1. m \in Int
        BY <3>1 DEF m
      <4> QED
        BY <1>1, <1>4, <4>1, ResizedSpot
    <3> HIDE DEF c, s, t, u, w
    <3> QED
      BY <1>4, <1>5, <3>2 DEF m
  <2>5. With(c, d, k) = c
    BY <2>1 DEF With, Coordinates
  <2>6. Meaning("Concat", in, a, data, c) =
          IF c[d] < p THEN Of(in, 1, c) ELSE Of(in, 2, With(c, d, c[d] - p))
    BY DEF Meaning, Elementwise, Unary, Binary, Dim, IsAxis
  <2> HIDE DEF c, k, o
  <2>7. Of(in, 1, c) = Elem(1, Spot(o, k, i % w, p, w))
    BY <1>1, <2>3, <2>5 DEF Of
  <2>8. Of(in, 2, With(c, d, k - p)) = Elem(2, Spot(o, k - p, i % w, q, w))
    BY <1>1, <2>4 DEF Of
  <2>9. Meaning("Concat", in, a, data, c) =
          IF k < p THEN Elem(1, Spot(o, k, i % w, p, w)) ELSE Elem(2, Spot(o, k - p, i % w, q, w))
    BY <2>1, <2>6, <2>7, <2>8
  <2> QED
    BY <2>9 DEF c, k, o
<1>7. DOMAIN f = 0 .. Numel(u) - 1 /\ \A i \in 0 .. Numel(u) - 1 : f[i] = Meaning("Concat", in, a, data, Coordinates(i, u))
  BY DEF Meant
<1> HIDE DEF s, t, u, w, p, q
<1> QED
  BY <1>6, <1>7 DEF Joined, p, q, s, t, w

\* Concat stores the joined columns, by copies of runs or a thread each.
LEMMA ConcatComputes ==
    ASSUME NEW in, NEW d, NEW y, AreJoinable(in, d, y), NEW a, IsAxis(d, a, in[1]), NEW data
    PROVE  /\ Computes(CpuConcat(in, y, a), Meant("Concat", in, a, data, y.shape))
           /\ Computes(IspcConcat(in, y, a), Meant("Concat", in, a, data, y.shape))
           /\ Computes(CudaConcat(in, y, a), Meant("Concat", in, a, data, y.shape))
<1> DEFINE s == in[1].shape
           p == s[d]
           q == in[2].shape[d]
           w == Inner(s, d)
           outer == Outer(s, d)
           f == Meant("Concat", in, a, data, y.shape)
<1>1. /\ IsShape(s) /\ IsShape(in[2].shape) /\ d \in 1 .. Len(s) /\ d \in 1 .. Len(in[2].shape)
      /\ IsResized(y.shape, s, d, p + q)
  BY DEF AreJoinable, IsRowMajor
<1>2. p \in Nat \ {0} /\ q \in Nat \ {0} /\ w \in Nat \ {0} /\ outer \in Nat
  <2>1. d \in 0 .. Len(s)
    BY <1>1
  <2> HIDE DEF s
  <2> QED
    BY <1>1, <2>1, InnerSizes, FrontSizes
<1>3. Numel(y.shape) = outer * ((p + q) * w) /\ p + q \in Nat \ {0}
  <2> DEFINE n == p + q
  <2> HIDE DEF s, p, q
  <2>1. n \in Nat \ {0}
    BY <1>2
  <2> HIDE DEF n
  <2>2. IsResized(y.shape, s, d, n)
    BY <1>1 DEF n
  <2>3. Numel(y.shape) = outer * (n * w)
    BY <1>1, <2>1, <2>2, ResizedShape
  <2> QED
    BY <2>1, <2>3 DEF n
<1>4. DOMAIN f = 0 .. outer * ((p + q) * w) - 1
  BY <1>3 DEF Meant
<1>5. Joined(f, p, q, w)
  <2> HIDE DEF f
  <2> QED
    BY ConcatMeans DEF f
<1>6. Computes(UNION {JoinedBlock(o, p, q, w) : o \in 0 .. outer - 1}, f)
  <2> HIDE DEF f, p, q, w, outer
  <2> QED
    BY <1>2, <1>4, <1>5, BlocksAreJoined
<1>7. CpuConcat(in, y, a) = UNION {JoinedBlock(o, p, q, w) : o \in 0 .. outer - 1}
  <2> DEFINE C(o) == Memcpy(1, o * (p + q) * w, o * p * w, p * w)
                        \cup Memcpy(2, (o * (p + q) + p) * w, o * q * w, q * w)
  <2>1. CpuConcat(in, y, a) = UNION {C(o) : o \in 0 .. outer - 1}
    BY DEF CpuConcat, Dim, IsAxis
  <2>2. ASSUME NEW o \in 0 .. outer - 1 PROVE C(o) = JoinedBlock(o, p, q, w)
    <3> HIDE DEF p, q, w, outer
    <3>1. o * (p + q) \in Nat /\ o * p \in Nat /\ o * q \in Nat
      BY <1>2
    <3>2. o * (p + q) + p \in Nat
      <4> DEFINE z == o * (p + q)
      <4> HIDE DEF z
      <4> QED
        BY <1>2, <3>1 DEF z
    <3>3. Memcpy(1, o * (p + q) * w, o * p * w, p * w) = BlockColumns(1, o * (p + q), o * p, p, w)
      BY <1>2, <3>1, RunIs
    <3>4. Memcpy(2, (o * (p + q) + p) * w, o * q * w, q * w) = BlockColumns(2, o * (p + q) + p, o * q, q, w)
      BY <1>2, <3>1, <3>2, RunIs
    <3> QED
      BY <3>3, <3>4 DEF JoinedBlock
  <2> HIDE DEF C, p, q, w, outer
  <2> QED
    BY <2>1, <2>2
<1>8. Computes(CudaConcat(in, y, a), f)
  <2> DEFINE n == outer * (p + q) * w
             source(i) ==
               LET k == (i \div w) % (p + q)
                   o == (i \div w) \div (p + q)
               IN  IF k < p THEN Elem(1, (o * p + k) * w + (i % w))
                   ELSE Elem(2, (o * q + k - p) * w + (i % w))
  <2>1. CudaConcat(in, y, a) = {Store(i, <<i>>, source(i)) : i \in Grid(n)}
    BY DEF CudaConcat, Dim, IsAxis
  <2> HIDE DEF f, p, q, w, outer
  <2>2. n = outer * ((p + q) * w) /\ n \in Nat
    <3>1. outer * (p + q) * w = outer * ((p + q) * w)
      BY <1>2
    <3>2. (p + q) * w \in Nat
      BY <1>2
    <3> DEFINE z == (p + q) * w
    <3> HIDE DEF z
    <3>3. outer * z \in Nat
      BY <1>2, <3>2 DEF z
    <3> QED
      BY <3>1, <3>3 DEF z
  <2>3. Grid(n) = 0 .. n - 1 /\ DOMAIN f = 0 .. n - 1
    <3> HIDE DEF n
    <3> QED
      BY <1>4, <2>2, GridIs
  <2>4. ASSUME NEW i \in 0 .. n - 1 PROVE f[i] = source(i)
    <3> DEFINE k == (i \div w) % (p + q)
               o == (i \div w) \div (p + q)
    <3>1. f[i] = IF k < p THEN Elem(1, Spot(o, k, i % w, p, w)) ELSE Elem(2, Spot(o, k - p, i % w, q, w))
      <4> HIDE DEF n
      <4> QED
        BY <1>5, <2>3 DEF Joined
    <3>2. o \in Nat /\ k \in Nat
      <4>1. i \in Nat
        <5> HIDE DEF n
        <5> QED
          BY <2>2
      <4>2. i \div w \in Nat
        BY <1>2, <4>1, BlockParts
      <4> DEFINE x == i \div w
                 z == p + q
      <4>3. z \in Nat \ {0}
        BY <1>3
      <4> HIDE DEF x, z
      <4>4. x \div z \in Nat /\ x % z \in 0 .. z - 1
        BY <4>2, <4>3, BlockParts DEF x
      <4>5. x % z \in Nat
        BY <4>3, <4>4
      <4> QED
        BY <4>4, <4>5 DEF x, z
    <3> HIDE DEF k, o
    <3>3. o * q + (k - p) = o * q + k - p
      <4>1. o * q \in Nat
        BY <1>2, <3>2
      <4> DEFINE z == o * q
      <4> HIDE DEF z
      <4> QED
        BY <1>2, <3>2, <4>1 DEF z
    <3>4. source(i) = IF k < p THEN Elem(1, (o * p + k) * w + (i % w)) ELSE Elem(2, (o * q + k - p) * w + (i % w))
      BY DEF k, o
    <3> QED
      BY <3>1, <3>3, <3>4 DEF Spot
  <2> HIDE DEF source, n
  <2>5. CudaConcat(in, y, a) = {Store(i, <<i>>, f[i]) : i \in Grid(n)}
    BY <2>1, <2>3, <2>4
  <2> QED
    BY <2>2, <2>3, <2>5, EachComputes
<1> HIDE DEF f, p, q, w, outer
<1> QED
  BY <1>6, <1>7, <1>8 DEF IspcConcat, f

\* What RepeatKV means: every column of the operand, repeated.
Repeated(f, heads, repeats, w) ==
    \A i \in DOMAIN f :
        f[i] = Elem(1, Spot((i \div w) \div (heads * repeats), ((i \div w) % (heads * repeats)) \div repeats,
                            i % w, heads, w))

\* One of the copies of a column.
CopyOf(o, h, r, heads, repeats, w) == Memcpy(1, ((o * heads + h) * repeats + r) * w, (o * heads + h) * w, w)

Copies(outer, heads, repeats, w) ==
    {CopyOf(o, h, r, heads, repeats, w) : o \in 0 .. outer - 1, h \in 0 .. heads - 1, r \in 0 .. repeats - 1}

\* Where its elements go and where they are.
CopyAt(o, h, r, j, heads, repeats, w) == ((o * heads + h) * repeats + r) * w + j
CopyFrom(o, h, j, heads, w) == (o * heads + h) * w + j

\* A column for each repetition of each head.
LEMMA HeadsAndRepeats ==
    ASSUME NEW o \in Nat, NEW heads \in Nat \ {0}, NEW h \in 0 .. heads - 1,
           NEW repeats \in Nat \ {0}, NEW r \in 0 .. repeats - 1, NEW K, K = heads * repeats
    PROVE  h * repeats + r \in 0 .. K - 1 /\ (h * repeats + r) \div repeats = h
           /\ (o * heads + h) * repeats + r = o * K + (h * repeats + r)
<1>1. K \in Nat /\ h * repeats \in Nat /\ o * K \in Nat
  OBVIOUS
<1>2. h * repeats + r \in Nat /\ (h * repeats + r) \div repeats = h /\ h * repeats + r < K
  BY RowAndColumn
<1>3. (o * heads + h) * repeats = o * K + h * repeats
  OBVIOUS
<1> DEFINE x == h * repeats
           z == o * K
           c == (o * heads + h) * repeats
<1> HIDE DEF x, z, c
<1>4. c + r = z + (x + r)
  BY <1>1, <1>3 DEF x, z, c
<1>5. x + r \in 0 .. K - 1
  BY <1>1, <1>2 DEF x
<1> QED
  BY <1>2, <1>4, <1>5 DEF x, z, c

\* The copies store the repeated columns.
LEMMA CopiesAreRepeated ==
    ASSUME NEW outer \in Nat, NEW heads \in Nat \ {0}, NEW repeats \in Nat \ {0}, NEW w \in Nat \ {0},
           NEW K, K = heads * repeats,
           NEW f, DOMAIN f = 0 .. outer * (K * w) - 1, Repeated(f, heads, repeats, w)
    PROVE  Computes(UNION Copies(outer, heads, repeats, w), f)
<1> DEFINE W == UNION Copies(outer, heads, repeats, w)
           caller == [i \in DOMAIN f |-> Caller]
<1>1. HasSpots(outer, K, w) /\ K \in Nat \ {0}
  <2>1. K \in Nat \ {0}
    BY NonZeroProduct
  <2> QED
    BY <2>1, Spots
<1>2. ASSUME NEW o \in 0 .. outer - 1, NEW h \in 0 .. heads - 1, NEW r \in 0 .. repeats - 1, NEW j \in 0 .. w - 1
      PROVE  CopyAt(o, h, r, j, heads, repeats, w) \in DOMAIN f /\ f[CopyAt(o, h, r, j, heads, repeats, w)] = Elem(1, CopyFrom(o, h, j, heads, w))
  <2> DEFINE k == h * repeats + r
             i == CopyAt(o, h, r, j, heads, repeats, w)
  <2>1. k \in 0 .. K - 1 /\ k \div repeats = h /\ (o * heads + h) * repeats + r = o * K + k
    <3>1. o \in Nat
      OBVIOUS
    <3> QED
      BY <3>1, HeadsAndRepeats
  <2>2. IsSpot(o, k, j, outer, K, w)
    <3> HIDE DEF k
    <3> QED
      BY <1>1, <2>1 DEF HasSpots
  <2>3. Spot(o, k, j, K, w) = i
    <3> HIDE DEF k
    <3> QED
      BY <2>1 DEF Spot, CopyAt
  <2> HIDE DEF k, i
  <2>4. i \in DOMAIN f
    BY <2>2, <2>3 DEF IsSpot
  <2>5. (i \div w) \div K = o /\ (i \div w) % K = k /\ i % w = j
    BY <2>2, <2>3 DEF IsSpot
  <2>6. f[i] = Elem(1, Spot((i \div w) \div K, ((i \div w) % K) \div repeats, i % w, heads, w))
    BY <2>4 DEF Repeated
  <2>7. f[i] = Elem(1, Spot(o, h, j, heads, w))
    BY <2>1, <2>5, <2>6
  <2> QED
    BY <2>4, <2>7 DEF Spot, i, CopyFrom
<1>3. ASSUME NEW o, NEW h, NEW r
      PROVE  CopyOf(o, h, r, heads, repeats, w) = {Store(CopyAt(o, h, r, j, heads, repeats, w), Caller, Elem(1, CopyFrom(o, h, j, heads, w))) : j \in 0 .. w - 1}
  BY DEF CopyOf, Memcpy, CopyAt, CopyFrom
<1>4. ASSUME NEW i \in DOMAIN f
      PROVE  \E o \in 0 .. outer - 1, h \in 0 .. heads - 1, r \in 0 .. repeats - 1, j \in 0 .. w - 1 : i = CopyAt(o, h, r, j, heads, repeats, w)
  <2> DEFINE o == (i \div w) \div K
             k == (i \div w) % K
             j == i % w
             h == k \div repeats
             r == k % repeats
  <2>1. o \in 0 .. outer - 1 /\ k \in 0 .. K - 1 /\ j \in 0 .. w - 1 /\ Spot(o, k, j, K, w) = i
    BY <1>1 DEF HasSpots
  <2> HIDE DEF o, k, j
  <2>2. k \in Nat /\ k < heads * repeats
    BY <1>1, <2>1
  <2>3. h \in 0 .. heads - 1 /\ r \in 0 .. repeats - 1 /\ k = h * repeats + r
    BY <2>2, QuotientFits, BlockParts
  <2> HIDE DEF h, r
  <2>4. (o * heads + h) * repeats + r = o * K + k
    <3>1. o \in Nat
      BY <2>1
    <3> QED
      BY <2>3, <3>1, HeadsAndRepeats
  <2>5. i = CopyAt(o, h, r, j, heads, repeats, w)
    BY <2>1, <2>4 DEF Spot, CopyAt
  <2> QED
    BY <2>1, <2>3, <2>5
<1>5. ASSUME NEW x \in W PROVE \E i \in DOMAIN f : x = Store(i, caller[i], f[i])
  <2>1. PICK o \in 0 .. outer - 1, h \in 0 .. heads - 1, r \in 0 .. repeats - 1 : x \in CopyOf(o, h, r, heads, repeats, w)
    <3>1. PICK X \in Copies(outer, heads, repeats, w) : x \in X
      BY Zenon
    <3> QED
      BY <3>1 DEF Copies
  <2>2. PICK j \in 0 .. w - 1 : x = Store(CopyAt(o, h, r, j, heads, repeats, w), Caller, Elem(1, CopyFrom(o, h, j, heads, w)))
    BY <1>3, <2>1
  <2>3. CopyAt(o, h, r, j, heads, repeats, w) \in DOMAIN f /\ f[CopyAt(o, h, r, j, heads, repeats, w)] = Elem(1, CopyFrom(o, h, j, heads, w))
    BY <1>2
  <2> QED
    BY <2>2, <2>3
<1>6. ASSUME NEW i \in DOMAIN f PROVE Store(i, caller[i], f[i]) \in W
  <2>1. PICK o \in 0 .. outer - 1, h \in 0 .. heads - 1, r \in 0 .. repeats - 1, j \in 0 .. w - 1 : i = CopyAt(o, h, r, j, heads, repeats, w)
    BY <1>4
  <2>2. f[i] = Elem(1, CopyFrom(o, h, j, heads, w))
    BY <1>2, <2>1
  <2>3. Store(i, Caller, f[i]) \in CopyOf(o, h, r, heads, repeats, w)
    BY <1>3, <2>1, <2>2
  <2>4. CopyOf(o, h, r, heads, repeats, w) \in Copies(outer, heads, repeats, w)
    BY DEF Copies
  <2>5. Store(i, Caller, f[i]) \in W
    BY <2>3, <2>4, Zenon
  <2> QED
    BY <2>5
<1> HIDE DEF W, caller
<1>7. Computes(W, f)
  BY <1>5, <1>6, StoresOnce
<1> QED
  BY <1>7 DEF W

\* The operand of RepeatKV, and the result it has.
AreRepeatable(in, d, y, repeats) ==
    /\ IsRowMajor(in[1]) /\ d \in 1 .. Len(in[1].shape) /\ repeats \in Nat \ {0}
    /\ IsResized(y.shape, in[1].shape, d, in[1].shape[d] * repeats)

\* The coordinate along the axis is divided by the number of repetitions.
LEMMA RepeatKVMeans ==
    ASSUME NEW in, NEW d, NEW y, NEW a, AreRepeatable(in, d, y, a.repeats), IsAxis(d, a, in[1]), NEW data,
           NEW f, f = Meant("RepeatKV", in, a, data, y.shape)
    PROVE  Repeated(f, in[1].shape[d], a.repeats, Inner(in[1].shape, d))
<1> DEFINE s == in[1].shape
           u == y.shape
           heads == s[d]
           repeats == a.repeats
           K == heads * repeats
           w == Inner(s, d)
<1>1. IsShape(s) /\ d \in 1 .. Len(s) /\ in[1].strides = DefaultStrides(s) /\ repeats \in Nat \ {0}
      /\ IsResized(u, s, d, K)
  BY DEF AreRepeatable, IsRowMajor
<1>2. heads \in Nat \ {0} /\ K \in Nat \ {0} /\ w \in Nat \ {0}
  <2>1. heads \in Nat \ {0} /\ w \in Nat \ {0}
    <3>1. d \in 0 .. Len(s)
      BY <1>1
    <3> HIDE DEF s
    <3> QED
      BY <1>1, <3>1, InnerSizes
  <2> HIDE DEF heads, repeats, w
  <2> QED
    BY <1>1, <2>1, NonZeroProduct
<1>3. IsShape(u) /\ Len(u) = Len(s) /\ u[d] = K /\ \A e \in 1 .. Len(s) : e # d => u[e] = s[e]
  <2> HIDE DEF s, u, K
  <2> QED
    BY <1>1, <1>2, ResizedShape
<1>4. ASSUME NEW i \in 0 .. Numel(u) - 1
      PROVE  Meaning("RepeatKV", in, a, data, Coordinates(i, u)) =
               Elem(1, Spot((i \div w) \div K, ((i \div w) % K) \div repeats, i % w, heads, w))
  <2> DEFINE k == (i \div w) % K
             c == Coordinates(i, u)
             m == k \div repeats
  <2>1. \A n \in Int : /\ Offset(With(c, d, n), DefaultStrides(s)) = Spot((i \div w) \div K, n, i % w, heads, w)
                       /\ c[d] = k
    <3>1. \A n \in Int :
            /\ Offset(With(Coordinates(i, u), d, n), DefaultStrides(s)) =
                 Spot((i \div Inner(s, d)) \div u[d], n, i % Inner(s, d), s[d], Inner(s, d))
            /\ Coordinates(i, u)[d] = (i \div Inner(s, d)) % u[d]
      <4> HIDE DEF s, u
      <4> QED
        BY <1>1, <1>3, ResizedSpot
    <3> HIDE DEF K
    <3> QED
      BY <1>3, <3>1
  <2>2. c[d] = k
    <3>1. 0 \in Int
      OBVIOUS
    <3> HIDE DEF k, c
    <3> QED
      BY <2>1, <3>1
  <2>3. m \in Int
    <3>1. i \in Nat
      <4> HIDE DEF u
      <4> QED
        BY <1>3, NumelIs
    <3> HIDE DEF w, K, repeats
    <3>2. i \div w \in Nat
      BY <1>2, <3>1, BlockParts
    <3> DEFINE x == i \div w
    <3> HIDE DEF x
    <3>3. x % K \in 0 .. K - 1
      BY <1>2, <3>2, BlockParts DEF x
    <3>4. k \in Nat
      BY <1>2, <3>3 DEF x
    <3> HIDE DEF k
    <3>5. m \in Nat
      BY <1>1, <3>4, BlockParts
    <3> HIDE DEF m
    <3> QED
      BY <3>5
  <2>4. Meaning("RepeatKV", in, a, data, c) = Of(in, 1, With(c, d, c[d] \div repeats))
    BY DEF Meaning, Elementwise, Unary, Binary, IsAxis
  <2> HIDE DEF c, k
  <2>5. Meaning("RepeatKV", in, a, data, c) = Of(in, 1, With(c, d, m))
    BY <2>2, <2>4
  <2> HIDE DEF m
  <2>6. Of(in, 1, With(c, d, m)) = Elem(1, Spot((i \div w) \div K, m, i % w, heads, w))
    BY <1>1, <2>1, <2>3 DEF Of
  <2>7. Meaning("RepeatKV", in, a, data, c) = Elem(1, Spot((i \div w) \div K, m, i % w, heads, w))
    BY <2>5, <2>6
  <2> HIDE DEF w, K, heads, s, repeats
  <2> QED
    BY <2>7 DEF c, m, k
<1>5. DOMAIN f = 0 .. Numel(u) - 1 /\ \A i \in 0 .. Numel(u) - 1 : f[i] = Meaning("RepeatKV", in, a, data, Coordinates(i, u))
  BY DEF Meant
<1> HIDE DEF u, w
<1> QED
  BY <1>4, <1>5 DEF Repeated, w

\* RepeatKV stores the repeated columns, by copies of them or a thread for each element.
LEMMA RepeatKVComputes ==
    ASSUME NEW in, NEW d, NEW y, NEW a, AreRepeatable(in, d, y, a.repeats), IsAxis(d, a, in[1]), NEW data
    PROVE  /\ Computes(CpuRepeatKV(in, y, a), Meant("RepeatKV", in, a, data, y.shape))
           /\ Computes(IspcRepeatKV(in, y, a), Meant("RepeatKV", in, a, data, y.shape))
           /\ Computes(CudaRepeatKV(in, y, a), Meant("RepeatKV", in, a, data, y.shape))
<1> DEFINE s == in[1].shape
           heads == s[d]
           repeats == a.repeats
           K == heads * repeats
           w == Inner(s, d)
           outer == Outer(s, d)
           f == Meant("RepeatKV", in, a, data, y.shape)
<1>1. IsShape(s) /\ d \in 1 .. Len(s) /\ repeats \in Nat \ {0} /\ IsResized(y.shape, s, d, K)
  BY DEF AreRepeatable, IsRowMajor
<1>2. heads \in Nat \ {0} /\ K \in Nat \ {0} /\ w \in Nat \ {0} /\ outer \in Nat
  <2>1. heads \in Nat \ {0} /\ w \in Nat \ {0} /\ outer \in Nat
    <3>1. d \in 0 .. Len(s)
      BY <1>1
    <3> HIDE DEF s
    <3> QED
      BY <1>1, <3>1, InnerSizes, FrontSizes
  <2> HIDE DEF heads, repeats, w, outer
  <2> QED
    BY <1>1, <2>1, NonZeroProduct
<1>3. Numel(y.shape) = outer * (K * w)
  <2>1. IsShape(s) /\ d \in 1 .. Len(s) /\ IsResized(y.shape, s, d, K) /\ K \in Nat \ {0}
    BY <1>1, <1>2
  <2> HIDE DEF s, K
  <2> QED
    BY <2>1, ResizedShape
<1>4. DOMAIN f = 0 .. outer * (K * w) - 1
  BY <1>3 DEF Meant
<1>5. Repeated(f, heads, repeats, w)
  <2> HIDE DEF f
  <2> QED
    BY RepeatKVMeans DEF f
<1>6. CpuRepeatKV(in, y, a) = UNION Copies(outer, heads, repeats, w)
  BY DEF CpuRepeatKV, Copies, CopyOf, Dim, IsAxis
<1>7. Computes(CpuRepeatKV(in, y, a), f)
  <2>1. K = heads * repeats
    OBVIOUS
  <2> HIDE DEF f, heads, repeats, w, outer, K
  <2>2. Computes(UNION Copies(outer, heads, repeats, w), f)
    BY <1>1, <1>2, <1>4, <1>5, <2>1, CopiesAreRepeated
  <2> QED
    BY <1>6, <2>2
<1>8. Computes(CudaRepeatKV(in, y, a), f)
  <2> DEFINE n == outer * K * w
             source(i) == (((i \div w) \div K) * heads + ((i \div w) % K) \div repeats) * w + (i % w)
  <2>1. CudaRepeatKV(in, y, a) = {Store(i, <<i>>, Elem(1, source(i))) : i \in Grid(n)}
    BY DEF CudaRepeatKV, Dim, IsAxis
  <2> HIDE DEF f, K, heads, repeats, w, outer
  <2>2. n = outer * (K * w) /\ n \in Nat
    <3>1. outer * K * w = outer * (K * w) /\ outer * K \in Nat
      BY <1>2
    <3> DEFINE z == outer * K
    <3> HIDE DEF z
    <3>2. z * w \in Nat
      BY <1>2, <3>1 DEF z
    <3> QED
      BY <3>1, <3>2 DEF z
  <2>3. Grid(n) = 0 .. n - 1 /\ DOMAIN f = 0 .. n - 1
    <3> HIDE DEF n
    <3> QED
      BY <1>4, <2>2, GridIs
  <2>4. \A i \in 0 .. n - 1 : f[i] = Elem(1, source(i))
    <3>1. \A i \in 0 .. n - 1 : f[i] = Elem(1, Spot((i \div w) \div K, ((i \div w) % K) \div repeats, i % w, heads, w))
      <4> HIDE DEF n
      <4> QED
        BY <1>5, <2>3 DEF Repeated, K
    <3> HIDE DEF n
    <3> QED
      BY <3>1 DEF Spot
  <2> HIDE DEF source, n
  <2>5. CudaRepeatKV(in, y, a) = {Store(i, <<i>>, f[i]) : i \in Grid(n)}
    BY <2>1, <2>3, <2>4
  <2> QED
    BY <2>2, <2>3, <2>5, EachComputes
<1> HIDE DEF f
<1> QED
  BY <1>7, <1>8 DEF IspcRepeatKV, f

\* Two sequences that differ in one place have sums that differ by as much.
DifferAt(b, a, n, m, x) == b[m] = a[m] + x /\ \A d \in 1 .. n : d # m => b[d] = a[d]

\* So have their totals.
LEMMA TotalsDiffer ==
    ASSUME NEW n \in Nat, NEW a \in [1 .. n -> Int], NEW b \in [1 .. n -> Int], NEW m \in 1 .. n, NEW x \in Int,
           DifferAt(b, a, n, m, x)
    PROVE  Total(b) = Total(a) + x /\ Total(a) \in Int
<1>1. PICK h : Sums(h, a, n)
  BY SumsExist
<1> DEFINE g == [k \in 0 .. n |-> IF k < m THEN h[k] ELSE h[k] + x]
<1>2. /\ \A k \in 0 .. n : h[k] \in Int
      /\ h[0] = 0 /\ \A k \in 1 .. n : h[k] = h[k - 1] + a[k]
  BY <1>1 DEF Sums
<1>3. \A k \in 0 .. n : g[k] \in Int
  BY <1>2
<1>4. g[0] = 0
  BY <1>2
<1>5. ASSUME NEW k \in 1 .. n PROVE g[k] = g[k - 1] + b[k]
  <2>1. k \in 0 .. n /\ k - 1 \in 0 .. n /\ h[k] = h[k - 1] + a[k] /\ h[k - 1] \in Int /\ a[k] \in Int
    BY <1>2
  <2>2. CASE k < m
    <3>1. b[k] = a[k] /\ g[k] = h[k] /\ g[k - 1] = h[k - 1]
      BY <2>1, <2>2 DEF DifferAt
    <3> QED
      BY <2>1, <3>1
  <2>3. CASE k = m
    <3>1. b[k] = a[k] + x /\ g[k] = h[k] + x /\ g[k - 1] = h[k - 1]
      BY <2>1, <2>3 DEF DifferAt
    <3> QED
      BY <2>1, <3>1
  <2>4. CASE k > m
    <3>1. b[k] = a[k]
      BY <2>4 DEF DifferAt
    <3>2. ~ k < m /\ ~ k - 1 < m
      BY <2>4
    <3>3. g[k] = h[k] + x /\ g[k - 1] = h[k - 1] + x
      BY <2>1, <3>2
    <3> QED
      BY <2>1, <3>1, <3>3
  <2> QED
    BY <2>2, <2>3, <2>4
<1>6. Sums(g, b, n)
  <2>1. g \in [0 .. n -> Int]
    BY <1>3
  <2> HIDE DEF g
  <2> QED
    BY <1>4, <1>5, <2>1 DEF Sums
<1>7. g[n] = h[n] + x
  OBVIOUS
<1> HIDE DEF g
<1>8. Total(a) = h[n] /\ Total(b) = g[n] /\ h[n] \in Int
  <2>1. Total(a) = h[n]
    BY <1>1, TotalIs
  <2>2. Total(b) = g[n]
    BY <1>6, TotalIs
  <2> QED
    BY <1>2, <2>1, <2>2
<1> QED
  BY <1>7, <1>8

\* The terms of a sequence, permuted, up to the k-th of them.
Permutes(t, n) == t \in Bijection(1 .. n, 1 .. n)
UpTo(q, t, n, k) == [d \in 1 .. n |-> IF t[d] <= k THEN q[t[d]] ELSE 0]

\* The order of the terms does not matter to their sum.
LEMMA TotalPermuted ==
    ASSUME NEW n \in Nat, NEW q \in [1 .. n -> Int], NEW t, Permutes(t, n)
    PROVE  Total([d \in 1 .. n |-> q[t[d]]]) = Total(q)
<1>1. /\ \A d \in 1 .. n : t[d] \in 1 .. n /\ q[t[d]] \in Int
      /\ \A d, e \in 1 .. n : t[d] = t[e] => d = e
      /\ \A k \in 1 .. n : \E d \in 1 .. n : t[d] = k
  BY DEF Permutes, Bijection, Injection, Surjection, IsInjective
<1>2. \A k \in 0 .. n : UpTo(q, t, n, k) \in [1 .. n -> Int]
  BY <1>1 DEF UpTo
<1> DEFINE h == [k \in 0 .. n |-> Total(UpTo(q, t, n, k))]
<1>3. h[0] = 0
  <2> DEFINE z == UpTo(q, t, n, 0)
             g == [k \in 0 .. n |-> 0]
  <2>1. \A d \in 1 .. n : z[d] = 0
    <3>0. \A d \in 1 .. n : t[d] \in 1 .. n
      BY <1>1, Zenon
    <3>1. \A d \in 1 .. n : ~ t[d] <= 0
      BY <3>0
    <3> QED
      BY <3>1 DEF UpTo
  <2>2. z \in [1 .. n -> Int]
    BY <1>2
  <2> HIDE DEF z
  <2>3. Sums(g, z, n)
    BY <2>1 DEF Sums
  <2>4. g[n] = 0
    OBVIOUS
  <2> HIDE DEF g
  <2>5. Total(z) = 0
    BY <2>2, <2>3, <2>4, TotalIs
  <2> QED
    BY <2>5 DEF z
<1>4. ASSUME NEW k \in 1 .. n PROVE h[k] = h[k - 1] + q[k] /\ h[k - 1] \in Int
  <2>1. PICK m \in 1 .. n : t[m] = k
    BY <1>1
  <2> DEFINE a == UpTo(q, t, n, k - 1)
             b == UpTo(q, t, n, k)
  <2>2. b[m] = q[k] /\ a[m] = 0 /\ q[k] \in Int
    <3>1. k <= k /\ ~ k <= k - 1
      OBVIOUS
    <3>2. b[m] = (IF t[m] <= k THEN q[t[m]] ELSE 0) /\ a[m] = (IF t[m] <= k - 1 THEN q[t[m]] ELSE 0)
      BY DEF UpTo
    <3> HIDE DEF a, b
    <3> QED
      BY <2>1, <3>1, <3>2
  <2>3. ASSUME NEW d \in 1 .. n, d # m PROVE b[d] = a[d]
    <3>1. t[d] # k /\ t[d] \in 1 .. n
      BY <1>1, <2>1, <2>3
    <3>2. t[d] <= k <=> t[d] <= k - 1
      BY <3>1
    <3> QED
      BY <3>2 DEF UpTo
  <2>4. k \in 0 .. n /\ k - 1 \in 0 .. n
    OBVIOUS
  <2>5. a \in [1 .. n -> Int] /\ b \in [1 .. n -> Int]
    BY <1>2, <2>4
  <2> HIDE DEF a, b
  <2>6. DifferAt(b, a, n, m, q[k])
    BY <2>2, <2>3 DEF DifferAt
  <2>7. Total(b) = Total(a) + q[k] /\ Total(a) \in Int
    BY <2>2, <2>5, <2>6, TotalsDiffer
  <2>8. h[k] = Total(b) /\ h[k - 1] = Total(a)
    BY <2>4 DEF a, b
  <2> HIDE DEF h
  <2> QED
    BY <2>7, <2>8
<1>5. UpTo(q, t, n, n) = [d \in 1 .. n |-> q[t[d]]]
  <2>1. \A d \in 1 .. n : t[d] <= n
    BY <1>1
  <2>2. \A d \in 1 .. n : (IF t[d] <= n THEN q[t[d]] ELSE 0) = q[t[d]]
    BY <2>1
  <2> QED
    BY <2>2 DEF UpTo
<1>6. h[n] = Total([d \in 1 .. n |-> q[t[d]]])
  BY <1>5
<1>7. h \in [0 .. n -> Int]
  <2>1. \A k \in 1 .. n : q[k] \in Int
    OBVIOUS
  <2>2. ASSUME NEW k \in 0 .. n PROVE h[k] \in Int
    <3> HIDE DEF h
    <3>1. CASE k = 0
      BY <1>3, <3>1
    <3>2. CASE k # 0
      <4>1. k \in 1 .. n
        BY <3>2
      <4>2. h[k] = h[k - 1] + q[k] /\ h[k - 1] \in Int /\ q[k] \in Int
        BY <1>4, <2>1, <4>1
      <4> QED
        BY <4>2
    <3> QED
      BY <3>1, <3>2
  <2>3. h = [k \in 0 .. n |-> h[k]]
    OBVIOUS
  <2> HIDE DEF h
  <2> QED
    BY <2>2, <2>3
<1> HIDE DEF h
<1>8. Sums(h, q, n)
  BY <1>3, <1>4, <1>7 DEF Sums
<1>9. Total(q) = h[n]
  BY <1>8, TotalIs
<1> QED
  BY <1>6, <1>9

\* The axis of the operand that is axis d of the result.
AxisOf(a, n) == [d \in 1 .. n |-> 1 + Permutation(a, n)[d]]

\* A permutation that is accepted is one.
LEMMA AcceptedIsPermutation ==
    ASSUME NEW x, NEW n \in Nat, Rank(x) = n, NEW a, a.perm \in Seq(Int), ValidTranspose(x, a)
    PROVE  /\ Permutes(AxisOf(a, n), n) /\ DOMAIN Permutation(a, n) = 1 .. n
           /\ \A d \in 1 .. n : Permutation(a, n)[d] \in Int
<1> DEFINE t == AxisOf(a, n)
           perm == Permutation(a, n)
<1>1. CASE a.perm = <<>>
  <2>1. perm = [d \in 1 .. n |-> n - d] /\ \A d \in 1 .. n : t[d] = 1 + (n - d)
    BY <1>1 DEF Permutation, AxisOf
  <2>2. t \in [1 .. n -> 1 .. n]
    <3>1. \A d \in 1 .. n : t[d] \in 1 .. n
      BY <2>1
    <3>2. t = [d \in 1 .. n |-> t[d]]
      BY DEF AxisOf
    <3> HIDE DEF t
    <3> QED
      BY <3>1, <3>2
  <2>3. \A d, e \in 1 .. n : t[d] = t[e] => d = e
    <3> HIDE DEF t
    <3> QED
      BY <2>1
  <2>4. \A k \in 1 .. n : \E d \in 1 .. n : t[d] = k
    <3>1. ASSUME NEW k \in 1 .. n PROVE (n - k) + 1 \in 1 .. n /\ t[(n - k) + 1] = k
      <4>1. (n - k) + 1 \in 1 .. n /\ 1 + (n - ((n - k) + 1)) = k
        OBVIOUS
      <4> HIDE DEF t
      <4> QED
        BY <2>1, <4>1
    <3> HIDE DEF t
    <3> QED
      BY <3>1
  <2>5. DOMAIN perm = 1 .. n /\ \A d \in 1 .. n : perm[d] \in Int
    <3> HIDE DEF perm
    <3> QED
      BY <2>1
  <2> HIDE DEF t, perm
  <2>6. Permutes(t, n)
    BY <2>2, <2>3, <2>4 DEF Permutes, Bijection, Injection, Surjection, IsInjective
  <2> QED
    BY <2>5, <2>6 DEF t, perm
<1>2. CASE a.perm # <<>>
  <2>1. perm = a.perm /\ Len(perm) = n /\ DOMAIN perm = 1 .. n /\ perm \in Seq(Int)
    BY <1>2 DEF Permutation, ValidTranspose
  <2>2. /\ \A d \in 1 .. n : perm[d] \in 0 .. n - 1 /\ perm[d] \in Int
        /\ \A d, e \in 1 .. n : d # e => perm[d] # perm[e]
    <3>1. /\ \A d \in DOMAIN a.perm : a.perm[d] \in 0 .. n - 1
          /\ \A d, e \in DOMAIN a.perm : d # e => a.perm[d] # a.perm[e]
      BY <1>2 DEF ValidTranspose
    <3>2. \A d \in 0 .. n - 1 : d \in Int
      OBVIOUS
    <3> HIDE DEF perm
    <3> QED
      BY <2>1, <3>1, <3>2
  <2>3. \A d \in 1 .. n : t[d] = 1 + perm[d]
    BY DEF AxisOf
  <2>4. t \in [1 .. n -> 1 .. n]
    <3>1. t = [d \in 1 .. n |-> t[d]]
      BY DEF AxisOf
    <3> HIDE DEF t, perm
    <3>2. \A d \in 1 .. n : t[d] \in 1 .. n
      BY <2>2, <2>3
    <3> QED
      BY <3>1, <3>2
  <2> HIDE DEF t, perm
  <2>5. t \in Injection(1 .. n, 1 .. n)
    <3>1. ASSUME NEW d \in 1 .. n, NEW e \in 1 .. n, t[d] = t[e] PROVE d = e
      <4>1. perm[d] \in Int /\ perm[e] \in Int /\ 1 + perm[d] = 1 + perm[e]
        BY <2>2, <2>3, <3>1
      <4>2. perm[d] = perm[e]
        BY <4>1
      <4> QED
        BY <2>2, <4>2
    <3> QED
      BY <2>4, <3>1 DEF Injection, IsInjective
  <2>6. IsFiniteSet(1 .. n)
    BY FS_Interval
  <2>7. t \in Surjection(1 .. n, 1 .. n)
    BY <2>5, <2>6, FS_Injection
  <2>8. Permutes(t, n)
    BY <2>5, <2>7 DEF Permutes, Bijection
  <2> QED
    BY <2>1, <2>2, <2>8 DEF t, perm
<1> QED
  BY <1>1, <1>2

\* Taking off the axes before gives the coordinate.
LEMMA UnravelledIs ==
    ASSUME NEW u, IsShape(u), NEW i \in 0 .. Numel(u) - 1, NEW d \in 1 .. Len(u)
    PROVE  Unravelled(i, DefaultStrides(u), d) = Coordinates(i, u)[d]
<1> DEFINE w == Inner(u, d)
           m == u[d]
           r == (i \div w) % m
<1>1. /\ i \in Nat /\ w \in Nat \ {0} /\ m \in Nat \ {0} /\ DefaultStrides(u)[d] = w /\ Inner(u, d - 1) = m * w
      /\ Len(u) \in Nat
  <2>1. d \in 0 .. Len(u) /\ i \in Nat
    BY NumelIs
  <2> QED
    BY <2>1, NumelIs, InnerSizes
<1>2. Coordinates(i, u)[d] = r
  BY <1>1, CoordinatesAre
<1>3. i % (m * w) = r * w + (i % w) /\ r \in 0 .. m - 1 /\ i % w \in 0 .. w - 1 /\ i \div w \in Nat
  <2>1. i \in Nat /\ w \in Nat \ {0} /\ m \in Nat \ {0}
    BY <1>1
  <2> HIDE DEF w, m
  <2> QED
    BY <2>1, MixedRadix, Zenon
<1>4. (r * w + (i % w)) \div w = r
  <2>1. r \in Nat
    BY <1>1, <1>3
  <2> HIDE DEF r, w
  <2> QED
    BY <1>1, <1>3, <2>1, RowAndColumn
<1>5. CASE d = 1
  <2>1. Numel(u) = m * w
    BY <1>1, <1>5, InnerSizes
  <2>2. i < m * w
    BY <1>1, <2>1, NumelIs
  <2>3. i \div w \in 0 .. m - 1
    <3> HIDE DEF w, m
    <3> QED
      BY <1>1, <2>2, QuotientFits
  <2>4. r = i \div w
    <3> DEFINE x == i \div w
    <3> HIDE DEF x, m
    <3>1. x % m = x
      BY <1>1, <2>3 DEF x
    <3> QED
      BY <3>1 DEF x, m
  <2> HIDE DEF r, w, m
  <2> QED
    BY <1>1, <1>2, <1>5, <2>4 DEF Unravelled
<1>6. CASE d # 1
  <2>1. d - 1 \in 1 .. Len(u)
    BY <1>1, <1>6
  <2>2. DefaultStrides(u)[d - 1] = m * w
    BY <1>1, <2>1, InnerSizes
  <2> HIDE DEF r, w, m
  <2> QED
    BY <1>1, <1>2, <1>3, <1>4, <1>6, <2>2 DEF Unravelled
<1> QED
  BY <1>5, <1>6

\* The operand of Transpose, and the result it has.
AreTransposable(in, y, a) ==
    /\ IsRowMajor(in[1]) /\ a.perm \in Seq(Int) /\ ValidTranspose(in[1], a)
    /\ y.shape = [d \in DOMAIN in[1].shape |-> in[1].shape[1 + Permutation(a, Rank(in[1]))[d]]]

\* What Transpose means: the element of the operand with the coordinates permuted.
Moved(f, y, a, strides) == \A i \in DOMAIN f : f[i] = Elem(1, Permuted(i, y, a, strides))

\* The coordinates lead where the kernels go with strides.
LEMMA TransposeMeans ==
    ASSUME NEW in, NEW y, NEW a, AreTransposable(in, y, a), NEW data,
           NEW f, f = Meant("Transpose", in, a, data, y.shape)
    PROVE  Moved(f, y, a, DefaultStrides(in[1].shape)) /\ IsShape(y.shape)
<1> DEFINE s == in[1].shape
           u == y.shape
           n == Len(s)
           perm == Permutation(a, n)
           t == AxisOf(a, n)
           strides == DefaultStrides(s)
<1>1. IsShape(s) /\ in[1].strides = strides /\ n \in Nat /\ DOMAIN s = 1 .. n
  BY NumelIs DEF AreTransposable, IsRowMajor
<1>2. Permutes(t, n) /\ DOMAIN perm = 1 .. n /\ \A d \in 1 .. n : perm[d] \in Int
  <2>1. Rank(in[1]) = n /\ a.perm \in Seq(Int) /\ ValidTranspose(in[1], a)
    BY DEF AreTransposable, Rank
  <2> HIDE DEF n
  <2> QED
    BY <1>1, <2>1, AcceptedIsPermutation
<1>3. /\ \A d \in 1 .. n : t[d] \in 1 .. n /\ t[d] = 1 + perm[d]
      /\ \A d, e \in 1 .. n : t[d] = t[e] => d = e
  <2>1. \A d \in 1 .. n : t[d] = 1 + perm[d]
    BY DEF AxisOf
  <2> HIDE DEF t
  <2> QED
    BY <1>2, <2>1 DEF Permutes, Bijection, Injection, IsInjective
<1>4. u = [d \in 1 .. n |-> s[t[d]]]
  <2>1. u = [d \in 1 .. n |-> s[1 + perm[d]]]
    BY <1>1 DEF AreTransposable, Rank
  <2> HIDE DEF t, perm, u, s, n
  <2> QED
    BY <1>3, <2>1
<1>5. IsShape(u) /\ Len(u) = n /\ DOMAIN u = 1 .. n
  <2> HIDE DEF t, u, n, s
  <2>1. \A d \in 1 .. n : s[t[d]] \in Nat \ {0}
    BY <1>1, <1>3, InnerSizes DEF n
  <2>2. u \in [1 .. n -> Nat \ {0}]
    BY <1>4, <2>1
  <2>3. u \in Seq(Nat \ {0})
    BY <1>1, <2>2
  <2> QED
    BY <1>1, <2>2, <2>3 DEF IsShape
<1>6. ASSUME NEW i \in 0 .. Numel(u) - 1
      PROVE  Meaning("Transpose", in, a, data, Coordinates(i, u)) = Elem(1, Permuted(i, y, a, strides))
  <2> DEFINE c == Coordinates(i, u)
             v == [d \in DOMAIN c |-> c[CHOOSE e \in DOMAIN perm : perm[e] = d - 1]]
             q == [d \in DOMAIN v |-> v[d] * strides[d]]
  <2>1. DOMAIN c = 1 .. n /\ \A d \in 1 .. n : c[d] \in Nat
    <3>1. i \in Nat
      BY <1>5, NumelIs
    <3>2. DOMAIN c = 1 .. Len(u) /\ c \in Seq(Nat)
      BY <1>5, <3>1, CoordinatesAre
    <3> HIDE DEF c, u, n
    <3> QED
      BY <1>5, <3>2
  <2>2. ASSUME NEW d \in 1 .. n PROVE v[t[d]] = c[d] /\ t[d] \in DOMAIN v
    <3>1. t[d] \in 1 .. n /\ t[d] - 1 = perm[d]
      <4>1. perm[d] \in Int
        BY <1>2
      <4>2. t[d] = 1 + perm[d] /\ t[d] \in 1 .. n
        BY <1>3
      <4> HIDE DEF t, perm
      <4> QED
        BY <4>1, <4>2
    <3>2. \A e \in 1 .. n : perm[e] = t[d] - 1 => e = d
      <4> HIDE DEF t, perm, n
      <4> QED
        BY <1>3, <3>1
    <3> HIDE DEF perm, t
    <3> DEFINE e == CHOOSE e \in DOMAIN perm : perm[e] = t[d] - 1
    <3>3. e \in 1 .. n /\ perm[e] = t[d] - 1
      <4> HIDE DEF n
      <4> QED
        BY <1>2, <3>1
    <3>4. e = d
      <4> HIDE DEF e
      <4> QED
        BY <3>2, <3>3
    <3>5. t[d] \in DOMAIN c
      BY <2>1, <3>1
    <3>6. v[t[d]] = c[e]
      BY <3>5
    <3> HIDE DEF e, c
    <3> QED
      BY <3>4, <3>5, <3>6
  <2>3. DOMAIN v = 1 .. n
    BY <2>1
  <2>4. \A d \in 1 .. n : strides[d] \in Int
    <3>1. \A d \in 1 .. n : d \in 0 .. n
      BY <1>1
    <3> QED
      BY <1>1, <3>1, InnerSizes
  <2>5. \A d \in 1 .. n : q[t[d]] = c[d] * strides[t[d]] /\ q[t[d]] \in Int
    <3>1. ASSUME NEW d \in 1 .. n PROVE q[t[d]] = c[d] * strides[t[d]]
      <4>1. q[t[d]] = v[t[d]] * strides[t[d]]
        BY <2>2
      <4> HIDE DEF q, v, strides, t, c
      <4> QED
        BY <2>2, <4>1
    <3>2. \A d \in 1 .. n : c[d] * strides[t[d]] \in Int
      <4> HIDE DEF strides, t, c, n
      <4> QED
        BY <1>3, <2>1, <2>4
    <3> HIDE DEF q, c, strides, t, n
    <3> QED
      BY <3>1, <3>2
  <2>6. q \in [1 .. n -> Int]
    <3>1. DOMAIN q = 1 .. n
      BY <2>3
    <3>2. \A k \in 1 .. n : \E d \in 1 .. n : t[d] = k
      <4> HIDE DEF t
      <4> QED
        BY <1>2 DEF Permutes, Bijection, Surjection
    <3>3. q = [k \in 1 .. n |-> q[k]]
      BY <2>3
    <3> HIDE DEF q, t, n
    <3>4. \A k \in 1 .. n : q[k] \in Int
      BY <2>5, <3>2
    <3> QED
      BY <3>3, <3>4
  <2>7. Offset(v, strides) = Total(q)
    BY DEF Offset
  <2>8. Permuted(i, y, a, strides) = Total([d \in 1 .. n |-> q[t[d]]])
    <3>1. Permuted(i, y, a, strides) =
            Total([d \in 1 .. n |-> Unravelled(i, DefaultStrides(u), d) * strides[1 + perm[d]]])
      <4>1. Rank(y) = n
        BY <1>5 DEF Rank
      <4> QED
        BY <1>5, <4>1 DEF Permuted
    <3>2. ASSUME NEW d \in 1 .. n
          PROVE  Unravelled(i, DefaultStrides(u), d) * strides[1 + perm[d]] = q[t[d]]
      <4>1. Unravelled(i, DefaultStrides(u), d) = c[d]
        BY <1>5, UnravelledIs
      <4> HIDE DEF c, q, t, perm, strides
      <4> QED
        BY <1>3, <2>5, <4>1
    <3> HIDE DEF q, t, perm, strides
    <3>3. [d \in 1 .. n |-> Unravelled(i, DefaultStrides(u), d) * strides[1 + perm[d]]] = [d \in 1 .. n |-> q[t[d]]]
      BY <3>2
    <3> QED
      BY <3>1, <3>3
  <2>9. Total([d \in 1 .. n |-> q[t[d]]]) = Total(q)
    <3> HIDE DEF q, t, n
    <3> QED
      BY <1>1, <1>2, <2>6, TotalPermuted
  <2>10. Meaning("Transpose", in, a, data, c) = Of(in, 1, v)
    BY DEF Meaning, Elementwise, Unary, Binary, Rank
  <2> HIDE DEF q, v, c
  <2>11. Of(in, 1, v) = Elem(1, Total(q))
    BY <1>1, <2>7 DEF Of
  <2> QED
    BY <2>8, <2>9, <2>10, <2>11 DEF c
<1>7. DOMAIN f = 0 .. Numel(u) - 1 /\ \A i \in 0 .. Numel(u) - 1 : f[i] = Meaning("Transpose", in, a, data, Coordinates(i, u))
  BY DEF Meant
<1> HIDE DEF u, strides
<1> QED
  BY <1>5, <1>6, <1>7 DEF Moved, u, strides

\* Transpose stores the permuted elements.
LEMMA TransposeComputes ==
    ASSUME NEW in, NEW y, NEW a, AreTransposable(in, y, a), NEW data
    PROVE  /\ Computes(CpuTranspose(in, y, a), Meant("Transpose", in, a, data, y.shape))
           /\ Computes(IspcTranspose(in, y, a), Meant("Transpose", in, a, data, y.shape))
           /\ Rank(in[1]) <= CUDA_RANK => Computes(CudaTranspose(in, y, a), Meant("Transpose", in, a, data, y.shape))
<1> DEFINE n == Numel(y.shape)
           f == Meant("Transpose", in, a, data, y.shape)
           strides == DefaultStrides(in[1].shape)
           e(i) == Elem(1, Permuted(i, y, a, strides))
<1>1. Moved(f, y, a, strides) /\ IsShape(y.shape)
  <2> HIDE DEF f
  <2> QED
    BY TransposeMeans DEF f
<1>2. n \in Nat \ {0} /\ DOMAIN f = 0 .. n - 1 /\ in[1].strides = strides
  BY <1>1, NumelIs DEF Meant, AreTransposable, IsRowMajor
<1>3. \A i \in 0 .. n - 1 : f[i] = e(i)
  <2> HIDE DEF f, strides, n
  <2> QED
    BY <1>1, <1>2 DEF Moved
<1>4. Computes(CpuTranspose(in, y, a), f)
  <2>1. CpuTranspose(in, y, a) = {Store(i, Caller, e(i)) : i \in 0 .. n - 1}
    BY <1>2 DEF CpuTranspose
  <2> HIDE DEF e, f, n
  <2>2. CpuTranspose(in, y, a) = {Store(i, Caller, f[i]) : i \in 0 .. n - 1}
    BY <1>3, <2>1
  <2> QED
    BY <1>2, <2>2, EachComputes
<1>5. Computes(IspcTranspose(in, y, a), f)
  <2> DEFINE tasks == IF n > TransposeSerial \div 2 THEN TransposeTasks ELSE 1
             task == LaunchOver(n, TransposeSerial, tasks)
  <2>1. TransposeSerial \in Nat /\ tasks \in Nat \ {0}
    BY CopyAssumption
  <2>2. PICK who : Divided(task, n, who)
    <3> HIDE DEF n, tasks
    <3> QED
      BY <1>2, <2>1, LaunchDivides
  <2>3. IspcTranspose(in, y, a) = UNION {{Store(i, <<t>>, e(i)) : i \in task[t]} : t \in DOMAIN task}
    BY DEF IspcTranspose, TransposeF32
  <2> HIDE DEF e, f, n, task
  <2>4. \A t \in DOMAIN task : {Store(i, <<t>>, e(i)) : i \in task[t]} = {Store(i, <<t>>, f[i]) : i \in task[t]}
    <3>1. \A t \in DOMAIN task : \A i \in task[t] : f[i] = e(i)
      BY <1>3, <2>2 DEF Divided
    <3> QED
      BY <3>1
  <2>5. IspcTranspose(in, y, a) = UNION {{Store(i, <<t>>, f[i]) : i \in task[t]} : t \in DOMAIN task}
    <3> DEFINE A(t) == {Store(i, <<t>>, e(i)) : i \in task[t]}
               B(t) == {Store(i, <<t>>, f[i]) : i \in task[t]}
    <3>1. IspcTranspose(in, y, a) = UNION {A(t) : t \in DOMAIN task} /\ \A t \in DOMAIN task : A(t) = B(t)
      BY <2>3, <2>4
    <3> HIDE DEF A, B
    <3>2. {A(t) : t \in DOMAIN task} = {B(t) : t \in DOMAIN task}
      BY <3>1
    <3>3. IspcTranspose(in, y, a) = UNION {B(t) : t \in DOMAIN task}
      BY <3>1, <3>2
    <3> QED
      BY <3>3 DEF B
  <2>6. Computes(UNION {{Store(i, <<t>>, f[i]) : i \in task[t]} : t \in DOMAIN task}, f)
    BY <1>2, <2>2, TasksCompute
  <2> QED
    BY <2>5, <2>6
<1>6. ASSUME Rank(in[1]) <= CUDA_RANK PROVE Computes(CudaTranspose(in, y, a), f)
  <2>1. ~ Rank(in[1]) > CUDA_RANK
    <3>1. Rank(in[1]) \in Nat /\ CUDA_RANK \in Nat
      BY CopyAssumption, NumelIs DEF Rank, AreTransposable, IsRowMajor
    <3> QED
      BY <1>6, <3>1
  <2>2. CudaTranspose(in, y, a) = {Store(i, <<i>>, e(i)) : i \in Grid(n)}
    BY <1>2, <2>1 DEF CudaTranspose
  <2>3. Grid(n) = 0 .. n - 1
    <3> HIDE DEF n
    <3> QED
      BY <1>2, GridIs
  <2> HIDE DEF e, f, n
  <2>4. CudaTranspose(in, y, a) = {Store(i, <<i>>, f[i]) : i \in Grid(n)}
    BY <1>3, <2>2, <2>3
  <2> QED
    BY <1>2, <2>4, EachComputes
<1> QED
  BY <1>4, <1>5, <1>6

\* The first K axes of a shape, as a shape.
Head1(u, K) == SubSeq(u, 1, K)

\* A part of a sequence, element by element.
LEMMA PartIs ==
    ASSUME NEW u, IsShape(u), NEW a \in 1 .. Len(u) + 1, NEW b \in 0 .. Len(u), a <= b + 1
    PROVE  /\ IsShape(SubSeq(u, a, b)) /\ Len(SubSeq(u, a, b)) = (b + 1) - a
           /\ \A e \in 1 .. (b + 1) - a : SubSeq(u, a, b)[e] = u[a + e - 1]
<1>1. Len(u) \in Nat /\ u \in Seq(Nat \ {0}) /\ \A e \in 1 .. Len(u) : u[e] \in Nat \ {0}
  BY DEF IsShape
<1>2. a \in Int /\ b \in Int /\ \A e \in a .. b : u[e] \in Nat \ {0}
  BY <1>1
<1>3. /\ SubSeq(u, a, b) \in Seq(Nat \ {0})
      /\ Len(SubSeq(u, a, b)) = IF a <= b THEN b - a + 1 ELSE 0
      /\ \A e \in 1 .. b - a + 1 : SubSeq(u, a, b)[e] = u[a + e - 1]
  BY <1>2, SubSeqProperties
<1>4. b - a + 1 = (b + 1) - a
  BY <1>1
<1>5. Len(SubSeq(u, a, b)) = (b + 1) - a
  BY <1>1, <1>3
<1> QED
  BY <1>3, <1>4, <1>5 DEF IsShape

\* The first K axes are divided as they are in the whole shape, in units of what lies behind them.
LEMMA HeadSizes ==
    ASSUME NEW u, IsShape(u), NEW K \in 0 .. Len(u)
    PROVE  /\ IsShape(Head1(u, K)) /\ Len(Head1(u, K)) = K /\ \A e \in 1 .. K : Head1(u, K)[e] = u[e]
           /\ \A e \in 0 .. K : Inner(u, e) = Inner(Head1(u, K), e) * Inner(u, K)
           /\ \A e \in 0 .. K : Inner(Head1(u, K), e) = Product(SubSeq(u, e + 1, K))
           /\ Numel(u) = Numel(Head1(u, K)) * Inner(u, K)
<1> DEFINE p == Head1(u, K)
           n == Len(u)
<1>1. n \in Nat /\ u \in Seq(Nat \ {0})
  BY DEF IsShape
<1>2. IsShape(p) /\ Len(p) = K /\ \A e \in 1 .. K : p[e] = u[e]
  <2>1. 1 \in 1 .. Len(u) + 1 /\ 1 <= K + 1 /\ (K + 1) - 1 = K /\ \A e \in 1 .. K : 1 + e - 1 = e
    BY <1>1
  <2>2. /\ IsShape(SubSeq(u, 1, K)) /\ Len(SubSeq(u, 1, K)) = (K + 1) - 1
        /\ \A e \in 1 .. (K + 1) - 1 : SubSeq(u, 1, K)[e] = u[1 + e - 1]
    BY <2>1, PartIs
  <2> QED
    BY <2>1, <2>2 DEF Head1
<1>3. \A e \in 0 .. K : Inner(u, e) = Inner(p, e) * Inner(u, K)
  <2>1. CASE K = n
    <3>1. p = u
      <4>1. p \in Seq(Nat \ {0}) /\ Len(p) = Len(u) /\ \A e \in 1 .. Len(p) : p[e] = u[e]
        BY <1>2, <2>1 DEF IsShape
      <4> HIDE DEF p
      <4> QED
        BY <1>1, <4>1, SeqEqual
    <3>2. Inner(u, K) = 1 /\ \A e \in 0 .. K : Inner(u, e) \in Nat
      BY <2>1, InnerSizes
    <3> QED
      BY <3>1, <3>2
  <2>2. CASE K # n
    <3> DEFINE d == K + 1
    <3>1. d \in 1 .. Len(u) /\ d - 1 = K
      BY <1>1, <2>2
    <3>2. FrontOf(u, d) = p
      BY <3>1 DEF FrontOf, Head1
    <3>3. Inner(u, d - 1) = u[d] * Inner(u, d)
      <4> HIDE DEF d
      <4> QED
        BY <3>1, InnerSizes
    <3>4. \A e \in 0 .. d - 1 : Inner(u, e) = Inner(FrontOf(u, d), e) * (u[d] * Inner(u, d))
      <4> HIDE DEF d
      <4> QED
        BY <3>1, FrontSizes
    <3> HIDE DEF d, p
    <3> QED
      BY <3>1, <3>2, <3>3, <3>4
  <2> QED
    BY <2>1, <2>2
<1>4. ASSUME NEW e \in 0 .. K PROVE Inner(p, e) = Product(SubSeq(u, e + 1, K))
  <2> DEFINE A == SubSeq(p, e + 1, K)
             B == SubSeq(u, e + 1, K)
             m == (K + 1) - (e + 1)
  <2>1. e + 1 \in 1 .. Len(p) + 1 /\ e + 1 \in 1 .. Len(u) + 1 /\ K \in 0 .. Len(p) /\ e + 1 <= K + 1
    BY <1>1, <1>2
  <2>2. IsShape(A) /\ Len(A) = m /\ \A k \in 1 .. m : A[k] = p[(e + 1) + k - 1]
    <3> HIDE DEF p
    <3> QED
      BY <1>2, <2>1, PartIs
  <2>3. IsShape(B) /\ Len(B) = m /\ \A k \in 1 .. m : B[k] = u[(e + 1) + k - 1]
    BY <2>1, PartIs
  <2>4. \A k \in 1 .. m : (e + 1) + k - 1 \in 1 .. K
    OBVIOUS
  <2> HIDE DEF A, B, m, p
  <2>5. A \in Seq(Nat \ {0}) /\ B \in Seq(Nat \ {0}) /\ Len(A) = Len(B) /\ \A k \in 1 .. Len(A) : A[k] = B[k]
    BY <1>2, <2>2, <2>3, <2>4 DEF IsShape
  <2>6. A = B
    BY <2>5, SeqEqual
  <2> QED
    BY <1>2, <2>6 DEF Inner, A, B
<1>5. Numel(u) = Numel(p) * Inner(u, K)
  <2>1. 0 \in 0 .. K /\ Inner(u, 0) = Numel(u) /\ Inner(p, 0) = Numel(p)
    BY <1>2, InnerSizes
  <2> HIDE DEF p
  <2> QED
    BY <1>3, <2>1
<1> HIDE DEF p
<1> QED
  BY <1>2, <1>3, <1>4, <1>5 DEF p

\* Shapes that are the same behind axis K have the same sizes there.
LEMMA SameBehind ==
    ASSUME NEW s, IsShape(s), NEW u, IsShape(u), Len(u) = Len(s), NEW K \in 0 .. Len(s),
           \A e \in K + 1 .. Len(s) : u[e] = s[e], NEW d \in K .. Len(s)
    PROVE  Inner(u, d) = Inner(s, d)
<1> DEFINE n == Len(s)
           A == SubSeq(u, d + 1, n)
           B == SubSeq(s, d + 1, n)
           m == (n + 1) - (d + 1)
<1>1. n \in Nat /\ d + 1 \in 1 .. n + 1 /\ n \in 0 .. n /\ d + 1 <= n + 1
  BY DEF IsShape
<1>2. IsShape(A) /\ Len(A) = m /\ \A k \in 1 .. m : A[k] = u[(d + 1) + k - 1]
  BY <1>1, PartIs
<1>3. IsShape(B) /\ Len(B) = m /\ \A k \in 1 .. m : B[k] = s[(d + 1) + k - 1]
  BY <1>1, PartIs
<1>4. \A k \in 1 .. m : (d + 1) + k - 1 \in K + 1 .. n
  BY <1>1
<1> HIDE DEF A, B, m, n
<1>5. A \in Seq(Nat \ {0}) /\ B \in Seq(Nat \ {0}) /\ Len(A) = Len(B) /\ \A k \in 1 .. Len(A) : A[k] = B[k]
  BY <1>2, <1>3, <1>4 DEF IsShape, n
<1>6. A = B
  BY <1>5, SeqEqual
<1> QED
  BY <1>6 DEF Inner, A, B, n

\* The terms of a sum, and the sum of the first K of them; the others add up to what an index
\* leaves over when it is divided by what they span.
Tailed(q, u, K, i) ==
    \A e \in K + 1 .. Len(u) : q[e] = ((i \div Inner(u, e)) % u[e]) * Inner(u, e)

FirstOf(q, K) == [d \in 1 .. K |-> q[d]]

\* The sum of all terms.
LEMMA TailAdds ==
    ASSUME NEW u, IsShape(u), NEW K \in 0 .. Len(u), NEW i \in Nat,
           NEW q \in [1 .. Len(u) -> Int], Tailed(q, u, K, i)
    PROVE  Total(q) = Total(FirstOf(q, K)) + (i % Inner(u, K)) /\ Total(FirstOf(q, K)) \in Int
<1> DEFINE n == Len(u)
           p == [d \in 1 .. K |-> q[d]]
           r(e) == i % Inner(u, e)
<1>1. n \in Nat /\ K \in Nat /\ K <= n
  BY DEF IsShape
<1>2. p \in [1 .. K -> Int]
  BY <1>1
<1>3. PICK g : Sums(g, p, K)
  BY <1>1, <1>2, SumsExist
<1>4. /\ \A k \in 0 .. K : g[k] \in Int
      /\ g[0] = 0 /\ \A k \in 1 .. K : g[k] = g[k - 1] + q[k]
  BY <1>3 DEF Sums
<1>5. \A e \in 1 .. n : /\ ((i \div Inner(u, e)) % u[e]) * Inner(u, e) = r(e - 1) - r(e)
                        /\ r(e - 1) \in Nat /\ r(e) \in Nat
  BY AxisAdds
<1>6. Inner(u, n) = 1 /\ r(n) = 0
  <2>1. Inner(u, n) = 1
    BY InnerSizes
  <2>2. i % 1 = 0
    OBVIOUS
  <2> QED
    BY <2>1, <2>2
<1>7. \A e \in 0 .. n : r(e) \in Nat
  <2>1. ASSUME NEW e \in 0 .. n PROVE r(e) \in Nat
    <3>1. Inner(u, e) \in Nat \ {0}
      BY InnerSizes
    <3> DEFINE w == Inner(u, e)
    <3> HIDE DEF w
    <3>2. i % w \in 0 .. w - 1
      BY <3>1, BlockParts DEF w
    <3>3. i % w \in Nat
      BY <3>1, <3>2 DEF w
    <3> QED
      BY <3>3 DEF w
  <2> HIDE DEF r
  <2> QED
    BY <2>1
<1> DEFINE h == [e \in 0 .. n |-> IF e <= K THEN g[e] ELSE (g[K] + r(K)) - r(e)]
<1> HIDE DEF r, p
<1>8. \A e \in 0 .. n : h[e] \in Int
  <2>1. K \in 0 .. K /\ K \in 0 .. n
    BY <1>1
  <2>2. g[K] \in Int /\ r(K) \in Nat
    BY <1>4, <1>7, <2>1
  <2>3. ASSUME NEW e \in 0 .. n PROVE h[e] \in Int
    <3>1. CASE e <= K
      <4>1. h[e] = g[e] /\ e \in 0 .. K
        BY <1>1, <3>1
      <4> QED
        BY <1>4, <4>1
    <3>2. CASE ~ e <= K
      <4>1. h[e] = (g[K] + r(K)) - r(e)
        BY <3>2
      <4> QED
        BY <1>7, <2>2, <4>1
    <3> QED
      BY <3>1, <3>2
  <2> HIDE DEF h
  <2> QED
    BY <2>3
<1>9. h[0] = 0
  BY <1>1, <1>4
<1>10. ASSUME NEW e \in 1 .. n PROVE h[e] = h[e - 1] + q[e]
  <2>1. e \in 0 .. n /\ e - 1 \in 0 .. n /\ K \in 0 .. n /\ K \in 0 .. K
    BY <1>1
  <2>2. CASE e <= K
    <3>1. h[e] = g[e] /\ h[e - 1] = g[e - 1] /\ e \in 1 .. K
      BY <1>1, <2>1, <2>2
    <3> HIDE DEF h
    <3> QED
      BY <1>4, <3>1
  <2>3. CASE ~ e <= K
    <3>1. q[e] = r(e - 1) - r(e)
      <4>1. e \in K + 1 .. n
        BY <1>1, <2>3
      <4> QED
        BY <1>5, <4>1 DEF Tailed
    <3>2. h[e] = (g[K] + r(K)) - r(e)
      BY <2>1, <2>3
    <3>3. h[e - 1] = (g[K] + r(K)) - r(e - 1)
      <4>1. CASE e - 1 = K
        <5>1. h[e - 1] = g[K]
          BY <1>1, <2>1, <4>1
        <5> HIDE DEF h
        <5>2. g[K] \in Int /\ r(K) \in Nat
          BY <1>4, <1>7, <2>1
        <5>3. r(e - 1) = r(K)
          BY <4>1
        <5> QED
          BY <5>1, <5>2, <5>3
      <4>2. CASE e - 1 # K
        <5>1. ~ e - 1 <= K
          BY <1>1, <2>3, <4>2
        <5> QED
          BY <2>1, <5>1
      <4> QED
        BY <4>1, <4>2
    <3>4. g[K] \in Int /\ r(K) \in Nat /\ r(e) \in Nat /\ r(e - 1) \in Nat
      BY <1>4, <1>7, <2>1
    <3> HIDE DEF h
    <3> QED
      BY <3>1, <3>2, <3>3, <3>4
  <2> QED
    BY <2>2, <2>3
<1>11. h[n] = g[K] + r(K) /\ g[K] \in Int
  <2>1. n \in 0 .. n /\ K \in 0 .. K /\ K \in 0 .. n
    BY <1>1
  <2>2. g[K] \in Int /\ r(K) \in Nat
    BY <1>4, <1>7, <2>1
  <2>3. CASE n <= K
    <3>1. n = K
      BY <1>1, <2>3
    <3>2. h[n] = g[K] /\ r(K) = 0
      BY <1>6, <2>1, <3>1 DEF r
    <3> HIDE DEF h
    <3> QED
      BY <2>2, <3>2
  <2>4. CASE ~ n <= K
    <3>1. h[n] = (g[K] + r(K)) - r(n)
      BY <2>1, <2>4
    <3> HIDE DEF h
    <3> QED
      BY <1>6, <2>2, <3>1
  <2> QED
    BY <2>2, <2>3, <2>4
<1>12. h \in [0 .. n -> Int]
  BY <1>8
<1> HIDE DEF h
<1>13. Sums(h, q, n)
  BY <1>9, <1>10, <1>12 DEF Sums
<1>14. Total(q) = h[n]
  BY <1>1, <1>13, TotalIs
<1>15. Total(p) = g[K]
  BY <1>1, <1>2, <1>3, TotalIs
<1> QED
  BY <1>11, <1>14, <1>15 DEF p, r, FirstOf

\* The operand of Slice, its attributes, and the result it has.
AreSliceable(in, y, a) ==
    /\ IsRowMajor(in[1]) /\ Len(in[1].shape) # 0
    /\ a.begins \in Seq(Int) /\ a.ends \in Seq(Int) /\ a.strides \in Seq(Int) /\ ValidSlice(in[1], a)
    /\ y.shape = SliceShape(in[1], a)

\* What a slice is along an axis, and that it leaves an axis as it is.
IsCut(c, size, new) ==
    /\ c.b \in Nat /\ c.s \in Nat \ {0} /\ new \in Nat \ {0}
    /\ c = [b |-> 0, e |-> size, s |-> 1] => new = size
    /\ c.s = 1 => new = c.e - c.b
IsUncut(c, size, new) == c.b = 0 /\ c.s = 1 /\ new = size

\* The axes of an accepted slice.
LEMMA CutsAre ==
    ASSUME NEW in, NEW y, NEW a, AreSliceable(in, y, a)
    PROVE  /\ \A d \in 1 .. Len(in[1].shape) : IsCut(SliceAxis(a, in[1].shape, d), in[1].shape[d], y.shape[d])
           /\ IsShape(y.shape) /\ Len(y.shape) = Len(in[1].shape)
<1> DEFINE s == in[1].shape
           n == Len(s)
           u == y.shape
           c(d) == SliceAxis(a, s, d)
<1>1. IsShape(s) /\ n \in Nat /\ DOMAIN s = 1 .. n /\ ValidSlice(in[1], a)
  BY NumelIs DEF AreSliceable, IsRowMajor
<1>2. ASSUME NEW d \in 1 .. n
      PROVE  /\ c(d).b \in Nat /\ c(d).e \in Nat /\ c(d).b < c(d).e /\ c(d).s \in Nat \ {0}
             /\ ~ d <= Len(a.begins) => c(d).b = 0 /\ c(d).e = s[d] /\ c(d).s = 1
  <2>1. s[d] \in Nat \ {0}
    BY <1>1, InnerSizes
  <2>2. /\ Len(a.begins) \in Nat /\ DOMAIN a.begins = 1 .. Len(a.begins) /\ Len(a.ends) = Len(a.begins)
        /\ DOMAIN a.ends = 1 .. Len(a.begins) /\ Len(a.strides) \in Nat /\ DOMAIN a.strides = 1 .. Len(a.strides)
        /\ \A k \in 1 .. Len(a.begins) : a.begins[k] \in Int /\ a.ends[k] \in Int
        /\ \A k \in 1 .. Len(a.strides) : a.strides[k] \in Int
        /\ Len(a.strides) = 0 \/ Len(a.strides) = Len(a.begins)
    <3>1. a.begins \in Seq(Int) /\ a.ends \in Seq(Int) /\ a.strides \in Seq(Int)
      BY DEF AreSliceable
    <3>2. Len(a.ends) = Len(a.begins) /\ (a.strides = <<>> \/ Len(a.strides) = Len(a.begins))
      BY <1>1 DEF ValidSlice
    <3>3. Len(<<>>) = 0
      OBVIOUS
    <3>4. Len(a.strides) = 0 \/ Len(a.strides) = Len(a.begins)
      BY <3>2, <3>3
    <3>5. ASSUME NEW q \in Seq(Int)
          PROVE  Len(q) \in Nat /\ DOMAIN q = 1 .. Len(q) /\ \A k \in 1 .. Len(q) : q[k] \in Int
      OBVIOUS
    <3>6. /\ Len(a.begins) \in Nat /\ DOMAIN a.begins = 1 .. Len(a.begins)
          /\ \A k \in 1 .. Len(a.begins) : a.begins[k] \in Int
      BY <3>1, <3>5
    <3>7. DOMAIN a.ends = 1 .. Len(a.ends) /\ \A k \in 1 .. Len(a.ends) : a.ends[k] \in Int
      BY <3>1, <3>5
    <3>8. /\ Len(a.strides) \in Nat /\ DOMAIN a.strides = 1 .. Len(a.strides)
          /\ \A k \in 1 .. Len(a.strides) : a.strides[k] \in Int
      BY <3>1, <3>5
    <3>9. \A k \in 1 .. Len(a.begins) : a.begins[k] \in Int /\ a.ends[k] \in Int
      BY <3>2, <3>6, <3>7
    <3>10. DOMAIN a.ends = 1 .. Len(a.begins)
      BY <3>2, <3>7
    <3> QED
      BY <3>2, <3>4, <3>6, <3>8, <3>9, <3>10
  <2>3. /\ c(d).b = IF d <= Len(a.begins) THEN Bound(a.begins[d], s[d]) ELSE 0
        /\ c(d).e = IF d <= Len(a.begins) THEN Bound(a.ends[d], s[d]) ELSE s[d]
        /\ c(d).s = IF d <= Len(a.strides) /\ a.strides[d] > 0 THEN a.strides[d] ELSE 1
    BY DEF SliceAxis
  <2>4. d <= Len(a.begins) => c(d).b < c(d).e
    <3> HIDE DEF c
    <3>1. \A k \in DOMAIN a.begins : c(k).b < c(k).e
      BY <1>1 DEF ValidSlice, c
    <3>2. d <= Len(a.begins) => d \in DOMAIN a.begins
      BY <1>1, <2>2
    <3> QED
      BY <3>1, <3>2
  <2> HIDE DEF c, s
  <2>5. \A x \in Int : Bound(x, s[d]) \in Nat
    BY <2>1 DEF Bound, Greatest, Least
  <2>6. CASE d <= Len(a.begins)
    <3>1. c(d).b \in Nat /\ c(d).e \in Nat
      <4>1. d \in 1 .. Len(a.begins)
        BY <2>2, <2>6
      <4> QED
        BY <2>2, <2>3, <2>5, <2>6, <4>1
    <3>2. c(d).s \in Nat \ {0}
      <4>1. CASE d <= Len(a.strides) /\ a.strides[d] > 0
        <5>1. d \in 1 .. Len(a.strides)
          BY <2>2, <4>1
        <5> QED
          BY <2>2, <2>3, <4>1, <5>1
      <4>2. CASE ~ (d <= Len(a.strides) /\ a.strides[d] > 0)
        BY <2>3, <4>2
      <4> QED
        BY <4>1, <4>2
    <3> QED
      BY <2>4, <2>6, <3>1, <3>2
  <2>7. CASE ~ d <= Len(a.begins)
    <3>1. ~ d <= Len(a.strides)
      BY <2>2, <2>7
    <3> QED
      BY <2>1, <2>3, <2>7, <3>1
  <2> QED
    BY <2>6, <2>7
<1>3. ASSUME NEW d \in 1 .. n
      PROVE  u[d] = IF d <= Len(a.begins) THEN CeilDiv(c(d).e - c(d).b, c(d).s) ELSE s[d]
  <2>1. u[d] = IF d <= Len(a.begins) /\ c(d).e > c(d).b THEN CeilDiv(c(d).e - c(d).b, c(d).s)
               ELSE IF d <= Len(a.begins) THEN 0 ELSE s[d]
    BY <1>1 DEF AreSliceable, SliceShape, Dim
  <2> HIDE DEF c
  <2> QED
    BY <1>2, <2>1
<1>4. ASSUME NEW d \in 1 .. n PROVE IsCut(c(d), s[d], u[d])
  <2> DEFINE k == c(d).e - c(d).b
             t == c(d).s
  <2>1. k \in Nat \ {0} /\ t \in Nat \ {0} /\ c(d).b \in Nat
    <3> HIDE DEF c
    <3> QED
      BY <1>2
  <2>2. CeilDiv(k, t) \in Nat \ {0} /\ (t = 1 => CeilDiv(k, t) = k)
    <3> HIDE DEF k, t
    <3>1. k + t - 1 \in Nat /\ t <= k + t - 1
      BY <2>1
    <3> DEFINE x == k + t - 1
    <3> HIDE DEF x
    <3>2. x \div t \in Nat /\ x % t \in 0 .. t - 1 /\ x = (x \div t) * t + (x % t)
      BY <2>1, <3>1, BlockParts DEF x
    <3>3. x \div t # 0
      BY <2>1, <3>1, <3>2 DEF x
    <3>4. CASE t = 1
      <4>1. x = k /\ k \div 1 = k
        BY <2>1, <3>4 DEF x
      <4> QED
        BY <2>1, <3>4, <4>1 DEF CeilDiv, x
    <3>5. CASE t # 1
      BY <3>2, <3>3, <3>5 DEF CeilDiv, x
    <3> QED
      BY <3>4, <3>5
  <2>3. s[d] \in Nat \ {0}
    BY <1>1, InnerSizes
  <2>4. c(d) = [b |-> 0, e |-> s[d], s |-> 1] => k = s[d] /\ t = 1
    <3>1. \A r : r = [b |-> 0, e |-> s[d], s |-> 1] => r.b = 0 /\ r.e = s[d] /\ r.s = 1
      OBVIOUS
    <3> HIDE DEF c, s
    <3> QED
      BY <2>3, <3>1
  <2>5. CASE d <= Len(a.begins)
    <3>1. u[d] = CeilDiv(k, t)
      BY <1>3, <2>5
    <3> HIDE DEF k, t, c
    <3>2. u[d] \in Nat \ {0} /\ (t = 1 => u[d] = k) /\ (c(d) = [b |-> 0, e |-> s[d], s |-> 1] => u[d] = s[d])
      BY <2>2, <2>4, <3>1
    <3> QED
      BY <2>1, <3>2 DEF IsCut, k, t
  <2>6. CASE ~ d <= Len(a.begins)
    <3>1. u[d] = s[d]
      BY <1>3, <2>6
    <3>2. k = s[d] /\ t = 1
      <4>1. c(d).b = 0 /\ c(d).e = s[d] /\ c(d).s = 1
        BY <1>2, <2>6
      <4> HIDE DEF c, s
      <4> QED
        BY <2>3, <4>1
    <3> HIDE DEF k, t, c
    <3> QED
      BY <2>1, <2>3, <3>1, <3>2 DEF IsCut, k, t
  <2> QED
    BY <2>5, <2>6
<1>5. IsShape(u) /\ Len(u) = n
  <2>1. DOMAIN u = 1 .. n /\ u = [d \in 1 .. n |-> u[d]]
    BY <1>1 DEF AreSliceable, SliceShape
  <2>2. \A d \in 1 .. n : u[d] \in Nat \ {0}
    BY <1>4 DEF IsCut
  <2> HIDE DEF u, n
  <2>3. u \in [1 .. n -> Nat \ {0}]
    BY <2>1, <2>2
  <2> QED
    BY <1>1, <2>3 DEF IsShape
<1> QED
  BY <1>4, <1>5

\* Behind axis K every axis is left as it is.
CutUpTo(in, y, a, K) ==
    /\ K \in 0 .. Len(in[1].shape)
    /\ \A d \in K + 1 .. Len(in[1].shape) : IsUncut(SliceAxis(a, in[1].shape, d), in[1].shape[d], y.shape[d])

\* What Slice means when the axes behind the K-th are copied at once.
Sliced(f, in, y, a, K, block) ==
    \A i \in DOMAIN f : /\ f[i] = Elem(1, Taken(in[1], y, a, K, i \div block) + (i % block))
                        /\ Taken(in[1], y, a, K, i \div block) \in Int

\* The coordinates lead where the kernels find a block.
LEMMA SliceMeans ==
    ASSUME NEW in, NEW y, NEW a, AreSliceable(in, y, a), NEW K, CutUpTo(in, y, a, K), NEW data,
           NEW f, f = Meant("Slice", in, a, data, y.shape)
    PROVE  /\ Sliced(f, in, y, a, K, Inner(in[1].shape, K)) /\ Inner(in[1].shape, K) \in Nat \ {0}
           /\ Product(SubSeq(y.shape, 1, K)) \in Nat \ {0}
           /\ Numel(y.shape) = Product(SubSeq(y.shape, 1, K)) * Inner(in[1].shape, K)
           /\ Product(SubSeq(y.shape, 1, K)) = IF K = 0 THEN 1 ELSE Outer(y.shape, K) * y.shape[K]
<1> DEFINE s == in[1].shape
           u == y.shape
           n == Len(s)
           cut(d) == SliceAxis(a, s, d)
           w == Inner(s, K)
           p == Head1(u, K)
<1>1. /\ IsShape(s) /\ n \in Nat /\ DOMAIN s = 1 .. n /\ in[1].strides = DefaultStrides(s) /\ K \in 0 .. n
      /\ IsShape(u) /\ Len(u) = n /\ \A d \in 1 .. n : IsCut(cut(d), s[d], u[d])
      /\ \A d \in K + 1 .. n : IsUncut(cut(d), s[d], u[d])
  <2>1. IsShape(s) /\ in[1].strides = DefaultStrides(s)
    BY DEF AreSliceable, IsRowMajor
  <2>2. n \in Nat /\ DOMAIN s = 1 .. n
    BY <2>1, NumelIs
  <2> QED
    BY <2>1, <2>2, CutsAre DEF CutUpTo
<1>2. \A d \in K .. n : Inner(u, d) = Inner(s, d)
  <2>1. \A e \in K + 1 .. n : u[e] = s[e]
    BY <1>1 DEF IsUncut
  <2> HIDE DEF u, s
  <2> QED
    BY <1>1, <2>1, SameBehind DEF n
<1>3. /\ IsShape(p) /\ Len(p) = K /\ \A e \in 1 .. K : p[e] = u[e]
      /\ \A e \in 0 .. K : Inner(u, e) = Inner(p, e) * Inner(u, K)
      /\ \A e \in 0 .. K : Inner(p, e) = Product(SubSeq(u, e + 1, K))
      /\ Numel(u) = Numel(p) * Inner(u, K)
  <2> HIDE DEF u
  <2> QED
    BY <1>1, HeadSizes
<1>4. Inner(u, K) = w /\ w \in Nat \ {0} /\ Numel(p) \in Nat \ {0} /\ Numel(p) = Product(SubSeq(u, 1, K))
  <2>1. K \in K .. n /\ K \in 0 .. Len(s)
    BY <1>1
  <2>2. Inner(u, K) = w
    BY <1>2, <2>1
  <2>3. w \in Nat \ {0}
    BY <1>1, <2>1, InnerSizes
  <2>4. Numel(p) \in Nat \ {0}
    BY <1>3, NumelIs
  <2> QED
    BY <2>2, <2>3, <2>4 DEF Numel, Head1
<1>5. ASSUME NEW i \in 0 .. Numel(u) - 1
      PROVE  /\ Meaning("Slice", in, a, data, Coordinates(i, u)) = Elem(1, Taken(in[1], y, a, K, i \div w) + (i % w))
             /\ Taken(in[1], y, a, K, i \div w) \in Int
  <2> DEFINE c == Coordinates(i, u)
             v == [d \in DOMAIN c |-> cut(d).b + c[d] * cut(d).s]
             q == [d \in DOMAIN v |-> v[d] * DefaultStrides(s)[d]]
  <2>1. i \in Nat
    BY <1>1, NumelIs
  <2>2. DOMAIN c = 1 .. n /\ \A d \in 1 .. n : c[d] = (i \div Inner(u, d)) % u[d] /\ c[d] \in Nat
    <3>1. DOMAIN c = 1 .. Len(u) /\ c \in Seq(Nat) /\ \A d \in 1 .. Len(u) : c[d] = (i \div Inner(u, d)) % u[d]
      BY <1>1, <2>1, CoordinatesAre
    <3> HIDE DEF c
    <3> QED
      BY <1>1, <3>1
  <2>3. DOMAIN q = 1 .. n /\ q = [d \in 1 .. n |-> q[d]]
    BY <2>2
  <2>4. ASSUME NEW d \in 1 .. n
        PROVE  /\ q[d] = (cut(d).b + c[d] * cut(d).s) * Inner(s, d) /\ q[d] \in Int
               /\ cut(d).b \in Nat /\ cut(d).s \in Nat /\ Inner(s, d) \in Nat
    <3>1. q[d] = (cut(d).b + c[d] * cut(d).s) * DefaultStrides(s)[d]
      BY <2>2
    <3>2. DefaultStrides(s)[d] = Inner(s, d) /\ Inner(s, d) \in Nat
      <4>1. d \in 0 .. Len(s)
        BY <1>1
      <4> QED
        BY <1>1, <4>1, InnerSizes
    <3>3. cut(d).b \in Nat /\ cut(d).s \in Nat
      BY <1>1 DEF IsCut
    <3> DEFINE z == Inner(s, d)
               g == cut(d).b
               t == cut(d).s
               e == c[d]
    <3>4. e \in Nat
      BY <2>2
    <3> HIDE DEF z, g, t, e
    <3>5. (g + e * t) * z \in Int
      <4>1. e * t \in Nat
        BY <3>3, <3>4 DEF t
      <4> DEFINE k == e * t
      <4> HIDE DEF k
      <4>2. (g + k) * z \in Int
        BY <3>2, <3>3, <4>1 DEF z, g, k
      <4> QED
        BY <4>2 DEF k
    <3> HIDE DEF q
    <3> QED
      BY <3>1, <3>2, <3>3, <3>5 DEF z, g, t, e
  <2> HIDE DEF q
  <2>5. q \in [1 .. n -> Int]
    <3>1. \A d \in 1 .. n : q[d] \in Int
      BY <2>4
    <3> QED
      BY <2>3, <3>1
  <2>6. Tailed(q, u, K, i)
    <3>1. ASSUME NEW e \in K + 1 .. n PROVE q[e] = ((i \div Inner(u, e)) % u[e]) * Inner(u, e)
      <4>1. e \in 1 .. n /\ e \in K .. n
        BY <1>1
      <4>2. cut(e).b = 0 /\ cut(e).s = 1 /\ Inner(u, e) = Inner(s, e)
        BY <1>1, <1>2, <4>1 DEF IsUncut
      <4>3. q[e] = (cut(e).b + c[e] * cut(e).s) * Inner(s, e) /\ c[e] \in Nat /\ c[e] = (i \div Inner(u, e)) % u[e]
        BY <2>2, <2>4, <4>1
      <4> HIDE DEF cut, c, s, u
      <4>4. cut(e).b + c[e] * cut(e).s = c[e]
        BY <4>2, <4>3
      <4> QED
        BY <4>2, <4>3, <4>4
    <3> HIDE DEF n
    <3> QED
      BY <1>1, <3>1 DEF Tailed
  <2>7. Total(q) = Total(FirstOf(q, K)) + (i % w) /\ Total(FirstOf(q, K)) \in Int
    <3>1. q \in [1 .. Len(u) -> Int] /\ K \in 0 .. Len(u) /\ IsShape(u)
      BY <1>1, <2>5
    <3> HIDE DEF u, w
    <3>2. Total(q) = Total(FirstOf(q, K)) + (i % Inner(u, K)) /\ Total(FirstOf(q, K)) \in Int
      BY <2>1, <2>6, <3>1, TailAdds
    <3> QED
      BY <1>4, <3>2
  <2>8. Taken(in[1], y, a, K, i \div w) = Total(FirstOf(q, K))
    <3> DEFINE o == i \div w
               t(d) == (cut(d).b + ((o \div Product(SubSeq(u, d + 1, K))) % u[d]) * cut(d).s) * Inner(s, d)
    <3>1. Taken(in[1], y, a, K, o) = Total([d \in 1 .. K |-> t(d)])
      BY DEF Taken, Dim
    <3>2. ASSUME NEW d \in 1 .. K PROVE t(d) = q[d]
      <4>1. d \in 1 .. n /\ d \in 0 .. K /\ d \in 0 .. Len(p)
        BY <1>1, <1>3
      <4>2. Inner(u, d) = Inner(p, d) * w /\ Inner(p, d) = Product(SubSeq(u, d + 1, K))
        BY <1>3, <1>4, <4>1
      <4>3. Inner(p, d) \in Nat \ {0}
        BY <1>3, <4>1, InnerSizes
      <4>4. i \div Inner(u, d) = o \div Product(SubSeq(u, d + 1, K))
        <5> DEFINE x == Inner(p, d)
        <5> HIDE DEF x, w
        <5>1. i \div (x * w) = (i \div w) \div x
          BY <1>4, <2>1, <4>3, MixedRadix DEF x
        <5> QED
          BY <4>2, <5>1 DEF x
      <4>5. c[d] = (o \div Product(SubSeq(u, d + 1, K))) % u[d]
        BY <2>2, <4>1, <4>4
      <4>6. q[d] = (cut(d).b + c[d] * cut(d).s) * Inner(s, d)
        BY <2>4, <4>1
      <4> HIDE DEF c, o, cut, u, s
      <4> QED
        BY <4>5, <4>6
    <3> HIDE DEF t, o
    <3>3. [d \in 1 .. K |-> t(d)] = [d \in 1 .. K |-> q[d]]
      BY <3>2
    <3> QED
      BY <3>1, <3>3 DEF o, FirstOf
  <2>9. Meaning("Slice", in, a, data, c) = Of(in, 1, v)
    BY DEF Meaning, Elementwise, Unary, Binary
  <2>10. Offset(v, DefaultStrides(s)) = Total(q)
    BY DEF Offset, q
  <2> HIDE DEF c, v
  <2>11. Of(in, 1, v) = Elem(1, Total(q))
    BY <1>1, <2>10 DEF Of
  <2> QED
    BY <2>7, <2>8, <2>9, <2>11 DEF c
<1>6. DOMAIN f = 0 .. Numel(u) - 1 /\ \A i \in 0 .. Numel(u) - 1 : f[i] = Meaning("Slice", in, a, data, Coordinates(i, u))
  BY DEF Meant
<1>7. Sliced(f, in, y, a, K, w)
  <2> HIDE DEF u, w
  <2> QED
    BY <1>5, <1>6 DEF Sliced
<1>8. Numel(p) = IF K = 0 THEN 1 ELSE Outer(u, K) * u[K]
  <2>1. CASE K = 0
    <3>1. Inner(p, Len(p)) = 1 /\ Inner(p, 0) = Numel(p)
      BY <1>3, InnerSizes
    <3> QED
      BY <1>3, <2>1, <3>1
  <2>2. CASE K # 0
    <3>1. K \in 1 .. Len(p) /\ K \in 1 .. Len(u)
      BY <1>1, <1>3, <2>2
    <3>2. Numel(p) = Outer(p, K) * (p[K] * Inner(p, K)) /\ Inner(p, K) = 1 /\ p[K] \in Nat \ {0} /\ p[K] = u[K]
      <4>1. Numel(p) = Outer(p, K) * (p[K] * Inner(p, K))
        BY <1>3, <3>1, FrontSizes
      <4>2. Inner(p, K) = 1 /\ p[K] \in Nat \ {0} /\ p[K] = u[K]
        BY <1>3, <3>1, InnerSizes
      <4> QED
        BY <4>1, <4>2
    <3>3. Outer(p, K) = Outer(u, K)
      <4> DEFINE A == SubSeq(p, 1, K - 1)
                 B == SubSeq(u, 1, K - 1)
      <4>0. K - 1 \in 0 .. Len(p) /\ K - 1 \in 0 .. Len(u)
        BY <3>1
      <4>1. IsShape(Head1(p, K - 1)) /\ Len(Head1(p, K - 1)) = K - 1 /\ \A e \in 1 .. K - 1 : Head1(p, K - 1)[e] = p[e]
        BY <1>3, <4>0, HeadSizes
      <4>2. IsShape(Head1(u, K - 1)) /\ Len(Head1(u, K - 1)) = K - 1 /\ \A e \in 1 .. K - 1 : Head1(u, K - 1)[e] = u[e]
        BY <1>1, <4>0, HeadSizes
      <4>3. A = Head1(p, K - 1) /\ B = Head1(u, K - 1)
        BY DEF Head1
      <4>4. \A e \in 1 .. K - 1 : p[e] = u[e]
        BY <1>1, <1>3
      <4> HIDE DEF A, B, p, u
      <4>5. A \in Seq(Nat \ {0}) /\ B \in Seq(Nat \ {0}) /\ Len(A) = Len(B) /\ \A e \in 1 .. Len(A) : A[e] = B[e]
        BY <4>1, <4>2, <4>3, <4>4 DEF IsShape
      <4>6. A = B
        BY <4>5, SeqEqual
      <4> QED
        BY <4>6 DEF Outer, A, B
    <3>4. u[K] * 1 = u[K]
      BY <3>2
    <3> HIDE DEF p, u
    <3> QED
      BY <2>2, <3>2, <3>3, <3>4
  <2> QED
    BY <2>1, <2>2
<1> HIDE DEF p, w, u
<1> QED
  BY <1>3, <1>4, <1>7, <1>8 DEF u, w

\* Blocks of w elements, each copied from a place of its own.
BlockWise(f, from, w) == \A i \in DOMAIN f : f[i] = Elem(1, from[i \div w] + (i % w))
BlockFrom(o, from, w) == Memcpy(1, o * w, from[o], w)

\* Copies of all blocks.
LEMMA BlocksAreCopied ==
    ASSUME NEW m \in Nat, NEW w \in Nat \ {0}, NEW from, NEW f, DOMAIN f = 0 .. m * w - 1, BlockWise(f, from, w)
    PROVE  Computes(UNION {BlockFrom(o, from, w) : o \in 0 .. m - 1}, f)
<1> DEFINE W == UNION {BlockFrom(o, from, w) : o \in 0 .. m - 1}
           caller == [i \in DOMAIN f |-> Caller]
<1>1. ASSUME NEW o \in 0 .. m - 1, NEW j \in 0 .. w - 1
      PROVE  o * w + j \in DOMAIN f /\ f[o * w + j] = Elem(1, from[o] + j)
  <2> DEFINE i == o * w + j
  <2>0. o \in Nat /\ o < m /\ w \in Nat \ {0} /\ j \in 0 .. w - 1 /\ m \in Nat
    OBVIOUS
  <2>1. i \in Nat /\ i < m * w /\ i \div w = o /\ i % w = j
    <3>1. i \in Nat /\ i \div w = o /\ i % w = j
      BY <2>0, RowAndColumn
    <3>2. \A k \in Nat : o < k => o * w + j < k * w
      BY <2>0, RowAndColumn
    <3>3. i < m * w
      BY <2>0, <3>2
    <3> QED
      BY <3>1, <3>3
  <2>2. m * w \in Nat
    OBVIOUS
  <2> HIDE DEF i
  <2>3. i \in DOMAIN f
    BY <2>1, <2>2
  <2> QED
    BY <2>1, <2>3 DEF BlockWise, i
<1>2. ASSUME NEW i \in DOMAIN f PROVE \E o \in 0 .. m - 1, j \in 0 .. w - 1 : i = o * w + j
  <2>1. m * w \in Nat /\ i \in Nat /\ i < m * w
    OBVIOUS
  <2>2. i \div w \in 0 .. m - 1 /\ i % w \in 0 .. w - 1 /\ i = (i \div w) * w + (i % w)
    BY <2>1, QuotientFits, BlockParts
  <2> QED
    BY <2>2
<1>3. ASSUME NEW x \in W PROVE \E i \in DOMAIN f : x = Store(i, caller[i], f[i])
  <2>1. PICK o \in 0 .. m - 1 : x \in BlockFrom(o, from, w)
    BY Zenon
  <2>2. PICK j \in 0 .. w - 1 : x = Store(o * w + j, Caller, Elem(1, from[o] + j))
    BY <2>1 DEF BlockFrom, Memcpy
  <2> DEFINE i == o * w + j
  <2>3. i \in DOMAIN f /\ f[i] = Elem(1, from[o] + j) /\ x = Store(i, Caller, Elem(1, from[o] + j))
    BY <1>1, <2>2
  <2> HIDE DEF i
  <2> QED
    BY <2>3
<1>4. ASSUME NEW i \in DOMAIN f PROVE Store(i, caller[i], f[i]) \in W
  <2>1. PICK o \in 0 .. m - 1, j \in 0 .. w - 1 : i = o * w + j
    BY <1>2
  <2>2. f[i] = Elem(1, from[o] + j)
    BY <1>1, <2>1
  <2>3. Store(i, Caller, f[i]) \in BlockFrom(o, from, w)
    BY <2>1, <2>2 DEF BlockFrom, Memcpy
  <2>4. BlockFrom(o, from, w) \in {BlockFrom(b, from, w) : b \in 0 .. m - 1}
    OBVIOUS
  <2>5. Store(i, Caller, f[i]) \in UNION {BlockFrom(b, from, w) : b \in 0 .. m - 1}
    BY <2>3, <2>4, Zenon
  <2> QED
    BY <2>5
<1> HIDE DEF W, caller
<1>5. Computes(W, f)
  BY <1>3, <1>4, StoresOnce
<1> QED
  BY <1>5 DEF W

\* A whole copy from some place on.
FromOn(f, base) == \A i \in DOMAIN f : f[i] = Elem(1, base + i)

\* One copy of everything.
LEMMA OneCopy ==
    ASSUME NEW n \in Nat, NEW f, DOMAIN f = 0 .. n - 1, NEW base, FromOn(f, base)
    PROVE  Computes(Memcpy(1, 0, base, n), f)
<1>1. \A i \in 0 .. n - 1 : Store(0 + i, Caller, Elem(1, base + i)) = Store(i, Caller, f[i])
  <2>1. \A i \in 0 .. n - 1 : 0 + i = i
    OBVIOUS
  <2> QED
    BY <2>1 DEF FromOn
<1>2. Memcpy(1, 0, base, n) = {Store(i, Caller, f[i]) : i \in 0 .. n - 1}
  BY <1>1 DEF Memcpy
<1> QED
  BY <1>2, EachComputes

\* A slice of no axis, or of the first axis without leaving out rows, is a copy.
LEMMA RowsAreCopied ==
    ASSUME NEW in, NEW y, NEW a, AreSliceable(in, y, a), NEW data,
           NEW f, f = Meant("Slice", in, a, data, y.shape)
    PROVE  /\ CutUpTo(in, y, a, 0) => FromOn(f, 0)
           /\ CutUpTo(in, y, a, 1) /\ SliceAxis(a, in[1].shape, 1).s = 1 =>
                FromOn(f, SliceAxis(a, in[1].shape, 1).b * Inner(in[1].shape, 1))
                  /\ Numel(y.shape) = y.shape[1] * Inner(in[1].shape, 1)
<1> DEFINE s == in[1].shape
           u == y.shape
           cut == SliceAxis(a, s, 1)
           w == Inner(s, 1)
<1>0. DOMAIN f = 0 .. Numel(u) - 1 /\ Numel(u) \in Nat /\ IsShape(u) /\ Len(u) = Len(s) /\ Len(u) # 0 /\ Len(u) \in Nat
  BY CutsAre, NumelIs DEF Meant, AreSliceable
<1>1. ASSUME CutUpTo(in, y, a, 0) PROVE FromOn(f, 0)
  <2> DEFINE v == Inner(s, 0)
  <2>1. Sliced(f, in, y, a, 0, v) /\ v \in Nat \ {0} /\ Numel(u) = Product(SubSeq(u, 1, 0)) * v
        /\ Product(SubSeq(u, 1, 0)) = 1
    BY <1>1, SliceMeans
  <2>2. Numel(u) = v
    BY <2>1
  <2>3. ASSUME NEW o PROVE Taken(in[1], y, a, 0, o) = 0
    <3> DEFINE t == [d \in 1 .. 0 |->
                       LET ax == SliceAxis(a, s, d)
                           od == (o \div Product(SubSeq(u, d + 1, 0))) % Dim(y, d)
                       IN  (ax.b + od * ax.s) * Inner(s, d)]
               h == [k \in 0 .. 0 |-> 0]
    <3>1. t \in [1 .. 0 -> Int] /\ Sums(h, t, 0) /\ h[0] = 0
      <4>1. t \in [1 .. 0 -> Int]
        OBVIOUS
      <4>2. Sums(h, t, 0)
        BY DEF Sums
      <4> QED
        BY <4>1, <4>2
    <3>2. Taken(in[1], y, a, 0, o) = Total(t)
      BY DEF Taken
    <3> HIDE DEF t, h
    <3> QED
      BY <3>1, <3>2, TotalIs
  <2> HIDE DEF v
  <2>4. ASSUME NEW i \in DOMAIN f PROVE f[i] = Elem(1, 0 + i)
    <3>1. i \in Nat /\ i % v = i
      BY <1>0, <2>1, <2>2
    <3>2. f[i] = Elem(1, Taken(in[1], y, a, 0, i \div v) + (i % v))
      BY <2>1 DEF Sliced
    <3> QED
      BY <2>3, <3>1, <3>2
  <2> QED
    BY <2>4 DEF FromOn
<1>2. ASSUME CutUpTo(in, y, a, 1), cut.s = 1
      PROVE  FromOn(f, cut.b * w) /\ Numel(u) = u[1] * w
  <2>1. Sliced(f, in, y, a, 1, w) /\ w \in Nat \ {0} /\ Numel(u) = Product(SubSeq(u, 1, 1)) * w
        /\ Product(SubSeq(u, 1, 1)) = Outer(u, 1) * u[1]
    BY <1>2, SliceMeans
  <2>2. 1 \in 1 .. Len(u) /\ 1 \in 0 .. Len(u)
    BY <1>0
  <2>3. Outer(u, 1) = 1
    <3>1. IsShape(FrontOf(u, 1)) /\ Len(FrontOf(u, 1)) = 0 /\ Numel(FrontOf(u, 1)) = Outer(u, 1)
      BY <1>0, <2>2, FrontSizes
    <3>2. Inner(FrontOf(u, 1), Len(FrontOf(u, 1))) = 1 /\ Inner(FrontOf(u, 1), 0) = Numel(FrontOf(u, 1))
      BY <3>1, InnerSizes
    <3> QED
      BY <3>1, <3>2
  <2>4. u[1] \in Nat \ {0}
    BY <1>0, <2>2, InnerSizes
  <2>5. Numel(u) = u[1] * w
    BY <2>1, <2>3, <2>4
  <2>6. Product(SubSeq(u, 1 + 1, 1)) = 1
    <3> DEFINE p == Head1(u, 1)
    <3>1. IsShape(p) /\ Len(p) = 1 /\ \A e \in 0 .. 1 : Inner(p, e) = Product(SubSeq(u, e + 1, 1))
      BY <1>0, <2>2, HeadSizes
    <3>2. Inner(p, 1) = 1
      <4> HIDE DEF p
      <4> QED
        BY <3>1, InnerSizes
    <3>3. 1 \in 0 .. 1
      OBVIOUS
    <3> QED
      BY <3>1, <3>2, <3>3
  <2>7. cut.b \in Nat
    BY <1>0, <2>2, CutsAre DEF IsCut
  <2>8. ASSUME NEW o \in 0 .. u[1] - 1 PROVE Taken(in[1], y, a, 1, o) = (cut.b + o) * w
    <3> DEFINE t == [d \in 1 .. 1 |->
                       LET ax == SliceAxis(a, s, d)
                           od == (o \div Product(SubSeq(u, d + 1, 1))) % Dim(y, d)
                       IN  (ax.b + od * ax.s) * Inner(s, d)]
               x == (cut.b + o) * w
               h == [k \in 0 .. 1 |-> IF k = 0 THEN 0 ELSE x]
    <3>1. t[1] = x
      <4>1. t[1] = (cut.b + ((o \div Product(SubSeq(u, 1 + 1, 1))) % u[1]) * cut.s) * w
        BY DEF Dim
      <4>2. (o \div 1) % u[1] = o /\ o * 1 = o
        <5>1. o \in Nat /\ o < u[1] /\ o \div 1 = o
          BY <2>4
        <5>2. o % u[1] = o
          BY <2>4, <5>1
        <5> QED
          BY <5>1, <5>2
      <4> HIDE DEF t, cut, w, u
      <4> QED
        BY <1>2, <2>6, <4>1, <4>2
    <3>2. x \in Int
      <4>1. o \in Nat
        BY <2>4
      <4> DEFINE z == cut.b
      <4> HIDE DEF z, w
      <4> QED
        BY <2>1, <2>7, <4>1 DEF z
    <3>3. Taken(in[1], y, a, 1, o) = Total(t)
      BY DEF Taken
    <3>4. DOMAIN t = 1 .. 1
      OBVIOUS
    <3>5. t = [d \in 1 .. 1 |-> t[d]]
      OBVIOUS
    <3> HIDE DEF t, x
    <3>6. t \in [1 .. 1 -> Int]
      <4>1. \A d \in 1 .. 1 : d = 1
        OBVIOUS
      <4>2. \A d \in 1 .. 1 : t[d] \in Int
        BY <3>1, <3>2, <4>1
      <4> QED
        BY <3>5, <4>2
    <3>7. Sums(h, t, 1) /\ h[1] = x
      BY <3>1, <3>2 DEF Sums
    <3> HIDE DEF h
    <3> QED
      BY <3>3, <3>6, <3>7, TotalIs DEF x
  <2>9. ASSUME NEW i \in DOMAIN f PROVE f[i] = Elem(1, cut.b * w + i)
    <3> DEFINE o == i \div w
    <3>1. i \in Nat /\ i < u[1] * w
      BY <1>0, <2>5
    <3>2. o \in 0 .. u[1] - 1 /\ i % w \in 0 .. w - 1 /\ i = o * w + (i % w)
      <4> HIDE DEF w, u
      <4> QED
        BY <2>1, <2>4, <3>1, QuotientFits, BlockParts
    <3>3. f[i] = Elem(1, Taken(in[1], y, a, 1, o) + (i % w))
      BY <2>1 DEF Sliced
    <3>4. (cut.b + o) * w + (i % w) = cut.b * w + i
      <4>1. o \in Nat /\ i % w \in Nat
        BY <2>1, <2>4, <3>2
      <4> DEFINE z == cut.b
      <4> HIDE DEF z, o, w
      <4>2. (z + o) * w = z * w + o * w /\ z * w \in Nat /\ o * w \in Nat
        BY <2>1, <2>7, <4>1 DEF z
      <4> DEFINE A == z * w
                 B == o * w
                 C == (z + o) * w
      <4> HIDE DEF A, B, C
      <4>3. C + (i % w) = A + i
        BY <3>2, <4>1, <4>2 DEF A, B, C
      <4> QED
        BY <4>3 DEF A, C, z
    <3> HIDE DEF o
    <3> QED
      BY <2>8, <3>2, <3>3, <3>4
  <2> QED
    BY <2>5, <2>9 DEF FromOn
<1> QED
  BY <1>1, <1>2

\* The number of axes after which everything is taken whole, as CpuSlice finds it.
IsLastCut(K, x, a) ==
    /\ K \in 0 .. Rank(x)
    /\ \A d \in K + 1 .. Rank(x) : TakenWhole(x, a, d)
    /\ K > 0 => ~ TakenWhole(x, a, K)

\* There is such a number.
LEMMA LastCutExists ==
    ASSUME NEW x, NEW a, Rank(x) \in Nat
    PROVE  \E K \in 0 .. Rank(x) : IsLastCut(K, x, a)
<1> DEFINE n == Rank(x)
           T == {k \in Nat : \A d \in n - k + 1 .. n : TakenWhole(x, a, d)}
<1> HIDE DEF n
<1>0. n \in Nat
  BY DEF n
<1>1. CASE \E k \in 0 .. n - 1 : k \in T /\ k + 1 \notin T
  <2>1. PICK k \in 0 .. n - 1 : k \in T /\ k + 1 \notin T
    BY <1>1
  <2>2. k \in Nat /\ k + 1 \in Nat /\ n - k \in 1 .. n /\ n - (k + 1) + 1 = n - k
    BY <1>0
  <2>3. \A d \in n - k + 1 .. n : TakenWhole(x, a, d)
    BY <2>1
  <2>4. PICK d \in n - k .. n : ~ TakenWhole(x, a, d)
    BY <2>1, <2>2
  <2>5. d = n - k
    <3>1. d \in n - k + 1 .. n \/ d = n - k
      BY <1>0, <2>2
    <3> QED
      BY <2>3, <2>4, <3>1
  <2> DEFINE K == n - k
  <2>6. K \in 0 .. n /\ (\A e \in K + 1 .. n : TakenWhole(x, a, e)) /\ ~ TakenWhole(x, a, K)
    BY <1>0, <2>2, <2>3, <2>4, <2>5
  <2> QED
    BY <2>6 DEF IsLastCut, n
<1>2. CASE \A k \in 0 .. n - 1 : k \in T => k + 1 \in T
  <2>1. 0 \in T
    <3>1. \A d \in n - 0 + 1 .. n : FALSE
      BY <1>0
    <3> QED
      BY <3>1
  <2>2. n \in 0 .. n
    BY <1>0
  <2> HIDE DEF T
  <2>3. n \in T
    BY <1>0, <1>2, <2>1, <2>2, BoundedInduction
  <2>4. \A d \in 0 + 1 .. n : TakenWhole(x, a, d)
    <3>1. n - n + 1 = 0 + 1
      BY <1>0
    <3>2. \A d \in n - n + 1 .. n : TakenWhole(x, a, d)
      BY <2>3 DEF T
    <3> QED
      BY <3>1, <3>2
  <2>5. 0 \in 0 .. n /\ ~ 0 > 0
    BY <1>0
  <2> QED
    BY <2>4, <2>5 DEF IsLastCut, n
<1> QED
  BY <1>1, <1>2

\* What is copied at once is left as it is.
LEMMA WholeIsUncut ==
    ASSUME NEW in, NEW y, NEW a, AreSliceable(in, y, a), NEW d \in 1 .. Len(in[1].shape), TakenWhole(in[1], a, d)
    PROVE  IsUncut(SliceAxis(a, in[1].shape, d), in[1].shape[d], y.shape[d])
<1> DEFINE s == in[1].shape
           c == SliceAxis(a, s, d)
<1>1. IsCut(c, s[d], y.shape[d])
  BY CutsAre
<1>2. c = [b |-> 0, e |-> s[d], s |-> 1]
  BY DEF TakenWhole, Dim
<1>3. \A r : r = [b |-> 0, e |-> s[d], s |-> 1] => r.b = 0 /\ r.s = 1
  OBVIOUS
<1> HIDE DEF c, s
<1>4. c.b = 0 /\ c.s = 1 /\ y.shape[d] = s[d]
  BY <1>1, <1>2, <1>3 DEF IsCut
<1> QED
  BY <1>4 DEF IsUncut, c, s

\* The kernel of the CPU device, with that number.
SlicedAfter(K, in, y, a) ==
    LET x == in[1]
        block == Inner(x.shape, K)
        first == SliceAxis(a, x.shape, 1)
    IN  CASE K = 0 -> Memcpy(1, 0, 0, block)
          [] K = 1 /\ first.s = 1 -> Memcpy(1, 0, first.b * block, (first.e - first.b) * block)
          [] OTHER -> UNION {Memcpy(1, m * block, Taken(x, y, a, K, m), block) :
                                m \in 0 .. Product(SubSeq(y.shape, 1, K)) - 1}

\* Any such number will do.
LEMMA SlicedAfterComputes ==
    ASSUME NEW in, NEW y, NEW a, AreSliceable(in, y, a), NEW data, NEW K, CutUpTo(in, y, a, K)
    PROVE  Computes(SlicedAfter(K, in, y, a), Meant("Slice", in, a, data, y.shape))
<1> DEFINE x == in[1]
           s == in[1].shape
           u == y.shape
           w == Inner(s, K)
           m == Product(SubSeq(u, 1, K))
           f == Meant("Slice", in, a, data, u)
           first == SliceAxis(a, s, 1)
<1>1. Sliced(f, in, y, a, K, w) /\ w \in Nat \ {0} /\ m \in Nat \ {0} /\ Numel(u) = m * w
      /\ m = IF K = 0 THEN 1 ELSE Outer(u, K) * u[K]
  BY SliceMeans
<1>2. DOMAIN f = 0 .. Numel(u) - 1 /\ Numel(u) \in Nat \ {0}
  BY CutsAre, NumelIs DEF Meant
<1>3. ASSUME K = 0 PROVE Computes(SlicedAfter(K, in, y, a), f)
  <2>1. SlicedAfter(K, in, y, a) = Memcpy(1, 0, 0, w)
    BY <1>3 DEF SlicedAfter
  <2>2. FromOn(f, 0)
    BY <1>3, RowsAreCopied
  <2>3. w = Numel(u)
    <3> HIDE DEF w, m, u
    <3> QED
      BY <1>1, <1>3
  <2> HIDE DEF f, w, u
  <2> QED
    BY <1>2, <2>1, <2>2, <2>3, OneCopy
<1>4. ASSUME K = 1 /\ first.s = 1 PROVE Computes(SlicedAfter(K, in, y, a), f)
  <2>1. SlicedAfter(K, in, y, a) = Memcpy(1, 0, first.b * w, (first.e - first.b) * w)
    BY <1>4 DEF SlicedAfter
  <2>2. FromOn(f, first.b * w) /\ Numel(u) = u[1] * w
    BY <1>4, RowsAreCopied
  <2>3. u[1] = first.e - first.b
    <3>1. 1 \in 1 .. Len(s)
      BY NumelIs DEF AreSliceable, IsRowMajor
    <3>2. IsCut(first, s[1], u[1])
      BY <3>1, CutsAre
    <3> HIDE DEF first, s, u
    <3> QED
      BY <1>4, <3>2 DEF IsCut
  <2> DEFINE base == first.b * w
  <2>4. SlicedAfter(K, in, y, a) = Memcpy(1, 0, base, Numel(u))
    BY <2>1, <2>2, <2>3
  <2> HIDE DEF f, base
  <2>5. FromOn(f, base)
    BY <2>2 DEF base
  <2> HIDE DEF u
  <2> QED
    BY <1>2, <2>4, <2>5, OneCopy
<1>5. ASSUME K # 0 /\ ~ (K = 1 /\ first.s = 1) PROVE Computes(SlicedAfter(K, in, y, a), f)
  <2> DEFINE from == [o \in 0 .. m - 1 |-> Taken(x, y, a, K, o)]
             B(o) == Memcpy(1, o * w, Taken(x, y, a, K, o), w)
             C(o) == BlockFrom(o, from, w)
  <2>1. SlicedAfter(K, in, y, a) = UNION {B(o) : o \in 0 .. m - 1}
    BY <1>5 DEF SlicedAfter
  <2>2. \A o \in 0 .. m - 1 : B(o) = C(o)
    BY DEF BlockFrom
  <2>3. BlockWise(f, from, w)
    <3> SUFFICES ASSUME NEW i \in DOMAIN f PROVE f[i] = Elem(1, from[i \div w] + (i % w))
      BY DEF BlockWise
    <3>1. f[i] = Elem(1, Taken(x, y, a, K, i \div w) + (i % w))
      BY <1>1 DEF Sliced
    <3>2. i \div w \in 0 .. m - 1
      <4>1. i \in Nat /\ i < m * w
        BY <1>1, <1>2
      <4> HIDE DEF w, m
      <4> QED
        BY <1>1, <4>1, QuotientFits
    <3>3. from[i \div w] = Taken(x, y, a, K, i \div w)
      BY <3>2
    <3> QED
      BY <3>1, <3>3
  <2> HIDE DEF from, f, w, m
  <2>4. Computes(UNION {BlockFrom(o, from, w) : o \in 0 .. m - 1}, f)
    <3>1. DOMAIN f = 0 .. m * w - 1 /\ m \in Nat
      BY <1>1, <1>2
    <3> QED
      BY <1>1, <2>3, <3>1, BlocksAreCopied
  <2> HIDE DEF B, C
  <2>5. {B(o) : o \in 0 .. m - 1} = {C(o) : o \in 0 .. m - 1}
    BY <2>2
  <2>6. SlicedAfter(K, in, y, a) = UNION {C(o) : o \in 0 .. m - 1}
    BY <2>1, <2>5
  <2>7. SlicedAfter(K, in, y, a) = UNION {BlockFrom(o, from, w) : o \in 0 .. m - 1}
    BY <2>6 DEF C
  <2> QED
    BY <2>4, <2>7
<1> QED
  BY <1>3, <1>4, <1>5

\* A slice on any backend that has room for the axes is the elements between the bounds, each
\* step apart.
LEMMA SliceComputes ==
    ASSUME NEW in, NEW y, NEW a, AreSliceable(in, y, a), NEW data
    PROVE  /\ Computes(CpuSlice(in, y, a), Meant("Slice", in, a, data, y.shape))
           /\ Computes(IspcSlice(in, y, a), Meant("Slice", in, a, data, y.shape))
           /\ Rank(in[1]) <= CUDA_RANK => Computes(CudaSlice(in, y, a), Meant("Slice", in, a, data, y.shape))
<1> DEFINE x == in[1]
           s == in[1].shape
           u == y.shape
           n == Len(s)
           f == Meant("Slice", in, a, data, u)
<1>1. IsShape(s) /\ n \in Nat \ {0} /\ IsShape(u) /\ Len(u) = n /\ \A d \in 1 .. n : IsCut(SliceAxis(a, s, d), s[d], u[d])
  BY CutsAre, NumelIs DEF AreSliceable, IsRowMajor
<1>2. DOMAIN f = 0 .. Numel(u) - 1 /\ Numel(u) \in Nat \ {0}
  BY CutsAre, NumelIs DEF Meant
<1>3. Computes(CpuSlice(in, y, a), f)
  <2> DEFINE K == CHOOSE K \in 0 .. Rank(x) :
                    /\ \A d \in K + 1 .. Rank(x) : TakenWhole(x, a, d)
                    /\ K > 0 => ~ TakenWhole(x, a, K)
  <2>1. CpuSlice(in, y, a) = SlicedAfter(K, in, y, a)
    BY DEF CpuSlice, SlicedAfter
  <2>2. \E k \in 0 .. Rank(x) : IsLastCut(k, x, a)
    <3>1. Rank(x) \in Nat
      BY <1>1 DEF Rank
    <3> HIDE DEF x
    <3> QED
      BY <3>1, LastCutExists
  <2>3. IsLastCut(K, x, a)
    BY <2>2 DEF IsLastCut
  <2> HIDE DEF K
  <2>4. CutUpTo(in, y, a, K)
    <3>1. \A d \in K + 1 .. n : TakenWhole(x, a, d) /\ d \in 1 .. n
      BY <2>3 DEF IsLastCut, Rank
    <3>2. \A d \in K + 1 .. n : IsUncut(SliceAxis(a, s, d), s[d], u[d])
      BY <3>1, WholeIsUncut
    <3> QED
      BY <2>3, <3>2 DEF CutUpTo, IsLastCut, Rank
  <2>5. Computes(SlicedAfter(K, in, y, a), f)
    BY <2>4, SlicedAfterComputes
  <2> QED
    BY <2>1, <2>5
<1>4. ASSUME Rank(in[1]) <= CUDA_RANK PROVE Computes(CudaSlice(in, y, a), f)
  <2>3. ~ Rank(x) > CUDA_RANK
    <3>1. Rank(x) \in Nat /\ CUDA_RANK \in Nat
      BY <1>1, CopyAssumption DEF Rank
    <3> QED
      BY <1>4, <3>1
  <2> DEFINE first == SliceAxis(a, s, 1)
             rows == /\ first.s = 1
                     /\ \A d \in 2 .. Rank(x) :
                          /\ SliceAxis(a, s, d).b = 0 /\ SliceAxis(a, s, d).s = 1
                          /\ Dim(y, d) = Dim(x, d)
  <2>1. CASE rows
    <3>1. CudaSlice(in, y, a) = Memcpy(1, 0, first.b * Inner(s, 1), Numel(u))
      BY <2>1, <2>3 DEF CudaSlice
    <3>2. CutUpTo(in, y, a, 1)
      BY <1>1, <2>1 DEF CutUpTo, IsUncut, Rank, Dim
    <3>3. FromOn(f, first.b * Inner(s, 1))
      BY <2>1, <3>2, RowsAreCopied
    <3> DEFINE base == first.b * Inner(s, 1)
    <3> HIDE DEF f, base, u
    <3>4. FromOn(f, base) /\ CudaSlice(in, y, a) = Memcpy(1, 0, base, Numel(u))
      BY <3>1, <3>3 DEF base, u
    <3> QED
      BY <1>2, <3>4, OneCopy
  <2>2. CASE ~ rows
    <3> DEFINE e(i) == Elem(1, Taken(x, y, a, n, i))
    <3>1. CudaSlice(in, y, a) = {Store(i, <<i>>, e(i)) : i \in Grid(Numel(u))}
      <4>1. CudaSlice(in, y, a) = {Store(i, <<i>>, Elem(1, Taken(x, y, a, Rank(x), i))) : i \in Grid(Numel(u))}
        BY <2>2, <2>3 DEF CudaSlice
      <4> QED
        BY <4>1 DEF Rank
    <3>2. CutUpTo(in, y, a, n)
      BY <1>1 DEF CutUpTo
    <3>3. Sliced(f, in, y, a, n, Inner(s, n)) /\ Inner(s, n) = 1
      BY <1>1, <3>2, SliceMeans, InnerSizes
    <3>4. ASSUME NEW i \in 0 .. Numel(u) - 1 PROVE f[i] = e(i)
      <4>1. i \in Nat /\ i \div 1 = i /\ i % 1 = 0
        BY <1>2
      <4>2. f[i] = Elem(1, Taken(x, y, a, n, i \div 1) + (i % 1)) /\ Taken(x, y, a, n, i \div 1) \in Int
        BY <1>2, <3>3 DEF Sliced
      <4> DEFINE t == Taken(x, y, a, n, i)
      <4>3. f[i] = Elem(1, t + 0) /\ t \in Int
        BY <4>1, <4>2
      <4> HIDE DEF t, f
      <4>4. t + 0 = t
        BY <4>3
      <4> QED
        BY <4>3, <4>4 DEF t
    <3>5. Grid(Numel(u)) = 0 .. Numel(u) - 1
      BY <1>2, GridIs
    <3> HIDE DEF e, f, u
    <3>6. CudaSlice(in, y, a) = {Store(i, <<i>>, f[i]) : i \in Grid(Numel(u))}
      BY <3>1, <3>4, <3>5
    <3> QED
      BY <1>2, <3>6, EachComputes
  <2> QED
    BY <2>1, <2>2
<1> QED
  BY <1>3, <1>4 DEF IspcSlice

\* A shape whose sizes have a product other than zero.
LEMMA NoSizeIsZero ==
    ASSUME NEW s \in Seq(Nat), Numel(s) # 0
    PROVE  IsShape(s)
<1> DEFINE n == Len(s)
<1>1. PICK h : Multiplies(h, s)
  BY ProductsExist
<1>2. n \in Nat /\ h[n] # 0 /\ h \in [0 .. n -> Nat] /\ \A k \in 1 .. n : h[k] = h[k - 1] * s[k] /\ s[k] \in Nat
  BY <1>1, ProductIs DEF Multiplies, Numel
<1>3. ASSUME NEW d \in 1 .. n PROVE s[d] # 0
  <2> SUFFICES ASSUME s[d] = 0 PROVE FALSE
    OBVIOUS
  <2> DEFINE T == {k \in Nat : d + k <= n => h[d + k] = 0}
  <2>1. 0 \in T
    <3>1. h[d] = h[d - 1] * 0 /\ h[d - 1] \in Nat
      BY <1>2
    <3> QED
      BY <3>1
  <2>2. ASSUME NEW k \in 0 .. n - 1, k \in T PROVE k + 1 \in T
    <3> SUFFICES ASSUME d + (k + 1) <= n PROVE h[d + (k + 1)] = 0
      OBVIOUS
    <3>1. d + (k + 1) \in 1 .. n /\ (d + (k + 1)) - 1 = d + k /\ h[d + k] = 0
      BY <1>2, <2>2
    <3>2. h[d + (k + 1)] = 0 * s[d + (k + 1)] /\ s[d + (k + 1)] \in Nat
      BY <1>2, <3>1
    <3> QED
      BY <3>2
  <2> HIDE DEF T
  <2>3. \A k \in 0 .. n : k \in T
    BY <1>2, <2>1, <2>2, BoundedInduction
  <2>4. n - d \in 0 .. n /\ d + (n - d) = n
    BY <1>2
  <2>5. n - d \in T
    BY <2>3, <2>4
  <2> QED
    BY <1>2, <2>4, <2>5 DEF T
<1> QED
  BY <1>3 DEF IsShape

\* Operators that copy, that work on elements and that work on rows.
RowsAndCopies ==
    Elementwise \cup {"Softmax", "Reshape", "Transpose", "Slice", "Concat", "RepeatKV", "Embedding", "RMSNorm", "RotaryEmbedding"}

\* What all accepted calls have in common.
LEMMA AcceptedCall ==
    ASSUME NEW c, IsTyped(c), Accepts(c.op, c.in, c.attrs), NEW device, Readable(device, c.op, c.in)
    PROVE  /\ DOMAIN c.in = 1 .. InputCount(c.op) /\ InputCount(c.op) \in 1 .. 3
           /\ \A k \in DOMAIN c.in : /\ IsShape(c.in[k].shape) /\ Len(c.in[k].shape) \in Nat \ {0}
                                     /\ c.op # "MatMul" => IsRowMajor(c.in[k])
           /\ c.op \in RowsAndCopies \ Elementwise =>
                \/ Given(c.op, c.attrs).kind = c.op
                \/ c.op \in {"Embedding", "RotaryEmbedding"}
<1> DEFINE in == c.in
<1>1. in \in Seq([shape : Seq(Nat), strides : Seq(Nat), dtype : Numeric \cup Halves]) /\ Len(in) = InputCount(c.op)
      /\ \A k \in DOMAIN in : in[k].shape # <<>> /\ 0 \notin Range(in[k].shape)
  BY DEF IsTyped, Accepts, ValidMetadata
<1>2. InputCount(c.op) \in 1 .. 3
  BY DEF InputCount
<1>3. DOMAIN in = 1 .. InputCount(c.op) /\ \A k \in DOMAIN in : in[k].shape \in Seq(Nat)
  <2> DEFINE Operand == [shape : Seq(Nat), strides : Seq(Nat), dtype : Numeric \cup Halves]
  <2>1. \A x \in Operand : x.shape \in Seq(Nat)
    OBVIOUS
  <2> HIDE DEF Operand
  <2>2. in \in Seq(Operand)
    BY <1>1 DEF Operand
  <2> HIDE DEF in
  <2>3. DOMAIN in = 1 .. Len(in) /\ \A k \in DOMAIN in : in[k] \in Operand
    BY <2>2
  <2> QED
    BY <1>1, <2>1, <2>3
<1>4. ASSUME NEW k \in DOMAIN in PROVE IsShape(in[k].shape) /\ Len(in[k].shape) \in Nat \ {0}
  <2> DEFINE s == in[k].shape
  <2>1. s \in Seq(Nat) /\ s # <<>> /\ 0 \notin Range(s)
    BY <1>1, <1>3
  <2> HIDE DEF s
  <2>2. \A d \in 1 .. Len(s) : s[d] \in Nat \ {0}
    BY <2>1 DEF Range
  <2>3. Len(s) \in Nat \ {0}
    BY <2>1
  <2>4. s \in Seq(Nat \ {0})
    BY <2>1, <2>2
  <2> QED
    BY <2>3, <2>4 DEF IsShape, s
<1>5. ASSUME c.op # "MatMul", NEW k \in DOMAIN in PROVE IsRowMajor(in[k])
  BY <1>4, <1>5 DEF Readable, ReadableAsView, IsRowMajor
<1>6. Given(c.op, c.attrs).kind = DefaultAttrs(c.op).kind
  BY DEF Accepts, ValidMetadata
<1>7. c.op \in RowsAndCopies \ Elementwise => DefaultAttrs(c.op).kind = c.op \/ c.op \in {"Embedding", "RotaryEmbedding"}
  BY DEF RowsAndCopies, DefaultAttrs
<1> QED
  BY <1>2, <1>3, <1>4, <1>5, <1>6, <1>7

\* All kernels of an operator that a caller can reach compute f.
AllCompute(op, in, y, a, data, f) ==
    /\ \A avx2 \in BOOLEAN : Computes(CpuKernel(op, in, y, a, data, avx2), f)
    /\ Computes(IspcKernel(op, in, y, a, data), f)
    /\ (op \in {"Transpose", "Slice"} => Rank(in[1]) <= CUDA_RANK) => Computes(CudaKernel(op, in, y, a, data), f)

\* An accepted call of an elementwise operator on any backend.
LEMMA ElementwiseCall ==
    ASSUME NEW c, IsTyped(c), Accepts(c.op, c.in, c.attrs), NEW device, Readable(device, c.op, c.in),
           c.op \in Elementwise, NEW y, y = Signature(c.op, c.in, c.attrs), NEW a
    PROVE  AllCompute(c.op, c.in, y, a, c.data, Meant(c.op, c.in, a, c.data, y.shape)) /\ IsShape(y.shape)
<1> DEFINE op == c.op
           in == c.in
<1>1. op # "MatMul" /\ op \notin {"Embedding", "Reshape", "Transpose", "Concat", "RepeatKV", "Slice", "FusedAttention", "QuantizedMatMul"}
  BY DEF Elementwise, Unary, Binary
<1>2. DOMAIN in = 1 .. InputCount(op) /\ 1 \in DOMAIN in /\ \A k \in DOMAIN in : IsRowMajor(in[k])
  BY <1>1, AcceptedCall
<1>3. y.shape = in[1].shape
  BY <1>1 DEF Signature, ResultShape, Tensor
<1>4. \A k \in DOMAIN in : in[k].shape = in[1].shape
  <2>1. CASE op \in Unary
    <3>1. InputCount(op) = 1
      BY <2>1 DEF InputCount, Unary, Binary
    <3> QED
      BY <1>2, <3>1
  <2>2. CASE op \in Binary
    <3>1. InputCount(op) = 2 /\ in[1].shape = in[2].shape
      BY <2>2 DEF InputCount, Binary, Accepts, ValidMetadata
    <3> QED
      BY <1>2, <3>1
  <2> QED
    BY <2>1, <2>2 DEF Elementwise
<1>5. IsShape(y.shape) /\ \A k \in DOMAIN in : in[k].strides = DefaultStrides(y.shape)
  BY <1>2, <1>3, <1>4 DEF IsRowMajor
<1>6. /\ Computes(CpuElementwise(op, y), Meant(op, in, a, c.data, y.shape))
      /\ Computes(IspcElementwise(op, y), Meant(op, in, a, c.data, y.shape))
      /\ Computes(CudaElementwise(op, y), Meant(op, in, a, c.data, y.shape))
  BY <1>2, <1>5, ElementwiseComputes
<1>7. /\ \A avx2 : CpuKernel(op, in, y, a, c.data, avx2) = CpuElementwise(op, y)
      /\ IspcKernel(op, in, y, a, c.data) = IspcElementwise(op, y)
      /\ CudaKernel(op, in, y, a, c.data) = CudaElementwise(op, y)
  BY DEF CpuKernel, IspcKernel, CudaKernel, Elementwise, Unary, Binary
<1> QED
  BY <1>5, <1>6, <1>7 DEF AllCompute

\* The kernels of the single operators.
LEMMA KernelsOf ==
    ASSUME NEW in, NEW y, NEW a, NEW data
    PROVE  \A avx2 :
             /\ CpuKernel("Softmax", in, y, a, data, avx2) = CpuSoftmax(in, y, a) /\ IspcKernel("Softmax", in, y, a, data) = IspcSoftmax(in, y, a)
             /\ CudaKernel("Softmax", in, y, a, data) = CudaSoftmax(in, y, a)
             /\ CpuKernel("Reshape", in, y, a, data, avx2) = CpuReshape(in, y, a) /\ IspcKernel("Reshape", in, y, a, data) = IspcReshape(in, y, a)
             /\ CudaKernel("Reshape", in, y, a, data) = CudaReshape(in, y, a)
             /\ CpuKernel("Transpose", in, y, a, data, avx2) = CpuTranspose(in, y, a) /\ IspcKernel("Transpose", in, y, a, data) = IspcTranspose(in, y, a)
             /\ CudaKernel("Transpose", in, y, a, data) = CudaTranspose(in, y, a)
             /\ CpuKernel("Slice", in, y, a, data, avx2) = CpuSlice(in, y, a) /\ IspcKernel("Slice", in, y, a, data) = IspcSlice(in, y, a)
             /\ CudaKernel("Slice", in, y, a, data) = CudaSlice(in, y, a)
             /\ CpuKernel("Concat", in, y, a, data, avx2) = CpuConcat(in, y, a) /\ IspcKernel("Concat", in, y, a, data) = IspcConcat(in, y, a)
             /\ CudaKernel("Concat", in, y, a, data) = CudaConcat(in, y, a)
             /\ CpuKernel("RepeatKV", in, y, a, data, avx2) = CpuRepeatKV(in, y, a) /\ IspcKernel("RepeatKV", in, y, a, data) = IspcRepeatKV(in, y, a)
             /\ CudaKernel("RepeatKV", in, y, a, data) = CudaRepeatKV(in, y, a)
             /\ CpuKernel("Embedding", in, y, a, data, avx2) = CpuEmbedding(in, y, data) /\ IspcKernel("Embedding", in, y, a, data) = IspcEmbedding(in, y, data)
             /\ CudaKernel("Embedding", in, y, a, data) = CudaEmbedding(in, y, data)
             /\ CpuKernel("RMSNorm", in, y, a, data, avx2) = CpuRMSNorm(in, y) /\ IspcKernel("RMSNorm", in, y, a, data) = IspcRMSNorm(in, y)
             /\ CudaKernel("RMSNorm", in, y, a, data) = CudaRMSNorm(in, y)
             /\ CpuKernel("RotaryEmbedding", in, y, a, data, avx2) = CpuRotary(in, y) /\ IspcKernel("RotaryEmbedding", in, y, a, data) = IspcRotary(in, y)
             /\ CudaKernel("RotaryEmbedding", in, y, a, data) = CudaRotary(in, y)
BY DEF CpuKernel, IspcKernel, CudaKernel, Elementwise, Unary, Binary

\* An accepted call of Softmax on any backend.
LEMMA SoftmaxCall ==
    ASSUME NEW c, IsTyped(c), Accepts(c.op, c.in, c.attrs), NEW device, Readable(device, c.op, c.in), c.op = "Softmax",
           NEW a, a = Given(c.op, c.attrs), NEW y, y = Signature(c.op, c.in, c.attrs)
    PROVE  AllCompute(c.op, c.in, y, a, c.data, Meant(c.op, c.in, a, c.data, y.shape)) /\ IsShape(y.shape)
<1> DEFINE in == c.in
           data == c.data
           f == Meant("Softmax", in, a, data, y.shape)
<1>1. IsRowMajor(in[1]) /\ Len(in[1].shape) # 0 /\ a.kind = "Softmax"
  <2>1. DOMAIN in = 1 .. InputCount(c.op) /\ InputCount(c.op) \in 1 .. 3
    BY AcceptedCall
  <2>2. 1 \in DOMAIN in
    BY <2>1
  <2>3. c.op \in RowsAndCopies \ Elementwise /\ c.op \notin {"Embedding", "RotaryEmbedding"}
    BY DEF RowsAndCopies, Elementwise, Unary, Binary
  <2> QED
    BY <2>2, <2>3, AcceptedCall
<1>2. y.shape = in[1].shape /\ Axis(a.axis, in[1].shape) \in DOMAIN in[1].shape
  BY DEF Signature, ResultShape, Tensor, Accepts, SignatureAccepts, AxisExists
<1>3. /\ Computes(CpuSoftmax(in, y, a), f) /\ Computes(IspcSoftmax(in, y, a), f)
      /\ Computes(CudaSoftmax(in, y, a), f)
  BY <1>1, <1>2, SoftmaxComputes
<1>4. IsShape(y.shape)
  BY <1>1, <1>2 DEF IsRowMajor
<1> HIDE DEF f
<1>5. AllCompute("Softmax", in, y, a, data, f)
  BY <1>3, KernelsOf DEF AllCompute
<1> QED
  BY <1>4, <1>5 DEF f

\* An accepted call of Reshape on any backend.
LEMMA ReshapeCall ==
    ASSUME NEW c, IsTyped(c), Accepts(c.op, c.in, c.attrs), NEW device, Readable(device, c.op, c.in), c.op = "Reshape",
           NEW a, a = Given(c.op, c.attrs), NEW y, y = Signature(c.op, c.in, c.attrs)
    PROVE  AllCompute(c.op, c.in, y, a, c.data, Meant(c.op, c.in, a, c.data, y.shape)) /\ IsShape(y.shape)
<1> DEFINE in == c.in
           data == c.data
           f == Meant("Reshape", in, a, data, y.shape)
<1>1. IsRowMajor(in[1]) /\ Len(in[1].shape) # 0 /\ a.kind = "Reshape"
  <2>1. DOMAIN in = 1 .. InputCount(c.op) /\ InputCount(c.op) \in 1 .. 3
    BY AcceptedCall
  <2>2. 1 \in DOMAIN in
    BY <2>1
  <2>3. c.op \in RowsAndCopies \ Elementwise /\ c.op \notin {"Embedding", "RotaryEmbedding"}
    BY DEF RowsAndCopies, Elementwise, Unary, Binary
  <2> QED
    BY <2>2, <2>3, AcceptedCall
<1>2. y.shape = a.shape /\ IsShape(a.shape)
  <2>1. a.shape \in Seq(Nat) /\ Numel(a.shape) = Numel(in[1].shape)
    BY <1>1 DEF Accepts, ValidMetadata, IsTyped
  <2>2. IsShape(a.shape)
    BY <1>1, <2>1, NoSizeIsZero, NumelIs DEF IsRowMajor
  <2> QED
    BY <2>2 DEF Signature, ResultShape, Tensor
<1>3. /\ Computes(CpuReshape(in, y, a), f) /\ Computes(IspcReshape(in, y, a), f)
      /\ Computes(CudaReshape(in, y, a), f)
  BY <1>1, <1>2, ReshapeComputes
<1>4. IsShape(y.shape)
  BY <1>1, <1>2
<1> HIDE DEF f
<1>5. AllCompute("Reshape", in, y, a, data, f)
  BY <1>3, KernelsOf DEF AllCompute
<1> QED
  BY <1>4, <1>5 DEF f

\* An accepted call of Transpose on any backend.
LEMMA TransposeCall ==
    ASSUME NEW c, IsTyped(c), Accepts(c.op, c.in, c.attrs), NEW device, Readable(device, c.op, c.in), c.op = "Transpose",
           NEW a, a = Given(c.op, c.attrs), NEW y, y = Signature(c.op, c.in, c.attrs)
    PROVE  AllCompute(c.op, c.in, y, a, c.data, Meant(c.op, c.in, a, c.data, y.shape)) /\ IsShape(y.shape)
<1> DEFINE in == c.in
           data == c.data
           f == Meant("Transpose", in, a, data, y.shape)
<1>1. IsRowMajor(in[1]) /\ Len(in[1].shape) # 0 /\ a.kind = "Transpose"
  <2>1. DOMAIN in = 1 .. InputCount(c.op) /\ InputCount(c.op) \in 1 .. 3
    BY AcceptedCall
  <2>2. 1 \in DOMAIN in
    BY <2>1
  <2>3. c.op \in RowsAndCopies \ Elementwise /\ c.op \notin {"Embedding", "RotaryEmbedding"}
    BY DEF RowsAndCopies, Elementwise, Unary, Binary
  <2> QED
    BY <2>2, <2>3, AcceptedCall
<1>2. AreTransposable(in, y, a) /\ IsShape(y.shape)
  <2>1. AreTransposable(in, y, a)
    BY <1>1 DEF AreTransposable, Accepts, ValidMetadata, IsTyped, Signature, ResultShape, Tensor
  <2> QED
    BY <2>1, TransposeMeans
<1>3. /\ Computes(CpuTranspose(in, y, a), f) /\ Computes(IspcTranspose(in, y, a), f)
      /\ Rank(in[1]) <= CUDA_RANK => Computes(CudaTranspose(in, y, a), f)
  BY <1>1, <1>2, TransposeComputes
<1>4. IsShape(y.shape)
  BY <1>1, <1>2
<1> HIDE DEF f
<1>5. AllCompute("Transpose", in, y, a, data, f)
  BY <1>3, KernelsOf DEF AllCompute
<1> QED
  BY <1>4, <1>5 DEF f

\* An accepted call of Slice on any backend.
LEMMA SliceCall ==
    ASSUME NEW c, IsTyped(c), Accepts(c.op, c.in, c.attrs), NEW device, Readable(device, c.op, c.in), c.op = "Slice",
           NEW a, a = Given(c.op, c.attrs), NEW y, y = Signature(c.op, c.in, c.attrs)
    PROVE  AllCompute(c.op, c.in, y, a, c.data, Meant(c.op, c.in, a, c.data, y.shape)) /\ IsShape(y.shape)
<1> DEFINE in == c.in
           data == c.data
           f == Meant("Slice", in, a, data, y.shape)
<1>1. IsRowMajor(in[1]) /\ Len(in[1].shape) # 0 /\ a.kind = "Slice"
  <2>1. DOMAIN in = 1 .. InputCount(c.op) /\ InputCount(c.op) \in 1 .. 3
    BY AcceptedCall
  <2>2. 1 \in DOMAIN in
    BY <2>1
  <2>3. c.op \in RowsAndCopies \ Elementwise /\ c.op \notin {"Embedding", "RotaryEmbedding"}
    BY DEF RowsAndCopies, Elementwise, Unary, Binary
  <2> QED
    BY <2>2, <2>3, AcceptedCall
<1>2. AreSliceable(in, y, a) /\ IsShape(y.shape)
  <2>1. AreSliceable(in, y, a)
    BY <1>1 DEF AreSliceable, Accepts, ValidMetadata, IsTyped, Signature, ResultShape, Tensor
  <2> QED
    BY <2>1, CutsAre
<1>3. /\ Computes(CpuSlice(in, y, a), f) /\ Computes(IspcSlice(in, y, a), f)
      /\ Rank(in[1]) <= CUDA_RANK => Computes(CudaSlice(in, y, a), f)
  BY <1>1, <1>2, SliceComputes
<1>4. IsShape(y.shape)
  BY <1>1, <1>2
<1> HIDE DEF f
<1>5. AllCompute("Slice", in, y, a, data, f)
  BY <1>3, KernelsOf DEF AllCompute
<1> QED
  BY <1>4, <1>5 DEF f

\* An accepted call of Concat on any backend.
LEMMA ConcatCall ==
    ASSUME NEW c, IsTyped(c), Accepts(c.op, c.in, c.attrs), NEW device, Readable(device, c.op, c.in), c.op = "Concat",
           NEW a, a = Given(c.op, c.attrs), NEW y, y = Signature(c.op, c.in, c.attrs)
    PROVE  AllCompute(c.op, c.in, y, a, c.data, Meant(c.op, c.in, a, c.data, y.shape)) /\ IsShape(y.shape)
<1> DEFINE in == c.in
           data == c.data
           f == Meant("Concat", in, a, data, y.shape)
<1>1. IsRowMajor(in[1]) /\ Len(in[1].shape) # 0 /\ a.kind = "Concat"
  <2>1. DOMAIN in = 1 .. InputCount(c.op) /\ InputCount(c.op) \in 1 .. 3
    BY AcceptedCall
  <2>2. 1 \in DOMAIN in
    BY <2>1
  <2>3. c.op \in RowsAndCopies \ Elementwise /\ c.op \notin {"Embedding", "RotaryEmbedding"}
    BY DEF RowsAndCopies, Elementwise, Unary, Binary
  <2> QED
    BY <2>2, <2>3, AcceptedCall
<1> DEFINE d == Axis(a.axis, in[1].shape)
<1>2. IsAxis(d, a, in[1]) /\ AreJoinable(in, d, y) /\ IsShape(y.shape)
  <2>1. /\ Rank(in[1]) = Rank(in[2]) /\ d \in DOMAIN in[1].shape
        /\ \A e \in DOMAIN in[1].shape : e # d => Dim(in[1], e) = Dim(in[2], e)
    BY DEF Accepts, ValidMetadata, ValidConcat, AxisExists
  <2>2. y.shape = [in[1].shape EXCEPT ![d] = Dim(in[1], d) + Dim(in[2], d)]
    BY DEF Signature, ResultShape, Tensor
  <2>0. DOMAIN in = 1 .. 2
    BY AcceptedCall DEF InputCount, Binary
  <2>3. IsRowMajor(in[2]) /\ DOMAIN in[1].shape = 1 .. Len(in[1].shape)
    <3>1. 2 \in DOMAIN in
      BY <2>0
    <3>2. IsRowMajor(in[2])
      BY <3>1, AcceptedCall
    <3> HIDE DEF in
    <3> QED
      BY <1>1, <3>2, NumelIs DEF IsRowMajor
  <2> HIDE DEF d
  <2>4. AreJoinable(in, d, y) /\ d \in 1 .. Len(in[1].shape)
    BY <1>1, <2>1, <2>2, <2>3 DEF AreJoinable, IsResized, Rank, Dim
  <2>5. IsAxis(d, a, in[1])
    BY <2>4 DEF IsAxis, d
  <2>6. in[1].shape[d] \in Nat \ {0} /\ in[2].shape[d] \in Nat \ {0}
    BY <1>1, <2>3, <2>4, InnerSizes DEF AreJoinable, IsRowMajor
  <2>7. IsShape(y.shape)
    <3> DEFINE n == in[1].shape[d] + in[2].shape[d]
    <3>1. IsResized(y.shape, in[1].shape, d, n) /\ n \in Nat \ {0}
      <4>1. IsResized(y.shape, in[1].shape, d, n)
        BY <2>4 DEF AreJoinable
      <4>2. \A p, q \in Nat \ {0} : p + q \in Nat \ {0}
        OBVIOUS
      <4>3. n \in Nat \ {0}
        BY <2>6, <4>2, Zenon
      <4> QED
        BY <4>1, <4>3
    <3> HIDE DEF n
    <3> QED
      BY <1>1, <2>4, <3>1, ResizedShape DEF IsRowMajor
  <2> QED
    BY <2>4, <2>5, <2>7
<1>3. /\ Computes(CpuConcat(in, y, a), f) /\ Computes(IspcConcat(in, y, a), f)
      /\ Computes(CudaConcat(in, y, a), f)
  BY <1>1, <1>2, ConcatComputes
<1>4. IsShape(y.shape)
  BY <1>1, <1>2
<1> HIDE DEF f
<1>5. AllCompute("Concat", in, y, a, data, f)
  BY <1>3, KernelsOf DEF AllCompute
<1> QED
  BY <1>4, <1>5 DEF f

\* An accepted call of RepeatKV on any backend.
LEMMA RepeatKVCall ==
    ASSUME NEW c, IsTyped(c), Accepts(c.op, c.in, c.attrs), NEW device, Readable(device, c.op, c.in), c.op = "RepeatKV",
           NEW a, a = Given(c.op, c.attrs), NEW y, y = Signature(c.op, c.in, c.attrs)
    PROVE  AllCompute(c.op, c.in, y, a, c.data, Meant(c.op, c.in, a, c.data, y.shape)) /\ IsShape(y.shape)
<1> DEFINE in == c.in
           data == c.data
           f == Meant("RepeatKV", in, a, data, y.shape)
<1>1. IsRowMajor(in[1]) /\ Len(in[1].shape) # 0 /\ a.kind = "RepeatKV"
  <2>1. DOMAIN in = 1 .. InputCount(c.op) /\ InputCount(c.op) \in 1 .. 3
    BY AcceptedCall
  <2>2. 1 \in DOMAIN in
    BY <2>1
  <2>3. c.op \in RowsAndCopies \ Elementwise /\ c.op \notin {"Embedding", "RotaryEmbedding"}
    BY DEF RowsAndCopies, Elementwise, Unary, Binary
  <2> QED
    BY <2>2, <2>3, AcceptedCall
<1> DEFINE d == Axis(a.axis, in[1].shape)
<1>2. IsAxis(d, a, in[1]) /\ AreRepeatable(in, d, y, a.repeats) /\ IsShape(y.shape)
  <2>1. a.repeats \in Int /\ a.repeats > 0 /\ d \in DOMAIN in[1].shape
    BY <1>1 DEF Accepts, ValidMetadata, AxisExists, IsTyped
  <2>2. y.shape = [in[1].shape EXCEPT ![d] = Dim(in[1], d) * a.repeats]
    BY DEF Signature, ResultShape, Tensor
  <2>3. DOMAIN in[1].shape = 1 .. Len(in[1].shape)
    BY <1>1, NumelIs DEF IsRowMajor
  <2> DEFINE r == a.repeats
  <2> HIDE DEF d, r
  <2>4. AreRepeatable(in, d, y, r) /\ d \in 1 .. Len(in[1].shape) /\ r \in Nat \ {0}
    BY <1>1, <2>1, <2>2, <2>3 DEF AreRepeatable, IsResized, Dim, r
  <2>5. IsAxis(d, a, in[1])
    BY <2>4 DEF IsAxis, d
  <2>6. in[1].shape[d] \in Nat \ {0}
    BY <1>1, <2>4, InnerSizes DEF IsRowMajor
  <2>7. in[1].shape[d] * r \in Nat \ {0}
    BY <2>4, <2>6
  <2>8. IsShape(y.shape)
    <3> DEFINE n == in[1].shape[d] * r
    <3>1. IsResized(y.shape, in[1].shape, d, n)
      BY <2>4 DEF AreRepeatable
    <3> HIDE DEF n
    <3> QED
      BY <1>1, <2>4, <2>7, <3>1, ResizedShape DEF IsRowMajor, n
  <2> QED
    BY <2>4, <2>5, <2>8 DEF r
<1>3. /\ Computes(CpuRepeatKV(in, y, a), f) /\ Computes(IspcRepeatKV(in, y, a), f)
      /\ Computes(CudaRepeatKV(in, y, a), f)
  BY <1>1, <1>2, RepeatKVComputes
<1>4. IsShape(y.shape)
  BY <1>1, <1>2
<1> HIDE DEF f
<1>5. AllCompute("RepeatKV", in, y, a, data, f)
  BY <1>3, KernelsOf DEF AllCompute
<1> QED
  BY <1>4, <1>5 DEF f

\* An accepted call of Embedding on any backend.
LEMMA EmbeddingCall ==
    ASSUME NEW c, IsTyped(c), Accepts(c.op, c.in, c.attrs), NEW device, Readable(device, c.op, c.in), c.op = "Embedding",
           NEW a, a = Given(c.op, c.attrs), NEW y, y = Signature(c.op, c.in, c.attrs)
    PROVE  AllCompute(c.op, c.in, y, a, c.data, Meant(c.op, c.in, a, c.data, y.shape)) /\ IsShape(y.shape)
<1> DEFINE in == c.in
           data == c.data
           f == Meant("Embedding", in, a, data, y.shape)
<1>1. IsRowMajor(in[1]) /\ Len(in[1].shape) # 0
  <2>1. DOMAIN in = 1 .. InputCount(c.op) /\ InputCount(c.op) \in 1 .. 3
    BY AcceptedCall
  <2>2. 1 \in DOMAIN in
    BY <2>1
  <2> QED
    BY <2>2, AcceptedCall
<1>2. /\ IsRowMajor(in[2]) /\ Len(in[1].shape) = 2 /\ y.shape = Append(in[2].shape, Back(in[1], 0))
      /\ IsShape(y.shape) /\ \A j \in 0 .. Numel(in[2].shape) - 1 : data[j] \in Int
  <2>1. IsRowMajor(in[2])
    BY AcceptedCall DEF InputCount, Binary
  <2>2. Len(in[1].shape) = 2
    BY DEF Accepts, ValidMetadata, ValidEmbedding, Rank
  <2>3. y.shape = Append(in[2].shape, Back(in[1], 0))
    BY DEF Signature, ResultShape, Tensor
  <2>4. Back(in[1], 0) \in Nat \ {0}
    <3>1. 2 \in 1 .. Len(in[1].shape)
      BY <2>2
    <3>2. in[1].shape[2] \in Nat \ {0}
      BY <1>1, <3>1, InnerSizes DEF IsRowMajor
    <3> QED
      BY <2>2, <3>2 DEF Back
  <2>5. IsShape(y.shape)
    <3>1. \A s \in Seq(Nat \ {0}), x \in Nat \ {0} : Append(s, x) \in Seq(Nat \ {0})
      OBVIOUS
    <3> DEFINE x == Back(in[1], 0)
               s == in[2].shape
    <3>2. s \in Seq(Nat \ {0}) /\ x \in Nat \ {0} /\ y.shape = Append(s, x)
      BY <2>1, <2>3, <2>4 DEF IsShape, IsRowMajor
    <3> HIDE DEF s, x
    <3> QED
      BY <3>1, <3>2 DEF IsShape
  <2> QED
    BY <2>1, <2>2, <2>3, <2>5 DEF IsTyped
<1>3. /\ Computes(CpuEmbedding(in, y, data), f) /\ Computes(IspcEmbedding(in, y, data), f)
      /\ Computes(CudaEmbedding(in, y, data), f)
  BY <1>1, <1>2, EmbeddingComputes
<1>4. IsShape(y.shape)
  BY <1>1, <1>2
<1> HIDE DEF f
<1>5. AllCompute("Embedding", in, y, a, data, f)
  BY <1>3, KernelsOf DEF AllCompute
<1> QED
  BY <1>4, <1>5 DEF f

\* An accepted call of RMSNorm on any backend.
LEMMA RMSNormCall ==
    ASSUME NEW c, IsTyped(c), Accepts(c.op, c.in, c.attrs), NEW device, Readable(device, c.op, c.in), c.op = "RMSNorm",
           NEW a, a = Given(c.op, c.attrs), NEW y, y = Signature(c.op, c.in, c.attrs)
    PROVE  AllCompute(c.op, c.in, y, a, c.data, Meant(c.op, c.in, a, c.data, y.shape)) /\ IsShape(y.shape)
<1> DEFINE in == c.in
           data == c.data
           f == Meant("RMSNorm", in, a, data, y.shape)
<1>1. IsRowMajor(in[1]) /\ Len(in[1].shape) # 0 /\ a.kind = "RMSNorm"
  <2>1. DOMAIN in = 1 .. InputCount(c.op) /\ InputCount(c.op) \in 1 .. 3
    BY AcceptedCall
  <2>2. 1 \in DOMAIN in
    BY <2>1
  <2>3. c.op \in RowsAndCopies \ Elementwise /\ c.op \notin {"Embedding", "RotaryEmbedding"}
    BY DEF RowsAndCopies, Elementwise, Unary, Binary
  <2> QED
    BY <2>2, <2>3, AcceptedCall
<1>2. y.shape = in[1].shape
  BY DEF Signature, ResultShape, Tensor
<1>3. /\ Computes(CpuRMSNorm(in, y), f) /\ Computes(IspcRMSNorm(in, y), f)
      /\ Computes(CudaRMSNorm(in, y), f)
  BY <1>1, <1>2, RMSNormComputes
<1>4. IsShape(y.shape)
  BY <1>1, <1>2 DEF IsRowMajor
<1> HIDE DEF f
<1>5. AllCompute("RMSNorm", in, y, a, data, f)
  BY <1>3, KernelsOf DEF AllCompute
<1> QED
  BY <1>4, <1>5 DEF f

\* An accepted call of RotaryEmbedding on any backend.
LEMMA RotaryEmbeddingCall ==
    ASSUME NEW c, IsTyped(c), Accepts(c.op, c.in, c.attrs), NEW device, Readable(device, c.op, c.in), c.op = "RotaryEmbedding",
           NEW a, a = Given(c.op, c.attrs), NEW y, y = Signature(c.op, c.in, c.attrs)
    PROVE  AllCompute(c.op, c.in, y, a, c.data, Meant(c.op, c.in, a, c.data, y.shape)) /\ IsShape(y.shape)
<1> DEFINE in == c.in
           data == c.data
           f == Meant("RotaryEmbedding", in, a, data, y.shape)
<1>1. IsRowMajor(in[1]) /\ Len(in[1].shape) # 0
  <2>1. DOMAIN in = 1 .. InputCount(c.op) /\ InputCount(c.op) \in 1 .. 3
    BY AcceptedCall
  <2>2. 1 \in DOMAIN in
    BY <2>1
  <2> QED
    BY <2>2, AcceptedCall
<1>2. y.shape = in[1].shape
  BY DEF Signature, ResultShape, Tensor
<1>3. Back(in[1], 0) % 2 = 0 /\ PositionsFit(in[1].shape, CacheRows(in))
  <2>1. /\ Back(in[1], 0) % 2 = 0 /\ Len(in[2].shape) <= 2
        /\ Len(in[2].shape) = 2 /\ in[2].shape[1] > 1 => Rank(in[1]) >= 2 /\ Back(in[1], 1) = in[2].shape[1]
    BY DEF Accepts, ValidMetadata, ValidRotary
  <2>2. Len(in[2].shape) \in Nat \ {0}
    BY AcceptedCall DEF InputCount, Binary
  <2>3. PositionsFit(in[1].shape, CacheRows(in))
    <3> SUFFICES ASSUME CacheRows(in) > 1
                 PROVE  Len(in[1].shape) >= 2 /\ in[1].shape[Len(in[1].shape) - 1] = CacheRows(in)
      BY DEF PositionsFit
    <3>1. Len(in[2].shape) >= 2 /\ CacheRows(in) = in[2].shape[1]
      BY DEF CacheRows, Rank, Dim
    <3> DEFINE n == Len(in[2].shape)
    <3> HIDE DEF n
    <3>2. n = 2
      <4>1. n <= 2 /\ n >= 2 /\ n \in Nat \ {0}
        BY <2>1, <2>2, <3>1 DEF n
      <4> QED
        BY <4>1
    <3> QED
      BY <2>1, <3>1, <3>2 DEF Rank, Back, n
  <2> QED
    BY <2>1, <2>3
<1>4. /\ Computes(CpuRotary(in, y), f) /\ Computes(IspcRotary(in, y), f)
      /\ Computes(CudaRotary(in, y), f)
  BY <1>1, <1>2, <1>3, RotaryComputes
<1>5. IsShape(y.shape)
  BY <1>1, <1>2 DEF IsRowMajor
<1> HIDE DEF f
<1>6. AllCompute("RotaryEmbedding", in, y, a, data, f)
  BY <1>4, KernelsOf DEF AllCompute
<1> QED
  BY <1>5, <1>6 DEF f

\* A device kernel has room for a limited number of axes.
HasRoom(op, in, backend) == op \in {"Transpose", "Slice"} /\ backend = "CUDA" => Rank(in[1]) <= CUDA_RANK

\* An accepted call of one of these operators computes what the operator means, on every backend.
LEMMA CallComputes ==
    ASSUME NEW c, IsTyped(c), NEW backend \in Backends, Accepts(c.op, c.in, c.attrs),
           Readable(Device(backend), c.op, c.in), c.op \in RowsAndCopies, HasRoom(c.op, c.in, backend),
           NEW a, a = Given(c.op, c.attrs), NEW y, y = Signature(c.op, c.in, c.attrs)
    PROVE  /\ Computes(Kernel(backend, c.op, c.in, y, a, c.data), Meant(c.op, c.in, a, c.data, y.shape))
           /\ IsShape(y.shape)
<1> DEFINE f == Meant(c.op, c.in, a, c.data, y.shape)
<1>1. AllCompute(c.op, c.in, y, a, c.data, f) /\ IsShape(y.shape)
  <2>1. CASE c.op \in Elementwise
    BY <2>1, ElementwiseCall
  <2>2. CASE c.op = "Softmax"
    BY <2>2, SoftmaxCall
  <2>3. CASE c.op = "Reshape"
    BY <2>3, ReshapeCall
  <2>4. CASE c.op = "Transpose"
    BY <2>4, TransposeCall
  <2>5. CASE c.op = "Slice"
    BY <2>5, SliceCall
  <2>6. CASE c.op = "Concat"
    BY <2>6, ConcatCall
  <2>7. CASE c.op = "RepeatKV"
    BY <2>7, RepeatKVCall
  <2>8. CASE c.op = "Embedding"
    BY <2>8, EmbeddingCall
  <2>9. CASE c.op = "RMSNorm"
    BY <2>9, RMSNormCall
  <2>10. CASE c.op = "RotaryEmbedding"
    BY <2>10, RotaryEmbeddingCall
  <2> HIDE DEF f
  <2> QED
    BY <2>1, <2>2, <2>3, <2>4, <2>5, <2>6, <2>7, <2>8, <2>9, <2>10 DEF RowsAndCopies
<1> HIDE DEF f
<1>2. ASSUME backend = "CPU" PROVE Computes(Kernel(backend, c.op, c.in, y, a, c.data), f)
  BY <1>1, <1>2 DEF Kernel, AllCompute
<1>3. ASSUME backend = "AVX2" PROVE Computes(Kernel(backend, c.op, c.in, y, a, c.data), f)
  BY <1>1, <1>3 DEF Kernel, AllCompute
<1>4. ASSUME backend = "ISPC" PROVE Computes(Kernel(backend, c.op, c.in, y, a, c.data), f)
  BY <1>1, <1>4 DEF Kernel, AllCompute
<1>5. ASSUME backend = "CUDA" PROVE Computes(Kernel(backend, c.op, c.in, y, a, c.data), f)
  BY <1>1, <1>5 DEF Kernel, AllCompute, HasRoom
<1>6. Computes(Kernel(backend, c.op, c.in, y, a, c.data), f)
  BY <1>2, <1>3, <1>4, <1>5 DEF Backends
<1> QED
  BY <1>1, <1>6 DEF f

\* A call of one of these operators, within the room the device has.
IsCovered == call.op \in RowsAndCopies /\ HasRoom(call.op, call.in, call.backend)

\* What the kernel of such a call has stored.
KernelsInv ==
    IsCovered => /\ Computes(writes, Meant(call.op, call.in, call.attrs, call.data, call.out.shape))
                 /\ IsShape(call.out.shape)

\* What follows for its stores.
LEMMA StoredMeans ==
    ASSUME KernelsInv
    PROVE  IsCovered => EveryElementIsWrittenByOneTask /\ KernelsComputeTheOperator
<1> SUFFICES ASSUME IsCovered PROVE EveryElementIsWrittenByOneTask /\ KernelsComputeTheOperator
  OBVIOUS
<1> DEFINE n == Numel(call.out.shape)
           f == Meant(call.op, call.in, call.attrs, call.data, call.out.shape)
           m(i) == Meaning(call.op, call.in, call.attrs, call.data, Coordinates(i, call.out.shape))
<1>1. Computes(writes, f) /\ n \in Nat
  BY NumelIs DEF KernelsInv
<1>2. DOMAIN f = 0 .. n - 1 /\ \A i \in 0 .. n - 1 : f[i] = m(i)
  BY DEF Meant
<1> HIDE DEF f, n, m
<1>3. /\ {w.at : w \in writes} = 0 .. n - 1 /\ Cardinality(writes) = n
      /\ \A w \in writes : w.at \in 0 .. n - 1 /\ w.val = f[w.at]
  BY <1>1, <1>2, ComputesMeans
<1>4. \A w \in writes : w.val = m(w.at)
  BY <1>2, <1>3
<1> QED
  BY <1>3, <1>4 DEF EveryElementIsWrittenByOneTask, KernelsComputeTheOperator, n, m

(* Every call that is accepted computes its operator, whatever the shapes, *)
(* the attributes, the number of threads and the sizes of their blocks:    *)
(* the kernels of every backend write each element of the result once, and *)
(* what the operator means, for all operators that copy or that work on    *)
(* elements or rows.                                                       *)
THEOREM KernelsAreCorrect ==
    KernelsSpec => [](IsCovered => EveryElementIsWrittenByOneTask /\ KernelsComputeTheOperator)
<1>1. KernelsInit => KernelsInv
  <2>1. call = NoCall => call.op = "NoOp"
    BY DEF NoCall
  <2> QED
    BY <2>1 DEF KernelsInit, KernelsInv, IsCovered, RowsAndCopies, Elementwise, Unary, Binary
<1>2. KernelsInv /\ [KernelsNext]_<<call, writes>> => KernelsInv'
  <2> SUFFICES ASSUME KernelsInv, [KernelsNext]_<<call, writes>> PROVE KernelsInv'
    OBVIOUS
  <2>1. ASSUME NEW c \in Calls, NEW backend \in c.on, Invoke(c, backend) PROVE KernelsInv'
    <3> DEFINE y == Signature(c.op, c.in, c.attrs)
               a == Given(c.op, c.attrs)
    <3>1. IsTyped(c) /\ backend \in Backends
      BY CallsAssumption DEF IsTyped
    <3>2. /\ call'.op = c.op /\ call'.in = c.in /\ call'.attrs = a /\ call'.data = c.data /\ call'.out = y
          /\ call'.backend = backend /\ writes' = Kernel(backend, c.op, c.in, y, a, c.data)
          /\ Accepts(c.op, c.in, c.attrs) /\ Readable(Device(backend), c.op, c.in)
      BY <2>1 DEF Invoke
    <3> HIDE DEF y, a
    <3> SUFFICES ASSUME IsCovered'
                 PROVE  /\ Computes(writes', Meant(c.op, c.in, a, c.data, y.shape))
                        /\ IsShape(y.shape)
      BY <3>2 DEF KernelsInv
    <3>3. c.op \in RowsAndCopies /\ HasRoom(c.op, c.in, backend)
      BY <3>2 DEF IsCovered
    <3> QED
      BY <3>1, <3>2, <3>3, CallComputes DEF y, a
  <2>2. CASE Consume
    <3>1. call'.op = "NoOp"
      BY <2>2 DEF Consume, NoCall
    <3>2. ~ IsCovered'
      BY <3>1 DEF IsCovered, RowsAndCopies, Elementwise, Unary, Binary
    <3> QED
      BY <3>2 DEF KernelsInv
  <2>3. CASE UNCHANGED <<call, writes>>
    BY <2>3 DEF KernelsInv, IsCovered
  <2> QED
    BY <2>1, <2>2, <2>3 DEF KernelsNext
<1>3. KernelsInv => (IsCovered => EveryElementIsWrittenByOneTask /\ KernelsComputeTheOperator)
  BY StoredMeans
<1> QED
  BY <1>1, <1>2, <1>3, PTL DEF KernelsSpec
=========================================================================
