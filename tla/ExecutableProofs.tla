-------------------------- MODULE ExecutableProofs --------------------------
(***************************************************************************)
(* The properties of Executable, for every graph, device, alignment and    *)
(* number of executions.  IInv says that a layout exists in which groups   *)
(* of tensors lie apart or are alive at different steps, that every tensor *)
(* is where the layout puts it or is an input bound behind it, and that    *)
(* inputs hold their values.  CalmInv adds that whatever was computed and  *)
(* is still needed is at its home; it needs the hypothesis Calm, without   *)
(* which two of the runs show the code to break what it is for.            *)
(*                                                                         *)
(* They rest on what a build makes of a graph, shown first: an order that  *)
(* runs every producer before its consumers, the views a group consists    *)
(* of, the offsets of the groups in the arena, the memory of the buffers,  *)
(* and with them where each tensor lies.  Recursive functions and folds    *)
(* are followed step by step with the induction lemmas of ProofLemmas.     *)
(***************************************************************************)
EXTENDS Executable, ProofLemmas, SequenceTheorems

-----------------------------------------------------------------------------
(* Graphs and the order of their nodes.                                    *)

\* A graph as the calls that construct one leave it.
GraphInv ==
    /\ tensors \in Seq([rank : Ranks, size : Sizes, strides : {"row", "swapped"}, data : Nat,
                        offset : Nat, device : Devices \cup {"CPU"}])
    /\ nodes \in Seq([op : Ops, ins : Seq(Nat), out : Nat])
    /\ \A n \in Nodes :
          /\ nodes[n].out \in Tensors
          /\ \A k \in DOMAIN nodes[n].ins : nodes[n].ins[k] \in 1 .. nodes[n].out - 1
    /\ \A m, n \in Nodes : m < n => nodes[m].out < nodes[n].out
    /\ hasExplicit \in BOOLEAN
    /\ explicit \subseteq Tensors

\* A node is required when an output needs it: at least what is chosen, and with
\* a node all its producers.
LEMMA RequiredClosed ==
    ASSUME GraphInv
    PROVE  /\ Required \subseteq Nodes
           /\ \A n \in Nodes : hasExplicit => (nodes[n].out \in explicit => n \in Required)
           /\ ~ hasExplicit => Required = Nodes
           /\ \A n \in Required : \A m \in Nodes : Uses(n, nodes[m].out) => m \in Required
<1> DEFINE Feeds(f, n) == \E m \in n+1 .. Len(nodes) : Uses(m, nodes[n].out) /\ f[m]
           Eq(f) == f = [n \in Nodes |-> nodes[n].out \in explicit \/ Feeds(f, n)]
           needed == CHOOSE f : Eq(f)
<1>0. /\ \A n \in Nodes : nodes[n].out \in Nat
      /\ \A n \in Nodes : \A k \in DOMAIN nodes[n].ins : nodes[n].ins[k] < nodes[n].out
      /\ \A i, j \in Nodes : i < j => nodes[i].out < nodes[j].out
  <2>1. \A n \in Nodes : nodes[n].out \in Nat
    BY SMTT(30) DEF GraphInv, Nodes, Tensors
  <2>2. \A n \in Nodes : \A k \in DOMAIN nodes[n].ins : nodes[n].ins[k] \in 1 .. nodes[n].out - 1
    BY DEF GraphInv
  <2>3. \A i, j \in Nodes : i < j => nodes[i].out < nodes[j].out
    BY DEF GraphInv
  <2> QED
    BY <2>1, <2>2, <2>3
<1>1. CASE ~ hasExplicit
  BY <1>1 DEF Required
<1>2. CASE hasExplicit
  <2> DEFINE Closed(S) == \A n \in Nodes :
                 nodes[n].out \in explicit \/ (\E m \in S : m > n /\ Uses(m, nodes[n].out)) => n \in S
             L == {n \in Nodes : \A S \in SUBSET Nodes : Closed(S) => n \in S}
             f == [n \in Nodes |-> n \in L]
  <2>1. L \subseteq Nodes /\ Closed(L)
    OBVIOUS
  <2> DEFINE M == {n \in Nodes : nodes[n].out \in explicit \/ (\E m \in L : m > n /\ Uses(m, nodes[n].out))}
  <2>2. M \subseteq L
    BY <2>1
  <2>3. Closed(M)
    <3> HIDE DEF L
    <3> QED
      BY <2>2
  <2>4. L \subseteq M
    BY <2>3
  <2>5. Nodes = 1 .. Len(nodes) /\ Len(nodes) \in Nat
    BY DEF GraphInv, Nodes
  <2>6. Eq(f)
    <3>1. ASSUME NEW n \in Nodes
          PROVE  (n \in L) <=> (nodes[n].out \in explicit \/ Feeds(f, n))
      <4>1. n \in L <=> n \in M
        BY <2>2, <2>4
      <4>2. (\E m \in L : m > n /\ Uses(m, nodes[n].out)) <=> Feeds(f, n)
        <5>1. \A m \in Nodes : f[m] <=> m \in L
          <6> HIDE DEF L
          <6> QED
            BY Zenon
        <5>2. \A m \in Nodes : m > n <=> m \in n + 1 .. Len(nodes)
          BY <2>5
        <5>3. \A m \in n + 1 .. Len(nodes) : m \in Nodes
          BY <2>5
        <5> HIDE DEF L, f
        <5> QED
          BY <2>1, <5>1, <5>2, <5>3, Zenon
      <4> HIDE DEF L
      <4> QED
        BY <4>1, <4>2
    <3> DEFINE r(n) == nodes[n].out \in explicit \/ Feeds(f, n)
               q(n) == n \in L
    <3>2. \A n \in Nodes : q(n) = r(n)
      <4> HIDE DEF L, Feeds, f
      <4> QED
        BY <3>1, SMT
    <3> HIDE DEF r, q
    <3>3. [n \in Nodes |-> q(n)] = [n \in Nodes |-> r(n)]
      BY <3>2
    <3> HIDE DEF L, Feeds
    <3> QED
      BY <3>3, Zenon DEF r, q
  <2>7. Eq(needed)
    <3> HIDE DEF Eq, f
    <3> QED
      BY <2>6
  <2>8. Required = {n \in Nodes : needed[n]}
    BY <1>2 DEF Required
  <2>9. \A n \in Nodes : needed[n] <=> (nodes[n].out \in explicit \/ Feeds(needed, n))
    <3> HIDE DEF needed, Feeds
    <3> QED
      BY <2>7
  <2>10. ASSUME NEW n \in Required, NEW m \in Nodes, Uses(n, nodes[m].out)
         PROVE  m \in Required
    <3>1. n \in Nodes /\ needed[n]
      BY <2>8
    <3>2. PICK k \in DOMAIN nodes[n].ins : nodes[n].ins[k] = nodes[m].out
      BY <2>10 DEF Uses
    <3>3. nodes[m].out < nodes[n].out
      BY <1>0, <3>1, <3>2
    <3>4. m < n
      <4>1. /\ \A i, j \in Nodes : i < j => nodes[i].out < nodes[j].out
            /\ nodes[m].out \in Nat /\ nodes[n].out \in Nat
        BY <1>0, <3>1
      <4> QED
        BY <2>5, <3>1, <3>3, <4>1
    <3>5. Feeds(needed, m)
      <4>1. n \in m + 1 .. Len(nodes)
        BY <2>5, <3>1, <3>4
      <4> HIDE DEF needed
      <4> QED
        BY <2>10, <3>1, <4>1
    <3> HIDE DEF needed, Feeds
    <3> QED
      BY <2>8, <2>9, <3>5
  <2>11. \A n \in Nodes : nodes[n].out \in explicit => n \in Required
    <3> HIDE DEF needed, Feeds
    <3> QED
      BY <2>8, <2>9
  <2> QED
    BY <1>2, <2>8, <2>10, <2>11
<1> QED
  BY <1>1, <1>2

\* One by one in ascending order: all of S, and each element once.
LEMMA AscendingFacts ==
    ASSUME NEW N \in Nat, NEW S \in SUBSET (1 .. N)
    PROVE  /\ Ascending(S) \in Seq(S)
           /\ \A x \in S : \E k \in DOMAIN Ascending(S) : Ascending(S)[k] = x
           /\ \A j, k \in DOMAIN Ascending(S) : j # k => Ascending(S)[j] # Ascending(S)[k]
<1> DEFINE Eq(f) == f = [s \in SUBSET S |-> IF s = {} THEN <<>> ELSE Append(f[s \ {Max(s)}], Max(s))]
           it == CHOOSE f : Eq(f)
           Lists(q, s) == /\ q \in Seq(s)
                          /\ \A x \in s : \E k \in DOMAIN q : q[k] = x
                          /\ \A j, k \in DOMAIN q : j # k => q[j] # q[k]
           T == {s \in SUBSET S : Lists(it[s], s)}
<1>1. IsFiniteSet(S)
  <2>1. IsFiniteSet(1 .. N)
    BY FS_Interval
  <2> QED
    BY <2>1, FS_Subset
<1>2. \A s \in SUBSET S : s # {} => Max(s) \in s
  BY MaxNat
<1>3. \E f : Eq(f)
  <2> DEFINE next == [p \in S \X Seq(S) |-> Append(p[2], p[1])]
             pick == [s \in SUBSET S |-> Max(s)]
  <2>1. next \in [S \X Seq(S) -> Seq(S)]
    OBVIOUS
  <2>2. Picks(pick, S)
    BY <1>2 DEF Picks
  <2>3. Folds(<<>>, next, S, Seq(S))
    BY <2>1 DEF Folds
  <2>4. PICK f \in [SUBSET S -> Seq(S)] : IsFold(f, <<>>, pick, next, S)
    <3> HIDE DEF next, pick
    <3> QED
      BY <1>1, <2>2, <2>3, FoldExists
  <2>5. ASSUME NEW s \in SUBSET S, s # {} PROVE f[s] = Append(f[s \ {Max(s)}], Max(s))
    <3>1. Max(s) \in S /\ s \ {Max(s)} \in SUBSET S /\ pick[s] = Max(s)
      BY <1>2, <2>5
    <3>2. f[s] = next[<<Max(s), f[s \ {Max(s)}]>>]
      BY <2>4, <2>5, <3>1 DEF IsFold
    <3> QED
      BY <3>1, <3>2
  <2>6. Eq(f)
    BY <2>4, <2>5 DEF IsFold
  <2> QED
    BY <2>6
<1>4. Eq(it)
  <2> HIDE DEF Eq
  <2> QED
    BY <1>3
<1>5. Ascending(S) = it[S]
  BY DEF Ascending, MapThenFoldSet
<1>6. {} \in T
  <2>1. it[{}] = <<>>
    <3> HIDE DEF it
    <3> QED
      BY <1>4
  <2>2. Lists(<<>>, {})
    OBVIOUS
  <2> HIDE DEF it, Lists
  <2> QED
    BY <2>1, <2>2
<1>7. ASSUME NEW s \in SUBSET S, s # {}
      PROVE  \E x \in s : s \ {x} \in T => s \in T
  <2> DEFINE m == Max(s)
             q == it[s \ {m}]
  <2>1. m \in s /\ m \in S /\ s \ {m} \in SUBSET S
    BY <1>2, <1>7
  <2>2. it[s] = Append(q, m)
    <3> HIDE DEF it
    <3> QED
      BY <1>4, <1>7
  <2> HIDE DEF it, m, q
  <2>3. ASSUME Lists(q, s \ {m}) PROVE Lists(Append(q, m), s)
    <3>1. q \in Seq(s) /\ Append(q, m) \in Seq(s) /\ Len(Append(q, m)) = Len(q) + 1 /\ Len(q) \in Nat
      BY <2>1, <2>3
    <3>2. Append(q, m)[Len(q) + 1] = m /\ \A k \in 1 .. Len(q) : Append(q, m)[k] = q[k] /\ q[k] # m
      BY <2>3
    <3>3. DOMAIN Append(q, m) = 1 .. Len(q) + 1 /\ DOMAIN q = 1 .. Len(q)
      BY <2>3
    <3>4. ASSUME NEW x \in s PROVE \E k \in 1 .. Len(q) + 1 : Append(q, m)[k] = x
      <4>1. CASE x = m
        BY <3>1, <3>2, <4>1
      <4>2. CASE x # m
        <5>1. PICK k \in 1 .. Len(q) : q[k] = x
          BY <2>3, <3>3, <4>2
        <5> QED
          BY <3>1, <3>2, <5>1
      <4> QED
        BY <4>1, <4>2
    <3>5. ASSUME NEW j \in 1 .. Len(q) + 1, NEW k \in 1 .. Len(q) + 1, j # k
          PROVE  Append(q, m)[j] # Append(q, m)[k]
      <4>1. \A i \in 1 .. Len(q) + 1 : i # Len(q) + 1 => i \in 1 .. Len(q)
        BY <3>1
      <4>2. \A i, h \in 1 .. Len(q) : i # h => q[i] # q[h]
        BY <2>3, <3>3
      <4> QED
        BY <3>2, <3>5, <4>1, <4>2
    <3> QED
      BY <3>1, <3>3, <3>4, <3>5
  <2> HIDE DEF Lists
  <2>4. s \ {m} \in T => s \in T
    BY <2>1, <2>2, <2>3 DEF q
  <2> QED
    BY <2>1, <2>4
<1>8. \A s \in SUBSET S : s \in T
  <2> HIDE DEF T
  <2> QED
    BY <1>1, <1>6, <1>7, SubsetInduction
<1>9. Lists(it[S], S)
  <2> HIDE DEF it, Lists
  <2> QED
    BY <1>8
<1> HIDE DEF it
<1> QED
  BY <1>5, <1>9

\* A node uses only what was added before it.
LEMMA ProducersFirst ==
    ASSUME GraphInv, NEW n \in Nodes, NEW m \in Nodes, Uses(n, nodes[m].out)
    PROVE  m < n
<1>1. /\ nodes[m].out \in Nat /\ nodes[n].out \in Nat
      /\ Nodes = 1 .. Len(nodes) /\ Len(nodes) \in Nat
  <2>1. nodes[m].out \in DOMAIN tensors /\ nodes[n].out \in DOMAIN tensors
    BY DEF GraphInv, Tensors
  <2>2. DOMAIN tensors \subseteq Nat
    BY SMTT(30) DEF GraphInv
  <2>3. Nodes = 1 .. Len(nodes) /\ Len(nodes) \in Nat
    BY DEF GraphInv, Nodes
  <2> QED
    BY <2>1, <2>2, <2>3
<1>2. PICK k \in DOMAIN nodes[n].ins : nodes[n].ins[k] = nodes[m].out
  BY DEF Uses
<1>3. nodes[n].ins[k] \in 1 .. nodes[n].out - 1
  BY DEF GraphInv
<1>4. nodes[m].out < nodes[n].out
  BY <1>1, <1>2, <1>3
<1>5. n < m => nodes[n].out < nodes[m].out
  BY DEF GraphInv
<1> QED
  BY <1>1, <1>4, <1>5

\* Kahn's algorithm for the nodes R whose producers are P: the queue and the order
\* share nothing, the queue holds just the nodes that can run and have not, and
\* every node of the order stands behind its producers.
Ordered(P, order) == \A k \in DOMAIN order : \A m \in P[order[k]] : \E j \in 1 .. k - 1 : order[j] = m

KahnInv(R, P, s) ==
    /\ s.queue \in Seq(R) /\ s.order \in Seq(R)
    /\ Distinct(s.queue) /\ Distinct(s.order)
    /\ Range(s.queue) \cap Range(s.order) = {}
    /\ \A v \in R : P[v] \subseteq Range(s.order) => v \in Range(s.order) \cup Range(s.queue)
    /\ \A v \in Range(s.queue) : P[v] \subseteq Range(s.order)
    /\ Ordered(P, s.order)

\* One round of the topological sort keeps its invariant.
LEMMA KahnStep ==
    ASSUME NEW R, NEW P \in [R -> SUBSET R], NEW s, KahnInv(R, P, s), s.queue # <<>>,
           NEW freed, NEW added \in Seq(R), Distinct(added), Range(added) = freed,
           freed = {v \in R : /\ Head(s.queue) \in P[v]
                              /\ P[v] \subseteq Range(s.order) \cup {Head(s.queue)}
                              /\ ~ P[v] \subseteq Range(s.order)}
    PROVE  KahnInv(R, P, [queue |-> Tail(s.queue) \o added, order |-> Append(s.order, Head(s.queue))])
<1> DEFINE u == Head(s.queue)
           queue == Tail(s.queue)
           order == Append(s.order, u)
           done == Range(s.order)
<1>1. /\ s.queue \in Seq(R) /\ s.order \in Seq(R)
      /\ Distinct(s.queue) /\ Distinct(s.order)
      /\ Range(s.queue) \cap done = {}
      /\ \A v \in R : P[v] \subseteq done => v \in done \cup Range(s.queue)
      /\ \A v \in Range(s.queue) : P[v] \subseteq done
      /\ Ordered(P, s.order)
  BY DEF KahnInv
<1>2. /\ u \in R /\ queue \in Seq(R) /\ Distinct(queue)
      /\ Range(s.queue) = {u} \cup Range(queue) /\ u \notin Range(queue)
  BY <1>1, DistinctTail
<1> HIDE DEF u, queue
<1>3. order \in Seq(R) /\ Distinct(order) /\ Range(order) = done \cup {u}
  BY <1>1, <1>2, DistinctAppend
<1>4. \A v \in done : P[v] \subseteq done
  <2> SUFFICES ASSUME NEW k \in DOMAIN s.order, NEW m \in P[s.order[k]] PROVE m \in done
    BY DEF Range
  <2>1. DOMAIN s.order = 1 .. Len(s.order) /\ Len(s.order) \in Nat
    BY <1>1
  <2>2. PICK j \in 1 .. k - 1 : s.order[j] = m
    BY <1>1 DEF Ordered
  <2>3. j \in DOMAIN s.order
    BY <2>1
  <2> QED
    BY <2>2, <2>3 DEF Range
<1>5. freed = {v \in R : u \in P[v] /\ P[v] \subseteq done \cup {u} /\ ~ P[v] \subseteq done}
  BY DEF u
<1>6. Range(queue) \cap Range(added) = {}
  BY <1>1, <1>2, <1>5
<1>7. /\ queue \o added \in Seq(R) /\ Distinct(queue \o added)
      /\ Range(queue \o added) = Range(queue) \cup freed
  <2>1. /\ queue \o added \in Seq(R) /\ Distinct(queue \o added)
        /\ Range(queue \o added) = Range(queue) \cup Range(added)
    BY <1>2, <1>6, DistinctConcat
  <2> QED
    BY <2>1
<1> HIDE DEF order, done
<1>8. Range(queue \o added) \cap Range(order) = {}
  BY <1>1, <1>2, <1>3, <1>4, <1>5, <1>7
<1>9. ASSUME NEW v \in R, P[v] \subseteq Range(order)
      PROVE  v \in Range(order) \cup Range(queue \o added)
  BY <1>1, <1>2, <1>3, <1>5, <1>7, <1>9
<1>10. ASSUME NEW v \in Range(queue \o added) PROVE P[v] \subseteq Range(order)
  BY <1>1, <1>2, <1>3, <1>5, <1>7, <1>10
<1>11. Ordered(P, order)
  <2> SUFFICES ASSUME NEW k \in DOMAIN order, NEW m \in P[order[k]] PROVE \E j \in 1 .. k - 1 : order[j] = m
    BY DEF Ordered
  <2>1. /\ Len(s.order) \in Nat /\ DOMAIN s.order = 1 .. Len(s.order)
        /\ DOMAIN order = 1 .. Len(s.order) + 1
        /\ order[Len(s.order) + 1] = u
        /\ \A j \in 1 .. Len(s.order) : order[j] = s.order[j]
    BY <1>1, <1>2 DEF order
  <2>2. CASE k = Len(s.order) + 1
    <3>1. m \in done
      BY <1>1, <1>2, <2>1, <2>2
    <3>2. PICK j \in DOMAIN s.order : s.order[j] = m
      BY <3>1 DEF done, Range
    <3> QED
      BY <2>1, <2>2, <3>2
  <2>3. CASE k # Len(s.order) + 1
    <3>1. k \in DOMAIN s.order /\ order[k] = s.order[k]
      BY <2>1, <2>3
    <3>2. PICK j \in 1 .. k - 1 : s.order[j] = m
      BY <1>1, <3>1 DEF Ordered
    <3>3. j \in 1 .. Len(s.order)
      BY <2>1, <3>1
    <3> QED
      BY <2>1, <3>2, <3>3
  <2> QED
    BY <2>2, <2>3
<1>12. KahnInv(R, P, [queue |-> queue \o added, order |-> order])
  BY <1>3, <1>7, <1>8, <1>9, <1>10, <1>11 DEF KahnInv
<1> QED
  BY <1>12 DEF queue, order, u

\* The order in which a build runs the required nodes is a schedule: each of them
\* once, and behind its producers.
LEMMA TopologicalOrderFacts ==
    ASSUME GraphInv
    PROVE  /\ TopologicalOrder \in Seq(Required)
           /\ Distinct(TopologicalOrder)
           /\ Range(TopologicalOrder) = Required
           /\ \A k \in DOMAIN TopologicalOrder : \A m \in Required :
                 Uses(TopologicalOrder[k], nodes[m].out) => \E j \in 1 .. k - 1 : TopologicalOrder[j] = m
<1> DEFINE required == Required
           producers == [n \in required |-> {m \in required : Uses(n, nodes[m].out)}]
           Pop(s) ==
               LET done == Range(s.order)
                   u == Head(s.queue)
                   freed == {v \in required : /\ u \in producers[v]
                                              /\ Ready(producers[v], done \cup {u})
                                              /\ ~ Ready(producers[v], done)}
               IN  [queue |-> Tail(s.queue) \o Ascending(freed), order |-> Append(s.order, u)]
           first == [queue |-> Ascending({n \in required : Ready(producers[n], {})}), order |-> <<>>]
           Eq(f) == f = [k \in 0 .. Len(nodes) |->
                            IF k = 0
                            THEN [queue |-> Ascending({n \in required : Ready(producers[n], {})}), order |-> <<>>]
                            ELSE LET s == f[k - 1] IN IF s.queue = <<>> THEN s ELSE Pop(s)]
           after == CHOOSE f : Eq(f)
           N == Len(nodes)
           Inv(s) == KahnInv(required, producers, s)
           D == {s \in [queue : Seq(required), order : Seq(required)] : Inv(s)}
           next == [s \in D |-> IF s.queue = <<>> THEN s ELSE Pop(s)]
<1>1. /\ required \subseteq Nodes /\ Nodes = 1 .. N /\ N \in Nat
      /\ producers \in [required -> SUBSET required]
      /\ \A n \in required : \A m \in producers[n] : m < n
  <2>1. required \subseteq Nodes
    BY RequiredClosed
  <2>2. Nodes = 1 .. N /\ N \in Nat
    BY DEF GraphInv, Nodes
  <2>3. producers \in [required -> SUBSET required]
    OBVIOUS
  <2>4. ASSUME NEW n \in required, NEW m \in producers[n] PROVE m < n
    <3>1. n \in Nodes /\ m \in Nodes /\ Uses(n, nodes[m].out)
      BY <2>1
    <3> QED
      BY <3>1, ProducersFirst
  <2> QED
    BY <2>1, <2>2, <2>3, <2>4
<1>2. \A S \in SUBSET required : Ascending(S) \in Seq(required) /\ Distinct(Ascending(S)) /\ Range(Ascending(S)) = S
  <2> SUFFICES ASSUME NEW S \in SUBSET required
               PROVE  Ascending(S) \in Seq(required) /\ Distinct(Ascending(S)) /\ Range(Ascending(S)) = S
    OBVIOUS
  <2>1. S \in SUBSET (1 .. N)
    BY <1>1
  <2>2. /\ Ascending(S) \in Seq(S)
        /\ \A x \in S : \E k \in DOMAIN Ascending(S) : Ascending(S)[k] = x
        /\ \A j, k \in DOMAIN Ascending(S) : j # k => Ascending(S)[j] # Ascending(S)[k]
    BY <1>1, <2>1, AscendingFacts
  <2>3. \A k \in DOMAIN Ascending(S) : Ascending(S)[k] \in S
    BY <2>2
  <2>4. Range(Ascending(S)) = S
    BY <2>2, <2>3 DEF Range
  <2>5. Ascending(S) \in Seq(required)
    BY <2>2
  <2> QED
    BY <2>2, <2>4, <2>5 DEF Distinct
<1>3. first \in D
  <2> DEFINE q == Ascending({n \in required : Ready(producers[n], {})})
  <2>1. q \in Seq(required) /\ Distinct(q) /\ Range(q) = {n \in required : producers[n] \subseteq {}}
    BY <1>2 DEF Ready
  <2> HIDE DEF q
  <2>2. /\ <<>> \in Seq(required) /\ Distinct(<<>>) /\ Range(<<>>) = {} /\ Ordered(producers, <<>>)
    BY DEF Distinct, Range, Ordered
  <2> HIDE DEF producers
  <2>3. KahnInv(required, producers, [queue |-> q, order |-> <<>>])
    BY <2>1, <2>2 DEF KahnInv
  <2> QED
    BY <2>1, <2>2, <2>3 DEF q, producers
<1>4. ASSUME NEW s \in D, s.queue # <<>>
      PROVE  /\ Pop(s) \in D
             /\ Len(Pop(s).order) = Len(s.order) + 1
  <2> DEFINE u == Head(s.queue)
             freed == {v \in required : /\ u \in producers[v]
                                        /\ Ready(producers[v], Range(s.order) \cup {u})
                                        /\ ~ Ready(producers[v], Range(s.order))}
  <2>1. Pop(s) = [queue |-> Tail(s.queue) \o Ascending(freed), order |-> Append(s.order, u)]
    OBVIOUS
  <2>2. /\ freed \in SUBSET required
        /\ freed = {v \in required : /\ Head(s.queue) \in producers[v]
                                     /\ producers[v] \subseteq Range(s.order) \cup {Head(s.queue)}
                                     /\ ~ producers[v] \subseteq Range(s.order)}
    BY DEF Ready
  <2>3. Ascending(freed) \in Seq(required) /\ Distinct(Ascending(freed)) /\ Range(Ascending(freed)) = freed
    BY <1>2, <2>2
  <2> HIDE DEF required, producers, freed, Pop, u
  <2>4. KahnInv(required, producers,
                [queue |-> Tail(s.queue) \o Ascending(freed), order |-> Append(s.order, Head(s.queue))])
    BY <1>1, <1>4, <2>2, <2>3, KahnStep
  <2>5. /\ Tail(s.queue) \o Ascending(freed) \in Seq(required)
        /\ Append(s.order, Head(s.queue)) \in Seq(required)
    BY <2>4 DEF KahnInv
  <2>6. Len(Append(s.order, u)) = Len(s.order) + 1
    OBVIOUS
  <2> QED
    BY <2>1, <2>4, <2>5, <2>6 DEF u
<1> HIDE DEF first, Inv, Pop
<1>5. next \in [D -> D]
  <2> HIDE DEF D
  <2> QED
    BY <1>4
<1>6. \E f : Eq(f)
  <2>1. PICK f \in [0 .. N -> D] : f[0] = first /\ \A k \in 1 .. N : f[k] = next[f[k - 1]]
    <3>1. N \in Nat
      BY <1>1
    <3> HIDE DEF D, next, N
    <3>2. \E f \in [0 .. N -> D] : Iterates(f, first, next, N)
      BY <1>3, <1>5, <3>1, Recursion
    <3> QED
      BY <3>2 DEF Iterates
  <2>2. ASSUME NEW k \in 0 .. N, k # 0
        PROVE  f[k] = IF f[k - 1].queue = <<>> THEN f[k - 1] ELSE Pop(f[k - 1])
    <3>1. k - 1 \in 0 .. N /\ k \in 1 .. N
      BY <1>1, <2>2
    <3>2. f[k - 1] \in D
      BY <2>1, <3>1
    <3> HIDE DEF D
    <3> QED
      BY <2>1, <3>1, <3>2
  <2>3. Eq(f)
    <3> HIDE DEF D
    <3> QED
      BY <2>1, <2>2 DEF first
  <2> QED
    <3> HIDE DEF Eq
    <3> QED
      BY <2>3
<1>7. Eq(after)
  <2> HIDE DEF Eq
  <2> QED
    BY <1>6
<1>8. /\ after[0] = first
      /\ \A k \in 0 .. N : k # 0 => after[k] = IF after[k - 1].queue = <<>> THEN after[k - 1] ELSE Pop(after[k - 1])
  <2> HIDE DEF after
  <2>1. after = [k \in 0 .. N |->
                    IF k = 0 THEN first
                    ELSE IF after[k - 1].queue = <<>> THEN after[k - 1] ELSE Pop(after[k - 1])]
    BY <1>7 DEF first
  <2> QED
    BY <1>1, <2>1
<1>9. TopologicalOrder = after[N].order
  BY DEF TopologicalOrder, Pop
<1> DEFINE T == {k \in 0 .. N : after[k] \in D /\ (after[k].queue = <<>> \/ Len(after[k].order) = k)}
<1> HIDE DEF after, Eq, next
<1>10. 0 \in T
  <2>1. Len(first.order) = 0
    BY DEF first
  <2> HIDE DEF D
  <2> QED
    BY <1>1, <1>3, <1>8, <2>1
<1>11. ASSUME NEW k \in 0 .. N - 1, k \in T PROVE k + 1 \in T
  <2>1. k + 1 \in 0 .. N /\ k + 1 # 0 /\ (k + 1) - 1 = k /\ k \in Int
    BY <1>1
  <2>2. after[k + 1] = IF after[k].queue = <<>> THEN after[k] ELSE Pop(after[k])
    BY <1>8, <2>1
  <2> HIDE DEF D
  <2> QED
    BY <1>4, <1>11, <2>1, <2>2
<1>12. N \in T
  <2> HIDE DEF T
  <2>1. \A k \in 0 .. N : k \in T
    BY <1>1, <1>10, <1>11, BoundedInduction
  <2> QED
    BY <1>1, <2>1
<1> DEFINE s == after[N]
<1>13. s \in D /\ (s.queue = <<>> \/ Len(s.order) = N)
  <2> HIDE DEF D
  <2> QED
    BY <1>12
<1>14. /\ s.queue \in Seq(required) /\ s.order \in Seq(required)
       /\ Distinct(s.queue) /\ Distinct(s.order)
       /\ Range(s.queue) \cap Range(s.order) = {}
       /\ \A v \in required : producers[v] \subseteq Range(s.order) => v \in Range(s.order) \cup Range(s.queue)
       /\ Ordered(producers, s.order)
  <2> HIDE DEF s, producers
  <2> QED
    BY <1>13 DEF KahnInv, Inv
<1> HIDE DEF s, required, producers, D, T
<1> HIDE DEF N
<1>20. \A n \in required : n \in 1 .. N /\ n \in Nat
  BY <1>1
<1>15. s.queue = <<>>
  <2> SUFFICES ASSUME s.queue # <<>> PROVE FALSE
    OBVIOUS
  <2> DEFINE u == Head(s.queue)
             q == Append(s.order, u)
  <2>1. u \in required /\ Range(s.queue) = {u} \cup Range(Tail(s.queue))
    BY <1>14, DistinctTail
  <2>2. u \notin Range(s.order)
    BY <1>14, <2>1
  <2> HIDE DEF u
  <2>3. q \in Seq(required) /\ Distinct(q)
    BY <1>14, <2>1, <2>2, DistinctAppend
  <2>4. Len(q) = N + 1
    BY <1>13, <1>14
  <2>5. q \in Seq(1 .. N)
    <3>1. required \subseteq 1 .. N
      BY <1>20
    <3> QED
      BY <2>3, <3>1, SeqMonotonic
  <2> HIDE DEF q
  <2>6. Len(q) <= N
    BY <1>1, <2>3, <2>5, DistinctLength
  <2> QED
    BY <1>1, <2>4, <2>6
<1>16. Range(s.order) \subseteq required
  BY <1>14 DEF Range
<1>17. required \subseteq Range(s.order)
  <2> SUFFICES ASSUME required \ Range(s.order) # {} PROVE FALSE
    OBVIOUS
  <2>1. required \ Range(s.order) \in SUBSET Nat
    BY <1>20
  <2>2. PICK v \in required \ Range(s.order) : \A w \in required \ Range(s.order) : v <= w
    BY <2>1, LeastNat
  <2>3. producers[v] \subseteq Range(s.order)
    BY <1>1, <2>1, <2>2
  <2>4. Range(s.queue) = {}
    BY <1>15 DEF Range
  <2> QED
    BY <1>14, <2>2, <2>3, <2>4
<1>18. ASSUME NEW k \in DOMAIN s.order, NEW m \in required, Uses(s.order[k], nodes[m].out)
       PROVE  \E j \in 1 .. k - 1 : s.order[j] = m
  <2>1. s.order[k] \in required
    BY <1>14
  <2>2. m \in producers[s.order[k]]
    BY <1>18, <2>1 DEF producers
  <2> QED
    BY <1>14, <2>2 DEF Ordered
<1>19. TopologicalOrder = s.order
  BY <1>9 DEF s
<1> QED
  BY <1>14, <1>16, <1>17, <1>18, <1>19 DEF required

-----------------------------------------------------------------------------
(* Shapes.                                                                 *)

\* The operands a node of a graph has: what op_signature accepted.
ShapesOK ==
    \A n \in Nodes :
        /\ nodes[n].op \in Ops
        /\ nodes[n].ins \in Seq(Nat) /\ Len(nodes[n].ins) = (IF nodes[n].op = "MatMul" THEN 2 ELSE 1)
        /\ nodes[n].op \in {"Reshape", "Transpose"} =>
              tensors[nodes[n].ins[1]].size = tensors[nodes[n].out].size
-----------------------------------------------------------------------------
(* Views.                                                                  *)

\* Node n made its result a view of its operand.
Viewed(dev, order, views, n) ==
    LET in == nodes[n].ins[1]
        out == nodes[n].out
    IN  /\ views.strides[in] = "row"
        /\ views.root[out] = views.root[in]
        /\ \/ nodes[n].op = "Reshape" /\ views.strides[out] = "row"
           \/ /\ nodes[n].op = "Transpose" /\ views.strides[out] = "swapped"
              /\ dev \in {"CPU", "CUDA"}
              /\ out \notin explicit \cup Protected(Active(order))
              /\ CanFuse(dev, order, n)

\* A group is a root and what was viewed, directly or through other views: the
\* root comes first, all are of one size, and each but the root has a node of the
\* order that made it a view.
ViewsOK(dev, order, views) ==
    /\ views.root \in [Tensors -> Tensors] /\ views.strides \in [Tensors -> {"row", "swapped"}]
    /\ \A i \in Tensors :
          /\ views.root[i] <= i
          /\ views.root[views.root[i]] = views.root[i]
          /\ tensors[views.root[i]].size = tensors[i].size
          /\ views.root[i] # i =>
                \E n \in Range(order) : nodes[n].out = i /\ Viewed(dev, order, views, n)
          /\ views.root[i] # i => views.root[i] \in Touched(order)
          /\ views.root[i] = i => views.strides[i] = tensors[i].strides

\* What the nodes of a graph are, in the form the proofs use.
LEMMA NodeFacts ==
    ASSUME GraphInv, ShapesOK
    PROVE  /\ Tensors = 1 .. Len(tensors) /\ Len(tensors) \in Nat
           /\ Nodes = 1 .. Len(nodes) /\ Len(nodes) \in Nat
           /\ \A n \in Nodes :
                 /\ nodes[n].out \in Tensors
                 /\ 1 \in DOMAIN nodes[n].ins
                 /\ \A k \in DOMAIN nodes[n].ins : nodes[n].ins[k] \in Tensors /\ nodes[n].ins[k] < nodes[n].out
           /\ \A m, n \in Nodes : nodes[m].out = nodes[n].out => m = n
           /\ \A i \in Tensors : tensors[i].size \in Nat /\ tensors[i].strides \in {"row", "swapped"}
<1>1. Tensors = 1 .. Len(tensors) /\ Len(tensors) \in Nat
  BY DEF GraphInv, Tensors
<1>2. Nodes = 1 .. Len(nodes) /\ Len(nodes) \in Nat
  BY DEF GraphInv, Nodes
<1>3. ASSUME NEW n \in Nodes PROVE nodes[n].out \in Tensors
  BY DEF GraphInv
<1>4. ASSUME NEW n \in Nodes PROVE 1 \in DOMAIN nodes[n].ins
  <2>1. nodes[n].ins \in Seq(Nat) /\ Len(nodes[n].ins) \in {1, 2}
    BY DEF ShapesOK
  <2> QED
    BY <2>1
<1>5. ASSUME NEW n \in Nodes, NEW k \in DOMAIN nodes[n].ins
      PROVE  nodes[n].ins[k] \in Tensors /\ nodes[n].ins[k] < nodes[n].out
  <2>1. nodes[n].ins[k] \in 1 .. nodes[n].out - 1
    BY DEF GraphInv
  <2> QED
    BY <1>1, <1>3, <2>1
<1>6. ASSUME NEW m \in Nodes, NEW n \in Nodes, nodes[m].out = nodes[n].out PROVE m = n
  <2>1. m < n => nodes[m].out < nodes[n].out
    BY DEF GraphInv
  <2>2. n < m => nodes[n].out < nodes[m].out
    BY DEF GraphInv
  <2>3. nodes[n].out \in Nat
    BY <1>1, <1>3
  <2> QED
    BY <1>2, <1>6, <2>1, <2>2, <2>3
<1>7. ASSUME NEW i \in Tensors PROVE tensors[i].size \in Nat /\ tensors[i].strides \in {"row", "swapped"}
  <2>1. tensors[i] \in [rank : Ranks, size : Sizes, strides : {"row", "swapped"}, data : Nat,
                        offset : Nat, device : Devices \cup {"CPU"}]
    BY <1>1, ElementOfSeq DEF GraphInv
  <2> QED
    BY <2>1, GraphAssumption
<1> QED
  BY <1>1, <1>2, <1>3, <1>4, <1>5, <1>6, <1>7

\* Adding one view keeps the groups as they should be: what is joined to a group
\* was a group of its own, and no node reads a transposed view to view it again.
LEMMA AddViewKeepsViews ==
    ASSUME GraphInv, ShapesOK, NEW dev, NEW order \in Seq(Nodes), NEW n \in Range(order),
           NEW views, ViewsOK(dev, order, views)
    PROVE  ViewsOK(dev, order, AddView(dev, order, views, n))
<1> DEFINE in == nodes[n].ins[1]
           out == nodes[n].out
           joined == [i \in Tensors |-> IF views.root[i] = views.root[out] THEN views.root[in] ELSE views.root[i]]
           View(s) == [root |-> joined, strides |-> [views.strides EXCEPT ![out] = s]]
           Fuses == /\ nodes[n].op = "Transpose"
                    /\ dev \in {"CPU", "CUDA"}
                    /\ out \notin explicit \cup Protected(Active(order))
                    /\ CanFuse(dev, order, n)
<1>1. Range(order) \subseteq Nodes
  BY DEF Range
<1>2. n \in Nodes
  BY <1>1
<1>3. /\ in \in Tensors /\ out \in Tensors /\ in \in Nat /\ out \in Nat /\ in < out /\ in # out
      /\ \A i \in Tensors : i \in Nat
  BY <1>2, NodeFacts
<1>4. in \in Touched(order) /\ in \in Range(nodes[n].ins) /\ Uses(n, in)
  <2>1. 1 \in DOMAIN nodes[n].ins
    BY <1>2, NodeFacts
  <2> QED
    BY <2>1 DEF Touched, Range, Uses
<1>5. \A m \in Range(order) : nodes[m].out = out => m = n
  BY <1>1, <1>2, NodeFacts
<1>6. /\ views.root \in [Tensors -> Tensors] /\ views.strides \in [Tensors -> {"row", "swapped"}]
      /\ \A i \in Tensors :
          /\ views.root[i] <= i
          /\ views.root[views.root[i]] = views.root[i]
          /\ tensors[views.root[i]].size = tensors[i].size
          /\ views.root[i] # i =>
                \E m \in Range(order) : nodes[m].out = i /\ Viewed(dev, order, views, m)
          /\ views.root[i] # i => views.root[i] \in Touched(order)
          /\ views.root[i] = i => views.strides[i] = tensors[i].strides
  BY DEF ViewsOK
<1>7. AddView(dev, order, views, n) =
        IF views.strides[in] # "row" THEN views
        ELSE CASE nodes[n].op = "Reshape" -> View("row")
               [] Fuses -> View("swapped")
               [] OTHER -> views
  BY DEF AddView
<1>8. \/ AddView(dev, order, views, n) = views
      \/ /\ views.strides[in] = "row"
         /\ \/ nodes[n].op = "Reshape" /\ AddView(dev, order, views, n) = View("row")
            \/ Fuses /\ AddView(dev, order, views, n) = View("swapped")
  <2> HIDE DEF View, Fuses
  <2> QED
    BY <1>7
<1>9. CASE AddView(dev, order, views, n) = views
  BY <1>9
<1>10. ASSUME NEW s \in {"row", "swapped"}, views.strides[in] = "row",
              (nodes[n].op = "Reshape" /\ s = "row") \/ (Fuses /\ s = "swapped")
       PROVE  ViewsOK(dev, order, View(s))
  <2> DEFINE new == View(s)
  <2>1. /\ joined \in [Tensors -> Tensors]
        /\ [views.strides EXCEPT ![out] = s] \in [Tensors -> {"row", "swapped"}]
    BY <1>3, <1>6
  <2>2. \/ views.root[out] = out
        \/ views.root[out] # out /\ views.root[out] = views.root[in]
    <3> SUFFICES ASSUME views.root[out] # out PROVE views.root[out] = views.root[in]
      OBVIOUS
    <3>1. PICK m \in Range(order) : nodes[m].out = out /\ Viewed(dev, order, views, m)
      BY <1>3, <1>6
    <3>2. m = n
      BY <1>5, <3>1
    <3> QED
      BY <3>1, <3>2 DEF Viewed
  <2>3. \A i \in Tensors : joined[i] = IF views.root[i] = views.root[out] THEN views.root[in] ELSE views.root[i]
    OBVIOUS
  <2>4. \A i \in Tensors : i # out => new.strides[i] = views.strides[i]
    BY <1>6
  <2>5. new.strides[out] = s
    BY <1>3, <1>6
  <2>6. new.root = joined
    OBVIOUS
  <2>7. views.root[in] \in Tensors /\ views.root[in] <= in /\ views.root[in] # out
    <3>1. views.root[in] \in Tensors /\ views.root[in] <= in
      BY <1>3, <1>6
    <3> QED
      BY <1>3, <3>1
  <2>8. joined[in] = views.root[in] /\ joined[out] = views.root[in] /\ joined[views.root[in]] = views.root[in]
    BY <1>3, <1>6, <2>2, <2>3, <2>7
  <2>9. /\ tensors[out].size = tensors[in].size
        /\ tensors[views.root[in]].size = tensors[in].size
    BY <1>2, <1>3, <1>6, <1>10 DEF ShapesOK
  <2> HIDE DEF joined
  <2>10. ASSUME NEW m \in Range(order), nodes[m].out # out, Viewed(dev, order, views, m)
         PROVE  Viewed(dev, order, new, m)
    <3> DEFINE min == nodes[m].ins[1]
               mout == nodes[m].out
    <3>1. min \in Tensors /\ mout \in Tensors /\ 1 \in DOMAIN nodes[m].ins
      BY <1>1, NodeFacts
    <3>2. views.strides[min] = "row" /\ views.root[mout] = views.root[min]
      BY <2>10 DEF Viewed
    <3>3. new.strides[min] = "row"
      <4>1. CASE min = out /\ Fuses
        <5>1. nodes[m].op = "MatMul"
          BY <3>1, <4>1 DEF CanFuse, Uses
        <5> QED
          BY <2>10, <5>1 DEF Viewed
      <4>2. CASE min = out /\ s = "row"
        BY <2>5, <4>2
      <4>3. CASE min # out
        BY <2>4, <3>1, <3>2, <4>3
      <4> QED
        BY <1>10, <4>1, <4>2, <4>3
    <3>4. new.root[mout] = new.root[min]
      BY <2>3, <2>6, <3>1, <3>2
    <3>5. new.strides[mout] = views.strides[mout]
      BY <2>4, <2>10, <3>1
    <3> HIDE DEF new
    <3> QED
      BY <2>10, <3>3, <3>4, <3>5 DEF Viewed
  <2>11. Viewed(dev, order, new, n)
    <3>1. new.strides[in] = "row" /\ new.root[out] = new.root[in]
      BY <1>3, <1>10, <2>4, <2>6, <2>8
    <3> HIDE DEF new
    <3>2. CASE nodes[n].op = "Reshape" /\ s = "row"
      BY <2>5, <3>1, <3>2 DEF Viewed
    <3>3. CASE Fuses /\ s = "swapped"
      BY <2>5, <3>1, <3>3 DEF Viewed
    <3> QED
      BY <1>10, <3>2, <3>3
  <2>12. ASSUME NEW i \in Tensors
         PROVE  /\ new.root[i] <= i
                /\ new.root[new.root[i]] = new.root[i]
                /\ tensors[new.root[i]].size = tensors[i].size
                /\ new.root[i] # i =>
                      \E m \in Range(order) : nodes[m].out = i /\ Viewed(dev, order, new, m)
                /\ new.root[i] # i => new.root[i] \in Touched(order)
                /\ new.root[i] = i => new.strides[i] = tensors[i].strides
    <3>1. CASE views.root[i] = views.root[out] /\ views.root[out] = out
      <4>1. new.root[i] = views.root[in]
        BY <2>3, <2>6, <3>1
      <4>2. /\ i \in Nat /\ out <= i /\ views.root[in] < i /\ views.root[in] \in Nat
        BY <1>3, <1>6, <2>7, <3>1
      <4>3. tensors[i].size = tensors[out].size
        BY <1>3, <1>6, <3>1
      <4>4. \E m \in Range(order) : nodes[m].out = i /\ Viewed(dev, order, new, m)
        <5>1. CASE i = out
          BY <2>11, <5>1
        <5>2. CASE i # out
          <6>1. PICK m \in Range(order) : nodes[m].out = i /\ Viewed(dev, order, views, m)
            BY <1>6, <3>1, <5>2
          <6>2. Viewed(dev, order, new, m)
            BY <2>10, <5>2, <6>1
          <6> QED
            BY <6>1, <6>2
        <5> QED
          BY <5>1, <5>2
      <4>5. views.root[in] \in Touched(order)
        BY <1>3, <1>4, <1>6
      <4>6. new.root[new.root[i]] = new.root[i]
        BY <2>6, <2>8, <4>1
      <4> HIDE DEF new
      <4>7. tensors[new.root[i]].size = tensors[i].size
        BY <2>9, <4>1, <4>3
      <4>8. new.root[i] <= i /\ new.root[i] # i
        BY <4>1, <4>2
      <4>9. new.root[i] \in Touched(order)
        BY <4>1, <4>5
      <4> QED
        BY <4>4, <4>6, <4>7, <4>8, <4>9
    <3>2. CASE views.root[i] # views.root[out] \/ views.root[out] # out
      <4>1. new.root[i] = views.root[i]
        BY <2>2, <2>3, <2>6, <3>2
      <4>2. new.root[views.root[i]] = views.root[i]
        <5>1. views.root[i] \in Tensors /\ views.root[views.root[i]] = views.root[i]
          BY <1>6
        <5> QED
          BY <2>2, <2>3, <2>6, <3>2, <5>1
      <4>3. ASSUME views.root[i] # i
            PROVE  \E m \in Range(order) : nodes[m].out = i /\ Viewed(dev, order, new, m)
        <5>1. PICK m \in Range(order) : nodes[m].out = i /\ Viewed(dev, order, views, m)
          BY <1>6, <4>3
        <5>2. CASE i = out
          BY <2>11, <5>2
        <5>3. CASE i # out
          BY <2>10, <5>1, <5>3
        <5> QED
          BY <5>2, <5>3
      <4>4. ASSUME views.root[i] = i PROVE new.strides[i] = tensors[i].strides
        <5>1. i # out
          BY <2>2, <2>7, <3>2, <4>4
        <5> QED
          BY <1>6, <2>4, <4>4, <5>1
      <4> HIDE DEF new
      <4> QED
        BY <1>6, <4>1, <4>2, <4>3, <4>4
    <3> QED
      BY <3>1, <3>2
  <2>13. new.root \in [Tensors -> Tensors] /\ new.strides \in [Tensors -> {"row", "swapped"}]
    BY <2>1
  <2> HIDE DEF new
  <2>14. ViewsOK(dev, order, new)
    BY <2>12, <2>13 DEF ViewsOK
  <2> QED
    BY <2>14 DEF new
<1> QED
  BY <1>8, <1>9, <1>10

AllViews == [root : [Tensors -> Tensors], strides : [Tensors -> {"row", "swapped"}]]

\* Making one view yields views.
LEMMA AddViewIsViews ==
    ASSUME GraphInv, ShapesOK, NEW dev, NEW order \in Seq(Nodes), NEW n \in Nodes, NEW views \in AllViews
    PROVE  AddView(dev, order, views, n) \in AllViews
<1> DEFINE in == nodes[n].ins[1]
           out == nodes[n].out
           joined == [i \in Tensors |-> IF views.root[i] = views.root[out] THEN views.root[in] ELSE views.root[i]]
           View(s) == [root |-> joined, strides |-> [views.strides EXCEPT ![out] = s]]
           Fuses == /\ nodes[n].op = "Transpose"
                    /\ dev \in {"CPU", "CUDA"}
                    /\ out \notin explicit \cup Protected(Active(order))
                    /\ CanFuse(dev, order, n)
<1>1. in \in Tensors /\ out \in Tensors
  BY NodeFacts
<1>2. \A s \in {"row", "swapped"} : View(s) \in AllViews
  <2>1. joined \in [Tensors -> Tensors]
    BY <1>1 DEF AllViews
  <2>2. \A s \in {"row", "swapped"} : [views.strides EXCEPT ![out] = s] \in [Tensors -> {"row", "swapped"}]
    BY <1>1 DEF AllViews
  <2> HIDE DEF joined
  <2> QED
    BY <2>1, <2>2 DEF AllViews
<1>3. AddView(dev, order, views, n) =
        IF views.strides[in] # "row" THEN views
        ELSE CASE nodes[n].op = "Reshape" -> View("row")
               [] Fuses -> View("swapped")
               [] OTHER -> views
  BY DEF AddView
<1> HIDE DEF View, Fuses
<1> QED
  BY <1>2, <1>3

\* The views a build computes.
LEMMA ViewsFacts ==
    ASSUME GraphInv, ShapesOK, NEW dev, NEW order \in Seq(Nodes)
    PROVE  ViewsOK(dev, order, Views(dev, order))
<1> DEFINE none == [root |-> [i \in Tensors |-> i], strides |-> [i \in Tensors |-> tensors[i].strides]]
           S == DOMAIN order
           Eq(f) == f = [s \in SUBSET S |->
                            IF s = {} THEN none
                            ELSE AddView(dev, order, f[s \ {Max(s)}], order[Max(s)])]
           it == CHOOSE f : Eq(f)
           D == {v \in AllViews : ViewsOK(dev, order, v)}
           pick == [s \in SUBSET S |-> Max(s)]
           next == [p \in S \X D |-> AddView(dev, order, p[2], order[p[1]])]
<1>1. S = 1 .. Len(order) /\ Len(order) \in Nat /\ IsFiniteSet(S)
  <2>1. S = 1 .. Len(order) /\ Len(order) \in Nat
    OBVIOUS
  <2> QED
    BY <2>1, FS_Interval
<1>2. \A k \in S : order[k] \in Nodes /\ order[k] \in Range(order)
  BY DEF Range
<1>3. \A s \in SUBSET S : s # {} => Max(s) \in s
  <2> SUFFICES ASSUME NEW s \in SUBSET S, s # {} PROVE Max(s) \in s
    OBVIOUS
  <2>1. s \in SUBSET Nat /\ \A k \in s : k <= Len(order)
    BY <1>1
  <2> QED
    BY <1>1, <2>1, MaxNat
<1> HIDE DEF S
<1>4. none \in D
  <2>1. none \in AllViews
    BY NodeFacts DEF AllViews
  <2>2. ViewsOK(dev, order, none)
    <3>1. \A i \in Tensors : i \in Nat /\ none.root[i] = i /\ none.strides[i] = tensors[i].strides
      BY NodeFacts
    <3>2. none.root \in [Tensors -> Tensors] /\ none.strides \in [Tensors -> {"row", "swapped"}]
      BY <2>1 DEF AllViews
    <3> HIDE DEF none
    <3> QED
      BY <3>1, <3>2 DEF ViewsOK
  <2> QED
    BY <2>1, <2>2
<1>5. ASSUME NEW k \in S, NEW v \in D PROVE AddView(dev, order, v, order[k]) \in D
  <2>1. AddView(dev, order, v, order[k]) \in AllViews
    BY <1>2, AddViewIsViews
  <2>2. ViewsOK(dev, order, AddView(dev, order, v, order[k]))
    BY <1>2, AddViewKeepsViews
  <2> QED
    BY <2>1, <2>2
<1>6. \E f \in [SUBSET S -> D] : Eq(f)
  <2> HIDE DEF D, none
  <2>1. Picks(pick, S)
    BY <1>3 DEF Picks
  <2>2. Folds(none, next, S, D)
    BY <1>4, <1>5 DEF Folds
  <2>3. PICK f \in [SUBSET S -> D] : IsFold(f, none, pick, next, S)
    <3> HIDE DEF pick, next
    <3> QED
      BY <1>1, <2>1, <2>2, FoldExists
  <2>4. ASSUME NEW s \in SUBSET S, s # {}
        PROVE  f[s] = AddView(dev, order, f[s \ {Max(s)}], order[Max(s)])
    <3>1. Max(s) \in S /\ s \ {Max(s)} \in SUBSET S /\ pick[s] = Max(s)
      BY <1>3, <2>4
    <3>2. f[s] = next[<<Max(s), f[s \ {Max(s)}]>>]
      BY <2>3, <2>4, <3>1 DEF IsFold
    <3> QED
      BY <3>1, <3>2
  <2>5. Eq(f)
    BY <2>3, <2>4 DEF IsFold
  <2> QED
    BY <2>5
<1>7. Eq(it)
  <2> HIDE DEF Eq
  <2> QED
    BY <1>6
<1>8. Views(dev, order) = it[S]
  BY DEF Views, FoldLeft, MapThenFoldSet, S
<1> DEFINE T == {s \in SUBSET S : it[s] \in D}
<1>9. {} \in T
  <2>1. it[{}] = none
    <3> HIDE DEF it
    <3> QED
      BY <1>7
  <2> HIDE DEF it, D
  <2> QED
    BY <1>4, <2>1
<1>10. ASSUME NEW s \in SUBSET S, s # {} PROVE \E x \in s : s \ {x} \in T => s \in T
  <2>1. Max(s) \in s /\ Max(s) \in S
    BY <1>3, <1>10
  <2>2. it[s] = AddView(dev, order, it[s \ {Max(s)}], order[Max(s)])
    <3> HIDE DEF it
    <3> QED
      BY <1>7, <1>10
  <2> HIDE DEF it, D
  <2>3. s \ {Max(s)} \in T => s \in T
    BY <1>5, <2>1, <2>2
  <2> QED
    BY <2>1, <2>3
<1>11. \A s \in SUBSET S : s \in T
  <2> HIDE DEF T
  <2> QED
    BY <1>1, <1>9, <1>10, SubsetInduction
<1>12. it[S] \in D
  <2> HIDE DEF it, D
  <2> QED
    BY <1>11
<1> QED
  BY <1>8, <1>12
-----------------------------------------------------------------------------
(* One turn of the packing loop.  Some candidate is always free: the       *)
(* highest end among the groups that coexist with the one being placed, so *)
(* the fall-back offset 0 is never used and no coexisting group collides   *)
(* with the chosen offset.                                                 *)

Apart(p, q) == End(p) <= q.offset \/ End(q) <= p.offset

\* Groups that have been placed: what their offsets must satisfy.
Packing(planned) ==
    /\ \A p \in planned : p.offset \in Nat /\ p.aligned_size \in Nat /\ p.size <= p.aligned_size
    /\ \E b \in Nat : \A p \in planned : End(p) <= b
    /\ \A p, q \in planned : p.root # q.root /\ Coexist(p, q) => Apart(p, q)

\* Rounding up never shrinks.
LEMMA AlignUpBounds ==
    ASSUME NEW size \in Nat
    PROVE  AlignUp(size) \in Nat /\ size <= AlignUp(size)
<1> DEFINE top == size + (ARENA_ALIGNMENT - 1)
<1>1. top \in Nat
  BY AlignmentAssumption
<1>2. top % ARENA_ALIGNMENT \in 0 .. ARENA_ALIGNMENT - 1
  BY <1>1, AlignmentAssumption
<1> QED
  BY <1>1, <1>2, AlignmentAssumption DEF AlignUp

\* Some candidate is free: at worst the highest end of the coexisting groups.
LEMMA ChosenOffsetIsFree ==
    ASSUME NEW planned, Packing(planned), NEW g
    PROVE  /\ ChosenOffset(planned, g) \in Nat
           /\ \A p \in Overlapping(planned, g) :
                ~ Collides(ChosenOffset(planned, g), AlignUp(g.size), p)
<1> DEFINE C == Candidates(planned, g)
           F == FreeOffsets(planned, g)
<1>1. PICK b \in Nat : \A p \in planned : End(p) <= b
  BY DEF Packing
<1>2. \A p \in planned : p.offset \in Nat /\ p.aligned_size \in Nat /\ End(p) \in Nat
  BY DEF Packing, End
<1>3. C \in SUBSET Nat /\ C # {} /\ \A c \in C : c <= b
  BY <1>1, <1>2 DEF Candidates, Overlapping
<1>4. PICK top \in C : \A c \in C : c <= top
  BY <1>3, GreatestNat
<1>5. \A p \in Overlapping(planned, g) : ~ Collides(top, AlignUp(g.size), p)
  <2>1. \A p \in Overlapping(planned, g) : End(p) \in C /\ End(p) \in Nat
    BY <1>2 DEF Candidates, Overlapping
  <2>2. \A p \in Overlapping(planned, g) : ~ (top < End(p))
    BY <1>3, <1>4, <2>1
  <2> QED
    BY <2>2 DEF Collides
<1>6. top \in F
  BY <1>5 DEF FreeOffsets
<1>7. F \in SUBSET Nat /\ F # {}
  BY <1>3, <1>6 DEF FreeOffsets
<1>8. ChosenOffset(planned, g) \in F
  BY <1>7, MinNat DEF ChosenOffset
<1> QED
  BY <1>7, <1>8 DEF FreeOffsets

\* Placing one more group keeps the groups that coexist apart.
LEMMA PlacingKeepsPacking ==
    ASSUME NEW planned, Packing(planned), NEW g, g.size \in Nat,
           \A p \in planned : p.root # g.root
    PROVE  Packing(Place(planned, g))
<1> DEFINE new == Planned(planned, g)
<1>1. AlignUp(g.size) \in Nat /\ g.size <= AlignUp(g.size)
  BY AlignUpBounds
<1>2. /\ new.offset \in Nat
      /\ \A p \in Overlapping(planned, g) : ~ Collides(new.offset, AlignUp(g.size), p)
  BY ChosenOffsetIsFree DEF Planned
<1>3. /\ new.root = g.root /\ new.birth = g.birth /\ new.death = g.death
      /\ new.size = g.size /\ new.aligned_size = AlignUp(g.size)
      /\ End(new) = new.offset + AlignUp(g.size) /\ End(new) \in Nat
  BY <1>1, <1>2 DEF Planned, End
<1>4. \A p \in planned : p.offset \in Nat /\ p.aligned_size \in Nat /\ End(p) \in Nat
  BY DEF Packing, End
<1> HIDE DEF new
<1>5. \E b \in Nat : \A p \in planned \cup {new} : End(p) <= b
  <2>1. PICK b \in Nat : \A p \in planned : End(p) <= b
    BY DEF Packing
  <2>2. \A p \in planned \cup {new} : End(p) <= b + End(new)
    BY <1>3, <1>4, <2>1
  <2> QED
    BY <1>3, <2>2
<1>6. ASSUME NEW p \in planned, Coexist(p, g) PROVE Apart(p, new) /\ Apart(new, p)
  <2>1. ~ Collides(new.offset, AlignUp(g.size), p)
    BY <1>2, <1>6 DEF Overlapping
  <2>2. End(p) <= new.offset \/ End(new) <= p.offset
    BY <1>1, <1>2, <1>3, <1>4, <2>1 DEF Collides
  <2> QED
    BY <2>2 DEF Apart
<1>7. ASSUME NEW p \in planned \cup {new}, NEW q \in planned \cup {new}, p.root # q.root, Coexist(p, q)
      PROVE  Apart(p, q)
  <2>1. CASE p \in planned /\ q \in planned
    BY <1>7, <2>1 DEF Packing
  <2>2. CASE p \in planned /\ q = new
    BY <1>3, <1>6, <1>7, <2>2 DEF Coexist
  <2>3. CASE p = new /\ q \in planned
    <3>1. Coexist(q, g)
      BY <1>3, <1>7, <2>3 DEF Coexist
    <3> QED
      BY <1>6, <2>3, <3>1
  <2> QED
    BY <1>7, <2>1, <2>2, <2>3
<1>8. \A p \in planned \cup {new} : p.offset \in Nat /\ p.aligned_size \in Nat /\ p.size <= p.aligned_size
  BY <1>1, <1>2, <1>3 DEF Packing
<1> QED
  BY <1>5, <1>7, <1>8 DEF Packing, Place, new

\* What _plan_arena_offsets returns holds every group.
LEMMA TotalHoldsGroups ==
    ASSUME NEW planned, Packing(planned)
    PROVE  TotalSize(planned) \in Nat /\ \A p \in planned : End(p) <= TotalSize(planned)
<1> DEFINE Ends == {0} \cup {End(p) : p \in planned}
<1>1. PICK b \in Nat : \A p \in planned : End(p) <= b
  BY DEF Packing
<1>2. \A p \in planned : End(p) \in Nat
  BY DEF Packing, End
<1>3. Ends \in SUBSET Nat /\ Ends # {} /\ \A n \in Ends : n <= b
  BY <1>1, <1>2
<1>4. Max(Ends) \in Ends /\ \A n \in Ends : n <= Max(Ends)
  BY <1>3, MaxNat
<1>5. TotalSize(planned) = Max(Ends)
  BY DEF TotalSize
<1> HIDE DEF Ends
<1>6. \A p \in planned : End(p) \in Ends
  BY DEF Ends
<1> QED
  BY <1>3, <1>4, <1>5, <1>6

-----------------------------------------------------------------------------
(* Packing.                                                                *)

\* Groups as a build passes them to the packing: no two have one root.
GroupRecords == [root : Nat, members : SUBSET Nat, size : Nat, birth : Nat, death : Nat]

GroupsOK(groups) ==
    /\ groups \in SUBSET GroupRecords
    /\ IsFiniteSet(groups)
    /\ \A g, h \in groups : g.root = h.root => g = h

\* Some group of a set is the one the packing takes last: Before is a total order.
LEMMA LastGroupExists ==
    ASSUME NEW groups, GroupsOK(groups)
    PROVE  \A s \in SUBSET groups :
              s # {} => \E g \in s : \A h \in s \ {g} : Before(h, g)
<1> DEFINE Latest(s) == s # {} => \E g \in s : \A h \in s \ {g} : Before(h, g)
           T == {s \in SUBSET groups : Latest(s)}
<1>1. \A g \in groups : g.root \in Nat /\ g.size \in Nat /\ g.birth \in Nat /\ g.death \in Nat
  BY DEF GroupsOK, GroupRecords
<1>2. ASSUME NEW g \in groups, NEW h \in groups, g # h PROVE Before(g, h) \/ Before(h, g)
  <2>1. g.root # h.root
    BY <1>2 DEF GroupsOK
  <2>2. /\ g.root \in Nat /\ g.size \in Nat /\ g.birth \in Nat /\ g.death \in Nat
        /\ h.root \in Nat /\ h.size \in Nat /\ h.birth \in Nat /\ h.death \in Nat
    BY <1>1
  <2> QED
    BY <2>1, <2>2 DEF Before
<1>3. ASSUME NEW f \in groups, NEW g \in groups, NEW h \in groups, Before(f, g), Before(g, h)
      PROVE  Before(f, h)
  <2>1. /\ f.root \in Nat /\ f.size \in Nat /\ f.birth \in Nat /\ f.death \in Nat
        /\ g.root \in Nat /\ g.size \in Nat /\ g.birth \in Nat /\ g.death \in Nat
        /\ h.root \in Nat /\ h.size \in Nat /\ h.birth \in Nat /\ h.death \in Nat
    BY <1>1
  <2> QED
    BY <1>3, <2>1 DEF Before
<1>4. {} \in T
  OBVIOUS
<1>5. ASSUME NEW s \in SUBSET groups, s # {} PROVE \E x \in s : s \ {x} \in T => s \in T
  <2>1. PICK x \in s : TRUE
    BY <1>5
  <2>2. ASSUME Latest(s \ {x}) PROVE Latest(s)
    <3>1. CASE s = {x}
      BY <3>1
    <3>2. CASE s # {x}
      <4>1. PICK g \in s \ {x} : \A h \in (s \ {x}) \ {g} : Before(h, g)
        BY <2>1, <2>2, <3>2
      <4>2. CASE Before(x, g)
        <5>1. \A h \in s \ {g} : Before(h, g)
          BY <4>1, <4>2
        <5> QED
          BY <5>1
      <4>3. CASE Before(g, x)
        <5>1. ASSUME NEW h \in s \ {x} PROVE Before(h, x)
          <6>1. CASE h = g
            BY <4>3, <6>1
          <6>2. CASE h # g
            <7>1. Before(h, g)
              BY <4>1, <6>2
            <7> QED
              BY <1>3, <4>3, <7>1
          <6> QED
            BY <6>1, <6>2
        <5> QED
          BY <5>1
      <4> QED
        BY <1>2, <4>2, <4>3
    <3> QED
      BY <3>1, <3>2
  <2> HIDE DEF Latest
  <2> QED
    BY <2>1, <2>2
<1>6. \A s \in SUBSET groups : s \in T
  <2>1. IsFiniteSet(groups)
    BY DEF GroupsOK
  <2> HIDE DEF T
  <2> QED
    BY <1>4, <1>5, <2>1, SubsetInduction
<1> QED
  BY <1>6

\* Planned groups that are the given groups, with a place in the arena.
Packs(planned, groups) ==
    /\ Packing(planned)
    /\ \A p \in planned : \E g \in groups :
          p.root = g.root /\ p.birth = g.birth /\ p.death = g.death /\ p.size = g.size
    /\ \A g \in groups : \E p \in planned : p.root = g.root
    /\ \A p, q \in planned : p.root = q.root => p = q

PlannedRecords == [root : Nat, birth : Nat, death : Nat, size : Nat, offset : Nat, aligned_size : Nat]

\* Placing a group yields records of placed groups.
LEMMA PlannedIsRecord ==
    ASSUME NEW planned \in SUBSET PlannedRecords, NEW g \in GroupRecords
    PROVE  Planned(planned, g) \in PlannedRecords
<1>1. /\ g.root \in Nat /\ g.size \in Nat /\ g.birth \in Nat /\ g.death \in Nat
      /\ AlignUp(g.size) \in Nat
  BY AlignUpBounds DEF GroupRecords
<1>2. Candidates(planned, g) \in SUBSET Nat
  BY DEF Candidates, Overlapping, End, PlannedRecords
<1>3. FreeOffsets(planned, g) \in SUBSET Nat
  BY <1>2 DEF FreeOffsets
<1>4. ChosenOffset(planned, g) \in Nat
  BY <1>3, MinNat DEF ChosenOffset
<1> QED
  BY <1>1, <1>4 DEF Planned, PlannedRecords

\* Placing a group whose root is new.
LEMMA PlacePacks ==
    ASSUME NEW groups, NEW planned \in SUBSET PlannedRecords, Packs(planned, groups),
           NEW g \in GroupRecords, \A h \in groups : h.root # g.root
    PROVE  Packs(Place(planned, g), groups \cup {g})
<1>1. \A p \in planned : p.root # g.root
  BY DEF Packs
<1>2. Packing(Place(planned, g))
  BY <1>1, PlacingKeepsPacking DEF Packs, GroupRecords
<1>3. Place(planned, g) = planned \cup {Planned(planned, g)}
  BY DEF Place
<1>4. LET new == Planned(planned, g)
      IN  new.root = g.root /\ new.birth = g.birth /\ new.death = g.death /\ new.size = g.size
  BY DEF Planned
<1> DEFINE new == Planned(planned, g)
<1> HIDE DEF new
<1>5. new.root = g.root /\ new.birth = g.birth /\ new.death = g.death /\ new.size = g.size
  BY <1>4 DEF new
<1>6. Place(planned, g) = planned \cup {new}
  BY <1>3 DEF new
<1> QED
  BY <1>1, <1>2, <1>5, <1>6 DEF Packs

\* The packing gives every group a place, and coexisting groups are apart.
LEMMA PackFacts ==
    ASSUME NEW groups, GroupsOK(groups)
    PROVE  Pack(groups) \in SUBSET PlannedRecords /\ Packs(Pack(groups), groups)
<1> DEFINE Latest(s) == CHOOSE g \in s : \A h \in s \ {g} : Before(h, g)
           Eq(f) == f = [s \in SUBSET groups |->
                            IF s = {} THEN {} ELSE Place(f[s \ {Latest(s)}], Latest(s))]
           it == CHOOSE f : Eq(f)
           D == SUBSET PlannedRecords
           pick == [s \in SUBSET groups |-> Latest(s)]
           next == [p \in groups \X D |-> Place(p[2], p[1])]
<1>1. IsFiniteSet(groups) /\ groups \in SUBSET GroupRecords
  BY DEF GroupsOK
<1>2. \A s \in SUBSET groups : s # {} => Latest(s) \in s
  BY LastGroupExists
<1> HIDE DEF Latest
<1>3. \A g \in groups, d \in D : Place(d, g) \in D
  BY <1>1, PlannedIsRecord DEF Place
<1>4. \E f \in [SUBSET groups -> D] : Eq(f)
  <2> HIDE DEF D
  <2>1. Picks(pick, groups)
    BY <1>2 DEF Picks
  <2>2. {} \in D
    BY DEF D
  <2>3. Folds({}, next, groups, D)
    BY <1>3, <2>2 DEF Folds
  <2>4. PICK f \in [SUBSET groups -> D] : IsFold(f, {}, pick, next, groups)
    <3> HIDE DEF pick, next
    <3> QED
      BY <1>1, <2>1, <2>3, FoldExists
  <2>5. ASSUME NEW s \in SUBSET groups, s # {} PROVE f[s] = Place(f[s \ {Latest(s)}], Latest(s))
    <3>1. Latest(s) \in groups /\ s \ {Latest(s)} \in SUBSET groups /\ pick[s] = Latest(s)
      BY <1>2, <2>5
    <3>2. f[s] = next[<<Latest(s), f[s \ {Latest(s)}]>>]
      BY <2>4, <2>5, <3>1 DEF IsFold
    <3> QED
      BY <3>1, <3>2
  <2>6. Eq(f)
    BY <2>4, <2>5 DEF IsFold
  <2> QED
    BY <2>6
<1>5. Eq(it)
  <2> HIDE DEF Eq
  <2> QED
    BY <1>4
<1>6. Pack(groups) = it[groups]
  BY DEF Pack, MapThenFoldSet, Latest
<1> DEFINE T == {s \in SUBSET groups : it[s] \in D /\ Packs(it[s], s)}
<1>7. {} \in T
  <2>1. it[{}] = {}
    <3> HIDE DEF it
    <3> QED
      BY <1>5
  <2>2. Packs({}, {})
    BY DEF Packs, Packing
  <2>3. {} \in D
    OBVIOUS
  <2> HIDE DEF it, D
  <2> QED
    BY <2>1, <2>2, <2>3
<1>8. ASSUME NEW s \in SUBSET groups, s # {} PROVE \E x \in s : s \ {x} \in T => s \in T
  <2>1. Latest(s) \in s /\ Latest(s) \in groups /\ s \ {Latest(s)} \in SUBSET groups
    BY <1>2, <1>8
  <2>2. it[s] = Place(it[s \ {Latest(s)}], Latest(s))
    <3> HIDE DEF it
    <3> QED
      BY <1>5, <1>8
  <2> HIDE DEF it
  <2>3. ASSUME s \ {Latest(s)} \in T PROVE s \in T
    <3>1. it[s \ {Latest(s)}] \in SUBSET PlannedRecords /\ Packs(it[s \ {Latest(s)}], s \ {Latest(s)})
      BY <2>3
    <3>2. Latest(s) \in GroupRecords
      BY <1>1, <2>1
    <3>3. \A h \in s \ {Latest(s)} : h.root # Latest(s).root
      BY <2>1 DEF GroupsOK
    <3>4. Packs(it[s], (s \ {Latest(s)}) \cup {Latest(s)})
      <4> DEFINE planned == it[s \ {Latest(s)}]
                 g == Latest(s)
                 rest == s \ {Latest(s)}
      <4> HIDE DEF planned, g, rest
      <4>1. planned \in SUBSET PlannedRecords /\ Packs(planned, rest)
        BY <3>1 DEF planned, rest
      <4>2. g \in GroupRecords /\ \A h \in rest : h.root # g.root
        BY <3>2, <3>3 DEF g, rest
      <4>3. Packs(Place(planned, g), rest \cup {g})
        BY <4>1, <4>2, PlacePacks
      <4> QED
        BY <2>2, <4>3 DEF planned, g, rest
    <3>5. (s \ {Latest(s)}) \cup {Latest(s)} = s
      BY <2>1
    <3>6. it[s] \in D
      BY <1>3, <2>1, <2>2, <3>1
    <3> QED
      BY <3>4, <3>5, <3>6
  <2> QED
    BY <2>1, <2>3
<1>9. \A s \in SUBSET groups : s \in T
  <2> HIDE DEF T
  <2> QED
    BY <1>1, <1>7, <1>8, SubsetInduction
<1>10. it[groups] \in D /\ Packs(it[groups], groups)
  <2> HIDE DEF it, D
  <2> QED
    BY <1>9
<1> HIDE DEF it
<1> QED
  BY <1>6, <1>10
-----------------------------------------------------------------------------
(* Memory.                                                                 *)

AllValues == [of : Nat, swaps : Nat, gen : Nat]
AllCells == [value : AllValues, pos : Nat]
PlaceRecords == [root : Nat, data : Nat, offset : Nat]

\* m bytes from a and n bytes from b have none in common.
Clear(a, m, b, n) == a + m <= b \/ b + n <= a

\* The bytes of a value are as many as asked, each a cell of it.
LEMMA CellsFacts ==
    ASSUME NEW v \in AllValues, NEW size \in Nat
    PROVE  /\ Cells(v, size) \in Seq(AllCells) /\ Len(Cells(v, size)) = size
           /\ \A k \in 1 .. size : Cells(v, size)[k] = Cell(v, k)
<1>1. \A k \in 1 .. size : Cell(v, k) \in AllCells
  BY DEF Cell, AllCells
<1> QED
  BY <1>1 DEF Cells

\* The group's buffer is at p, behind the memory of length base, and is fresh.
BufferAt(bytes, base, p, g) ==
    /\ p.root = g.root
    /\ base < p.data /\ p.data + g.size <= Len(bytes) + 1
    /\ \A k \in 1 .. g.size : bytes[p.data + k - 1] = Fresh(g)[k]

\* The memory and the places after a buffer was added for each of the groups.
BuffersOK(layout, places, bytes, groups) ==
    /\ layout.places \in SUBSET PlaceRecords /\ layout.bytes \in Seq(AllCells)
    /\ Len(bytes) <= Len(layout.bytes)
    /\ \A a \in 1 .. Len(bytes) : layout.bytes[a] = bytes[a]
    /\ places \subseteq layout.places
    /\ \A p \in layout.places : p \in places \/ \E g \in groups : p.root = g.root
    /\ \A g \in groups : \E p \in layout.places : BufferAt(layout.bytes, Len(bytes), p, g)
    /\ \A p, q \in layout.places : p.root = q.root => p = q
    /\ \A p, q \in layout.places, g, h \in groups :
          p.root = g.root /\ q.root = h.root /\ g # h => Clear(p.data, g.size, q.data, h.size)

\* So are those of a new buffer.
LEMMA FreshFacts ==
    ASSUME NEW g \in GroupRecords
    PROVE  Fresh(g) \in Seq(AllCells) /\ Len(Fresh(g)) = g.size
<1>1. Value(g.root, 0) \in AllValues /\ Junk \in AllValues /\ g.size \in Nat
  BY DEF Value, Junk, AllValues, GroupRecords
<1> QED
  BY <1>1, CellsFacts DEF Fresh

\* Adding a buffer keeps the buffers laid out so far, and gives the new one bytes of its own.
LEMMA AddBufferKeeps ==
    ASSUME NEW places, NEW bytes \in Seq(AllCells), NEW groups \in SUBSET GroupRecords,
           NEW layout, BuffersOK(layout, places, bytes, groups), NEW g \in GroupRecords,
           \A p \in layout.places : p.root # g.root
    PROVE  BuffersOK(AddBuffer(g, layout), places, bytes, groups \cup {g})
<1> DEFINE old == layout.bytes
           n == Len(old)
           fresh == Fresh(g)
           new == old \o fresh
           here == At(g, n + 1, 0)
           base == Len(bytes)
<1>1. /\ layout.places \in SUBSET PlaceRecords /\ old \in Seq(AllCells)
      /\ base <= n /\ base \in Nat /\ n \in Nat
      /\ \A a \in 1 .. base : old[a] = bytes[a]
      /\ places \subseteq layout.places
      /\ \A p \in layout.places : p \in places \/ \E h \in groups : p.root = h.root
      /\ \A h \in groups : \E p \in layout.places : BufferAt(old, base, p, h)
      /\ \A p, q \in layout.places : p.root = q.root => p = q
  BY DEF BuffersOK
<1>2. \A p, q \in layout.places, h, k \in groups :
          p.root = h.root /\ q.root = k.root /\ h # k => Clear(p.data, h.size, q.data, k.size)
  BY DEF BuffersOK
<1>3. fresh \in Seq(AllCells) /\ Len(fresh) = g.size /\ g.size \in Nat /\ g.root \in Nat
  BY FreshFacts DEF GroupRecords
<1>4. /\ new \in Seq(AllCells) /\ Len(new) = n + g.size
      /\ \A a \in 1 .. n : new[a] = old[a]
      /\ \A k \in 1 .. g.size : new[n + k] = fresh[k]
  <2> HIDE DEF fresh, old
  <2>1. new \in Seq(AllCells) /\ Len(new) = n + g.size
    BY <1>1, <1>3, ConcatProperties, ZenonT(60)
  <2>2. \A a \in 1 .. n : new[a] = old[a]
    BY <1>1, <1>3
  <2>3. \A k \in 1 .. g.size : new[n + k] = fresh[k]
    BY <1>1, <1>3
  <2> QED
    BY <2>1, <2>2, <2>3
<1>5. AddBuffer(g, layout) = [places |-> layout.places \cup {here}, bytes |-> new]
  BY DEF AddBuffer
<1>6. here \in PlaceRecords /\ here.root = g.root /\ here.data = n + 1
  BY <1>1, <1>3 DEF At, PlaceRecords
<1> HIDE DEF old, n, fresh, new, here, base
<1>7. BufferAt(new, base, here, g)
  <2>1. \A k \in 1 .. g.size : here.data + k - 1 = n + k
    BY <1>1, <1>6
  <2>2. \A k \in 1 .. g.size : new[here.data + k - 1] = Fresh(g)[k]
    BY <1>4, <2>1 DEF fresh
  <2>3. base < here.data /\ here.data + g.size <= Len(new) + 1
    BY <1>1, <1>3, <1>4, <1>6
  <2> QED
    BY <1>6, <2>2, <2>3 DEF BufferAt
<1>8. ASSUME NEW p \in layout.places, NEW h \in groups, p.root = h.root
      PROVE  BufferAt(new, base, p, h) /\ p.data + h.size <= here.data
  <2>1. p.data \in Nat /\ h.size \in Nat
    BY <1>1 DEF PlaceRecords, GroupRecords
  <2>2. BufferAt(old, base, p, h)
    <3>1. PICK q \in layout.places : BufferAt(old, base, q, h)
      BY <1>1
    <3>2. q = p
      BY <1>1, <1>8, <3>1 DEF BufferAt
    <3> QED
      BY <3>1, <3>2
  <2>3. base < p.data /\ p.data + h.size <= n + 1 /\ \A k \in 1 .. h.size : old[p.data + k - 1] = Fresh(h)[k]
    BY <2>2 DEF BufferAt, n
  <2>4. ASSUME NEW k \in 1 .. h.size PROVE new[p.data + k - 1] = Fresh(h)[k]
    <3>1. p.data + k - 1 \in 1 .. n
      BY <1>1, <2>1, <2>3, SMTT(30)
    <3> QED
      BY <1>4, <2>3, <3>1
  <2>5. p.data + h.size <= Len(new) + 1
    <3>1. Len(new) = n + g.size /\ n \in Nat /\ g.size \in Nat /\ p.data + h.size <= n + 1
      BY <1>1, <1>3, <1>4, <2>3
    <3> QED
      BY <2>1, <3>1
  <2> QED
    BY <1>6, <1>8, <2>3, <2>4, <2>5 DEF BufferAt
<1>9. \A p \in layout.places, h \in groups : p.root = h.root => h # g /\ p # here
  BY <1>6
<1>10. \A h \in groups : h.root # g.root
  <2> SUFFICES ASSUME NEW h \in groups PROVE h.root # g.root
    OBVIOUS
  <2>1. PICK p \in layout.places : BufferAt(old, base, p, h)
    BY <1>1
  <2> QED
    BY <2>1 DEF BufferAt
<1>11. ASSUME NEW h \in groups \cup {g} PROVE \E p \in layout.places \cup {here} : BufferAt(new, base, p, h)
  <2>1. CASE h \in groups
    <3>1. PICK p \in layout.places : BufferAt(old, base, p, h)
      BY <1>1, <2>1
    <3>2. BufferAt(new, base, p, h)
      BY <1>8, <2>1, <3>1 DEF BufferAt
    <3> QED
      BY <3>2
  <2>2. CASE h = g
    BY <1>7, <2>2
  <2> QED
    BY <2>1, <2>2
<1>12. ASSUME NEW p \in layout.places \cup {here}, NEW q \in layout.places \cup {here},
              NEW h \in groups \cup {g}, NEW k \in groups \cup {g},
              p.root = h.root, q.root = k.root, h # k
       PROVE  Clear(p.data, h.size, q.data, k.size)
  <2>1. CASE h # g /\ k # g
    <3>1. h \in groups /\ k \in groups /\ p \in layout.places /\ q \in layout.places
      BY <1>6, <1>10, <1>12, <2>1
    <3> QED
      BY <1>2, <1>12, <3>1
  <2>2. CASE h = g /\ k # g
    <3>1. p = here /\ k \in groups /\ q \in layout.places
      BY <1>6, <1>10, <1>12, <2>2
    <3> QED
      BY <1>8, <1>12, <3>1 DEF Clear
  <2>3. CASE h # g /\ k = g
    <3>1. q = here /\ h \in groups /\ p \in layout.places
      BY <1>6, <1>10, <1>12, <2>3
    <3> QED
      BY <1>8, <1>12, <3>1 DEF Clear
  <2> QED
    BY <1>12, <2>1, <2>2, <2>3
<1>13. \A p, q \in layout.places \cup {here} : p.root = q.root => p = q
  BY <1>1, <1>6
<1>14. \A p \in layout.places \cup {here} : p \in places \/ \E h \in groups \cup {g} : p.root = h.root
  BY <1>1, <1>6
<1>15. base <= Len(new) /\ \A a \in 1 .. base : new[a] = bytes[a]
  <2>1. \A a \in 1 .. base : a \in 1 .. n
    BY <1>1
  <2> QED
    BY <1>1, <1>3, <1>4, <2>1
<1>16. BuffersOK([places |-> layout.places \cup {here}, bytes |-> new], places, bytes, groups \cup {g})
  BY <1>1, <1>4, <1>6, <1>11, <1>12, <1>13, <1>14, <1>15 DEF BuffersOK, base
<1> QED
  BY <1>5, <1>16
\* What Layout does with the buffers, for any memory and places to begin with.
Buffered(places, bytes, groups) ==
    MapThenFoldSet(AddBuffer, [places |-> places, bytes |-> bytes],
                   LAMBDA g : g, LAMBDA s : CHOOSE g \in s : \A h \in s : h.root <= g.root, groups)

\* The buffers lie behind the memory there was, apart from each other.
LEMMA BufferedFacts ==
    ASSUME NEW places \in SUBSET PlaceRecords, NEW bytes \in Seq(AllCells),
           NEW groups, GroupsOK(groups), NEW b \in Nat, \A g \in groups : g.root <= b,
           \A p, q \in places : p.root = q.root => p = q,
           \A p \in places, g \in groups : p.root # g.root
    PROVE  BuffersOK(Buffered(places, bytes, groups), places, bytes, groups)
<1> DEFINE Latest(s) == CHOOSE g \in s : \A h \in s : h.root <= g.root
           none == [places |-> places, bytes |-> bytes]
           Eq(f) == f = [s \in SUBSET groups |->
                            IF s = {} THEN none ELSE AddBuffer(Latest(s), f[s \ {Latest(s)}])]
           it == CHOOSE f : Eq(f)
           D == [places : SUBSET PlaceRecords, bytes : Seq(AllCells)]
           pick == [s \in SUBSET groups |-> Latest(s)]
           next == [p \in groups \X D |-> AddBuffer(p[1], p[2])]
<1>1. IsFiniteSet(groups) /\ groups \in SUBSET GroupRecords
  BY DEF GroupsOK
<1>2. ASSUME NEW s \in SUBSET groups, s # {} PROVE Latest(s) \in s
  <2> DEFINE roots == {g.root : g \in s}
  <2>1. \A g \in s : g.root \in Nat /\ g.root <= b
    BY <1>1 DEF GroupRecords
  <2>2. roots \in SUBSET Nat /\ roots # {} /\ \A r \in roots : r <= b
    BY <1>2, <2>1
  <2>3. PICK r \in roots : \A q \in roots : q <= r
    BY <2>2, GreatestNat
  <2>4. PICK g \in s : r = g.root
    BY <2>3
  <2>5. \A h \in s : h.root <= g.root
    BY <2>3, <2>4
  <2> QED
    BY <2>5
<1> HIDE DEF Latest
<1>3. none \in D
  OBVIOUS
<1>4. ASSUME NEW g \in groups, NEW d \in D PROVE AddBuffer(g, d) \in D
  <2> DEFINE here == At(g, Len(d.bytes) + 1, 0)
             new == d.bytes \o Fresh(g)
  <2>1. g \in GroupRecords /\ g.root \in Nat
    BY <1>1 DEF GroupRecords
  <2>2. Fresh(g) \in Seq(AllCells) /\ d.bytes \in Seq(AllCells) /\ Len(d.bytes) \in Nat
    BY <2>1, FreshFacts
  <2>3. here \in PlaceRecords
    BY <2>1, <2>2 DEF At, PlaceRecords
  <2>4. new \in Seq(AllCells)
    BY <2>2, ConcatProperties
  <2>5. AddBuffer(g, d) = [places |-> d.places \cup {here}, bytes |-> new]
    BY DEF AddBuffer
  <2> HIDE DEF here, new
  <2> QED
    BY <2>3, <2>4, <2>5
<1>5. \E f \in [SUBSET groups -> D] : Eq(f)
  <2> HIDE DEF D, none
  <2>1. Picks(pick, groups)
    BY <1>2 DEF Picks
  <2>2. Folds(none, next, groups, D)
    BY <1>3, <1>4 DEF Folds
  <2>3. PICK f \in [SUBSET groups -> D] : IsFold(f, none, pick, next, groups)
    <3> HIDE DEF pick, next
    <3> QED
      BY <1>1, <2>1, <2>2, FoldExists
  <2>4. ASSUME NEW s \in SUBSET groups, s # {} PROVE f[s] = AddBuffer(Latest(s), f[s \ {Latest(s)}])
    <3>1. Latest(s) \in groups /\ s \ {Latest(s)} \in SUBSET groups /\ pick[s] = Latest(s)
      BY <1>2, <2>4
    <3>2. f[s] = next[<<Latest(s), f[s \ {Latest(s)}]>>]
      BY <2>3, <2>4, <3>1 DEF IsFold
    <3> QED
      BY <3>1, <3>2
  <2>5. Eq(f)
    BY <2>3, <2>4 DEF IsFold
  <2> QED
    BY <2>5
<1>6. Eq(it)
  <2> HIDE DEF Eq
  <2> QED
    BY <1>5
<1>7. Buffered(places, bytes, groups) = it[groups]
  BY DEF Buffered, MapThenFoldSet, Latest
<1> DEFINE T == {s \in SUBSET groups : BuffersOK(it[s], places, bytes, s)}
<1>8. {} \in T
  <2>1. it[{}] = none
    <3> HIDE DEF it
    <3> QED
      BY <1>6
  <2>2. BuffersOK(none, places, bytes, {})
    <3>1. Len(bytes) \in Nat
      OBVIOUS
    <3> QED
      BY <3>1 DEF BuffersOK
  <2> HIDE DEF it, none
  <2> QED
    BY <2>1, <2>2
<1>9. ASSUME NEW s \in SUBSET groups, s # {} PROVE \E x \in s : s \ {x} \in T => s \in T
  <2>1. Latest(s) \in s /\ Latest(s) \in groups /\ s \ {Latest(s)} \in SUBSET groups
    BY <1>2, <1>9
  <2>2. it[s] = AddBuffer(Latest(s), it[s \ {Latest(s)}])
    <3> HIDE DEF it
    <3> QED
      BY <1>6, <1>9
  <2> HIDE DEF it
  <2> DEFINE layout == it[s \ {Latest(s)}]
             g == Latest(s)
             rest == s \ {Latest(s)}
  <2> HIDE DEF layout, g, rest
  <2>3. ASSUME BuffersOK(layout, places, bytes, rest) PROVE BuffersOK(it[s], places, bytes, s)
    <3>1. g \in GroupRecords /\ rest \in SUBSET GroupRecords /\ g \in groups /\ rest \subseteq groups /\ g \notin rest
      BY <1>1, <2>1 DEF g, rest
    <3>2. \A p \in layout.places : p \in places \/ \E h \in rest : p.root = h.root
      BY <2>3 DEF BuffersOK
    <3>3. \A p \in layout.places : p.root # g.root
      BY <3>1, <3>2 DEF GroupsOK
    <3>4. BuffersOK(AddBuffer(g, layout), places, bytes, rest \cup {g})
      BY <2>3, <3>1, <3>3, AddBufferKeeps
    <3>5. rest \cup {g} = s
      BY <2>1 DEF rest, g
    <3> QED
      BY <2>2, <3>4, <3>5 DEF g, layout
  <2> QED
    BY <2>1, <2>3 DEF layout, g, rest
<1>10. \A s \in SUBSET groups : s \in T
  <2> HIDE DEF T
  <2> QED
    BY <1>1, <1>8, <1>9, SubsetInduction
<1>11. BuffersOK(it[groups], places, bytes, groups)
  <2> HIDE DEF it
  <2> QED
    BY <1>10
<1> HIDE DEF it
<1> QED
  BY <1>7, <1>11
-----------------------------------------------------------------------------
(* Groups.                                                                 *)

\* The tensors the schedule touches are tensors, and hold those of every node.
LEMMA ActiveFacts ==
    ASSUME GraphInv, ShapesOK, NEW order \in Seq(Nodes)
    PROVE  /\ Active(order) \subseteq Tensors /\ Touched(order) \subseteq Active(order)
           /\ \A n \in Range(order) :
                 /\ n \in Nodes /\ nodes[n].out \in Touched(order)
                 /\ \A k \in DOMAIN nodes[n].ins : nodes[n].ins[k] \in Touched(order)
<1>1. \A n \in Range(order) : n \in Nodes
  BY DEF Range
<1>2. \A n \in Range(order) : /\ nodes[n].out \in Touched(order)
                              /\ \A k \in DOMAIN nodes[n].ins : nodes[n].ins[k] \in Touched(order)
  BY DEF Touched, Range
<1>3. Touched(order) \subseteq Tensors
  <2> SUFFICES ASSUME NEW i \in Touched(order) PROVE i \in Tensors
    OBVIOUS
  <2>1. PICK n \in Range(order) : i \in Range(nodes[n].ins) \cup {nodes[n].out}
    BY DEF Touched
  <2>2. n \in Nodes
    BY <1>1
  <2>3. CASE i = nodes[n].out
    BY <2>2, <2>3, NodeFacts
  <2>4. CASE i \in Range(nodes[n].ins)
    <3>1. PICK k \in DOMAIN nodes[n].ins : i = nodes[n].ins[k]
      BY <2>4 DEF Range
    <3> QED
      BY <2>2, <3>1, NodeFacts
  <2> QED
    BY <2>1, <2>3, <2>4
<1>4. explicit \subseteq Tensors
  BY DEF GraphInv
<1> QED
  BY <1>1, <1>2, <1>3, <1>4 DEF Active

\* When a tensor is born and dies are steps of the order.
LEMMA LifeFacts ==
    ASSUME NEW order \in Seq(Nodes), NEW i
    PROVE  /\ Birth(order, i) \in 0 .. Len(order) /\ Death(order, i) \in 0 .. Len(order)
           /\ \A k \in DOMAIN order : Uses(order[k], i) => k - 1 <= Death(order, i)
           /\ \A k \in DOMAIN order : nodes[order[k]].out = i => Birth(order, i) <= k - 1
<1>1. DOMAIN order = 1 .. Len(order) /\ Len(order) \in Nat
  OBVIOUS
<1>2. /\ Writes(order, i) \in SUBSET (0 .. Len(order))
      /\ \A k \in DOMAIN order : nodes[order[k]].out = i => k - 1 \in Writes(order, i)
  BY <1>1 DEF Writes
<1>3. /\ Reads(order, i) \in SUBSET (0 .. Len(order))
      /\ \A k \in DOMAIN order : Uses(order[k], i) => k - 1 \in Reads(order, i)
  BY <1>1 DEF Reads
<1>4. /\ Birth(order, i) \in 0 .. Len(order)
      /\ \A k \in DOMAIN order : nodes[order[k]].out = i => Birth(order, i) <= k - 1
  <2>1. CASE Writes(order, i) = {}
    BY <1>1, <1>2, <2>1 DEF Birth
  <2>2. CASE Writes(order, i) # {}
    <3>1. Writes(order, i) \in SUBSET Nat
      BY <1>1, <1>2
    <3>2. Min(Writes(order, i)) \in Writes(order, i) /\ \A n \in Writes(order, i) : Min(Writes(order, i)) <= n
      BY <2>2, <3>1, MinNat
    <3>3. Birth(order, i) = Min(Writes(order, i))
      BY <2>2 DEF Birth
    <3> QED
      BY <1>2, <3>2, <3>3
  <2> QED
    BY <2>1, <2>2
<1>5. /\ Death(order, i) \in 0 .. Len(order)
      /\ \A k \in DOMAIN order : Uses(order[k], i) => k - 1 <= Death(order, i)
  <2> DEFINE R == {0} \cup Reads(order, i)
  <2>1. R \in SUBSET Nat /\ R # {} /\ \A n \in R : n <= Len(order)
    BY <1>1, <1>3
  <2>2. Max(R) \in R /\ \A n \in R : n <= Max(R)
    BY <1>1, <2>1, MaxNat
  <2>3. Death(order, i) = Max(R)
    BY DEF Death
  <2>4. \A k \in DOMAIN order : Uses(order[k], i) => k - 1 \in R
    BY <1>3
  <2>5. Death(order, i) \in Nat /\ Death(order, i) <= Len(order)
    BY <2>1, <2>2, <2>3
  <2> HIDE DEF R
  <2> QED
    BY <1>1, <2>2, <2>3, <2>4, <2>5
<1> QED
  BY <1>4, <1>5

\* A group with the root of an active tensor: as large as that tensor and alive as
\* long as it.
LEMMA GroupFacts ==
    ASSUME GraphInv, ShapesOK, NEW dev, NEW order \in Seq(Nodes), NEW views, ViewsOK(dev, order, views),
           NEW i \in Active(order)
    PROVE  LET g == Group(order, views, Active(order), views.root[i])
           IN  /\ g \in GroupRecords
               /\ g.root = views.root[i]
               /\ g.members = {j \in Active(order) : views.root[j] = views.root[i]}
               /\ g.size = tensors[i].size
               /\ tensors[i].size > 0 => /\ g.birth <= Birth(order, i) /\ Birth(order, i) <= g.death
                                         /\ Death(order, i) <= g.death
<1> DEFINE active == Active(order)
           r == views.root[i]
           members == {j \in active : views.root[j] = r}
           sized == {j \in members : tensors[j].size > 0}
           births == {Birth(order, j) : j \in sized}
           deaths == {Death(order, j) : j \in sized}
           sizes == {0} \cup {tensors[j].size : j \in members}
           g == Group(order, views, active, r)
<1>1. /\ g.root = r /\ g.members = members /\ g.size = Max(sizes)
      /\ g.birth = Min({Len(order)} \cup births)
      /\ g.death = Max({0} \cup births \cup deaths)
      /\ g = [root |-> g.root, members |-> g.members, size |-> g.size, birth |-> g.birth, death |-> g.death]
  BY DEF Group
<1>2. active \subseteq Tensors /\ \A j \in Tensors : j \in Nat /\ tensors[j].size \in Nat
  BY ActiveFacts, NodeFacts
<1>3. \A j \in members : tensors[j].size = tensors[i].size
  <2>1. \A j \in Tensors : tensors[views.root[j]].size = tensors[j].size
    BY DEF ViewsOK
  <2> QED
    BY <1>2, <2>1
<1>4. r \in Nat
  BY <1>2 DEF ViewsOK
<1>5. Len(order) \in Nat
  OBVIOUS
<1>6. \A j \in sized : Birth(order, j) \in 0 .. Len(order) /\ Death(order, j) \in 0 .. Len(order)
  BY LifeFacts
<1> HIDE DEF g, sized
<1>7. g.size = tensors[i].size
  <2>1. sizes = {0, tensors[i].size} /\ tensors[i].size \in Nat
    BY <1>2, <1>3
  <2>2. Max(sizes) \in sizes /\ \A n \in sizes : n <= Max(sizes)
    <3> HIDE DEF sizes
    <3>1. sizes \in SUBSET Nat /\ sizes # {} /\ \A n \in sizes : n <= tensors[i].size
      BY <2>1
    <3> QED
      BY <2>1, <3>1, MaxNat
  <2> HIDE DEF sizes
  <2> QED
    BY <1>1, <2>1, <2>2
<1>8. /\ g.birth \in Nat
      /\ \A j \in sized : g.birth <= Birth(order, j)
  <2> DEFINE B == {Len(order)} \cup births
  <2>1. B \in SUBSET Nat /\ B # {}
    BY <1>5, <1>6
  <2>2. Min(B) \in B /\ \A n \in B : Min(B) <= n
    <3> HIDE DEF B
    <3> QED
      BY <2>1, MinNat
  <2>3. g.birth = Min(B)
    BY <1>1
  <2>4. \A j \in sized : Birth(order, j) \in B
    OBVIOUS
  <2> HIDE DEF B
  <2> QED
    BY <2>1, <2>2, <2>3, <2>4
<1>9. /\ g.death \in Nat
      /\ \A j \in sized : Birth(order, j) <= g.death /\ Death(order, j) <= g.death
  <2> DEFINE B == {0} \cup births \cup deaths
  <2>1. B \in SUBSET Nat /\ B # {} /\ \A n \in B : n <= Len(order)
    BY <1>5, <1>6
  <2>2. Max(B) \in B /\ \A n \in B : n <= Max(B)
    <3> HIDE DEF B
    <3> QED
      BY <1>5, <2>1, MaxNat
  <2>3. g.death = Max(B)
    BY <1>1
  <2>4. \A j \in sized : Birth(order, j) \in B /\ Death(order, j) \in B
    OBVIOUS
  <2> HIDE DEF B
  <2> QED
    BY <2>1, <2>2, <2>3, <2>4
<1>10. g \in GroupRecords
  <2>1. g.members \in SUBSET Nat /\ g.root \in Nat /\ g.size \in Nat
    BY <1>1, <1>2, <1>4, <1>7
  <2> QED
    BY <1>1, <1>8, <1>9, <2>1 DEF GroupRecords
<1>11. tensors[i].size > 0 => i \in sized
  BY DEF sized
<1> QED
  BY <1>1, <1>7, <1>8, <1>9, <1>10, <1>11 DEF g
-----------------------------------------------------------------------------
(* Where a build puts the groups.                                          *)

\* Memory before and after a build: a tensor that has any has all its bytes.
MemoryOK ==
    /\ mem \in Seq(AllCells)
    /\ \A i \in Populated : 0 < tensors[i].size /\ tensors[i].data + tensors[i].size - 1 <= Len(mem)

\* The bytes of tensor i, from address a, are those of v.
Holds(bytes, a, size, v) == \A k \in 1 .. size : bytes[a + k - 1] = Cell(v, k)

\* Before the build only inputs have memory, each its own, with its first value.
Unbuilt ==
    /\ \A i \in Populated : IsInput(i) /\ Holds(mem, tensors[i].data, tensors[i].size, Value(i, 0))
    /\ \A i, j \in Populated :
          i # j => Clear(tensors[i].data, tensors[i].size, tensors[j].data, tensors[j].size)

Compilable == GraphInv /\ ShapesOK /\ MemoryOK /\ Unbuilt

\* The parts of a plan, under names.
PlanViews(dev) == Views(dev, TopologicalOrder)
PlanActive == Active(TopologicalOrder)
PlanGroup(dev, r) == Group(TopologicalOrder, PlanViews(dev), PlanActive, r)
PlanGroups(dev) == {PlanGroup(dev, r) : r \in {PlanViews(dev).root[i] : i \in PlanActive}}
Dedicated(dev) == {g \in PlanGroups(dev) : g.members \cap Protected(PlanActive) # {}}
ArenaGroups(dev) == {g \in PlanGroups(dev) \ Dedicated(dev) : g.size > 0}
Adopted(dev) == {g \in Dedicated(dev) : g.members \cap Populated # {}}
BufferGroups(dev) == {g \in Dedicated(dev) : g.members \cap Populated = {}}
ArenaSize(dev) == TotalSize(Pack(ArenaGroups(dev)))

\* The plan, part by part.
LEMMA PlanParts ==
    ASSUME NEW dev
    PROVE  Plan(dev) = [order |-> TopologicalOrder, active |-> PlanActive, root |-> PlanViews(dev).root,
                        strides |-> PlanViews(dev).strides, packed |-> Pack(ArenaGroups(dev)),
                        arenaSize |-> ArenaSize(dev), adopted |-> Adopted(dev), buffers |-> BufferGroups(dev)]
BY DEF Plan, PlanFor, PlanActive, PlanViews, PlanGroup, PlanGroups, Dedicated, ArenaGroups,
       Adopted, BufferGroups, ArenaSize

\* The order of the plan, its views and its active tensors.
LEMMA PlanFacts ==
    ASSUME GraphInv, ShapesOK, NEW dev
    PROVE  /\ TopologicalOrder \in Seq(Nodes)
           /\ ViewsOK(dev, TopologicalOrder, PlanViews(dev))
           /\ PlanActive \subseteq Tensors
<1>1. TopologicalOrder \in Seq(Nodes)
  <2>1. TopologicalOrder \in Seq(Required) /\ Required \subseteq Nodes
    BY TopologicalOrderFacts, RequiredClosed
  <2> QED
    BY <2>1, SeqMonotonic
<1> QED
  BY <1>1, ViewsFacts, ActiveFacts DEF PlanViews, PlanActive

\* The group of an active tensor.
LEMMA PlanGroupFacts ==
    ASSUME GraphInv, ShapesOK, NEW dev, NEW i \in PlanActive
    PROVE  LET g == PlanGroup(dev, PlanViews(dev).root[i])
           IN  /\ g \in PlanGroups(dev) /\ g \in GroupRecords
               /\ g.root = PlanViews(dev).root[i]
               /\ i \in g.members
               /\ g.members = {j \in PlanActive : PlanViews(dev).root[j] = PlanViews(dev).root[i]}
               /\ g.size = tensors[i].size
               /\ tensors[i].size > 0 =>
                     /\ g.birth <= Birth(TopologicalOrder, i) /\ Birth(TopologicalOrder, i) <= g.death
                     /\ Death(TopologicalOrder, i) <= g.death
<1> DEFINE g == PlanGroup(dev, PlanViews(dev).root[i])
<1>1. g \in PlanGroups(dev)
  BY DEF PlanGroups
<1>2. /\ g \in GroupRecords
      /\ g.root = PlanViews(dev).root[i]
      /\ g.members = {j \in PlanActive : PlanViews(dev).root[j] = PlanViews(dev).root[i]}
      /\ g.size = tensors[i].size
      /\ tensors[i].size > 0 =>
            /\ g.birth <= Birth(TopologicalOrder, i) /\ Birth(TopologicalOrder, i) <= g.death
            /\ Death(TopologicalOrder, i) <= g.death
  BY PlanFacts, GroupFacts DEF PlanGroup, PlanActive
<1> HIDE DEF g
<1> QED
  BY <1>1, <1>2 DEF g

\* The groups of the plan are well formed, and each is that of an active tensor.
LEMMA PlanGroupsOK ==
    ASSUME GraphInv, ShapesOK, NEW dev
    PROVE  /\ GroupsOK(PlanGroups(dev))
           /\ \A g \in PlanGroups(dev) :
                 /\ g.root <= Len(tensors)
                 /\ \E i \in PlanActive : g = PlanGroup(dev, PlanViews(dev).root[i])
<1> DEFINE roots == {PlanViews(dev).root[i] : i \in PlanActive}
           groups == PlanGroups(dev)
<1>1. groups = {PlanGroup(dev, r) : r \in roots}
  BY DEF PlanGroups
<1>2. \A i \in PlanActive : LET g == PlanGroup(dev, PlanViews(dev).root[i])
                            IN  g \in GroupRecords /\ g.root = PlanViews(dev).root[i]
  BY PlanGroupFacts
<1>3. \A r \in roots : PlanGroup(dev, r) \in GroupRecords /\ PlanGroup(dev, r).root = r
  BY <1>2
<1>4. groups \in SUBSET GroupRecords /\ \A g, h \in groups : g.root = h.root => g = h
  <2> HIDE DEF roots, groups
  <2> QED
    BY <1>1, <1>3
<1>5. roots \subseteq 1 .. Len(tensors) /\ Len(tensors) \in Nat
  BY PlanFacts, NodeFacts DEF ViewsOK
<1>6. IsFiniteSet(groups)
  <2>1. IsFiniteSet(roots)
    <3>1. IsFiniteSet(1 .. Len(tensors))
      BY <1>5, FS_Interval
    <3> HIDE DEF roots
    <3> QED
      BY <1>5, <3>1, FS_Subset
  <2> DEFINE f == [r \in roots |-> PlanGroup(dev, r)]
  <2>2. f \in Surjection(roots, groups)
    <3> HIDE DEF roots
    <3> QED
      BY <1>1 DEF Surjection
  <2> HIDE DEF f, roots, groups
  <2> QED
    BY <2>1, <2>2, FS_Surjection
<1>7. \A g \in groups : g.root <= Len(tensors)
  <2> HIDE DEF roots, groups
  <2> QED
    BY <1>1, <1>3, <1>5
<1>8. \A g \in groups : \E i \in PlanActive : g = PlanGroup(dev, PlanViews(dev).root[i])
  BY <1>1
<1> HIDE DEF groups
<1> QED
  BY <1>4, <1>6, <1>7, <1>8 DEF GroupsOK, groups

\* Some groups of well-formed ones are well formed.
LEMMA GroupsSubset ==
    ASSUME NEW groups, GroupsOK(groups), NEW some \in SUBSET groups
    PROVE  GroupsOK(some)
BY FS_Subset DEF GroupsOK

\* The places in the arena and in the memory of populated tensors, and the memory
\* up to the end of the arena.
ArenaPlaces(dev) == {At(p, Len(mem) + 1 + p.offset, p.offset) : p \in Pack(ArenaGroups(dev))}
AdoptedPlaces(dev) == {At(g, tensors[Min(g.members \cap Populated)].data, 0) : g \in Adopted(dev)}
ArenaBytes(dev) == mem \o Cells(Junk, ArenaSize(dev))
PlanLayout(dev) == Buffered(ArenaPlaces(dev) \cup AdoptedPlaces(dev), ArenaBytes(dev), BufferGroups(dev))

\* The layout of the plan, with its parts named.
LEMMA LayoutParts ==
    ASSUME NEW dev
    PROVE  Layout(Plan(dev)) = PlanLayout(dev)
<1>1. /\ Plan(dev).packed = Pack(ArenaGroups(dev)) /\ Plan(dev).arenaSize = ArenaSize(dev)
      /\ Plan(dev).adopted = Adopted(dev) /\ Plan(dev).buffers = BufferGroups(dev)
  BY PlanParts
<1> QED
  BY <1>1 DEF Layout, PlanLayout, Buffered, ArenaPlaces, AdoptedPlaces, ArenaBytes

\* A group with a populated member is that tensor's group: it is the root.
LEMMA AdoptedFacts ==
    ASSUME Compilable, NEW dev, NEW g \in Adopted(dev)
    PROVE  /\ g.root \in Populated /\ g.members \cap Populated = {g.root}
           /\ Min(g.members \cap Populated) = g.root
           /\ g.size = tensors[g.root].size /\ g.size > 0
<1>1. GraphInv /\ ShapesOK /\ Unbuilt /\ MemoryOK
  BY DEF Compilable
<1>2. PICK i \in PlanActive : g = PlanGroup(dev, PlanViews(dev).root[i])
  BY <1>1, PlanGroupsOK DEF Adopted, Dedicated
<1>3. /\ g.root = PlanViews(dev).root[i] /\ i \in PlanActive /\ g.size = tensors[i].size
      /\ g.members = {j \in PlanActive : PlanViews(dev).root[j] = PlanViews(dev).root[i]}
  BY <1>1, <1>2, PlanGroupFacts
<1>4. \A j \in Populated : j \in Tensors /\ IsInput(j)
  BY <1>1 DEF Unbuilt, Populated
<1>5. \A j \in Tensors : IsInput(j) => PlanViews(dev).root[j] = j
  <2> SUFFICES ASSUME NEW j \in Tensors, IsInput(j), PlanViews(dev).root[j] # j PROVE FALSE
    OBVIOUS
  <2>1. PICK n \in Range(TopologicalOrder) : nodes[n].out = j
    BY <1>1, PlanFacts DEF ViewsOK
  <2>2. n \in Nodes
    BY <1>1, PlanFacts DEF Range
  <2> QED
    BY <2>1, <2>2 DEF IsInput
<1>6. PICK j \in g.members \cap Populated : TRUE
  BY DEF Adopted
<1>7. \A k \in g.members \cap Populated : k = g.root
  BY <1>3, <1>4, <1>5
<1>8. g.members \cap Populated = {g.root} /\ g.root \in Populated
  BY <1>6, <1>7
<1>9. g.root \in Tensors /\ g.root \in Nat
  BY <1>1, <1>4, <1>8, NodeFacts
<1>10. Min(g.members \cap Populated) = g.root
  <2>1. Min(g.members \cap Populated) \in g.members \cap Populated
    <3>1. g.members \cap Populated \in SUBSET Nat /\ g.members \cap Populated # {}
      BY <1>8, <1>9
    <3> QED
      BY <3>1, MinNat
  <2> QED
    BY <1>8, <2>1
<1>11. tensors[g.root].size = tensors[i].size
  <2>1. ViewsOK(dev, TopologicalOrder, PlanViews(dev)) /\ i \in Tensors
    BY <1>1, <1>3, PlanFacts
  <2> QED
    BY <1>3, <2>1 DEF ViewsOK
<1>12. 0 < tensors[g.root].size /\ tensors[g.root].size \in Nat
  BY <1>1, <1>8, <1>9, NodeFacts DEF MemoryOK
<1> QED
  BY <1>3, <1>8, <1>10, <1>11, <1>12

\* The packing and the memory up to the end of the arena.
LEMMA ArenaFacts ==
    ASSUME Compilable, NEW dev
    PROVE  /\ GroupsOK(ArenaGroups(dev)) /\ GroupsOK(BufferGroups(dev))
           /\ Pack(ArenaGroups(dev)) \in SUBSET PlannedRecords
           /\ Packs(Pack(ArenaGroups(dev)), ArenaGroups(dev))
           /\ ArenaSize(dev) \in Nat
           /\ \A p \in Pack(ArenaGroups(dev)) : End(p) <= ArenaSize(dev)
           /\ ArenaBytes(dev) \in Seq(AllCells) /\ Len(ArenaBytes(dev)) = Len(mem) + ArenaSize(dev)
           /\ \A a \in 1 .. Len(mem) : ArenaBytes(dev)[a] = mem[a]
<1>1. GraphInv /\ ShapesOK /\ mem \in Seq(AllCells)
  BY DEF Compilable, MemoryOK
<1>2. GroupsOK(PlanGroups(dev))
  BY <1>1, PlanGroupsOK
<1>3. GroupsOK(ArenaGroups(dev)) /\ GroupsOK(BufferGroups(dev))
  <2>1. ArenaGroups(dev) \in SUBSET PlanGroups(dev) /\ BufferGroups(dev) \in SUBSET PlanGroups(dev)
    BY DEF ArenaGroups, BufferGroups, Dedicated
  <2> QED
    BY <1>2, <2>1, GroupsSubset
<1>4. /\ Pack(ArenaGroups(dev)) \in SUBSET PlannedRecords
      /\ Packs(Pack(ArenaGroups(dev)), ArenaGroups(dev))
  BY <1>3, PackFacts
<1>5. /\ ArenaSize(dev) \in Nat
      /\ \A p \in Pack(ArenaGroups(dev)) : End(p) <= ArenaSize(dev)
  BY <1>4, TotalHoldsGroups DEF ArenaSize, Packs
<1>6. Cells(Junk, ArenaSize(dev)) \in Seq(AllCells) /\ Len(Cells(Junk, ArenaSize(dev))) = ArenaSize(dev)
  <2>1. Junk \in AllValues
    BY DEF Junk, Value, AllValues
  <2> QED
    BY <1>5, <2>1, CellsFacts
<1> DEFINE junk == Cells(Junk, ArenaSize(dev))
<1> HIDE DEF junk
<1>7. ArenaBytes(dev) = mem \o junk /\ junk \in Seq(AllCells) /\ Len(junk) = ArenaSize(dev)
  BY <1>6 DEF ArenaBytes, junk
<1>8. /\ ArenaBytes(dev) \in Seq(AllCells) /\ Len(ArenaBytes(dev)) = Len(mem) + ArenaSize(dev)
      /\ \A a \in 1 .. Len(mem) + ArenaSize(dev) :
            ArenaBytes(dev)[a] = IF a <= Len(mem) THEN mem[a] ELSE junk[a - Len(mem)]
  <2>1. /\ mem \o junk \in Seq(AllCells) /\ Len(mem \o junk) = Len(mem) + Len(junk)
        /\ \A a \in 1 .. Len(mem) + Len(junk) :
              (mem \o junk)[a] = IF a <= Len(mem) THEN mem[a] ELSE junk[a - Len(mem)]
    BY <1>1, <1>7, ConcatProperties
  <2> QED
    BY <1>7, <2>1
<1>9. \A a \in 1 .. Len(mem) : a \in 1 .. Len(mem) + ArenaSize(dev) /\ a <= Len(mem)
  BY <1>1, <1>5
<1> QED
  BY <1>3, <1>4, <1>5, <1>8, <1>9

\* The layout of a build: all places, and the memory behind the arena.
LEMMA LayoutFacts ==
    ASSUME Compilable, NEW dev
    PROVE  /\ BuffersOK(PlanLayout(dev), ArenaPlaces(dev) \cup AdoptedPlaces(dev), ArenaBytes(dev), BufferGroups(dev))
           /\ \A p, q \in ArenaPlaces(dev) \cup AdoptedPlaces(dev) : p.root = q.root => p = q
           /\ \A p \in ArenaPlaces(dev) \cup AdoptedPlaces(dev), g \in BufferGroups(dev) : p.root # g.root
<1> DEFINE arena == ArenaPlaces(dev)
           adopted == AdoptedPlaces(dev)
<1>1. GraphInv /\ ShapesOK /\ mem \in Seq(AllCells)
  BY DEF Compilable, MemoryOK
<1>2. GroupsOK(PlanGroups(dev)) /\ \A g \in PlanGroups(dev) : g.root <= Len(tensors)
  BY <1>1, PlanGroupsOK
<1>3. /\ GroupsOK(BufferGroups(dev)) /\ ArenaBytes(dev) \in Seq(AllCells)
      /\ Pack(ArenaGroups(dev)) \in SUBSET PlannedRecords
      /\ Packs(Pack(ArenaGroups(dev)), ArenaGroups(dev))
  BY ArenaFacts
<1>4. \A p \in arena : /\ p \in PlaceRecords
                       /\ \E q \in Pack(ArenaGroups(dev)) : p = At(q, Len(mem) + 1 + q.offset, q.offset) /\ p.root = q.root
                       /\ \E g \in ArenaGroups(dev) : p.root = g.root
  <2> SUFFICES ASSUME NEW q \in Pack(ArenaGroups(dev)), NEW p, p = At(q, Len(mem) + 1 + q.offset, q.offset)
               PROVE  p \in PlaceRecords /\ p.root = q.root /\ \E g \in ArenaGroups(dev) : p.root = g.root
    BY DEF ArenaPlaces
  <2>1. q.root \in Nat /\ q.offset \in Nat
    BY <1>3 DEF PlannedRecords
  <2>2. p.root = q.root /\ p \in PlaceRecords
    BY <1>1, <2>1 DEF At, PlaceRecords
  <2> QED
    BY <1>3, <2>2 DEF Packs
<1>5. \A p \in adopted : /\ p \in PlaceRecords
                         /\ \E g \in Adopted(dev) : p = At(g, tensors[g.root].data, 0) /\ p.root = g.root
  <2> SUFFICES ASSUME NEW g \in Adopted(dev), NEW p, p = At(g, tensors[Min(g.members \cap Populated)].data, 0)
               PROVE  p \in PlaceRecords /\ p = At(g, tensors[g.root].data, 0) /\ p.root = g.root
    BY DEF AdoptedPlaces
  <2>1. g.root \in Populated /\ Min(g.members \cap Populated) = g.root
    BY AdoptedFacts
  <2>2. tensors[g.root].data \in Nat /\ g.root \in Nat
    <3>1. g.root \in 1 .. Len(tensors) /\ Len(tensors) \in Nat
      BY <1>1, <2>1, NodeFacts DEF Populated
    <3>2. tensors[g.root] \in [rank : Ranks, size : Sizes, strides : {"row", "swapped"}, data : Nat,
                               offset : Nat, device : Devices \cup {"CPU"}]
      BY <1>1, <3>1, ElementOfSeq DEF GraphInv
    <3> QED
      BY <3>1, <3>2
  <2> QED
    BY <2>1, <2>2 DEF At, PlaceRecords
<1>6. ASSUME NEW p \in arena \cup adopted, NEW q \in arena \cup adopted, p.root = q.root PROVE p = q
  <2>1. ASSUME NEW x \in arena, NEW y \in adopted PROVE x.root # y.root
    <3>1. PICK g \in ArenaGroups(dev) : x.root = g.root
      BY <1>4
    <3>2. PICK h \in Adopted(dev) : y.root = h.root
      BY <1>5
    <3>3. g \in PlanGroups(dev) /\ h \in PlanGroups(dev) /\ g # h
      BY DEF ArenaGroups, Adopted, Dedicated
    <3> QED
      BY <1>2, <3>1, <3>2, <3>3 DEF GroupsOK
  <2>2. CASE p \in arena /\ q \in arena
    <3>1. PICK x \in Pack(ArenaGroups(dev)) : p = At(x, Len(mem) + 1 + x.offset, x.offset) /\ p.root = x.root
      BY <1>4, <2>2
    <3>2. PICK y \in Pack(ArenaGroups(dev)) : q = At(y, Len(mem) + 1 + y.offset, y.offset) /\ q.root = y.root
      BY <1>4, <2>2
    <3>3. x = y
      BY <1>3, <1>6, <3>1, <3>2 DEF Packs
    <3> QED
      BY <3>1, <3>2, <3>3
  <2>3. CASE p \in adopted /\ q \in adopted
    <3>1. PICK g \in Adopted(dev) : p = At(g, tensors[g.root].data, 0) /\ p.root = g.root
      BY <1>5, <2>3
    <3>2. PICK h \in Adopted(dev) : q = At(h, tensors[h.root].data, 0) /\ q.root = h.root
      BY <1>5, <2>3
    <3>3. g \in PlanGroups(dev) /\ h \in PlanGroups(dev) /\ g.root = h.root
      BY <1>6, <3>1, <3>2 DEF Adopted, Dedicated
    <3>4. g = h
      BY <1>2, <3>3 DEF GroupsOK
    <3> QED
      BY <3>1, <3>2, <3>4
  <2> QED
    BY <1>6, <2>1, <2>2, <2>3
<1>7. ASSUME NEW p \in arena \cup adopted, NEW g \in BufferGroups(dev) PROVE p.root # g.root
  <2>1. PICK h \in ArenaGroups(dev) \cup Adopted(dev) : p.root = h.root
    BY <1>4, <1>5
  <2>2. g \in PlanGroups(dev) /\ h \in PlanGroups(dev) /\ g # h
    BY <2>1 DEF ArenaGroups, Adopted, BufferGroups, Dedicated
  <2> QED
    BY <1>2, <2>1, <2>2 DEF GroupsOK
<1>8. arena \cup adopted \in SUBSET PlaceRecords
  BY <1>4, <1>5
<1>9. \A g \in BufferGroups(dev) : g.root <= Len(tensors)
  BY <1>2 DEF BufferGroups, Dedicated
<1>10. Len(tensors) \in Nat
  BY <1>1, NodeFacts
<1> HIDE DEF arena, adopted
<1>11. BuffersOK(Buffered(arena \cup adopted, ArenaBytes(dev), BufferGroups(dev)), arena \cup adopted,
                 ArenaBytes(dev), BufferGroups(dev))
  BY <1>3, <1>6, <1>7, <1>8, <1>9, <1>10, BufferedFacts
<1> QED
  BY <1>6, <1>7, <1>11 DEF PlanLayout, arena, adopted

\* Group g is at p: in the arena, in the memory of its populated root, or in a
\* buffer of its own.
Located(dev, g, p) ==
    /\ p \in PlanLayout(dev).places /\ p.root = g.root
    /\ \/ /\ g \in ArenaGroups(dev)
          /\ \E q \in Pack(ArenaGroups(dev)) : q.root = g.root /\ p.data = Len(mem) + 1 + q.offset
       \/ g \in Adopted(dev) /\ p.data = tensors[g.root].data
       \/ g \in BufferGroups(dev) /\ BufferAt(PlanLayout(dev).bytes, Len(ArenaBytes(dev)), p, g)

\* A group with bytes has a place in the layout.
LEMMA GroupsAreLocated ==
    ASSUME Compilable, NEW dev, NEW g \in PlanGroups(dev), g.size > 0
    PROVE  \E p : Located(dev, g, p)
<1> DEFINE layout == PlanLayout(dev)
           arena == ArenaPlaces(dev)
           adopted == AdoptedPlaces(dev)
<1>1. BuffersOK(layout, arena \cup adopted, ArenaBytes(dev), BufferGroups(dev))
  BY LayoutFacts
<1> HIDE DEF layout, arena, adopted
<1>2. arena \cup adopted \subseteq layout.places
  BY <1>1 DEF BuffersOK
<1>3. CASE g \in ArenaGroups(dev)
  <2>1. PICK q \in Pack(ArenaGroups(dev)) : q.root = g.root
    BY <1>3, ArenaFacts DEF Packs
  <2> DEFINE p == At(q, Len(mem) + 1 + q.offset, q.offset)
  <2>2. p \in arena
    BY DEF arena, ArenaPlaces
  <2>3. p.root = g.root /\ p.data = Len(mem) + 1 + q.offset
    BY <2>1 DEF At
  <2> HIDE DEF p
  <2> QED
    BY <1>2, <1>3, <2>1, <2>2, <2>3 DEF Located, layout
<1>4. CASE g \in Adopted(dev)
  <2>1. Min(g.members \cap Populated) = g.root
    BY <1>4, AdoptedFacts
  <2> DEFINE p == At(g, tensors[Min(g.members \cap Populated)].data, 0)
  <2>2. p \in adopted
    BY <1>4 DEF adopted, AdoptedPlaces
  <2>3. p.root = g.root /\ p.data = tensors[g.root].data
    BY <2>1 DEF At
  <2> HIDE DEF p
  <2> QED
    BY <1>2, <1>4, <2>2, <2>3 DEF Located, layout
<1>5. CASE g \in BufferGroups(dev)
  <2>1. PICK p \in layout.places : BufferAt(layout.bytes, Len(ArenaBytes(dev)), p, g)
    BY <1>1, <1>5 DEF BuffersOK
  <2>2. p.root = g.root
    BY <2>1 DEF BufferAt
  <2> QED
    BY <1>5, <2>1, <2>2 DEF Located, layout
<1>6. g \in ArenaGroups(dev) \cup Adopted(dev) \cup BufferGroups(dev)
  BY DEF ArenaGroups, Adopted, BufferGroups, Dedicated
<1> QED
  BY <1>3, <1>4, <1>5, <1>6

\* No two places have one root.
LEMMA PlacesAreUnique ==
    ASSUME Compilable, NEW dev, NEW p \in PlanLayout(dev).places, NEW q \in PlanLayout(dev).places,
           p.root = q.root
    PROVE  p = q
BY LayoutFacts DEF BuffersOK

TensorRecords == [rank : Ranks, size : Sizes, strides : {"row", "swapped"}, data : Nat,
                  offset : Nat, device : Devices \cup {"CPU"}]

PlanStaged(dev) == Staged(Plan(dev), PlanLayout(dev).places, dev)

\* The tensors after a build: what it changed in each of them.
LEMMA StagedFacts ==
    ASSUME Compilable, NEW dev \in Devices, NEW i \in Tensors
    PROVE  /\ PlanStaged(dev)[i] \in TensorRecords
           /\ PlanStaged(dev)[i].rank = tensors[i].rank
           /\ PlanStaged(dev)[i].size = tensors[i].size
           /\ PlanStaged(dev)[i].strides = PlanViews(dev).strides[i]
           /\ i \notin PlanActive \/ tensors[i].size = 0 => PlanStaged(dev)[i].data = tensors[i].data
           /\ i \in PlanActive /\ tensors[i].size > 0 =>
                 \E p : /\ Located(dev, PlanGroup(dev, PlanViews(dev).root[i]), p)
                        /\ PlanStaged(dev)[i].data = p.data
<1> DEFINE places == PlanLayout(dev).places
           root == PlanViews(dev).root
           restrided == [tensors[i] EXCEPT !.strides = PlanViews(dev).strides[i]]
           placed == tensors[i].size > 0 /\ \E p \in places : p.root = root[i]
           p == CHOOSE p \in places : p.root = root[i]
           moved == [restrided EXCEPT !.data = p.data, !.offset = p.offset]
           now == IF i \notin PlanActive THEN restrided
                  ELSE [(IF placed THEN moved ELSE restrided) EXCEPT !.device = dev]
<1>1. GraphInv /\ ShapesOK
  BY DEF Compilable
<1>2. PlanStaged(dev)[i] = now
  <2>1. /\ Plan(dev).active = PlanActive /\ Plan(dev).root = root
        /\ Plan(dev).strides = PlanViews(dev).strides
    BY PlanParts
  <2> HIDE DEF p
  <2>2. \A ts, ps : Staged(ts, ps, dev) = Staged(ts, ps, dev)
    OBVIOUS
  <2> QED
    BY <2>1 DEF PlanStaged, Staged, Restrided, p
<1>3. tensors[i] \in TensorRecords /\ tensors[i].size \in Nat
  <2>1. i \in 1 .. Len(tensors)
    BY <1>1, NodeFacts
  <2>2. tensors[i] \in TensorRecords
    BY <1>1, <2>1, ElementOfSeq DEF GraphInv, TensorRecords
  <2> QED
    BY <1>1, <2>2, NodeFacts
<1>4. PlanViews(dev).strides[i] \in {"row", "swapped"}
  BY <1>1, PlanFacts DEF ViewsOK
<1>5. /\ restrided \in TensorRecords /\ restrided.rank = tensors[i].rank /\ restrided.size = tensors[i].size
      /\ restrided.strides = PlanViews(dev).strides[i] /\ restrided.data = tensors[i].data
  BY <1>3, <1>4 DEF TensorRecords
<1>6. CASE i \notin PlanActive
  BY <1>2, <1>5, <1>6
<1>7. CASE i \in PlanActive /\ tensors[i].size = 0
  <2>1. now = [restrided EXCEPT !.device = dev]
    BY <1>7
  <2> HIDE DEF restrided, now
  <2>2. [restrided EXCEPT !.device = dev] \in TensorRecords
    BY <1>5 DEF TensorRecords
  <2>3. /\ now.rank = restrided.rank /\ now.size = restrided.size
        /\ now.strides = restrided.strides /\ now.data = restrided.data
    BY <1>5, <2>1 DEF TensorRecords
  <2> QED
    BY <1>2, <1>5, <1>7, <2>1, <2>2, <2>3
<1>8. CASE i \in PlanActive /\ tensors[i].size > 0
  <2> DEFINE g == PlanGroup(dev, root[i])
  <2>1. g \in PlanGroups(dev) /\ g.root = root[i] /\ g.size = tensors[i].size
    BY <1>1, <1>8, PlanGroupFacts
  <2> HIDE DEF g
  <2>2. PICK q : Located(dev, g, q)
    BY <1>8, <2>1, GroupsAreLocated
  <2>3. q \in places /\ q.root = root[i]
    BY <2>1, <2>2 DEF Located
  <2>4. placed
    BY <1>8, <2>3
  <2>5. p \in places /\ p.root = root[i]
    BY <2>3
  <2> HIDE DEF p
  <2>6. p = q
    BY <2>3, <2>5, PlacesAreUnique
  <2>7. p.data \in Nat /\ p.offset \in Nat
    BY <2>5, LayoutFacts DEF BuffersOK, PlaceRecords
  <2>8. now = [moved EXCEPT !.device = dev]
    BY <1>8, <2>4
  <2> HIDE DEF restrided, now, placed
  <2>9. moved \in TensorRecords /\ moved.data = p.data /\ moved.rank = restrided.rank
        /\ moved.size = restrided.size /\ moved.strides = restrided.strides
    BY <1>5, <2>7 DEF TensorRecords
  <2> HIDE DEF moved
  <2>10. /\ now \in TensorRecords /\ now.data = p.data /\ now.rank = restrided.rank
         /\ now.size = restrided.size /\ now.strides = restrided.strides
    BY <2>8, <2>9 DEF TensorRecords
  <2> QED
    BY <1>2, <1>5, <1>8, <2>2, <2>6, <2>10 DEF g
<1>9. tensors[i].size = 0 \/ tensors[i].size > 0
  BY <1>3
<1> QED
  BY <1>6, <1>7, <1>8, <1>9

-----------------------------------------------------------------------------
(* What a build leaves for the executions.                                 *)

\* Tensor i views what its producer reads: the bytes of its root, as they are or
\* with the last two axes exchanged, and then only for kernels that know strides.
ViewOf(lay, order, dev, i) ==
    \E n \in Range(order) :
        LET in == nodes[n].ins[1]
        IN  /\ nodes[n].out = i
            /\ lay.strides[in] = "row"
            /\ lay.root[in] = lay.root[i]
            /\ \/ nodes[n].op = "Reshape" /\ lay.strides[i] = "row"
               \/ /\ nodes[n].op = "Transpose" /\ lay.strides[i] = "swapped"
                  /\ dev \in {"CPU", "CUDA"}
                  /\ hasExplicit /\ i \notin explicit
                  /\ \A m \in Range(order) : Uses(m, i) =>
                        nodes[m].op = "MatMul" /\ (dev = "CUDA" => nodes[m].ins[1] # i)

\* lay says of every tensor its size and strides, the root of its group, where
\* the group lies and, of the groups in the arena, from which step to which it
\* is alive.  Groups lie apart, or in the arena at different times.
LayRecords(lay) ==
    /\ lay.size \in [lay.tensors -> Nat] /\ lay.strides \in [lay.tensors -> {"row", "swapped"}]
    /\ lay.root \in [lay.tensors -> lay.tensors] /\ lay.home \in [lay.tensors -> Nat]
    /\ lay.birth \in [lay.tensors -> Nat] /\ lay.death \in [lay.tensors -> Nat]
    /\ lay.arena \subseteq lay.tensors /\ lay.top \in Nat

RootsLaid(lay, order, dev) ==
    \A i \in lay.tensors :
        /\ lay.root[lay.root[i]] = lay.root[i]
        /\ lay.size[lay.root[i]] = lay.size[i]
        /\ lay.home[lay.root[i]] = lay.home[i]
        /\ lay.root[i] # i => ViewOf(lay, order, dev, i)

HomesLaid(lay, order) ==
    \A i \in lay.tensors :
        /\ lay.home[i] # NULL => lay.size[i] > 0 /\ lay.home[i] + lay.size[i] - 1 <= lay.top
        /\ lay.size[i] > 0 /\ i \in Touched(order) => lay.home[i] # NULL
        /\ lay.size[i] > 0 /\ (hasExplicit => i \in explicit) => lay.home[i] # NULL

ArenaLaid(lay, order) ==
    \A i \in lay.arena :
        /\ ~ IsInput(i) /\ hasExplicit /\ i \notin explicit
        /\ lay.birth[i] <= Birth(order, i) /\ Birth(order, i) <= lay.death[i]
        /\ Death(order, i) <= lay.death[i]

Separate(lay, i, j) ==
    \/ Clear(lay.home[i], lay.size[i], lay.home[j], lay.size[j])
    \/ /\ i \in lay.arena /\ j \in lay.arena
       /\ lay.death[i] < lay.birth[j] \/ lay.death[j] < lay.birth[i]

LaidApart(lay) ==
    \A i, j \in lay.tensors :
        lay.root[i] # lay.root[j] /\ lay.home[i] # NULL /\ lay.home[j] # NULL => Separate(lay, i, j)

LaidOut(lay, order, dev) ==
    /\ LayRecords(lay)
    /\ RootsLaid(lay, order, dev)
    /\ HomesLaid(lay, order)
    /\ ArenaLaid(lay, order)
    /\ LaidApart(lay)

-----------------------------------------------------------------------------
(* A build lays the tensors out.                                           *)

GroupOf(dev, i) == PlanGroup(dev, PlanViews(dev).root[i])
HomeOf(dev, i) == PlanStaged(dev)[i].data

\* The three places of a tensor with memory: where its root was before the build,
\* in the arena, in a buffer of its own.
InPlace(dev, i) ==
    LET r == PlanViews(dev).root[i]
    IN  /\ r \in Populated /\ HomeOf(dev, i) = tensors[r].data
        /\ HomeOf(dev, i) + tensors[i].size - 1 <= Len(mem)

InArena(dev, i) ==
    /\ i \in PlanActive /\ GroupOf(dev, i) \in ArenaGroups(dev)
    /\ \E q \in Pack(ArenaGroups(dev)) :
          /\ q.root = PlanViews(dev).root[i] /\ HomeOf(dev, i) = Len(mem) + 1 + q.offset
          /\ q.offset \in Nat /\ q.aligned_size \in Nat /\ tensors[i].size <= q.aligned_size
    /\ Len(mem) < HomeOf(dev, i)
    /\ HomeOf(dev, i) + tensors[i].size - 1 <= Len(mem) + ArenaSize(dev)

InBuffer(dev, i) ==
    /\ i \in PlanActive /\ GroupOf(dev, i) \in BufferGroups(dev)
    /\ \E p \in PlanLayout(dev).places :
          /\ HomeOf(dev, i) = p.data
          /\ BufferAt(PlanLayout(dev).bytes, Len(ArenaBytes(dev)), p, GroupOf(dev, i))
    /\ Len(mem) + ArenaSize(dev) < HomeOf(dev, i)
    /\ HomeOf(dev, i) + tensors[i].size - 1 <= Len(PlanLayout(dev).bytes)

\* The memory of the layout extends that of before by the arena and the buffers.
LEMMA BuiltMemory ==
    ASSUME Compilable, NEW dev
    PROVE  /\ PlanLayout(dev).bytes \in Seq(AllCells) /\ Len(mem) \in Nat /\ ArenaSize(dev) \in Nat
           /\ Len(mem) + ArenaSize(dev) <= Len(PlanLayout(dev).bytes)
           /\ \A a \in 1 .. Len(mem) : PlanLayout(dev).bytes[a] = mem[a]
<1>1. /\ ArenaBytes(dev) \in Seq(AllCells) /\ Len(ArenaBytes(dev)) = Len(mem) + ArenaSize(dev)
      /\ \A a \in 1 .. Len(mem) : ArenaBytes(dev)[a] = mem[a]
      /\ ArenaSize(dev) \in Nat
  BY ArenaFacts
<1>2. /\ PlanLayout(dev).bytes \in Seq(AllCells)
      /\ Len(ArenaBytes(dev)) <= Len(PlanLayout(dev).bytes)
      /\ \A a \in 1 .. Len(ArenaBytes(dev)) : PlanLayout(dev).bytes[a] = ArenaBytes(dev)[a]
  BY LayoutFacts DEF BuffersOK
<1>3. Len(mem) \in Nat
  BY DEF Compilable, MemoryOK
<1>4. \A a \in 1 .. Len(mem) : a \in 1 .. Len(mem) + ArenaSize(dev)
  BY <1>1, <1>3
<1> QED
  BY <1>1, <1>2, <1>3, <1>4

\* A tensor with a home is in place, in the arena or in a buffer; one that is active and not empty has a home.
LEMMA HomeCases ==
    ASSUME Compilable, NEW dev \in Devices, NEW i \in Tensors
    PROVE  /\ HomeOf(dev, i) \in Nat
           /\ HomeOf(dev, i) # NULL =>
                 /\ tensors[i].size > 0
                 /\ InPlace(dev, i) \/ InArena(dev, i) \/ InBuffer(dev, i)
           /\ i \in PlanActive /\ tensors[i].size > 0 => HomeOf(dev, i) # NULL
<1> DEFINE r == PlanViews(dev).root[i]
           g == GroupOf(dev, i)
<1>1. GraphInv /\ ShapesOK /\ MemoryOK
  BY DEF Compilable
<1>2. /\ PlanStaged(dev)[i] \in TensorRecords
      /\ i \notin PlanActive \/ tensors[i].size = 0 => HomeOf(dev, i) = tensors[i].data
      /\ i \in PlanActive /\ tensors[i].size > 0 =>
            \E p : Located(dev, g, p) /\ HomeOf(dev, i) = p.data
  BY StagedFacts DEF HomeOf, GroupOf
<1>3. HomeOf(dev, i) \in Nat
  BY <1>2 DEF TensorRecords, HomeOf
<1>4. /\ ViewsOK(dev, TopologicalOrder, PlanViews(dev)) /\ TopologicalOrder \in Seq(Nodes)
      /\ PlanActive \subseteq Tensors
  BY <1>1, PlanFacts
<1>5. r \in Tensors /\ tensors[r].size = tensors[i].size /\ tensors[i].size \in Nat /\ Len(mem) \in Nat
  BY <1>1, <1>4, NodeFacts DEF ViewsOK, MemoryOK
<1>6. r # i => i \in PlanActive
  <2>1. SUFFICES ASSUME r # i PROVE i \in PlanActive
    OBVIOUS
  <2>2. PICK n \in Range(TopologicalOrder) : nodes[n].out = i
    BY <1>4, <2>1 DEF ViewsOK
  <2> QED
    BY <1>1, <1>4, <2>2, ActiveFacts DEF PlanActive
<1>7. CASE i \notin PlanActive \/ tensors[i].size = 0
  <2>1. HomeOf(dev, i) = tensors[i].data
    BY <1>2, <1>7
  <2>2. SUFFICES ASSUME HomeOf(dev, i) # NULL
                 PROVE  tensors[i].size > 0 /\ InPlace(dev, i)
    BY <1>3, <1>7
  <2>3. i \in Populated
    BY <2>1, <2>2 DEF Populated
  <2>4. 0 < tensors[i].size /\ tensors[i].data + tensors[i].size - 1 <= Len(mem)
    BY <1>1, <2>3 DEF MemoryOK
  <2>5. r = i
    BY <1>5, <1>6, <1>7, <2>4
  <2> QED
    BY <1>5, <2>1, <2>3, <2>4, <2>5 DEF InPlace
<1>8. CASE i \in PlanActive /\ tensors[i].size > 0
  <2>1. PICK p : Located(dev, g, p) /\ HomeOf(dev, i) = p.data
    BY <1>2, <1>8
  <2>2. g \in PlanGroups(dev) /\ g.root = r /\ g.size = tensors[i].size
    BY <1>1, <1>8, PlanGroupFacts DEF GroupOf
  <2>3. CASE g \in ArenaGroups(dev) /\ \E q \in Pack(ArenaGroups(dev)) : q.root = g.root /\ p.data = Len(mem) + 1 + q.offset
    <3>1. PICK q \in Pack(ArenaGroups(dev)) : q.root = g.root /\ p.data = Len(mem) + 1 + q.offset
      BY <2>3
    <3>2. /\ Packs(Pack(ArenaGroups(dev)), ArenaGroups(dev)) /\ ArenaSize(dev) \in Nat
          /\ End(q) <= ArenaSize(dev) /\ GroupsOK(ArenaGroups(dev))
      BY <3>1, ArenaFacts
    <3>3. q.offset \in Nat /\ q.aligned_size \in Nat /\ q.size <= q.aligned_size
      BY <3>1, <3>2 DEF Packs, Packing
    <3>4. PICK h \in ArenaGroups(dev) : q.root = h.root /\ q.size = h.size
      BY <3>1, <3>2 DEF Packs
    <3>5. q.size = g.size
      BY <2>3, <3>1, <3>2, <3>4 DEF GroupsOK
    <3>6. InArena(dev, i)
      BY <1>5, <1>8, <2>1, <2>2, <2>3, <3>1, <3>2, <3>3, <3>5 DEF InArena, End
    <3>7. HomeOf(dev, i) # NULL
      BY <1>5, <2>1, <3>1, <3>3 DEF NULL
    <3> QED
      BY <1>3, <1>8, <3>6, <3>7
  <2>4. CASE g \in Adopted(dev) /\ p.data = tensors[g.root].data
    <3>1. r \in Populated
      BY <2>2, <2>4, AdoptedFacts
    <3>2. tensors[r].data # NULL /\ tensors[r].data + tensors[r].size - 1 <= Len(mem)
      BY <1>1, <3>1 DEF Populated, MemoryOK
    <3> QED
      BY <1>3, <1>5, <1>8, <2>1, <2>2, <2>4, <3>1, <3>2 DEF InPlace
  <2>5. CASE g \in BufferGroups(dev) /\ BufferAt(PlanLayout(dev).bytes, Len(ArenaBytes(dev)), p, g)
    <3>1. p \in PlanLayout(dev).places
      BY <2>1 DEF Located
    <3>2. Len(ArenaBytes(dev)) = Len(mem) + ArenaSize(dev) /\ ArenaSize(dev) \in Nat
      BY ArenaFacts
    <3>3. Len(ArenaBytes(dev)) < p.data /\ p.data + g.size <= Len(PlanLayout(dev).bytes) + 1
      BY <2>5 DEF BufferAt
    <3>4. Len(PlanLayout(dev).bytes) \in Nat
      BY BuiltMemory
    <3>5. /\ Len(mem) + ArenaSize(dev) < HomeOf(dev, i)
          /\ HomeOf(dev, i) + tensors[i].size - 1 <= Len(PlanLayout(dev).bytes)
      BY <1>3, <1>5, <2>1, <2>2, <3>2, <3>3, <3>4, SMTT(30)
    <3>6. InBuffer(dev, i)
      BY <1>8, <2>1, <2>5, <3>1, <3>5 DEF InBuffer
    <3>7. HomeOf(dev, i) # NULL
      BY <1>3, <1>5, <3>2, <3>5 DEF NULL
    <3> QED
      BY <1>3, <1>8, <3>6, <3>7
  <2> QED
    BY <2>1, <2>3, <2>4, <2>5 DEF Located
<1> QED
  BY <1>5, <1>7, <1>8

PlanLay(dev) ==
    [tensors |-> Tensors, size |-> [i \in Tensors |-> tensors[i].size], strides |-> PlanViews(dev).strides,
     root |-> PlanViews(dev).root, home |-> [i \in Tensors |-> HomeOf(dev, i)],
     arena |-> {i \in PlanActive : GroupOf(dev, i) \in ArenaGroups(dev)},
     birth |-> [i \in Tensors |-> IF i \in PlanActive THEN GroupOf(dev, i).birth ELSE 0],
     death |-> [i \in Tensors |-> IF i \in PlanActive THEN GroupOf(dev, i).death ELSE 0],
     top |-> Len(PlanLayout(dev).bytes)]

\* The layout the plan stands for has the types of a layout.
LEMMA PlanLayRecords ==
    ASSUME Compilable, NEW dev \in Devices
    PROVE  LayRecords(PlanLay(dev))
<1> DEFINE lay == PlanLay(dev)
<1>1. GraphInv /\ ShapesOK
  BY DEF Compilable
<1>2. ViewsOK(dev, TopologicalOrder, PlanViews(dev)) /\ PlanActive \subseteq Tensors
  BY <1>1, PlanFacts
<1>3. \A i \in Tensors : tensors[i].size \in Nat
  BY <1>1, NodeFacts
<1>4. \A i \in Tensors : HomeOf(dev, i) \in Nat
  BY HomeCases
<1>5. \A i \in PlanActive : GroupOf(dev, i).birth \in Nat /\ GroupOf(dev, i).death \in Nat
  <2> TAKE i \in PlanActive
  <2>1. GroupOf(dev, i) \in GroupRecords
    BY <1>1, PlanGroupFacts DEF GroupOf
  <2> QED
    BY <2>1 DEF GroupRecords
<1>6. Len(PlanLayout(dev).bytes) \in Nat
  BY BuiltMemory
<1>7. /\ lay.size = [i \in Tensors |-> tensors[i].size] /\ lay.strides = PlanViews(dev).strides
      /\ lay.root = PlanViews(dev).root /\ lay.home = [i \in Tensors |-> HomeOf(dev, i)]
      /\ lay.arena = {i \in PlanActive : GroupOf(dev, i) \in ArenaGroups(dev)}
      /\ lay.birth = [i \in Tensors |-> IF i \in PlanActive THEN GroupOf(dev, i).birth ELSE 0]
      /\ lay.death = [i \in Tensors |-> IF i \in PlanActive THEN GroupOf(dev, i).death ELSE 0]
      /\ lay.top = Len(PlanLayout(dev).bytes) /\ lay.tensors = Tensors
  BY DEF PlanLay
<1> HIDE DEF lay
<1>8. /\ lay.size \in [Tensors -> Nat] /\ lay.home \in [Tensors -> Nat]
  BY <1>3, <1>4, <1>7
<1>9. lay.birth \in [Tensors -> Nat] /\ lay.death \in [Tensors -> Nat]
  BY <1>2, <1>5, <1>7
<1>10. lay.strides \in [Tensors -> {"row", "swapped"}] /\ lay.root \in [Tensors -> Tensors]
  BY <1>2, <1>7 DEF ViewsOK
<1>11. lay.arena \subseteq Tensors /\ lay.top \in Nat /\ lay.tensors = Tensors
  BY <1>2, <1>6, <1>7
<1> QED
  BY <1>8, <1>9, <1>10, <1>11 DEF LayRecords, lay

\* What its parts are.
LEMMA PlanLayParts ==
    ASSUME Compilable, NEW dev \in Devices
    PROVE  /\ PlanLay(dev).tensors = Tensors /\ PlanLay(dev).root = PlanViews(dev).root
           /\ PlanLay(dev).strides = PlanViews(dev).strides /\ PlanLay(dev).top = Len(PlanLayout(dev).bytes)
           /\ \A i \in Tensors :
                 /\ PlanLay(dev).size[i] = tensors[i].size /\ PlanLay(dev).home[i] = HomeOf(dev, i)
                 /\ i \in PlanLay(dev).arena <=> i \in PlanActive /\ GroupOf(dev, i) \in ArenaGroups(dev)
           /\ \A i \in PlanActive :
                 PlanLay(dev).birth[i] = GroupOf(dev, i).birth /\ PlanLay(dev).death[i] = GroupOf(dev, i).death
<1>1. PlanActive \subseteq Tensors
  BY PlanFacts DEF Compilable
<1> QED
  BY <1>1 DEF PlanLay

\* The arena and the buffers hold nothing that was populated or is an input.
LEMMA GroupProtection ==
    ASSUME Compilable, NEW dev, NEW i \in PlanActive
    PROVE  /\ GroupOf(dev, i) \in ArenaGroups(dev) => i \notin Protected(PlanActive)
           /\ GroupOf(dev, i) \in BufferGroups(dev) => i \notin Populated
<1>1. i \in GroupOf(dev, i).members
  BY PlanGroupFacts DEF Compilable, GroupOf
<1>2. GroupOf(dev, i) \in PlanGroups(dev)
  BY PlanGroupFacts DEF Compilable, GroupOf
<1> QED
  BY <1>1, <1>2 DEF ArenaGroups, BufferGroups, Dedicated

\* Its views are what LaidOut asks for,
LEMMA PlanRootsLaid ==
    ASSUME Compilable, NEW dev \in Devices
    PROVE  RootsLaid(PlanLay(dev), TopologicalOrder, dev)
<1> DEFINE lay == PlanLay(dev)
           order == TopologicalOrder
           root == PlanViews(dev).root
<1>1. GraphInv /\ ShapesOK
  BY DEF Compilable
<1>2. /\ ViewsOK(dev, order, PlanViews(dev)) /\ PlanActive \subseteq Tensors /\ order \in Seq(Nodes)
  BY <1>1, PlanFacts
<1>3. /\ lay.tensors = Tensors /\ lay.root = root /\ lay.strides = PlanViews(dev).strides
      /\ \A i \in Tensors : lay.size[i] = tensors[i].size /\ lay.home[i] = HomeOf(dev, i)
  BY PlanLayParts
<1> HIDE DEF lay, order
<1>4. ASSUME NEW i \in Tensors
      PROVE  /\ root[i] \in Tensors /\ root[root[i]] = root[i]
             /\ tensors[root[i]].size = tensors[i].size
             /\ root[i] # i => root[i] \in Touched(order)
             /\ root[i] # i => \E n \in Range(order) : nodes[n].out = i /\ Viewed(dev, order, PlanViews(dev), n)
  BY <1>2 DEF ViewsOK
<1>5. ASSUME NEW i \in Tensors, root[i] # i PROVE i \in PlanActive /\ root[i] \in PlanActive
  <2>1. PICK n \in Range(order) : nodes[n].out = i
    BY <1>4, <1>5
  <2> QED
    BY <1>1, <1>2, <1>4, <1>5, <2>1, ActiveFacts DEF PlanActive, order
<1>6. ASSUME NEW i \in Tensors PROVE HomeOf(dev, root[i]) = HomeOf(dev, i)
  <2>1. CASE root[i] = i
    BY <2>1
  <2>2. CASE root[i] # i /\ tensors[i].size = 0
    <3>1. HomeOf(dev, i) = 0 /\ HomeOf(dev, root[i]) = 0
      BY <1>4, <2>2, HomeCases DEF NULL
    <3> QED
      BY <3>1
  <2>3. CASE root[i] # i /\ tensors[i].size > 0
    <3> DEFINE g == GroupOf(dev, i)
    <3>1. root[i] \in Tensors /\ root[i] \in PlanActive /\ i \in PlanActive /\ tensors[root[i]].size > 0
      BY <1>4, <1>5, <2>3
    <3>2. GroupOf(dev, root[i]) = g
      BY <1>4 DEF GroupOf
    <3>3. PICK p : Located(dev, g, p) /\ HomeOf(dev, i) = p.data
      BY <2>3, <3>1, StagedFacts DEF GroupOf, HomeOf
    <3>4. PICK q : Located(dev, g, q) /\ HomeOf(dev, root[i]) = q.data
      <4>1. \E q : Located(dev, GroupOf(dev, root[i]), q) /\ HomeOf(dev, root[i]) = q.data
        BY <3>1, StagedFacts DEF GroupOf, HomeOf
      <4> QED
        BY <3>2, <4>1
    <3>5. p = q
      BY <3>3, <3>4, PlacesAreUnique DEF Located
    <3> QED
      BY <3>3, <3>4, <3>5
  <2> QED
    BY <1>1, <2>1, <2>2, <2>3, NodeFacts
<1>7. ASSUME NEW i \in Tensors, root[i] # i PROVE ViewOf(lay, order, dev, i)
  <2>1. PICK n \in Range(order) : nodes[n].out = i /\ Viewed(dev, order, PlanViews(dev), n)
    BY <1>4, <1>7
  <2> DEFINE in == nodes[n].ins[1]
  <2>2. /\ lay.strides[in] = "row" /\ lay.root[in] = lay.root[i]
    BY <1>3, <2>1 DEF Viewed
  <2>3. CASE nodes[n].op = "Reshape" /\ PlanViews(dev).strides[i] = "row"
    BY <1>3, <2>1, <2>2, <2>3 DEF ViewOf
  <2>4. CASE /\ nodes[n].op = "Transpose" /\ PlanViews(dev).strides[i] = "swapped"
             /\ dev \in {"CPU", "CUDA"}
             /\ i \notin explicit \cup Protected(Active(order))
             /\ CanFuse(dev, order, n)
    <3>1. hasExplicit /\ i \notin explicit
      <4>1. i \in Active(order)
        BY <1>1, <1>2, <1>5, <1>7 DEF PlanActive, order
      <4> QED
        BY <2>4, <4>1 DEF Protected
    <3>2. \A m \in Range(order) : Uses(m, i) =>
             nodes[m].op = "MatMul" /\ (dev = "CUDA" => nodes[m].ins[1] # i)
      BY <2>1, <2>4 DEF CanFuse
    <3> QED
      BY <1>3, <2>1, <2>2, <2>4, <3>1, <3>2 DEF ViewOf
  <2> QED
    BY <2>1, <2>3, <2>4 DEF Viewed
<1> HIDE DEF root
<1>8. \A i \in lay.tensors :
          /\ lay.root[lay.root[i]] = lay.root[i]
          /\ lay.size[lay.root[i]] = lay.size[i]
          /\ lay.home[lay.root[i]] = lay.home[i]
          /\ lay.root[i] # i => ViewOf(lay, order, dev, i)
  BY <1>3, <1>4, <1>6, <1>7
<1> QED
  BY <1>8 DEF RootsLaid, lay, order

\* and so are its homes,
LEMMA PlanHomesLaid ==
    ASSUME Compilable, NEW dev \in Devices
    PROVE  HomesLaid(PlanLay(dev), TopologicalOrder)
<1> DEFINE lay == PlanLay(dev)
<1>1. /\ lay.tensors = Tensors /\ lay.top = Len(PlanLayout(dev).bytes)
      /\ \A i \in Tensors : lay.size[i] = tensors[i].size /\ lay.home[i] = HomeOf(dev, i)
  BY PlanLayParts
<1>2. /\ Len(PlanLayout(dev).bytes) \in Nat /\ Len(mem) \in Nat /\ ArenaSize(dev) \in Nat
      /\ Len(mem) + ArenaSize(dev) <= Len(PlanLayout(dev).bytes)
  BY BuiltMemory
<1>3. GraphInv /\ ShapesOK
  BY DEF Compilable
<1>4. ASSUME NEW i \in Tensors
      PROVE  /\ HomeOf(dev, i) # NULL =>
                   tensors[i].size > 0 /\ HomeOf(dev, i) + tensors[i].size - 1 <= Len(PlanLayout(dev).bytes)
             /\ tensors[i].size > 0 /\ i \in Touched(TopologicalOrder) => HomeOf(dev, i) # NULL
             /\ tensors[i].size > 0 /\ (hasExplicit => i \in explicit) => HomeOf(dev, i) # NULL
  <2>1. /\ HomeOf(dev, i) \in Nat /\ tensors[i].size \in Nat
        /\ HomeOf(dev, i) # NULL =>
              /\ tensors[i].size > 0
              /\ InPlace(dev, i) \/ InArena(dev, i) \/ InBuffer(dev, i)
        /\ i \in PlanActive /\ tensors[i].size > 0 => HomeOf(dev, i) # NULL
    BY <1>3, HomeCases, NodeFacts
  <2>2. InPlace(dev, i) => HomeOf(dev, i) + tensors[i].size - 1 <= Len(PlanLayout(dev).bytes)
    BY <1>2, <2>1, SMTT(30) DEF InPlace
  <2>3. InArena(dev, i) => HomeOf(dev, i) + tensors[i].size - 1 <= Len(PlanLayout(dev).bytes)
    <3>1. InArena(dev, i) => HomeOf(dev, i) + tensors[i].size - 1 <= Len(mem) + ArenaSize(dev)
      BY DEF InArena
    <3> QED
      BY <1>2, <2>1, <3>1, SMTT(30)
  <2>4. InBuffer(dev, i) => HomeOf(dev, i) + tensors[i].size - 1 <= Len(PlanLayout(dev).bytes)
    BY DEF InBuffer
  <2>5. i \in Touched(TopologicalOrder) \/ (hasExplicit => i \in explicit) => i \in PlanActive
    BY DEF PlanActive, Active
  <2> QED
    BY <2>1, <2>2, <2>3, <2>4, <2>5
<1> HIDE DEF lay
<1> QED
  BY <1>1, <1>4 DEF HomesLaid, lay

\* the life of what is in the arena,
LEMMA PlanArenaLaid ==
    ASSUME Compilable, NEW dev \in Devices
    PROVE  ArenaLaid(PlanLay(dev), TopologicalOrder)
<1>1. SUFFICES ASSUME NEW i \in PlanLay(dev).arena
               PROVE  /\ ~ IsInput(i) /\ hasExplicit /\ i \notin explicit
                      /\ PlanLay(dev).birth[i] <= Birth(TopologicalOrder, i)
                      /\ Birth(TopologicalOrder, i) <= PlanLay(dev).death[i]
                      /\ Death(TopologicalOrder, i) <= PlanLay(dev).death[i]
  BY DEF ArenaLaid
<1>2. i \in PlanActive /\ GroupOf(dev, i) \in ArenaGroups(dev)
  BY DEF PlanLay
<1>3. i \in Tensors
  BY <1>2, PlanFacts DEF Compilable
<1>4. i \notin Protected(PlanActive)
  BY <1>2, GroupProtection
<1>5. ~ IsInput(i) /\ hasExplicit /\ i \notin explicit
  BY <1>2, <1>3, <1>4 DEF Protected, Inputs
<1>6. GroupOf(dev, i).size = tensors[i].size /\ GroupOf(dev, i).size > 0
  BY <1>2, PlanGroupFacts DEF Compilable, GroupOf, ArenaGroups
<1>7. /\ GroupOf(dev, i).birth <= Birth(TopologicalOrder, i)
      /\ Birth(TopologicalOrder, i) <= GroupOf(dev, i).death
      /\ Death(TopologicalOrder, i) <= GroupOf(dev, i).death
  BY <1>2, <1>6, PlanGroupFacts DEF Compilable, GroupOf
<1>8. PlanLay(dev).birth[i] = GroupOf(dev, i).birth /\ PlanLay(dev).death[i] = GroupOf(dev, i).death
  BY <1>2, PlanLayParts
<1> QED
  BY <1>5, <1>7, <1>8

\* and the distance between groups.
LEMMA PlanLaidApart ==
    ASSUME Compilable, NEW dev \in Devices
    PROVE  LaidApart(PlanLay(dev))
<1> DEFINE root == PlanViews(dev).root
<1>1. GraphInv /\ ShapesOK /\ Unbuilt
  BY DEF Compilable
<1>2. SUFFICES ASSUME NEW i \in Tensors, NEW j \in Tensors, root[i] # root[j],
                      HomeOf(dev, i) # NULL, HomeOf(dev, j) # NULL
               PROVE  \/ Clear(HomeOf(dev, i), tensors[i].size, HomeOf(dev, j), tensors[j].size)
                      \/ /\ i \in PlanLay(dev).arena /\ j \in PlanLay(dev).arena
                         /\ \/ PlanLay(dev).death[i] < PlanLay(dev).birth[j]
                            \/ PlanLay(dev).death[j] < PlanLay(dev).birth[i]
  BY PlanLayParts DEF LaidApart, Separate
<1>3. /\ HomeOf(dev, i) \in Nat /\ HomeOf(dev, j) \in Nat
      /\ tensors[i].size \in Nat /\ tensors[j].size \in Nat
      /\ InPlace(dev, i) \/ InArena(dev, i) \/ InBuffer(dev, i)
      /\ InPlace(dev, j) \/ InArena(dev, j) \/ InBuffer(dev, j)
  BY <1>1, <1>2, HomeCases, NodeFacts
<1>4. /\ Len(mem) \in Nat /\ ArenaSize(dev) \in Nat
  BY BuiltMemory
<1>5. \A k \in Tensors : tensors[root[k]].size = tensors[k].size
  BY <1>1, PlanFacts DEF ViewsOK
<1> DEFINE Bounds(k) ==
      /\ InPlace(dev, k) => HomeOf(dev, k) + tensors[k].size - 1 <= Len(mem)
      /\ InArena(dev, k) => /\ Len(mem) < HomeOf(dev, k)
                            /\ HomeOf(dev, k) + tensors[k].size - 1 <= Len(mem) + ArenaSize(dev)
      /\ InBuffer(dev, k) => Len(mem) + ArenaSize(dev) < HomeOf(dev, k)
<1>6. Bounds(i) /\ Bounds(j)
  BY DEF InPlace, InArena, InBuffer
<1>7. CASE InPlace(dev, i) /\ InPlace(dev, j)
  BY <1>1, <1>2, <1>5, <1>7 DEF InPlace, Unbuilt
<1>8. CASE InArena(dev, i) /\ InArena(dev, j)
  <2> DEFINE g == GroupOf(dev, i)
             h == GroupOf(dev, j)
  <2>1. i \in PlanActive /\ j \in PlanActive /\ g \in ArenaGroups(dev) /\ h \in ArenaGroups(dev)
    BY <1>8 DEF InArena
  <2>2. g.root = root[i] /\ h.root = root[j] /\ g \in GroupRecords /\ h \in GroupRecords
    BY <1>1, <2>1, PlanGroupFacts DEF GroupOf
  <2>3. PICK p \in Pack(ArenaGroups(dev)) :
              /\ p.root = root[i] /\ HomeOf(dev, i) = Len(mem) + 1 + p.offset
              /\ p.offset \in Nat /\ p.aligned_size \in Nat /\ tensors[i].size <= p.aligned_size
    BY <1>8 DEF InArena
  <2>4. PICK q \in Pack(ArenaGroups(dev)) :
              /\ q.root = root[j] /\ HomeOf(dev, j) = Len(mem) + 1 + q.offset
              /\ q.offset \in Nat /\ q.aligned_size \in Nat /\ tensors[j].size <= q.aligned_size
    BY <1>8 DEF InArena
  <2>5. Packs(Pack(ArenaGroups(dev)), ArenaGroups(dev)) /\ GroupsOK(ArenaGroups(dev))
    BY ArenaFacts
  <2>6. p.birth = g.birth /\ p.death = g.death
    <3>1. PICK x \in ArenaGroups(dev) : p.root = x.root /\ p.birth = x.birth /\ p.death = x.death
      BY <2>3, <2>5 DEF Packs
    <3> QED
      BY <2>1, <2>2, <2>3, <2>5, <3>1 DEF GroupsOK
  <2>7. q.birth = h.birth /\ q.death = h.death
    <3>1. PICK x \in ArenaGroups(dev) : q.root = x.root /\ q.birth = x.birth /\ q.death = x.death
      BY <2>4, <2>5 DEF Packs
    <3> QED
      BY <2>1, <2>2, <2>4, <2>5, <3>1 DEF GroupsOK
  <2>8. CASE Coexist(p, q)
    <3>1. Apart(p, q)
      <4>1. p.root # q.root
        BY <1>2, <2>3, <2>4
      <4>2. \A x, y \in Pack(ArenaGroups(dev)) : x.root # y.root /\ Coexist(x, y) => Apart(x, y)
        BY <2>5 DEF Packs, Packing
      <4> QED
        BY <2>3, <2>4, <2>8, <4>1, <4>2, Zenon
    <3>2. \/ p.offset + p.aligned_size <= q.offset
          \/ q.offset + q.aligned_size <= p.offset
      BY <3>1 DEF Apart, End
    <3> DEFINE a == HomeOf(dev, i)
               b == HomeOf(dev, j)
               m == tensors[i].size
               n == tensors[j].size
               t == Len(mem)
    <3>3. /\ a = t + 1 + p.offset /\ b = t + 1 + q.offset /\ t \in Nat /\ m \in Nat /\ n \in Nat
          /\ p.offset \in Nat /\ q.offset \in Nat /\ p.aligned_size \in Nat /\ q.aligned_size \in Nat
          /\ m <= p.aligned_size /\ n <= q.aligned_size
      BY <1>3, <1>4, <2>3, <2>4
    <3> HIDE DEF a, b, m, n, t
    <3>4. a + m <= b \/ b + n <= a
      BY <3>2, <3>3
    <3> QED
      BY <3>4 DEF Clear, a, b, m, n
  <2>9. CASE ~ Coexist(p, q)
    <3>1. g.birth \in Nat /\ g.death \in Nat /\ h.birth \in Nat /\ h.death \in Nat
      BY <2>2 DEF GroupRecords
    <3>2. g.death < h.birth \/ h.death < g.birth
      BY <2>6, <2>7, <2>9, <3>1 DEF Coexist
    <3> QED
      BY <1>2, <2>1, <3>2, PlanLayParts
  <2> QED
    BY <2>8, <2>9
<1>9. CASE InBuffer(dev, i) /\ InBuffer(dev, j)
  <2> DEFINE g == GroupOf(dev, i)
             h == GroupOf(dev, j)
  <2>1. i \in PlanActive /\ j \in PlanActive /\ g \in BufferGroups(dev) /\ h \in BufferGroups(dev)
    BY <1>9 DEF InBuffer
  <2>2. g.root = root[i] /\ h.root = root[j] /\ g.size = tensors[i].size /\ h.size = tensors[j].size
    BY <1>1, <2>1, PlanGroupFacts DEF GroupOf
  <2>3. PICK p \in PlanLayout(dev).places : HomeOf(dev, i) = p.data /\ p.root = g.root
    BY <1>9 DEF InBuffer, BufferAt
  <2>4. PICK q \in PlanLayout(dev).places : HomeOf(dev, j) = q.data /\ q.root = h.root
    BY <1>9 DEF InBuffer, BufferAt
  <2> HIDE DEF g, h
  <2>5. Clear(p.data, g.size, q.data, h.size)
    BY <1>2, <2>1, <2>2, <2>3, <2>4, LayoutFacts DEF BuffersOK
  <2> QED
    BY <2>2, <2>3, <2>4, <2>5
<1>10. CASE ~ (InPlace(dev, i) /\ InPlace(dev, j)) /\ ~ (InArena(dev, i) /\ InArena(dev, j))
            /\ ~ (InBuffer(dev, i) /\ InBuffer(dev, j))
  <2>1. \/ HomeOf(dev, i) + tensors[i].size - 1 < HomeOf(dev, j)
        \/ HomeOf(dev, j) + tensors[j].size - 1 < HomeOf(dev, i)
    <3>1. PICK a, b, m, n, l, s : /\ a = HomeOf(dev, i) /\ b = HomeOf(dev, j)
                                  /\ m = tensors[i].size /\ n = tensors[j].size
                                  /\ l = Len(mem) /\ s = ArenaSize(dev)
      OBVIOUS
    <3>2. a \in Nat /\ b \in Nat /\ m \in Nat /\ n \in Nat /\ l \in Nat /\ s \in Nat
      BY <1>3, <1>4, <3>1
    <3>3. \/ a + m - 1 <= l /\ l < b
          \/ b + n - 1 <= l /\ l < a
          \/ a + m - 1 <= l + s /\ l + s < b
          \/ b + n - 1 <= l + s /\ l + s < a
      <4>1. CASE InPlace(dev, i)
        BY <1>3, <1>6, <1>10, <3>1, <3>2, <4>1
      <4>2. CASE InArena(dev, i)
        BY <1>3, <1>6, <1>10, <3>1, <3>2, <4>2
      <4>3. CASE InBuffer(dev, i)
        BY <1>3, <1>6, <1>10, <3>1, <3>2, <4>3
      <4> QED
        BY <1>3, <4>1, <4>2, <4>3
    <3>4. a + m - 1 < b \/ b + n - 1 < a
      BY <3>2, <3>3
    <3> QED
      BY <3>1, <3>4
  <2> QED
    BY <1>3, <2>1 DEF Clear
<1> QED
  BY <1>7, <1>8, <1>9, <1>10

\* What a build does with the memory is a layout in the sense of LaidOut.
LEMMA BuildLaysOut ==
    ASSUME Compilable, NEW dev \in Devices
    PROVE  LaidOut(PlanLay(dev), TopologicalOrder, dev)
BY PlanLayRecords, PlanRootsLaid, PlanHomesLaid, PlanArenaLaid, PlanLaidApart DEF LaidOut

\* The inputs have their first value: what was filled before is where it was, and
\* fresh memory is zero.
LEMMA BuildFillsInputs ==
    ASSUME Compilable, NEW dev \in Devices, NEW i \in Tensors, IsInput(i), HomeOf(dev, i) # NULL
    PROVE  Holds(PlanLayout(dev).bytes, HomeOf(dev, i), tensors[i].size, Value(i, 0))
<1> DEFINE root == PlanViews(dev).root
           bytes == PlanLayout(dev).bytes
           h == HomeOf(dev, i)
<1>1. GraphInv /\ ShapesOK /\ Unbuilt /\ MemoryOK
  BY DEF Compilable
<1>2. root[i] = i
  <2>1. root[i] # i => \E n \in Range(TopologicalOrder) : nodes[n].out = i
    BY <1>1, PlanFacts DEF ViewsOK
  <2>2. TopologicalOrder \in Seq(Nodes)
    BY <1>1, PlanFacts
  <2>3. Range(TopologicalOrder) \subseteq Nodes
    BY <2>2 DEF Range
  <2> QED
    BY <2>1, <2>3 DEF IsInput
<1>3. /\ h \in Nat /\ tensors[i].size \in Nat /\ Len(mem) \in Nat /\ h # 0
      /\ InPlace(dev, i) \/ InArena(dev, i) \/ InBuffer(dev, i)
  BY <1>1, HomeCases, NodeFacts, BuiltMemory DEF NULL
<1>4. CASE InPlace(dev, i)
  <2>1. i \in Populated /\ h = tensors[i].data /\ h + tensors[i].size - 1 <= Len(mem)
    BY <1>2, <1>4 DEF InPlace
  <2>2. \A k \in 1 .. tensors[i].size : mem[h + k - 1] = Cell(Value(i, 0), k)
    BY <1>1, <2>1 DEF Unbuilt, Holds
  <2>3. \A k \in 1 .. tensors[i].size : h + k - 1 \in 1 .. Len(mem)
    BY <1>3, <2>1, SMTT(30)
  <2>4. \A a \in 1 .. Len(mem) : bytes[a] = mem[a]
    BY BuiltMemory
  <2> HIDE DEF bytes, h
  <2>5. \A k \in 1 .. tensors[i].size : bytes[h + k - 1] = Cell(Value(i, 0), k)
    BY <2>2, <2>3, <2>4
  <2> QED
    BY <2>5 DEF Holds, bytes, h
<1>5. CASE InArena(dev, i)
  <2>1. i \notin Protected(PlanActive)
    BY <1>5, GroupProtection DEF InArena
  <2> QED
    BY <2>1 DEF Protected, Inputs
<1>6. CASE InBuffer(dev, i)
  <2> DEFINE g == GroupOf(dev, i)
  <2>1. /\ i \in PlanActive
        /\ \E p \in PlanLayout(dev).places : h = p.data /\ BufferAt(bytes, Len(ArenaBytes(dev)), p, g)
    BY <1>6 DEF InBuffer
  <2>2. g.root = i /\ g.size = tensors[i].size
    BY <1>1, <1>2, <2>1, PlanGroupFacts DEF GroupOf
  <2>3. \A k \in 1 .. g.size : Fresh(g)[k] = Cell(Value(i, 0), k)
    BY <1>3, <2>2 DEF Fresh, Cells
  <2>4. \A k \in 1 .. g.size : bytes[h + k - 1] = Fresh(g)[k]
    BY <2>1 DEF BufferAt
  <2> HIDE DEF g
  <2> QED
    BY <2>2, <2>3, <2>4 DEF Holds
<1> QED
  BY <1>3, <1>4, <1>5, <1>6

-----------------------------------------------------------------------------
(* What a kernel or a copy writes.                                         *)

\* A tensor whose bytes are left alone holds what it held.
LEMMA HoldsKept ==
    ASSUME NEW before, NEW after, NEW a \in Nat, NEW size \in Nat, NEW v, Holds(before, a, size, v),
           \A x \in Nat : a <= x /\ x < a + size => after[x] = before[x]
    PROVE  Holds(after, a, size, v)
<1>1. \A k \in 1 .. size : a + k - 1 \in Nat /\ a <= a + k - 1 /\ a + k - 1 < a + size
  OBVIOUS
<1> QED
  BY <1>1 DEF Holds

\* Store overwrites the bytes of the tensor and no others.
LEMMA StoreFacts ==
    ASSUME NEW i, tensors[i].data \in Nat, mem \in Seq(AllCells), NEW bytes \in Seq(AllCells)
    PROVE  /\ Store(i, bytes) \in Seq(AllCells) /\ Len(Store(i, bytes)) = Len(mem)
           /\ \A a \in 1 .. Len(mem) :
                 Store(i, bytes)[a] =
                    IF tensors[i].data # NULL /\ tensors[i].data <= a /\ a < tensors[i].data + Len(bytes)
                    THEN bytes[a - tensors[i].data + 1] ELSE mem[a]
<1> DEFINE d == tensors[i].data
           n == Len(mem)
           m == Len(bytes)
           new(a) == IF d # NULL /\ a - d \in 0 .. m - 1 THEN bytes[a - d + 1] ELSE mem[a]
           s == Store(i, bytes)
<1>1. /\ n \in Nat /\ DOMAIN mem = 1 .. n /\ m \in Nat /\ d \in Nat
      /\ \A k \in 1 .. m : bytes[k] \in AllCells
      /\ \A k \in 1 .. n : mem[k] \in AllCells
  BY ElementOfSeq
<1>2. s = [a \in 1 .. n |-> new(a)]
  BY <1>1 DEF Store
<1> HIDE DEF d, n, m, s
<1>3. \A a \in 1 .. n : a - d \in 0 .. m - 1 <=> d <= a /\ a < d + m
  BY <1>1
<1>4. \A a \in 1 .. n : a - d \in 0 .. m - 1 => a - d + 1 \in 1 .. m
  BY <1>1
<1>5. \A a \in 1 .. n : new(a) \in AllCells
  BY <1>1, <1>4
<1> HIDE DEF new
<1>6. s \in [1 .. n -> AllCells]
  BY <1>2, <1>5
<1>7. s \in Seq(AllCells) /\ Len(s) = n
  BY <1>1, <1>6
<1>8. \A a \in 1 .. n : s[a] = IF d # NULL /\ d <= a /\ a < d + m THEN bytes[a - d + 1] ELSE mem[a]
  BY <1>2, <1>3 DEF new
<1> QED
  BY <1>7, <1>8 DEF s, n, d, m

\* A tensor holds what was stored in it,
LEMMA StoreHolds ==
    ASSUME NEW i, tensors[i].data \in Nat \ {0}, mem \in Seq(AllCells), NEW v \in AllValues,
           NEW size \in Nat, tensors[i].data + size - 1 <= Len(mem)
    PROVE  Holds(Store(i, Cells(v, size)), tensors[i].data, size, v)
<1> DEFINE d == tensors[i].data
           bytes == Cells(v, size)
<1>1. bytes \in Seq(AllCells) /\ Len(bytes) = size /\ \A k \in 1 .. size : bytes[k] = Cell(v, k)
  BY CellsFacts
<1> HIDE DEF bytes
<1>2. \A a \in 1 .. Len(mem) :
         Store(i, bytes)[a] = IF d # NULL /\ d <= a /\ a < d + Len(bytes) THEN bytes[a - d + 1] ELSE mem[a]
  BY <1>1, StoreFacts
<1>3. d \in Nat /\ d # 0 /\ d # NULL /\ Len(mem) \in Nat /\ d + size - 1 <= Len(mem)
  BY DEF NULL
<1> HIDE DEF d
<1>4. ASSUME NEW k \in 1 .. size PROVE Store(i, bytes)[d + k - 1] = Cell(v, k)
  <2>1. d + k - 1 \in 1 .. Len(mem) /\ d <= d + k - 1 /\ d + k - 1 < d + Len(bytes) /\ (d + k - 1) - d + 1 = k
    BY <1>1, <1>3
  <2> QED
    BY <1>1, <1>2, <1>3, <2>1
<1> QED
  BY <1>4 DEF Holds, bytes, d

\* and one whose bytes lie clear of it holds what it held.
LEMMA StoreKeeps ==
    ASSUME NEW i, tensors[i].data \in Nat, mem \in Seq(AllCells), NEW bytes \in Seq(AllCells),
           NEW a \in Nat \ {0}, NEW size \in Nat, a + size - 1 <= Len(mem), NEW v, Holds(mem, a, size, v),
           tensors[i].data = NULL \/ Clear(a, size, tensors[i].data, Len(bytes))
    PROVE  Holds(Store(i, bytes), a, size, v)
<1> DEFINE d == tensors[i].data
<1>1. \A x \in 1 .. Len(mem) :
         Store(i, bytes)[x] = IF d # NULL /\ d <= x /\ x < d + Len(bytes) THEN bytes[x - d + 1] ELSE mem[x]
  BY StoreFacts
<1>2. d \in Nat /\ Len(mem) \in Nat /\ Len(bytes) \in Nat /\ (d = NULL \/ a + size <= d \/ d + Len(bytes) <= a)
  BY DEF Clear
<1> HIDE DEF d
<1>3. ASSUME NEW x \in Nat, a <= x /\ x < a + size PROVE Store(i, bytes)[x] = mem[x]
  <2>1. x \in 1 .. Len(mem) /\ ~ (d # NULL /\ d <= x /\ x < d + Len(bytes))
    BY <1>2, <1>3
  <2> QED
    BY <1>1, <2>1
<1> QED
  BY <1>3, HoldsKept

ValueOK == value \in [Tensors -> AllValues]

\* A byte read from memory, within it or past its end, is a cell.
LEMMA ByteFacts ==
    ASSUME NEW m \in Seq(AllCells), NEW a
    PROVE  Byte(m, a) \in AllCells /\ Byte(m, a).value \in AllValues
<1>1. Cell(Junk, 0) \in AllCells
  BY DEF Cell, Junk, Value, AllCells, AllValues
<1>2. Byte(m, a) \in AllCells
  BY <1>1, ElementOfSeq DEF Byte
<1> QED
  BY <1>2 DEF AllCells

\* So is every byte of a tensor.
LEMMA BytesFacts ==
    ASSUME GraphInv, ShapesOK, NEW m \in Seq(AllCells), NEW i \in Tensors
    PROVE  Bytes(m, i) \in Seq(AllCells) /\ Len(Bytes(m, i)) = tensors[i].size
<1>1. tensors[i].size \in Nat
  BY NodeFacts
<1>2. Bytes(m, i) \in [1 .. tensors[i].size -> AllCells]
  BY ByteFacts DEF Bytes
<1> QED
  BY <1>1, <1>2

\* The value of a transposed tensor is a value.
LEMMA SwapFacts ==
    ASSUME NEW v \in AllValues
    PROVE  Swap(v) \in AllValues
BY DEF Swap, AllValues

\* What is read of a tensor is a value, whatever the memory holds.
LEMMA SeenFacts ==
    ASSUME ValueOK, NEW m \in Seq(AllCells), NEW i \in Tensors, NEW strided
    PROVE  Seen(m, i, strided) \in AllValues
<1>1. value[i] \in AllValues /\ Byte(m, tensors[i].data).value \in AllValues /\ Junk \in AllValues
  BY ByteFacts DEF ValueOK, Junk, Value, AllValues
<1> QED
  BY <1>1, SwapFacts DEF Seen

\* What is read of a tensor that holds v.
LEMMA SeenHeld ==
    ASSUME GraphInv, ShapesOK, NEW m \in Seq(AllCells), NEW i \in Tensors, NEW v \in AllValues,
           tensors[i].data \in Nat \ {0}, tensors[i].size > 0, tensors[i].data + tensors[i].size - 1 <= Len(m),
           Holds(m, tensors[i].data, tensors[i].size, v), NEW strided
    PROVE  /\ Bytes(m, i) = Cells(v, tensors[i].size)
           /\ Seen(m, i, strided) = IF strided /\ tensors[i].strides = "swapped" THEN Swap(v) ELSE v
<1> DEFINE d == tensors[i].data
           n == tensors[i].size
<1>1. n \in Nat /\ n > 0 /\ d \in Nat \ {0} /\ d + n - 1 <= Len(m) /\ Len(m) \in Nat /\ DOMAIN m = 1 .. Len(m)
  BY NodeFacts
<1>2. \A k \in 1 .. n : m[d + k - 1] = Cell(v, k)
  BY DEF Holds
<1>3. Bytes(m, i) = [k \in 1 .. n |-> Byte(m, d + k - 1)]
  BY DEF Bytes
<1> HIDE DEF d, n
<1>4. \A k \in 1 .. n : d + k - 1 \in DOMAIN m
  BY <1>1
<1>5. \A k \in 1 .. n : Byte(m, d + k - 1) = Cell(v, k)
  BY <1>2, <1>4 DEF Byte
<1>6. Bytes(m, i) = Cells(v, n)
  BY <1>3, <1>5 DEF Cells
<1>7. Byte(m, d) = Cell(v, 1)
  <2>1. 1 \in 1 .. n /\ d + 1 - 1 = d
    BY <1>1
  <2> QED
    BY <1>5, <2>1
<1>8. Byte(m, d).value = v
  BY <1>7 DEF Cell
<1> QED
  BY <1>1, <1>6, <1>8 DEF Seen, d, n

\* A kernel writes its output and nothing else.
LEMMA KernelFacts ==
    ASSUME GraphInv, ShapesOK, mem \in Seq(AllCells), ValueOK, runs \in Nat, NEW n \in Nodes
    PROVE  LET out == nodes[n].out
           IN  /\ ShouldCompute(n) \in AllValues
               /\ SharesBytes(n) => Kernel(n) = mem /\ WhileRunning(n) = mem
               /\ ~ SharesBytes(n) =>
                     \E now, later \in Seq(AllCells) :
                        /\ Len(now) = tensors[out].size /\ Len(later) = tensors[out].size
                        /\ WhileRunning(n) = Store(out, now) /\ Kernel(n) = Store(out, later)
<1> DEFINE out == nodes[n].out
           in == nodes[n].ins[1]
           size == tensors[out].size
<1>1. out \in Tensors /\ in \in Tensors /\ size \in Nat /\ tensors[out].data \in Nat
  <2>1. out \in Tensors /\ in \in Tensors /\ out \in 1 .. Len(tensors)
    BY NodeFacts
  <2>2. tensors[out] \in [rank : Ranks, size : Sizes, strides : {"row", "swapped"}, data : Nat,
                          offset : Nat, device : Devices \cup {"CPU"}]
    BY <2>1, ElementOfSeq DEF GraphInv
  <2> QED
    BY <2>1, <2>2, NodeFacts
<1>2. nodes[n].op = "Reshape" => tensors[in].size = size
  BY DEF ShapesOK
<1>3. Junk \in AllValues /\ Value(out, runs) \in AllValues
  <2>1. out \in Nat
    BY NodeFacts
  <2> QED
    BY <2>1 DEF Junk, Value, AllValues
<1>4. ShouldCompute(n) \in AllValues
  <2>1. value[in] \in AllValues
    BY <1>1 DEF ValueOK
  <2> QED
    BY <1>3, <2>1, SwapFacts DEF ShouldCompute
<1>5. ASSUME SharesBytes(n) PROVE Kernel(n) = mem /\ WhileRunning(n) = mem
  BY <1>5 DEF Kernel, WhileRunning
<1>6. ASSUME ~ SharesBytes(n)
      PROVE  \E now, later \in Seq(AllCells) :
                /\ Len(now) = size /\ Len(later) = size
                /\ WhileRunning(n) = Store(out, now) /\ Kernel(n) = Store(out, later)
  <2> DEFINE now == Cells(Junk, size)
             result == CASE nodes[n].op = "Reshape" -> Bytes(WhileRunning(n), in)
                         [] nodes[n].op = "Transpose" -> Cells(Swap(Operand(n, 1)), size)
                         [] OTHER -> Cells(IF SeesOperands(n) THEN ShouldCompute(n) ELSE Junk, size)
  <2>1. now \in Seq(AllCells) /\ Len(now) = size
    BY <1>1, <1>3, CellsFacts
  <2>2. WhileRunning(n) = Store(out, now)
    BY <1>6 DEF WhileRunning
  <2>3. Kernel(n) = Store(out, result)
    BY <1>6 DEF Kernel
  <2> HIDE DEF now
  <2>4. WhileRunning(n) \in Seq(AllCells)
    BY <1>1, <2>1, <2>2, StoreFacts
  <2>5. result \in Seq(AllCells) /\ Len(result) = size
    <3>1. CASE nodes[n].op = "Reshape"
      <4>1. result = Bytes(WhileRunning(n), in)
        BY <3>1
      <4>2. Bytes(WhileRunning(n), in) \in Seq(AllCells) /\ Len(Bytes(WhileRunning(n), in)) = tensors[in].size
        BY <1>1, <2>4, BytesFacts
      <4> QED
        BY <1>2, <3>1, <4>1, <4>2
    <3>2. CASE nodes[n].op = "Transpose"
      <4>1. result = Cells(Swap(Operand(n, 1)), size)
        BY <3>2
      <4>2. Operand(n, 1) \in AllValues
        BY <1>1, <2>4, SeenFacts DEF Operand
      <4>3. Swap(Operand(n, 1)) \in AllValues
        BY <4>2, SwapFacts
      <4> QED
        BY <1>1, <4>1, <4>3, CellsFacts
    <3>3. CASE nodes[n].op # "Reshape" /\ nodes[n].op # "Transpose"
      <4> DEFINE v == IF SeesOperands(n) THEN ShouldCompute(n) ELSE Junk
      <4>1. result = Cells(v, size)
        BY <3>3
      <4>2. v \in AllValues
        BY <1>3, <1>4
      <4> HIDE DEF v, result
      <4> QED
        BY <1>1, <4>1, <4>2, CellsFacts
    <3> QED
      BY <3>1, <3>2, <3>3
  <2> HIDE DEF result
  <2> QED
    BY <2>1, <2>2, <2>3, <2>5
<1> QED
  BY <1>4, <1>5, <1>6

-----------------------------------------------------------------------------
(* The inductive invariant.                                                *)

\* The tensors are as lay says.
Fits(lay) ==
    /\ lay.tensors = Tensors /\ lay.top <= Len(mem)
    /\ \A i \in Tensors : tensors[i].size = lay.size[i] /\ tensors[i].strides = lay.strides[i]

\* A tensor is at its home, or it is an input bound to memory behind the layout.
DataOK(lay) ==
    /\ \A i \in Tensors :
          \/ tensors[i].data = lay.home[i]
          \/ IsInput(i) /\ lay.top < tensors[i].data
    /\ \A i, j \in Tensors :
          i # j /\ lay.top < tensors[i].data /\ lay.top < tensors[j].data =>
             Clear(tensors[i].data, tensors[i].size, tensors[j].data, tensors[j].size)

Laid(lay) == LaidOut(lay, topo, device) /\ Fits(lay) /\ DataOK(lay)

InputsHold ==
    \A i \in Populated : IsInput(i) => Holds(mem, tensors[i].data, tensors[i].size, value[i])

RunInv ==
    /\ built \in BOOLEAN /\ returned \in BOOLEAN
    /\ runs \in Nat /\ writes \in Nat
    /\ topo \in Seq(Nodes) /\ step \in 0 .. Len(topo) + 1
    /\ step # 0 => built /\ ~ returned
    /\ ~ built => topo = <<>> /\ ~ returned

BuiltInv ==
    /\ device \in Devices
    /\ ValueOK
    /\ InputsHold
    /\ ScheduleIsComplete
    /\ \E lay : Laid(lay)

GraphsInv == GraphInv /\ ShapesOK /\ MemoryOK

IInv ==
    /\ GraphsInv
    /\ RunInv
    /\ ~ built => Unbuilt
    /\ built => BuiltInv

\* The invariant holds before the first tensor is constructed.
LEMMA InitIInv ==
    ASSUME Init
    PROVE  IInv
<1>1. tensors = <<>> /\ nodes = <<>> /\ mem = <<>> /\ hasExplicit = FALSE /\ explicit = {} /\ built = FALSE
      /\ topo = <<>> /\ step = 0 /\ runs = 0 /\ writes = 0 /\ returned = FALSE
  BY DEF Init, GraphInit, CompilerInit
<1>2. Tensors = {} /\ Nodes = {} /\ Populated = {}
  BY <1>1 DEF Tensors, Nodes, Populated
<1>3. \A S : <<>> \in Seq(S) /\ Len(<<>>) = 0
  OBVIOUS
<1>4. GraphInv
  <2>1. /\ tensors \in Seq([rank : Ranks, size : Sizes, strides : {"row", "swapped"}, data : Nat,
                            offset : Nat, device : Devices \cup {"CPU"}])
        /\ nodes \in Seq([op : Ops, ins : Seq(Nat), out : Nat])
    BY <1>1, <1>3
  <2> QED
    BY <1>1, <1>2, <2>1 DEF GraphInv
<1>5. ShapesOK /\ MemoryOK /\ Unbuilt
  <2>1. mem \in Seq(AllCells)
    BY <1>1, <1>3
  <2> QED
    BY <1>1, <1>2, <2>1 DEF ShapesOK, MemoryOK, Unbuilt
<1>6. RunInv
  <2>1. topo \in Seq(Nodes) /\ Len(topo) = 0
    BY <1>1, <1>3
  <2>2. built \in BOOLEAN /\ returned \in BOOLEAN /\ runs \in Nat /\ writes \in Nat
    BY <1>1
  <2>3. step \in 0 .. Len(topo) + 1 /\ step = 0
    BY <1>1, <2>1
  <2>4. ~ built => topo = <<>> /\ ~ returned
    BY <1>1
  <2> QED
    BY <2>1, <2>2, <2>3, <2>4 DEF RunInv
<1> QED
  BY <1>1, <1>4, <1>5, <1>6 DEF IInv, GraphsInv

-----------------------------------------------------------------------------
(* The construction of a graph.                                            *)

\* A tensor more, and perhaps the node that computes it.
LEMMA GraphGrows ==
    ASSUME GraphInv, ShapesOK, NEW t \in TensorRecords, tensors' = Append(tensors, t),
           \/ nodes' = nodes
           \/ \E op \in Ops, ins \in BoundedSeq(Tensors, 2) :
                 /\ Signature(op, ins, t.rank, t.size)
                 /\ nodes' = Append(nodes, [op |-> op, ins |-> ins, out |-> Len(tensors) + 1]),
           UNCHANGED <<hasExplicit, explicit>>
    PROVE  /\ GraphInv' /\ ShapesOK'
           /\ Len(tensors) \in Nat /\ Len(tensors') = Len(tensors) + 1 /\ Tensors' = 1 .. Len(tensors) + 1
           /\ \A i \in Tensors : tensors'[i] = tensors[i] /\ (IsInput(i) => IsInput(i)')
           /\ tensors'[Len(tensors) + 1] = t
           /\ \A new : new = Len(tensors) + 1 /\ nodes' = nodes => IsInput(new)'
<1> DEFINE L == Len(tensors)
           N == Len(nodes)
<1>1. /\ L \in Nat /\ Tensors = 1 .. L /\ N \in Nat /\ Nodes = 1 .. N
      /\ tensors \in Seq(TensorRecords) /\ nodes \in Seq([op : Ops, ins : Seq(Nat), out : Nat])
  <2>1. tensors \in Seq(TensorRecords) /\ nodes \in Seq([op : Ops, ins : Seq(Nat), out : Nat])
    BY DEF GraphInv, TensorRecords
  <2> QED
    BY <2>1, NodeFacts
<1>2. /\ tensors' \in Seq(TensorRecords) /\ Len(tensors') = L + 1 /\ Tensors' = 1 .. L + 1
      /\ \A i \in 1 .. L : tensors'[i] = tensors[i]
      /\ tensors'[L + 1] = t
  <2>1. /\ Append(tensors, t) \in Seq(TensorRecords) /\ Len(Append(tensors, t)) = L + 1
        /\ \A i \in 1 .. L : Append(tensors, t)[i] = tensors[i]
        /\ Append(tensors, t)[L + 1] = t
    BY <1>1, AppendProperties
  <2>2. DOMAIN Append(tensors, t) = 1 .. L + 1
    BY <2>1
  <2> QED
    BY <2>1, <2>2 DEF Tensors
<1> HIDE DEF L, N
<1>3. \A i \in Tensors : i \in Tensors' /\ tensors'[i] = tensors[i]
  BY <1>1, <1>2
<1>4. /\ \A n \in Nodes : /\ nodes[n].out \in Tensors
                          /\ \A k \in DOMAIN nodes[n].ins : nodes[n].ins[k] \in 1 .. nodes[n].out - 1
      /\ \A m, n \in Nodes : m < n => nodes[m].out < nodes[n].out
      /\ hasExplicit \in BOOLEAN /\ explicit \subseteq Tensors
  BY DEF GraphInv
<1>5. \A n \in Nodes : nodes[n].ins[1] \in Tensors
  BY NodeFacts
<1>8. \A n \in Nodes : nodes[n].out \in Nat /\ nodes[n].out <= L
  BY <1>1, <1>4
<1>6. CASE nodes' = nodes
  <2>1. Nodes' = Nodes
    BY <1>6 DEF Nodes
  <2>2. GraphInv'
    BY <1>1, <1>2, <1>3, <1>4, <1>6, <2>1 DEF GraphInv, TensorRecords
  <2>3. ShapesOK'
    BY <1>3, <1>4, <1>5, <1>6, <2>1 DEF ShapesOK
  <2>4. \A i \in Tensors : IsInput(i) => IsInput(i)'
    BY <1>6, <2>1 DEF IsInput
  <2>5. ASSUME NEW new, new = L + 1 PROVE IsInput(new)'
    <3>1. \A n \in Nodes : nodes[n].out # new
      BY <1>1, <1>8, <2>5
    <3> QED
      BY <1>6, <2>1, <3>1 DEF IsInput
  <2> QED
    BY <1>1, <1>2, <1>3, <2>2, <2>3, <2>4, <2>5 DEF L
<1>7. CASE \E op \in Ops, ins \in BoundedSeq(Tensors, 2) :
              /\ Signature(op, ins, t.rank, t.size)
              /\ nodes' = Append(nodes, [op |-> op, ins |-> ins, out |-> Len(tensors) + 1])
  <2>1. PICK op \in Ops, ins \in BoundedSeq(Tensors, 2) :
              /\ Signature(op, ins, t.rank, t.size)
              /\ nodes' = Append(nodes, [op |-> op, ins |-> ins, out |-> L + 1])
    BY <1>7 DEF L
  <2> DEFINE new == [op |-> op, ins |-> ins, out |-> L + 1]
  <2>2. ins \in Seq(Tensors) /\ ins \in Seq(Nat)
    <3>1. PICK k \in 0 .. 2 : ins \in [1 .. k -> Tensors]
      BY <2>1 DEF BoundedSeq, SeqOf
    <3>2. \A j \in Tensors : j \in Nat
      BY <1>1
    <3> QED
      BY <3>1, <3>2
  <2>3. /\ \A k \in DOMAIN ins : ins[k] \in Tensors
        /\ Len(ins) = (IF op = "MatMul" THEN 2 ELSE 1)
        /\ op \in {"Reshape", "Transpose"} => tensors[ins[1]].size = t.size
        /\ 1 \in DOMAIN ins
    BY <2>1, <2>2 DEF Signature
  <2>4. /\ nodes' \in Seq([op : Ops, ins : Seq(Nat), out : Nat]) /\ Nodes' = 1 .. N + 1
        /\ \A n \in 1 .. N : nodes'[n] = nodes[n]
        /\ nodes'[N + 1] = new
    <3>1. new \in [op : Ops, ins : Seq(Nat), out : Nat]
      <4>1. op \in Ops /\ ins \in Seq(Nat) /\ L + 1 \in Nat
        BY <1>1, <2>1, <2>2
      <4> QED
        BY <4>1
    <3> HIDE DEF new
    <3>2. /\ Append(nodes, new) \in Seq([op : Ops, ins : Seq(Nat), out : Nat])
          /\ Len(Append(nodes, new)) = N + 1
          /\ \A i \in 1 .. N : Append(nodes, new)[i] = nodes[i]
          /\ Append(nodes, new)[N + 1] = new
      BY <1>1, <3>1, AppendProperties DEF N
    <3>3. DOMAIN Append(nodes, new) = 1 .. N + 1
      BY <3>2
    <3> QED
      BY <2>1, <3>2, <3>3 DEF new, Nodes
  <2>5. new.op = op /\ new.ins = ins /\ new.out = L + 1
    OBVIOUS
  <2> HIDE DEF new
  <2>6. \A n \in Nodes' : n \in Nodes \/ n = N + 1
    BY <1>1, <2>4
  <2>7. \A n \in Nodes : nodes'[n] = nodes[n] /\ n # N + 1 /\ ~ (N + 1 < n)
    BY <1>1, <2>4
  <2>8. ASSUME NEW n \in Nodes'
        PROVE  /\ nodes'[n].out \in Tensors'
               /\ \A k \in DOMAIN nodes'[n].ins : nodes'[n].ins[k] \in 1 .. nodes'[n].out - 1
    <3>1. CASE n \in Nodes
      BY <1>3, <1>4, <2>7, <3>1
    <3>2. CASE n = N + 1
      <4>1. \A k \in DOMAIN ins : ins[k] \in 1 .. (L + 1) - 1
        BY <1>1, <2>3
      <4>2. nodes'[n].out = L + 1 /\ nodes'[n].ins = ins
        BY <2>4, <2>5, <3>2
      <4>3. L + 1 \in 1 .. L + 1
        BY <1>1
      <4> QED
        BY <1>2, <4>1, <4>2, <4>3
    <3> QED
      BY <2>6, <3>1, <3>2
  <2>9. ASSUME NEW m \in Nodes', NEW n \in Nodes', m < n PROVE nodes'[m].out < nodes'[n].out
    <3>1. CASE m \in Nodes /\ n \in Nodes
      BY <1>4, <2>7, <2>9, <3>1
    <3>2. CASE m \in Nodes /\ n = N + 1
      <4>1. nodes'[n].out = L + 1 /\ nodes'[m].out = nodes[m].out
        BY <2>4, <2>5, <2>7, <3>2
      <4> QED
        BY <1>1, <1>8, <3>2, <4>1, SMTT(30)
    <3>3. CASE m = N + 1
      BY <1>1, <2>4, <2>9, <3>3
    <3> QED
      BY <2>6, <3>1, <3>2, <3>3
  <2>10. explicit' \subseteq Tensors' /\ hasExplicit' \in BOOLEAN
    BY <1>3, <1>4
  <2>11. GraphInv'
    BY <1>2, <2>4, <2>8, <2>9, <2>10 DEF GraphInv, TensorRecords
  <2>12. ASSUME NEW n \in Nodes'
         PROVE  /\ nodes'[n].op \in Ops
                /\ nodes'[n].ins \in Seq(Nat) /\ Len(nodes'[n].ins) = (IF nodes'[n].op = "MatMul" THEN 2 ELSE 1)
                /\ nodes'[n].op \in {"Reshape", "Transpose"} =>
                      tensors'[nodes'[n].ins[1]].size = tensors'[nodes'[n].out].size
    <3>1. CASE n \in Nodes
      <4>1. nodes'[n] = nodes[n] /\ nodes[n].out \in Tensors /\ nodes[n].ins[1] \in Tensors
        BY <1>4, <1>5, <2>7, <3>1
      <4>2. /\ tensors'[nodes[n].out] = tensors[nodes[n].out]
            /\ tensors'[nodes[n].ins[1]] = tensors[nodes[n].ins[1]]
        BY <1>3, <4>1
      <4>3. /\ nodes[n].op \in Ops
            /\ nodes[n].ins \in Seq(Nat) /\ Len(nodes[n].ins) = (IF nodes[n].op = "MatMul" THEN 2 ELSE 1)
            /\ nodes[n].op \in {"Reshape", "Transpose"} =>
                  tensors[nodes[n].ins[1]].size = tensors[nodes[n].out].size
        BY <3>1 DEF ShapesOK
      <4> QED
        BY <4>1, <4>2, <4>3
    <3>2. CASE n = N + 1
      <4>1. nodes'[n].op = op /\ nodes'[n].ins = ins /\ nodes'[n].out = L + 1
        BY <2>4, <2>5, <3>2
      <4>2. op \in {"Reshape", "Transpose"} => tensors'[ins[1]].size = tensors'[L + 1].size
        BY <1>2, <1>3, <2>3
      <4> QED
        BY <2>2, <2>3, <4>1, <4>2
    <3> QED
      BY <2>6, <3>1, <3>2
  <2>13. ShapesOK'
    BY <2>12 DEF ShapesOK
  <2>14. \A i \in Tensors : IsInput(i) => IsInput(i)'
    <3>1. \A i \in Tensors : i # L + 1
      BY <1>1
    <3> QED
      BY <2>4, <2>5, <2>6, <2>7, <3>1 DEF IsInput
  <2>15. nodes' # nodes
    <3>1. N + 1 \in Nodes' /\ N + 1 \notin Nodes
      BY <1>1, <2>4
    <3> QED
      BY <3>1 DEF Nodes
  <2> QED
    BY <1>1, <1>2, <1>3, <2>11, <2>13, <2>14, <2>15 DEF L
<1> QED
  BY <1>6, <1>7

\* The new tensor has no memory, or memory of its own behind all other.
LEMMA MemoryGrows ==
    ASSUME GraphInv, ShapesOK, MemoryOK, Unbuilt, NEW new, new = Len(tensors) + 1, Tensors' = 1 .. new,
           \A i \in Tensors : tensors'[i] = tensors[i] /\ (IsInput(i) => IsInput(i)'),
           NEW t \in TensorRecords, tensors'[new] = t,
           \/ t.data = NULL /\ mem' = mem
           \/ /\ t.data = Len(mem) + 1 /\ t.size > 0
              /\ mem' = mem \o Cells(Value(new, 0), t.size)
              /\ IsInput(new)'
    PROVE  MemoryOK' /\ Unbuilt'
<1> DEFINE L == Len(tensors)
           M == Len(mem)
<1>1. L \in Nat /\ new = L + 1 /\ Tensors = 1 .. L /\ mem \in Seq(AllCells) /\ M \in Nat
  BY NodeFacts DEF MemoryOK
<1>2. \A i \in Populated :
         /\ i \in Tensors /\ 0 < tensors[i].size /\ tensors[i].data + tensors[i].size - 1 <= M
         /\ IsInput(i) /\ Holds(mem, tensors[i].data, tensors[i].size, Value(i, 0))
         /\ tensors[i].data \in Nat \ {0} /\ tensors[i].size \in Nat
  <2>1. \A i \in Tensors : tensors[i].data \in Nat
    <3>1. \A i \in Tensors : tensors[i] \in TensorRecords
      <4>1. tensors \in Seq(TensorRecords)
        BY DEF GraphInv, TensorRecords
      <4> QED
        BY <1>1, <4>1, ElementOfSeq
    <3> QED
      BY <3>1 DEF TensorRecords
  <2> QED
    BY <2>1, NodeFacts DEF Populated, MemoryOK, Unbuilt, NULL
<1>3. \A i, j \in Populated :
         i # j => Clear(tensors[i].data, tensors[i].size, tensors[j].data, tensors[j].size)
  BY DEF Unbuilt
<1>4. CASE t.data = NULL /\ mem' = mem
  <2>1. Populated' = Populated
    BY <1>1, <1>4 DEF Populated
  <2>2. MemoryOK'
    BY <1>1, <1>2, <1>4, <2>1 DEF MemoryOK
  <2>3. Unbuilt'
    BY <1>2, <1>3, <1>4, <2>1 DEF Unbuilt, Holds
  <2> QED
    BY <2>2, <2>3
<1>5. CASE /\ t.data = Len(mem) + 1 /\ t.size > 0
           /\ mem' = mem \o Cells(Value(new, 0), t.size)
           /\ IsInput(new)'
  <2> DEFINE cells == Cells(Value(new, 0), t.size)
  <2>1. t.size \in Nat /\ t.size > 0
    BY <1>5, GraphAssumption DEF TensorRecords
  <2>2. Value(new, 0) \in AllValues
    BY <1>1 DEF Value, AllValues
  <2>3. cells \in Seq(AllCells) /\ Len(cells) = t.size /\ \A k \in 1 .. t.size : cells[k] = Cell(Value(new, 0), k)
    BY <2>1, <2>2, CellsFacts
  <2> HIDE DEF cells
  <2>4. mem' = mem \o cells
    BY <1>5 DEF cells
  <2>5. /\ mem' \in Seq(AllCells) /\ Len(mem') = M + t.size
        /\ \A a \in 1 .. M + t.size : mem'[a] = IF a <= M THEN mem[a] ELSE cells[a - M]
    <3>1. /\ mem \o cells \in Seq(AllCells) /\ Len(mem \o cells) = Len(mem) + Len(cells)
          /\ \A a \in 1 .. Len(mem) + Len(cells) :
                (mem \o cells)[a] = IF a <= Len(mem) THEN mem[a] ELSE cells[a - Len(mem)]
      BY <1>1, <2>3, ConcatProperties
    <3> QED
      BY <2>3, <2>4, <3>1
  <2>6. Populated' = Populated \cup {new} /\ new \notin Populated
    BY <1>1, <1>5 DEF Populated, NULL
  <2> HIDE DEF M
  <2>7. \A a \in 1 .. M : mem'[a] = mem[a]
    <3>1. \A a \in 1 .. M : a \in 1 .. M + t.size /\ a <= M
      BY <1>1, <2>1 DEF M
    <3> QED
      BY <2>5, <3>1
  <2>8. tensors'[new].data = M + 1 /\ tensors'[new].size = t.size
    BY <1>5 DEF M
  <2>9. Holds(mem', M + 1, t.size, Value(new, 0))
    <3>1. ASSUME NEW k \in 1 .. t.size PROVE mem'[M + 1 + k - 1] = Cell(Value(new, 0), k)
      <4>1. M + 1 + k - 1 \in 1 .. M + t.size /\ ~ (M + 1 + k - 1 <= M) /\ (M + 1 + k - 1) - M = k
        BY <1>1, <2>1, SMTT(30) DEF M
      <4> QED
        BY <2>3, <2>5, <4>1
    <3> QED
      BY <3>1 DEF Holds
  <2>10. ASSUME NEW i \in Populated
         PROVE  /\ tensors'[i] = tensors[i] /\ IsInput(i)'
                /\ Holds(mem', tensors[i].data, tensors[i].size, Value(i, 0))
                /\ tensors[i].data + tensors[i].size - 1 <= M
                /\ 0 < tensors[i].size
    <3> DEFINE d == tensors[i].data
               n == tensors[i].size
    <3>1. d \in Nat \ {0} /\ n \in Nat /\ d + n - 1 <= M /\ M \in Nat /\ Holds(mem, d, n, Value(i, 0))
      BY <1>1, <1>2 DEF M
    <3> HIDE DEF d, n
    <3>2. \A x \in Nat : d <= x /\ x < d + n => x \in 1 .. M
      BY <3>1
    <3>3. Holds(mem', d, n, Value(i, 0))
      BY <2>7, <3>1, <3>2, HoldsKept
    <3> QED
      BY <1>2, <3>3 DEF d, n, M
  <2>11. MemoryOK'
    <3>1. ASSUME NEW i \in Populated' PROVE 0 < tensors'[i].size /\ tensors'[i].data + tensors'[i].size - 1 <= Len(mem')
      <4>1. CASE i = new
        BY <1>1, <2>1, <2>5, <2>8, <4>1 DEF M
      <4>2. CASE i \in Populated
        <5>1. tensors[i].data + tensors[i].size - 1 <= M + t.size
          BY <1>1, <1>2, <2>1, <4>2 DEF M
        <5> QED
          BY <2>5, <2>10, <4>2, <5>1
      <4> QED
        BY <2>6, <4>1, <4>2
    <3> QED
      BY <2>5, <3>1 DEF MemoryOK
  <2>12. ASSUME NEW i \in Populated', NEW j \in Populated', i # j
         PROVE  Clear(tensors'[i].data, tensors'[i].size, tensors'[j].data, tensors'[j].size)
    <3>1. CASE i \in Populated /\ j \in Populated
      BY <1>3, <2>10, <2>12, <3>1
    <3>2. ASSUME NEW k \in Populated
          PROVE  tensors'[k].data + tensors'[k].size <= M + 1
      <4>1. tensors'[k] = tensors[k] /\ tensors[k].data + tensors[k].size - 1 <= M
        BY <2>10, <3>2
      <4>2. tensors[k].data \in Nat /\ tensors[k].size \in Nat /\ M \in Nat
        BY <1>1, <1>2, <3>2 DEF M
      <4> QED
        BY <4>1, <4>2
    <3>3. CASE i \in Populated /\ j = new
      BY <2>8, <3>2, <3>3 DEF Clear
    <3>4. CASE i = new /\ j \in Populated
      BY <2>8, <3>2, <3>4 DEF Clear
    <3> QED
      BY <2>6, <2>12, <3>1, <3>3, <3>4
  <2>13. \A i \in Populated' : IsInput(i)' /\ Holds(mem', tensors'[i].data, tensors'[i].size, Value(i, 0))
    <3>1. IsInput(new)' /\ Holds(mem', tensors'[new].data, tensors'[new].size, Value(new, 0))
      BY <1>5, <2>8, <2>9
    <3>2. ASSUME NEW i \in Populated
          PROVE  IsInput(i)' /\ Holds(mem', tensors'[i].data, tensors'[i].size, Value(i, 0))
      BY <2>10
    <3> QED
      BY <2>6, <3>1, <3>2
  <2> QED
    BY <2>11, <2>12, <2>13 DEF Unbuilt
<1> QED
  BY <1>4, <1>5

\* The record of a new tensor.
LEMMA StorageFacts ==
    ASSUME NEW rank \in Ranks, NEW size \in Sizes, NEW data \in Nat, NEW dev \in Devices \cup {"CPU"}
    PROVE  /\ Storage(rank, size, data, dev) \in TensorRecords
           /\ Storage(rank, size, data, dev).rank = rank /\ Storage(rank, size, data, dev).size = size
           /\ Storage(rank, size, data, dev).data = data
BY DEF Storage, TensorRecords

\* Constructing a tensor or a node keeps the invariant.
LEMMA ConstructKeeps ==
    ASSUME IInv, Construct, UNCHANGED <<compilerVars, executionVars>>
    PROVE  IInv'
<1>1. GraphInv /\ ShapesOK /\ MemoryOK /\ RunInv /\ Unbuilt /\ ~ built
  BY DEF IInv, GraphsInv, Construct
<1>2. built' = built /\ ~ built'
  <2>1. /\ \A rank, size : Input(rank, size) => built' = built
        /\ \A rank, size, dev : InputStorage(rank, size, dev) => built' = built
        /\ \A op, ins, rank, size : AddOp(op, ins, rank, size) => built' = built
        /\ \A i : MarkOutput(i) => built' = built
        /\ \A is : SetOutputs(is) \/ SetOutputsThrows(is) => built' = built
    BY DEF Input, InputStorage, AddOp, MarkOutput, SetOutputs, SetOutputsThrows
  <2>2. built' = built
    BY <2>1 DEF Construct
  <2> QED
    BY <1>1, <2>2
<1>3. topo' = topo /\ step' = step /\ runs' = runs /\ writes' = writes /\ returned' = returned
  BY DEF compilerVars, executionVars
<1>4. RunInv'
  <2>1. topo = <<>> /\ ~ returned /\ step = 0 /\ runs \in Nat /\ writes \in Nat
    BY <1>1 DEF RunInv
  <2>2. topo' \in Seq(Nodes') /\ Len(topo') = 0
    BY <1>3, <2>1
  <2>3. step' \in 0 .. Len(topo') + 1 /\ step' = 0 /\ runs' \in Nat /\ writes' \in Nat
    BY <1>3, <2>1, <2>2
  <2>4. built' \in BOOLEAN /\ returned' \in BOOLEAN
    BY <1>1, <1>2, <1>3 DEF RunInv
  <2>5. topo' = <<>> /\ ~ returned'
    BY <1>3, <2>1
  <2> QED
    BY <2>2, <2>3, <2>4, <2>5 DEF RunInv
<1> DEFINE GI == GraphInv' /\ ShapesOK' /\ MemoryOK' /\ Unbuilt'
<1>5. ASSUME NEW rank \in Ranks, NEW size \in Sizes, Input(rank, size) PROVE GI
  <2> DEFINE t == Storage(rank, size, NULL, "CPU")
  <2>1. t \in TensorRecords /\ t.data = NULL
    BY StorageFacts DEF NULL
  <2>2. tensors' = Append(tensors, t) /\ nodes' = nodes /\ UNCHANGED <<hasExplicit, explicit>> /\ mem' = mem
    BY <1>5 DEF Input
  <2> HIDE DEF t
  <2>3. /\ GraphInv' /\ ShapesOK' /\ Len(tensors) \in Nat /\ Tensors' = 1 .. Len(tensors) + 1
        /\ \A i \in Tensors : tensors'[i] = tensors[i] /\ (IsInput(i) => IsInput(i)')
        /\ tensors'[Len(tensors) + 1] = t
    BY <1>1, <2>1, <2>2, GraphGrows
  <2>4. MemoryOK' /\ Unbuilt'
    BY <1>1, <2>1, <2>2, <2>3, MemoryGrows
  <2> QED
    BY <2>3, <2>4
<1>6. ASSUME NEW rank \in Ranks, NEW size \in Sizes, NEW dev \in Devices, InputStorage(rank, size, dev) PROVE GI
  <2> DEFINE t == Storage(rank, size, Len(mem) + 1, dev)
  <2>1. Len(mem) + 1 \in Nat
    BY <1>1 DEF MemoryOK
  <2>2. t \in TensorRecords /\ t.data = Len(mem) + 1 /\ t.size = size
    BY <2>1, StorageFacts
  <2>3. tensors' = Append(tensors, t) /\ nodes' = nodes /\ UNCHANGED <<hasExplicit, explicit>> /\ t.size > 0
    BY <1>6, <2>2 DEF InputStorage
  <2> HIDE DEF t
  <2>4. /\ GraphInv' /\ ShapesOK' /\ Len(tensors) \in Nat /\ Tensors' = 1 .. Len(tensors) + 1
        /\ \A i \in Tensors : tensors'[i] = tensors[i] /\ (IsInput(i) => IsInput(i)')
        /\ tensors'[Len(tensors) + 1] = t
        /\ \A new : new = Len(tensors) + 1 => IsInput(new)'
    BY <1>1, <2>2, <2>3, GraphGrows
  <2>5. PICK new : new = Len(tensors) + 1
    OBVIOUS
  <2>6. mem' = mem \o Cells(Value(new, 0), t.size)
    BY <1>6, <2>2, <2>5 DEF InputStorage
  <2>7. Tensors' = 1 .. new /\ tensors'[new] = t /\ IsInput(new)'
    BY <2>4, <2>5
  <2>8. MemoryOK' /\ Unbuilt'
    BY <1>1, <2>2, <2>3, <2>4, <2>5, <2>6, <2>7, MemoryGrows
  <2> QED
    BY <2>4, <2>8
<1>7. ASSUME NEW rank \in Ranks, NEW size \in Sizes, NEW op \in Ops, NEW ins \in BoundedSeq(Tensors, 2),
             AddOp(op, ins, rank, size)
      PROVE  GI
  <2> DEFINE t == Storage(rank, size, NULL, "CPU")
  <2>1. t \in TensorRecords /\ t.data = NULL /\ t.rank = rank /\ t.size = size
    BY StorageFacts DEF NULL
  <2>2. /\ tensors' = Append(tensors, t) /\ UNCHANGED <<hasExplicit, explicit>> /\ mem' = mem
        /\ Signature(op, ins, t.rank, t.size)
        /\ nodes' = Append(nodes, [op |-> op, ins |-> ins, out |-> Len(tensors) + 1])
    BY <1>7, <2>1 DEF AddOp
  <2> HIDE DEF t
  <2>3. /\ GraphInv' /\ ShapesOK' /\ Len(tensors) \in Nat /\ Tensors' = 1 .. Len(tensors) + 1
        /\ \A i \in Tensors : tensors'[i] = tensors[i] /\ (IsInput(i) => IsInput(i)')
        /\ tensors'[Len(tensors) + 1] = t
    BY <1>1, <2>1, <2>2, GraphGrows
  <2>4. MemoryOK' /\ Unbuilt'
    BY <1>1, <2>1, <2>2, <2>3, MemoryGrows
  <2> QED
    BY <2>3, <2>4
<1>8. ASSUME UNCHANGED <<tensors, nodes, mem>>, hasExplicit' \in BOOLEAN, explicit' \subseteq Tensors PROVE GI
  <2>1. Tensors' = Tensors /\ Nodes' = Nodes /\ Populated' = Populated
    BY <1>8 DEF Tensors, Nodes, Populated
  <2>2. GraphInv'
    BY <1>1, <1>8, <2>1 DEF GraphInv
  <2>3. ShapesOK'
    BY <1>1, <1>8, <2>1 DEF ShapesOK
  <2>4. MemoryOK'
    BY <1>1, <1>8, <2>1 DEF MemoryOK
  <2>5. Unbuilt'
    BY <1>1, <1>8, <2>1 DEF Unbuilt, IsInput, Holds
  <2> QED
    BY <2>2, <2>3, <2>4, <2>5
<1>9. GI
  <2>1. CASE \E rank \in Ranks, size \in Sizes : Input(rank, size)
    BY <1>5, <2>1
  <2>2. CASE \E rank \in Ranks, size \in Sizes, dev \in Devices : InputStorage(rank, size, dev)
    BY <1>6, <2>2
  <2>3. CASE \E rank \in Ranks, size \in Sizes, op \in Ops, ins \in BoundedSeq(Tensors, 2) : AddOp(op, ins, rank, size)
    BY <1>7, <2>3
  <2>4. CASE \E i \in Tensors : MarkOutput(i)
    <3>1. explicit \subseteq Tensors
      BY <1>1 DEF GraphInv
    <3> QED
      BY <1>8, <2>4, <3>1 DEF MarkOutput
  <2>5. CASE \E is \in SUBSET Tensors : SetOutputs(is) \/ SetOutputsThrows(is)
    BY <1>8, <2>5 DEF SetOutputs, SetOutputsThrows
  <2> QED
    BY <2>1, <2>2, <2>3, <2>4, <2>5 DEF Construct
<1> QED
  BY <1>2, <1>4, <1>9 DEF IInv, GraphsInv

\* Nothing that the graph says depends on strides, addresses and devices.
LEMMA SameShapes ==
    ASSUME GraphInv, ShapesOK, UNCHANGED <<nodes, hasExplicit, explicit>>,
           tensors' \in [Tensors -> TensorRecords], \A i \in Tensors : tensors'[i].size = tensors[i].size
    PROVE  GraphInv' /\ ShapesOK' /\ Tensors' = Tensors /\ Nodes' = Nodes
<1>1. Tensors = 1 .. Len(tensors) /\ Len(tensors) \in Nat
  BY NodeFacts
<1>2. tensors' \in Seq(TensorRecords) /\ Tensors' = Tensors /\ Nodes' = Nodes
  BY <1>1 DEF Tensors, Nodes
<1>3. GraphInv'
  BY <1>2 DEF GraphInv, TensorRecords
<1>4. \A n \in Nodes : nodes[n].out \in Tensors /\ nodes[n].ins[1] \in Tensors
  BY NodeFacts
<1>5. ShapesOK'
  BY <1>2, <1>4 DEF ShapesOK
<1> QED
  BY <1>2, <1>3, <1>5

\* A failing build changes strides only.
LEMMA BuildFailsKeeps ==
    ASSUME IInv, NEW dev \in Devices, BuildFails(dev), UNCHANGED executionVars
    PROVE  IInv'
<1> DEFINE strides == PlanViews(dev).strides
<1>1. GraphInv /\ ShapesOK /\ MemoryOK /\ RunInv /\ Unbuilt /\ ~ built
  BY DEF IInv, GraphsInv, BuildFails
<1>2. /\ UNCHANGED <<nodes, hasExplicit, explicit, built, mem, topo>>
      /\ UNCHANGED <<step, runs, writes, returned>>
  BY DEF BuildFails, executionVars
<1>3. tensors' = [i \in Tensors |-> [tensors[i] EXCEPT !.strides = strides[i]]]
  <2>1. Plan(dev).strides = strides
    BY PlanParts
  <2> QED
    BY <2>1 DEF BuildFails, Restrided
<1>4. strides \in [Tensors -> {"row", "swapped"}]
  BY <1>1, PlanFacts DEF ViewsOK
<1>5. Tensors = 1 .. Len(tensors) /\ Len(tensors) \in Nat /\ \A i \in Tensors : tensors[i] \in TensorRecords
  <2>1. tensors \in Seq(TensorRecords)
    BY <1>1 DEF GraphInv, TensorRecords
  <2>2. Tensors = 1 .. Len(tensors) /\ Len(tensors) \in Nat
    BY <1>1, NodeFacts
  <2> QED
    BY <2>1, <2>2, ElementOfSeq
<1> HIDE DEF strides
<1>6. \A i \in Tensors : /\ tensors'[i] \in TensorRecords /\ tensors'[i].size = tensors[i].size
                         /\ tensors'[i].data = tensors[i].data
  BY <1>3, <1>4, <1>5, ZenonT(60) DEF TensorRecords
<1>7. GraphInv' /\ ShapesOK' /\ Tensors' = Tensors /\ Nodes' = Nodes
  <2>1. tensors' \in [Tensors -> TensorRecords]
    BY <1>3, <1>6
  <2> QED
    BY <1>1, <1>2, <1>6, <2>1, SameShapes
<1>8. Populated' = Populated /\ Populated \subseteq Tensors
  BY <1>6, <1>7 DEF Populated
<1>9. MemoryOK'
  BY <1>1, <1>2, <1>6, <1>8 DEF MemoryOK
<1>10. Unbuilt'
  BY <1>1, <1>2, <1>6, <1>7, <1>8 DEF Unbuilt, IsInput, Holds
<1>11. RunInv'
  BY <1>1, <1>2, <1>7 DEF RunInv
<1> QED
  BY <1>1, <1>2, <1>7, <1>9, <1>10, <1>11 DEF IInv, GraphsInv

-----------------------------------------------------------------------------
(* The build.                                                              *)

\* A layout speaks of the graph, which no longer changes.
LEMMA LayoutStays ==
    ASSUME UNCHANGED <<nodes, hasExplicit, explicit>>, NEW lay, NEW order, NEW dev, LaidOut(lay, order, dev)
    PROVE  LaidOut(lay, order, dev)'
<1>1. Nodes' = Nodes
  BY DEF Nodes
<1>2. Touched(order)' = Touched(order)
  BY DEF Touched
<1>3. \A i : /\ IsInput(i)' <=> IsInput(i)
             /\ Birth(order, i)' = Birth(order, i) /\ Death(order, i)' = Death(order, i)
  BY <1>1 DEF IsInput, Birth, Death, Writes, Reads, Uses
<1>4. RootsLaid(lay, order, dev)'
  BY DEF LaidOut, RootsLaid, ViewOf, Uses
<1>5. HomesLaid(lay, order)'
  BY <1>2 DEF LaidOut, HomesLaid
<1>6. ArenaLaid(lay, order)'
  BY <1>3 DEF LaidOut, ArenaLaid
<1> QED
  BY <1>4, <1>5, <1>6 DEF LaidOut, LayRecords, LaidApart, Separate

\* A build schedules what ScheduleIsComplete asks for.
LEMMA TopologicalOrderIsComplete ==
    ASSUME GraphInv, ShapesOK, UNCHANGED <<nodes, hasExplicit, explicit>>, Tensors' = Tensors,
           topo' = TopologicalOrder
    PROVE  ScheduleIsComplete'
<1> DEFINE order == TopologicalOrder
<1>1. /\ order \in Seq(Required) /\ Distinct(order) /\ Range(order) = Required
      /\ \A k \in DOMAIN order : \A m \in Required :
            Uses(order[k], nodes[m].out) => \E j \in 1 .. k - 1 : order[j] = m
  BY TopologicalOrderFacts
<1>2. /\ Required \subseteq Nodes
      /\ \A n \in Nodes : hasExplicit => (nodes[n].out \in explicit => n \in Required)
      /\ ~ hasExplicit => Required = Nodes
      /\ \A n \in Required : \A m \in Nodes : Uses(n, nodes[m].out) => m \in Required
  BY RequiredClosed
<1> HIDE DEF order
<1>3. \A j, k \in DOMAIN order : j # k => order[j] # order[k]
  BY <1>1 DEF Distinct
<1>4. ASSUME NEW k \in DOMAIN order, NEW i \in Range(nodes[order[k]].ins), ~ IsInput(i)
      PROVE  \E j \in 1 .. k - 1 : nodes[order[j]].out = i
  <2>1. PICK m \in Nodes : nodes[m].out = i
    BY <1>4 DEF IsInput
  <2>2. order[k] \in Required
    BY <1>1 DEF Range
  <2>3. Uses(order[k], nodes[m].out)
    BY <1>4, <2>1 DEF Uses, Range
  <2>4. m \in Required
    BY <1>2, <2>2, <2>3
  <2> QED
    BY <1>1, <2>1, <2>3, <2>4
<1>5. ASSUME NEW o \in Outputs, ~ IsInput(o) PROVE \E k \in DOMAIN order : nodes[order[k]].out = o
  <2>1. PICK m \in Nodes : nodes[m].out = o
    BY <1>5 DEF IsInput
  <2>2. m \in Required
    BY <1>2, <1>5, <2>1 DEF Outputs
  <2> QED
    BY <1>1, <2>1, <2>2 DEF Range
<1>6. Outputs' = Outputs /\ \A i : IsInput(i)' <=> IsInput(i)
  BY DEF Outputs, IsInput, Nodes, Uses
<1> QED
  BY <1>3, <1>4, <1>5, <1>6 DEF ScheduleIsComplete, order

\* A build that succeeds keeps the invariant: the layout it computes is the one that exists.
LEMMA BuildKeeps ==
    ASSUME IInv, NEW dev \in Devices, Build(dev), value' = [i \in Tensors |-> Value(i, 0)],
           UNCHANGED <<step, runs, writes, binds, returned>>
    PROVE  /\ IInv'
           /\ \A lay : lay = PlanLay(dev) => Laid(lay)'
<1>1. GraphInv /\ ShapesOK /\ MemoryOK /\ RunInv /\ Unbuilt /\ ~ built /\ Compilable
  BY DEF IInv, GraphsInv, Build, Compilable
<1>2. /\ UNCHANGED <<nodes, hasExplicit, explicit>> /\ device' = dev /\ built'
      /\ mem' = PlanLayout(dev).bytes /\ topo' = TopologicalOrder /\ tensors' = PlanStaged(dev)
  <2>1. Layout(Plan(dev)) = PlanLayout(dev) /\ Plan(dev).order = TopologicalOrder
    BY LayoutParts, PlanParts
  <2> QED
    BY <2>1 DEF Build, PlanStaged
<1>3. /\ \A i \in Tensors : /\ tensors'[i] \in TensorRecords /\ tensors'[i].size = tensors[i].size
                            /\ tensors'[i].strides = PlanViews(dev).strides[i]
                            /\ tensors'[i].data = HomeOf(dev, i)
      /\ tensors' \in [Tensors -> TensorRecords]
  <2>1. \A i \in Tensors : /\ tensors'[i] \in TensorRecords /\ tensors'[i].size = tensors[i].size
                           /\ tensors'[i].strides = PlanViews(dev).strides[i]
                           /\ tensors'[i].data = HomeOf(dev, i)
    BY <1>1, <1>2, StagedFacts DEF HomeOf
  <2>2. tensors' = [i \in Tensors |-> tensors'[i]]
    BY <1>2 DEF PlanStaged, Staged
  <2> QED
    BY <2>1, <2>2
<1>4. GraphInv' /\ ShapesOK' /\ Tensors' = Tensors /\ Nodes' = Nodes
  BY <1>1, <1>2, <1>3, SameShapes
<1>5. PICK lay : lay = PlanLay(dev)
  OBVIOUS
<1>6. PICK order : order = TopologicalOrder
  OBVIOUS
<1>7. LaidOut(lay, order, dev)
  BY <1>1, <1>5, <1>6, BuildLaysOut
<1>8. LaidOut(lay, topo, device)'
  <2>1. LaidOut(lay, order, dev)'
    BY <1>2, <1>7, LayoutStays
  <2>2. topo' = order /\ device' = dev
    BY <1>2, <1>6
  <2> QED
    BY <2>1, <2>2
<1>9. /\ lay.tensors = Tensors /\ lay.strides = PlanViews(dev).strides /\ lay.top = Len(PlanLayout(dev).bytes)
      /\ \A i \in Tensors : lay.size[i] = tensors[i].size /\ lay.home[i] = HomeOf(dev, i)
  BY <1>1, <1>5, PlanLayParts
<1>10. \A i \in Tensors :
          HomeOf(dev, i) # NULL => tensors[i].size > 0 /\ HomeOf(dev, i) + tensors[i].size - 1 <= lay.top
  BY <1>7, <1>9 DEF LaidOut, HomesLaid
<1>11. /\ mem' \in Seq(AllCells) /\ lay.top = Len(mem') /\ Len(mem') \in Nat
  BY <1>1, <1>2, <1>9, BuiltMemory
<1>12. \A i \in Tensors : HomeOf(dev, i) \in Nat /\ tensors[i].size \in Nat
  BY <1>1, HomeCases, NodeFacts
<1>13. MemoryOK'
  BY <1>3, <1>4, <1>10, <1>11 DEF MemoryOK, Populated
<1>14. Fits(lay)'
  BY <1>3, <1>4, <1>9, <1>11 DEF Fits
<1>15. DataOK(lay)'
  <2>1. \A i \in Tensors : HomeOf(dev, i) <= lay.top
    BY <1>10, <1>11, <1>12 DEF NULL
  <2>2. \A i \in Tensors : ~ (lay.top < tensors'[i].data)
    BY <1>3, <1>11, <1>12, <2>1
  <2>3. \A i \in Tensors' : tensors'[i].data = lay.home[i] /\ ~ (lay.top < tensors'[i].data)
    BY <1>3, <1>4, <1>9, <2>2
  <2> QED
    BY <2>3 DEF DataOK
<1>16. Laid(lay)'
  BY <1>8, <1>14, <1>15 DEF Laid
<1>17. ValueOK'
  <2>1. \A i \in Tensors : Value(i, 0) \in AllValues
    BY <1>1, NodeFacts DEF Value, AllValues
  <2> QED
    BY <1>4, <2>1 DEF ValueOK
<1>18. InputsHold'
  <2>1. ASSUME NEW i \in Tensors, tensors'[i].data # NULL, IsInput(i)
        PROVE  Holds(mem', tensors'[i].data, tensors'[i].size, value'[i])
    <3>1. HomeOf(dev, i) # NULL
      BY <1>3, <2>1
    <3>2. Holds(PlanLayout(dev).bytes, HomeOf(dev, i), tensors[i].size, Value(i, 0))
      BY <1>1, <2>1, <3>1, BuildFillsInputs
    <3> QED
      BY <1>2, <1>3, <3>2
  <2>2. \A i : IsInput(i)' <=> IsInput(i)
    BY <1>2, <1>4 DEF IsInput
  <2> QED
    BY <1>4, <2>1, <2>2 DEF InputsHold, Populated
<1>19. ScheduleIsComplete'
  BY <1>1, <1>2, <1>4, TopologicalOrderIsComplete
<1>20. BuiltInv'
  BY <1>2, <1>16, <1>17, <1>18, <1>19 DEF BuiltInv
<1>21. RunInv'
  <2>1. step = 0 /\ ~ returned /\ runs \in Nat /\ writes \in Nat
    BY <1>1 DEF RunInv
  <2>2. topo' \in Seq(Nodes')
    BY <1>1, <1>2, <1>4, PlanFacts
  <2>3. step' \in 0 .. Len(topo') + 1 /\ step' = 0
    BY <2>1, <2>2
  <2>4. built' \in BOOLEAN /\ returned' \in BOOLEAN
    BY <1>1 DEF RunInv, Build
  <2> QED
    BY <1>2, <2>1, <2>2, <2>3, <2>4 DEF RunInv
<1>22. IInv'
  BY <1>2, <1>4, <1>13, <1>20, <1>21 DEF IInv, GraphsInv
<1> QED
  BY <1>5, <1>16, <1>22

-----------------------------------------------------------------------------
(* After the build.                                                        *)

\* Addresses are numbers; the homes lie within the layout.
LEMMA Addresses ==
    ASSUME GraphsInv, NEW lay, Laid(lay), NEW i \in Tensors
    PROVE  /\ tensors[i].data \in Nat /\ tensors[i].size \in Nat
           /\ tensors[i].data # NULL => tensors[i].size > 0 /\ tensors[i].data + tensors[i].size - 1 <= Len(mem)
           /\ lay.home[i] \in Nat /\ lay.top \in Nat /\ lay.home[i] <= lay.top
           /\ lay.home[i] # NULL => lay.home[i] + tensors[i].size - 1 <= lay.top
           /\ lay.size[i] = tensors[i].size /\ lay.root[i] \in Tensors
<1>1. tensors[i] \in TensorRecords /\ tensors[i].size \in Nat
  <2>1. tensors \in Seq(TensorRecords)
    BY DEF GraphsInv, GraphInv, TensorRecords
  <2>2. Tensors = 1 .. Len(tensors) /\ tensors[i].size \in Nat
    BY NodeFacts DEF GraphsInv
  <2> QED
    BY <2>1, <2>2, ElementOfSeq
<1>2. tensors[i].data \in Nat
  BY <1>1 DEF TensorRecords
<1>3. tensors[i].data # NULL => tensors[i].size > 0 /\ tensors[i].data + tensors[i].size - 1 <= Len(mem)
  BY DEF GraphsInv, MemoryOK, Populated
<1>4. lay.tensors = Tensors /\ lay.size[i] = tensors[i].size
  BY DEF Laid, Fits
<1>5. lay.home[i] \in Nat /\ lay.root[i] \in Tensors /\ lay.top \in Nat
  BY <1>4 DEF Laid, LaidOut, LayRecords
<1>6. lay.home[i] # NULL => lay.size[i] > 0 /\ lay.home[i] + lay.size[i] - 1 <= lay.top
  BY <1>4 DEF Laid, LaidOut, HomesLaid
<1>7. lay.home[i] <= lay.top
  BY <1>1, <1>4, <1>5, <1>6 DEF NULL
<1> QED
  BY <1>1, <1>2, <1>3, <1>4, <1>5, <1>6, <1>7

\* An input is no view and lies outside the arena,
LEMMA InputsAreRoots ==
    ASSUME GraphsInv, topo \in Seq(Nodes), NEW lay, Laid(lay), NEW i \in Tensors, IsInput(i)
    PROVE  lay.root[i] = i /\ i \notin lay.arena
<1>1. lay.root[i] # i => \E n \in Range(topo) : nodes[n].out = i
  BY DEF Laid, LaidOut, RootsLaid, ViewOf, Fits
<1>2. Range(topo) \subseteq Nodes
  BY DEF Range
<1>3. i \notin lay.arena
  BY DEF Laid, LaidOut, ArenaLaid
<1> QED
  BY <1>1, <1>2, <1>3 DEF IsInput

\* A tensor that is not where the layout put it lies behind the layout.
LEMMA BoundIsApart ==
    ASSUME GraphsInv, NEW lay, Laid(lay), NEW i \in Tensors, NEW j \in Tensors,
           tensors[i].data # lay.home[i], tensors[j].data = lay.home[j], tensors[j].data # NULL
    PROVE  /\ Clear(tensors[i].data, tensors[i].size, tensors[j].data, tensors[j].size)
           /\ Clear(tensors[j].data, tensors[j].size, tensors[i].data, tensors[i].size)
<1>1. lay.top < tensors[i].data
  BY DEF Laid, DataOK
<1>2. /\ tensors[i].data \in Nat /\ tensors[i].size \in Nat /\ tensors[j].data \in Nat /\ tensors[j].size \in Nat
      /\ lay.top \in Nat /\ tensors[j].data + tensors[j].size - 1 <= lay.top
  BY Addresses
<1> QED
  BY <1>1, <1>2 DEF Clear

\* and two inputs lie apart, built or bound.
LEMMA InputsAreApart ==
    ASSUME GraphsInv, topo \in Seq(Nodes), NEW lay, Laid(lay),
           NEW i \in Populated, NEW j \in Populated, IsInput(i), IsInput(j), i # j
    PROVE  Clear(tensors[i].data, tensors[i].size, tensors[j].data, tensors[j].size)
<1>1. i \in Tensors /\ j \in Tensors /\ tensors[i].data # NULL /\ tensors[j].data # NULL /\ lay.tensors = Tensors
  BY DEF Populated, Laid, Fits
<1>2. CASE tensors[i].data = lay.home[i] /\ tensors[j].data = lay.home[j]
  <2>1. lay.root[i] = i /\ lay.root[j] = j /\ i \notin lay.arena
    BY <1>1, InputsAreRoots
  <2>2. Separate(lay, i, j)
    BY <1>1, <1>2, <2>1 DEF Laid, LaidOut, LaidApart
  <2>3. lay.size[i] = tensors[i].size /\ lay.size[j] = tensors[j].size
    BY <1>1 DEF Laid, Fits
  <2> QED
    BY <1>2, <2>1, <2>2, <2>3 DEF Separate
<1>3. CASE tensors[i].data # lay.home[i] /\ tensors[j].data # lay.home[j]
  BY <1>1, <1>3 DEF Laid, DataOK
<1> QED
  BY <1>1, <1>2, <1>3, BoundIsApart

\* No two nodes have one output.
LEMMA OneProducer ==
    ASSUME GraphsInv, NEW m \in Nodes, NEW n \in Nodes, nodes[m].out = nodes[n].out
    PROVE  m = n
BY NodeFacts DEF GraphsInv

\* A kernel that writes at all writes where no input is.
LEMMA WritesMissInputs ==
    ASSUME GraphsInv, topo \in Seq(Nodes), NEW lay, Laid(lay), NEW n \in Range(topo), ~ SharesBytes(n),
           nodes[n].out \in Populated, NEW i \in Populated, IsInput(i)
    PROVE  Clear(tensors[i].data, tensors[i].size, tensors[nodes[n].out].data, tensors[nodes[n].out].size)
<1> DEFINE out == nodes[n].out
           in == nodes[n].ins[1]
<1>1. n \in Nodes /\ out \in Tensors /\ in \in Tensors /\ i \in Tensors /\ lay.tensors = Tensors
      /\ tensors[i].data # NULL /\ tensors[out].data # NULL
  <2>1. n \in Nodes
    BY DEF Range
  <2> QED
    BY <2>1, NodeFacts DEF GraphsInv, Populated, Laid, Fits
<1>2. ~ IsInput(out)
  BY <1>1 DEF IsInput
<1>3. tensors[out].data = lay.home[out]
  BY <1>1, <1>2 DEF Laid, DataOK
<1>4. CASE tensors[i].data # lay.home[i]
  BY <1>1, <1>3, <1>4, BoundIsApart
<1>5. CASE tensors[i].data = lay.home[i] /\ lay.root[out] # i
  <2>1. lay.root[i] = i /\ i \notin lay.arena
    BY <1>1, InputsAreRoots
  <2>2. Separate(lay, i, out)
    BY <1>1, <1>3, <1>5, <2>1 DEF Laid, LaidOut, LaidApart
  <2>3. lay.size[i] = tensors[i].size /\ lay.size[out] = tensors[out].size
    BY <1>1 DEF Laid, Fits
  <2> QED
    BY <1>3, <1>5, <2>1, <2>2, <2>3 DEF Separate
<1>6. CASE tensors[i].data = lay.home[i] /\ lay.root[out] = i
  <2>1. out # i
    BY <1>2
  <2>2. PICK m \in Range(topo) : /\ nodes[m].out = out /\ nodes[m].op \in {"Reshape", "Transpose"}
                                 /\ lay.root[nodes[m].ins[1]] = lay.root[out]
    BY <1>1, <1>6, <2>1 DEF Laid, LaidOut, RootsLaid, ViewOf
  <2>3. m = n
    <3>1. m \in Nodes
      BY DEF Range
    <3> QED
      BY <1>1, <2>2, <3>1, OneProducer
  <2>4. nodes[n].op \in {"Reshape", "Transpose"} /\ lay.root[in] = i
    BY <1>6, <2>2, <2>3
  <2>5. lay.home[in] = lay.home[i] /\ lay.home[out] = lay.home[i]
    <3>1. lay.home[lay.root[in]] = lay.home[in] /\ lay.home[lay.root[out]] = lay.home[out]
      BY <1>1 DEF Laid, LaidOut, RootsLaid
    <3> QED
      BY <1>6, <2>4, <3>1
  <2>6. tensors[in].data = lay.home[in]
    <3>1. tensors[in].data # lay.home[in] => IsInput(in)
      BY <1>1 DEF Laid, DataOK
    <3>2. IsInput(in) => in = i
      BY <1>1, <2>4, InputsAreRoots
    <3> QED
      BY <1>6, <3>1, <3>2
  <2> QED
    BY <1>3, <2>4, <2>5, <2>6 DEF SharesBytes
<1> QED
  BY <1>4, <1>5, <1>6

\* What stays of the invariant when only bytes, values and the position change.
LEMMA RunKeeps ==
    ASSUME IInv, built, UNCHANGED <<tensors, nodes, hasExplicit, explicit, built, topo, device>>,
           mem' \in Seq(AllCells), Len(mem') = Len(mem)
    PROVE  /\ GraphsInv' /\ ScheduleIsComplete' /\ device' \in Devices
           /\ \A lay : Laid(lay) => Laid(lay)'
           /\ \E lay : Laid(lay)'
           /\ Populated' = Populated /\ Tensors' = Tensors /\ Nodes' = Nodes
           /\ \A i : IsInput(i)' <=> IsInput(i)
<1>1. Populated' = Populated /\ Tensors' = Tensors /\ Nodes' = Nodes /\ \A i : IsInput(i)' <=> IsInput(i)
  BY DEF Populated, Tensors, Nodes, IsInput
<1>2. GraphInv' /\ ShapesOK'
  BY <1>1 DEF IInv, GraphsInv, GraphInv, ShapesOK
<1>3. MemoryOK'
  BY <1>1 DEF IInv, GraphsInv, MemoryOK
<1>4. ScheduleIsComplete' /\ device' \in Devices
  <2>1. Outputs' = Outputs
    BY <1>1 DEF Outputs, Uses
  <2> QED
    BY <1>1, <2>1 DEF IInv, BuiltInv, ScheduleIsComplete
<1>5. ASSUME NEW lay, Laid(lay) PROVE Laid(lay)'
  <2>1. PICK order, dev : order = topo /\ dev = device
    OBVIOUS
  <2>2. LaidOut(lay, order, dev)
    BY <1>5, <2>1 DEF Laid
  <2>3. LaidOut(lay, order, dev)'
    BY <2>2, LayoutStays
  <2>4. LaidOut(lay, topo, device)'
    BY <2>1, <2>3
  <2>5. Fits(lay)' /\ DataOK(lay)'
    BY <1>1, <1>5 DEF Laid, Fits, DataOK
  <2> QED
    BY <2>4, <2>5 DEF Laid
<1>6. \E lay : Laid(lay)
  BY DEF IInv, BuiltInv
<1> QED
  BY <1>1, <1>2, <1>3, <1>4, <1>5, <1>6 DEF GraphsInv

\* Copying from the host into an input keeps the invariant.
LEMMA CopyKeeps ==
    ASSUME IInv, NEW i \in Tensors, IsInput(i), CopyFromHost(i)
    PROVE  IInv' /\ (\A lay : Laid(lay) => Laid(lay)')
<1>1. /\ GraphsInv /\ RunInv /\ BuiltInv /\ built /\ step = 0 /\ mem \in Seq(AllCells)
      /\ i \in Populated /\ tensors[i].data # NULL
  BY DEF IInv, CopyFromHost, Populated, GraphsInv, MemoryOK
<1>2. PICK lay : Laid(lay)
  BY <1>1 DEF BuiltInv
<1> DEFINE size == tensors[i].size
<1>3. PICK v : v = Value(i, writes + 1)
  OBVIOUS
<1>4. v \in AllValues
  BY <1>1, <1>3, NodeFacts DEF GraphsInv, RunInv, Value, AllValues
<1>5. /\ mem' = Store(i, Cells(v, size)) /\ value' = [value EXCEPT ![i] = v]
      /\ writes' = writes + 1 /\ ~ returned' /\ returned' \in BOOLEAN
      /\ UNCHANGED <<tensors, nodes, hasExplicit, explicit, built, topo, device, step, runs>>
  BY <1>3 DEF CopyFromHost, compilerVars
<1>6. tensors[i].data \in Nat \ {0} /\ size \in Nat /\ size > 0 /\ tensors[i].data + size - 1 <= Len(mem)
  BY <1>1, <1>2, Addresses DEF NULL
<1>7. Cells(v, size) \in Seq(AllCells) /\ Len(Cells(v, size)) = size
  BY <1>4, <1>6, CellsFacts
<1>8. mem' \in Seq(AllCells) /\ Len(mem') = Len(mem)
  BY <1>1, <1>5, <1>6, <1>7, StoreFacts
<1>9. /\ GraphsInv' /\ ScheduleIsComplete' /\ device' \in Devices
      /\ \A l : Laid(l) => Laid(l)'
      /\ \E l : Laid(l)'
      /\ Populated' = Populated /\ Tensors' = Tensors /\ Nodes' = Nodes
      /\ \A j : IsInput(j)' <=> IsInput(j)
  BY <1>1, <1>5, <1>8, RunKeeps
<1>10. ValueOK'
  BY <1>1, <1>4, <1>5, <1>9 DEF BuiltInv, ValueOK
<1>11. ASSUME NEW j \in Populated, IsInput(j)
       PROVE  Holds(mem', tensors[j].data, tensors[j].size, value'[j])
  <2>1. /\ tensors[j].data \in Nat \ {0} /\ tensors[j].size \in Nat
        /\ tensors[j].data + tensors[j].size - 1 <= Len(mem) /\ j \in Tensors
    BY <1>1, <1>2, Addresses DEF Populated, NULL
  <2>2. CASE j = i
    <3>1. value'[i] = v
      BY <1>1, <1>5 DEF BuiltInv, ValueOK
    <3>2. Holds(Store(i, Cells(v, size)), tensors[i].data, size, v)
      BY <1>1, <1>4, <1>6, StoreHolds
    <3> QED
      BY <1>5, <2>2, <3>1, <3>2
  <2>3. CASE j # i
    <3>1. value'[j] = value[j]
      BY <1>1, <1>5, <2>1, <2>3 DEF BuiltInv, ValueOK
    <3>2. Holds(mem, tensors[j].data, tensors[j].size, value[j])
      BY <1>1, <1>11 DEF BuiltInv, InputsHold
    <3>3. Clear(tensors[j].data, tensors[j].size, tensors[i].data, size)
      BY <1>1, <1>2, <1>11, <2>3, InputsAreApart DEF RunInv
    <3> DEFINE cells == Cells(v, size)
    <3> HIDE DEF cells, size
    <3>4. Holds(Store(i, cells), tensors[j].data, tensors[j].size, value[j])
      BY <1>1, <1>6, <1>7, <2>1, <3>2, <3>3, StoreKeeps DEF cells
    <3> QED
      BY <1>5, <3>1, <3>4 DEF cells, size
  <2> QED
    BY <2>2, <2>3
<1>12. InputsHold'
  BY <1>5, <1>9, <1>11 DEF InputsHold
<1>13. RunInv'
  BY <1>1, <1>5, <1>9 DEF RunInv
<1>14. BuiltInv' /\ built'
  BY <1>1, <1>5, <1>9, <1>10, <1>12 DEF BuiltInv
<1> QED
  BY <1>9, <1>13, <1>14 DEF IInv

\* Binding an input to memory of the caller keeps the invariant.
LEMMA BindKeeps ==
    ASSUME IInv, NEW i \in Tensors, IsInput(i), BindInput(i)
    PROVE  IInv' /\ (\A lay : Laid(lay) => Laid(lay)')
<1> DEFINE size == tensors[i].size
           old == Len(mem)
<1>1. /\ GraphsInv /\ GraphInv /\ ShapesOK /\ RunInv /\ BuiltInv /\ built /\ step = 0 /\ mem \in Seq(AllCells)
      /\ old \in Nat /\ size > 0
  BY DEF IInv, BindInput, GraphsInv, MemoryOK
<1>2. PICK some : Laid(some)
  BY <1>1 DEF BuiltInv
<1>3. PICK v : v = Value(i, writes + 1)
  OBVIOUS
<1>4. v \in AllValues /\ size \in Nat
  BY <1>1, <1>3, NodeFacts DEF RunInv, Value, AllValues
<1>5. /\ mem' = mem \o Cells(v, size) /\ value' = [value EXCEPT ![i] = v]
      /\ tensors' = [tensors EXCEPT ![i].data = old + 1]
      /\ writes' = writes + 1 /\ ~ returned' /\ returned' \in BOOLEAN
      /\ UNCHANGED <<nodes, hasExplicit, explicit, built, topo, device, step, runs>>
  BY <1>3 DEF BindInput, compilerVars
<1>6. /\ mem' \in Seq(AllCells) /\ Len(mem') = old + size
      /\ \A a \in 1 .. old : mem'[a] = mem[a]
      /\ Holds(mem', old + 1, size, v)
  <2> DEFINE cells == Cells(v, size)
  <2>1. cells \in Seq(AllCells) /\ Len(cells) = size /\ \A k \in 1 .. size : cells[k] = Cell(v, k)
    BY <1>4, CellsFacts
  <2> HIDE DEF cells
  <2>2. /\ mem \o cells \in Seq(AllCells) /\ Len(mem \o cells) = old + size
        /\ \A a \in 1 .. old + size : (mem \o cells)[a] = IF a <= old THEN mem[a] ELSE cells[a - old]
    BY <1>1, <2>1, ConcatProperties
  <2>3. mem' = mem \o cells
    BY <1>5 DEF cells
  <2> HIDE DEF old, size
  <2>4. \A a \in 1 .. old : a \in 1 .. old + size /\ a <= old
    BY <1>1, <1>4
  <2>5. \A k \in 1 .. size : /\ old + 1 + k - 1 \in 1 .. old + size /\ ~ (old + 1 + k - 1 <= old)
                             /\ (old + 1 + k - 1) - old = k
    BY <1>1, <1>4
  <2>6. \A k \in 1 .. size : mem'[old + 1 + k - 1] = Cell(v, k)
    BY <2>1, <2>2, <2>3, <2>5
  <2> QED
    BY <2>2, <2>3, <2>4, <2>6 DEF Holds
<1>7. /\ \A j \in Tensors : /\ tensors'[j] \in TensorRecords
                            /\ tensors'[j].size = tensors[j].size /\ tensors'[j].strides = tensors[j].strides
                            /\ j # i => tensors'[j].data = tensors[j].data
      /\ tensors'[i].data = old + 1
      /\ tensors' \in [Tensors -> TensorRecords]
  <2>1. tensors \in Seq(TensorRecords) /\ Tensors = 1 .. Len(tensors)
    BY <1>1, NodeFacts DEF GraphInv, TensorRecords
  <2>2. \A j \in Tensors : tensors[j] \in TensorRecords
    BY <2>1, ElementOfSeq
  <2>3. tensors' = [j \in Tensors |-> IF j = i THEN [tensors[j] EXCEPT !.data = old + 1] ELSE tensors[j]]
    BY <1>5, <2>1 DEF Tensors
  <2>4. [tensors[i] EXCEPT !.data = old + 1] \in TensorRecords
    BY <1>1, <2>2 DEF TensorRecords
  <2>5. \A j \in Tensors : tensors'[j] \in TensorRecords
    BY <2>2, <2>3, <2>4
  <2>6. tensors' \in [Tensors -> TensorRecords]
    BY <2>3, <2>5
  <2>7. \A j \in Tensors : j # i => tensors'[j] = tensors[j]
    BY <2>3
  <2>8. /\ tensors'[i].size = tensors[i].size /\ tensors'[i].strides = tensors[i].strides
        /\ tensors'[i].data = old + 1
    BY <2>2, <2>3 DEF TensorRecords
  <2> QED
    BY <2>5, <2>6, <2>7, <2>8
<1>8. GraphInv' /\ ShapesOK' /\ Tensors' = Tensors /\ Nodes' = Nodes
  BY <1>1, <1>5, <1>7, SameShapes
<1>9. /\ Populated' = Populated \cup {i} /\ Populated \subseteq Tensors
      /\ \A j : IsInput(j)' <=> IsInput(j)
  BY <1>1, <1>5, <1>7, <1>8 DEF Populated, IsInput, NULL
<1>10. \A j \in Populated : /\ tensors[j].data \in Nat \ {0} /\ tensors[j].size \in Nat /\ tensors[j].size > 0
                            /\ tensors[j].data + tensors[j].size - 1 <= old
  BY <1>1, <1>2, <1>9, Addresses DEF Populated, NULL
<1> HIDE DEF old
<1>11. MemoryOK'
  <2>1. ASSUME NEW j \in Populated' PROVE 0 < tensors'[j].size /\ tensors'[j].data + tensors'[j].size - 1 <= old + size
    <3>1. CASE j = i
      BY <1>1, <1>4, <1>7, <3>1
    <3>2. CASE j # i
      <4>1. j \in Populated /\ j \in Tensors
        BY <1>9, <3>2
      <4>2. tensors'[j].size = tensors[j].size /\ tensors'[j].data = tensors[j].data
        BY <1>7, <3>2, <4>1
      <4> QED
        BY <1>1, <1>4, <1>10, <4>1, <4>2, SMTT(30)
    <3> QED
      BY <3>1, <3>2
  <2> QED
    BY <1>6, <2>1 DEF MemoryOK
<1>12. ScheduleIsComplete' /\ device' \in Devices
  <2>1. Outputs' = Outputs
    BY <1>5, <1>8, <1>9 DEF Outputs, Uses
  <2> QED
    BY <1>1, <1>5, <1>8, <1>9, <2>1 DEF BuiltInv, ScheduleIsComplete
<1>13. ASSUME NEW lay, Laid(lay) PROVE Laid(lay)'
  <2>1. PICK order, dev : order = topo /\ dev = device
    OBVIOUS
  <2>2. LaidOut(lay, order, dev)
    BY <1>13, <2>1 DEF Laid
  <2>3. LaidOut(lay, order, dev)'
    BY <1>5, <2>2, LayoutStays
  <2>4. LaidOut(lay, topo, device)'
    BY <1>5, <2>1, <2>3
  <2>5. lay.top \in Nat /\ lay.top <= old
    BY <1>1, <1>13, Addresses DEF Laid, Fits, old
  <2>6. Fits(lay)'
    BY <1>1, <1>4, <1>6, <1>7, <1>8, <1>13, <2>5 DEF Laid, Fits
  <2>7. \A j \in Tensors : \/ tensors'[j].data = lay.home[j]
                           \/ IsInput(j) /\ lay.top < tensors'[j].data
    <3>1. lay.top < tensors'[i].data
      BY <1>1, <1>7, <2>5
    <3> QED
      BY <1>7, <1>13, <3>1 DEF Laid, DataOK
  <2>8. ASSUME NEW j \in Tensors, NEW k \in Tensors, j # k, lay.top < tensors'[j].data, lay.top < tensors'[k].data
        PROVE  Clear(tensors'[j].data, tensors'[j].size, tensors'[k].data, tensors'[k].size)
    <3>1. ASSUME NEW l \in Tensors, l # i, lay.top < tensors'[l].data
          PROVE  /\ tensors'[l].data = tensors[l].data /\ tensors'[l].size = tensors[l].size
                 /\ tensors[l].data + tensors[l].size <= old + 1
      <4>1. tensors'[l].data = tensors[l].data /\ tensors'[l].size = tensors[l].size
        BY <1>7, <3>1
      <4>2. tensors[l].data # 0 /\ tensors[l].data \in Nat
        BY <1>1, <1>13, <2>5, <3>1, <4>1, Addresses
      <4>3. l \in Populated
        BY <3>1, <4>2 DEF Populated, NULL
      <4> QED
        BY <1>1, <1>10, <4>1, <4>3
    <3>2. CASE j # i /\ k # i
      BY <1>13, <2>8, <3>1, <3>2 DEF Laid, DataOK
    <3>3. CASE j = i
      BY <1>7, <2>8, <3>1, <3>3 DEF Clear
    <3>4. CASE k = i
      BY <1>7, <2>8, <3>1, <3>4 DEF Clear
    <3> QED
      BY <3>2, <3>3, <3>4
  <2>9. DataOK(lay)'
    BY <1>8, <1>9, <2>7, <2>8 DEF DataOK
  <2> QED
    BY <2>4, <2>6, <2>9 DEF Laid
<1>14. ValueOK'
  BY <1>1, <1>4, <1>5, <1>8 DEF BuiltInv, ValueOK
<1>15. ASSUME NEW j \in Populated', IsInput(j)
       PROVE  Holds(mem', tensors'[j].data, tensors'[j].size, value'[j])
  <2>1. CASE j = i
    <3>1. value'[i] = v
      BY <1>1, <1>5 DEF BuiltInv, ValueOK
    <3> QED
      BY <1>6, <1>7, <2>1, <3>1
  <2>2. CASE j # i
    <3>1. j \in Populated /\ j \in Tensors
      BY <1>9, <2>2
    <3>2. tensors'[j].size = tensors[j].size /\ tensors'[j].data = tensors[j].data /\ value'[j] = value[j]
      BY <1>1, <1>5, <1>7, <2>2, <3>1 DEF BuiltInv, ValueOK
    <3>3. Holds(mem, tensors[j].data, tensors[j].size, value[j])
      BY <1>1, <1>15, <3>1 DEF BuiltInv, InputsHold
    <3> DEFINE d == tensors[j].data
               n == tensors[j].size
    <3>4. d \in Nat \ {0} /\ n \in Nat /\ d + n - 1 <= old
      BY <1>10, <3>1
    <3> HIDE DEF d, n
    <3>5. \A x \in Nat : d <= x /\ x < d + n => x \in 1 .. old
      BY <1>1, <3>4
    <3>6. Holds(mem', d, n, value[j])
      BY <1>6, <3>3, <3>4, <3>5, HoldsKept DEF d, n
    <3> QED
      BY <3>2, <3>6 DEF d, n
  <2> QED
    BY <2>1, <2>2
<1>16. InputsHold'
  BY <1>9, <1>15 DEF InputsHold
<1>17. RunInv'
  BY <1>1, <1>5, <1>8 DEF RunInv
<1>18. BuiltInv' /\ built'
  BY <1>1, <1>2, <1>5, <1>12, <1>13, <1>14, <1>16 DEF BuiltInv
<1> QED
  BY <1>8, <1>11, <1>13, <1>17, <1>18 DEF IInv, GraphsInv

\* So does starting an execution, its return, and an exception out of it.
LEMMA ScheduleKeeps ==
    ASSUME IInv, Execute \/ ExecuteReturns \/ ExecuteThrows
    PROVE  IInv' /\ (\A lay : Laid(lay) => Laid(lay)')
<1>1. GraphsInv /\ RunInv /\ mem \in Seq(AllCells)
  BY DEF IInv, GraphsInv, MemoryOK
<1>2. /\ built /\ BuiltInv
      /\ UNCHANGED <<tensors, nodes, hasExplicit, explicit, built, mem, topo, device, writes, value>>
      /\ runs' \in Nat /\ step' \in 0 .. Len(topo) + 1 /\ (step' # 0 => ~ returned') /\ returned' \in BOOLEAN
  <2>1. topo \in Seq(Nodes) /\ Len(topo) \in Nat /\ runs \in Nat
    BY <1>1 DEF RunInv
  <2>2. CASE Execute
    <3>1. /\ built /\ UNCHANGED <<tensors, nodes, hasExplicit, explicit, built, mem, topo, device, writes, value>>
          /\ runs' = runs + 1 /\ step' = 1 /\ ~ returned' /\ returned' \in BOOLEAN
      BY <2>2 DEF Execute, graphVars, compilerVars
    <3> QED
      BY <2>1, <3>1 DEF IInv
  <2>3. CASE ExecuteReturns
    <3>1. /\ step # 0 /\ UNCHANGED <<tensors, nodes, hasExplicit, explicit, built, mem, topo, device, writes, value>>
          /\ runs' = runs /\ step' = 0 /\ returned' \in BOOLEAN
      BY <2>1, <2>3 DEF ExecuteReturns, graphVars, compilerVars
    <3> QED
      BY <1>1, <2>1, <3>1 DEF RunInv, IInv
  <2>4. CASE ExecuteThrows
    <3>1. /\ step # 0 /\ UNCHANGED <<tensors, nodes, hasExplicit, explicit, built, mem, topo, device, writes, value>>
          /\ runs' = runs /\ step' = 0 /\ returned' = returned
      BY <2>1, <2>4 DEF ExecuteThrows, graphVars, compilerVars
    <3> QED
      BY <1>1, <2>1, <3>1 DEF RunInv, IInv
  <2> QED
    BY <2>2, <2>3, <2>4
<1>3. /\ GraphsInv' /\ ScheduleIsComplete' /\ device' \in Devices
      /\ \A lay : Laid(lay) => Laid(lay)'
      /\ \E lay : Laid(lay)'
      /\ Populated' = Populated /\ Tensors' = Tensors /\ Nodes' = Nodes
      /\ \A j : IsInput(j)' <=> IsInput(j)
  BY <1>1, <1>2, RunKeeps
<1>4. ValueOK' /\ InputsHold'
  BY <1>2, <1>3 DEF BuiltInv, ValueOK, InputsHold, Holds
<1>5. RunInv'
  BY <1>1, <1>2, <1>3 DEF RunInv
<1>6. BuiltInv' /\ built'
  BY <1>2, <1>3, <1>4 DEF BuiltInv
<1> QED
  BY <1>3, <1>5, <1>6 DEF IInv

\* What every step of execute finds.
LEMMA AtKernel ==
    ASSUME IInv, step \in DOMAIN topo
    PROVE  /\ GraphsInv /\ GraphInv /\ ShapesOK /\ RunInv /\ BuiltInv /\ built /\ mem \in Seq(AllCells)
           /\ step \in 1 .. Len(topo) /\ Len(topo) \in Nat /\ topo \in Seq(Nodes)
           /\ topo[step] \in Nodes /\ topo[step] \in Range(topo)
           /\ nodes[topo[step]].out \in Tensors /\ ~ IsInput(nodes[topo[step]].out)
<1>1. GraphsInv /\ GraphInv /\ ShapesOK /\ RunInv /\ mem \in Seq(AllCells)
  BY DEF IInv, GraphsInv, MemoryOK
<1>2. topo \in Seq(Nodes) /\ Len(topo) \in Nat /\ step \in 1 .. Len(topo)
  BY <1>1 DEF RunInv
<1>3. topo[step] \in Nodes /\ topo[step] \in Range(topo)
  BY <1>2, ElementOfSeq DEF Range
<1>4. built /\ BuiltInv
  BY <1>1, <1>2 DEF RunInv, IInv
<1>5. nodes[topo[step]].out \in Tensors /\ ~ IsInput(nodes[topo[step]].out)
  BY <1>1, <1>3, NodeFacts DEF IsInput
<1> QED
  BY <1>1, <1>2, <1>3, <1>4, <1>5

\* So does the kernel of one node.
LEMMA KernelKeeps ==
    ASSUME IInv, RunKernel
    PROVE  IInv' /\ (\A lay : Laid(lay) => Laid(lay)')
<1>1. PICK n : n = topo[step]
  OBVIOUS
<1>2. PICK out : out = nodes[n].out
  OBVIOUS
<1>3. PICK v : v = ShouldCompute(n)
  OBVIOUS
<1>4. /\ GraphsInv /\ GraphInv /\ ShapesOK /\ RunInv /\ BuiltInv /\ built /\ mem \in Seq(AllCells)
      /\ step \in 1 .. Len(topo) /\ Len(topo) \in Nat /\ topo \in Seq(Nodes)
      /\ n \in Nodes /\ n \in Range(topo) /\ out \in Tensors /\ ~ IsInput(out)
  BY <1>1, <1>2, AtKernel DEF RunKernel
<1>5. /\ mem' = Kernel(n) /\ value' = [value EXCEPT ![out] = v] /\ step' = step + 1
      /\ UNCHANGED <<tensors, nodes, hasExplicit, explicit, built, topo, device, runs, writes, returned>>
  BY <1>1, <1>2, <1>3 DEF RunKernel, compilerVars
<1>6. PICK lay : Laid(lay)
  BY <1>4 DEF BuiltInv
<1>7. /\ v \in AllValues
      /\ SharesBytes(n) => Kernel(n) = mem
      /\ ~ SharesBytes(n) => \E bytes \in Seq(AllCells) :
            Len(bytes) = tensors[out].size /\ Kernel(n) = Store(out, bytes)
  <2>1. ValueOK /\ runs \in Nat
    BY <1>4 DEF BuiltInv, RunInv
  <2> QED
    BY <1>2, <1>3, <1>4, <2>1, KernelFacts
<1>8. tensors[out].data \in Nat /\ tensors[out].size \in Nat
  BY <1>4, <1>6, Addresses
<1>9. mem' \in Seq(AllCells) /\ Len(mem') = Len(mem)
  BY <1>4, <1>5, <1>7, <1>8, StoreFacts
<1>10. /\ GraphsInv' /\ ScheduleIsComplete' /\ device' \in Devices
       /\ \A l : Laid(l) => Laid(l)'
       /\ \E l : Laid(l)'
       /\ Populated' = Populated /\ Tensors' = Tensors /\ Nodes' = Nodes
       /\ \A j : IsInput(j)' <=> IsInput(j)
  BY <1>4, <1>5, <1>9, RunKeeps
<1>11. ValueOK'
  BY <1>4, <1>5, <1>7, <1>10 DEF BuiltInv, ValueOK
<1>12. ASSUME NEW j \in Populated, IsInput(j)
       PROVE  Holds(mem', tensors[j].data, tensors[j].size, value'[j])
  <2>1. /\ tensors[j].data \in Nat \ {0} /\ tensors[j].size \in Nat
        /\ tensors[j].data + tensors[j].size - 1 <= Len(mem) /\ j \in Tensors
    BY <1>4, <1>6, Addresses DEF Populated, NULL
  <2>2. value'[j] = value[j]
    BY <1>4, <1>5, <1>12, <2>1 DEF BuiltInv, ValueOK
  <2>3. Holds(mem, tensors[j].data, tensors[j].size, value[j])
    BY <1>4, <1>12 DEF BuiltInv, InputsHold
  <2>4. CASE SharesBytes(n)
    BY <1>5, <1>7, <2>2, <2>3, <2>4
  <2>5. CASE ~ SharesBytes(n)
    <3>1. PICK bytes \in Seq(AllCells) : Len(bytes) = tensors[out].size /\ Kernel(n) = Store(out, bytes)
      BY <1>7, <2>5
    <3>2. tensors[out].data = NULL \/ Clear(tensors[j].data, tensors[j].size, tensors[out].data, Len(bytes))
      <4>1. tensors[out].data # NULL => out \in Populated
        BY <1>4 DEF Populated
      <4> QED
        BY <1>2, <1>4, <1>6, <1>12, <2>5, <3>1, <4>1, WritesMissInputs
    <3>3. Holds(Store(out, bytes), tensors[j].data, tensors[j].size, value[j])
      BY <1>4, <1>8, <2>1, <2>3, <3>2, StoreKeeps
    <3> QED
      BY <1>5, <2>2, <3>1, <3>3
  <2> QED
    BY <2>4, <2>5
<1>13. InputsHold'
  BY <1>5, <1>10, <1>12 DEF InputsHold
<1>14. RunInv'
  BY <1>4, <1>5, <1>10 DEF RunInv
<1>15. BuiltInv' /\ built'
  BY <1>4, <1>5, <1>10, <1>11, <1>13 DEF BuiltInv
<1> QED
  BY <1>10, <1>14, <1>15 DEF IInv

\* So does a step that changes nothing.
LEMMA StutterKeeps ==
    ASSUME IInv, UNCHANGED vars
    PROVE  IInv' /\ (\A lay : Laid(lay) => Laid(lay)')
<1>1. /\ UNCHANGED <<tensors, nodes, hasExplicit, explicit, built, mem, topo, device>>
      /\ UNCHANGED <<step, runs, writes, value, returned>>
  BY DEF vars, graphVars, compilerVars, executionVars
<1>2. Populated' = Populated /\ Tensors' = Tensors /\ Nodes' = Nodes /\ \A i : IsInput(i)' <=> IsInput(i)
  BY <1>1 DEF Populated, Tensors, Nodes, IsInput
<1>3. CASE built
  <2>1. mem \in Seq(AllCells)
    BY DEF IInv, GraphsInv, MemoryOK
  <2>2. /\ GraphsInv' /\ ScheduleIsComplete' /\ device' \in Devices
        /\ \A lay : Laid(lay) => Laid(lay)'
        /\ \E lay : Laid(lay)'
    BY <1>1, <1>3, <2>1, RunKeeps
  <2>3. ValueOK' /\ InputsHold'
    BY <1>1, <1>2, <1>3 DEF IInv, BuiltInv, ValueOK, InputsHold, Holds
  <2>4. BuiltInv'
    BY <2>2, <2>3 DEF BuiltInv
  <2>5. RunInv'
    BY <1>1, <1>2 DEF IInv, RunInv
  <2> QED
    BY <1>1, <1>3, <2>2, <2>4, <2>5 DEF IInv
<1>4. CASE ~ built
  <2>1. GraphInv' /\ ShapesOK' /\ MemoryOK'
    BY <1>1, <1>2 DEF IInv, GraphsInv, GraphInv, ShapesOK, MemoryOK
  <2>2. Unbuilt'
    BY <1>1, <1>2, <1>4 DEF IInv, Unbuilt, Holds
  <2>3. RunInv'
    BY <1>1, <1>2 DEF IInv, RunInv
  <2>4. ASSUME NEW lay, Laid(lay) PROVE Laid(lay)'
    <3>1. PICK order, dev : order = topo /\ dev = device
      OBVIOUS
    <3>2. LaidOut(lay, order, dev)'
      BY <1>1, <2>4, <3>1, LayoutStays DEF Laid
    <3>3. LaidOut(lay, topo, device)'
      BY <1>1, <3>1, <3>2
    <3>4. Fits(lay)' /\ DataOK(lay)'
      BY <1>1, <1>2, <2>4 DEF Laid, Fits, DataOK
    <3> QED
      BY <3>3, <3>4 DEF Laid
  <2> QED
    BY <1>1, <1>4, <2>1, <2>2, <2>3, <2>4 DEF IInv, GraphsInv
<1>5. built \in BOOLEAN
  BY DEF IInv, RunInv
<1> QED
  BY <1>3, <1>4, <1>5

-----------------------------------------------------------------------------
(* The invariant is inductive, and what follows from it.                   *)

\* The invariant is inductive.
LEMMA NextKeeps ==
    ASSUME IInv, [Next]_vars
    PROVE  IInv'
<1>1. CASE Construct /\ UNCHANGED <<compilerVars, executionVars>>
  BY <1>1, ConstructKeeps
<1>2. CASE BuildGraph
  <2>1. ASSUME NEW dev \in Devices, Build(dev), value' = [i \in Tensors |-> Value(i, 0)],
               UNCHANGED <<step, runs, writes, binds, returned>>
        PROVE  IInv'
    BY <2>1, BuildKeeps
  <2>2. ASSUME NEW dev \in Devices, BuildFails(dev), UNCHANGED executionVars
        PROVE  IInv'
    BY <2>2, BuildFailsKeeps
  <2> QED
    BY <1>2, <2>1, <2>2 DEF BuildGraph
<1>3. CASE \E i \in Tensors : IsInput(i) /\ (CopyFromHost(i) \/ BindInput(i))
  <2>1. PICK i \in Tensors : IsInput(i) /\ (CopyFromHost(i) \/ BindInput(i))
    BY <1>3
  <2>2. CASE CopyFromHost(i)
    BY <2>1, <2>2, CopyKeeps
  <2>3. CASE BindInput(i)
    BY <2>1, <2>3, BindKeeps
  <2> QED
    BY <2>1, <2>2, <2>3
<1>4. CASE Execute \/ ExecuteReturns \/ ExecuteThrows
  BY <1>4, ScheduleKeeps
<1>5. CASE RunKernel
  BY <1>5, KernelKeeps
<1>6. CASE UNCHANGED vars
  BY <1>6, StutterKeeps
<1> QED
  BY <1>1, <1>2, <1>3, <1>4, <1>5, <1>6 DEF Next

\* The invariant the theorems about the executable rest on.
THEOREM ExecutableInvariant == Spec => []IInv
<1>1. Init => IInv
  BY InitIInv
<1>2. IInv /\ [Next]_vars => IInv'
  BY NextKeeps
<1> QED
  BY <1>1, <1>2, PTL DEF Spec

\* An input with memory reads as what it should hold.
LEMMA InputsRead ==
    ASSUME IInv, built, NEW i \in Populated, IsInput(i), NEW strided,
           ~ (strided /\ tensors[i].strides = "swapped")
    PROVE  Seen(mem, i, strided) = value[i]
<1>1. GraphsInv /\ GraphInv /\ ShapesOK /\ BuiltInv /\ mem \in Seq(AllCells) /\ i \in Tensors
  BY DEF IInv, GraphsInv, MemoryOK, Populated
<1>2. PICK lay : Laid(lay)
  BY <1>1 DEF BuiltInv
<1>3. /\ tensors[i].data \in Nat \ {0} /\ tensors[i].size > 0
      /\ tensors[i].data + tensors[i].size - 1 <= Len(mem)
  BY <1>1, <1>2, Addresses DEF Populated, NULL
<1>4. value[i] \in AllValues /\ Holds(mem, tensors[i].data, tensors[i].size, value[i])
  BY <1>1 DEF BuiltInv, ValueOK, InputsHold
<1> QED
  BY <1>1, <1>3, <1>4, SeenHeld

\* Running, refilling and rebinding never change what an input holds, however
\* often the graph is executed: for every graph, device and layout.
THEOREM InputsSurvive == Spec => []InputsKept
<1>1. ASSUME IInv PROVE InputsKept
  <2>1. ASSUME built, NEW i \in Tensors, IsInput(i), tensors[i].data # NULL
        PROVE  Seen(mem, i, FALSE) = value[i]
    <3>1. i \in Populated
      BY <2>1 DEF Populated
    <3> QED
      BY <1>1, <2>1, <3>1, InputsRead
  <2> QED
    BY <2>1 DEF InputsKept
<1> QED
  BY <1>1, ExecutableInvariant, PTL

\* Whatever was built, the order is one execute can follow: no node twice, every
\* producer before its consumers, and all that the outputs need.
THEOREM ScheduleWorks == Spec => []ScheduleIsComplete
<1>1. ASSUME IInv PROVE ScheduleIsComplete
  <2>1. built => ScheduleIsComplete
    BY <1>1 DEF IInv, BuiltInv
  <2> QED
    BY <2>1 DEF ScheduleIsComplete
<1> QED
  BY <1>1, ExecutableInvariant, PTL

\* A build never leaves an operand without memory or beyond its end, and nothing
\* the caller binds later changes that: execute always starts.
THEOREM OperandsHaveMemory == Spec => []OperandsAllocated
<1>1. ASSUME IInv PROVE OperandsAllocated
  <2>1. SUFFICES ASSUME built, NEW n \in Range(topo), NEW i \in Range(nodes[n].ins) \cup {nodes[n].out},
                        tensors[i].size > 0
                 PROVE  tensors[i].data # NULL /\ tensors[i].data + tensors[i].size - 1 \in DOMAIN mem
    BY DEF OperandsAllocated, Runnable
  <2>2. GraphsInv /\ GraphInv /\ ShapesOK /\ BuiltInv /\ mem \in Seq(AllCells) /\ topo \in Seq(Nodes)
    BY <1>1, <2>1 DEF IInv, GraphsInv, MemoryOK, RunInv
  <2>3. PICK lay : Laid(lay)
    BY <2>2 DEF BuiltInv
  <2>4. i \in Tensors /\ i \in Touched(topo)
    <3>1. n \in Nodes /\ Range(topo) \subseteq Nodes
      BY <2>2, ElementOfSeq DEF Range
    <3>2. i \in Tensors
      BY <2>1, <2>2, <3>1, NodeFacts DEF Range
    <3> QED
      BY <3>2 DEF Touched
  <2>5. lay.size[i] = tensors[i].size /\ lay.home[i] # NULL
    BY <2>1, <2>3, <2>4 DEF Laid, LaidOut, HomesLaid, Fits
  <2>6. /\ tensors[i].data \in Nat /\ tensors[i].size \in Nat /\ lay.home[i] \in Nat /\ lay.top \in Nat
        /\ tensors[i].data # NULL => tensors[i].data + tensors[i].size - 1 <= Len(mem)
    BY <2>2, <2>3, <2>4, Addresses
  <2>7. tensors[i].data # NULL
    <3>1. tensors[i].data = lay.home[i] \/ lay.top < tensors[i].data
      BY <2>3, <2>4 DEF Laid, DataOK
    <3> QED
      BY <2>5, <2>6, <3>1 DEF NULL
  <2>8. DOMAIN mem = 1 .. Len(mem) /\ Len(mem) \in Nat
    BY <2>2
  <2> HIDE DEF NULL
  <2> QED
    BY <2>1, <2>6, <2>7, <2>8 DEF NULL
<1> QED
  BY <1>1, ExecutableInvariant, PTL

\* The variables have their types in every reachable state.
THEOREM TypesAreKept == Spec => []TypeOK
<1>1. ASSUME IInv PROVE TypeOK
  <2>1. GraphsInv /\ GraphInv /\ ShapesOK /\ RunInv /\ mem \in Seq(AllCells) /\ Len(mem) \in Nat
    BY <1>1 DEF IInv, GraphsInv, MemoryOK
  <2>2. tensors \in Seq(TensorRecords) /\ Tensors = 1 .. Len(tensors)
    BY <2>1, NodeFacts DEF GraphInv, TensorRecords
  <2> DEFINE Records == [rank : Ranks, size : Sizes, strides : {"row", "swapped"}, data : 0..Len(mem), offset : Nat,
                         device : Devices \cup {"CPU"}]
  <2>3. ASSUME NEW i \in Tensors PROVE tensors[i] \in Records
    <3>1. tensors[i] \in TensorRecords
      BY <2>2, <2>3, ElementOfSeq
    <3>2. tensors[i].data \in Nat /\ tensors[i].size \in Nat
      BY <2>1, <2>3, <3>1, NodeFacts DEF TensorRecords
    <3>3. tensors[i].data # NULL => 0 < tensors[i].size /\ tensors[i].data + tensors[i].size - 1 <= Len(mem)
      BY <2>1, <2>3 DEF GraphsInv, MemoryOK, Populated
    <3>4. tensors[i].data \in 0 .. Len(mem)
      BY <2>1, <3>2, <3>3 DEF NULL
    <3> QED
      BY <3>1, <3>4 DEF TensorRecords
  <2>4. tensors \in Seq(Records)
    <3> HIDE DEF Records
    <3>1. tensors \in [1 .. Len(tensors) -> Records] /\ Len(tensors) \in Nat
      BY <2>2, <2>3
    <3> QED
      BY <3>1
  <2>5. ASSUME NEW n \in Nodes
        PROVE  nodes[n].op \in Ops /\ nodes[n].ins \in Seq(1 .. nodes[n].out - 1) /\ nodes[n].out \in Tensors
    <3>1. nodes[n].op \in Ops /\ nodes[n].ins \in Seq(Nat)
      BY <2>1 DEF ShapesOK
    <3>2. /\ nodes[n].out \in Tensors
          /\ \A k \in DOMAIN nodes[n].ins : nodes[n].ins[k] \in 1 .. nodes[n].out - 1
      BY <2>1 DEF GraphInv
    <3>3. nodes[n].ins \in Seq(1 .. nodes[n].out - 1)
      <4> DEFINE q == nodes[n].ins
                 S == 1 .. nodes[n].out - 1
      <4>1. q \in [1 .. Len(q) -> Nat] /\ DOMAIN q = 1 .. Len(q) /\ Len(q) \in Nat
        BY <3>1
      <4>2. \A k \in DOMAIN q : q[k] \in S
        BY <3>2
      <4> HIDE DEF q, S
      <4>3. q \in [1 .. Len(q) -> S]
        BY <4>1, <4>2
      <4>4. q \in Seq(S)
        BY <4>1, <4>3
      <4> QED
        BY <4>4 DEF q, S
    <3> QED
      BY <3>1, <3>2, <3>3
  <2>6. hasExplicit \in BOOLEAN /\ explicit \subseteq Tensors
    BY <2>1 DEF GraphInv
  <2>7. built \in BOOLEAN /\ returned \in BOOLEAN
    BY <2>1 DEF RunInv
  <2>8. topo \in Seq(Nodes) /\ step \in 0 .. Len(topo) + 1
    BY <2>1 DEF RunInv
  <2> QED
    BY <2>4, <2>5, <2>6, <2>7, <2>8 DEF TypeOK
<1> QED
  BY <1>1, ExecutableInvariant, PTL

-----------------------------------------------------------------------------
(* What kernels see and what outputs hold.                                 *)

\* A build may leave a transposition to the kernels that read it.
Fusing == "Transpose" \in Ops /\ Devices \cap {"CPU", "CUDA"} # {}

\* No transposed view meets a buffer that is bound later or a build that failed.
Calm == Fusing => MaxBinds = 0 /\ MaxFailures = 0

\* Tensor i was computed before the k-th kernel of this execution.
ComputedBy(k, i) == \E j \in DOMAIN topo : j < k /\ nodes[topo[j]].out = i

\* Where tensor i has its home there is the value of its root, which read along
\* the strides of i is the value of i.
Correct(lay, i) ==
    /\ value[i] = IF lay.strides[i] = "swapped" THEN Swap(value[lay.root[i]]) ELSE value[lay.root[i]]
    /\ Holds(mem, lay.home[i], lay.size[i], value[lay.root[i]])

\* What was computed in this execution is there as long as it is needed.
Computed(lay) ==
    \A i \in Tensors : ComputedBy(step, i) =>
        /\ IsInput(lay.root[i]) \/ ComputedBy(step, lay.root[i])
        /\ i \notin lay.arena \/ step <= lay.death[i] + 1 => Correct(lay, i)

Finished(lay) ==
    returned => \A i \in Tensors \ lay.arena : ComputedBy(Len(topo) + 1, i) => Correct(lay, i)

RowRoots(lay) == \A i \in lay.tensors : lay.root[i] = i => lay.strides[i] = "row"
AtHome(lay) == Fusing => \A i \in Tensors : tensors[i].data = lay.home[i]

Runs(lay) == Laid(lay) /\ RowRoots(lay) /\ AtHome(lay) /\ Computed(lay) /\ Finished(lay)

CalmInv ==
    /\ IInv
    /\ binds \in Nat /\ failures \in Nat
    /\ ~ built => \A i \in Tensors : tensors[i].strides = "row"
    /\ built => \E lay : Runs(lay)

\* A tensor with swapped strides is a view the compiler fused: only a matrix product reads it.
LEMMA SwappedViews ==
    ASSUME GraphsInv, topo \in Seq(Nodes), device \in Devices, NEW lay, Laid(lay), RowRoots(lay),
           NEW i \in Tensors, lay.strides[i] = "swapped"
    PROVE  /\ Fusing /\ lay.root[i] # i /\ hasExplicit /\ i \notin explicit /\ device \in {"CPU", "CUDA"}
           /\ \A m \in Range(topo) : Uses(m, i) =>
                 nodes[m].op = "MatMul" /\ (device = "CUDA" => nodes[m].ins[1] # i)
<1>1. LaidOut(lay, topo, device) /\ lay.tensors = Tensors
  BY DEF Laid, Fits
<1>2. lay.root[i] # i
  BY <1>1 DEF RowRoots
<1>3. ViewOf(lay, topo, device, i)
  BY <1>1, <1>2 DEF LaidOut, RootsLaid
<1>4. PICK n \in Range(topo) :
         /\ nodes[n].op = "Transpose" /\ device \in {"CPU", "CUDA"} /\ hasExplicit /\ i \notin explicit
         /\ \A m \in Range(topo) : Uses(m, i) =>
               nodes[m].op = "MatMul" /\ (device = "CUDA" => nodes[m].ins[1] # i)
  BY <1>3 DEF ViewOf
<1>5. n \in Nodes
  BY ElementOfSeq DEF Range
<1>6. "Transpose" \in Ops
  BY <1>4, <1>5 DEF GraphsInv, ShapesOK
<1> QED
  BY <1>2, <1>4, <1>6 DEF Fusing

\* A tensor is born when its only producer runs.
LEMMA BornNow ==
    ASSUME IInv, step \in DOMAIN topo, NEW out, out = nodes[topo[step]].out
    PROVE  /\ Birth(topo, out) = step - 1
           /\ ~ ComputedBy(step, out)
           /\ \A i \in Tensors : ComputedBy(step, i) => Birth(topo, i) < step - 1 /\ i \in Touched(topo)
           /\ \A i \in Tensors : ComputedBy(step + 1, i) <=> ComputedBy(step, i) \/ i = out
           /\ out \in Touched(topo)
<1>1. /\ GraphsInv /\ GraphInv /\ ShapesOK /\ BuiltInv /\ built
      /\ step \in 1 .. Len(topo) /\ Len(topo) \in Nat /\ topo \in Seq(Nodes)
      /\ topo[step] \in Nodes /\ DOMAIN topo = 1 .. Len(topo)
  BY AtKernel
<1>2. \A j \in DOMAIN topo : topo[j] \in Nodes /\ topo[j] \in Range(topo)
  BY <1>1, ElementOfSeq DEF Range
<1>3. \A j, k \in DOMAIN topo : j # k => topo[j] # topo[k]
  BY <1>1 DEF BuiltInv, ScheduleIsComplete
<1>4. \A j \in DOMAIN topo : nodes[topo[j]].out = out => j = step
  BY <1>1, <1>2, <1>3, OneProducer
<1>5. Writes(topo, out) = {step - 1}
  BY <1>1, <1>4 DEF Writes
<1>6. Birth(topo, out) = step - 1
  <2>1. {step - 1} \in SUBSET Nat /\ {step - 1} # {}
    BY <1>1
  <2>2. Min({step - 1}) \in {step - 1}
    BY <2>1, MinNat
  <2> QED
    BY <1>5, <2>1, <2>2 DEF Birth
<1>7. ~ ComputedBy(step, out)
  BY <1>1, <1>4 DEF ComputedBy
<1>8. ASSUME NEW i \in Tensors, ComputedBy(step, i) PROVE Birth(topo, i) < step - 1 /\ i \in Touched(topo)
  <2>1. PICK j \in DOMAIN topo : j < step /\ nodes[topo[j]].out = i
    BY <1>8 DEF ComputedBy
  <2>2. Birth(topo, i) <= j - 1 /\ Birth(topo, i) \in Nat
    BY <1>1, <2>1, LifeFacts
  <2>3. i \in Touched(topo)
    BY <1>2, <2>1 DEF Touched
  <2> QED
    BY <1>1, <2>1, <2>2, <2>3
<1>9. \A i \in Tensors : ComputedBy(step + 1, i) <=> ComputedBy(step, i) \/ i = out
  <2>1. \A j \in DOMAIN topo : j < step + 1 <=> j < step \/ j = step
    BY <1>1
  <2> QED
    BY <2>1 DEF ComputedBy
<1>10. out \in Touched(topo)
  BY <1>2 DEF Touched
<1> QED
  BY <1>6, <1>7, <1>8, <1>9, <1>10

\* What was computed and is still needed lies apart from what is computed now,
\* unless one views the other.
LEMMA AliveApart ==
    ASSUME IInv, step \in DOMAIN topo, NEW lay, Laid(lay), NEW out, out = nodes[topo[step]].out,
           NEW i \in Tensors, ComputedBy(step, i), i \notin lay.arena \/ step <= lay.death[i] + 1,
           lay.root[i] # lay.root[out], lay.home[i] # NULL, lay.home[out] # NULL
    PROVE  Clear(lay.home[i], lay.size[i], lay.home[out], lay.size[out])
<1>1. step \in 1 .. Len(topo) /\ Len(topo) \in Nat /\ out \in Tensors /\ topo \in Seq(Nodes)
  BY AtKernel
<1>2. LaidOut(lay, topo, device) /\ lay.tensors = Tensors
  BY DEF Laid, Fits
<1>3. Separate(lay, i, out)
  BY <1>1, <1>2 DEF LaidOut, LaidApart
<1>4. Birth(topo, out) = step - 1 /\ Birth(topo, i) < step - 1
  BY BornNow
<1>5. ASSUME i \in lay.arena, out \in lay.arena
      PROVE  ~ (lay.death[i] < lay.birth[out] \/ lay.death[out] < lay.birth[i])
  <2>1. lay.birth[out] <= Birth(topo, out) /\ Birth(topo, out) <= lay.death[out]
    BY <1>2, <1>5 DEF LaidOut, ArenaLaid
  <2>2. lay.birth[i] <= Birth(topo, i) /\ step <= lay.death[i] + 1
    BY <1>2, <1>5 DEF LaidOut, ArenaLaid
  <2>3. /\ lay.birth[i] \in Nat /\ lay.birth[out] \in Nat /\ lay.death[i] \in Nat /\ lay.death[out] \in Nat
        /\ Birth(topo, i) \in Nat
    <3>1. Birth(topo, i) \in 0 .. Len(topo)
      BY <1>1, LifeFacts
    <3>2. LayRecords(lay)
      BY <1>2 DEF LaidOut
    <3>3. lay.birth[i] \in Nat /\ lay.birth[out] \in Nat /\ lay.death[i] \in Nat /\ lay.death[out] \in Nat
      BY <1>1, <1>2, <3>2 DEF LayRecords
    <3> QED
      BY <1>1, <3>1, <3>3
  <2> QED
    BY <1>1, <1>4, <2>1, <2>2, <2>3, SMTT(30)
<1> QED
  BY <1>3, <1>5 DEF Separate

\* What the kernel writes was not computed before, nor is it what another views.
LEMMA RootsComeFirst ==
    ASSUME IInv, step \in DOMAIN topo, NEW lay, Laid(lay), Computed(lay), NEW out, out = nodes[topo[step]].out,
           NEW i \in Tensors, IsInput(i) \/ ComputedBy(step, i)
    PROVE  i # out /\ lay.root[i] # out
<1>1. ~ IsInput(out) /\ GraphsInv /\ topo \in Seq(Nodes)
  BY AtKernel
<1>2. ~ ComputedBy(step, out)
  BY BornNow
<1>3. CASE IsInput(i)
  BY <1>1, <1>3, InputsAreRoots
<1>4. CASE ComputedBy(step, i)
  <2>1. PICK r : r = lay.root[i]
    OBVIOUS
  <2>2. IsInput(r) \/ ComputedBy(step, r)
    BY <1>4, <2>1 DEF Computed
  <2> QED
    BY <1>1, <1>2, <1>4, <2>1, <2>2
<1> QED
  BY <1>3, <1>4

\* The kernel of a view reads the tensor it views, from the same home.
LEMMA KernelOfView ==
    ASSUME IInv, step \in DOMAIN topo, NEW lay, Laid(lay), NEW n, n = topo[step],
           NEW out, out = nodes[n].out, lay.root[out] # out, NEW in, in = nodes[n].ins[1]
    PROVE  /\ in \in Tensors /\ DOMAIN nodes[n].ins = {1}
           /\ lay.strides[in] = "row" /\ lay.root[in] = lay.root[out]
           /\ lay.home[in] = lay.home[out] /\ lay.size[in] = lay.size[out]
           /\ \/ nodes[n].op = "Reshape" /\ lay.strides[out] = "row"
              \/ nodes[n].op = "Transpose" /\ lay.strides[out] = "swapped"
<1>1. /\ GraphsInv /\ GraphInv /\ ShapesOK /\ topo \in Seq(Nodes) /\ n \in Nodes /\ out \in Tensors
  BY AtKernel
<1>2. LaidOut(lay, topo, device) /\ lay.tensors = Tensors
  BY DEF Laid, Fits
<1>3. ViewOf(lay, topo, device, out)
  BY <1>1, <1>2 DEF LaidOut, RootsLaid
<1>4. PICK m \in Range(topo) :
         LET from == nodes[m].ins[1]
         IN  /\ nodes[m].out = out
             /\ lay.strides[from] = "row"
             /\ lay.root[from] = lay.root[out]
             /\ \/ nodes[m].op = "Reshape" /\ lay.strides[out] = "row"
                \/ nodes[m].op = "Transpose" /\ lay.strides[out] = "swapped"
  BY <1>3 DEF ViewOf
<1>5. m \in Nodes
  BY <1>1, ElementOfSeq DEF Range
<1>6. m = n
  BY <1>1, <1>4, <1>5, OneProducer
<1>7. /\ lay.strides[in] = "row" /\ lay.root[in] = lay.root[out]
      /\ \/ nodes[n].op = "Reshape" /\ lay.strides[out] = "row"
         \/ nodes[n].op = "Transpose" /\ lay.strides[out] = "swapped"
  BY <1>4, <1>6
<1>8. in \in Tensors
  BY <1>1, NodeFacts
<1>9. lay.home[in] = lay.home[out] /\ lay.size[in] = lay.size[out]
  <2>1. /\ lay.size[lay.root[in]] = lay.size[in] /\ lay.size[lay.root[out]] = lay.size[out]
        /\ lay.home[lay.root[in]] = lay.home[in] /\ lay.home[lay.root[out]] = lay.home[out]
    BY <1>1, <1>2, <1>8 DEF LaidOut, RootsLaid
  <2> QED
    BY <1>7, <2>1
<1>10. DOMAIN nodes[n].ins = {1}
  <2>1. nodes[n].ins \in Seq(Nat) /\ Len(nodes[n].ins) = 1
    BY <1>1, <1>7 DEF ShapesOK
  <2>2. DOMAIN nodes[n].ins = 1 .. 1
    BY <2>1
  <2> QED
    BY <2>2
<1> QED
  BY <1>7, <1>8, <1>9, <1>10

\* Where an operand of the kernel lies and what it holds there.
LEMMA OperandAt ==
    ASSUME IInv, step \in DOMAIN topo, NEW lay, Runs(lay), NEW n, n = topo[step],
           NEW j \in DOMAIN nodes[n].ins, NEW in, in = nodes[n].ins[j]
    PROVE  /\ in \in Tensors /\ (tensors[in].size > 0 => in \in Populated)
           /\ \/ /\ IsInput(in) /\ lay.strides[in] = "row" /\ lay.root[in] = in
                 /\ in \in Populated => Holds(mem, tensors[in].data, tensors[in].size, value[in])
              \/ /\ ComputedBy(step, in) /\ Correct(lay, in) /\ tensors[in].data = lay.home[in]
                 /\ in \notin lay.arena \/ step <= lay.death[in] + 1
<1>1. /\ GraphsInv /\ GraphInv /\ ShapesOK /\ RunInv /\ BuiltInv /\ built
      /\ step \in 1 .. Len(topo) /\ Len(topo) \in Nat /\ topo \in Seq(Nodes)
      /\ n \in Nodes /\ n \in Range(topo)
  BY AtKernel
<1>2. Laid(lay) /\ LaidOut(lay, topo, device) /\ lay.tensors = Tensors /\ RowRoots(lay) /\ Computed(lay)
  BY DEF Runs, Laid, Fits
<1>3. in \in Tensors /\ Uses(n, in) /\ in \in Range(nodes[n].ins)
  BY <1>1, NodeFacts DEF Uses, Range
<1>4. in \in Touched(topo)
  BY <1>1, <1>3 DEF Touched
<1>5. tensors[in].size > 0 => lay.home[in] # NULL
  <2>1. lay.size[in] = tensors[in].size
    BY <1>2, <1>3 DEF Laid, Fits
  <2> QED
    BY <1>2, <1>3, <1>4, <2>1 DEF LaidOut, HomesLaid
<1>6. tensors[in].data = lay.home[in] \/ (IsInput(in) /\ lay.top < tensors[in].data)
  BY <1>2, <1>3 DEF Laid, DataOK
<1>7. tensors[in].size > 0 => in \in Populated
  <2>1. lay.top \in Nat /\ tensors[in].data \in Nat
    BY <1>1, <1>2, <1>3, Addresses
  <2> QED
    BY <1>3, <1>5, <1>6, <2>1 DEF Populated, NULL
<1>8. CASE IsInput(in)
  <2>1. lay.root[in] = in
    BY <1>1, <1>2, <1>3, <1>8, InputsAreRoots
  <2>2. lay.strides[in] = "row"
    BY <1>2, <1>3, <2>1 DEF RowRoots
  <2>3. in \in Populated => Holds(mem, tensors[in].data, tensors[in].size, value[in])
    BY <1>1, <1>8 DEF BuiltInv, InputsHold
  <2> QED
    BY <1>3, <1>7, <1>8, <2>1, <2>2, <2>3
<1>9. CASE ~ IsInput(in)
  <2>1. ComputedBy(step, in)
    <3>1. \E k \in 1 .. step - 1 : nodes[topo[k]].out = in
      BY <1>1, <1>3, <1>9 DEF BuiltInv, ScheduleIsComplete
    <3>2. PICK k \in 1 .. step - 1 : nodes[topo[k]].out = in
      BY <3>1
    <3>3. k \in DOMAIN topo /\ k < step
      BY <1>1
    <3> QED
      BY <3>2, <3>3 DEF ComputedBy
  <2>2. in \notin lay.arena \/ step <= lay.death[in] + 1
    <3>1. SUFFICES ASSUME in \in lay.arena PROVE step <= lay.death[in] + 1
      OBVIOUS
    <3>2. Death(topo, in) <= lay.death[in]
      BY <1>2, <3>1 DEF LaidOut, ArenaLaid
    <3>3. step - 1 <= Death(topo, in) /\ Death(topo, in) \in 0 .. Len(topo)
      BY <1>1, <1>3, LifeFacts
    <3>4. lay.death[in] \in Nat
      BY <1>2, <1>3 DEF LaidOut, LayRecords
    <3> QED
      BY <1>1, <3>2, <3>3, <3>4
  <2>3. Correct(lay, in)
    BY <1>2, <1>3, <2>1, <2>2 DEF Computed
  <2> QED
    BY <1>3, <1>6, <1>7, <1>9, <2>1, <2>2, <2>3
<1> QED
  BY <1>8, <1>9

\* The kernel writes on none of its operands, unless it shares their bytes.
LEMMA OperandApart ==
    ASSUME IInv, step \in DOMAIN topo, NEW lay, Runs(lay), NEW n, n = topo[step],
           NEW j \in DOMAIN nodes[n].ins, NEW in, in = nodes[n].ins[j], tensors[in].size > 0,
           NEW out, out = nodes[n].out, tensors[out].data # NULL,
           ~ SharesBytes(n) \/ lay.root[in] # lay.root[out]
    PROVE  Clear(tensors[in].data, tensors[in].size, tensors[out].data, tensors[out].size)
<1>1. /\ GraphsInv /\ topo \in Seq(Nodes) /\ out \in Tensors /\ ~ IsInput(out)
  BY AtKernel
<1>2. Laid(lay) /\ LaidOut(lay, topo, device) /\ lay.tensors = Tensors /\ RowRoots(lay) /\ Computed(lay)
  BY DEF Runs, Laid, Fits
<1>3. /\ in \in Tensors /\ in \in Populated
      /\ \/ IsInput(in)
         \/ /\ ComputedBy(step, in) /\ tensors[in].data = lay.home[in]
            /\ in \notin lay.arena \/ step <= lay.death[in] + 1
  BY OperandAt
<1>4. tensors[out].data = lay.home[out]
  BY <1>1, <1>2 DEF Laid, DataOK
<1>5. /\ lay.size[in] = tensors[in].size /\ lay.size[out] = tensors[out].size /\ tensors[in].data # NULL
  BY <1>1, <1>2, <1>3 DEF Laid, Fits, Populated
<1>6. CASE tensors[in].data # lay.home[in]
  BY <1>1, <1>2, <1>3, <1>4, <1>6, BoundIsApart
<1>7. CASE tensors[in].data = lay.home[in] /\ lay.root[in] # lay.root[out]
  <2>1. lay.home[in] # NULL /\ lay.home[out] # NULL
    BY <1>4, <1>5, <1>7
  <2>2. CASE IsInput(in)
    <3>1. in \notin lay.arena
      BY <1>1, <1>2, <1>3, <2>2, InputsAreRoots
    <3>2. Separate(lay, in, out)
      BY <1>1, <1>2, <1>3, <1>7, <2>1 DEF LaidOut, LaidApart
    <3>3. Clear(lay.home[in], lay.size[in], lay.home[out], lay.size[out])
      BY <3>1, <3>2 DEF Separate
    <3> QED
      BY <1>4, <1>5, <1>7, <3>3
  <2>3. CASE ~ IsInput(in)
    <3>1. Clear(lay.home[in], lay.size[in], lay.home[out], lay.size[out])
      BY <1>1, <1>2, <1>3, <1>7, <2>1, <2>3, AliveApart
    <3> QED
      BY <1>4, <1>5, <1>7, <3>1
  <2> QED
    BY <2>2, <2>3
<1>8. CASE tensors[in].data = lay.home[in] /\ lay.root[in] = lay.root[out]
  <2>1. lay.root[out] # out
    <3>1. lay.root[in] # out
      BY <1>2, <1>3, RootsComeFirst
    <3> QED
      BY <1>8, <3>1
  <2>2. PICK first : first = nodes[n].ins[1]
    OBVIOUS
  <2>3. /\ DOMAIN nodes[n].ins = {1} /\ lay.home[first] = lay.home[out]
        /\ nodes[n].op \in {"Reshape", "Transpose"}
    BY <1>2, <2>1, <2>2, KernelOfView
  <2>4. first = in
    BY <2>2, <2>3
  <2>5. tensors[nodes[n].ins[1]].data = tensors[nodes[n].out].data
    BY <1>4, <1>8, <2>2, <2>3, <2>4
  <2>6. SharesBytes(n)
    BY <2>3, <2>5 DEF SharesBytes
  <2> QED
    BY <1>8, <2>6
<1> QED
  BY <1>6, <1>7, <1>8

\* While the kernel runs its operands hold what they should.
LEMMA OperandKept ==
    ASSUME IInv, step \in DOMAIN topo, NEW lay, Runs(lay), NEW n, n = topo[step],
           NEW j \in DOMAIN nodes[n].ins, NEW in, in = nodes[n].ins[j], tensors[in].size > 0
    PROVE  \E x \in AllValues :
              /\ value[in] = IF lay.strides[in] = "swapped" THEN Swap(x) ELSE x
              /\ Holds(mem, tensors[in].data, tensors[in].size, x)
              /\ Holds(WhileRunning(n), tensors[in].data, tensors[in].size, x)
<1>1. /\ GraphsInv /\ GraphInv /\ ShapesOK /\ BuiltInv /\ topo \in Seq(Nodes) /\ mem \in Seq(AllCells)
      /\ n \in Nodes
  BY AtKernel
<1>2. PICK out : out = nodes[n].out
  OBVIOUS
<1>3. out \in Tensors /\ ~ IsInput(out)
  BY <1>2, AtKernel
<1>4. Laid(lay) /\ lay.tensors = Tensors
  BY DEF Runs, Laid, Fits
<1>5. /\ in \in Tensors /\ in \in Populated
      /\ \/ IsInput(in) /\ lay.strides[in] = "row" /\ Holds(mem, tensors[in].data, tensors[in].size, value[in])
         \/ Correct(lay, in) /\ tensors[in].data = lay.home[in]
  BY OperandAt
<1>6. PICK x \in AllValues :
         /\ value[in] = IF lay.strides[in] = "swapped" THEN Swap(x) ELSE x
         /\ Holds(mem, tensors[in].data, tensors[in].size, x)
  <2>1. CASE lay.strides[in] = "row" /\ Holds(mem, tensors[in].data, tensors[in].size, value[in])
    <3>1. value[in] \in AllValues
      BY <1>1, <1>5 DEF BuiltInv, ValueOK
    <3> QED
      BY <2>1, <3>1
  <2>2. CASE Correct(lay, in) /\ tensors[in].data = lay.home[in]
    <3>1. lay.root[in] \in Tensors /\ lay.size[in] = tensors[in].size
      BY <1>1, <1>4, <1>5, Addresses
    <3>2. value[lay.root[in]] \in AllValues
      BY <1>1, <3>1 DEF BuiltInv, ValueOK
    <3> QED
      BY <2>2, <3>1, <3>2 DEF Correct
  <2> QED
    BY <1>5, <2>1, <2>2
<1>7. Holds(WhileRunning(n), tensors[in].data, tensors[in].size, x)
  <2>1. CASE SharesBytes(n)
    BY <1>6, <2>1 DEF WhileRunning
  <2>2. CASE ~ SharesBytes(n)
    <3> DEFINE bytes == Cells(Junk, tensors[out].size)
    <3>1. WhileRunning(n) = Store(out, bytes)
      BY <1>2, <2>2 DEF WhileRunning
    <3>2. tensors[out].data \in Nat /\ tensors[out].size \in Nat
      BY <1>1, <1>3, <1>4, Addresses
    <3>3. Junk \in AllValues
      BY DEF Junk, Value, AllValues
    <3>4. bytes \in Seq(AllCells) /\ Len(bytes) = tensors[out].size
      BY <3>2, <3>3, CellsFacts
    <3> HIDE DEF bytes
    <3>5. tensors[out].data = NULL \/ Clear(tensors[in].data, tensors[in].size, tensors[out].data, Len(bytes))
      BY <1>2, <2>2, <3>4, OperandApart
    <3>6. /\ tensors[in].data \in Nat \ {0} /\ tensors[in].size \in Nat
          /\ tensors[in].data + tensors[in].size - 1 <= Len(mem)
      BY <1>1, <1>4, <1>5, Addresses DEF Populated, NULL
    <3> QED
      BY <1>1, <1>6, <3>1, <3>2, <3>4, <3>5, <3>6, StoreKeeps
  <2> QED
    BY <2>1, <2>2
<1> QED
  BY <1>6, <1>7

\* A kernel sees in each operand the value it should have.
LEMMA OperandsSeen ==
    ASSUME IInv, step \in DOMAIN topo, NEW lay, Runs(lay), NEW n, n = topo[step]
    PROVE  SeesOperands(n)
<1>1. /\ GraphsInv /\ GraphInv /\ ShapesOK /\ BuiltInv /\ RunInv /\ topo \in Seq(Nodes) /\ mem \in Seq(AllCells)
      /\ n \in Nodes /\ n \in Range(topo)
  BY AtKernel
<1>2. Laid(lay) /\ RowRoots(lay) /\ Fits(lay)
  BY DEF Runs, Laid
<1>3. SUFFICES ASSUME NEW j \in DOMAIN nodes[n].ins, NEW in, in = nodes[n].ins[j]
               PROVE  Operand(n, j) = value[in]
  BY DEF SeesOperands
<1>4. in \in Tensors
  BY <1>1, <1>3, NodeFacts
<1>5. Operand(n, j) = Seen(WhileRunning(n), in, FollowsStrides(nodes[n].op, j))
  BY <1>3 DEF Operand
<1>6. CASE tensors[in].size = 0
  BY <1>5, <1>6 DEF Seen
<1>7. CASE tensors[in].size > 0
  <2>1. PICK x \in AllValues :
           /\ value[in] = IF lay.strides[in] = "swapped" THEN Swap(x) ELSE x
           /\ Holds(WhileRunning(n), tensors[in].data, tensors[in].size, x)
    BY <1>3, <1>7, OperandKept
  <2>2. in \in Populated
    BY <1>3, <1>7, OperandAt
  <2>3. /\ tensors[in].data \in Nat \ {0} /\ tensors[in].data + tensors[in].size - 1 <= Len(mem)
    BY <1>1, <1>2, <1>4, <2>2, Addresses DEF Populated, NULL
  <2>4. WhileRunning(n) \in Seq(AllCells) /\ Len(WhileRunning(n)) = Len(mem)
    <3>1. PICK out : out = nodes[n].out
      OBVIOUS
    <3>2. out \in Tensors /\ tensors[out].data \in Nat
      BY <1>1, <1>2, <3>1, NodeFacts, Addresses
    <3>3. runs \in Nat /\ ValueOK
      BY <1>1 DEF RunInv, BuiltInv
    <3>4. \/ WhileRunning(n) = mem
          \/ \E now \in Seq(AllCells) : WhileRunning(n) = Store(out, now)
      BY <1>1, <3>1, <3>3, KernelFacts
    <3> QED
      BY <1>1, <3>2, <3>4, StoreFacts
  <2>5. PICK strided : strided = FollowsStrides(nodes[n].op, j)
    OBVIOUS
  <2>6. Seen(WhileRunning(n), in, strided) = IF strided /\ tensors[in].strides = "swapped" THEN Swap(x) ELSE x
    BY <1>1, <1>4, <1>7, <2>1, <2>3, <2>4, SeenHeld
  <2>7. tensors[in].strides = lay.strides[in]
    BY <1>2, <1>4 DEF Fits
  <2>8. lay.strides[in] = "swapped" => FollowsStrides(nodes[n].op, j)
    <3>1. SUFFICES ASSUME lay.strides[in] = "swapped" PROVE FollowsStrides(nodes[n].op, j)
      OBVIOUS
    <3>2. Uses(n, in) /\ device \in Devices
      BY <1>1, <1>3 DEF Uses, BuiltInv
    <3>3. /\ device \in {"CPU", "CUDA"} /\ nodes[n].op = "MatMul"
          /\ device = "CUDA" => nodes[n].ins[1] # in
      BY <1>1, <1>2, <1>4, <3>1, <3>2, SwappedViews
    <3>4. nodes[n].ins \in Seq(Nat) /\ Len(nodes[n].ins) = 2
      BY <1>1, <3>3 DEF ShapesOK
    <3>5. j = 1 \/ j = 2
      BY <3>4
    <3> QED
      BY <1>3, <3>3, <3>5 DEF FollowsStrides
  <2> QED
    BY <1>5, <2>1, <2>5, <2>6, <2>7, <2>8
<1>8. tensors[in].size \in Nat
  BY <1>1, <1>4, NodeFacts
<1> QED
  BY <1>6, <1>7, <1>8

\* A kernel leaves what its node should compute.
LEMMA KernelWrites ==
    ASSUME IInv, step \in DOMAIN topo, NEW lay, Runs(lay), NEW n, n = topo[step], ~ SharesBytes(n),
           NEW out, out = nodes[n].out
    PROVE  Kernel(n) = Store(out, Cells(ShouldCompute(n), tensors[out].size))
<1>1. /\ GraphsInv /\ GraphInv /\ ShapesOK /\ BuiltInv /\ RunInv /\ topo \in Seq(Nodes) /\ mem \in Seq(AllCells)
      /\ n \in Nodes /\ n \in Range(topo) /\ out \in Tensors
  BY AtKernel
<1>2. Laid(lay) /\ RowRoots(lay) /\ Fits(lay)
  BY DEF Runs, Laid
<1>3. SeesOperands(n)
  BY OperandsSeen
<1>4. PICK in : in = nodes[n].ins[1]
  OBVIOUS
<1>5. in \in Tensors /\ 1 \in DOMAIN nodes[n].ins /\ tensors[in].size \in Nat /\ tensors[out].size \in Nat
  BY <1>1, <1>4, NodeFacts
<1>6. Operand(n, 1) = value[in]
  BY <1>3, <1>4, <1>5 DEF SeesOperands
<1>7. CASE nodes[n].op = "Reshape"
  <2>1. ShouldCompute(n) = value[in]
    BY <1>4, <1>7 DEF ShouldCompute
  <2>2. Kernel(n) = Store(out, Bytes(WhileRunning(n), in))
    BY <1>4, <1>7 DEF Kernel
  <2>3. tensors[in].size = tensors[out].size
    BY <1>1, <1>4, <1>7 DEF ShapesOK
  <2>4. CASE tensors[in].size = 0
    <3>1. 1 .. tensors[in].size = {}
      BY <2>4
    <3>2. Bytes(WhileRunning(n), in) = Cells(value[in], tensors[in].size)
      BY <3>1 DEF Bytes, Cells
    <3> QED
      BY <2>1, <2>2, <2>3, <3>2
  <2>5. CASE tensors[in].size > 0
    <3>1. PICK x \in AllValues :
             /\ value[in] = IF lay.strides[in] = "swapped" THEN Swap(x) ELSE x
             /\ Holds(WhileRunning(n), tensors[in].data, tensors[in].size, x)
      BY <1>4, <1>5, <2>5, OperandKept
    <3>2. lay.strides[in] # "swapped"
      <4>1. Uses(n, in) /\ device \in Devices
        BY <1>1, <1>4, <1>5 DEF Uses, BuiltInv
      <4> QED
        BY <1>1, <1>2, <1>5, <1>7, <4>1, SwappedViews
    <3>3. in \in Populated
      BY <1>4, <1>5, <2>5, OperandAt
    <3>4. /\ tensors[in].data \in Nat \ {0} /\ tensors[in].data + tensors[in].size - 1 <= Len(mem)
      BY <1>1, <1>2, <1>5, <3>3, Addresses DEF Populated, NULL
    <3>5. WhileRunning(n) \in Seq(AllCells) /\ Len(WhileRunning(n)) = Len(mem)
      <4>1. tensors[out].data \in Nat
        BY <1>1, <1>2, Addresses
      <4>2. runs \in Nat /\ ValueOK
        BY <1>1 DEF RunInv, BuiltInv
      <4>3. \E now \in Seq(AllCells) : WhileRunning(n) = Store(out, now)
        BY <1>1, <4>2, KernelFacts
      <4> QED
        BY <1>1, <4>1, <4>3, StoreFacts
    <3>6. Bytes(WhileRunning(n), in) = Cells(x, tensors[in].size)
      BY <1>1, <1>5, <2>5, <3>1, <3>4, <3>5, SeenHeld
    <3> QED
      BY <2>1, <2>2, <2>3, <3>1, <3>2, <3>6
  <2> QED
    BY <1>5, <2>4, <2>5
<1>8. CASE nodes[n].op = "Transpose"
  <2>1. ShouldCompute(n) = Swap(value[in])
    BY <1>4, <1>8 DEF ShouldCompute
  <2>2. Kernel(n) = Store(out, Cells(Swap(Operand(n, 1)), tensors[out].size))
    BY <1>8 DEF Kernel
  <2> QED
    BY <1>6, <2>1, <2>2
<1>9. CASE nodes[n].op # "Reshape" /\ nodes[n].op # "Transpose"
  <2>1. Kernel(n) = Store(out, Cells(IF SeesOperands(n) THEN ShouldCompute(n) ELSE Junk, tensors[out].size))
    BY <1>9 DEF Kernel
  <2> QED
    BY <1>3, <2>1
<1> QED
  BY <1>7, <1>8, <1>9

\* The kernel of a view has to copy only if the viewed input was bound elsewhere.
LEMMA ViewOfBound ==
    ASSUME IInv, step \in DOMAIN topo, NEW lay, Runs(lay), NEW n, n = topo[step], ~ SharesBytes(n),
           NEW out, out = nodes[n].out, lay.root[out] # out
    PROVE  nodes[n].op = "Reshape" /\ ShouldCompute(n) = value[lay.root[out]]
<1>1. /\ GraphsInv /\ BuiltInv /\ topo \in Seq(Nodes) /\ out \in Tensors /\ ~ IsInput(out)
  BY AtKernel
<1>2. Laid(lay) /\ RowRoots(lay) /\ AtHome(lay)
  BY DEF Runs
<1>3. PICK in : in = nodes[n].ins[1]
  OBVIOUS
<1>4. /\ in \in Tensors /\ lay.root[in] = lay.root[out] /\ lay.home[in] = lay.home[out]
      /\ nodes[n].op = "Reshape" \/ (nodes[n].op = "Transpose" /\ lay.strides[out] = "swapped")
  BY <1>2, <1>3, KernelOfView
<1>5. tensors[out].data = lay.home[out]
  BY <1>1, <1>2 DEF Laid, DataOK
<1>6. tensors[in].data # tensors[out].data
  BY <1>3, <1>4 DEF SharesBytes
<1>7. IsInput(in) /\ tensors[in].data # lay.home[in]
  BY <1>2, <1>4, <1>5, <1>6 DEF Laid, DataOK
<1>8. ~ Fusing
  BY <1>2, <1>4, <1>7 DEF AtHome
<1>9. nodes[n].op = "Reshape"
  <2>1. device \in Devices
    BY <1>1 DEF BuiltInv
  <2> QED
    BY <1>1, <1>2, <1>4, <1>8, <2>1, SwappedViews
<1>10. lay.root[in] = in
  BY <1>1, <1>2, <1>4, <1>7, InputsAreRoots
<1> QED
  BY <1>3, <1>4, <1>9, <1>10 DEF ShouldCompute

\* What a kernel step changes, in the form the next lemmas use.
LEMMA KernelStep ==
    ASSUME IInv, RunKernel, NEW lay, Runs(lay), NEW n, n = topo[step], NEW out, out = nodes[n].out
    PROVE  /\ step \in DOMAIN topo /\ step \in Nat /\ step' = step + 1
           /\ GraphsInv /\ GraphInv /\ ShapesOK /\ BuiltInv /\ built /\ ~ returned /\ topo \in Seq(Nodes)
           /\ UNCHANGED <<tensors, nodes, hasExplicit, explicit, built, topo, device, runs, writes, binds, failures, returned>>
           /\ mem \in Seq(AllCells) /\ n \in Nodes /\ out \in Tensors
           /\ mem' = Kernel(n)
           /\ value' = [value EXCEPT ![out] = ShouldCompute(n)]
           /\ value'[out] = ShouldCompute(n) /\ ShouldCompute(n) \in AllValues
           /\ \A i \in Tensors : i # out => value'[i] = value[i]
           /\ tensors[out].data = lay.home[out] /\ lay.size[out] = tensors[out].size
           /\ lay.size[out] > 0 => lay.home[out] # NULL
<1>1. /\ step \in DOMAIN topo /\ step \in Nat /\ mem' = Kernel(n) /\ step' = step + 1
      /\ value' = [value EXCEPT ![out] = ShouldCompute(n)]
      /\ UNCHANGED <<tensors, nodes, hasExplicit, explicit, built, topo, device, runs, writes, binds, failures, returned>>
  <2>1. step \in DOMAIN topo
    BY DEF RunKernel
  <2>2. step \in Nat
    BY <2>1, AtKernel
  <2> QED
    BY <2>1, <2>2 DEF RunKernel, compilerVars
<1>2. /\ GraphsInv /\ GraphInv /\ ShapesOK /\ RunInv /\ BuiltInv /\ built /\ topo \in Seq(Nodes)
      /\ mem \in Seq(AllCells) /\ n \in Nodes /\ out \in Tensors /\ ~ IsInput(out)
  BY <1>1, AtKernel
<1>3. ~ returned
  BY <1>1, <1>2 DEF RunInv
<1>4. ValueOK /\ runs \in Nat
  BY <1>2 DEF BuiltInv, RunInv
<1>5. ShouldCompute(n) \in AllValues
  BY <1>2, <1>4, KernelFacts
<1>6. value'[out] = ShouldCompute(n) /\ \A i \in Tensors : i # out => value'[i] = value[i]
  BY <1>1, <1>2, <1>4 DEF ValueOK
<1>7. /\ tensors[out].data = lay.home[out] /\ lay.size[out] = tensors[out].size
  BY <1>2 DEF Runs, Laid, Fits, DataOK
<1>8. lay.size[out] > 0 => lay.home[out] # NULL
  <2>1. out \in Touched(topo)
    BY <1>1, BornNow
  <2>2. LaidOut(lay, topo, device) /\ lay.tensors = Tensors
    BY DEF Runs, Laid, Fits
  <2> QED
    BY <1>2, <2>1, <2>2 DEF LaidOut, HomesLaid
<1> QED
  BY <1>1, <1>2, <1>3, <1>5, <1>6, <1>7, <1>8

\* The tensor that was just computed is correct.
LEMMA OutputCorrect ==
    ASSUME IInv, RunKernel, NEW lay, Runs(lay), NEW out, out = nodes[topo[step]].out
    PROVE  /\ Correct(lay, out)'
           /\ IsInput(lay.root[out]) \/ ComputedBy(step, lay.root[out]) \/ lay.root[out] = out
<1>1. PICK n : n = topo[step]
  OBVIOUS
<1>2. /\ step \in DOMAIN topo
      /\ GraphsInv /\ GraphInv /\ ShapesOK /\ BuiltInv /\ topo \in Seq(Nodes)
      /\ mem \in Seq(AllCells) /\ n \in Nodes /\ out \in Tensors
      /\ mem' = Kernel(n) /\ value'[out] = ShouldCompute(n) /\ ShouldCompute(n) \in AllValues
      /\ \A i \in Tensors : i # out => value'[i] = value[i]
      /\ tensors[out].data = lay.home[out] /\ lay.size[out] = tensors[out].size
      /\ lay.size[out] > 0 => lay.home[out] # NULL
  BY <1>1, KernelStep
<1>3. Laid(lay) /\ RowRoots(lay) /\ AtHome(lay) /\ Computed(lay) /\ lay.tensors = Tensors
  BY DEF Runs, Laid, Fits
<1>4. /\ lay.root[out] \in Tensors /\ lay.size[out] \in Nat /\ lay.home[out] \in Nat
      /\ lay.home[out] # NULL => lay.home[out] + lay.size[out] - 1 <= Len(mem)
  BY <1>2, <1>3, Addresses
<1>5. PICK v : v = ShouldCompute(n)
  OBVIOUS
<1>6. ASSUME ~ SharesBytes(n) PROVE Holds(mem', lay.home[out], lay.size[out], v)
  <2>1. mem' = Store(out, Cells(v, lay.size[out]))
    BY <1>1, <1>2, <1>5, <1>6, KernelWrites
  <2>2. CASE lay.size[out] = 0
    BY <2>2 DEF Holds
  <2>3. CASE lay.size[out] > 0
    <3>1. lay.home[out] \in Nat \ {0} /\ tensors[out].data + lay.size[out] - 1 <= Len(mem)
      BY <1>2, <1>4, <2>3 DEF NULL
    <3>2. Holds(Store(out, Cells(v, lay.size[out])), tensors[out].data, lay.size[out], v)
      BY <1>2, <1>4, <1>5, <3>1, StoreHolds
    <3> QED
      BY <1>2, <2>1, <3>2
  <2> QED
    BY <1>4, <2>2, <2>3
<1>7. CASE lay.root[out] = out
  <2>1. lay.strides[out] = "row"
    BY <1>2, <1>3, <1>7 DEF RowRoots
  <2>2. Holds(mem', lay.home[out], lay.size[out], v)
    <3>1. CASE lay.size[out] = 0
      BY <3>1 DEF Holds
    <3>2. CASE lay.size[out] > 0
      <4>1. SUFFICES ASSUME SharesBytes(n) PROVE FALSE
        BY <1>6
      <4>2. PICK in : in = nodes[n].ins[1]
        OBVIOUS
      <4>3. /\ nodes[n].op \in {"Reshape", "Transpose"} /\ tensors[in].data = tensors[out].data
        BY <1>1, <4>1, <4>2 DEF SharesBytes
      <4>4. tensors[in].size = tensors[out].size
        BY <1>1, <1>2, <4>2, <4>3 DEF ShapesOK
      <4>5. 1 \in DOMAIN nodes[n].ins
        BY <1>2, NodeFacts
      <4>6. IsInput(in) \/ ComputedBy(step, in)
        BY <1>1, <1>2, <4>2, <4>5, OperandAt
      <4>7. in \in Tensors
        BY <1>2, <4>2, NodeFacts
      <4>8. lay.root[in] # lay.root[out]
        BY <1>2, <1>3, <1>7, <4>6, <4>7, RootsComeFirst
      <4>9. Clear(tensors[in].data, tensors[in].size, tensors[out].data, tensors[out].size)
        BY <1>1, <1>2, <3>2, <4>2, <4>4, <4>5, <4>8, OperandApart
      <4> QED
        BY <1>2, <1>4, <3>2, <4>3, <4>4, <4>9 DEF Clear
    <3> QED
      BY <1>4, <3>1, <3>2
  <2> QED
    BY <1>2, <1>5, <1>7, <2>1, <2>2 DEF Correct
<1>8. CASE lay.root[out] # out
  <2>1. PICK in : in = nodes[n].ins[1]
    OBVIOUS
  <2>2. /\ in \in Tensors /\ DOMAIN nodes[n].ins = {1}
        /\ lay.strides[in] = "row" /\ lay.root[in] = lay.root[out]
        /\ lay.home[in] = lay.home[out] /\ lay.size[in] = lay.size[out]
        /\ \/ nodes[n].op = "Reshape" /\ lay.strides[out] = "row"
           \/ nodes[n].op = "Transpose" /\ lay.strides[out] = "swapped"
    BY <1>1, <1>2, <1>3, <1>8, <2>1, KernelOfView
  <2>3. /\ \/ /\ IsInput(in) /\ lay.root[in] = in
              /\ in \in Populated => Holds(mem, tensors[in].data, tensors[in].size, value[in])
           \/ ComputedBy(step, in) /\ Correct(lay, in)
        /\ tensors[in].size > 0 => in \in Populated
    BY <1>1, <1>2, <2>1, <2>2, OperandAt
  <2>4. value[in] = value[lay.root[out]]
    BY <2>2, <2>3 DEF Correct
  <2>5. value'[lay.root[out]] = value[lay.root[out]]
    BY <1>2, <1>4, <1>8
  <2>6. value'[out] = IF lay.strides[out] = "swapped" THEN Swap(value'[lay.root[out]]) ELSE value'[lay.root[out]]
    BY <1>2, <2>1, <2>2, <2>4, <2>5 DEF ShouldCompute
  <2>7. Holds(mem', lay.home[out], lay.size[out], value[lay.root[out]])
    <3>1. CASE ~ SharesBytes(n)
      BY <1>1, <1>2, <1>5, <1>6, <1>8, <3>1, ViewOfBound
    <3>2. CASE SharesBytes(n)
      <4>1. mem' = mem /\ tensors[in].data = tensors[out].data
        BY <1>1, <1>2, <2>1, <3>2 DEF Kernel, SharesBytes
      <4>2. CASE lay.size[out] = 0
        BY <4>2 DEF Holds
      <4>3. CASE lay.size[out] > 0
        <5>1. lay.size[in] = tensors[in].size
          BY <1>2, <1>3, <2>2, Addresses
        <5>2. in \in Populated
          BY <2>2, <2>3, <4>3, <5>1
        <5>3. CASE IsInput(in) /\ Holds(mem, tensors[in].data, tensors[in].size, value[in])
          BY <1>2, <2>2, <2>4, <4>1, <5>1, <5>3
        <5>4. CASE Correct(lay, in)
          BY <2>2, <4>1, <5>4 DEF Correct
        <5> QED
          BY <2>3, <5>2, <5>3, <5>4
      <4> QED
        BY <1>4, <4>2, <4>3
    <3> QED
      BY <3>1, <3>2
  <2>8. IsInput(lay.root[out]) \/ ComputedBy(step, lay.root[out])
    <3>1. PICK r : r = lay.root[out]
      OBVIOUS
    <3>2. CASE IsInput(in) /\ lay.root[in] = in
      <4>1. r = in
        BY <2>2, <3>1, <3>2
      <4>2. IsInput(r)
        BY <3>2, <4>1
      <4> QED
        BY <3>1, <4>2
    <3>3. CASE ComputedBy(step, in)
      <4>1. IsInput(lay.root[in]) \/ ComputedBy(step, lay.root[in])
        BY <1>3, <2>2, <3>3 DEF Computed
      <4> QED
        BY <2>2, <4>1
    <3> QED
      BY <2>3, <3>2, <3>3
  <2> QED
    BY <2>5, <2>6, <2>7, <2>8 DEF Correct
<1> QED
  BY <1>7, <1>8

\* What was computed before and is still needed stays correct.
LEMMA EarlierCorrect ==
    ASSUME IInv, RunKernel, NEW lay, Runs(lay), NEW i \in Tensors, ComputedBy(step, i),
           i \notin lay.arena \/ step <= lay.death[i] + 1
    PROVE  Correct(lay, i)'
<1>1. PICK n : n = topo[step]
  OBVIOUS
<1>2. PICK out : out = nodes[n].out
  OBVIOUS
<1>3. /\ step \in DOMAIN topo
      /\ GraphsInv /\ GraphInv /\ ShapesOK /\ BuiltInv /\ topo \in Seq(Nodes)
      /\ mem \in Seq(AllCells) /\ n \in Nodes /\ out \in Tensors
      /\ mem' = Kernel(n) /\ value'[out] = ShouldCompute(n) /\ ShouldCompute(n) \in AllValues
      /\ \A j \in Tensors : j # out => value'[j] = value[j]
      /\ tensors[out].data = lay.home[out] /\ lay.size[out] = tensors[out].size
      /\ lay.size[out] > 0 => lay.home[out] # NULL
  BY <1>1, <1>2, KernelStep
<1>4. Laid(lay) /\ Computed(lay) /\ LaidOut(lay, topo, device) /\ lay.tensors = Tensors
  BY DEF Runs, Laid, Fits
<1>5. Correct(lay, i)
  BY <1>4 DEF Computed
<1>6. /\ lay.root[i] \in Tensors /\ lay.size[i] \in Nat /\ lay.home[i] \in Nat
      /\ lay.home[i] # NULL => lay.home[i] + lay.size[i] - 1 <= Len(mem)
      /\ lay.root[out] \in Tensors /\ lay.size[out] \in Nat /\ lay.home[out] \in Nat
  <2>1. /\ lay.size[i] = tensors[i].size /\ tensors[i].size \in Nat /\ lay.root[i] \in Tensors
        /\ lay.home[i] # NULL => lay.home[i] + tensors[i].size - 1 <= lay.top
        /\ lay.home[i] \in Nat /\ lay.top \in Nat
    BY <1>3, <1>4, Addresses
  <2>2. lay.top <= Len(mem) /\ Len(mem) \in Nat
    BY <1>3, <1>4 DEF Laid, Fits
  <2>3. lay.root[out] \in Tensors /\ lay.size[out] \in Nat /\ lay.home[out] \in Nat
    BY <1>3, <1>4, Addresses
  <2> QED
    BY <2>1, <2>2, <2>3
<1>7. i # out /\ lay.root[i] # out
  BY <1>1, <1>2, <1>3, <1>4, RootsComeFirst
<1>8. value'[i] = value[i] /\ value'[lay.root[i]] = value[lay.root[i]]
  BY <1>3, <1>6, <1>7
<1>9. PICK v : v = value[lay.root[i]]
  OBVIOUS
<1>10. Holds(mem, lay.home[i], lay.size[i], v)
  BY <1>5, <1>9 DEF Correct
<1>11. Holds(mem', lay.home[i], lay.size[i], v)
  <2>1. CASE lay.size[i] = 0
    BY <2>1 DEF Holds
  <2>2. CASE SharesBytes(n)
    BY <1>3, <1>10, <2>2 DEF Kernel
  <2>3. CASE lay.size[i] > 0 /\ ~ SharesBytes(n)
    <3>1. lay.home[i] # NULL /\ lay.home[i] \in Nat \ {0} /\ lay.home[i] + lay.size[i] - 1 <= Len(mem)
      <4>1. i \in Touched(topo)
        BY <1>1, <1>2, <1>3, BornNow
      <4>2. lay.home[i] # NULL
        BY <1>4, <2>3, <4>1 DEF LaidOut, HomesLaid
      <4> QED
        BY <1>6, <4>2 DEF NULL
    <3>2. PICK w : w = ShouldCompute(n)
      OBVIOUS
    <3> DEFINE bytes == Cells(w, lay.size[out])
    <3>3. mem' = Store(out, bytes)
      BY <1>1, <1>2, <1>3, <2>3, <3>2, KernelWrites
    <3>4. bytes \in Seq(AllCells) /\ Len(bytes) = lay.size[out]
      BY <1>3, <1>6, <3>2, CellsFacts
    <3> HIDE DEF bytes
    <3>5. CASE lay.home[out] = NULL \/ lay.root[i] # lay.root[out]
      <4>1. tensors[out].data = NULL \/ Clear(lay.home[i], lay.size[i], tensors[out].data, Len(bytes))
        <5>1. CASE lay.home[out] = NULL
          BY <1>3, <5>1
        <5>2. CASE lay.home[out] # NULL /\ lay.root[i] # lay.root[out]
          <6>1. Clear(lay.home[i], lay.size[i], lay.home[out], lay.size[out])
            BY <1>1, <1>2, <1>3, <1>4, <3>1, <5>2, AliveApart
          <6> QED
            BY <1>3, <3>4, <6>1
        <5> QED
          BY <3>5, <5>1, <5>2
      <4>2. Holds(Store(out, bytes), lay.home[i], lay.size[i], v)
        BY <1>3, <1>6, <1>10, <3>1, <3>4, <4>1, StoreKeeps
      <4> QED
        BY <3>3, <4>2
    <3>6. CASE lay.home[out] # NULL /\ lay.root[i] = lay.root[out]
      <4>1. w = v
        BY <1>1, <1>2, <1>3, <1>7, <1>9, <2>3, <3>2, <3>6, ViewOfBound
      <4>2. lay.home[i] = lay.home[out] /\ lay.size[i] = lay.size[out]
        <5>1. /\ lay.size[lay.root[i]] = lay.size[i] /\ lay.size[lay.root[out]] = lay.size[out]
              /\ lay.home[lay.root[i]] = lay.home[i] /\ lay.home[lay.root[out]] = lay.home[out]
          BY <1>3, <1>4 DEF LaidOut, RootsLaid
        <5> QED
          BY <3>6, <5>1
      <4>3. Holds(Store(out, Cells(w, lay.size[out])), tensors[out].data, lay.size[out], w)
        <5>1. tensors[out].data = lay.home[i] /\ lay.size[out] = lay.size[i]
          BY <1>3, <4>2
        <5>2. tensors[out].data \in Nat \ {0} /\ tensors[out].data + lay.size[out] - 1 <= Len(mem)
          BY <3>1, <5>1
        <5> QED
          BY <1>3, <1>6, <3>2, <5>2, StoreHolds
      <4> QED
        BY <1>3, <3>3, <4>1, <4>2, <4>3 DEF bytes
    <3> QED
      BY <3>5, <3>6
  <2> QED
    BY <1>6, <2>1, <2>2, <2>3
<1> QED
  BY <1>5, <1>8, <1>9, <1>11 DEF Correct

\* The kernel of one node makes its output correct and spoils nothing that is still needed.
LEMMA KernelRuns ==
    ASSUME IInv, RunKernel, NEW lay, Runs(lay), Laid(lay)'
    PROVE  Runs(lay)'
<1>1. PICK n : n = topo[step]
  OBVIOUS
<1>2. PICK out : out = nodes[n].out
  OBVIOUS
<1>3. /\ step \in DOMAIN topo /\ step \in Nat /\ step' = step + 1 /\ ~ returned
      /\ UNCHANGED <<tensors, nodes, topo, returned>>
      /\ out \in Tensors
  BY <1>1, <1>2, KernelStep
<1>4. Laid(lay) /\ RowRoots(lay) /\ AtHome(lay) /\ Computed(lay) /\ lay.tensors = Tensors /\ LaidOut(lay, topo, device)
  BY DEF Runs, Laid, Fits
<1>5. Tensors' = Tensors /\ Nodes' = Nodes /\ \A j : IsInput(j) => IsInput(j)'
  BY <1>3 DEF Tensors, Nodes, IsInput
<1>6. \A i : ComputedBy(step, i)' <=> ComputedBy(step + 1, i)
  BY <1>3 DEF ComputedBy
<1>7. \A i \in Tensors : ComputedBy(step + 1, i) <=> ComputedBy(step, i) \/ i = out
  BY <1>1, <1>2, <1>3, BornNow
<1>8. ASSUME NEW i \in Tensors, ComputedBy(step, i)',
             NEW r, r = lay.root[i]
      PROVE  IsInput(r)' \/ ComputedBy(step, r)'
  <2>1. IsInput(r) \/ ComputedBy(step, r) \/ r = out
    <3>1. CASE i = out
      <4>1. IsInput(lay.root[out]) \/ ComputedBy(step, lay.root[out]) \/ lay.root[out] = out
        BY <1>1, <1>2, OutputCorrect
      <4>2. r = lay.root[out]
        BY <1>8, <3>1
      <4>3. CASE IsInput(lay.root[out])
        <5>1. IsInput(r)
          BY <4>2, <4>3 DEF IsInput
        <5> QED
          BY <5>1
      <4> QED
        BY <4>1, <4>2, <4>3
    <3>2. CASE ComputedBy(step, i)
      <4>1. IsInput(lay.root[i]) \/ ComputedBy(step, lay.root[i])
        BY <1>4, <3>2 DEF Computed
      <4> QED
        BY <1>8, <4>1
    <3> QED
      BY <1>6, <1>7, <1>8, <3>1, <3>2
  <2>2. r \in Tensors
    BY <1>4, <1>8 DEF LaidOut, LayRecords
  <2> QED
    BY <1>5, <1>6, <1>7, <2>1, <2>2
<1>9. ASSUME NEW i \in Tensors, ComputedBy(step, i)', i \notin lay.arena \/ step + 1 <= lay.death[i] + 1
      PROVE  Correct(lay, i)'
  <2>1. CASE i = out
    <3>1. Correct(lay, out)'
      BY <1>1, <1>2, OutputCorrect
    <3> QED
      BY <2>1, <3>1 DEF Correct
  <2>2. CASE ComputedBy(step, i)
    <3>1. i \notin lay.arena \/ step <= lay.death[i] + 1
      <4>1. lay.death[i] \in Nat
        BY <1>4 DEF LaidOut, LayRecords
      <4> QED
        BY <1>3, <1>9, <4>1
    <3> QED
      BY <2>2, <3>1, EarlierCorrect
  <2> QED
    BY <1>6, <1>7, <1>9, <2>1, <2>2
<1>10. Computed(lay)'
  BY <1>3, <1>5, <1>8, <1>9 DEF Computed
<1>11. Finished(lay)'
  BY <1>3 DEF Finished
<1>12. RowRoots(lay)'
  BY <1>4 DEF RowRoots
<1>13. AtHome(lay)'
  BY <1>3, <1>4, <1>5 DEF AtHome
<1> QED
  BY <1>10, <1>11, <1>12, <1>13 DEF Runs

\* Before the first kernel nothing was computed yet.
LEMMA StartRuns ==
    ASSUME NEW lay, Laid(lay)', RowRoots(lay), AtHome(lay)', topo' \in Seq(Nodes'), step' \in {0, 1}, ~ returned'
    PROVE  Runs(lay)'
<1>1. \A i : ~ ComputedBy(step, i)'
  <2>1. \A j \in DOMAIN topo' : ~ (j < step')
    OBVIOUS
  <2> QED
    BY <2>1 DEF ComputedBy
<1>2. Computed(lay)'
  BY <1>1 DEF Computed
<1>3. Finished(lay)'
  BY DEF Finished
<1>4. RowRoots(lay)'
  BY DEF RowRoots
<1> QED
  BY <1>2, <1>3, <1>4 DEF Runs

\* When execute returns, all it computed outside the arena is correct.
LEMMA ReturnRuns ==
    ASSUME IInv, ExecuteReturns, NEW lay, Runs(lay), Laid(lay)'
    PROVE  Runs(lay)'
<1>1. /\ step = Len(topo) + 1 /\ step' = 0
      /\ UNCHANGED <<tensors, nodes, mem, topo, value>>
  BY DEF ExecuteReturns, graphVars, compilerVars
<1>2. RowRoots(lay) /\ AtHome(lay) /\ Computed(lay) /\ topo \in Seq(Nodes)
  BY DEF Runs, IInv, RunInv
<1>3. \A i : ~ ComputedBy(step, i)'
  <2>1. \A j \in DOMAIN topo' : ~ (j < step')
    BY <1>1, <1>2
  <2> QED
    BY <2>1 DEF ComputedBy
<1>4. Computed(lay)'
  BY <1>3 DEF Computed
<1>5. Tensors' = Tensors
  BY <1>1 DEF Tensors
<1>6. ASSUME NEW i \in Tensors \ lay.arena, ComputedBy(Len(topo) + 1, i)'
      PROVE  Correct(lay, i)'
  <2>1. ComputedBy(step, i)
    BY <1>1, <1>6 DEF ComputedBy
  <2>2. Correct(lay, i)
    BY <1>2, <1>6, <2>1 DEF Computed
  <2> QED
    BY <1>1, <2>2 DEF Correct, Holds
<1>7. Finished(lay)'
  BY <1>5, <1>6 DEF Finished
<1>8. RowRoots(lay)' /\ AtHome(lay)'
  BY <1>1, <1>2, <1>5 DEF RowRoots, AtHome
<1> QED
  BY <1>4, <1>7, <1>8 DEF Runs

\* A step that changes nothing leaves the run as it was.
LEMMA StutterRuns ==
    ASSUME UNCHANGED vars, NEW lay, Runs(lay), Laid(lay)'
    PROVE  Runs(lay)'
<1>1. UNCHANGED <<tensors, nodes, mem, topo, value, step, returned>>
  BY DEF vars, graphVars, compilerVars, executionVars
<1>2. Tensors' = Tensors /\ Nodes' = Nodes
  BY <1>1 DEF Tensors, Nodes
<1>3. /\ \A i : ComputedBy(step, i)' <=> ComputedBy(step, i)
      /\ \A i : ComputedBy(Len(topo) + 1, i)' <=> ComputedBy(Len(topo) + 1, i)
  BY <1>1 DEF ComputedBy
<1>4. \A i : (IsInput(i) => IsInput(i)') /\ (Correct(lay, i) => Correct(lay, i)')
  BY <1>1, <1>2 DEF IsInput, Correct, Holds
<1>5. ASSUME NEW i \in Tensors, ComputedBy(step, i)', NEW r, r = lay.root[i]
      PROVE  IsInput(r)' \/ ComputedBy(step, r)'
  <2>1. IsInput(lay.root[i]) \/ ComputedBy(step, lay.root[i])
    BY <1>3, <1>5 DEF Runs, Computed
  <2>2. IsInput(r) \/ ComputedBy(step, r)
    BY <1>5, <2>1
  <2> QED
    BY <1>3, <1>4, <2>2
<1>6. Computed(lay)'
  BY <1>1, <1>2, <1>3, <1>4, <1>5 DEF Runs, Computed
<1>7. Finished(lay)'
  BY <1>1, <1>2, <1>3, <1>4 DEF Runs, Finished
<1>8. RowRoots(lay)' /\ AtHome(lay)'
  BY <1>1, <1>2 DEF Runs, RowRoots, AtHome
<1> QED
  BY <1>6, <1>7, <1>8 DEF Runs

\* After a build nothing has been computed yet, and every layout with row strides will do.
LEMMA BuildRuns ==
    ASSUME IInv, NEW dev \in Devices, Build(dev), value' = [i \in Tensors |-> Value(i, 0)],
           UNCHANGED <<step, runs, writes, binds, returned>>, \A i \in Tensors : tensors[i].strides = "row"
    PROVE  \E lay : Runs(lay)'
<1>1. GraphInv /\ ShapesOK /\ RunInv /\ ~ built /\ Compilable
  BY DEF IInv, GraphsInv, Build, Compilable
<1>2. PICK lay : lay = PlanLay(dev)
  OBVIOUS
<1>3. Laid(lay)'
  BY <1>2, BuildKeeps
<1>4. /\ tensors' = PlanStaged(dev) /\ topo' = TopologicalOrder /\ UNCHANGED <<nodes>>
  <2>1. Layout(Plan(dev)) = PlanLayout(dev) /\ Plan(dev).order = TopologicalOrder
    BY LayoutParts, PlanParts
  <2> QED
    BY <2>1 DEF Build, PlanStaged
<1>5. /\ lay.tensors = Tensors /\ lay.strides = PlanViews(dev).strides /\ lay.root = PlanViews(dev).root
      /\ \A i \in Tensors : lay.home[i] = HomeOf(dev, i)
  BY <1>1, <1>2, PlanLayParts
<1>6. RowRoots(lay)
  <2>1. ViewsOK(dev, TopologicalOrder, PlanViews(dev))
    BY <1>1, PlanFacts
  <2> QED
    BY <1>5, <2>1 DEF ViewsOK, RowRoots
<1>7. AtHome(lay)'
  <2>1. Tensors' = Tensors
    BY <1>4 DEF Tensors, PlanStaged, Staged
  <2> QED
    BY <1>4, <1>5, <2>1 DEF AtHome, HomeOf
<1>8. topo' \in Seq(Nodes') /\ step' = 0 /\ ~ returned'
  <2>1. TopologicalOrder \in Seq(Nodes)
    BY <1>1, PlanFacts
  <2>2. step = 0 /\ ~ returned
    <3>1. topo = <<>> /\ ~ returned /\ step \in 0 .. Len(topo) + 1 /\ (step # 0 => built)
      BY <1>1 DEF RunInv
    <3> QED
      BY <1>1, <3>1
  <2> QED
    BY <1>4, <2>1, <2>2 DEF Nodes
<1> QED
  BY <1>3, <1>6, <1>7, <1>8, StartRuns

\* A failed build leaves swapped strides behind only where it may fuse.
LEMMA FailureLeavesRows ==
    ASSUME IInv, Calm, NEW dev \in Devices, BuildFails(dev), failures \in Nat,
           \A i \in Tensors : tensors[i].strides = "row"
    PROVE  failures' \in Nat /\ \A i \in Tensors' : tensors'[i].strides = "row"
<1>1. GraphInv /\ ShapesOK
  BY DEF IInv, GraphsInv
<1>2. ~ Fusing
  <2>1. failures < MaxFailures
    BY DEF BuildFails
  <2> QED
    BY <2>1 DEF Calm
<1>3. tensors' = [i \in Tensors |-> [tensors[i] EXCEPT !.strides = PlanViews(dev).strides[i]]]
  <2>1. Plan(dev).strides = PlanViews(dev).strides
    BY PlanParts
  <2> QED
    BY <2>1 DEF BuildFails, Restrided
<1>4. ViewsOK(dev, TopologicalOrder, PlanViews(dev)) /\ TopologicalOrder \in Seq(Nodes)
  BY <1>1, PlanFacts
<1>5. ASSUME NEW i \in Tensors PROVE PlanViews(dev).strides[i] = "row"
  <2>1. CASE PlanViews(dev).root[i] = i
    BY <1>4, <2>1 DEF ViewsOK
  <2>2. CASE PlanViews(dev).root[i] # i
    <3>1. PICK n \in Range(TopologicalOrder) :
             nodes[n].out = i /\ Viewed(dev, TopologicalOrder, PlanViews(dev), n)
      BY <1>4, <2>2 DEF ViewsOK
    <3>2. n \in Nodes
      BY <1>4, ElementOfSeq DEF Range
    <3>3. nodes[n].op \in Ops
      BY <1>1, <3>2 DEF ShapesOK
    <3>4. \/ PlanViews(dev).strides[i] = "row"
          \/ nodes[n].op = "Transpose" /\ dev \in {"CPU", "CUDA"}
      BY <3>1 DEF Viewed
    <3> QED
      BY <1>2, <3>3, <3>4 DEF Fusing
  <2> QED
    BY <2>1, <2>2
<1>6. ASSUME NEW i \in Tensors PROVE tensors'[i].strides = "row"
  <2>1. tensors[i] \in TensorRecords
    <3>1. tensors \in Seq(TensorRecords)
      BY <1>1 DEF GraphInv, TensorRecords
    <3> QED
      BY <3>1, ElementOfSeq DEF Tensors
  <2>2. [tensors[i] EXCEPT !.strides = "row"].strides = "row"
    BY <2>1 DEF TensorRecords
  <2> QED
    BY <1>3, <1>5, <2>2
<1>7. Tensors' = Tensors
  BY <1>3 DEF Tensors
<1>8. failures' \in Nat
  BY DEF BuildFails
<1> QED
  BY <1>6, <1>7, <1>8

\* A tensor is constructed with row strides.
LEMMA ConstructLeavesRows ==
    ASSUME IInv, Construct, \A i \in Tensors : tensors[i].strides = "row"
    PROVE  ~ built' /\ \A i \in Tensors' : tensors'[i].strides = "row"
<1>1. PICK L : L = Len(tensors)
  OBVIOUS
<1>2. tensors \in Seq(TensorRecords) /\ Tensors = 1 .. L /\ L \in Nat
  BY <1>1, NodeFacts DEF IInv, GraphsInv, GraphInv, TensorRecords
<1>3. /\ ~ built'
      /\ \/ tensors' = tensors
         \/ \E rank \in Ranks, size \in Sizes, data \in Nat, dev \in Devices \cup {"CPU"} :
               tensors' = Append(tensors, Storage(rank, size, data, dev))
  <2> DEFINE Grown == \E rank \in Ranks, size \in Sizes, data \in Nat, dev \in Devices \cup {"CPU"} :
                         tensors' = Append(tensors, Storage(rank, size, data, dev))
  <2>1. NULL \in Nat /\ Len(mem) + 1 \in Nat
    BY DEF NULL, IInv, GraphsInv, MemoryOK
  <2>2. ASSUME NEW rank \in Ranks, NEW size \in Sizes, Input(rank, size)
        PROVE  built' = built /\ Grown
    BY <2>1, <2>2 DEF Input
  <2>3. ASSUME NEW rank \in Ranks, NEW size \in Sizes, NEW dev \in Devices, InputStorage(rank, size, dev)
        PROVE  built' = built /\ Grown
    BY <2>1, <2>3 DEF InputStorage
  <2>4. ASSUME NEW rank \in Ranks, NEW size \in Sizes, NEW op \in Ops, NEW ins \in BoundedSeq(Tensors, 2),
               AddOp(op, ins, rank, size)
        PROVE  built' = built /\ Grown
    BY <2>1, <2>4 DEF AddOp
  <2>5. \A i : MarkOutput(i) => built' = built /\ tensors' = tensors
    BY DEF MarkOutput
  <2>6. \A is : SetOutputs(is) \/ SetOutputsThrows(is) => built' = built /\ tensors' = tensors
    BY DEF SetOutputs, SetOutputsThrows
  <2> HIDE DEF Grown
  <2>7. ~ built /\ built' = built /\ (tensors' = tensors \/ Grown)
    BY <2>2, <2>3, <2>4, <2>5, <2>6 DEF Construct
  <2> QED
    BY <2>7 DEF Grown
<1>4. CASE tensors' = tensors
  BY <1>3, <1>4 DEF Tensors
<1>5. ASSUME NEW rank \in Ranks, NEW size \in Sizes, NEW data \in Nat, NEW dev \in Devices \cup {"CPU"},
             tensors' = Append(tensors, Storage(rank, size, data, dev))
      PROVE  \A i \in Tensors' : tensors'[i].strides = "row"
  <2> DEFINE t == Storage(rank, size, data, dev)
  <2>1. t \in TensorRecords
    BY StorageFacts
  <2>2. t.strides = "row"
    BY DEF Storage
  <2> HIDE DEF t
  <2>3. /\ Append(tensors, t) \in Seq(TensorRecords) /\ Len(Append(tensors, t)) = L + 1
        /\ \A i \in 1 .. L : Append(tensors, t)[i] = tensors[i]
        /\ Append(tensors, t)[L + 1] = t
    BY <1>1, <1>2, <2>1, AppendProperties
  <2>4. tensors' = Append(tensors, t)
    BY <1>5 DEF t
  <2>5. Tensors' = 1 .. L + 1
    BY <2>3, <2>4 DEF Tensors
  <2>6. \A i \in 1 .. L + 1 : i \in 1 .. L \/ i = L + 1
    BY <1>2
  <2> QED
    BY <1>2, <2>2, <2>3, <2>4, <2>5, <2>6
<1> QED
  BY <1>3, <1>4, <1>5

\* Whatever step keeps a layout, and computes nothing, keeps the executable sound.
LEMMA CalmNext ==
    ASSUME Calm, CalmInv, [Next]_vars
    PROVE  CalmInv'
<1>1. IInv /\ binds \in Nat /\ failures \in Nat /\ GraphsInv /\ RunInv
  BY DEF CalmInv, IInv
<1>2. IInv'
  BY <1>1, NextKeeps
<1> DEFINE RowsLater == \A i \in Tensors' : tensors'[i].strides = "row"
           RunsLater == \E lay : Runs(lay)'
           Goal == binds' \in Nat /\ failures' \in Nat /\ ((~ built' /\ RowsLater) \/ (built' /\ RunsLater))
<1>10. SUFFICES Goal
  <2> HIDE DEF RowsLater, RunsLater
  <2>1. Goal => binds' \in Nat /\ failures' \in Nat /\ (~ built' => RowsLater) /\ (built' => RunsLater)
    OBVIOUS
  <2> QED
    BY <1>2, <2>1 DEF CalmInv, RowsLater, RunsLater
<1>3. CASE Construct /\ UNCHANGED <<compilerVars, executionVars>>
  <2>1. ~ built /\ binds' = binds /\ failures' = failures
    BY <1>3 DEF Construct, compilerVars, executionVars
  <2>2. ~ built' /\ RowsLater
    BY <1>1, <1>3, <2>1, ConstructLeavesRows DEF CalmInv
  <2> HIDE DEF RowsLater, RunsLater
  <2> QED
    BY <1>1, <2>1, <2>2
<1>4. CASE BuildGraph
  <2>1. ASSUME NEW dev \in Devices, Build(dev), value' = [i \in Tensors |-> Value(i, 0)],
               UNCHANGED <<step, runs, writes, binds, returned>>
        PROVE  Goal
    <3>1. ~ built /\ built' /\ failures' = failures
      BY <2>1 DEF Build
    <3>2. RunsLater
      BY <1>1, <2>1, <3>1, BuildRuns DEF CalmInv
    <3> HIDE DEF RowsLater, RunsLater
    <3> QED
      BY <1>1, <2>1, <3>1, <3>2
  <2>2. ASSUME NEW dev \in Devices, BuildFails(dev), UNCHANGED executionVars
        PROVE  Goal
    <3>1. ~ built /\ built' = built /\ binds' = binds
      BY <2>2 DEF BuildFails, executionVars
    <3>2. failures' \in Nat /\ RowsLater
      BY <1>1, <2>2, <3>1, FailureLeavesRows DEF CalmInv
    <3> HIDE DEF RowsLater, RunsLater
    <3> QED
      BY <1>1, <3>1, <3>2
  <2> HIDE DEF RowsLater, RunsLater
  <2> QED
    BY <1>4, <2>1, <2>2 DEF BuildGraph
<1>5. CASE \E i \in Tensors : IsInput(i) /\ (CopyFromHost(i) \/ BindInput(i))
  <2>1. PICK i \in Tensors : IsInput(i) /\ (CopyFromHost(i) \/ BindInput(i))
    BY <1>5
  <2>2. built /\ step = 0 /\ step' = step /\ ~ returned' /\ UNCHANGED <<nodes, built, topo, failures>>
    BY <2>1 DEF CopyFromHost, BindInput, compilerVars
  <2>3. \A lay : Laid(lay) => Laid(lay)'
    BY <1>1, <2>1, CopyKeeps, BindKeeps
  <2>4. PICK lay : Runs(lay)
    BY <2>2 DEF CalmInv
  <2>5. Laid(lay)' /\ RowRoots(lay) /\ AtHome(lay)
    BY <2>3, <2>4 DEF Runs
  <2>6. topo' \in Seq(Nodes')
    BY <1>1, <2>2 DEF RunInv, Nodes
  <2>7. AtHome(lay)' /\ binds' \in Nat
    <3>1. CASE CopyFromHost(i)
      BY <1>1, <2>5, <3>1 DEF CopyFromHost, AtHome, Tensors
    <3>2. CASE BindInput(i)
      <4>1. binds < MaxBinds /\ binds' = binds + 1
        BY <3>2 DEF BindInput
      <4>2. ~ Fusing
        BY <1>1, <4>1 DEF Calm
      <4> HIDE DEF RowsLater, RunsLater
      <4> QED
        BY <1>1, <4>1, <4>2 DEF AtHome
    <3> HIDE DEF RowsLater, RunsLater
    <3> QED
      BY <2>1, <3>1, <3>2
  <2>8. RunsLater
    BY <2>2, <2>5, <2>6, <2>7, StartRuns
  <2> HIDE DEF RowsLater, RunsLater
  <2> QED
    BY <1>1, <2>2, <2>7, <2>8
<1>6. CASE Execute \/ ExecuteThrows
  <2>1. /\ built /\ step' \in {0, 1} /\ ~ returned'
        /\ UNCHANGED <<tensors, nodes, built, topo, binds, failures>>
    <3>1. CASE Execute
      BY <3>1 DEF Execute, graphVars, compilerVars
    <3>2. CASE ExecuteThrows
      <4>1. /\ step \in DOMAIN topo /\ step' = 0 /\ returned' = returned
            /\ UNCHANGED <<tensors, nodes, built, topo, binds, failures>>
        <5>1. UNCHANGED <<graphVars, compilerVars, runs, writes, binds, value, returned>>
          BY <3>2 DEF ExecuteThrows
        <5> HIDE DEF RowsLater, RunsLater
        <5> QED
          BY <3>2, <5>1 DEF ExecuteThrows, graphVars, compilerVars, executionVars
      <4>2. step # 0
        BY <1>1, <4>1 DEF RunInv
      <4>3. built /\ ~ returned
        BY <1>1, <4>2 DEF RunInv
      <4> HIDE DEF RowsLater, RunsLater
      <4> QED
        BY <4>1, <4>3
    <3> HIDE DEF RowsLater, RunsLater
    <3> QED
      BY <1>6, <3>1, <3>2
  <2>2. PICK lay : Runs(lay)
    BY <2>1 DEF CalmInv
  <2>3. Laid(lay)' /\ RowRoots(lay) /\ AtHome(lay)
    BY <1>1, <1>6, <2>2, ScheduleKeeps DEF Runs
  <2>4. topo' \in Seq(Nodes') /\ AtHome(lay)'
    BY <1>1, <2>1, <2>3 DEF RunInv, Nodes, AtHome, Tensors
  <2>5. RunsLater
    BY <2>1, <2>3, <2>4, StartRuns
  <2> HIDE DEF RowsLater, RunsLater
  <2> QED
    BY <1>1, <2>1, <2>5
<1>7. CASE ExecuteReturns
  <2>1. built' = built /\ binds' = binds /\ failures' = failures /\ step # 0
    BY <1>1, <1>7 DEF ExecuteReturns, graphVars, compilerVars, RunInv
  <2>2. built
    BY <1>1, <2>1 DEF RunInv
  <2>3. PICK lay : Runs(lay)
    BY <2>2 DEF CalmInv
  <2>4. Laid(lay)'
    BY <1>1, <1>7, <2>3, ScheduleKeeps DEF Runs
  <2>5. RunsLater
    BY <1>1, <1>7, <2>3, <2>4, ReturnRuns
  <2> HIDE DEF RowsLater, RunsLater
  <2> QED
    BY <1>1, <2>1, <2>2, <2>5
<1>8. CASE RunKernel
  <2>1. built /\ built' = built /\ binds' = binds /\ failures' = failures
    <3>1. built
      BY <1>1, <1>8, AtKernel DEF RunKernel
    <3> HIDE DEF RowsLater, RunsLater
    <3> QED
      BY <1>8, <3>1 DEF RunKernel, compilerVars
  <2>2. PICK lay : Runs(lay)
    BY <2>1 DEF CalmInv
  <2>3. Laid(lay)'
    BY <1>1, <1>8, <2>2, KernelKeeps DEF Runs
  <2>4. RunsLater
    BY <1>1, <1>8, <2>2, <2>3, KernelRuns
  <2> HIDE DEF RowsLater, RunsLater
  <2> QED
    BY <1>1, <2>1, <2>4
<1>9. CASE UNCHANGED vars
  <2>1. UNCHANGED <<tensors, built, binds, failures>>
    BY <1>9 DEF vars, graphVars, compilerVars, executionVars
  <2>2. CASE ~ built
    <3>1. RowsLater
      BY <2>1, <2>2 DEF CalmInv, Tensors
    <3> HIDE DEF RowsLater, RunsLater
    <3> QED
      BY <1>1, <2>1, <2>2, <3>1
  <2>3. CASE built
    <3>1. PICK lay : Runs(lay)
      BY <2>3 DEF CalmInv
    <3>2. Laid(lay)'
      BY <1>1, <1>9, <3>1, StutterKeeps DEF Runs
    <3>3. RunsLater
      BY <1>9, <3>1, <3>2, StutterRuns
    <3> HIDE DEF RowsLater, RunsLater
    <3> QED
      BY <1>1, <2>1, <2>3, <3>3
  <2> HIDE DEF RowsLater, RunsLater
  <2> QED
    BY <2>2, <2>3
<1> HIDE DEF Goal
<1> QED
  BY <1>3, <1>4, <1>5, <1>6, <1>7, <1>8, <1>9 DEF Next

\* The stronger invariant, about what kernels have computed, under the hypothesis Calm.
THEOREM CalmInvariant ==
    ASSUME Calm
    PROVE  Spec => []CalmInv
<1>1. Init => CalmInv
  <2>1. SUFFICES ASSUME Init PROVE CalmInv
    OBVIOUS
  <2>2. IInv
    BY <2>1, InitIInv
  <2>3. tensors = <<>> /\ built = FALSE /\ binds = 0 /\ failures = 0
    BY <2>1 DEF Init, GraphInit, CompilerInit
  <2>4. Tensors = {}
    BY <2>3 DEF Tensors
  <2> QED
    BY <2>2, <2>3, <2>4 DEF CalmInv
<1>2. CalmInv /\ [Next]_vars => CalmInv'
  BY CalmNext
<1> QED
  BY <1>1, <1>2, PTL DEF Spec

\* No packing, sharing or view ever shows a kernel bytes that are not those of
\* its operand, whatever the graph, the device and the history of executions.
\* The hypothesis is needed: the code breaks the property without it.
THEOREM KernelsReadRight ==
    ASSUME Calm
    PROVE  Spec => []KernelsSeeTheirOperands
<1>1. ASSUME CalmInv PROVE KernelsSeeTheirOperands
  <2>1. SUFFICES ASSUME step \in DOMAIN topo PROVE SeesOperands(topo[step])
    BY DEF KernelsSeeTheirOperands
  <2>2. IInv /\ built
    BY <1>1, <2>1, AtKernel DEF CalmInv
  <2>3. PICK lay : Runs(lay)
    BY <1>1, <2>2 DEF CalmInv
  <2> QED
    BY <2>1, <2>2, <2>3, OperandsSeen
<1> QED
  BY <1>1, CalmInvariant, PTL

\* After execute the caller reads of every output the value it should have, under
\* the same hypothesis: outputs are never packed, and never left transposed.
THEOREM OutputsReadRight ==
    ASSUME Calm
    PROVE  Spec => []OutputsReadable
<1>1. ASSUME CalmInv PROVE OutputsReadable
  <2>1. SUFFICES ASSUME returned, NEW o \in Outputs PROVE Seen(mem, o, FALSE) = value[o]
    BY DEF OutputsReadable
  <2>2. /\ IInv /\ GraphsInv /\ GraphInv /\ ShapesOK /\ RunInv /\ mem \in Seq(AllCells)
    BY <1>1 DEF CalmInv, IInv, GraphsInv, MemoryOK
  <2>3. built
    BY <2>1, <2>2 DEF RunInv
  <2>4. BuiltInv /\ topo \in Seq(Nodes)
    BY <2>2, <2>3 DEF IInv, RunInv
  <2>5. PICK lay : Runs(lay)
    BY <1>1, <2>3 DEF CalmInv
  <2>6. Laid(lay) /\ RowRoots(lay) /\ Finished(lay) /\ LaidOut(lay, topo, device) /\ Fits(lay) /\ DataOK(lay)
    BY <2>5 DEF Runs, Laid
  <2>7. o \in Tensors /\ (hasExplicit => o \in explicit)
    BY <2>1, <2>2 DEF Outputs, GraphInv
  <2>8. lay.size[o] = tensors[o].size /\ lay.tensors = Tensors
    BY <2>6, <2>7 DEF Fits
  <2>9. lay.size[o] > 0 => lay.home[o] # NULL
    BY <2>6, <2>7, <2>8 DEF LaidOut, HomesLaid
  <2>10. CASE tensors[o].size = 0
    BY <2>10 DEF Seen
  <2>11. CASE tensors[o].size > 0
    <3>1. lay.home[o] \in Nat \ {0} /\ lay.top \in Nat /\ tensors[o].data \in Nat
      BY <2>2, <2>6, <2>7, <2>8, <2>9, <2>11, Addresses DEF NULL
    <3>2. o \in Populated
      <4>1. tensors[o].data = lay.home[o] \/ lay.top < tensors[o].data
        BY <2>6, <2>7 DEF DataOK
      <4> QED
        BY <2>7, <3>1, <4>1 DEF Populated, NULL
    <3>3. CASE IsInput(o)
      BY <2>2, <2>3, <3>2, <3>3, InputsRead
    <3>4. CASE ~ IsInput(o)
      <4>1. ComputedBy(Len(topo) + 1, o)
        <5>1. \A p \in Outputs : IsInput(p) \/ \E k \in DOMAIN topo : nodes[topo[k]].out = p
          BY <2>3, <2>4 DEF BuiltInv, ScheduleIsComplete
        <5>2. PICK k \in DOMAIN topo : nodes[topo[k]].out = o
          BY <2>1, <3>4, <5>1
        <5>3. k < Len(topo) + 1
          BY <2>4
        <5> QED
          BY <5>2, <5>3 DEF ComputedBy
      <4>2. o \notin lay.arena
        BY <2>6, <2>7 DEF LaidOut, ArenaLaid
      <4>3. Correct(lay, o)
        BY <2>1, <2>6, <2>7, <4>1, <4>2 DEF Finished
      <4>4. lay.strides[o] # "swapped"
        <5>1. device \in Devices
          BY <2>4 DEF BuiltInv
        <5> QED
          BY <2>2, <2>4, <2>6, <2>7, <5>1, SwappedViews
      <4>5. tensors[o].data = lay.home[o]
        BY <2>6, <2>7, <3>4 DEF DataOK
      <4>6. /\ tensors[o].data \in Nat \ {0} /\ tensors[o].data + tensors[o].size - 1 <= Len(mem)
        BY <2>2, <2>6, <2>7, <3>1, <4>5, Addresses DEF NULL
      <4>7. value[o] = value[lay.root[o]] /\ Holds(mem, tensors[o].data, tensors[o].size, value[o])
        BY <2>8, <4>3, <4>4, <4>5 DEF Correct
      <4>8. value[o] \in AllValues
        BY <2>4, <2>7 DEF BuiltInv, ValueOK
      <4> QED
        BY <2>2, <2>7, <2>11, <4>6, <4>7, <4>8, SeenHeld
    <3> QED
      BY <3>3, <3>4
  <2>12. tensors[o].size \in Nat
    BY <2>2, <2>7, NodeFacts
  <2>13. tensors[o].size = 0 \/ tensors[o].size > 0
    BY <2>12
  <2> QED
    BY <2>10, <2>11, <2>13, Zenon
<1> QED
  BY <1>1, CalmInvariant, PTL
=============================================================================
