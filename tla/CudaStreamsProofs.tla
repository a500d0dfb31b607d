------------------------- MODULE CudaStreamsProofs -------------------------
(***************************************************************************)
(* The three properties of CudaStreams, for any number of threads and      *)
(* executables and whatever their code reads and writes.  The argument: an *)
(* operation that is not finished belongs to a thread that is inside a     *)
(* copy or inside execute, no two of those conflict, and within a stream   *)
(* every operation expects what the operations before it leave.            *)
(***************************************************************************)
EXTENDS CudaStreams, SequenceTheorems, TLAPS

Contents == 0 .. Versions - 1
Operations ==
    {o \in [reads : SUBSET Buffers, writes : SUBSET Buffers, to : SUBSET Threads,
            expected : UNION {[B -> Contents] : B \in SUBSET Buffers},
            result : UNION {[B -> Contents] : B \in SUBSET Buffers}] :
       DOMAIN o.expected = o.reads /\ DOMAIN o.result = o.writes}

(* The types of what is not the program counter.                           *)
TypeInv ==
    /\ alive \subseteq Executables
    /\ active \in [Threads -> Executables \cup {NoContext}]
    /\ previous \in [Threads -> Executables \cup {NoContext}]
    /\ queue \in [Streams -> Seq(Operations)]
    /\ mem \in [Buffers -> Contents \cup {Junk}]
    /\ value \in [Buffers -> Contents]
    /\ DOMAIN pc = Threads
    /\ DOMAIN seen = Threads

(* What a thread may be doing: nothing, a copy of its own, or a node of an *)
(* executable that is alive and whose context is then the active one.      *)
Copying(t) ==
    \E r, w \in SUBSET Buffers : pc[t] = [at |-> "copy", reads |-> r, writes |-> w]
Running(t, e) ==
    \E label \in {"node", "indices", "kernel"}, k \in 1 .. Len(Code[e]) + 1 :
        /\ pc[t] = InExecute(t, e, label, k)
        /\ label # "node" => k \in DOMAIN Code[e]
ThreadInv ==
    \A t \in Threads :
        \/ (pc[t] = Idle \/ Copying(t)) /\ active[t] = NoContext
        \/ \E e \in alive : Running(t, e) /\ active[t] = e /\ previous[t] = NoContext

(* Calls that are under way do not touch what another writes, and none     *)
(* shares its executable.                                                  *)
CallInv ==
    \A t, u \in Threads : t # u =>
        /\ ~ Conflict(pc[t], pc[u])
        /\ active[t] = active[u] => active[t] = NoContext

(* An operation that is not finished belongs to the call of one thread,    *)
(* which puts its operations into that stream.                             *)
OwnerInv ==
    \A s \in Streams : \A i \in DOMAIN queue[s] :
        \E t \in Threads :
            /\ StreamOf(t) = s
            /\ queue[s][i].reads \subseteq pc[t].reads
            /\ queue[s][i].writes \subseteq pc[t].writes
            /\ pc[t].at # "idle"

(* What is copied to the host goes to the thread that waits for it.        *)
CopyInv ==
    \A s \in Streams : \A i \in DOMAIN queue[s] : \A t \in queue[s][i].to :
        /\ StreamOf(t) = s
        /\ pc[t].at \in {"copy", "indices"}
        /\ \A b \in queue[s][i].reads : queue[s][i].expected[b] = value[b]
SeenInv ==
    \A t \in Threads :
        /\ DOMAIN seen[t] # {} => pc[t].at \in {"copy", "indices"}
        /\ \A b \in DOMAIN seen[t] : b \in pc[t].reads /\ seen[t][b] = value[b]

(* No operation of the stream from i to j writes b.                        *)
Untouched(q, b, i, j) == \A k \in DOMAIN q : i <= k /\ k <= j => b \notin q[k].writes

(* An operation expects what the operation before it leaves that writes    *)
(* the buffer, and what memory holds if there is none.                     *)
ExpectInv ==
    \A s \in Streams : \A i \in DOMAIN queue[s] : \A b \in queue[s][i].reads :
        /\ Untouched(queue[s], b, 1, i - 1) => queue[s][i].expected[b] = mem[b]
        /\ \A j \in 1 .. i - 1 :
             b \in queue[s][j].writes /\ Untouched(queue[s], b, j + 1, i - 1) =>
                 queue[s][i].expected[b] = queue[s][j].result[b]

(* The value of a buffer is what the last operation leaves that writes it, *)
(* and what memory holds if there is none.                                 *)
ValueInv ==
    \A b \in Buffers :
        /\ (\A s \in Streams : Untouched(queue[s], b, 1, Len(queue[s]))) => mem[b] = value[b]
        /\ \A s \in Streams : \A j \in DOMAIN queue[s] :
             b \in queue[s][j].writes /\ Untouched(queue[s], b, j + 1, Len(queue[s])) =>
                 value[b] = queue[s][j].result[b]

IInv == TypeInv /\ ThreadInv /\ CallInv /\ OwnerInv /\ CopyInv /\ SeenInv /\ ExpectInv /\ ValueInv
-----------------------------------------------------------------------------
(* What the definitions say, as the proofs use it.                         *)

\* What Append makes of a stream's queue.
LEMMA Appended ==
    ASSUME NEW q \in Seq(Operations), NEW o \in Operations
    PROVE  /\ Append(q, o) \in Seq(Operations)
           /\ Len(q) \in Nat /\ DOMAIN q = 1 .. Len(q)
           /\ Len(Append(q, o)) = Len(q) + 1 /\ DOMAIN Append(q, o) = 1 .. Len(q) + 1
           /\ \A i \in 1 .. Len(q) : Append(q, o)[i] = q[i]
           /\ Append(q, o)[Len(q) + 1] = o
<1>1. Append(q, o) \in Seq(Operations)
  BY AppendProperties
<1> QED
  BY <1>1, AppendProperties, LenProperties

\* What Tail makes of it.
LEMMA Shortened ==
    ASSUME NEW q \in Seq(Operations), q # <<>>
    PROVE  /\ Head(q) = q[1] /\ q[1] \in Operations
           /\ Tail(q) \in Seq(Operations)
           /\ Len(q) \in Nat \ {0} /\ DOMAIN q = 1 .. Len(q)
           /\ Len(Tail(q)) = Len(q) - 1 /\ DOMAIN Tail(q) = 1 .. Len(q) - 1
           /\ \A i \in 1 .. Len(q) - 1 : Tail(q)[i] = q[i + 1]
<1>1. Len(q) \in Nat \ {0} /\ DOMAIN q = 1 .. Len(q)
  BY EmptySeq, LenProperties
<1>2. Tail(q) \in Seq(Operations) /\ Len(Tail(q)) = Len(q) - 1 /\ \A i \in 1 .. Len(Tail(q)) : Tail(q)[i] = q[i + 1]
  BY HeadTailProperties
<1>3. DOMAIN Tail(q) = 1 .. Len(q) - 1
  BY <1>2, LenProperties
<1>4. q[1] \in Operations
  BY <1>1, ElementOfSeq
<1> QED
  BY <1>1, <1>2, <1>3, <1>4

\* An operation as Issue makes it.
LEMMA OperationType ==
    ASSUME NEW r \in SUBSET Buffers, NEW w \in SUBSET Buffers, NEW to \in SUBSET Threads, TypeInv
    PROVE  /\ Operation(r, w, to) \in Operations
           /\ \A b \in Buffers : NextVersion(b) \in Contents
<1>1. \A b \in Buffers : NextVersion(b) \in Contents
  <2> SUFFICES ASSUME NEW b \in Buffers PROVE NextVersion(b) \in Contents
    OBVIOUS
  <2>1. value[b] + 1 \in Nat /\ Versions \in Nat \ {0}
    BY StreamsAssumption DEF TypeInv, Contents
  <2> QED
    BY <2>1 DEF NextVersion, Contents
<1>2. [b \in r |-> value[b]] \in [r -> Contents]
  BY DEF TypeInv
<1>3. [b \in w |-> NextVersion(b)] \in [w -> Contents]
  BY <1>1
<1>4. Operation(r, w, to) \in Operations
  BY <1>2, <1>3 DEF Operation, Operations
<1> QED
  BY <1>1, <1>4 DEF Operation

\* The parts of an operation in a queue.
LEMMA QueuedType ==
    ASSUME TypeInv, NEW s \in Streams, NEW i \in DOMAIN queue[s]
    PROVE  /\ queue[s] \in Seq(Operations) /\ Len(queue[s]) \in Nat /\ DOMAIN queue[s] = 1 .. Len(queue[s])
           /\ queue[s][i] \in Operations
           /\ queue[s][i].reads \subseteq Buffers /\ queue[s][i].writes \subseteq Buffers
           /\ queue[s][i].to \subseteq Threads
           /\ queue[s][i].expected \in [queue[s][i].reads -> Contents]
           /\ queue[s][i].result \in [queue[s][i].writes -> Contents]
<1>1. queue[s] \in Seq(Operations)
  BY DEF TypeInv
<1>2. Len(queue[s]) \in Nat /\ DOMAIN queue[s] = 1 .. Len(queue[s])
  BY <1>1, LenProperties
<1>3. queue[s][i] \in Operations
  BY <1>1, <1>2, ElementOfSeq
<1> DEFINE o == queue[s][i]
<1>4. /\ o \in [reads : SUBSET Buffers, writes : SUBSET Buffers, to : SUBSET Threads,
                expected : UNION {[B -> Contents] : B \in SUBSET Buffers},
                result : UNION {[B -> Contents] : B \in SUBSET Buffers}]
      /\ DOMAIN o.expected = o.reads /\ DOMAIN o.result = o.writes
  BY <1>3 DEF Operations
<1>5. o.expected \in [o.reads -> Contents]
  BY <1>4
<1>6. o.result \in [o.writes -> Contents]
  BY <1>4
<1> QED
  BY <1>1, <1>2, <1>3, <1>4, <1>5, <1>6

\* A node of an executable.
LEMMA NodeType ==
    ASSUME NEW e \in Executables
    PROVE  /\ Len(Code[e]) \in Nat /\ DOMAIN Code[e] = 1 .. Len(Code[e])
           /\ \A k \in DOMAIN Code[e] :
                /\ Code[e][k].reads \subseteq Buffers /\ Code[e][k].writes \subseteq Buffers
                /\ Code[e][k].reads \subseteq Reads(e) /\ Code[e][k].writes \subseteq Writes(e)
                /\ Code[e][k].indices \subseteq Code[e][k].reads
           /\ Reads(e) \subseteq Buffers /\ Writes(e) \subseteq Buffers
<1> DEFINE Nodes == [reads : SUBSET Buffers, writes : SUBSET Buffers, indices : SUBSET Buffers]
<1>1. Code[e] \in Seq(Nodes)
  BY StreamsAssumption
<1>2. Len(Code[e]) \in Nat /\ DOMAIN Code[e] = 1 .. Len(Code[e])
  BY <1>1, LenProperties
<1>3. ASSUME NEW k \in DOMAIN Code[e]
      PROVE  Code[e][k].reads \subseteq Buffers /\ Code[e][k].writes \subseteq Buffers
  <2>1. Code[e][k] \in Nodes
    BY <1>1, <1>2, ElementOfSeq
  <2> QED
    BY <2>1
<1>4. \A k \in DOMAIN Code[e] : Code[e][k].reads \subseteq Reads(e) /\ Code[e][k].writes \subseteq Writes(e)
  BY DEF Reads, Writes
<1>5. Reads(e) \subseteq Buffers /\ Writes(e) \subseteq Buffers
  BY <1>3 DEF Reads, Writes
<1>6. \A k \in DOMAIN Code[e] : Code[e][k].indices \subseteq Code[e][k].reads
  BY StreamsAssumption
<1> QED
  BY <1>2, <1>3, <1>4, <1>5, <1>6

\* A thread inside execute.
LEMMA RunningThread ==
    ASSUME TypeInv, ThreadInv, NEW t \in Threads, pc[t].at \in {"node", "indices", "kernel"}
    PROVE  /\ pc[t].exe \in alive /\ pc[t].exe \in Executables
           /\ pc[t].node \in 1 .. Len(Code[pc[t].exe]) + 1
           /\ pc[t].at # "node" => pc[t].node \in DOMAIN Code[pc[t].exe]
           /\ pc[t] = InExecute(t, pc[t].exe, pc[t].at, pc[t].node)
           /\ active[t] = pc[t].exe /\ StreamOf(t) = pc[t].exe /\ previous[t] = NoContext
<1>1. pc[t] # Idle /\ ~ Copying(t)
  <2>1. Idle.at = "idle"
    BY DEF Idle
  <2>2. ASSUME NEW r \in SUBSET Buffers, NEW w \in SUBSET Buffers,
               pc[t] = [at |-> "copy", reads |-> r, writes |-> w]
        PROVE  FALSE
    <3>1. pc[t].at = "copy"
      BY <2>2
    <3> QED
      BY <3>1
  <2> QED
    BY <2>1, <2>2 DEF Copying
<1>2. PICK e \in alive : Running(t, e) /\ active[t] = e /\ previous[t] = NoContext
  BY <1>1 DEF ThreadInv
<1>3. PICK label \in {"node", "indices", "kernel"}, k \in 1 .. Len(Code[e]) + 1 :
        /\ pc[t] = InExecute(t, e, label, k)
        /\ label # "node" => k \in DOMAIN Code[e]
  BY <1>2 DEF Running
<1>4. pc[t].exe = e /\ pc[t].node = k /\ pc[t].at = label
  BY <1>3 DEF InExecute
<1>5. e \in Executables /\ e # NoContext
  BY StreamsAssumption DEF TypeInv
<1> QED
  BY <1>2, <1>3, <1>4, <1>5, StreamsAssumption DEF StreamOf

\* A thread outside execute.
LEMMA OtherThread ==
    ASSUME TypeInv, ThreadInv, NEW t \in Threads, pc[t].at \notin {"node", "indices", "kernel"}
    PROVE  /\ active[t] = NoContext /\ StreamOf(t) = Default(t)
           /\ pc[t].at = "idle" => pc[t] = Idle
           /\ pc[t].at # "idle" => Copying(t) /\ pc[t].at = "copy"
<1>1. \A e \in alive : ~ Running(t, e)
  <2> SUFFICES ASSUME NEW e \in alive, NEW label \in {"node", "indices", "kernel"}, NEW k \in 1 .. Len(Code[e]) + 1,
                      pc[t] = InExecute(t, e, label, k)
               PROVE  FALSE
    BY DEF Running
  <2>1. pc[t].at = label
    BY DEF InExecute
  <2> QED
    BY <2>1
<1>2. (pc[t] = Idle \/ Copying(t)) /\ active[t] = NoContext
  BY <1>1 DEF ThreadInv
<1>3. Idle.at = "idle"
  BY DEF Idle
<1>4. Copying(t) => pc[t].at = "copy"
  <2> SUFFICES ASSUME NEW r \in SUBSET Buffers, NEW w \in SUBSET Buffers,
                      pc[t] = [at |-> "copy", reads |-> r, writes |-> w]
               PROVE  pc[t].at = "copy"
    BY DEF Copying
  <2> QED
    OBVIOUS
<1> QED
  BY <1>2, <1>3, <1>4 DEF StreamOf

\* What a call reads and writes are buffers.
LEMMA CallType ==
    ASSUME TypeInv, ThreadInv, NEW t \in Threads
    PROVE  pc[t].reads \subseteq Buffers /\ pc[t].writes \subseteq Buffers
<1>1. CASE pc[t].at \in {"node", "indices", "kernel"}
  <2> DEFINE e == pc[t].exe
  <2>1. pc[t].reads = Reads(e) /\ pc[t].writes = Writes(e)
    <3>1. pc[t] = InExecute(t, e, pc[t].at, pc[t].node)
      BY <1>1, RunningThread
    <3> QED
      BY <3>1 DEF InExecute
  <2> QED
    BY <1>1, <2>1, RunningThread, NodeType
<1>2. CASE pc[t].at \notin {"node", "indices", "kernel"}
  <2>1. pc[t] = Idle \/ Copying(t)
    BY <1>2, OtherThread
  <2>2. Idle.reads = {} /\ Idle.writes = {}
    BY DEF Idle
  <2>3. ASSUME NEW r \in SUBSET Buffers, NEW w \in SUBSET Buffers,
               pc[t] = [at |-> "copy", reads |-> r, writes |-> w]
        PROVE  pc[t].reads \subseteq Buffers /\ pc[t].writes \subseteq Buffers
    <3>1. pc[t].reads = r /\ pc[t].writes = w
      BY <2>3
    <3> QED
      BY <3>1
  <2> QED
    BY <2>1, <2>2, <2>3 DEF Copying
<1> QED
  BY <1>1, <1>2

\* No two threads put their operations into one stream.
LEMMA StreamIsOfOne ==
    ASSUME TypeInv, ThreadInv, CallInv, NEW t \in Threads, NEW u \in Threads, StreamOf(t) = StreamOf(u)
    PROVE  t = u
<1>1. active[t] # NoContext /\ active[u] # NoContext => active[t] = active[u]
  BY DEF StreamOf
<1>2. active[t] = NoContext /\ active[u] = NoContext => Default(t) = Default(u)
  BY DEF StreamOf
<1>3. active[t] = NoContext <=> active[u] = NoContext
  BY StreamsAssumption DEF StreamOf, TypeInv, Default
<1> QED
  BY <1>1, <1>2, <1>3 DEF CallInv, Default

\* Every stream of a thread is one of the streams.
LEMMA StreamType ==
    ASSUME TypeInv, NEW t \in Threads
    PROVE  StreamOf(t) \in Streams
BY DEF StreamOf, Streams, TypeInv

\* Two calls conflict in either order.
LEMMA ConflictIsSymmetric ==
    ASSUME NEW x, NEW y
    PROVE  Conflict(x, y) <=> Conflict(y, x)
BY DEF Conflict
-----------------------------------------------------------------------------
(* Issuing an operation and completing one.                                *)

\* Nothing that waits in another stream is disturbed by a call that may be made, or disturbs it.
LEMMA OthersAreQuiet ==
    ASSUME TypeInv, ThreadInv, OwnerInv, NEW t \in Threads, NEW call,
           \A u \in Threads \ {t} : ~ Conflict(call, pc[u]),
           NEW s \in Streams, s # StreamOf(t), NEW i \in DOMAIN queue[s]
    PROVE  /\ queue[s][i].writes \cap call.reads = {} /\ queue[s][i].writes \cap call.writes = {}
           /\ queue[s][i].reads \cap call.writes = {}
<1>1. PICK u \in Threads :
        /\ StreamOf(u) = s
        /\ queue[s][i].reads \subseteq pc[u].reads
        /\ queue[s][i].writes \subseteq pc[u].writes
  BY DEF OwnerInv
<1>2. ~ Conflict(call, pc[u])
  BY <1>1
<1> QED
  BY <1>1, <1>2 DEF Conflict

\* An operation that is issued.
LEMMA IssueKeeps ==
    ASSUME TypeInv, ExpectInv, ValueInv, mem' = mem, NEW t \in Threads,
           NEW r \in SUBSET Buffers, NEW w \in SUBSET Buffers, NEW to \in SUBSET Threads, Issue(t, r, w, to),
           \A s \in Streams \ {StreamOf(t)} : \A i \in DOMAIN queue[s] :
               queue[s][i].writes \cap r = {} /\ queue[s][i].writes \cap w = {}
    PROVE  /\ ExpectInv' /\ ValueInv'
           /\ queue' \in [Streams -> Seq(Operations)] /\ value' \in [Buffers -> Contents]
<1> DEFINE own == StreamOf(t)
           o == Operation(r, w, to)
           q == queue[own]
           n == Len(q)
<1>1. own \in Streams /\ queue \in [Streams -> Seq(Operations)] /\ q \in Seq(Operations)
  BY StreamType DEF TypeInv
<1>2. /\ o \in Operations /\ o.reads = r /\ o.writes = w
      /\ \A b \in r : o.expected[b] = value[b]
      /\ \A b \in w : o.result[b] = NextVersion(b)
      /\ \A b \in Buffers : NextVersion(b) \in Contents
  <2>1. o \in Operations
    BY OperationType
  <2>2. o.reads = r /\ o.writes = w
    BY DEF Operation
  <2>3. \A b \in r : o.expected[b] = value[b]
    BY DEF Operation
  <2>4. \A b \in w : o.result[b] = NextVersion(b)
    BY DEF Operation
  <2>5. \A b \in Buffers : NextVersion(b) \in Contents
    BY OperationType
  <2> QED
    BY <2>1, <2>2, <2>3, <2>4, <2>5
<1>3. /\ queue' = [queue EXCEPT ![own] = Append(q, o)]
      /\ value' = [b \in Buffers |-> IF b \in w THEN NextVersion(b) ELSE value[b]]
  BY DEF Issue
<1>4. /\ Append(q, o) \in Seq(Operations)
      /\ n \in Nat /\ DOMAIN q = 1 .. n
      /\ Len(Append(q, o)) = n + 1 /\ DOMAIN Append(q, o) = 1 .. n + 1
      /\ \A i \in 1 .. n : Append(q, o)[i] = q[i]
      /\ Append(q, o)[n + 1] = o
  BY <1>1, <1>2, Appended
<1>5. /\ Len(queue'[own]) = n + 1 /\ DOMAIN queue'[own] = 1 .. n + 1
      /\ \A i \in 1 .. n : queue'[own][i] = q[i]
      /\ queue'[own][n + 1] = o
      /\ \A s \in Streams \ {own} : queue'[s] = queue[s]
  BY <1>1, <1>3, <1>4
<1>6. queue' \in [Streams -> Seq(Operations)] /\ value' \in [Buffers -> Contents]
  <2>1. queue' \in [Streams -> Seq(Operations)]
    BY <1>1, <1>3, <1>4
  <2>2. value' \in [Buffers -> Contents]
    BY <1>2, <1>3 DEF TypeInv
  <2> QED
    BY <2>1, <2>2
<1>7. \A b \in Buffers : \A j \in 0 .. n : Untouched(queue'[own], b, j + 1, n) => Untouched(q, b, j + 1, n)
  BY <1>4, <1>5 DEF Untouched
<1> HIDE DEF o, n
<1>8. ExpectInv'
  <2> SUFFICES ASSUME NEW s \in Streams, NEW i \in DOMAIN queue'[s], NEW b \in queue'[s][i].reads
               PROVE  /\ Untouched(queue'[s], b, 1, i - 1) => queue'[s][i].expected[b] = mem[b]
                      /\ \A j \in 1 .. i - 1 :
                           b \in queue'[s][j].writes /\ Untouched(queue'[s], b, j + 1, i - 1) =>
                               queue'[s][i].expected[b] = queue'[s][j].result[b]
    BY DEF ExpectInv
  <2>1. CASE s # own
    BY <2>1, <1>5 DEF ExpectInv
  <2>2. CASE s = own /\ i # n + 1
    <3>1. i \in 1 .. n /\ i \in DOMAIN q /\ queue'[own][i] = q[i]
      BY <2>2, <1>4, <1>5
    <3>2. \A j \in 1 .. i : Untouched(queue'[own], b, j, i - 1) => Untouched(q, b, j, i - 1)
      BY <3>1, <1>4, <1>5, SMTT(30) DEF Untouched
    <3>3. \A j \in 1 .. i - 1 : j + 1 \in 1 .. i /\ queue'[own][j] = q[j]
      BY <3>1, <1>4, <1>5
    <3>4. 1 \in 1 .. i
      BY <3>1, <1>4
    <3>5. /\ Untouched(q, b, 1, i - 1) => q[i].expected[b] = mem[b]
          /\ \A j \in 1 .. i - 1 :
               b \in q[j].writes /\ Untouched(q, b, j + 1, i - 1) => q[i].expected[b] = q[j].result[b]
      BY <2>2, <3>1, <1>1 DEF ExpectInv
    <3> QED
      BY <2>2, <3>1, <3>2, <3>3, <3>4, <3>5
  <2>3. CASE s = own /\ i = n + 1
    <3>1. queue'[s][i] = o /\ b \in r /\ o.expected[b] = value[b] /\ b \in Buffers /\ i - 1 = n
      BY <2>3, <1>2, <1>4, <1>5
    <3>2. ASSUME Untouched(queue'[own], b, 1, n) PROVE o.expected[b] = mem[b]
      <4>1. Untouched(q, b, 1, n)
        <5>1. 0 \in 0 .. n
          BY <1>4
        <5>2. Untouched(queue'[own], b, 0 + 1, n)
          BY <3>2
        <5>3. Untouched(q, b, 0 + 1, n)
          BY <3>1, <5>1, <5>2, <1>7
        <5> QED
          BY <5>3
      <4>2. \A u \in Streams \ {own} : Untouched(queue[u], b, 1, Len(queue[u]))
        BY <3>1 DEF Untouched
      <4>3. mem[b] = value[b]
        BY <3>1, <4>1, <4>2 DEF ValueInv, n
      <4> QED
        BY <3>1, <4>3
    <3>3. ASSUME NEW j \in 1 .. n, b \in queue'[own][j].writes, Untouched(queue'[own], b, j + 1, n)
          PROVE  o.expected[b] = queue'[own][j].result[b]
      <4>1. j \in DOMAIN q /\ queue'[own][j] = q[j] /\ Untouched(q, b, j + 1, n)
        BY <3>1, <3>3, <1>4, <1>5, <1>7
      <4>2. value[b] = q[j].result[b]
        BY <3>1, <3>3, <4>1, <1>1 DEF ValueInv, n
      <4> QED
        BY <3>1, <4>1, <4>2
    <3> QED
      BY <2>3, <3>1, <3>2, <3>3
  <2> QED
    BY <2>1, <2>2, <2>3
<1>9. ValueInv'
  <2> SUFFICES ASSUME NEW b \in Buffers
               PROVE  /\ (\A s \in Streams : Untouched(queue'[s], b, 1, Len(queue'[s]))) => mem[b] = value'[b]
                      /\ \A s \in Streams : \A j \in DOMAIN queue'[s] :
                           b \in queue'[s][j].writes /\ Untouched(queue'[s], b, j + 1, Len(queue'[s])) =>
                               value'[b] = queue'[s][j].result[b]
    BY DEF ValueInv
  <2>1. value'[b] = IF b \in w THEN NextVersion(b) ELSE value[b]
    BY <1>3
  <2>2. ASSUME \A s \in Streams : Untouched(queue'[s], b, 1, Len(queue'[s]))
        PROVE  mem[b] = value'[b]
    <3>1. b \notin w
      <4>1. Untouched(queue'[own], b, 1, n + 1)
        BY <2>2, <1>1, <1>5
      <4>2. n + 1 \in DOMAIN queue'[own] /\ 1 <= n + 1 /\ n + 1 <= n + 1
        BY <1>4, <1>5
      <4> QED
        BY <4>1, <4>2, <1>2, <1>5 DEF Untouched
    <3>2. Untouched(q, b, 1, n)
      <4>1. Untouched(queue'[own], b, 1, n + 1)
        BY <2>2, <1>1, <1>5
      <4> QED
        BY <4>1, <1>4, <1>5 DEF Untouched
    <3>3. \A s \in Streams \ {own} : Untouched(queue[s], b, 1, Len(queue[s]))
      BY <2>2, <1>5
    <3> QED
      BY <2>1, <3>1, <3>2, <3>3 DEF ValueInv, n
  <2>3. ASSUME NEW s \in Streams, NEW j \in DOMAIN queue'[s],
               b \in queue'[s][j].writes, Untouched(queue'[s], b, j + 1, Len(queue'[s]))
        PROVE  value'[b] = queue'[s][j].result[b]
    <3>1. CASE s # own
      <4>1. queue'[s] = queue[s] /\ j \in DOMAIN queue[s]
        BY <2>3, <3>1, <1>5
      <4>2. b \notin w
        BY <2>3, <3>1, <4>1
      <4> QED
        BY <2>1, <2>3, <4>1, <4>2 DEF ValueInv
    <3>2. CASE s = own /\ j = n + 1
      <4>1. b \in w /\ queue'[s][j] = o
        BY <2>3, <3>2, <1>2, <1>5
      <4> QED
        BY <2>1, <4>1, <1>2
    <3>3. CASE s = own /\ j # n + 1
      <4>1. j \in 1 .. n /\ j \in DOMAIN q /\ queue'[own][j] = q[j]
        BY <3>3, <1>4, <1>5
      <4>2. \A k \in 1 .. n + 1 : j + 1 <= k => b \notin queue'[own][k].writes
        BY <2>3, <3>3, <1>4, <1>5, SMTT(30) DEF Untouched
      <4>3. b \notin w
        <5>1. n + 1 \in 1 .. n + 1 /\ j + 1 <= n + 1
          BY <4>1, <1>4
        <5> QED
          BY <4>2, <5>1, <1>2, <1>5
      <4>4. Untouched(q, b, j + 1, n)
        BY <4>1, <4>2, <1>4, <1>5 DEF Untouched
      <4>5. value[b] = q[j].result[b]
        BY <2>3, <3>3, <4>1, <4>4, <1>1 DEF ValueInv, n
      <4> QED
        BY <2>1, <3>3, <4>1, <4>3, <4>5
    <3> QED
      BY <3>1, <3>2, <3>3
  <2> QED
    BY <2>2, <2>3
<1> QED
  BY <1>6, <1>8, <1>9

\* Operations of two streams do not conflict.
LEMMA StreamsDoNotConflict ==
    ASSUME TypeInv, ThreadInv, CallInv, OwnerInv, NEW s \in Streams, NEW u \in Streams, s # u,
           NEW i \in DOMAIN queue[s], NEW j \in DOMAIN queue[u]
    PROVE  ~ Conflict(queue[s][i], queue[u][j])
<1>1. PICK t \in Threads :
        /\ StreamOf(t) = s
        /\ queue[s][i].reads \subseteq pc[t].reads
        /\ queue[s][i].writes \subseteq pc[t].writes
  BY DEF OwnerInv
<1>2. PICK v \in Threads :
        /\ StreamOf(v) = u
        /\ queue[u][j].reads \subseteq pc[v].reads
        /\ queue[u][j].writes \subseteq pc[v].writes
  BY DEF OwnerInv
<1>3. ~ Conflict(pc[t], pc[v])
  BY <1>1, <1>2 DEF CallInv
<1> QED
  BY <1>1, <1>2, <1>3 DEF Conflict

\* The first operation of a stream finds what it expects.
LEMMA CompleteEffect ==
    ASSUME IInv, NEW s \in Streams, Complete(s)
    PROVE  /\ queue[s] # <<>> /\ queue[s] \in Seq(Operations) /\ queue[s][1] \in Operations
           /\ Len(queue[s]) \in Nat \ {0} /\ DOMAIN queue[s] = 1 .. Len(queue[s])
           /\ queue' = [queue EXCEPT ![s] = Tail(@)]
           /\ queue'[s] \in Seq(Operations)
           /\ Len(queue'[s]) = Len(queue[s]) - 1 /\ DOMAIN queue'[s] = 1 .. Len(queue[s]) - 1
           /\ \A i \in 1 .. Len(queue[s]) - 1 : queue'[s][i] = queue[s][i + 1]
           /\ \A u \in Streams \ {s} : queue'[u] = queue[u]
           /\ mem' = [b \in Buffers |-> IF b \in queue[s][1].writes THEN queue[s][1].result[b] ELSE mem[b]]
           /\ seen' = [t \in Threads |-> IF t \in queue[s][1].to THEN queue[s][1].expected ELSE seen[t]]
           /\ UNCHANGED <<alive, active, previous, pc, value>>
<1> DEFINE q == queue[s]
           o == q[1]
           got == [b \in o.reads |-> mem[b]]
<1>1. queue \in [Streams -> Seq(Operations)] /\ q \in Seq(Operations) /\ q # <<>>
  BY DEF IInv, TypeInv, Complete
<1>2. /\ Head(q) = o /\ o \in Operations
      /\ Tail(q) \in Seq(Operations)
      /\ Len(q) \in Nat \ {0} /\ DOMAIN q = 1 .. Len(q)
      /\ Len(Tail(q)) = Len(q) - 1 /\ DOMAIN Tail(q) = 1 .. Len(q) - 1
      /\ \A i \in 1 .. Len(q) - 1 : Tail(q)[i] = q[i + 1]
  BY <1>1, Shortened
<1>3. 1 \in DOMAIN q
  BY <1>2
<1>4. o.reads \subseteq Buffers /\ o.writes \subseteq Buffers /\ o.expected \in [o.reads -> Contents]
  BY <1>3, QueuedType DEF IInv
<1>5. got = o.expected
  <2>1. ASSUME NEW b \in o.reads PROVE o.expected[b] = mem[b]
    <3>1. Untouched(q, b, 1, 1 - 1)
      BY <1>2 DEF Untouched
    <3> QED
      BY <1>3, <3>1 DEF IInv, ExpectInv
  <2> QED
    BY <2>1, <1>4
<1>6. queue' = [queue EXCEPT ![s] = Tail(@)] /\ UNCHANGED <<alive, active, previous, pc, value>>
  BY DEF Complete
<1>7. /\ mem' = [b \in Buffers |-> IF b \notin o.writes THEN mem[b]
                                   ELSE IF got = o.expected THEN o.result[b] ELSE Junk]
      /\ seen' = [t \in Threads |-> IF t \in o.to THEN got ELSE seen[t]]
  BY <1>2 DEF Complete
<1>8. queue'[s] = Tail(q) /\ \A u \in Streams \ {s} : queue'[u] = queue[u]
  BY <1>1, <1>6
<1>9. mem' = [b \in Buffers |-> IF b \in o.writes THEN o.result[b] ELSE mem[b]]
  BY <1>5, <1>7
<1>10. seen' = [t \in Threads |-> IF t \in o.to THEN o.expected ELSE seen[t]]
  BY <1>5, <1>7
<1> QED
  BY <1>1, <1>2, <1>6, <1>8, <1>9, <1>10

\* An operation that is completed.
LEMMA CompleteStep ==
    ASSUME IInv, NEW s \in Streams, Complete(s)
    PROVE  IInv'
<1> DEFINE q == queue[s]
           o == q[1]
           n == Len(q)
<1>1. /\ q \in Seq(Operations) /\ o \in Operations
      /\ n \in Nat \ {0} /\ DOMAIN q = 1 .. n
      /\ queue' = [queue EXCEPT ![s] = Tail(@)] /\ queue'[s] \in Seq(Operations)
      /\ Len(queue'[s]) = n - 1 /\ DOMAIN queue'[s] = 1 .. n - 1
      /\ \A i \in 1 .. n - 1 : queue'[s][i] = q[i + 1]
      /\ \A u \in Streams \ {s} : queue'[u] = queue[u]
  BY CompleteEffect
<1>2. /\ mem' = [b \in Buffers |-> IF b \in o.writes THEN o.result[b] ELSE mem[b]]
      /\ seen' = [t \in Threads |-> IF t \in o.to THEN o.expected ELSE seen[t]]
      /\ alive' = alive /\ active' = active /\ previous' = previous /\ pc' = pc /\ value' = value
  BY CompleteEffect
<1>3. /\ 1 \in DOMAIN q /\ \A i \in 1 .. n - 1 : i + 1 \in DOMAIN q /\ i + 1 \in 2 .. n
      /\ \A i \in 2 .. n : i - 1 \in 1 .. n - 1 /\ queue'[s][i - 1] = q[i]
  BY <1>1
<1>4. /\ o.reads \subseteq Buffers /\ o.writes \subseteq Buffers /\ o.to \subseteq Threads
      /\ o.expected \in [o.reads -> Contents] /\ o.result \in [o.writes -> Contents]
  BY <1>3, QueuedType DEF IInv
<1>5. TypeInv'
  <2>1. queue' \in [Streams -> Seq(Operations)]
    BY <1>1 DEF IInv, TypeInv
  <2>2. mem' \in [Buffers -> Contents \cup {Junk}]
    BY <1>2, <1>4 DEF IInv, TypeInv
  <2> QED
    BY <1>2, <2>1, <2>2 DEF IInv, TypeInv
<1>6. ThreadInv' /\ CallInv'
  <2>1. ThreadInv'
    BY <1>2, ZenonT(60) DEF IInv, ThreadInv, Copying, Running, Idle, InExecute
  <2>2. CallInv'
    BY <1>2 DEF IInv, CallInv, Conflict
  <2> QED
    BY <2>1, <2>2
<1>7. \A t \in Threads : StreamOf(t)' = StreamOf(t)
  BY <1>2 DEF StreamOf
<1>8. OwnerInv'
  <2> SUFFICES ASSUME NEW u \in Streams, NEW i \in DOMAIN queue'[u]
               PROVE  \E t \in Threads :
                        /\ StreamOf(t) = u
                        /\ queue'[u][i].reads \subseteq pc[t].reads
                        /\ queue'[u][i].writes \subseteq pc[t].writes
                        /\ pc[t].at # "idle"
    BY <1>2, <1>7 DEF OwnerInv
  <2>1. CASE u = s
    <3>1. i + 1 \in DOMAIN q /\ queue'[u][i] = q[i + 1]
      BY <2>1, <1>1, <1>3
    <3> QED
      BY <2>1, <3>1 DEF IInv, OwnerInv
  <2>2. CASE u # s
    BY <2>2, <1>1 DEF IInv, OwnerInv
  <2> QED
    BY <2>1, <2>2
<1>9. CopyInv'
  <2> SUFFICES ASSUME NEW u \in Streams, NEW i \in DOMAIN queue'[u], NEW t \in queue'[u][i].to
               PROVE  /\ StreamOf(t)' = u
                      /\ pc[t].at \in {"copy", "indices"}
                      /\ \A b \in queue'[u][i].reads : queue'[u][i].expected[b] = value[b]
    BY <1>2 DEF CopyInv
  <2>1. PICK j \in DOMAIN queue[u] : queue'[u][i] = queue[u][j]
    BY <1>1, <1>3
  <2>2. t \in Threads
    BY <2>1, QueuedType DEF IInv
  <2> QED
    BY <2>1, <2>2, <1>7 DEF IInv, CopyInv
<1>10. SeenInv'
  <2> SUFFICES ASSUME NEW t \in Threads
               PROVE  /\ DOMAIN seen'[t] # {} => pc[t].at \in {"copy", "indices"}
                      /\ \A b \in DOMAIN seen'[t] : b \in pc[t].reads /\ seen'[t][b] = value[b]
    BY <1>2 DEF SeenInv
  <2>1. CASE t \in o.to
    <3>1. seen'[t] = o.expected /\ DOMAIN seen'[t] = o.reads
      BY <2>1, <1>2, <1>4
    <3>2. /\ StreamOf(t) = s /\ pc[t].at \in {"copy", "indices"}
          /\ \A b \in o.reads : o.expected[b] = value[b]
      BY <2>1, <1>3 DEF IInv, CopyInv
    <3>3. PICK u \in Threads : StreamOf(u) = s /\ o.reads \subseteq pc[u].reads
      BY <1>3 DEF IInv, OwnerInv
    <3>4. u = t
      BY <3>2, <3>3, StreamIsOfOne DEF IInv
    <3> QED
      BY <3>1, <3>2, <3>3, <3>4
  <2>2. CASE t \notin o.to
    <3>1. seen'[t] = seen[t]
      BY <2>2, <1>2
    <3> QED
      BY <3>1 DEF IInv, SeenInv
  <2> QED
    BY <2>1, <2>2
<1> HIDE DEF o, n
<1>11. ExpectInv'
  <2> SUFFICES ASSUME NEW u \in Streams, NEW i \in DOMAIN queue'[u], NEW b \in queue'[u][i].reads
               PROVE  /\ Untouched(queue'[u], b, 1, i - 1) => queue'[u][i].expected[b] = mem'[b]
                      /\ \A j \in 1 .. i - 1 :
                           b \in queue'[u][j].writes /\ Untouched(queue'[u], b, j + 1, i - 1) =>
                               queue'[u][i].expected[b] = queue'[u][j].result[b]
    BY DEF ExpectInv
  <2>1. CASE u # s
    <3>1. queue'[u] = queue[u]
      BY <2>1, <1>1
    <3>2. b \notin o.writes /\ b \in Buffers
      <4>1. ~ Conflict(queue[s][1], queue[u][i])
        BY <2>1, <3>1, <1>3, StreamsDoNotConflict DEF IInv
      <4>2. queue[u][i].reads \subseteq Buffers
        BY <3>1, QueuedType DEF IInv
      <4> QED
        BY <3>1, <4>1, <4>2 DEF Conflict, o
    <3>3. mem'[b] = mem[b]
      BY <3>2, <1>2
    <3> QED
      BY <3>1, <3>3 DEF IInv, ExpectInv
  <2>2. CASE u = s
    <3>1. i \in 1 .. n - 1 /\ i + 1 \in DOMAIN q /\ queue'[u][i] = q[i + 1] /\ b \in q[i + 1].reads
      BY <2>2, <1>1, <1>3
    <3>2. \A j \in 1 .. i : Untouched(queue'[s], b, j, i - 1) => Untouched(q, b, j + 1, i)
      <4> SUFFICES ASSUME NEW j \in 1 .. i, Untouched(queue'[s], b, j, i - 1),
                          NEW k \in DOMAIN q, j + 1 <= k, k <= i
                   PROVE  b \notin q[k].writes
        BY DEF Untouched
      <4>1. k \in 2 .. n /\ k <= i /\ i \in 1 .. n - 1 /\ j <= k - 1 /\ k - 1 <= i - 1
        BY <3>1, <1>1, SMTT(30)
      <4>2. k - 1 \in DOMAIN queue'[s] /\ queue'[s][k - 1] = q[k]
        BY <4>1, <1>1, <1>3
      <4> QED
        BY <4>1, <4>2 DEF Untouched
    <3>3. /\ Untouched(q, b, 1, i + 1 - 1) => q[i + 1].expected[b] = mem[b]
          /\ \A j \in 1 .. i + 1 - 1 :
               b \in q[j].writes /\ Untouched(q, b, j + 1, i + 1 - 1) => q[i + 1].expected[b] = q[j].result[b]
      BY <3>1 DEF IInv, ExpectInv
    <3>4. i + 1 - 1 = i /\ i \in Nat \ {0} /\ b \in Buffers
      <4>1. q[i + 1].reads \subseteq Buffers
        BY <3>1, QueuedType DEF IInv
      <4> QED
        BY <3>1, <4>1, <1>1
    <3>5. ASSUME Untouched(queue'[s], b, 1, i - 1)
          PROVE  q[i + 1].expected[b] = mem'[b]
      <4>1. Untouched(q, b, 1 + 1, i) /\ 1 \in 1 .. i
        BY <3>2, <3>4, <3>5
      <4>2. CASE b \in o.writes
        <5>1. q[i + 1].expected[b] = q[1].result[b]
          BY <4>1, <4>2, <3>3, <3>4 DEF o
        <5> QED
          BY <4>2, <5>1, <3>4, <1>2 DEF o
      <4>3. CASE b \notin o.writes
        <5>1. Untouched(q, b, 1, i)
          BY <4>1, <4>3, <1>1 DEF Untouched, o
        <5> QED
          BY <4>3, <5>1, <3>3, <3>4, <1>2
      <4> QED
        BY <4>2, <4>3
    <3>6. ASSUME NEW j \in 1 .. i - 1, b \in queue'[s][j].writes, Untouched(queue'[s], b, j + 1, i - 1)
          PROVE  q[i + 1].expected[b] = queue'[s][j].result[b]
      <4>1. queue'[s][j] = q[j + 1] /\ j + 1 \in 1 .. i
        BY <3>1, <3>4, <1>1, SMTT(30)
      <4>2. Untouched(q, b, j + 1 + 1, i)
        BY <4>1, <3>2, <3>6
      <4> QED
        BY <4>1, <4>2, <3>3, <3>4, <3>6
    <3> QED
      BY <2>2, <3>1, <3>5, <3>6
  <2> QED
    BY <2>1, <2>2
<1>12. ValueInv'
  <2> SUFFICES ASSUME NEW b \in Buffers
               PROVE  /\ (\A u \in Streams : Untouched(queue'[u], b, 1, Len(queue'[u]))) => mem'[b] = value[b]
                      /\ \A u \in Streams : \A j \in DOMAIN queue'[u] :
                           b \in queue'[u][j].writes /\ Untouched(queue'[u], b, j + 1, Len(queue'[u])) =>
                               value[b] = queue'[u][j].result[b]
    BY <1>2 DEF ValueInv
  <2>1. \A j \in 1 .. n : Untouched(queue'[s], b, j, n - 1) => Untouched(q, b, j + 1, n)
    <3> SUFFICES ASSUME NEW j \in 1 .. n, Untouched(queue'[s], b, j, n - 1),
                        NEW k \in DOMAIN q, j + 1 <= k, k <= n
                 PROVE  b \notin q[k].writes
      BY DEF Untouched
    <3>1. k - 1 \in DOMAIN queue'[s] /\ j <= k - 1 /\ k - 1 <= n - 1 /\ queue'[s][k - 1] = q[k]
      BY <1>1, <1>3
    <3> QED
      BY <3>1 DEF Untouched
  <2>2. ASSUME \A u \in Streams : Untouched(queue'[u], b, 1, Len(queue'[u]))
        PROVE  mem'[b] = value[b]
    <3>1. Untouched(q, b, 1 + 1, n) /\ 1 \in 1 .. n
      <4>1. Untouched(queue'[s], b, 1, n - 1)
        BY <2>2, <1>1
      <4> QED
        BY <4>1, <2>1, <1>1
    <3>2. CASE b \in o.writes
      <4>1. value[b] = q[1].result[b]
        BY <3>1, <3>2, <1>3 DEF IInv, ValueInv, o, n
      <4> QED
        BY <3>2, <4>1, <1>2 DEF o
    <3>3. CASE b \notin o.writes
      <4>1. Untouched(q, b, 1, n)
        BY <3>1, <3>3, <1>1 DEF Untouched, o
      <4>2. \A u \in Streams \ {s} : Untouched(queue[u], b, 1, Len(queue[u]))
        BY <2>2, <1>1
      <4>3. mem[b] = value[b]
        BY <4>1, <4>2 DEF IInv, ValueInv, n
      <4> QED
        BY <3>3, <4>3, <1>2
    <3> QED
      BY <3>2, <3>3
  <2>3. ASSUME NEW u \in Streams, NEW j \in DOMAIN queue'[u],
               b \in queue'[u][j].writes, Untouched(queue'[u], b, j + 1, Len(queue'[u]))
        PROVE  value[b] = queue'[u][j].result[b]
    <3>1. CASE u # s
      BY <2>3, <3>1, <1>1 DEF IInv, ValueInv
    <3>2. CASE u = s
      <4>1. j + 1 \in DOMAIN q /\ j + 1 \in 1 .. n /\ queue'[s][j] = q[j + 1]
        BY <3>2, <1>1, <1>3
      <4>2. Untouched(q, b, j + 1 + 1, n)
        BY <2>1, <2>3, <3>2, <4>1, <1>1
      <4> QED
        BY <2>3, <3>2, <4>1, <4>2 DEF IInv, ValueInv, n
    <3> QED
      BY <3>1, <3>2
  <2> QED
    BY <2>2, <2>3
<1> QED
  BY <1>5, <1>6, <1>8, <1>9, <1>10, <1>11, <1>12 DEF IInv
-----------------------------------------------------------------------------
(* What the steps of a thread have in common.                              *)

\* Nothing waits in the stream of an idle thread.
LEMMA IdleStreamIsEmpty ==
    ASSUME TypeInv, ThreadInv, CallInv, OwnerInv, NEW t \in Threads, At(t, "idle")
    PROVE  queue[StreamOf(t)] = <<>>
<1>1. StreamOf(t) \in Streams /\ queue[StreamOf(t)] \in Seq(Operations)
  BY StreamType DEF TypeInv
<1>2. SUFFICES ASSUME queue[StreamOf(t)] # <<>> PROVE FALSE
  OBVIOUS
<1>3. 1 \in DOMAIN queue[StreamOf(t)]
  BY <1>1, <1>2, Shortened
<1>4. PICK u \in Threads : StreamOf(u) = StreamOf(t) /\ pc[u].at # "idle"
  BY <1>1, <1>3 DEF OwnerInv
<1> QED
  BY <1>4, StreamIsOfOne DEF At

\* The threads that do not move stay in order.
LEMMA ThreadFrame ==
    ASSUME ThreadInv, NEW t \in Threads,
           \A u \in Threads \ {t} :
               /\ pc'[u] = pc[u] /\ active'[u] = active[u] /\ previous'[u] = previous[u]
               /\ active[u] \in alive => active[u] \in alive',
           \/ (pc'[t] = Idle \/ Copying(t)') /\ active'[t] = NoContext
           \/ \E e \in alive' : Running(t, e)' /\ active'[t] = e /\ previous'[t] = NoContext
    PROVE  ThreadInv'
<1> SUFFICES ASSUME NEW u \in Threads \ {t}
             PROVE  \/ (pc'[u] = Idle \/ Copying(u)') /\ active'[u] = NoContext
                    \/ \E e \in alive' : Running(u, e)' /\ active'[u] = e /\ previous'[u] = NoContext
  BY DEF ThreadInv, Idle
<1>1. Copying(u)' <=> Copying(u)
  BY DEF Copying
<1>2. \A e : Running(u, e)' <=> Running(u, e)
  BY DEF Running, InExecute
<1>3. CASE (pc[u] = Idle \/ Copying(u)) /\ active[u] = NoContext
  BY <1>1, <1>3
<1>4. ASSUME NEW e \in alive, Running(u, e), active[u] = e, previous[u] = NoContext
      PROVE  e \in alive' /\ Running(u, e)' /\ active'[u] = e /\ previous'[u] = NoContext
  BY <1>2, <1>4
<1> QED
  BY <1>3, <1>4 DEF ThreadInv

\* A step that issues nothing, of a thread whose stream is empty.
LEMMA SilentStep ==
    ASSUME IInv, TypeInv', ThreadInv', CallInv', NEW t \in Threads,
           queue' = queue, mem' = mem, value' = value,
           \A u \in Threads \ {t} : pc'[u] = pc[u] /\ active'[u] = active[u] /\ seen'[u] = seen[u],
           queue[StreamOf(t)] = <<>>, DOMAIN seen'[t] = {}
    PROVE  IInv'
<1>1. StreamOf(t) \in Streams /\ DOMAIN queue[StreamOf(t)] = {}
  BY StreamType DEF IInv
<1>2. \A u \in Threads \ {t} : StreamOf(u)' = StreamOf(u)
  BY DEF StreamOf
<1>3. OwnerInv'
  <2> SUFFICES ASSUME NEW s \in Streams, NEW i \in DOMAIN queue[s]
               PROVE  \E u \in Threads :
                        /\ StreamOf(u)' = s
                        /\ queue[s][i].reads \subseteq pc'[u].reads
                        /\ queue[s][i].writes \subseteq pc'[u].writes
                        /\ pc'[u].at # "idle"
    BY DEF OwnerInv
  <2>1. PICK u \in Threads :
          /\ StreamOf(u) = s
          /\ queue[s][i].reads \subseteq pc[u].reads
          /\ queue[s][i].writes \subseteq pc[u].writes
          /\ pc[u].at # "idle"
    BY DEF IInv, OwnerInv
  <2>2. u # t
    BY <1>1, <2>1
  <2> QED
    BY <1>2, <2>1, <2>2
<1>4. CopyInv'
  <2> SUFFICES ASSUME NEW s \in Streams, NEW i \in DOMAIN queue[s], NEW u \in queue[s][i].to
               PROVE  /\ StreamOf(u)' = s
                      /\ pc'[u].at \in {"copy", "indices"}
                      /\ \A b \in queue[s][i].reads : queue[s][i].expected[b] = value[b]
    BY DEF CopyInv
  <2>1. /\ StreamOf(u) = s
        /\ pc[u].at \in {"copy", "indices"}
        /\ \A b \in queue[s][i].reads : queue[s][i].expected[b] = value[b]
    BY DEF IInv, CopyInv
  <2>2. u \in Threads
    BY QueuedType DEF IInv
  <2>3. u # t
    BY <1>1, <2>1
  <2> QED
    BY <1>2, <2>1, <2>2, <2>3
<1>5. SeenInv'
  BY DEF IInv, SeenInv
<1>6. ExpectInv' /\ ValueInv'
  BY DEF IInv, ExpectInv, ValueInv, Untouched
<1> QED
  BY <1>3, <1>4, <1>5, <1>6 DEF IInv

\* A step of thread t that issues an operation of the call x it is then in.
LEMMA IssueStep ==
    ASSUME IInv, ThreadInv', NEW t \in Threads, NEW x,
           NEW r \in SUBSET Buffers, NEW w \in SUBSET Buffers, NEW to \in SUBSET {t}, Issue(t, r, w, to),
           pc' = [pc EXCEPT ![t] = x],
           UNCHANGED <<alive, active, previous, mem, seen>>,
           r \subseteq x.reads, w \subseteq x.writes, x.at # "idle",
           pc[t].reads \subseteq x.reads, pc[t].writes \subseteq x.writes,
           pc[t].at \notin {"copy", "indices"},
           to # {} => w = {} /\ x.at \in {"copy", "indices"},
           \A u \in Threads \ {t} : ~ Conflict(x, pc[u])
    PROVE  IInv'
<1> DEFINE own == StreamOf(t)
           o == Operation(r, w, to)
           q == queue[own]
           n == Len(q)
<1>1. \A s \in Streams \ {own} : \A i \in DOMAIN queue[s] :
        queue[s][i].writes \cap r = {} /\ queue[s][i].writes \cap w = {}
  <2> SUFFICES ASSUME NEW s \in Streams \ {own}, NEW i \in DOMAIN queue[s]
               PROVE  queue[s][i].writes \cap r = {} /\ queue[s][i].writes \cap w = {}
    OBVIOUS
  <2>1. queue[s][i].writes \cap x.reads = {} /\ queue[s][i].writes \cap x.writes = {}
    BY OthersAreQuiet DEF IInv
  <2> QED
    BY <2>1
<1>2. /\ ExpectInv' /\ ValueInv'
      /\ queue' \in [Streams -> Seq(Operations)] /\ value' \in [Buffers -> Contents]
  BY <1>1, IssueKeeps DEF IInv
<1>3. TypeInv'
  BY <1>2 DEF IInv, TypeInv
<1>4. pc'[t] = x /\ \A u \in Threads \ {t} : pc'[u] = pc[u]
  BY DEF IInv, TypeInv
<1>5. CallInv'
  <2> SUFFICES ASSUME NEW u \in Threads, NEW v \in Threads, u # v
               PROVE  ~ Conflict(pc'[u], pc'[v]) /\ (active[u] = active[v] => active[u] = NoContext)
    BY DEF CallInv, Conflict
  <2>1. active[u] = active[v] => active[u] = NoContext
    BY DEF IInv, CallInv
  <2>2. CASE u = t
    BY <1>4, <2>1, <2>2
  <2>3. CASE v = t
    BY <1>4, <2>1, <2>3, ConflictIsSymmetric
  <2>4. CASE u # t /\ v # t
    BY <1>4, <2>1, <2>4 DEF IInv, CallInv
  <2> QED
    BY <2>2, <2>3, <2>4
<1>6. \A u \in Threads : StreamOf(u)' = StreamOf(u)
  BY DEF StreamOf
<1>7. /\ own \in Streams
      /\ n \in Nat /\ DOMAIN q = 1 .. n /\ DOMAIN queue'[own] = 1 .. n + 1
      /\ \A i \in 1 .. n : queue'[own][i] = q[i]
      /\ queue'[own][n + 1] = o
      /\ \A s \in Streams \ {own} : queue'[s] = queue[s]
      /\ o.reads = r /\ o.writes = w /\ o.to = to /\ \A b \in r : o.expected[b] = value[b]
  <2>1. own \in Streams /\ queue \in [Streams -> Seq(Operations)] /\ q \in Seq(Operations)
    BY StreamType DEF IInv, TypeInv
  <2>2. o \in Operations
    BY OperationType DEF IInv
  <2>3. queue' = [queue EXCEPT ![own] = Append(q, o)]
    BY DEF Issue
  <2>4. /\ n \in Nat /\ DOMAIN q = 1 .. n
        /\ DOMAIN Append(q, o) = 1 .. n + 1
        /\ \A i \in 1 .. n : Append(q, o)[i] = q[i]
        /\ Append(q, o)[n + 1] = o
    BY <2>1, <2>2, Appended
  <2>5. o.reads = r /\ o.writes = w /\ o.to = to /\ \A b \in r : o.expected[b] = value[b]
    BY DEF Operation
  <2> QED
    BY <2>1, <2>3, <2>4, <2>5
<1>8. value' = [b \in Buffers |-> IF b \in w THEN NextVersion(b) ELSE value[b]]
  BY DEF Issue
<1> HIDE DEF o, n
<1>9. OwnerInv'
  <2> SUFFICES ASSUME NEW s \in Streams, NEW i \in DOMAIN queue'[s]
               PROVE  \E u \in Threads :
                        /\ StreamOf(u) = s
                        /\ queue'[s][i].reads \subseteq pc'[u].reads
                        /\ queue'[s][i].writes \subseteq pc'[u].writes
                        /\ pc'[u].at # "idle"
    BY <1>6 DEF OwnerInv
  <2>1. CASE s = own /\ i = n + 1
    BY <2>1, <1>4, <1>7
  <2>2. CASE s # own \/ i # n + 1
    <3>1. i \in DOMAIN queue[s] /\ queue'[s][i] = queue[s][i]
      BY <2>2, <1>7
    <3>2. PICK u \in Threads :
            /\ StreamOf(u) = s
            /\ queue[s][i].reads \subseteq pc[u].reads
            /\ queue[s][i].writes \subseteq pc[u].writes
            /\ pc[u].at # "idle"
      BY <3>1 DEF IInv, OwnerInv
    <3> QED
      BY <1>4, <3>1, <3>2
  <2> QED
    BY <2>1, <2>2
<1>10. \A u \in Threads \ {t} : \A b \in pc[u].reads : b \notin w
  BY DEF Conflict
<1>11. CopyInv'
  <2> SUFFICES ASSUME NEW s \in Streams, NEW i \in DOMAIN queue'[s], NEW u \in queue'[s][i].to
               PROVE  /\ StreamOf(u)' = s
                      /\ pc'[u].at \in {"copy", "indices"}
                      /\ \A b \in queue'[s][i].reads : queue'[s][i].expected[b] = value'[b]
    BY DEF CopyInv
  <2>1. CASE s = own /\ i = n + 1
    <3>1. u = t /\ w = {} /\ x.at \in {"copy", "indices"} /\ queue'[s][i] = o
      BY <2>1, <1>7
    <3> QED
      BY <2>1, <3>1, <1>4, <1>6, <1>7, <1>8
  <2>2. CASE s # own \/ i # n + 1
    <3>1. i \in DOMAIN queue[s] /\ queue'[s][i] = queue[s][i]
      BY <2>2, <1>7
    <3>2. /\ StreamOf(u) = s
          /\ pc[u].at \in {"copy", "indices"}
          /\ \A b \in queue[s][i].reads : queue[s][i].expected[b] = value[b]
      BY <3>1 DEF IInv, CopyInv
    <3>3. u \in Threads /\ u # t /\ queue[s][i].reads \subseteq Buffers
      BY <3>1, <3>2, QueuedType DEF IInv
    <3>4. PICK v \in Threads : StreamOf(v) = s /\ queue[s][i].reads \subseteq pc[v].reads
      BY <3>1 DEF IInv, OwnerInv
    <3>5. v = u
      BY <3>2, <3>3, <3>4, StreamIsOfOne DEF IInv
    <3>6. \A b \in queue[s][i].reads : value'[b] = value[b]
      BY <3>3, <3>4, <3>5, <1>8, <1>10
    <3> QED
      BY <3>1, <3>2, <3>3, <3>6, <1>4, <1>6
  <2> QED
    BY <2>1, <2>2
<1>12. SeenInv'
  <2> SUFFICES ASSUME NEW u \in Threads
               PROVE  /\ DOMAIN seen[u] # {} => pc'[u].at \in {"copy", "indices"}
                      /\ \A b \in DOMAIN seen[u] : b \in pc'[u].reads /\ seen[u][b] = value'[b]
    BY DEF SeenInv
  <2>1. CASE u = t
    BY <2>1 DEF IInv, SeenInv
  <2>2. CASE u # t
    <3>1. /\ DOMAIN seen[u] # {} => pc[u].at \in {"copy", "indices"}
          /\ \A b \in DOMAIN seen[u] : b \in pc[u].reads /\ seen[u][b] = value[b]
      BY DEF IInv, SeenInv
    <3>2. \A b \in pc[u].reads : value'[b] = value[b]
      <4>1. pc[u].reads \subseteq Buffers
        BY CallType DEF IInv
      <4> QED
        BY <2>2, <4>1, <1>8, <1>10
    <3> QED
      BY <2>2, <3>1, <3>2, <1>4
  <2> QED
    BY <2>1, <2>2
<1> QED
  BY <1>2, <1>3, <1>5, <1>9, <1>11, <1>12 DEF IInv
-----------------------------------------------------------------------------
(* The invariant holds initially and every step preserves it.              *)
LEMMA InitIInv == Init => IInv
<1> SUFFICES ASSUME Init PROVE IInv
  OBVIOUS
<1>1. \A s \in Streams : queue[s] = <<>> /\ DOMAIN queue[s] = {}
  BY DEF Init
<1>2. TypeInv
  <2>1. queue \in [Streams -> Seq(Operations)]
    BY EmptySeq DEF Init
  <2>2. 0 \in Contents
    BY StreamsAssumption DEF Contents
  <2> QED
    BY <2>1, <2>2 DEF Init, TypeInv
<1>3. ThreadInv
  BY DEF Init, ThreadInv
<1>4. CallInv
  BY DEF Init, CallInv, Idle, Conflict
<1>5. OwnerInv /\ CopyInv /\ ExpectInv
  BY <1>1 DEF OwnerInv, CopyInv, ExpectInv
<1>6. SeenInv
  BY DEF Init, SeenInv
<1>7. ValueInv
  BY <1>1 DEF Init, ValueInv
<1> QED
  BY <1>2, <1>3, <1>4, <1>5, <1>6, <1>7 DEF IInv

\* Starting a copy from the host keeps the invariant.
LEMMA CopyFromHostStep ==
    ASSUME IInv, NEW t \in Threads, NEW b \in Buffers, CopyFromHost(t, b)
    PROVE  IInv'
<1> DEFINE x == [at |-> "copy", reads |-> {}, writes |-> {b}]
<1>1. /\ At(t, "idle") /\ Issue(t, {}, {b}, {}) /\ pc' = [pc EXCEPT ![t] = x]
      /\ UNCHANGED <<alive, active, previous, mem, seen>>
      /\ \A u \in Threads \ {t} : ~ Conflict([reads |-> {}, writes |-> {b}], pc[u])
  BY DEF CopyFromHost, MayCall
<1>2. \A u \in Threads \ {t} : ~ Conflict(x, pc[u])
  BY <1>1 DEF Conflict
<1>3. pc[t] = Idle /\ pc[t].at = "idle" /\ pc[t].reads = {} /\ pc[t].writes = {} /\ active[t] = NoContext
  BY <1>1, OtherThread DEF IInv, At, Idle
<1>4. pc'[t] = x /\ \A u \in Threads \ {t} : pc'[u] = pc[u]
  BY <1>1 DEF IInv, TypeInv
<1>5. ThreadInv'
  <2>1. Copying(t)'
    BY <1>4 DEF Copying
  <2> QED
    BY <1>1, <1>3, <1>4, <2>1, ThreadFrame DEF IInv
<1>6. x.reads = {} /\ x.writes = {b} /\ x.at = "copy"
  OBVIOUS
<1> HIDE DEF x
<1> QED
  BY <1>1, <1>2, <1>3, <1>5, <1>6, IssueStep

\* So does starting a copy to the host,
LEMMA CopyToHostStep ==
    ASSUME IInv, NEW t \in Threads, NEW b \in Buffers, CopyToHost(t, b)
    PROVE  IInv'
<1> DEFINE x == [at |-> "copy", reads |-> {b}, writes |-> {}]
<1>1. /\ At(t, "idle") /\ Issue(t, {b}, {}, {t}) /\ pc' = [pc EXCEPT ![t] = x]
      /\ UNCHANGED <<alive, active, previous, mem, seen>>
      /\ \A u \in Threads \ {t} : ~ Conflict([reads |-> {b}, writes |-> {}], pc[u])
  BY DEF CopyToHost, MayCall
<1>2. \A u \in Threads \ {t} : ~ Conflict(x, pc[u])
  BY <1>1 DEF Conflict
<1>3. pc[t] = Idle /\ pc[t].at = "idle" /\ pc[t].reads = {} /\ pc[t].writes = {} /\ active[t] = NoContext
  BY <1>1, OtherThread DEF IInv, At, Idle
<1>4. pc'[t] = x /\ \A u \in Threads \ {t} : pc'[u] = pc[u]
  BY <1>1 DEF IInv, TypeInv
<1>5. ThreadInv'
  <2>1. Copying(t)'
    BY <1>4 DEF Copying
  <2> QED
    BY <1>1, <1>3, <1>4, <2>1, ThreadFrame DEF IInv
<1>6. x.reads = {b} /\ x.writes = {} /\ x.at = "copy"
  OBVIOUS
<1> HIDE DEF x
<1> QED
  BY <1>1, <1>2, <1>3, <1>5, <1>6, IssueStep

\* A call that ends: the thread is idle again, and its stream is empty.
LEMMA EndStep ==
    ASSUME IInv, NEW t \in Threads, queue[StreamOf(t)] = <<>>,
           pc' = [pc EXCEPT ![t] = Idle], seen' = [seen EXCEPT ![t] = [b \in {} |-> 0]],
           active' \in [Threads -> Executables \cup {NoContext}], active'[t] = NoContext,
           \A u \in Threads \ {t} : active'[u] = active[u],
           UNCHANGED <<alive, previous, queue, mem, value>>
    PROVE  IInv'
<1>1. /\ pc'[t] = Idle /\ DOMAIN seen'[t] = {}
      /\ \A u \in Threads \ {t} : pc'[u] = pc[u] /\ seen'[u] = seen[u]
  BY DEF IInv, TypeInv
<1>2. TypeInv'
  BY DEF IInv, TypeInv
<1>3. ThreadInv'
  BY <1>1, ThreadFrame DEF IInv
<1>4. CallInv'
  <2> SUFFICES ASSUME NEW u \in Threads, NEW v \in Threads, u # v
               PROVE  ~ Conflict(pc'[u], pc'[v]) /\ (active'[u] = active'[v] => active'[u] = NoContext)
    BY DEF CallInv, Conflict
  <2>1. CASE u = t \/ v = t
    <3>1. Idle.reads = {} /\ Idle.writes = {}
      BY DEF Idle
    <3> QED
      BY <1>1, <2>1, <3>1 DEF Conflict
  <2>2. CASE u # t /\ v # t
    BY <1>1, <2>2 DEF IInv, CallInv
  <2> QED
    BY <2>1, <2>2
<1> QED
  BY <1>1, <1>2, <1>3, <1>4, SilentStep

\* and so does the return of a copy,
LEMMA CopyReturnsStep ==
    ASSUME IInv, NEW t \in Threads, CopyReturns(t)
    PROVE  IInv'
<1>1. active[t] = NoContext
  BY OtherThread DEF IInv, CopyReturns, At
<1> QED
  BY <1>1, EndStep DEF CopyReturns, Synchronized, IInv, TypeInv

\* The end of execute, by its return or by an exception.
LEMMA LeaveScopeStep ==
    ASSUME IInv, NEW t \in Threads, pc[t].at \in {"node", "indices", "kernel"},
           queue[StreamOf(t)] = <<>>, LeaveScope(t), UNCHANGED <<alive, previous, queue, mem, value>>
    PROVE  IInv'
<1>1. previous[t] = NoContext
  BY RunningThread DEF IInv
<1>2. /\ active' \in [Threads -> Executables \cup {NoContext}] /\ active'[t] = NoContext
      /\ \A u \in Threads \ {t} : active'[u] = active[u]
  BY <1>1 DEF LeaveScope, IInv, TypeInv
<1> QED
  BY <1>2, EndStep DEF LeaveScope

\* the exception of an execution,
LEMMA ExecuteThrowsStep ==
    ASSUME IInv, NEW t \in Threads, ExecuteThrows(t)
    PROVE  IInv'
BY LeaveScopeStep DEF ExecuteThrows, Synchronized, At

\* its return,
LEMMA ExecuteReturnsStep ==
    ASSUME IInv, NEW t \in Threads, ExecuteReturns(t)
    PROVE  IInv'
<1>1. StreamOf(t) = pc[t].exe
  BY RunningThread DEF IInv, ExecuteReturns, At
<1> QED
  BY <1>1, LeaveScopeStep DEF ExecuteReturns, Synchronized, At

\* Building and destroying an executable change nothing but which are alive.
LEMMA AliveStep ==
    ASSUME IInv, NEW t \in Threads, At(t, "idle"), alive' \subseteq Executables,
           \A u \in Threads : active[u] \in alive => active[u] \in alive',
           UNCHANGED <<active, previous, pc, queue, mem, seen, value>>
    PROVE  IInv'
<1>1. TypeInv'
  BY DEF IInv, TypeInv
<1>2. pc[t] = Idle /\ active[t] = NoContext
  BY OtherThread DEF IInv, At
<1>3. ThreadInv'
  BY <1>2, ThreadFrame DEF IInv
<1>4. CallInv'
  BY DEF IInv, CallInv, Conflict
<1>5. queue[StreamOf(t)] = <<>>
  BY IdleStreamIsEmpty DEF IInv
<1>6. DOMAIN seen'[t] = {}
  BY DEF IInv, SeenInv, At
<1> QED
  BY <1>1, <1>3, <1>4, <1>5, <1>6, SilentStep

\* the construction of an executable,
LEMMA BuildStep ==
    ASSUME IInv, NEW t \in Threads, NEW e \in Executables, Build(t, e)
    PROVE  IInv'
BY AliveStep DEF Build, IInv, TypeInv

\* its destruction,
LEMMA DestroyStep ==
    ASSUME IInv, NEW t \in Threads, NEW e \in Executables, Destroy(t, e)
    PROVE  IInv'
<1>1. ASSUME NEW u \in Threads, active[u] = e PROVE FALSE
  <2>1. e # NoContext
    BY StreamsAssumption
  <2>2. pc[u].at \in {"node", "indices", "kernel"}
    BY <1>1, <2>1, OtherThread DEF IInv
  <2>3. pc[u] = InExecute(u, pc[u].exe, pc[u].at, pc[u].node) /\ pc[u].exe = e
    BY <1>1, <2>2, RunningThread DEF IInv
  <2>4. "exe" \in DOMAIN pc[u]
    BY <2>3 DEF InExecute
  <2> QED
    BY <2>3, <2>4 DEF Destroy, Executing
<1>2. alive' = alive \ {e} /\ At(t, "idle") /\ UNCHANGED <<active, previous, pc, queue, mem, seen, value>>
  BY DEF Destroy
<1> QED
  BY <1>1, <1>2, AliveStep DEF IInv, TypeInv

\* and the start of its execution.
LEMMA ExecuteStep ==
    ASSUME IInv, NEW t \in Threads, NEW e \in Executables, Execute(t, e)
    PROVE  IInv'
<1> DEFINE x == InExecute(t, e, "node", 1)
<1>1. /\ e \in alive /\ At(t, "idle")
      /\ previous' = [previous EXCEPT ![t] = active[t]]
      /\ active' = [active EXCEPT ![t] = e]
      /\ pc' = [pc EXCEPT ![t] = x]
      /\ UNCHANGED <<alive, queue, mem, seen, value>>
  BY DEF Execute, MayCall
<1>2. \A u \in Threads \ {t} : ~ Conflict(x, pc[u])
  BY DEF Execute, MayCall, Conflict, InExecute
<1>3. active[t] = NoContext
  BY <1>1, OtherThread DEF IInv, At
<1>4. TypeInv'
  BY <1>1, <1>3 DEF IInv, TypeInv
<1>5. /\ pc'[t] = x /\ active'[t] = e /\ previous'[t] = NoContext
      /\ \A u \in Threads \ {t} : pc'[u] = pc[u] /\ active'[u] = active[u] /\ previous'[u] = previous[u]
  BY <1>1, <1>3 DEF IInv, TypeInv
<1>6. ThreadInv'
  <2>1. 1 \in 1 .. Len(Code[e]) + 1
    BY NodeType
  <2>2. Running(t, e)'
    BY <1>5, <2>1 DEF Running, InExecute
  <2> QED
    BY <1>1, <1>5, <2>2, ThreadFrame DEF IInv
<1>7. ASSUME NEW u \in Threads, active[u] = e PROVE FALSE
  <2>1. e # NoContext
    BY StreamsAssumption
  <2>2. pc[u].at \in {"node", "indices", "kernel"}
    BY <1>7, <2>1, OtherThread DEF IInv
  <2>3. pc[u] = InExecute(u, pc[u].exe, pc[u].at, pc[u].node) /\ pc[u].exe = e
    BY <1>7, <2>2, RunningThread DEF IInv
  <2>4. "exe" \in DOMAIN pc[u]
    BY <2>3 DEF InExecute
  <2> QED
    BY <2>3, <2>4 DEF Execute, Executing
<1>8. CallInv'
  <2> SUFFICES ASSUME NEW u \in Threads, NEW v \in Threads, u # v
               PROVE  ~ Conflict(pc'[u], pc'[v]) /\ (active'[u] = active'[v] => active'[u] = NoContext)
    BY DEF CallInv, Conflict
  <2> HIDE DEF x
  <2>1. CASE u = t
    BY <1>2, <1>5, <1>7, <2>1
  <2>2. CASE v = t
    BY <1>2, <1>5, <1>7, <2>2, ConflictIsSymmetric
  <2>3. CASE u # t /\ v # t
    BY <1>5, <2>3 DEF IInv, CallInv
  <2> QED
    BY <2>1, <2>2, <2>3
<1>9. queue[StreamOf(t)] = <<>>
  BY <1>1, IdleStreamIsEmpty DEF IInv
<1>10. DOMAIN seen'[t] = {}
  BY <1>1 DEF IInv, SeenInv, At
<1> HIDE DEF x
<1> QED
  BY <1>1, <1>4, <1>5, <1>6, <1>8, <1>9, <1>10, SilentStep

\* A thread that moves within its executable stays in order and in no conflict.
LEMMA NodeCall ==
    ASSUME IInv, NEW t \in Threads, pc[t].at \in {"node", "kernel"}, pc[t].node \in DOMAIN Code[pc[t].exe],
           NEW e, e = pc[t].exe, NEW label \in {"node", "indices"}, NEW k \in 1 .. Len(Code[e]) + 1,
           label # "node" => k \in DOMAIN Code[e],
           NEW x, x = InExecute(t, e, label, k), pc' = [pc EXCEPT ![t] = x],
           UNCHANGED <<alive, active, previous>>
    PROVE  /\ ThreadInv'
           /\ \A u \in Threads \ {t} : ~ Conflict(x, pc[u])
           /\ x.at = label /\ pc[t].reads \subseteq x.reads /\ pc[t].writes \subseteq x.writes
           /\ Node(t).reads \subseteq x.reads /\ Node(t).writes \subseteq x.writes
           /\ Node(t).indices \subseteq Node(t).reads
           /\ Node(t).reads \subseteq Buffers /\ Node(t).writes \subseteq Buffers
<1>1. /\ e \in alive /\ e \in Executables /\ pc[t] = InExecute(t, e, pc[t].at, pc[t].node)
      /\ active[t] = e /\ previous[t] = NoContext
  BY RunningThread DEF IInv
<1>2. x.reads = Reads(e) /\ x.writes = Writes(e) /\ x.at = label
  BY DEF InExecute
<1>3. pc[t].reads = Reads(e) /\ pc[t].writes = Writes(e)
  <2>1. /\ InExecute(t, e, pc[t].at, pc[t].node).reads = Reads(e)
        /\ InExecute(t, e, pc[t].at, pc[t].node).writes = Writes(e)
    BY DEF InExecute
  <2> QED
    BY <1>1, <2>1
<1>4. pc'[t] = x /\ \A u \in Threads \ {t} : pc'[u] = pc[u]
  BY DEF IInv, TypeInv
<1>5. ThreadInv'
  <2>1. Running(t, e)'
    BY <1>4 DEF Running, InExecute
  <2> QED
    BY <1>1, <1>4, <2>1, ThreadFrame DEF IInv
<1>6. \A u \in Threads \ {t} : ~ Conflict(x, pc[u])
  BY <1>2, <1>3 DEF IInv, CallInv, Conflict
<1>7. /\ Node(t).reads \subseteq Reads(e) /\ Node(t).writes \subseteq Writes(e)
      /\ Node(t).indices \subseteq Node(t).reads
      /\ Node(t).reads \subseteq Buffers /\ Node(t).writes \subseteq Buffers
  BY <1>1, NodeType DEF Node
<1> QED
  BY <1>2, <1>3, <1>5, <1>6, <1>7

\* Fetching the indices of a gather keeps the invariant,
LEMMA FetchIndicesStep ==
    ASSUME IInv, NEW t \in Threads, FetchIndices(t)
    PROVE  IInv'
<1>1. PICK e, k, x, r, w, to :
        /\ e = pc[t].exe /\ k = pc[t].node /\ x = InExecute(t, e, "indices", k)
        /\ r = Node(t).indices /\ w = {} /\ to = {t}
  OBVIOUS
<1>2. pc[t].at = "node" /\ k \in DOMAIN Code[e] /\ Issue(t, r, w, to) /\ UNCHANGED <<alive, active, previous, mem, seen>>
  BY <1>1 DEF FetchIndices, At
<1>3. e \in Executables /\ pc[t] = InExecute(t, e, "node", k) /\ k \in 1 .. Len(Code[e]) + 1
  BY <1>1, <1>2, RunningThread DEF IInv
<1>4. pc' = [pc EXCEPT ![t] = x]
  <2>1. [pc[t] EXCEPT !.at = "indices"] = x
    BY <1>1, <1>3 DEF InExecute
  <2> QED
    BY <2>1 DEF FetchIndices
<1>5. /\ ThreadInv'
      /\ \A u \in Threads \ {t} : ~ Conflict(x, pc[u])
      /\ x.at = "indices" /\ pc[t].reads \subseteq x.reads /\ pc[t].writes \subseteq x.writes
      /\ Node(t).reads \subseteq x.reads /\ Node(t).indices \subseteq Node(t).reads /\ Node(t).reads \subseteq Buffers
  BY <1>1, <1>2, <1>3, <1>4, NodeCall
<1>6. r \in SUBSET Buffers /\ w \in SUBSET Buffers /\ r \subseteq x.reads /\ w \subseteq x.writes /\ to \in SUBSET {t}
  BY <1>1, <1>5
<1> QED
  BY <1>1, <1>2, <1>4, <1>5, <1>6, IssueStep

\* and so does launching a kernel,
LEMMA LaunchKernelStep ==
    ASSUME IInv, NEW t \in Threads, LaunchKernel(t)
    PROVE  IInv'
<1>1. PICK e, k, n, x, r, w, to :
        /\ e = pc[t].exe /\ k = pc[t].node /\ n = k + 1 /\ x = InExecute(t, e, "node", n)
        /\ r = Node(t).reads /\ w = Node(t).writes /\ to = {}
  OBVIOUS
<1>2. pc[t].at \in {"node", "kernel"} /\ Issue(t, r, w, to) /\ UNCHANGED <<alive, active, previous, mem, seen>>
  BY <1>1 DEF LaunchKernel, At
<1>3. /\ e \in Executables /\ pc[t] = InExecute(t, e, pc[t].at, k)
      /\ pc[t].at # "node" => k \in DOMAIN Code[e]
  BY <1>1, <1>2, RunningThread DEF IInv
<1>4. k \in DOMAIN Code[e]
  BY <1>1, <1>3 DEF LaunchKernel, At
<1>5. n \in 1 .. Len(Code[e]) + 1
  BY <1>1, <1>3, <1>4, NodeType
<1>6. pc' = [pc EXCEPT ![t] = x]
  <2>1. [pc[t] EXCEPT !.at = "node"] = InExecute(t, e, "node", k)
    BY <1>3 DEF InExecute
  <2>2. [InExecute(t, e, "node", k) EXCEPT !.node = n] = x
    BY <1>1 DEF InExecute
  <2>3. pc' = [pc EXCEPT ![t] = [[pc[t] EXCEPT !.at = "node"] EXCEPT !.node = n]]
    BY <1>1, <1>3 DEF IInv, TypeInv, InExecute, LaunchKernel
  <2> QED
    BY <2>1, <2>2, <2>3
<1>7. /\ ThreadInv'
      /\ \A u \in Threads \ {t} : ~ Conflict(x, pc[u])
      /\ x.at = "node" /\ pc[t].reads \subseteq x.reads /\ pc[t].writes \subseteq x.writes
      /\ Node(t).reads \subseteq x.reads /\ Node(t).writes \subseteq x.writes
      /\ Node(t).reads \subseteq Buffers /\ Node(t).writes \subseteq Buffers
  BY <1>1, <1>2, <1>4, <1>5, <1>6, NodeCall
<1>8. r \in SUBSET Buffers /\ w \in SUBSET Buffers /\ r \subseteq x.reads /\ w \subseteq x.writes /\ to \in SUBSET {t}
  BY <1>1, <1>7
<1> QED
  BY <1>1, <1>2, <1>6, <1>7, <1>8, IssueStep

\* and checking the indices that were fetched.
LEMMA CheckIndicesStep ==
    ASSUME IInv, NEW t \in Threads, CheckIndices(t)
    PROVE  IInv'
<1> DEFINE e == pc[t].exe
           k == pc[t].node
           x == InExecute(t, e, "kernel", k)
<1>1. /\ pc[t].at = "indices" /\ queue[StreamOf(t)] = <<>>
      /\ pc' = [pc EXCEPT ![t].at = "kernel"]
      /\ seen' = [seen EXCEPT ![t] = [b \in {} |-> 0]]
      /\ UNCHANGED <<alive, active, previous, queue, mem, value>>
  BY DEF CheckIndices, At, Synchronized
<1>2. /\ e \in alive /\ e \in Executables /\ pc[t] = InExecute(t, e, "indices", k) /\ k \in DOMAIN Code[e]
      /\ k \in 1 .. Len(Code[e]) + 1
      /\ active[t] = e /\ previous[t] = NoContext
  BY <1>1, RunningThread DEF IInv
<1>3. pc' = [pc EXCEPT ![t] = x]
  <2>1. [pc[t] EXCEPT !.at = "kernel"] = x
    BY <1>2 DEF InExecute
  <2> QED
    BY <1>1, <2>1
<1>4. /\ pc'[t] = x /\ DOMAIN seen'[t] = {}
      /\ \A u \in Threads \ {t} : pc'[u] = pc[u] /\ seen'[u] = seen[u]
  BY <1>1, <1>3 DEF IInv, TypeInv
<1>5. TypeInv'
  BY <1>1, <1>3 DEF IInv, TypeInv
<1>6. ThreadInv'
  <2>1. Running(t, e)'
    BY <1>2, <1>4 DEF Running, InExecute
  <2> QED
    BY <1>1, <1>2, <1>4, <2>1, ThreadFrame DEF IInv
<1>7. pc'[t].reads = pc[t].reads /\ pc'[t].writes = pc[t].writes
  BY <1>2, <1>4 DEF InExecute
<1>8. CallInv'
  <2> SUFFICES ASSUME NEW u \in Threads, NEW v \in Threads, u # v
               PROVE  ~ Conflict(pc'[u], pc'[v]) /\ (active[u] = active[v] => active[u] = NoContext)
    BY <1>1 DEF CallInv, Conflict
  <2>1. \A z \in Threads : pc'[z].reads = pc[z].reads /\ pc'[z].writes = pc[z].writes
    BY <1>4, <1>7
  <2> QED
    BY <2>1 DEF IInv, CallInv, Conflict
<1> QED
  BY <1>1, <1>4, <1>5, <1>6, <1>8, SilentStep

\* The invariant is inductive.
LEMMA IInvIsInductive == IInv /\ [Next]_vars => IInv'
<1> SUFFICES ASSUME IInv, [Next]_vars PROVE IInv'
  OBVIOUS
<1>1. CASE UNCHANGED vars
  <2>1. TypeInv'
    BY <1>1 DEF IInv, TypeInv, vars
  <2>2. ThreadInv'
    BY <1>1, ZenonT(60) DEF IInv, ThreadInv, Copying, Running, InExecute, Idle, vars
  <2>3. CallInv' /\ OwnerInv' /\ CopyInv'
    BY <1>1 DEF IInv, CallInv, OwnerInv, CopyInv, Conflict, StreamOf, vars
  <2>4. SeenInv'
    BY <1>1 DEF IInv, SeenInv, vars
  <2>5. ExpectInv' /\ ValueInv'
    BY <1>1 DEF IInv, ExpectInv, ValueInv, Untouched, vars
  <2> QED
    BY <2>1, <2>2, <2>3, <2>4, <2>5 DEF IInv
<1>2. ASSUME NEW s \in Streams, Complete(s) PROVE IInv'
  BY <1>2, CompleteStep
<1>3. ASSUME NEW t \in Threads, NEW b \in Buffers, CopyFromHost(t, b) \/ CopyToHost(t, b) PROVE IInv'
  BY <1>3, CopyFromHostStep, CopyToHostStep
<1>4. ASSUME NEW t \in Threads, CopyReturns(t) PROVE IInv'
  BY <1>4, CopyReturnsStep
<1>5. ASSUME NEW t \in Threads, NEW e \in Executables, Build(t, e) \/ Destroy(t, e) \/ Execute(t, e) PROVE IInv'
  BY <1>5, BuildStep, DestroyStep, ExecuteStep
<1>6. ASSUME NEW t \in Threads, FetchIndices(t) \/ CheckIndices(t) \/ LaunchKernel(t) PROVE IInv'
  BY <1>6, FetchIndicesStep, CheckIndicesStep, LaunchKernelStep
<1>7. ASSUME NEW t \in Threads, ExecuteThrows(t) \/ ExecuteReturns(t) PROVE IInv'
  BY <1>7, ExecuteThrowsStep, ExecuteReturnsStep
<1> QED
  BY <1>1, <1>2, <1>3, <1>4, <1>5, <1>6, <1>7 DEF Next

\* The invariant holds in every reachable state.
LEMMA InvariantHolds == Spec => []IInv
BY InitIInv, IInvIsInductive, PTL DEF Spec
-----------------------------------------------------------------------------
(* Whatever executables, threads and copies there are, no buffer is ever   *)
(* written by one stream while another uses it: the wait at the end of     *)
(* every call is what makes streams that do not wait for each other safe.  *)
THEOREM StreamsNeverConflict == Spec => []NoTwoStreamsConflict
<1>1. IInv => NoTwoStreamsConflict
  <2> SUFFICES ASSUME IInv, NEW s \in Streams, NEW u \in Streams, s # u,
                      NEW o \in Range(queue[s]), NEW p \in Range(queue[u])
               PROVE  ~ Conflict(o, p)
    BY DEF NoTwoStreamsConflict
  <2>1. PICK i \in DOMAIN queue[s], j \in DOMAIN queue[u] : o = queue[s][i] /\ p = queue[u][j]
    BY DEF Range
  <2> QED
    BY <2>1, StreamsDoNotConflict DEF IInv
<1> QED
  BY <1>1, InvariantHolds, PTL

(* However execute ends, no thread keeps the context of an executable that *)
(* is destroyed later, and an executable is destroyed with nothing left in *)
(* its stream.                                                             *)
THEOREM ContextsAreAlive == Spec => []ContextsOutliveTheirUsers
<1>1. IInv => ContextsOutliveTheirUsers
  <2> SUFFICES ASSUME IInv PROVE ContextsOutliveTheirUsers
    OBVIOUS
  <2>1. \A t \in Threads : active[t] \in alive \cup {NoContext}
    BY DEF IInv, ThreadInv
  <2>2. ASSUME NEW e \in Executables \ alive, queue[e] # <<>> PROVE FALSE
    <3>1. e \in Streams /\ queue[e] \in Seq(Operations)
      BY DEF Streams, IInv, TypeInv
    <3>2. 1 \in DOMAIN queue[e]
      BY <2>2, <3>1, Shortened
    <3>3. PICK t \in Threads : StreamOf(t) = e
      BY <3>1, <3>2 DEF IInv, OwnerInv
    <3>4. active[t] = e /\ e # NoContext
      BY <3>3, StreamsAssumption DEF StreamOf, Default
    <3> QED
      BY <2>1, <3>4
  <2> QED
    BY <2>1, <2>2 DEF ContextsOutliveTheirUsers
<1> QED
  BY <1>1, InvariantHolds, PTL

(* What is copied to the host, and what memory holds once nothing that     *)
(* writes it is waiting, is what the operations make of it when each takes *)
(* effect at once: the asynchronous device is as good as a synchronous one.*)
THEOREM DeviceIsSequential == Spec => []DeviceActsInOrder
<1>1. IInv => DeviceActsInOrder
  <2> SUFFICES ASSUME IInv PROVE DeviceActsInOrder
    OBVIOUS
  <2>1. \A t \in Threads : \A b \in DOMAIN seen[t] : seen[t][b] = value[b]
    BY DEF IInv, SeenInv
  <2>2. ASSUME NEW b \in Buffers, \A s \in Streams : \A o \in Range(queue[s]) : b \notin o.writes
        PROVE  mem[b] = value[b]
    <3>1. \A s \in Streams : Untouched(queue[s], b, 1, Len(queue[s]))
      BY <2>2 DEF Untouched, Range
    <3> QED
      BY <3>1 DEF IInv, ValueInv
  <2> QED
    BY <2>1, <2>2 DEF DeviceActsInOrder
<1> QED
  BY <1>1, InvariantHolds, PTL
=============================================================================
