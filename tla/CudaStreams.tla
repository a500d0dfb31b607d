----------------------------- MODULE CudaStreams -----------------------------
(***************************************************************************)
(* The CUDA device behind execute: cuda/cuda_context.cu, cuda/storage.cu   *)
(* and the CUDA parts of src/executable.cpp.  Every executable owns a      *)
(* stream that does not wait for any other; kernels are put into the       *)
(* stream of the calling thread's active context and run later.  A thread  *)
(* without an active context uses a stream of its own, to which copies     *)
(* from and to the host go.  Only waiting for a stream orders its work     *)
(* with that of other streams.                                             *)
(*                                                                         *)
(* Callers follow one rule: of two calls that are under way at the same    *)
(* time none writes what the other reads or writes.  Errors of the device   *)
(* are left out: a kernel that cannot be launched makes execute throw past *)
(* the wait at its end, with the kernels before it still running.          *)
(***************************************************************************)
EXTENDS Integers, Sequences, FiniteSets, SequencesExt

CONSTANTS Threads,     \* threads of the program
          Executables, \* executables built for CUDA, each with its context
          Code,        \* their nodes: [reads, writes, indices], sets of buffers
          Buffers,     \* device memory
          NoContext,   \* a null pointer
          Versions     \* contents of a buffer that are told apart

ASSUME StreamsAssumption ==
    /\ NoContext \notin Executables
    /\ \A t \in Threads : <<"default", t>> \notin Executables
    /\ Versions \in Nat \ {0}
    /\ \A e \in Executables :
         /\ Code[e] \in Seq([reads : SUBSET Buffers, writes : SUBSET Buffers, indices : SUBSET Buffers])
         /\ \A k \in DOMAIN Code[e] : Code[e][k].indices \subseteq Code[e][k].reads

VARIABLES alive,    \* executables that have not been destroyed
          active,   \* t_active_context of every thread
          previous, \* _prev_ctx of the scope a thread is in
          pc,       \* what a thread is doing
          queue,    \* operations of a stream that are not finished, in order
          mem,      \* what device memory holds
          seen,     \* what a thread's last copy to the host has brought
          value     \* what memory would hold if operations took effect when they are issued

vars == <<alive, active, previous, pc, queue, mem, seen, value>>

\* get_cuda_context: the stream a thread puts its operations into.
Default(t) == <<"default", t>>
StreamOf(t) == IF active[t] # NoContext THEN active[t] ELSE Default(t)
Streams == Executables \cup {Default(t) : t \in Threads}

Junk == -1
NextVersion(b) == (value[b] + 1) % Versions

Idle == [at |-> "idle", reads |-> {}, writes |-> {}]
At(t, label) == pc[t].at = label

Init ==
    /\ alive = {}
    /\ active = [t \in Threads |-> NoContext]
    /\ previous = [t \in Threads |-> NoContext]
    /\ pc = [t \in Threads |-> Idle]
    /\ queue = [s \in Streams |-> <<>>]
    /\ mem = [b \in Buffers |-> 0]
    /\ seen = [t \in Threads |-> [b \in {} |-> 0]]
    /\ value = [b \in Buffers |-> 0]
-----------------------------------------------------------------------------
\* Two accesses to memory of which one at least is a write.
Conflict(x, y) == x.writes \cap (y.reads \cup y.writes) # {} \/ y.writes \cap x.reads # {}

\* A thread is inside execute of e.
Executing(e) == \E t \in Threads : "exe" \in DOMAIN pc[t] /\ pc[t].exe = e

\* The rule for callers.
MayCall(t, call) == At(t, "idle") /\ \A u \in Threads \ {t} : ~ Conflict(call, pc[u])

\* An operation that reads some buffers and writes others, put into the stream of thread t.
Operation(reads, writes, to) ==
    [reads |-> reads, writes |-> writes, to |-> to,
     expected |-> [b \in reads |-> value[b]], result |-> [b \in writes |-> NextVersion(b)]]

Issue(t, reads, writes, to) ==
    /\ queue' = [queue EXCEPT ![StreamOf(t)] = Append(@, Operation(reads, writes, to))]
    /\ value' = [b \in Buffers |-> IF b \in writes THEN NextVersion(b) ELSE value[b]]

\* cudaStreamSynchronize returns.
Synchronized(s) == queue[s] = <<>>

\* The first operation of a stream runs.
Complete(s) ==
    /\ queue[s] # <<>>
    /\ LET op == Head(queue[s])
           got == [b \in op.reads |-> mem[b]]
       IN  /\ mem' = [b \in Buffers |-> IF b \notin op.writes THEN mem[b]
                                        ELSE IF got = op.expected THEN op.result[b] ELSE Junk]
           /\ seen' = [t \in Threads |-> IF t \in op.to THEN got ELSE seen[t]]
    /\ queue' = [queue EXCEPT ![s] = Tail(@)]
    /\ UNCHANGED <<alive, active, previous, pc, value>>
-----------------------------------------------------------------------------
(* Copies: cuda_memcpy_h2d and cuda_memcpy_d2h.                            *)
CopyFromHost(t, b) ==
    /\ MayCall(t, [reads |-> {}, writes |-> {b}])
    /\ Issue(t, {}, {b}, {})
    /\ pc' = [pc EXCEPT ![t] = [at |-> "copy", reads |-> {}, writes |-> {b}]]
    /\ UNCHANGED <<alive, active, previous, mem, seen>>

CopyToHost(t, b) ==
    /\ MayCall(t, [reads |-> {b}, writes |-> {}])
    /\ Issue(t, {b}, {}, {t})
    /\ pc' = [pc EXCEPT ![t] = [at |-> "copy", reads |-> {b}, writes |-> {}]]
    /\ UNCHANGED <<alive, active, previous, mem, seen>>

\* Faulty: the copy is only put into the stream.
CopyReturnsAtOnce(t) ==
    /\ At(t, "copy")
    /\ pc' = [pc EXCEPT ![t] = Idle]
    /\ seen' = [seen EXCEPT ![t] = [b \in {} |-> 0]]
    /\ UNCHANGED <<alive, active, previous, queue, mem, value>>

\* Both wait for the stream.
CopyReturns(t) ==
    /\ At(t, "copy")
    /\ Synchronized(StreamOf(t))
    /\ pc' = [pc EXCEPT ![t] = Idle]
    /\ seen' = [seen EXCEPT ![t] = [b \in {} |-> 0]]
    /\ UNCHANGED <<alive, active, previous, queue, mem, value>>
-----------------------------------------------------------------------------
(* Building and destroying: the context lives as long as the executable.   *)
Build(t, e) ==
    /\ At(t, "idle")
    /\ e \notin alive
    /\ alive' = alive \cup {e}
    /\ UNCHANGED <<active, previous, pc, queue, mem, seen, value>>

\* ~Executable waits for its stream.
Destroy(t, e) ==
    /\ At(t, "idle")
    /\ e \in alive
    /\ ~ Executing(e)
    /\ Synchronized(e)
    /\ alive' = alive \ {e}
    /\ UNCHANGED <<active, previous, pc, queue, mem, seen, value>>
-----------------------------------------------------------------------------
(* Executable::execute.                                                    *)
Reads(e) == UNION {Code[e][k].reads : k \in DOMAIN Code[e]}
Writes(e) == UNION {Code[e][k].writes : k \in DOMAIN Code[e]}
InExecute(t, e, label, k) == [at |-> label, reads |-> Reads(e), writes |-> Writes(e), exe |-> e, node |-> k]
Node(t) == Code[pc[t].exe][pc[t].node]

\* ScopedCudaContext: the executable's context becomes active.
Execute(t, e) ==
    /\ e \in alive
    /\ ~ Executing(e)
    /\ MayCall(t, [reads |-> Reads(e), writes |-> Writes(e)])
    /\ previous' = [previous EXCEPT ![t] = active[t]]
    /\ active' = [active EXCEPT ![t] = e]
    /\ pc' = [pc EXCEPT ![t] = InExecute(t, e, "node", 1)]
    /\ UNCHANGED <<alive, queue, mem, seen, value>>

\* An Embedding waits for the kernels before it and copies its indices to the host.
FetchIndices(t) ==
    /\ At(t, "node") /\ pc[t].node \in DOMAIN Code[pc[t].exe]
    /\ Node(t).indices # {}
    /\ Synchronized(pc[t].exe)
    /\ Issue(t, Node(t).indices, {}, {t})
    /\ pc' = [pc EXCEPT ![t].at = "indices"]
    /\ UNCHANGED <<alive, active, previous, mem, seen>>

\* The indices have arrived and are in range; the vector that took them goes out of scope.
CheckIndices(t) ==
    /\ At(t, "indices")
    /\ Synchronized(StreamOf(t))
    /\ pc' = [pc EXCEPT ![t].at = "kernel"]
    /\ seen' = [seen EXCEPT ![t] = [b \in {} |-> 0]]
    /\ UNCHANGED <<alive, active, previous, queue, mem, value>>

\* The kernel of the node is put into the stream.
LaunchKernel(t) ==
    /\ \/ At(t, "node") /\ pc[t].node \in DOMAIN Code[pc[t].exe] /\ Node(t).indices = {}
       \/ At(t, "kernel")
    /\ Issue(t, Node(t).reads, Node(t).writes, {})
    /\ pc' = [pc EXCEPT ![t].at = "node", ![t].node = @ + 1]
    /\ UNCHANGED <<alive, active, previous, mem, seen>>

\* Faulty: the destructor leaves the executable's context in place.
LeavingContextActive(t) ==
    /\ UNCHANGED active
    /\ pc' = [pc EXCEPT ![t] = Idle]
    /\ seen' = [seen EXCEPT ![t] = [b \in {} |-> 0]]

\* ~ScopedCudaContext: the context before becomes active again.
LeaveScope(t) ==
    /\ active' = [active EXCEPT ![t] = previous[t]]
    /\ pc' = [pc EXCEPT ![t] = Idle]
    /\ seen' = [seen EXCEPT ![t] = [b \in {} |-> 0]]

\* An index is out of the vocabulary: execute is left by an exception.
ExecuteThrows(t) ==
    /\ At(t, "indices")
    /\ Synchronized(StreamOf(t))
    /\ LeaveScope(t)
    /\ UNCHANGED <<alive, previous, queue, mem, value>>

\* Faulty: execute returns when the last kernel has been launched.
ExecuteReturnsEarly(t) ==
    /\ At(t, "node") /\ pc[t].node = Len(Code[pc[t].exe]) + 1
    /\ LeaveScope(t)
    /\ UNCHANGED <<alive, previous, queue, mem, value>>

\* execute waits for its stream at the end.
ExecuteReturns(t) ==
    /\ At(t, "node") /\ pc[t].node = Len(Code[pc[t].exe]) + 1
    /\ Synchronized(pc[t].exe)
    /\ LeaveScope(t)
    /\ UNCHANGED <<alive, previous, queue, mem, value>>

Next ==
    \/ \E s \in Streams : Complete(s)
    \/ \E t \in Threads :
         \/ \E b \in Buffers : CopyFromHost(t, b) \/ CopyToHost(t, b)
         \/ CopyReturns(t)
         \/ \E e \in Executables : Build(t, e) \/ Destroy(t, e) \/ Execute(t, e)
         \/ FetchIndices(t)
         \/ CheckIndices(t)
         \/ LaunchKernel(t)
         \/ ExecuteThrows(t)
         \/ ExecuteReturns(t)

Spec == Init /\ [][Next]_vars
-----------------------------------------------------------------------------
(* No buffer is written by one stream while another uses it: the streams   *)
(* do not wait for each other, so what orders the kernels of a prefill     *)
(* with those of a decode graph that shares its cache, and both with the   *)
(* copies of any thread, is only that each call waits before it returns.   *)
NoTwoStreamsConflict ==
    \A s, u \in Streams : s # u =>
        \A o \in Range(queue[s]), p \in Range(queue[u]) : ~ Conflict(o, p)

(* No thread is left with the context of an executable that is gone, and   *)
(* nothing waits in the stream of one: however execute ended, by its       *)
(* return or by an exception, the next copy of that thread goes elsewhere. *)
ContextsOutliveTheirUsers ==
    /\ \A t \in Threads : active[t] \in alive \cup {NoContext}
    /\ \A e \in Executables \ alive : queue[e] = <<>>

(* What the host is given is what the operations issued before have made   *)
(* of it, as if each had taken effect at once, and a buffer that no queued *)
(* operation writes holds just that.                                       *)
DeviceActsInOrder ==
    /\ \A t \in Threads : pc[t].at \in {"copy", "indices"} =>
         \A b \in DOMAIN seen[t] : seen[t][b] = value[b]
    /\ \A b \in Buffers :
         (\A s \in Streams : \A o \in Range(queue[s]) : b \notin o.writes) => mem[b] = value[b]
=============================================================================
