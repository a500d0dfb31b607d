-------------------------- MODULE TaskSystemProofs --------------------------
(***************************************************************************)
(* Safety of the ISPC task runtime for any number of callers, workers,     *)
(* groups, launches and tasks; that no sleeping thread misses its          *)
(* notification, that the runtime implements fork-join, and that a single  *)
(* setter's thread budget is honoured.                                     *)
(***************************************************************************)
EXTENDS TaskSystemInv, FiniteSetTheorems, SequenceTheorems, TLAPS

\* The initial state has the types.
LEMMA TypeInit == Init => TypeOK
<1> SUFFICES ASSUME Init PROVE TypeOK
  OBVIOUS
<1> USE ConstantsAssumption DEF Init, Threads, KernelPcs, BudgetPcs, WorkerPcs
<1>1. /\ pc \in [Threads -> {"idle"} \cup KernelPcs \cup BudgetPcs \cup WorkerPcs]
      /\ \A c \in Callers : pc[c] \in {"idle"} \cup KernelPcs \cup BudgetPcs
      /\ \A w \in Workers : pc[w] \in WorkerPcs
  OBVIOUS
<1>2. handle \in [Callers -> Groups \cup {NULL}] /\ alive \in SUBSET Groups
  OBVIOUS
<1>3. refs \in [Groups -> Int] /\ remaining \in [Groups -> Int]
  OBVIOUS
<1>4. group \in [Launches -> Groups \cup {NULL}] /\ total \in [Launches -> 0 .. MaxTasks]
  OBVIOUS
<1>5. next \in [Launches -> Nat] /\ idx \in [Threads -> Nat]
  OBVIOUS
<1>6. queue \in Seq(Launches) /\ cur \in [Threads -> Launches \cup {NULL}]
  OBVIOUS
<1>7. stop \in BOOLEAN /\ workers \in SUBSET Workers
  OBVIOUS
<1>8. joining \in [Callers -> SUBSET Workers] /\ want \in [Callers -> Nat]
  OBVIOUS
<1>9. ran \in SUBSET (Launches \X Nat) /\ opened \in [Callers -> SUBSET Launches]
  OBVIOUS
<1> QED
  BY <1>1, <1>2, <1>3, <1>4, <1>5, <1>6, <1>7, <1>8, <1>9 DEF TypeOK

(* A group that is created or reused keeps the types.                       *)
LEMMA UseGroupType ==
  ASSUME TypeOK, NEW c \in Callers, NEW g \in Groups, UseGroup(c, g)
  PROVE  /\ handle' \in [Callers -> Groups \cup {NULL}]
         /\ alive' \in SUBSET Groups
         /\ refs' \in [Groups -> Int]
         /\ remaining' \in [Groups -> Int]
<1>1. CASE handle[c] # NULL
  BY <1>1 DEF UseGroup, TypeOK, groupVars
<1>2. CASE handle[c] = NULL
  <2> USE <1>2 DEF UseGroup, TypeOK
  <2>1. handle' \in [Callers -> Groups \cup {NULL}] /\ alive' \in SUBSET Groups
    OBVIOUS
  <2>2. refs' \in [Groups -> Int]
    OBVIOUS
  <2>3. remaining' \in [Groups -> Int]
    OBVIOUS
  <2> QED
    BY <2>1, <2>2, <2>3
<1> QED
  BY <1>1, <1>2

(* So does the thread that drops a reference.                               *)
LEMMA ReleaseGroupType ==
  ASSUME TypeOK, NEW g \in Groups, ReleaseGroup(g)
  PROVE  /\ alive' \in SUBSET Groups
         /\ refs' \in [Groups -> Int]
         /\ remaining' \in [Groups -> Int]
  BY DEF ReleaseGroup, TypeOK

(* A jump to a label of the thread's own.                                   *)
LEMMA GotoType ==
  ASSUME TypeOK, NEW t \in Threads, NEW label, Goto(t, label),
         t \in Callers => label \in {"idle"} \cup KernelPcs \cup BudgetPcs,
         t \in Workers => label \in WorkerPcs
  PROVE  /\ pc' \in [Threads -> {"idle"} \cup KernelPcs \cup BudgetPcs \cup WorkerPcs]
         /\ \A c \in Callers : pc'[c] \in {"idle"} \cup KernelPcs \cup BudgetPcs
         /\ \A w \in Workers : pc'[w] \in WorkerPcs
  BY ConstantsAssumption DEF Goto, TypeOK, Threads

(* What a thread works with while it holds an item.                         *)
LEMMA CurType ==
  ASSUME TypeOK, CurInv, NEW t \in Threads,
         Busy(t) \/ pc[t] = "claim" \/ (t \in Callers /\ Launching(t))
  PROVE  cur[t] \in Launches /\ group[cur[t]] \in Groups
  BY DEF TypeOK, CurInv

(* do_work takes an item of the queue and may drop the items before it.     *)
LEMMA PickType ==
  ASSUME TypeOK, NEW t \in Threads, PickPreferred(t) \/ PickFront(t)
  PROVE  /\ queue' \in Seq(Launches)
         /\ \E n \in DOMAIN queue : cur' = [cur EXCEPT ![t] = queue[n]]
         /\ \A m \in DOMAIN queue' : \E n \in DOMAIN queue : queue'[m] = queue[n]
<1>1. CASE PickPreferred(t)
  BY <1>1 DEF PickPreferred, Preferred, TypeOK
<1>2. CASE PickFront(t)
  <2>1. PICK n \in Claimable : /\ cur' = [cur EXCEPT ![t] = queue[n]]
                               /\ queue' = SubSeq(queue, n, Len(queue))
    BY <1>2 DEF PickFront
  <2>2. queue \in Seq(Launches) /\ n \in 1 .. Len(queue) /\ Len(queue) \in Nat
    BY DEF Claimable, TypeOK
  <2>3. \A m \in n .. Len(queue) : queue[m] \in Launches
    BY <2>2
  <2>4. /\ queue' \in Seq(Launches)
        /\ Len(queue') = Len(queue) - n + 1
        /\ \A m \in 1 .. Len(queue) - n + 1 : queue'[m] = queue[n + m - 1]
    BY <2>1, <2>2, <2>3, SubSeqProperties
  <2>5. \A m \in DOMAIN queue' : \E k \in DOMAIN queue : queue'[m] = queue[k]
    BY <2>2, <2>4
  <2>6. n \in DOMAIN queue
    BY DEF Claimable
  <2> QED
    BY <2>1, <2>4, <2>5, <2>6
<1> QED
  BY <1>1, <1>2

\* Every step keeps them.
LEMMA TypeStep == TypeOK /\ HandleInv /\ CurInv /\ [Next]_vars => TypeOK'
<1> SUFFICES ASSUME TypeOK, HandleInv, CurInv, [Next]_vars PROVE TypeOK'
  OBVIOUS
<1> USE ConstantsAssumption DEF TypeOK, Threads, KernelPcs, BudgetPcs, WorkerPcs, Goto,
        groupVars, itemVars, poolVars, histVars
<1>1. ASSUME NEW c \in Callers, BeginKernel(c) PROVE TypeOK'
  BY <1>1 DEF BeginKernel
<1>2. ASSUME NEW c \in Callers, NEW g \in Groups, ISPCAlloc(c, g) PROVE TypeOK'
  BY <1>2, UseGroupType DEF ISPCAlloc
<1>3. ASSUME NEW c \in Callers, NEW g \in Groups, NEW i \in Launches, NEW n \in 1 .. MaxTasks,
             LaunchInline(c, g, i, n) PROVE TypeOK'
  <2> USE <1>3 DEF LaunchInline
  <2>1. group' \in [Launches -> Groups \cup {NULL}]
    OBVIOUS
  <2>2. total' \in [Launches -> 0 .. MaxTasks] /\ next' \in [Launches -> Nat]
    OBVIOUS
  <2>3. ran' \in SUBSET (Launches \X Nat)
    OBVIOUS
  <2>4. opened' \in [Callers -> SUBSET Launches]
    OBVIOUS
  <2> QED
    BY <2>1, <2>2, <2>3, <2>4, UseGroupType
<1>4. ASSUME NEW c \in Callers, NEW g \in Groups, NEW i \in Launches, NEW n \in 1 .. MaxTasks,
             LaunchTasks(c, g, i, n) PROVE TypeOK'
  <2> USE <1>4 DEF LaunchTasks
  <2>1. group' \in [Launches -> Groups \cup {NULL}]
    OBVIOUS
  <2>2. total' \in [Launches -> 0 .. MaxTasks] /\ cur' \in [Threads -> Launches \cup {NULL}]
    OBVIOUS
  <2>3. opened' \in [Callers -> SUBSET Launches]
    OBVIOUS
  <2> QED
    BY <2>1, <2>2, <2>3, UseGroupType, GotoType
<1>5. ASSUME NEW c \in Callers, EndKernel(c) PROVE TypeOK'
  BY <1>5 DEF EndKernel
<1>6. ASSUME NEW c \in Callers, LaunchRef(c) PROVE TypeOK'
  <2>1. cur[c] \in Launches /\ handle[c] \in Groups
    BY <1>6, CurType DEF LaunchRef, Launching, HandleInv
  <2>2. refs' \in [Groups -> Int]
    BY <1>6, <2>1 DEF LaunchRef
  <2> QED
    BY <1>6, <2>2, GotoType DEF LaunchRef
<1>7. ASSUME NEW c \in Callers, LaunchCount(c) PROVE TypeOK'
  <2>1. cur[c] \in Launches /\ handle[c] \in Groups
    BY <1>7, CurType DEF LaunchCount, Launching, HandleInv
  <2>2. remaining' \in [Groups -> Int]
    BY <1>7, <2>1 DEF LaunchCount
  <2> QED
    BY <1>7, <2>2, GotoType DEF LaunchCount
<1>8. ASSUME NEW c \in Callers, Enqueue(c) PROVE TypeOK'
  <2>1. queue' \in Seq(Launches)
    BY <1>8, CurType DEF Enqueue, Launching
  <2>2. cur' \in [Threads -> Launches \cup {NULL}]
    BY <1>8 DEF Enqueue
  <2> QED
    BY <1>8, <2>1, <2>2, GotoType DEF Enqueue
<1>9. ASSUME NEW c \in Callers, NotifyWorkers(c) PROVE TypeOK'
  BY <1>9 DEF NotifyWorkers, WakeWorkersAndGo
<1>10. ASSUME NEW c \in Callers, SyncLoop(c) PROVE TypeOK'
  BY <1>10 DEF SyncLoop
<1>11. ASSUME NEW c \in Callers, SyncWait(c) PROVE TypeOK'
  BY <1>11 DEF SyncWait
<1>12. ASSUME NEW c \in Callers, SyncTimeout(c) PROVE TypeOK'
  BY <1>12 DEF SyncTimeout
<1>13. ASSUME NEW c \in Callers, SyncReturn(c) PROVE TypeOK'
  <2>1. handle[c] \in Groups
    BY <1>13 DEF SyncReturn, HandleInv
  <2>2. handle' \in [Callers -> Groups \cup {NULL}] /\ opened' \in [Callers -> SUBSET Launches]
    BY <1>13 DEF SyncReturn
  <2> QED
    BY <1>13, <2>1, <2>2, ReleaseGroupType, GotoType DEF SyncReturn
<1>14. ASSUME NEW t \in Threads, PickPreferred(t) \/ PickFront(t) PROVE TypeOK'
  <2>1. PICK n \in DOMAIN queue : cur' = [cur EXCEPT ![t] = queue[n]]
    BY <1>14, PickType
  <2>2. cur' \in [Threads -> Launches \cup {NULL}]
    BY <2>1
  <2>3. queue' \in Seq(Launches)
    BY <1>14, PickType
  <2> QED
    BY <1>14, <2>2, <2>3, GotoType DEF PickPreferred, PickFront
<1>27. ASSUME NEW t \in Threads, PickNothing(t) PROVE TypeOK'
  <2>1. queue' \in Seq(Launches)
    BY <1>27 DEF PickNothing
  <2> QED
    BY <1>27, <2>1, GotoType DEF PickNothing
<1>15. ASSUME NEW t \in Threads, Claim(t) PROVE TypeOK'
  <2>1. cur[t] \in Launches /\ next[cur[t]] \in Nat
    BY <1>15, CurType DEF Claim, NextFetchAdd
  <2>2. next' \in [Launches -> Nat]
    BY <1>15, <2>1 DEF Claim, NextFetchAdd
  <2>3. idx' \in [Threads -> Nat] /\ cur' \in [Threads -> Launches \cup {NULL}]
    BY <1>15, <2>1 DEF Claim, NextFetchAdd
  <2> QED
    BY <1>15, <2>2, <2>3, GotoType DEF Claim, NextFetchAdd
<1>16. ASSUME NEW t \in Threads, Run(t) PROVE TypeOK'
  BY <1>16 DEF Run, CurInv, Busy
<1>17. ASSUME NEW t \in Threads, Finish(t) PROVE TypeOK'
  <2>1. remaining' \in [Groups -> Int]
    BY <1>17, CurType DEF Finish, Busy
  <2> QED
    BY <1>17, <2>1, GotoType DEF Finish
<1>18. ASSUME NEW t \in Threads, Signal(t) PROVE TypeOK'
  BY <1>18 DEF Signal
<1>19. ASSUME NEW t \in Threads, Release(t) PROVE TypeOK'
  <2>1. cur' \in [Threads -> Launches \cup {NULL}] /\ idx' \in [Threads -> Nat]
    BY <1>19 DEF Release
  <2>2. group[cur[t]] \in Groups
    BY <1>19, CurType DEF Release, Busy
  <2> QED
    BY <1>19, <2>1, <2>2, ReleaseGroupType, GotoType DEF Release
<1>20. ASSUME NEW w \in Workers, WorkerCheck(w) \/ SpuriousWake(w) PROVE TypeOK'
  BY <1>20 DEF WorkerCheck, SpuriousWake
<1>21. ASSUME NEW c \in Callers, NEW n \in Budgets, SetBudget(c, n) PROVE TypeOK'
  BY <1>21 DEF SetBudget
<1>22. ASSUME NEW c \in Callers, Shutdown(c) PROVE TypeOK'
  BY <1>22 DEF Shutdown
<1>23. ASSUME NEW c \in Callers, ShutdownNotify(c) PROVE TypeOK'
  BY <1>23 DEF ShutdownNotify, WakeWorkersAndGo
<1>24. ASSUME NEW c \in Callers, Join(c) PROVE TypeOK'
  BY <1>24 DEF Join
<1>25. ASSUME NEW c \in Callers, NEW S \in SUBSET Workers, InitWorkers(c, S) PROVE TypeOK'
  BY <1>25 DEF InitWorkers
<1>26. CASE UNCHANGED vars
  BY <1>26 DEF vars
<1> QED
  BY <1>1, <1>2, <1>3, <1>4, <1>5, <1>6, <1>7, <1>8, <1>9, <1>10, <1>11, <1>12, <1>13, <1>14,
     <1>15, <1>16, <1>17, <1>18, <1>19, <1>20, <1>21, <1>22, <1>23, <1>24, <1>25, <1>26,
     <1>27
  DEF Next, Launch, CallerStep, WorkerStep, DoWork, Threads

-----------------------------------------------------------------------------
(* Steps that change neither what the groups count nor what a thread works  *)
(* on: they move a thread between labels of the same kind.                  *)

WorkPcs == {"launch_ref", "launch_count", "enqueue", "claim", "run", "finish", "signal", "release"}

SameWork(t) ==
    \/ pc'[t] = pc[t]
    \/ pc[t] \notin WorkPcs /\ pc'[t] \notin WorkPcs
    \/ pc[t] = "signal" /\ pc'[t] = "release"

Quiet ==
    /\ UNCHANGED <<handle, alive, refs, remaining, group, total, next, cur, idx, ran, opened>>
    /\ \A t \in Threads : SameWork(t)

QuietAction ==
    \/ \E c \in Callers :
          \/ BeginKernel(c) \/ EndKernel(c) \/ NotifyWorkers(c)
          \/ SyncLoop(c) \/ SyncWait(c) \/ SyncTimeout(c)
          \/ Shutdown(c) \/ ShutdownNotify(c) \/ Join(c)
          \/ \E S \in SUBSET Workers : InitWorkers(c, S)
          \/ \E n \in Budgets : SetBudget(c, n)
    \/ \E w \in Workers : WorkerCheck(w) \/ SpuriousWake(w)
    \/ \E t \in Threads : Signal(t)
    \/ UNCHANGED vars

\* A step is quiet, or uses a group, launches, counts or finishes a task.
LEMMA NextCases ==
  ASSUME [Next]_vars
  PROVE  \/ QuietAction
         \/ \E c \in Callers :
               \/ \E g \in Groups :
                     \/ ISPCAlloc(c, g)
                     \/ \E i \in Launches, n \in 1 .. MaxTasks :
                           LaunchInline(c, g, i, n) \/ LaunchTasks(c, g, i, n)
               \/ LaunchRef(c) \/ LaunchCount(c) \/ Enqueue(c) \/ SyncReturn(c)
         \/ \E t \in Threads :
               \/ PickPreferred(t) \/ PickFront(t) \/ PickNothing(t)
               \/ Claim(t) \/ Run(t) \/ Finish(t) \/ Release(t)
  BY DEF Next, QuietAction, Launch, CallerStep, WorkerStep, DoWork, Threads

\* A quiet action is a quiet step, and keeps the handles.
LEMMA QuietStep ==
  ASSUME TypeOK, HandleInv, EndInv, \A g \in Groups : remaining[g] >= 0, QuietAction
  PROVE  Quiet /\ queue' = queue /\ HandleInv' /\ EndInv'
<1> DEFINE Goal == Quiet /\ queue' = queue /\ HandleInv' /\ EndInv'
<1> USE ConstantsAssumption
    DEF Quiet, SameWork, WorkPcs, HandleInv, EndInv, Goto, KernelPcs, BudgetPcs, WorkerPcs,
        TypeOK, Threads, groupVars, itemVars, poolVars, histVars
<1>1. ASSUME NEW c \in Callers, BeginKernel(c) PROVE Goal
  BY <1>1 DEF BeginKernel
<1>2. ASSUME NEW c \in Callers, EndKernel(c) PROVE Goal
  BY <1>2 DEF EndKernel
<1>3. ASSUME NEW c \in Callers, NotifyWorkers(c) PROVE Goal
  BY <1>3 DEF NotifyWorkers, WakeWorkersAndGo
<1>4. ASSUME NEW c \in Callers, SyncLoop(c) PROVE Goal
  BY <1>4 DEF SyncLoop
<1>5. ASSUME NEW c \in Callers, SyncWait(c) PROVE Goal
  BY <1>5 DEF SyncWait
<1>6. ASSUME NEW c \in Callers, SyncTimeout(c) PROVE Goal
  BY <1>6 DEF SyncTimeout
<1>7. ASSUME NEW c \in Callers, Shutdown(c) PROVE Goal
  BY <1>7 DEF Shutdown
<1>8. ASSUME NEW c \in Callers, ShutdownNotify(c) PROVE Goal
  BY <1>8 DEF ShutdownNotify, WakeWorkersAndGo
<1>9. ASSUME NEW c \in Callers, Join(c) PROVE Goal
  BY <1>9 DEF Join
<1>10. ASSUME NEW c \in Callers, NEW S \in SUBSET Workers, InitWorkers(c, S) PROVE Goal
  BY <1>10 DEF InitWorkers
<1>11. ASSUME NEW c \in Callers, NEW n \in Budgets, SetBudget(c, n) PROVE Goal
  BY <1>11 DEF SetBudget
<1>12. ASSUME NEW w \in Workers, WorkerCheck(w) PROVE Goal
  BY <1>12 DEF WorkerCheck
<1>15. ASSUME NEW w \in Workers, SpuriousWake(w) PROVE Goal
  BY <1>15 DEF SpuriousWake
<1>13. ASSUME NEW t \in Threads, Signal(t) PROVE Goal
  BY <1>13 DEF Signal
<1>14. CASE UNCHANGED vars
  BY <1>14 DEF vars
<1> QED
  BY <1>1, <1>2, <1>3, <1>4, <1>5, <1>6, <1>7, <1>8, <1>9, <1>10, <1>11, <1>12, <1>13, <1>14, <1>15
  DEF QuietAction

(* The sets that the counters count are finite.                             *)
LEMMA Finite ==
  ASSUME NEW g
  PROVE  /\ IsFiniteSet(HeldTasks(g)) /\ Cardinality(HeldTasks(g)) \in Nat
         /\ IsFiniteSet(PendingTasks(g)) /\ Cardinality(PendingTasks(g)) \in Nat
         /\ IsFiniteSet(Owners(g)) /\ Cardinality(Owners(g)) \in Nat
<1>1. IsFiniteSet(0 .. MaxTasks - 1)
  BY ConstantsAssumption, FS_Interval
<1>2. IsFiniteSet(Tasks)
  BY <1>1, ConstantsAssumption, FS_Product DEF Tasks
<1>3. IsFiniteSet(HeldTasks(g))
  BY <1>2, FS_Subset DEF HeldTasks
<1>4. IsFiniteSet(PendingTasks(g))
  BY <1>2, FS_Subset DEF PendingTasks
<1>5. IsFiniteSet(Owners(g))
  BY ConstantsAssumption, FS_Subset DEF Owners
<1> QED
  BY <1>3, <1>4, <1>5, FS_CardinalityType

\* The counters of a group do not fall below zero.
LEMMA CountersNat ==
  ASSUME CountersExact
  PROVE  \A g \in Groups : refs[g] >= 0 /\ remaining[g] >= 0
  BY Finite DEF CountersExact

(* Tasks that count keep counting, and no others, over a quiet step.        *)
LEMMA QuietTasks ==
  ASSUME Quiet
  PROVE  /\ \A i \in Launches : \A k \in 0 .. MaxTasks - 1 :
               (Held(i, k)' <=> Held(i, k)) /\ (Pending(i, k)' <=> Pending(i, k))
         /\ \A t \in Threads : Busy(t)' <=> Busy(t)
<1> USE DEF Quiet, SameWork, WorkPcs
<1>1. \A t \in Threads : Busy(t)' <=> Busy(t)
  BY DEF Busy
<1>2. ASSUME NEW i \in Launches, NEW k \in 0 .. MaxTasks - 1, NEW t \in Threads
      PROVE  Holds(t, i, k)' <=> Holds(t, i, k)
  BY <1>1 DEF Holds
<1>3. \A c \in Callers : (pc'[c] = "launch_ref" <=> pc[c] = "launch_ref")
                      /\ (pc'[c] = "launch_count" <=> pc[c] = "launch_count")
  BY DEF Threads
<1>4. ASSUME NEW i \in Launches, NEW k \in 0 .. MaxTasks - 1
      PROVE  Held(i, k)' <=> Held(i, k)
  BY <1>2, <1>3 DEF Held
<1>5. ASSUME NEW i \in Launches, NEW k \in 0 .. MaxTasks - 1, NEW t \in Threads, Holds(t, i, k)
      PROVE  pc'[t] \in {"run", "finish"} <=> pc[t] \in {"run", "finish"}
  BY <1>5 DEF Holds, Busy
<1>6. ASSUME NEW i \in Launches, NEW k \in 0 .. MaxTasks - 1
      PROVE  Pending(i, k)' <=> Pending(i, k)
  BY <1>2, <1>3, <1>4, <1>5 DEF Pending
<1> QED
  BY <1>1, <1>4, <1>6

(* When the counted tasks and the owners stay, so do the counters' meaning. *)
LEMMA SameSets ==
  ASSUME NEW g,
         \A i \in Launches : \A k \in 0 .. MaxTasks - 1 :
            (group[i] = g /\ Held(i, k))' <=> (group[i] = g /\ Held(i, k))
  PROVE  HeldTasks(g)' = HeldTasks(g)
  BY DEF HeldTasks, Tasks

\* A group has as many pending tasks as before when none of its launches changes.
LEMMA SamePending ==
  ASSUME NEW g,
         \A i \in Launches : \A k \in 0 .. MaxTasks - 1 :
            (group[i] = g /\ Pending(i, k))' <=> (group[i] = g /\ Pending(i, k))
  PROVE  PendingTasks(g)' = PendingTasks(g)
  BY DEF PendingTasks, Tasks

\* A quiet step keeps the counters and the claims.
LEMMA QuietInv ==
  ASSUME TypeOK, CurInv, ClaimInv, CountersExact, HeldOpened, Quiet
  PROVE  CurInv' /\ ClaimInv' /\ CountersExact' /\ HeldOpened'
<1>1. \A t \in Threads :
        /\ Busy(t)' <=> Busy(t)
        /\ Launching(t)' <=> Launching(t)
        /\ pc'[t] = "claim" <=> pc[t] = "claim"
        /\ pc'[t] = "run" <=> pc[t] = "run"
  BY DEF Quiet, SameWork, WorkPcs, Launching, Busy
<1>2. CurInv'
  BY <1>1 DEF CurInv, Quiet, Busy, Launching, Threads
<1>3. ClaimInv'
  BY <1>1 DEF ClaimInv, Quiet, Holds, Busy
<1>4. \A g \in Groups :
        /\ HeldTasks(g)' = HeldTasks(g)
        /\ PendingTasks(g)' = PendingTasks(g)
        /\ Owners(g)' = Owners(g)
  BY QuietTasks, SameSets, SamePending DEF Quiet, Owners
<1>5. CountersExact'
  BY <1>4 DEF CountersExact, Quiet
<1>6. HeldOpened'
  BY QuietTasks DEF HeldOpened, Quiet
<1> QED
  BY <1>2, <1>3, <1>5, <1>6

-----------------------------------------------------------------------------
(* The steps that do change what counts, one lemma for each.                *)

(* Nobody owns an address that is free, and no task of it counts.           *)
LEMMA FreeGroup ==
  ASSUME CountersExact, NEW g \in Groups, g \notin alive
  PROVE  /\ HeldTasks(g) = {} /\ PendingTasks(g) = {} /\ Owners(g) = {}
         /\ refs[g] = 0 /\ remaining[g] = 0
<1>1. refs[g] = 0 /\ Cardinality(HeldTasks(g)) = 0 /\ Cardinality(Owners(g)) = 0
  BY Finite DEF CountersExact
<1>2. HeldTasks(g) = {} /\ Owners(g) = {}
  BY <1>1, Finite, FS_EmptySet
<1>3. PendingTasks(g) = {}
  BY <1>2 DEF PendingTasks, HeldTasks, Pending
<1>4. remaining[g] = 0
  BY <1>3, FS_EmptySet DEF CountersExact
<1> QED
  BY <1>1, <1>2, <1>3, <1>4

(* The group a kernel uses is its own, and a new one counts one reference.  *)
LEMMA UseGroupFacts ==
  ASSUME TypeOK, HandleInv, CountersExact, NEW c \in Callers, NEW g \in Groups, UseGroup(c, g)
  PROVE  /\ handle'[c] = g /\ \A d \in Callers \ {c} : handle'[d] = handle[d] /\ handle[d] # g
         /\ handle[c] \in {NULL, g}
         /\ handle[c] = NULL => g \notin alive
         /\ \A h \in Groups : refs'[h] - Cardinality(Owners(h)') = refs[h] - Cardinality(Owners(h))
         /\ remaining' = remaining
         /\ \A h \in Groups : h \in alive' <=> refs'[h] > 0
<1>1. CASE handle[c] # NULL
  <2>1. g = handle[c] /\ UNCHANGED <<handle, groupVars>>
    BY <1>1 DEF UseGroup
  <2>2. \A d \in Callers \ {c} : handle[d] # g
    BY <1>1, <2>1 DEF HandleInv
  <2>3. \A h \in Groups : Owners(h)' = Owners(h)
    BY <2>1 DEF Owners
  <2> QED
    BY <1>1, <2>1, <2>2, <2>3 DEF groupVars, CountersExact
<1>2. CASE handle[c] = NULL
  <2>1. /\ g \notin alive
        /\ handle' = [handle EXCEPT ![c] = g]
        /\ alive' = alive \cup {g}
        /\ refs' = [refs EXCEPT ![g] = 1]
        /\ remaining' = [remaining EXCEPT ![g] = 0]
    BY <1>2 DEF UseGroup
  <2>2. Owners(g) = {} /\ refs[g] = 0 /\ remaining[g] = 0
    BY <2>1, FreeGroup
  <2>3. handle'[c] = g /\ \A d \in Callers \ {c} : handle'[d] = handle[d] /\ handle[d] # g
    BY <2>1, <2>2 DEF Owners, TypeOK
  <2>4. Owners(g)' = {c}
    BY <2>3 DEF Owners
  <2>5. Cardinality(Owners(g)') = 1 /\ Cardinality(Owners(g)) = 0
    BY <2>2, <2>4, FS_Singleton, FS_EmptySet
  <2>6. refs'[g] - Cardinality(Owners(g)') = refs[g] - Cardinality(Owners(g))
    BY <2>1, <2>2, <2>5 DEF TypeOK
  <2>7. ASSUME NEW h \in Groups, h # g
        PROVE  refs'[h] - Cardinality(Owners(h)') = refs[h] - Cardinality(Owners(h))
    <3>1. Owners(h)' = Owners(h)
      BY <1>2, <2>3, <2>7, ConstantsAssumption DEF Owners
    <3> QED
      BY <2>1, <2>7, <3>1 DEF TypeOK
  <2>8. remaining' = remaining
    BY <2>1, <2>2 DEF TypeOK
  <2>9. \A h \in Groups : h \in alive' <=> refs'[h] > 0
    BY <2>1 DEF CountersExact, TypeOK
  <2> QED
    BY <1>2, <2>1, <2>3, <2>6, <2>7, <2>8, <2>9
<1> QED
  BY <1>1, <1>2

(* The invariant without the types, which TypeStep deals with.              *)
LEMMA IInvParts ==
  IInv <=> TypeOK /\ HandleInv /\ CurInv /\ LaunchInv /\ ClaimInv /\ CountersExact /\ HeldOpened /\ EndInv
  BY DEF IInv

(* No task of a new group counts yet.                                       *)
LEMMA NewGroupHeld ==
  ASSUME TypeOK, HandleInv, CountersExact, HeldOpened,
         NEW c \in Callers, NEW g \in Groups, UseGroup(c, g),
         NEW i \in Launches, NEW k \in 0 .. MaxTasks - 1, group[i] = g, Held(i, k)
  PROVE  handle[c] = g /\ i \in opened[c]
<1>1. CASE handle[c] = NULL
  <2>1. HeldTasks(g) = {}
    BY <1>1, UseGroupFacts, FreeGroup
  <2>2. <<i, k>> \in HeldTasks(g)
    BY DEF HeldTasks, Tasks
  <2> QED
    BY <2>1, <2>2
<1>2. CASE handle[c] # NULL
  BY <1>2, UseGroupFacts, ConstantsAssumption DEF HeldOpened
<1> QED
  BY <1>1, <1>2

(* While the same tasks count, the counters stay exact.                     *)
LEMMA UseGroupCounters ==
  ASSUME TypeOK, HandleInv, CountersExact, NEW c \in Callers, NEW g \in Groups, UseGroup(c, g),
         \A h \in Groups : HeldTasks(h)' = HeldTasks(h) /\ PendingTasks(h)' = PendingTasks(h)
  PROVE  CountersExact'
<1> SUFFICES ASSUME NEW h \in Groups
             PROVE  /\ refs'[h] = Cardinality(HeldTasks(h)') + Cardinality(Owners(h)')
                    /\ remaining'[h] = Cardinality(PendingTasks(h)')
                    /\ h \in alive' <=> refs'[h] > 0
  BY DEF CountersExact
<1>1. refs'[h] - Cardinality(Owners(h)') = refs[h] - Cardinality(Owners(h))
  BY UseGroupFacts
<1>2. Cardinality(Owners(h)) \in Nat /\ Cardinality(HeldTasks(h)) \in Nat
  BY Finite
<1>3. refs'[h] \in Int
  BY UseGroupType
<1>4. Cardinality(Owners(h)') \in Nat
  BY FS_Subset, FS_CardinalityType, ConstantsAssumption DEF Owners
<1> QED
  BY <1>1, <1>2, <1>3, <1>4, UseGroupFacts DEF CountersExact

\* ISPCAlloc keeps the invariant.
LEMMA AllocStep ==
  ASSUME IInv, NEW c \in Callers, NEW g \in Groups, ISPCAlloc(c, g)
  PROVE  HandleInv' /\ CurInv' /\ LaunchInv' /\ ClaimInv' /\ CountersExact' /\ HeldOpened' /\ EndInv'
<1> USE IInvParts
<1>1. /\ UseGroup(c, g) /\ pc[c] = "kernel"
      /\ UNCHANGED <<pc, group, total, next, queue, cur, idx, ran, opened>>
  BY DEF ISPCAlloc, itemVars, histVars
<1>2. /\ handle'[c] = g /\ handle[c] \in {NULL, g}
      /\ \A d \in Callers \ {c} : handle'[d] = handle[d] /\ handle[d] # g
      /\ remaining' = remaining
  BY <1>1, UseGroupFacts
<1>3. HandleInv'
  BY <1>1, <1>2, ConstantsAssumption DEF HandleInv, KernelPcs
<1>4. CurInv' /\ LaunchInv' /\ ClaimInv'
  BY <1>1 DEF CurInv, LaunchInv, ClaimInv, Busy, Launching, Holds
<1>5. \A i \in Launches : \A k \in 0 .. MaxTasks - 1 :
         (Held(i, k)' <=> Held(i, k)) /\ (Pending(i, k)' <=> Pending(i, k))
  BY <1>1 DEF Held, Pending, Holds, Busy
<1>6. \A h \in Groups : HeldTasks(h)' = HeldTasks(h) /\ PendingTasks(h)' = PendingTasks(h)
  BY <1>1, <1>5, SameSets, SamePending
<1>7. CountersExact'
  BY <1>1, <1>6, UseGroupCounters
<1>8. HeldOpened'
  <2> SUFFICES ASSUME NEW d \in Callers, NEW i \in Launches, NEW k \in 0 .. MaxTasks - 1,
                      handle'[d] # NULL, handle'[d] = group[i], Held(i, k)
               PROVE  i \in opened[d]
    BY <1>1, <1>5 DEF HeldOpened
  <2>1. CASE d = c
    BY <1>1, <1>2, <2>1, NewGroupHeld
  <2>2. CASE d # c
    BY <1>2, <2>2 DEF HeldOpened
  <2> QED
    BY <2>1, <2>2
<1>9. EndInv'
  BY <1>1, <1>2 DEF EndInv
<1> QED
  BY <1>3, <1>4, <1>7, <1>8, <1>9

(* Nothing refers to a launch before it happens.                            *)
LEMMA FreshLaunch ==
  ASSUME TypeOK, HandleInv, CurInv, LaunchInv, NEW i \in Launches, group[i] = NULL
  PROVE  /\ total[i] = 0 /\ next[i] = 0
         /\ \A t \in Threads : cur[t] # i
         /\ \A n \in DOMAIN queue : queue[n] # i
         /\ \A d \in Callers : i \notin opened[d]
         /\ \A k \in 0 .. MaxTasks - 1 : ~Held(i, k) /\ ~Pending(i, k)
<1>1. total[i] = 0 /\ next[i] = 0 /\ \A n \in DOMAIN queue : queue[n] # i
  BY DEF LaunchInv
<1>2. \A t \in Threads : cur[t] # i
  BY ConstantsAssumption DEF CurInv
<1>3. \A d \in Callers : i \notin opened[d]
  BY DEF HandleInv
<1>4. \A k \in 0 .. MaxTasks - 1 : ~Held(i, k) /\ ~Pending(i, k)
  BY <1>1 DEF Held, Pending
<1> QED
  BY <1>1, <1>2, <1>3, <1>4

\* So does a launch run by its caller,
LEMMA LaunchInlineStep ==
  ASSUME IInv, NEW c \in Callers, NEW g \in Groups, NEW i \in Launches, NEW n \in 1 .. MaxTasks,
         LaunchInline(c, g, i, n)
  PROVE  HandleInv' /\ CurInv' /\ LaunchInv' /\ ClaimInv' /\ CountersExact' /\ HeldOpened' /\ EndInv'
<1> USE IInvParts
<1>1. /\ UseGroup(c, g) /\ pc[c] = "kernel" /\ group[i] = NULL
      /\ group' = [group EXCEPT ![i] = g]
      /\ total' = [total EXCEPT ![i] = n]
      /\ next' = [next EXCEPT ![i] = n]
      /\ ran' = ran \cup ({i} \X (0 .. n - 1))
      /\ opened' = [opened EXCEPT ![c] = @ \cup {i}]
      /\ UNCHANGED <<pc, queue, cur, idx>>
  BY DEF LaunchInline
<1>2. /\ handle'[c] = g /\ handle[c] \in {NULL, g}
      /\ \A d \in Callers \ {c} : handle'[d] = handle[d] /\ handle[d] # g
      /\ remaining' = remaining
  BY <1>1, UseGroupFacts
<1>3. /\ total[i] = 0 /\ next[i] = 0
      /\ \A t \in Threads : cur[t] # i
      /\ \A m \in DOMAIN queue : queue[m] # i
      /\ \A d \in Callers : i \notin opened[d]
      /\ \A k \in 0 .. MaxTasks - 1 : ~Held(i, k) /\ ~Pending(i, k)
  BY <1>1, FreshLaunch
<1>4. /\ group'[i] = g /\ total'[i] = n /\ next'[i] = n
      /\ \A j \in Launches \ {i} : group'[j] = group[j] /\ total'[j] = total[j] /\ next'[j] = next[j]
      /\ opened'[c] = opened[c] \cup {i} /\ \A d \in Callers \ {c} : opened'[d] = opened[d]
  BY <1>1 DEF TypeOK
<1>5. HandleInv'
  BY <1>1, <1>2, <1>3, <1>4, ConstantsAssumption DEF HandleInv, KernelPcs, TypeOK
<1>6. CurInv'
  BY <1>1, <1>3, <1>4 DEF CurInv, Busy, Launching, TypeOK
<1>7. LaunchInv'
  BY <1>1, <1>3, <1>4, ConstantsAssumption DEF LaunchInv, CurInv, Launching, TypeOK, Threads
<1>8. ClaimInv'
  BY <1>1, <1>3, <1>4 DEF ClaimInv, CurInv, Busy, Holds, TypeOK
<1>9. \A j \in Launches \ {i} : \A k \in 0 .. MaxTasks - 1 :
         (Held(j, k)' <=> Held(j, k)) /\ (Pending(j, k)' <=> Pending(j, k))
  BY <1>1, <1>4 DEF Held, Pending, Holds, Busy
<1>10. \A k \in 0 .. MaxTasks - 1 : ~Held(i, k)' /\ ~Pending(i, k)'
  BY <1>1, <1>3, <1>4 DEF Held, Pending, Holds
<1>11. \A h \in Groups : HeldTasks(h)' = HeldTasks(h) /\ PendingTasks(h)' = PendingTasks(h)
  BY <1>3, <1>4, <1>9, <1>10, SameSets, SamePending
<1>12. CountersExact'
  BY <1>1, <1>11, UseGroupCounters
<1>13. HeldOpened'
  <2> SUFFICES ASSUME NEW d \in Callers, NEW j \in Launches, NEW k \in 0 .. MaxTasks - 1,
                      handle'[d] # NULL, handle'[d] = group'[j], Held(j, k)'
               PROVE  j \in opened'[d]
    BY DEF HeldOpened
  <2>1. j # i /\ Held(j, k) /\ group'[j] = group[j]
    BY <1>4, <1>9, <1>10
  <2>2. CASE d = c
    BY <1>1, <1>2, <1>4, <2>1, <2>2, NewGroupHeld
  <2>3. CASE d # c
    BY <1>2, <1>4, <2>1, <2>3 DEF HeldOpened
  <2> QED
    BY <2>2, <2>3
<1>14. EndInv'
  BY <1>1, <1>2 DEF EndInv
<1> QED
  BY <1>5, <1>6, <1>7, <1>8, <1>12, <1>13, <1>14

\* and one that is queued for the workers.
LEMMA LaunchTasksStep ==
  ASSUME IInv, NEW c \in Callers, NEW g \in Groups, NEW i \in Launches, NEW n \in 1 .. MaxTasks,
         LaunchTasks(c, g, i, n)
  PROVE  HandleInv' /\ CurInv' /\ LaunchInv' /\ ClaimInv' /\ CountersExact' /\ HeldOpened' /\ EndInv'
<1> USE IInvParts
<1>1. /\ UseGroup(c, g) /\ pc[c] = "kernel" /\ group[i] = NULL
      /\ group' = [group EXCEPT ![i] = g]
      /\ total' = [total EXCEPT ![i] = n]
      /\ cur' = [cur EXCEPT ![c] = i]
      /\ opened' = [opened EXCEPT ![c] = @ \cup {i}]
      /\ pc' = [pc EXCEPT ![c] = "launch_ref"]
      /\ UNCHANGED <<next, queue, idx, ran>>
  BY DEF LaunchTasks, Goto
<1>2. /\ handle'[c] = g /\ handle[c] \in {NULL, g}
      /\ \A d \in Callers \ {c} : handle'[d] = handle[d] /\ handle[d] # g
      /\ remaining' = remaining
  BY <1>1, UseGroupFacts
<1>3. /\ total[i] = 0 /\ next[i] = 0
      /\ \A t \in Threads : cur[t] # i
      /\ \A m \in DOMAIN queue : queue[m] # i
      /\ \A d \in Callers : i \notin opened[d]
      /\ \A k \in 0 .. MaxTasks - 1 : ~Held(i, k) /\ ~Pending(i, k)
  BY <1>1, FreshLaunch
<1>4. /\ group'[i] = g /\ total'[i] = n
      /\ \A j \in Launches \ {i} : group'[j] = group[j] /\ total'[j] = total[j]
      /\ opened'[c] = opened[c] \cup {i} /\ \A d \in Callers \ {c} : opened'[d] = opened[d]
      /\ cur'[c] = i /\ pc'[c] = "launch_ref"
      /\ \A t \in Threads \ {c} : cur'[t] = cur[t] /\ pc'[t] = pc[t]
  BY <1>1 DEF TypeOK, Threads
<1>5. HandleInv'
  <2>1. "launch_ref" \in KernelPcs /\ "kernel" \in KernelPcs
    BY DEF KernelPcs
  <2>2. \A d \in Callers : \A j \in opened'[d] : group'[j] = handle'[d]
    BY <1>1, <1>2, <1>3, <1>4 DEF HandleInv, TypeOK
  <2>3. \A d \in Callers :
          /\ pc'[d] \notin KernelPcs => handle'[d] = NULL
          /\ pc'[d] \in KernelPcs \ {"kernel"} => handle'[d] \in Groups
    BY <1>1, <1>2, <1>4, <2>1 DEF HandleInv, Threads
  <2> QED
    BY <1>1, <1>2, <1>4, <2>2, <2>3, ConstantsAssumption DEF HandleInv
<1>6. CurInv'
  BY <1>1, <1>3, <1>4, ConstantsAssumption DEF CurInv, Busy, Launching, TypeOK, Threads
<1>7. LaunchInv'
  BY <1>1, <1>3, <1>4, ConstantsAssumption DEF LaunchInv, CurInv, Launching, TypeOK, Threads
<1>8. ClaimInv'
  BY <1>1, <1>3, <1>4 DEF ClaimInv, CurInv, Busy, Holds, TypeOK
<1>9. \A j \in Launches \ {i} : \A k \in 0 .. MaxTasks - 1 :
         (Held(j, k)' <=> Held(j, k)) /\ (Pending(j, k)' <=> Pending(j, k))
  <2> SUFFICES ASSUME NEW j \in Launches \ {i}, NEW k \in 0 .. MaxTasks - 1
               PROVE  (Held(j, k)' <=> Held(j, k)) /\ (Pending(j, k)' <=> Pending(j, k))
    OBVIOUS
  <2>1. \A t \in Threads : (Holds(t, j, k)' <=> Holds(t, j, k)) /\ (Holds(t, j, k) => t # c)
    BY <1>1, <1>4 DEF Holds, Busy, Threads
  <2>2. Held(j, k)' <=> Held(j, k)
    BY <1>1, <1>4, <2>1 DEF Held, Threads
  <2>3. Pending(j, k)' <=> Pending(j, k)
    BY <1>1, <1>4, <2>1, <2>2 DEF Pending, Threads
  <2> QED
    BY <2>2, <2>3
<1>10. \A k \in 0 .. MaxTasks - 1 : ~Held(i, k)' /\ ~Pending(i, k)'
  BY <1>1, <1>3, <1>4 DEF Held, Pending, Holds
<1>11. \A h \in Groups : HeldTasks(h)' = HeldTasks(h) /\ PendingTasks(h)' = PendingTasks(h)
  BY <1>3, <1>4, <1>9, <1>10, SameSets, SamePending
<1>12. CountersExact'
  BY <1>1, <1>11, UseGroupCounters
<1>13. HeldOpened'
  <2> SUFFICES ASSUME NEW d \in Callers, NEW j \in Launches, NEW k \in 0 .. MaxTasks - 1,
                      handle'[d] # NULL, handle'[d] = group'[j], Held(j, k)'
               PROVE  j \in opened'[d]
    BY DEF HeldOpened
  <2>1. j # i /\ Held(j, k) /\ group'[j] = group[j]
    BY <1>4, <1>9, <1>10
  <2>2. CASE d = c
    BY <1>1, <1>2, <1>4, <2>1, <2>2, NewGroupHeld
  <2>3. CASE d # c
    BY <1>2, <1>4, <2>1, <2>3 DEF HeldOpened
  <2> QED
    BY <2>2, <2>3
<1>14. EndInv'
  BY <1>1, <1>2, <1>4 DEF EndInv, Threads
<1> QED
  BY <1>5, <1>6, <1>7, <1>8, <1>12, <1>13, <1>14

(* The tasks of a launch of n tasks.                                        *)
LEMMA TasksCardinality ==
  ASSUME NEW i, NEW n \in Nat
  PROVE  IsFiniteSet({i} \X (0 .. n - 1)) /\ Cardinality({i} \X (0 .. n - 1)) = n
<1>1. IsFiniteSet(0 .. n - 1) /\ Cardinality(0 .. n - 1) = n
  BY FS_Interval
<1>2. IsFiniteSet({i}) /\ Cardinality({i}) = 1
  BY FS_Singleton
<1> QED
  BY <1>1, <1>2, FS_Product

(* Tasks that were not in a set add their number to it.                     *)
LEMMA AddedTasks ==
  ASSUME NEW S, IsFiniteSet(S), NEW i, NEW n \in Nat, NEW T, T = {i} \X (0 .. n - 1),
         S \cap T = {}
  PROVE  Cardinality(S \cup T) = Cardinality(S) + n
<1>1. IsFiniteSet(T) /\ Cardinality(T) = n
  BY TasksCardinality
<1>2. Cardinality(S \cap T) = 0
  BY FS_EmptySet
<1>3. Cardinality(S \cup T) = Cardinality(S) + Cardinality(T) - Cardinality(S \cap T)
  BY <1>1, FS_Union
<1>4. Cardinality(S) \in Nat
  BY FS_CardinalityType
<1> QED
  BY <1>1, <1>2, <1>3, <1>4

(* Inside ISPCLaunch a caller works with an item of its own group.          *)
LEMMA LaunchFacts ==
  ASSUME IInv, NEW c \in Callers, Launching(c)
  PROVE  /\ cur[c] \in Launches /\ handle[c] \in Groups /\ group[cur[c]] = handle[c]
         /\ total[cur[c]] \in Nat /\ total[cur[c]] <= MaxTasks /\ next[cur[c]] = 0
         /\ \A t \in Threads : cur[t] = cur[c] => t = c
         /\ \A d \in Callers \ {c} : handle[d] # handle[c]
<1> USE IInvParts
<1>1. cur[c] \in Launches /\ cur[c] \in opened[c] /\ next[cur[c]] = 0
      /\ \A t \in Threads : cur[t] = cur[c] => t = c
  BY CurType DEF LaunchInv, Threads
<1>2. handle[c] \in Groups
  BY DEF HandleInv, Launching, KernelPcs
<1>3. group[cur[c]] = handle[c]
  BY <1>1 DEF HandleInv
<1>4. \A d \in Callers \ {c} : handle[d] # handle[c]
  BY <1>2, ConstantsAssumption DEF HandleInv
<1>5. total[cur[c]] \in Nat /\ total[cur[c]] <= MaxTasks
  BY <1>1, ConstantsAssumption DEF TypeOK
<1> QED
  BY <1>1, <1>2, <1>3, <1>4, <1>5

(* add_ref(total): the references of the tasks are taken before any of them *)
(* can be claimed.                                                          *)
LEMMA LaunchRefStep ==
  ASSUME IInv, NEW c \in Callers, LaunchRef(c)
  PROVE  HandleInv' /\ CurInv' /\ LaunchInv' /\ ClaimInv' /\ CountersExact' /\ HeldOpened' /\ EndInv'
<1> USE IInvParts
<1> DEFINE i == cur[c]
           g == handle[c]
<1>1. /\ pc[c] = "launch_ref"
      /\ pc' = [pc EXCEPT ![c] = "launch_count"]
      /\ refs' = [refs EXCEPT ![g] = @ + total[i]]
      /\ UNCHANGED <<handle, alive, remaining, group, total, next, queue, cur, idx, ran, opened>>
  BY DEF LaunchRef, Goto, itemVars, histVars
<1>2. /\ i \in Launches /\ g \in Groups /\ group[i] = g
      /\ total[i] \in Nat /\ total[i] <= MaxTasks /\ next[i] = 0
      /\ \A t \in Threads : cur[t] = i => t = c
      /\ \A d \in Callers \ {c} : handle[d] # g
  BY <1>1, LaunchFacts DEF Launching
<1>3. pc'[c] = "launch_count" /\ \A t \in Threads \ {c} : pc'[t] = pc[t]
  BY <1>1 DEF TypeOK, Threads
<1>4. \A t \in Threads : (Busy(t)' <=> Busy(t)) /\ (Launching(t)' <=> Launching(t))
                         /\ (pc'[t] = "claim" <=> pc[t] = "claim")
                         /\ (pc'[t] = "run" <=> pc[t] = "run")
  BY <1>1, <1>3 DEF Busy, Launching
<1>5. HandleInv'
  BY <1>1, <1>3 DEF HandleInv, KernelPcs, Threads
<1>6. CurInv'
  BY <1>1, <1>4 DEF CurInv, Busy, Launching, Threads
<1>7. LaunchInv'
  BY <1>1, <1>4 DEF LaunchInv, Launching, Threads
<1>8. ClaimInv'
  BY <1>1, <1>4 DEF ClaimInv, Holds, Busy
<1>9. \A t \in Threads, j \in Launches : \A k \in 0 .. MaxTasks - 1 :
         (Holds(t, j, k)' <=> Holds(t, j, k)) /\ (Holds(t, j, k) => pc'[t] = pc[t])
  BY <1>1, <1>3 DEF Holds, Busy
<1>10. \A j \in Launches \ {i} : \A k \in 0 .. MaxTasks - 1 :
          (Held(j, k)' <=> Held(j, k)) /\ (Pending(j, k)' <=> Pending(j, k))
  <2> SUFFICES ASSUME NEW j \in Launches \ {i}, NEW k \in 0 .. MaxTasks - 1
               PROVE  (Held(j, k)' <=> Held(j, k)) /\ (Pending(j, k)' <=> Pending(j, k))
    OBVIOUS
  <2>1. Held(j, k)' <=> Held(j, k)
    BY <1>1, <1>3, <1>9 DEF Held, Threads
  <2>2. Pending(j, k)' <=> Pending(j, k)
    BY <1>1, <1>3, <1>9, <2>1 DEF Pending, Threads
  <2> QED
    BY <2>1, <2>2
<1>11. \A k \in 0 .. MaxTasks - 1 :
          /\ ~Held(i, k) /\ ~Pending(i, k) /\ ~Pending(i, k)'
          /\ Held(i, k)' <=> k < total[i]
  <2> TAKE k \in 0 .. MaxTasks - 1
  <2>1. ~Held(i, k) /\ ~Pending(i, k)
    BY <1>1 DEF Held, Pending
  <2>2. ~Pending(i, k)'
    BY <1>1, <1>3 DEF Pending
  <2>3. Held(i, k)' <=> k < total[i]
    BY <1>1, <1>2, <1>3, ConstantsAssumption DEF Held, Threads
  <2> QED
    BY <2>1, <2>2, <2>3
<1>12. \A h \in Groups : PendingTasks(h)' = PendingTasks(h)
  BY <1>1, <1>10, <1>11, SamePending
<1>13. \A h \in Groups \ {g} : HeldTasks(h)' = HeldTasks(h)
  BY <1>1, <1>2, <1>10, SameSets
<1>14. HeldTasks(g)' = HeldTasks(g) \cup ({i} \X (0 .. total[i] - 1))
       /\ HeldTasks(g) \cap ({i} \X (0 .. total[i] - 1)) = {}
  <2>1. \A p \in Tasks : p \in HeldTasks(g)' <=> p \in HeldTasks(g) \cup ({i} \X (0 .. total[i] - 1))
    BY <1>1, <1>2, <1>10, <1>11, ConstantsAssumption DEF HeldTasks, Tasks
  <2>2. ({i} \X (0 .. total[i] - 1)) \subseteq Tasks
    BY <1>2, ConstantsAssumption DEF Tasks
  <2>3. HeldTasks(g) \cap ({i} \X (0 .. total[i] - 1)) = {}
    BY <1>2, <1>11, ConstantsAssumption DEF HeldTasks, Tasks
  <2> QED
    BY <2>1, <2>2, <2>3 DEF HeldTasks, Tasks
<1>15. CountersExact'
  <2>1. \A h \in Groups : Owners(h)' = Owners(h)
    BY <1>1 DEF Owners
  <2>2. Cardinality(HeldTasks(g)') = Cardinality(HeldTasks(g)) + total[i]
    <3> DEFINE T == {i} \X (0 .. total[i] - 1)
    <3>1. IsFiniteSet(HeldTasks(g)) /\ HeldTasks(g) \cap T = {}
      BY <1>14, Finite
    <3>2. Cardinality(HeldTasks(g) \cup T) = Cardinality(HeldTasks(g)) + total[i]
      BY <1>2, <3>1, AddedTasks
    <3> QED
      BY <1>14, <3>2
  <2>3. refs'[g] = refs[g] + total[i] /\ \A h \in Groups \ {g} : refs'[h] = refs[h]
    BY <1>1, <1>2 DEF TypeOK
  <2>4. g \in alive /\ refs[g] > 0
    <3>1. c \in Owners(g)
      BY DEF Owners
    <3>2. Cardinality(Owners(g)) # 0
      BY <3>1, Finite, FS_EmptySet
    <3> QED
      BY <1>2, <3>2, Finite DEF CountersExact
  <2>5. ASSUME NEW h \in Groups
        PROVE  /\ refs'[h] = Cardinality(HeldTasks(h)') + Cardinality(Owners(h)')
               /\ remaining'[h] = Cardinality(PendingTasks(h)')
               /\ h \in alive' <=> refs'[h] > 0
    <3>1. CASE h = g
      BY <1>1, <1>2, <1>12, <2>1, <2>2, <2>3, <2>4, <3>1, Finite DEF CountersExact
    <3>2. CASE h # g
      BY <1>1, <1>12, <1>13, <2>1, <2>3, <3>2 DEF CountersExact
    <3> QED
      BY <3>1, <3>2
  <2> QED
    BY <2>5 DEF CountersExact
<1>16. HeldOpened'
  <2> SUFFICES ASSUME NEW d \in Callers, NEW j \in Launches, NEW k \in 0 .. MaxTasks - 1,
                      handle[d] # NULL, handle[d] = group[j], Held(j, k)'
               PROVE  j \in opened[d]
    BY <1>1 DEF HeldOpened
  <2>1. CASE j = i
    BY <1>1, <1>2, <2>1 DEF LaunchInv, Launching
  <2>2. CASE j # i
    BY <1>10, <2>2 DEF HeldOpened
  <2> QED
    BY <2>1, <2>2
<1>17. EndInv'
  BY <1>1, <1>3 DEF EndInv, Threads
<1> QED
  BY <1>5, <1>6, <1>7, <1>8, <1>15, <1>16, <1>17

(* remaining_tasks counts the tasks of the launch, which no thread has yet. *)
LEMMA LaunchCountStep ==
  ASSUME IInv, NEW c \in Callers, LaunchCount(c)
  PROVE  HandleInv' /\ CurInv' /\ LaunchInv' /\ ClaimInv' /\ CountersExact' /\ HeldOpened' /\ EndInv'
<1> USE IInvParts
<1> DEFINE i == cur[c]
           g == handle[c]
<1>1. /\ pc[c] = "launch_count"
      /\ pc' = [pc EXCEPT ![c] = "enqueue"]
      /\ remaining' = [remaining EXCEPT ![g] = @ + total[i]]
      /\ UNCHANGED <<handle, alive, refs, group, total, next, queue, cur, idx, ran, opened>>
  BY DEF LaunchCount, Goto, itemVars, histVars
<1>2. /\ i \in Launches /\ g \in Groups /\ group[i] = g
      /\ total[i] \in Nat /\ total[i] <= MaxTasks /\ next[i] = 0
      /\ \A t \in Threads : cur[t] = i => t = c
      /\ \A d \in Callers \ {c} : handle[d] # g
  BY <1>1, LaunchFacts DEF Launching
<1>3. pc'[c] = "enqueue" /\ \A t \in Threads \ {c} : pc'[t] = pc[t]
  BY <1>1 DEF TypeOK, Threads
<1>4. \A t \in Threads : /\ Busy(t)' <=> Busy(t)
                         /\ Launching(t)' <=> Launching(t)
                         /\ pc'[t] = "claim" <=> pc[t] = "claim"
                         /\ pc'[t] = "run" <=> pc[t] = "run"
  BY <1>1, <1>3 DEF Busy, Launching
<1>5. HandleInv'
  BY <1>1, <1>3 DEF HandleInv, KernelPcs, Threads
<1>6. CurInv'
  BY <1>1, <1>4 DEF CurInv, Busy, Launching, Threads
<1>7. LaunchInv'
  BY <1>1, <1>4 DEF LaunchInv, Launching, Threads
<1>8. ClaimInv'
  BY <1>1, <1>4 DEF ClaimInv, Holds, Busy
<1>9. \A t \in Threads, j \in Launches : \A k \in 0 .. MaxTasks - 1 :
         (Holds(t, j, k)' <=> Holds(t, j, k)) /\ (Holds(t, j, k) => pc'[t] = pc[t])
  BY <1>1, <1>3 DEF Holds, Busy
<1>10. \A j \in Launches : \A k \in 0 .. MaxTasks - 1 : Held(j, k)' <=> Held(j, k)
  BY <1>1, <1>3, <1>9 DEF Held, Threads
<1>11. \A j \in Launches \ {i} : \A k \in 0 .. MaxTasks - 1 : Pending(j, k)' <=> Pending(j, k)
  BY <1>1, <1>3, <1>9, <1>10 DEF Pending, Threads
<1>12. \A k \in 0 .. MaxTasks - 1 :
          /\ ~Pending(i, k)
          /\ Pending(i, k)' <=> k < total[i]
  <2> TAKE k \in 0 .. MaxTasks - 1
  <2>1. ~Pending(i, k)
    BY <1>1 DEF Pending
  <2>2. \A t \in Threads : ~Holds(t, i, k)
    BY <1>1, <1>2 DEF Holds, Busy
  <2>3. Held(i, k) <=> k < total[i]
    BY <1>1, <1>2, ConstantsAssumption DEF Held, Threads
  <2>4. Pending(i, k)' <=> k < total[i]
    BY <1>1, <1>2, <1>3, <1>9, <1>10, <2>2, <2>3 DEF Pending, Threads
  <2> QED
    BY <2>1, <2>4
<1>13. \A h \in Groups : HeldTasks(h)' = HeldTasks(h)
  BY <1>1, <1>10, SameSets
<1>14. \A h \in Groups \ {g} : PendingTasks(h)' = PendingTasks(h)
  BY <1>1, <1>2, <1>11, SamePending
<1>15. PendingTasks(g)' = PendingTasks(g) \cup ({i} \X (0 .. total[i] - 1))
       /\ PendingTasks(g) \cap ({i} \X (0 .. total[i] - 1)) = {}
  <2>1. \A p \in Tasks : p \in PendingTasks(g)' <=> p \in PendingTasks(g) \cup ({i} \X (0 .. total[i] - 1))
    BY <1>1, <1>2, <1>11, <1>12, ConstantsAssumption DEF PendingTasks, Tasks
  <2>2. ({i} \X (0 .. total[i] - 1)) \subseteq Tasks
    BY <1>2, ConstantsAssumption DEF Tasks
  <2>3. PendingTasks(g) \cap ({i} \X (0 .. total[i] - 1)) = {}
    BY <1>2, <1>12, ConstantsAssumption DEF PendingTasks, Tasks
  <2> QED
    BY <2>1, <2>2, <2>3 DEF PendingTasks, Tasks
<1>16. CountersExact'
  <2>1. \A h \in Groups : Owners(h)' = Owners(h)
    BY <1>1 DEF Owners
  <2>2. Cardinality(PendingTasks(g)') = Cardinality(PendingTasks(g)) + total[i]
    <3> DEFINE T == {i} \X (0 .. total[i] - 1)
    <3>1. IsFiniteSet(PendingTasks(g)) /\ PendingTasks(g) \cap T = {}
      BY <1>15, Finite
    <3>2. Cardinality(PendingTasks(g) \cup T) = Cardinality(PendingTasks(g)) + total[i]
      BY <1>2, <3>1, AddedTasks
    <3> QED
      BY <1>15, <3>2
  <2>3. remaining'[g] = remaining[g] + total[i] /\ \A h \in Groups \ {g} : remaining'[h] = remaining[h]
    BY <1>1, <1>2 DEF TypeOK
  <2>4. \A h \in Groups : remaining'[h] = Cardinality(PendingTasks(h)')
    <3>1. remaining'[g] = Cardinality(PendingTasks(g)')
      BY <1>2, <2>2, <2>3 DEF CountersExact
    <3>2. \A h \in Groups \ {g} : remaining'[h] = Cardinality(PendingTasks(h)')
      BY <1>14, <2>3 DEF CountersExact
    <3> QED
      BY <1>1, <3>1, <3>2
  <2> QED
    BY <1>1, <1>13, <2>1, <2>4 DEF CountersExact
<1>17. HeldOpened'
  BY <1>1, <1>10 DEF HeldOpened
<1>18. EndInv'
  BY <1>1, <1>2, <1>3 DEF EndInv, HandleInv, KernelPcs, TypeOK, Threads
<1> QED
  BY <1>5, <1>6, <1>7, <1>8, <1>16, <1>17, <1>18

(* The launch becomes visible to the other threads.                         *)
LEMMA EnqueueStep ==
  ASSUME IInv, NEW c \in Callers, Enqueue(c)
  PROVE  HandleInv' /\ CurInv' /\ LaunchInv' /\ ClaimInv' /\ CountersExact' /\ HeldOpened' /\ EndInv'
<1> USE IInvParts
<1> DEFINE i == cur[c]
<1>1. /\ pc[c] = "enqueue"
      /\ pc' = [pc EXCEPT ![c] = "notify"]
      /\ queue' = Append(queue, i)
      /\ cur' = [cur EXCEPT ![c] = NULL]
      /\ UNCHANGED <<handle, alive, refs, remaining, group, total, next, idx, ran, opened>>
  BY DEF Enqueue, Goto, groupVars, itemVars, histVars
<1>2. /\ i \in Launches /\ group[i] = handle[c] /\ handle[c] \in Groups
      /\ \A t \in Threads : cur[t] = i => t = c
  BY <1>1, LaunchFacts DEF Launching
<1>3. /\ pc'[c] = "notify" /\ cur'[c] = NULL
      /\ \A t \in Threads \ {c} : pc'[t] = pc[t] /\ cur'[t] = cur[t]
  BY <1>1 DEF TypeOK, Threads
<1>4. /\ Busy(c)' = FALSE /\ Busy(c) = FALSE /\ Launching(c)' = FALSE
      /\ \A t \in Threads \ {c} : (Busy(t)' <=> Busy(t)) /\ (Launching(t)' <=> Launching(t))
  BY <1>1, <1>3 DEF Busy, Launching
<1>5. HandleInv'
  BY <1>1, <1>3 DEF HandleInv, KernelPcs, Threads
<1>6. CurInv'
  BY <1>1, <1>3, <1>4 DEF CurInv, Busy, Launching, Threads
<1>7. /\ Len(queue') = Len(queue) + 1 /\ queue \in Seq(Launches)
      /\ \A n \in DOMAIN queue' : queue'[n] = i \/ \E m \in DOMAIN queue : queue'[n] = queue[m]
  BY <1>1, <1>2 DEF TypeOK
<1>8. LaunchInv'
  <2>1. \A j \in Launches : group[j] = NULL => total[j] = 0 /\ next[j] = 0
    BY DEF LaunchInv
  <2>2. \A n \in DOMAIN queue' : group[queue'[n]] # NULL
    BY <1>2, <1>7, ConstantsAssumption DEF LaunchInv
  <2>3. ASSUME NEW d \in Callers, Launching(d)'
        PROVE  /\ cur'[d] \in opened[d]
               /\ next[cur'[d]] = 0
               /\ \A n \in DOMAIN queue' : queue'[n] # cur'[d]
               /\ \A t \in Threads : cur'[t] = cur'[d] => t = d
    <3>1. d # c /\ Launching(d) /\ cur'[d] = cur[d] /\ cur[d] # i /\ cur[d] # NULL
      BY <1>2, <1>3, <1>4, <2>3, LaunchFacts, ConstantsAssumption DEF Threads
    <3>2. \A t \in Threads : cur'[t] = cur[d] => t = d
      BY <1>3, <3>1, LaunchFacts
    <3> QED
      BY <1>7, <3>1, <3>2 DEF LaunchInv
  <2> QED
    BY <1>1, <2>1, <2>2, <2>3 DEF LaunchInv
<1>9. \A t \in Threads, j \in Launches : \A k \in 0 .. MaxTasks - 1 :
         (Holds(t, j, k)' <=> Holds(t, j, k)) /\ (Holds(t, j, k) => pc'[t] = pc[t])
  BY <1>1, <1>3, <1>4 DEF Holds, Busy
<1>10. ClaimInv'
  <2>1. \A t \in Threads : Busy(t)' => t # c /\ Busy(t) /\ cur'[t] = cur[t] /\ pc'[t] = pc[t]
    BY <1>3, <1>4
  <2>2. \A t \in Threads, j \in Launches : \A k \in Nat : Holds(t, j, k) => Holds(t, j, k)'
    BY <1>1, <1>3, <1>4 DEF Holds, Busy
  <2>3. \A j \in Launches : \A k \in 0 .. total[j] - 1 :
           k < next[j] => <<j, k>> \in ran \/ \E t \in Threads : Holds(t, j, k)'
    BY <2>2 DEF ClaimInv, TypeOK
  <2> QED
    BY <1>1, <2>1, <2>3 DEF ClaimInv
<1>11. \A j \in Launches : \A k \in 0 .. MaxTasks - 1 : Held(j, k)' <=> Held(j, k)
  BY <1>1, <1>3, <1>9, ConstantsAssumption DEF Held, Threads
<1>12. \A j \in Launches : \A k \in 0 .. MaxTasks - 1 : Pending(j, k)' <=> Pending(j, k)
  BY <1>1, <1>3, <1>9, <1>11 DEF Pending, Threads
<1>13. \A h \in Groups :
         /\ HeldTasks(h)' = HeldTasks(h)
         /\ PendingTasks(h)' = PendingTasks(h)
         /\ Owners(h)' = Owners(h)
  BY <1>1, <1>11, <1>12, SameSets, SamePending DEF Owners
<1>14. CountersExact'
  BY <1>1, <1>13 DEF CountersExact
<1>15. HeldOpened'
  BY <1>1, <1>11 DEF HeldOpened
<1>16. EndInv'
  BY <1>1, <1>3 DEF EndInv, Threads
<1> QED
  BY <1>5, <1>6, <1>8, <1>10, <1>14, <1>15, <1>16

(* ISPCSync gives its reference back; the group survives it as long as a    *)
(* task has not released its own.                                           *)
LEMMA SyncReturnStep ==
  ASSUME IInv, NEW c \in Callers, SyncReturn(c)
  PROVE  HandleInv' /\ CurInv' /\ LaunchInv' /\ ClaimInv' /\ CountersExact' /\ HeldOpened' /\ EndInv'
<1> USE IInvParts
<1>1. PICK g \in Groups : g = handle[c]
  BY DEF SyncReturn, HandleInv, KernelPcs
<1>2. /\ pc[c] = "end"
      /\ pc' = [pc EXCEPT ![c] = "idle"]
      /\ refs' = [refs EXCEPT ![g] = @ - 1]
      /\ alive' = IF refs[g] = 1 THEN alive \ {g} ELSE alive
      /\ handle' = [handle EXCEPT ![c] = NULL]
      /\ opened' = [opened EXCEPT ![c] = {}]
      /\ UNCHANGED <<remaining, group, total, next, queue, cur, idx, ran>>
  BY <1>1 DEF SyncReturn, Goto, ReleaseGroup, itemVars
<1>3. /\ pc'[c] = "idle" /\ handle'[c] = NULL /\ opened'[c] = {}
      /\ \A t \in Threads \ {c} : pc'[t] = pc[t]
      /\ \A d \in Callers \ {c} : handle'[d] = handle[d] /\ opened'[d] = opened[d] /\ handle[d] # g
  BY <1>1, <1>2, ConstantsAssumption DEF TypeOK, Threads, HandleInv
<1>4. \A t \in Threads : /\ Busy(t)' <=> Busy(t)
                         /\ Launching(t)' <=> Launching(t)
                         /\ pc'[t] = "claim" <=> pc[t] = "claim"
                         /\ pc'[t] = "run" <=> pc[t] = "run"
  BY <1>2, <1>3 DEF Busy, Launching
<1>5. HandleInv'
  BY <1>2, <1>3, ConstantsAssumption DEF HandleInv, KernelPcs, Threads
<1>6. CurInv'
  BY <1>2, <1>4 DEF CurInv, Busy, Launching, Threads
<1>7. LaunchInv'
  <2>1. \A d \in Callers : Launching(d) => d # c
    BY <1>2 DEF Launching
  <2> QED
    BY <1>2, <1>3, <1>4, <2>1 DEF LaunchInv, Launching, Threads
<1>8. ClaimInv'
  BY <1>2, <1>4 DEF ClaimInv, Holds, Busy
<1>9. \A t \in Threads, j \in Launches : \A k \in 0 .. MaxTasks - 1 :
         (Holds(t, j, k)' <=> Holds(t, j, k)) /\ (Holds(t, j, k) => pc'[t] = pc[t])
  BY <1>2, <1>3 DEF Holds, Busy
<1>10. \A j \in Launches : \A k \in 0 .. MaxTasks - 1 : Held(j, k)' <=> Held(j, k)
  BY <1>2, <1>3, <1>9 DEF Held, Threads
<1>11. \A j \in Launches : \A k \in 0 .. MaxTasks - 1 : Pending(j, k)' <=> Pending(j, k)
  BY <1>2, <1>3, <1>9, <1>10 DEF Pending, Threads
<1>12. \A h \in Groups : HeldTasks(h)' = HeldTasks(h) /\ PendingTasks(h)' = PendingTasks(h)
  BY <1>2, <1>10, <1>11, SameSets, SamePending
<1>13. CountersExact'
  <2>1. c \in Owners(g) /\ Owners(g)' = Owners(g) \ {c}
    BY <1>1, <1>3, ConstantsAssumption DEF Owners
  <2>2. \A h \in Groups \ {g} : Owners(h)' = Owners(h)
    BY <1>1, <1>3, ConstantsAssumption DEF Owners
  <2>3. IsFiniteSet(Owners(g)) /\ Cardinality(Owners(g)) \in Nat
    BY Finite
  <2>4. Cardinality(Owners(g)') = Cardinality(Owners(g)) - 1
    BY <2>1, <2>3, FS_RemoveElement
  <2>5. Cardinality(Owners(g)) > 0
    BY <2>1, <2>3, FS_EmptySet
  <2>6. /\ refs'[g] = refs[g] - 1 /\ \A h \in Groups \ {g} : refs'[h] = refs[h]
        /\ \A h \in Groups \ {g} : h \in alive' <=> h \in alive
    BY <1>2 DEF TypeOK
  <2>7. refs[g] \in Int /\ refs[g] > 0 /\ g \in alive
    BY <2>3, <2>5, Finite DEF CountersExact, TypeOK
  <2>8. g \in alive' <=> refs'[g] > 0
    BY <1>2, <2>6, <2>7
  <2>9. refs'[g] = Cardinality(HeldTasks(g)') + Cardinality(Owners(g)')
    <3>1. Cardinality(HeldTasks(g)) \in Nat /\ HeldTasks(g)' = HeldTasks(g)
      BY <1>12, Finite
    <3> QED
      BY <2>3, <2>4, <2>6, <3>1 DEF CountersExact
  <2>10. \A h \in Groups \ {g} : /\ refs'[h] = Cardinality(HeldTasks(h)') + Cardinality(Owners(h)')
                                 /\ h \in alive' <=> refs'[h] > 0
    BY <1>12, <2>2, <2>6 DEF CountersExact
  <2>11. \A h \in Groups : remaining'[h] = Cardinality(PendingTasks(h)')
    BY <1>2, <1>12 DEF CountersExact
  <2> QED
    BY <2>8, <2>9, <2>10, <2>11 DEF CountersExact
<1>14. HeldOpened'
  <2> SUFFICES ASSUME NEW d \in Callers, NEW j \in Launches, NEW k \in 0 .. MaxTasks - 1,
                      handle'[d] # NULL, handle'[d] = group[j], Held(j, k)
               PROVE  j \in opened'[d]
    BY <1>2, <1>10 DEF HeldOpened
  <2>1. d # c
    BY <1>3
  <2> QED
    BY <1>3, <2>1 DEF HeldOpened
<1>15. EndInv'
  BY <1>2, <1>3 DEF EndInv, Threads
<1> QED
  BY <1>5, <1>6, <1>7, <1>8, <1>13, <1>14, <1>15

(* A picked item is a launch that its caller has finished with.             *)
LEMMA PickStep ==
  ASSUME IInv, NEW t \in Threads, PickPreferred(t) \/ PickFront(t)
  PROVE  HandleInv' /\ CurInv' /\ LaunchInv' /\ ClaimInv' /\ CountersExact' /\ HeldOpened' /\ EndInv'
<1> USE IInvParts
<1>1. /\ pc[t] = "pick"
      /\ pc' = [pc EXCEPT ![t] = "claim"]
      /\ UNCHANGED <<handle, alive, refs, remaining, group, total, next, idx, ran, opened>>
  BY DEF PickPreferred, PickFront, Goto, groupVars, itemVars, histVars
<1>2. PICK n \in DOMAIN queue : cur' = [cur EXCEPT ![t] = queue[n]]
  BY PickType
<1> DEFINE i == queue[n]
<1>3. /\ i \in Launches /\ group[i] \in Groups
      /\ \A m \in DOMAIN queue' : \E l \in DOMAIN queue : queue'[m] = queue[l]
  <2>1. i \in Launches
    BY DEF TypeOK
  <2>2. group[i] # NULL
    BY DEF LaunchInv
  <2>3. group[i] \in Groups
    BY <2>1, <2>2 DEF TypeOK
  <2> QED
    BY <2>1, <2>3, PickType
<1>4. /\ pc'[t] = "claim" /\ cur'[t] = i
      /\ \A u \in Threads \ {t} : pc'[u] = pc[u] /\ cur'[u] = cur[u]
  BY <1>1, <1>2 DEF TypeOK, Threads
<1>5. /\ \A u \in Threads : Busy(u)' <=> Busy(u)
      /\ \A u \in Threads : Launching(u)' <=> Launching(u)
      /\ ~Busy(t) /\ ~Launching(t)
  BY <1>1, <1>4 DEF Busy, Launching
<1>6. HandleInv'
  BY <1>1, <1>4 DEF HandleInv, KernelPcs, Threads
<1>7. CurInv'
  BY <1>1, <1>3, <1>4, <1>5, ConstantsAssumption DEF CurInv, Busy, Launching, Threads
<1>8. LaunchInv'
  <2>1. \A j \in Launches : group[j] = NULL => total[j] = 0 /\ next[j] = 0
    BY DEF LaunchInv
  <2>2. \A m \in DOMAIN queue' : group[queue'[m]] # NULL
    BY <1>3 DEF LaunchInv
  <2>3. ASSUME NEW d \in Callers, Launching(d)'
        PROVE  /\ cur'[d] \in opened[d]
               /\ next[cur'[d]] = 0
               /\ \A m \in DOMAIN queue' : queue'[m] # cur'[d]
               /\ \A u \in Threads : cur'[u] = cur'[d] => u = d
    <3>1. Launching(d) /\ d # t /\ cur'[d] = cur[d] /\ d \in Threads
      BY <1>4, <1>5, <2>3 DEF Threads
    <3>2. /\ cur[d] \in opened[d] /\ next[cur[d]] = 0
          /\ \A m \in DOMAIN queue : queue[m] # cur[d]
          /\ \A u \in Threads : cur[u] = cur[d] => u = d
      BY <3>1 DEF LaunchInv
    <3>3. cur'[t] # cur[d]
      BY <1>2, <1>4, <3>2
    <3> QED
      BY <1>3, <1>4, <3>1, <3>2, <3>3
  <2> QED
    BY <1>1, <2>1, <2>2, <2>3 DEF LaunchInv
<1>9. \A u \in Threads, j \in Launches : \A k \in Nat :
         (Holds(u, j, k)' <=> Holds(u, j, k)) /\ (Holds(u, j, k) => pc'[u] = pc[u])
  BY <1>1, <1>4, <1>5 DEF Holds
<1>10. ClaimInv'
  <2>1. \A u \in Threads : Busy(u)' => u # t /\ Busy(u) /\ cur'[u] = cur[u] /\ pc'[u] = pc[u]
    BY <1>4, <1>5
  <2>2. \A j \in Launches : \A k \in 0 .. total[j] - 1 :
           k < next[j] => <<j, k>> \in ran \/ \E u \in Threads : Holds(u, j, k)'
    BY <1>9 DEF ClaimInv, TypeOK
  <2> QED
    BY <1>1, <2>1, <2>2 DEF ClaimInv
<1>11. \A j \in Launches : \A k \in 0 .. MaxTasks - 1 : Held(j, k)' <=> Held(j, k)
  BY <1>1, <1>4, <1>9 DEF Held, Threads
<1>12. \A j \in Launches : \A k \in 0 .. MaxTasks - 1 : Pending(j, k)' <=> Pending(j, k)
  BY <1>1, <1>4, <1>9, <1>11 DEF Pending, Threads
<1>13. \A h \in Groups :
         /\ HeldTasks(h)' = HeldTasks(h)
         /\ PendingTasks(h)' = PendingTasks(h)
         /\ Owners(h)' = Owners(h)
  BY <1>1, <1>11, <1>12, SameSets, SamePending DEF Owners
<1>14. CountersExact'
  BY <1>1, <1>13 DEF CountersExact
<1>15. HeldOpened'
  BY <1>1, <1>11 DEF HeldOpened
<1>16. EndInv'
  BY <1>1, <1>4 DEF EndInv, Threads
<1> QED
  BY <1>6, <1>7, <1>8, <1>10, <1>14, <1>15, <1>16

(* A thread that finds nothing leaves an empty queue behind.                *)
LEMMA PickNothingStep ==
  ASSUME IInv, NEW t \in Threads, PickNothing(t)
  PROVE  HandleInv' /\ Quiet /\ LaunchInv' /\ EndInv'
<1> USE IInvParts
<1>1. /\ pc[t] = "pick" /\ queue' = <<>>
      /\ pc' = [pc EXCEPT ![t] = IF t \in Callers THEN "wait" ELSE "check"]
      /\ UNCHANGED <<handle, alive, refs, remaining, group, total, next, cur, idx, ran, opened>>
  BY DEF PickNothing, Goto, groupVars, itemVars, histVars
<1>2. /\ pc'[t] \in {"wait", "check"} /\ (t \in Callers => pc'[t] = "wait")
      /\ \A u \in Threads \ {t} : pc'[u] = pc[u]
  BY <1>1 DEF TypeOK, Threads
<1>3. HandleInv'
  BY <1>1, <1>2 DEF HandleInv, KernelPcs, Threads
<1>4. Quiet
  BY <1>1, <1>2 DEF Quiet, SameWork, WorkPcs
<1>5. LaunchInv'
  <2>1. \A u \in Threads : Launching(u)' <=> Launching(u)
    BY <1>1, <1>2 DEF Launching
  <2>2. DOMAIN queue' = {}
    BY <1>1
  <2> QED
    BY <1>1, <2>1, <2>2 DEF LaunchInv, Threads
<1>6. EndInv'
  BY <1>1, <1>2 DEF EndInv, Threads
<1> QED
  BY <1>3, <1>4, <1>5, <1>6

\* A quiet step keeps what is known of the launches.
LEMMA QuietLaunch ==
  ASSUME LaunchInv, Quiet, queue' = queue
  PROVE  LaunchInv'
<1>1. \A t \in Threads : Launching(t)' <=> Launching(t)
  BY DEF Quiet, SameWork, WorkPcs, Launching
<1> QED
  BY <1>1 DEF LaunchInv, Quiet, Threads

(* What a busy thread works on: an item that has been enqueued, and a task  *)
(* of it that nobody else has.                                              *)
LEMMA BusyFacts ==
  ASSUME IInv, NEW t \in Threads, Busy(t)
  PROVE  /\ cur[t] \in Launches /\ group[cur[t]] \in Groups
         /\ idx[t] \in 0 .. MaxTasks - 1 /\ idx[t] < total[cur[t]] /\ idx[t] < next[cur[t]]
         /\ Holds(t, cur[t], idx[t])
         /\ \A u \in Threads : Holds(u, cur[t], idx[t]) => u = t
         /\ \A c \in Callers : Launching(c) => cur[c] # cur[t]
         /\ Held(cur[t], idx[t])
<1> USE IInvParts
<1>1. cur[t] \in Launches /\ group[cur[t]] \in Groups
  BY CurType
<1>2. idx[t] < total[cur[t]] /\ idx[t] < next[cur[t]] /\ idx[t] \in Nat
  BY DEF ClaimInv, TypeOK
<1>3. idx[t] \in 0 .. MaxTasks - 1
  BY <1>1, <1>2, ConstantsAssumption DEF TypeOK
<1>4. Holds(t, cur[t], idx[t]) /\ \A u \in Threads : Holds(u, cur[t], idx[t]) => u = t
  BY DEF Holds, ClaimInv
<1>5. \A c \in Callers : Launching(c) => cur[c] # cur[t]
  <2>1. \A c \in Callers : Launching(c) => c # t
    BY DEF Launching, Busy
  <2> QED
    BY <2>1, LaunchFacts
<1>6. Held(cur[t], idx[t])
  BY <1>2, <1>4, <1>5 DEF Held, Launching
<1> QED
  BY <1>1, <1>2, <1>3, <1>4, <1>5, <1>6

(* fetch_add hands every index out once.                                    *)
LEMMA ClaimStep ==
  ASSUME IInv, NEW t \in Threads, Claim(t)
  PROVE  HandleInv' /\ CurInv' /\ LaunchInv' /\ ClaimInv' /\ CountersExact' /\ HeldOpened' /\ EndInv'
<1> USE IInvParts
<1>1. PICK i \in Launches : i = cur[t] /\ group[i] \in Groups
  BY CurType DEF Claim, NextFetchAdd
<1>2. /\ pc[t] = "claim"
      /\ next' = [next EXCEPT ![i] = @ + 1]
      /\ \/ /\ next[i] < total[i] /\ idx' = [idx EXCEPT ![t] = next[i]]
            /\ pc' = [pc EXCEPT ![t] = "run"] /\ cur' = cur
         \/ /\ ~(next[i] < total[i]) /\ idx' = idx
            /\ pc' = [pc EXCEPT ![t] = "pick"] /\ cur' = [cur EXCEPT ![t] = NULL]
      /\ UNCHANGED <<handle, alive, refs, remaining, group, total, queue, ran, opened>>
  BY <1>1 DEF Claim, NextFetchAdd, Goto, Unclaimed, groupVars, histVars
<1>3. /\ \A u \in Threads \ {t} : pc'[u] = pc[u] /\ cur'[u] = cur[u] /\ idx'[u] = idx[u]
      /\ next'[i] = next[i] + 1 /\ \A j \in Launches \ {i} : next'[j] = next[j]
      /\ next[i] \in Nat /\ total[i] \in Nat
  BY <1>2 DEF TypeOK, Threads
<1>4. \/ next[i] < total[i] /\ idx'[t] = next[i] /\ pc'[t] = "run" /\ cur'[t] = i
      \/ ~(next[i] < total[i]) /\ pc'[t] = "pick" /\ cur'[t] = NULL
  BY <1>1, <1>2 DEF TypeOK, Threads
<1>5. /\ \A u \in Threads \ {t} : Busy(u)' <=> Busy(u)
      /\ \A u \in Threads : Launching(u)' <=> Launching(u)
      /\ ~Busy(t) /\ ~Launching(t)
      /\ Busy(t)' <=> next[i] < total[i]
  BY <1>2, <1>3, <1>4 DEF Busy, Launching
<1>6. \A c \in Callers : Launching(c) => cur[c] # i /\ c # t /\ cur[c] # NULL
  BY <1>1, <1>5, LaunchFacts, ConstantsAssumption
<1>7. HandleInv'
  <2>1. t \in Callers => pc'[t] \in KernelPcs /\ pc[t] \in KernelPcs
    BY <1>2, <1>4 DEF KernelPcs
  <2>2. t \in Callers => pc'[t] # "kernel" /\ pc[t] # "kernel"
    BY <1>2, <1>4
  <2> QED
    BY <1>2, <1>3, <2>1, <2>2 DEF HandleInv, Threads
<1>8. CurInv'
  <2>1. \A u \in Threads \ {t} : pc'[u] = "claim" <=> pc[u] = "claim"
    BY <1>3
  <2>2. \A u \in Threads \ {t} :
          /\ cur'[u] # NULL <=> (Busy(u)' \/ pc'[u] = "claim" \/ (u \in Callers /\ Launching(u)'))
          /\ cur'[u] # NULL => group'[cur'[u]] \in Groups
    BY <1>2, <1>3, <1>5, <2>1 DEF CurInv
  <2>3. /\ cur'[t] # NULL <=> (Busy(t)' \/ pc'[t] = "claim" \/ (t \in Callers /\ Launching(t)'))
        /\ cur'[t] # NULL => group'[cur'[t]] \in Groups
    BY <1>1, <1>2, <1>4, <1>5, ConstantsAssumption
  <2> QED
    BY <2>2, <2>3 DEF CurInv
<1>9. LaunchInv'
  <2>1. \A j \in Launches : group'[j] = NULL => total'[j] = 0 /\ next'[j] = 0
    BY <1>1, <1>2, <1>3, ConstantsAssumption DEF LaunchInv
  <2>2. \A n \in DOMAIN queue' : group'[queue'[n]] # NULL
    BY <1>2 DEF LaunchInv
  <2>3. ASSUME NEW d \in Callers, Launching(d)'
        PROVE  /\ cur'[d] \in opened'[d]
               /\ next'[cur'[d]] = 0
               /\ \A n \in DOMAIN queue' : queue'[n] # cur'[d]
               /\ \A u \in Threads : cur'[u] = cur'[d] => u = d
    <3>1. Launching(d) /\ d # t /\ cur'[d] = cur[d] /\ cur[d] \in Launches \ {i} /\ cur[d] # NULL
      BY <1>3, <1>5, <1>6, <2>3, LaunchFacts DEF Threads
    <3>2. /\ cur[d] \in opened[d] /\ next[cur[d]] = 0
          /\ \A m \in DOMAIN queue : queue[m] # cur[d]
          /\ \A u \in Threads : cur[u] = cur[d] => u = d
      BY <3>1 DEF LaunchInv
    <3>3. \A u \in Threads : cur'[u] = cur[d] => u = d
      BY <1>3, <1>4, <3>1, <3>2
    <3> QED
      BY <1>2, <1>3, <3>1, <3>2, <3>3
  <2> QED
    BY <2>1, <2>2, <2>3 DEF LaunchInv
<1>10. /\ \A u \in Threads \ {t}, j \in Launches : \A k \in Nat :
            (Holds(u, j, k)' <=> Holds(u, j, k)) /\ (Holds(u, j, k) => pc'[u] = pc[u])
       /\ \A j \in Launches : \A k \in Nat :
            /\ ~Holds(t, j, k)
            /\ Holds(t, j, k)' <=> next[i] < total[i] /\ j = i /\ k = next[i]
  BY <1>1, <1>3, <1>4, <1>5 DEF Holds
<1>11. ClaimInv'
  <2>1. \A u \in Threads \ {t} : Busy(u)' =>
          /\ Busy(u) /\ cur'[u] = cur[u] /\ idx'[u] = idx[u] /\ pc'[u] = pc[u]
          /\ cur[u] \in Launches /\ idx[u] < next[cur[u]] /\ idx[u] < total[cur[u]]
          /\ <<cur[u], idx[u]>> \in ran <=> pc[u] # "run"
    BY <1>3, <1>5, CurType DEF ClaimInv
  <2>2. Busy(t)' => /\ next[i] < total[i] /\ pc'[t] = "run" /\ cur'[t] = i /\ idx'[t] = next[i]
                    /\ <<i, next[i]>> \notin ran
    BY <1>3, <1>4, <1>5 DEF ClaimInv
  <2>3. ASSUME NEW u \in Threads, Busy(u)'
        PROVE  /\ idx'[u] < next'[cur'[u]] /\ idx'[u] < total'[cur'[u]]
               /\ <<cur'[u], idx'[u]>> \in ran' <=> pc'[u] # "run"
    <3>1. CASE u = t
      BY <1>2, <1>3, <2>2, <2>3, <3>1
    <3>2. CASE u # t
      BY <1>2, <1>3, <2>1, <2>3, <3>2 DEF TypeOK
    <3> QED
      BY <3>1, <3>2
  <2>4. ASSUME NEW u \in Threads, NEW v \in Threads, Busy(u)', Busy(v)',
               cur'[u] = cur'[v], idx'[u] = idx'[v]
        PROVE  u = v
    <3>1. CASE u # t /\ v # t
      BY <2>1, <2>4, <3>1 DEF ClaimInv
    <3>2. CASE u = t /\ v # t
      BY <1>3, <2>1, <2>2, <2>4, <3>2
    <3>3. CASE u # t /\ v = t
      BY <1>3, <2>1, <2>2, <2>4, <3>3
    <3> QED
      BY <3>1, <3>2, <3>3
  <2>5. \A p \in ran' : p[2] < next'[p[1]] /\ p[2] < total'[p[1]]
    <3> SUFFICES ASSUME NEW p \in ran PROVE p[2] < next'[p[1]] /\ p[2] < total[p[1]]
      BY <1>2
    <3>1. p[1] \in Launches /\ p[2] \in Nat /\ p[2] < next[p[1]] /\ p[2] < total[p[1]]
      BY DEF ClaimInv, TypeOK
    <3>2. \A j \in Launches : next'[j] \in Nat /\ next'[j] >= next[j] /\ next[j] \in Nat
      <4>1. \A j \in Launches : next[j] \in Nat
        BY DEF TypeOK
      <4> QED
        BY <1>3, <4>1
    <3> QED
      BY <3>1, <3>2
  <2>6. ASSUME NEW j \in Launches, NEW k \in 0 .. total'[j] - 1, k < next'[j]
        PROVE  <<j, k>> \in ran' \/ \E u \in Threads : Holds(u, j, k)'
    <3>1. total[j] \in Nat /\ next[j] \in Nat /\ k \in 0 .. total[j] - 1 /\ k \in Nat
      BY <1>2 DEF TypeOK
    <3>2. CASE k < next[j]
      <4>1. <<j, k>> \in ran \/ \E u \in Threads : Holds(u, j, k)
        BY <3>1, <3>2 DEF ClaimInv
      <4> QED
        BY <1>2, <1>10, <3>1, <4>1
    <3>3. CASE ~(k < next[j])
      <4>1. j = i /\ k = next[i] /\ next[i] < total[i]
        BY <1>3, <2>6, <3>1, <3>3
      <4> QED
        BY <1>10, <3>1, <4>1
    <3> QED
      BY <3>2, <3>3
  <2> QED
    BY <2>3, <2>4, <2>5, <2>6 DEF ClaimInv
<1>12. \A j \in Launches : \A k \in 0 .. MaxTasks - 1 : Held(j, k)' <=> Held(j, k)
  <2> TAKE j \in Launches
  <2> TAKE k \in 0 .. MaxTasks - 1
  <2>1. k \in Nat
    BY ConstantsAssumption
  <2>2. \A c \in Callers : pc'[c] = "launch_ref" <=> pc[c] = "launch_ref"
    BY <1>2, <1>3, <1>4 DEF Threads
  <2>3. \A c \in Callers : pc[c] = "launch_ref" => cur'[c] = cur[c]
    BY <1>2, <1>3 DEF Threads
  <2>4. CASE j # i
    BY <1>2, <1>3, <1>10, <2>1, <2>2, <2>3, <2>4 DEF Held
  <2>5. CASE j = i
    <3>1. (k < total[i] /\ (k >= next[i] + 1 \/ \E u \in Threads : Holds(u, i, k)'))
          <=> (k < total[i] /\ (k >= next[i] \/ \E u \in Threads : Holds(u, i, k)))
      BY <1>3, <1>10, <2>1
    <3> QED
      BY <1>2, <1>3, <2>2, <2>3, <2>5, <3>1 DEF Held
  <2> QED
    BY <2>4, <2>5
<1>13. \A j \in Launches : \A k \in 0 .. MaxTasks - 1 : Pending(j, k)' <=> Pending(j, k)
  <2> TAKE j \in Launches
  <2> TAKE k \in 0 .. MaxTasks - 1
  <2>1. k \in Nat
    BY ConstantsAssumption
  <2>2. \A c \in Callers : /\ pc'[c] = "launch_count" <=> pc[c] = "launch_count"
                           /\ pc[c] = "launch_count" => cur'[c] = cur[c]
    BY <1>2, <1>3, <1>4 DEF Threads
  <2>3. (\A u \in Threads : Holds(u, j, k)' => pc'[u] \in {"run", "finish"})
        <=> (\A u \in Threads : Holds(u, j, k) => pc[u] \in {"run", "finish"})
    BY <1>4, <1>10, <2>1
  <2> QED
    BY <1>12, <2>2, <2>3 DEF Pending
<1>14. \A h \in Groups :
         /\ HeldTasks(h)' = HeldTasks(h)
         /\ PendingTasks(h)' = PendingTasks(h)
         /\ Owners(h)' = Owners(h)
  BY <1>2, <1>12, <1>13, SameSets, SamePending DEF Owners
<1>15. CountersExact'
  BY <1>2, <1>14 DEF CountersExact
<1>16. HeldOpened'
  BY <1>2, <1>12 DEF HeldOpened
<1>17. EndInv'
  BY <1>2, <1>3, <1>4 DEF EndInv, Threads
<1> QED
  BY <1>7, <1>8, <1>9, <1>11, <1>15, <1>16, <1>17

(* The function of a task that nobody else runs returns.                    *)
LEMMA RunStep ==
  ASSUME IInv, NEW t \in Threads, Run(t)
  PROVE  HandleInv' /\ CurInv' /\ LaunchInv' /\ ClaimInv' /\ CountersExact' /\ HeldOpened' /\ EndInv'
<1> USE IInvParts
<1>1. Busy(t) /\ pc[t] = "run"
  BY DEF Run, Busy
<1>2. PICK i \in Launches, m \in 0 .. MaxTasks - 1 :
         /\ i = cur[t] /\ m = idx[t] /\ m < total[i] /\ m < next[i]
         /\ \A u \in Threads : Holds(u, i, m) => u = t
  BY <1>1, BusyFacts
<1>3. /\ pc' = [pc EXCEPT ![t] = "finish"]
      /\ ran' = ran \cup {<<i, m>>}
      /\ UNCHANGED <<handle, alive, refs, remaining, group, total, next, queue, cur, idx, opened>>
  BY <1>2 DEF Run, Goto, groupVars, itemVars
<1>4. pc'[t] = "finish" /\ \A u \in Threads \ {t} : pc'[u] = pc[u]
  BY <1>3 DEF TypeOK, Threads
<1>5. \A u \in Threads : /\ Busy(u)' <=> Busy(u)
                         /\ Launching(u)' <=> Launching(u)
                         /\ pc'[u] = "claim" <=> pc[u] = "claim"
  BY <1>1, <1>4 DEF Busy, Launching
<1>6. HandleInv'
  BY <1>1, <1>3, <1>4 DEF HandleInv, KernelPcs, Threads
<1>7. CurInv'
  BY <1>3, <1>5 DEF CurInv
<1>8. LaunchInv'
  BY <1>3, <1>5 DEF LaunchInv, Threads
<1>9. \A u \in Threads, j \in Launches : \A k \in Nat : Holds(u, j, k)' <=> Holds(u, j, k)
  BY <1>3, <1>5 DEF Holds
<1>10. ClaimInv'
  <2>1. ASSUME NEW u \in Threads, Busy(u)'
        PROVE  /\ idx'[u] < next'[cur'[u]] /\ idx'[u] < total'[cur'[u]]
               /\ <<cur'[u], idx'[u]>> \in ran' <=> pc'[u] # "run"
    <3>1. CASE u = t
      BY <1>2, <1>3, <1>4, <3>1
    <3>2. CASE u # t
      <4>1. Busy(u) /\ pc'[u] = pc[u]
        BY <1>4, <1>5, <2>1, <3>2
      <4>2. <<cur[u], idx[u]>> # <<i, m>>
        BY <1>2, <3>2, <4>1 DEF Holds
      <4> QED
        BY <1>3, <4>1, <4>2 DEF ClaimInv
    <3> QED
      BY <3>1, <3>2
  <2>2. \A u, v \in Threads :
           Busy(u)' /\ Busy(v)' /\ cur'[u] = cur'[v] /\ idx'[u] = idx'[v] => u = v
    BY <1>3, <1>5 DEF ClaimInv
  <2>3. \A p \in ran' : p[2] < next'[p[1]] /\ p[2] < total'[p[1]]
    BY <1>2, <1>3 DEF ClaimInv
  <2>4. \A j \in Launches : \A k \in 0 .. total'[j] - 1 :
           k < next'[j] => <<j, k>> \in ran' \/ \E u \in Threads : Holds(u, j, k)'
    BY <1>3, <1>9 DEF ClaimInv, TypeOK
  <2> QED
    BY <2>1, <2>2, <2>3, <2>4 DEF ClaimInv
<1>11. \A j \in Launches : \A k \in 0 .. MaxTasks - 1 : Held(j, k)' <=> Held(j, k)
  <2>1. \A c \in Callers : pc'[c] = "launch_ref" <=> pc[c] = "launch_ref"
    BY <1>1, <1>4 DEF Threads
  <2> QED
    BY <1>3, <1>9, <2>1 DEF Held
<1>12. \A j \in Launches : \A k \in 0 .. MaxTasks - 1 : Pending(j, k)' <=> Pending(j, k)
  <2>1. \A c \in Callers : pc'[c] = "launch_count" <=> pc[c] = "launch_count"
    BY <1>1, <1>4 DEF Threads
  <2>2. \A u \in Threads : pc'[u] \in {"run", "finish"} <=> pc[u] \in {"run", "finish"}
    BY <1>1, <1>4
  <2> QED
    BY <1>3, <1>9, <1>11, <2>1, <2>2 DEF Pending
<1>13. \A h \in Groups :
         /\ HeldTasks(h)' = HeldTasks(h)
         /\ PendingTasks(h)' = PendingTasks(h)
         /\ Owners(h)' = Owners(h)
  BY <1>3, <1>11, <1>12, SameSets, SamePending DEF Owners
<1>14. CountersExact'
  BY <1>3, <1>13 DEF CountersExact
<1>15. HeldOpened'
  BY <1>3, <1>11 DEF HeldOpened
<1>16. EndInv'
  BY <1>3, <1>4 DEF EndInv, Threads
<1> QED
  BY <1>6, <1>7, <1>8, <1>10, <1>14, <1>15, <1>16

(* remaining_tasks falls with the one task that this thread had.            *)
LEMMA FinishStep ==
  ASSUME IInv, NEW t \in Threads, Finish(t)
  PROVE  HandleInv' /\ CurInv' /\ LaunchInv' /\ ClaimInv' /\ CountersExact' /\ HeldOpened' /\ EndInv'
<1> USE IInvParts
<1>1. Busy(t) /\ pc[t] = "finish"
  BY DEF Finish, Busy
<1>2. PICK i \in Launches, m \in 0 .. MaxTasks - 1, g \in Groups :
         /\ i = cur[t] /\ m = idx[t] /\ g = group[i] /\ Holds(t, i, m) /\ Held(i, m)
         /\ \A u \in Threads : Holds(u, i, m) => u = t
         /\ \A c \in Callers : Launching(c) => cur[c] # i
  BY <1>1, BusyFacts
<1>3. /\ remaining' = [remaining EXCEPT ![g] = @ - 1]
      /\ pc' = [pc EXCEPT ![t] = IF remaining[g] = 1 THEN "signal" ELSE "release"]
      /\ UNCHANGED <<handle, alive, refs, group, total, next, queue, cur, idx, ran, opened>>
  BY <1>2 DEF Finish, Goto, itemVars, histVars
<1>4. pc'[t] \in {"signal", "release"} /\ \A u \in Threads \ {t} : pc'[u] = pc[u]
  BY <1>3 DEF TypeOK, Threads
<1>5. \A u \in Threads : /\ Busy(u)' <=> Busy(u)
                         /\ Launching(u)' <=> Launching(u)
                         /\ pc'[u] = "claim" <=> pc[u] = "claim"
                         /\ pc'[u] = "run" <=> pc[u] = "run"
  BY <1>1, <1>4 DEF Busy, Launching
<1>6. HandleInv'
  <2>1. t \in Callers => pc'[t] \in KernelPcs \ {"kernel"} /\ pc[t] \in KernelPcs \ {"kernel"}
    BY <1>1, <1>4 DEF KernelPcs
  <2> QED
    BY <1>3, <1>4, <2>1 DEF HandleInv, Threads
<1>7. CurInv'
  BY <1>3, <1>5 DEF CurInv
<1>8. LaunchInv'
  BY <1>3, <1>5 DEF LaunchInv, Threads
<1>9. \A u \in Threads, j \in Launches : \A k \in Nat : Holds(u, j, k)' <=> Holds(u, j, k)
  BY <1>3, <1>5 DEF Holds
<1>10. ClaimInv'
  <2>1. \A j \in Launches : \A k \in 0 .. total'[j] - 1 :
           k < next'[j] => <<j, k>> \in ran' \/ \E u \in Threads : Holds(u, j, k)'
    BY <1>3, <1>9 DEF ClaimInv, TypeOK
  <2> QED
    BY <1>3, <1>5, <2>1 DEF ClaimInv
<1>11. \A j \in Launches : \A k \in 0 .. MaxTasks - 1 : Held(j, k)' <=> Held(j, k)
  <2>1. \A c \in Callers : pc'[c] = "launch_ref" <=> pc[c] = "launch_ref"
    BY <1>1, <1>4 DEF Threads
  <2> QED
    BY <1>3, <1>9, <2>1 DEF Held
<1>12. Pending(i, m) /\ ~Pending(i, m)'
  <2>1. Pending(i, m)
    BY <1>1, <1>2 DEF Pending, Launching
  <2>2. Holds(t, i, m)' /\ pc'[t] \notin {"run", "finish"}
    BY <1>2, <1>4, <1>9
  <2> QED
    BY <2>1, <2>2 DEF Pending
<1>13. \A j \in Launches : \A k \in 0 .. MaxTasks - 1 :
          <<j, k>> # <<i, m>> => (Pending(j, k)' <=> Pending(j, k))
  <2> TAKE j \in Launches
  <2> TAKE k \in 0 .. MaxTasks - 1
  <2> HAVE <<j, k>> # <<i, m>>
  <2>1. \A c \in Callers : pc'[c] = "launch_count" <=> pc[c] = "launch_count"
    BY <1>1, <1>4 DEF Threads
  <2>2. \A u \in Threads : Holds(u, j, k) => u # t
    BY <1>2 DEF Holds
  <2>3. \A u \in Threads : Holds(u, j, k)' => pc'[u] = pc[u]
    BY <1>4, <1>9, <2>2
  <2> QED
    BY <1>3, <1>9, <1>11, <2>1, <2>3 DEF Pending
<1>14. \A h \in Groups : HeldTasks(h)' = HeldTasks(h) /\ Owners(h)' = Owners(h)
  BY <1>3, <1>11, SameSets DEF Owners
<1>15. \A h \in Groups \ {g} : PendingTasks(h)' = PendingTasks(h)
  BY <1>2, <1>3, <1>13, SamePending
<1>16. PendingTasks(g)' = PendingTasks(g) \ {<<i, m>>} /\ <<i, m>> \in PendingTasks(g)
  <2>1. <<i, m>> \in PendingTasks(g)
    BY <1>2, <1>12 DEF PendingTasks, Tasks
  <2>2. \A p \in Tasks : p \in PendingTasks(g)' <=> p \in PendingTasks(g) \ {<<i, m>>}
    BY <1>2, <1>3, <1>12, <1>13 DEF PendingTasks, Tasks
  <2> QED
    BY <2>1, <2>2 DEF PendingTasks, Tasks
<1>17. Cardinality(PendingTasks(g)') = Cardinality(PendingTasks(g)) - 1 /\ Cardinality(PendingTasks(g)) > 0
  <2>1. IsFiniteSet(PendingTasks(g)) /\ Cardinality(PendingTasks(g)) \in Nat
    BY Finite
  <2>2. Cardinality(PendingTasks(g)') = Cardinality(PendingTasks(g)) - 1
    BY <1>16, <2>1, FS_RemoveElement
  <2>3. Cardinality(PendingTasks(g)) # 0
    BY <1>16, <2>1, FS_EmptySet
  <2> QED
    BY <2>1, <2>2, <2>3
<1>18. remaining'[g] = remaining[g] - 1 /\ \A h \in Groups \ {g} : remaining'[h] = remaining[h]
  BY <1>3 DEF TypeOK
<1>19. CountersExact'
  <2>1. remaining'[g] = Cardinality(PendingTasks(g)')
    BY <1>17, <1>18 DEF CountersExact
  <2>2. \A h \in Groups \ {g} : remaining'[h] = Cardinality(PendingTasks(h)')
    BY <1>15, <1>18 DEF CountersExact
  <2> QED
    BY <1>3, <1>14, <2>1, <2>2 DEF CountersExact
<1>20. HeldOpened'
  BY <1>3, <1>11 DEF HeldOpened
<1>21. EndInv'
  <2>1. remaining[g] # 0
    BY <1>17 DEF CountersExact
  <2>2. \A d \in Callers : pc'[d] = "end" => pc[d] = "end" /\ handle[d] \in Groups
    BY <1>4 DEF HandleInv, KernelPcs, Threads
  <2> QED
    BY <1>3, <1>18, <2>1, <2>2 DEF EndInv
<1> QED
  BY <1>6, <1>7, <1>8, <1>10, <1>19, <1>20, <1>21

(* ref_count falls with the one reference of the task; the thread that held *)
(* the last one deletes the group.                                          *)
LEMMA ReleaseStep ==
  ASSUME IInv, NEW t \in Threads, Release(t)
  PROVE  HandleInv' /\ CurInv' /\ LaunchInv' /\ ClaimInv' /\ CountersExact' /\ HeldOpened' /\ EndInv'
<1> USE IInvParts
<1>1. Busy(t) /\ pc[t] = "release"
  BY DEF Release, Busy
<1>2. PICK i \in Launches, m \in 0 .. MaxTasks - 1, g \in Groups :
         /\ i = cur[t] /\ m = idx[t] /\ g = group[i] /\ Holds(t, i, m) /\ Held(i, m)
         /\ m < next[i] /\ <<i, m>> \in ran
         /\ \A u \in Threads : Holds(u, i, m) => u = t
         /\ \A c \in Callers : Launching(c) => cur[c] # i
  BY <1>1, BusyFacts DEF ClaimInv
<1>3. /\ refs' = [refs EXCEPT ![g] = @ - 1]
      /\ alive' = IF refs[g] = 1 THEN alive \ {g} ELSE alive
      /\ cur' = [cur EXCEPT ![t] = NULL]
      /\ idx' = [idx EXCEPT ![t] = 0]
      /\ pc' = [pc EXCEPT ![t] = IF t \in Callers THEN "sync" ELSE "pick"]
      /\ UNCHANGED <<handle, remaining, group, total, next, queue, ran, opened>>
  BY <1>2 DEF Release, ReleaseGroup, Goto, itemVars, histVars
<1>4. /\ cur'[t] = NULL /\ pc'[t] \in {"sync", "pick"}
      /\ \A u \in Threads \ {t} : pc'[u] = pc[u] /\ cur'[u] = cur[u] /\ idx'[u] = idx[u]
  BY <1>3 DEF TypeOK, Threads
<1>5. /\ \A u \in Threads \ {t} : Busy(u)' <=> Busy(u)
      /\ \A u \in Threads : Launching(u)' <=> Launching(u)
      /\ ~Launching(t)
      /\ ~Busy(t)'
  BY <1>1, <1>4 DEF Busy, Launching
<1>6. HandleInv'
  <2>1. t \in Callers => pc'[t] \in KernelPcs \ {"kernel"} /\ pc[t] \in KernelPcs \ {"kernel"}
    BY <1>1, <1>4 DEF KernelPcs
  <2> QED
    BY <1>3, <1>4, <2>1 DEF HandleInv, Threads
<1>7. CurInv'
  <2>1. \A u \in Threads \ {t} :
          /\ cur'[u] # NULL <=> (Busy(u)' \/ pc'[u] = "claim" \/ (u \in Callers /\ Launching(u)'))
          /\ cur'[u] # NULL => group'[cur'[u]] \in Groups
    BY <1>3, <1>4, <1>5 DEF CurInv
  <2>2. pc'[t] # "claim"
    BY <1>4
  <2> QED
    BY <1>4, <1>5, <2>1, <2>2 DEF CurInv
<1>8. LaunchInv'
  <2>1. ASSUME NEW d \in Callers, Launching(d)'
        PROVE  /\ cur'[d] \in opened'[d]
               /\ next'[cur'[d]] = 0
               /\ \A n \in DOMAIN queue' : queue'[n] # cur'[d]
               /\ \A u \in Threads : cur'[u] = cur'[d] => u = d
    <3>1. Launching(d) /\ d # t /\ d \in Threads
      BY <1>5, <2>1 DEF Threads
    <3>2. cur'[d] = cur[d] /\ cur[d] # NULL
      BY <1>4, <3>1, LaunchFacts, ConstantsAssumption
    <3>3. /\ cur[d] \in opened[d] /\ next[cur[d]] = 0
          /\ \A n \in DOMAIN queue : queue[n] # cur[d]
          /\ \A u \in Threads : cur[u] = cur[d] => u = d
      BY <3>1 DEF LaunchInv
    <3>4. \A u \in Threads : cur'[u] = cur[d] => u = d
      BY <1>4, <3>2, <3>3
    <3> QED
      BY <1>3, <3>2, <3>3, <3>4
  <2> QED
    BY <1>3, <2>1 DEF LaunchInv
<1>9. /\ \A u \in Threads \ {t}, j \in Launches : \A k \in Nat :
            (Holds(u, j, k)' <=> Holds(u, j, k)) /\ (Holds(u, j, k) => pc'[u] = pc[u])
      /\ \A j \in Launches : \A k \in Nat :
            /\ ~Holds(t, j, k)'
            /\ Holds(t, j, k) <=> j = i /\ k = m
  BY <1>1, <1>2, <1>4, <1>5 DEF Holds
<1>10. ClaimInv'
  <2>1. \A u \in Threads : Busy(u)' =>
           u # t /\ Busy(u) /\ cur'[u] = cur[u] /\ idx'[u] = idx[u] /\ pc'[u] = pc[u]
    BY <1>4, <1>5
  <2>2. ASSUME NEW j \in Launches, NEW k \in 0 .. total'[j] - 1, k < next'[j]
        PROVE  <<j, k>> \in ran' \/ \E u \in Threads : Holds(u, j, k)'
    <3>1. k \in Nat /\ k \in 0 .. total[j] - 1 /\ k < next[j]
      BY <1>3, <2>2 DEF TypeOK
    <3>2. <<j, k>> \in ran \/ \E u \in Threads : Holds(u, j, k)
      BY <3>1 DEF ClaimInv
    <3> QED
      BY <1>2, <1>3, <1>9, <3>1, <3>2
  <2>3. \A u \in Threads : Busy(u)' =>
          /\ idx'[u] < next'[cur'[u]] /\ idx'[u] < total'[cur'[u]]
          /\ <<cur'[u], idx'[u]>> \in ran' <=> pc'[u] # "run"
    BY <1>3, <2>1 DEF ClaimInv
  <2>4. \A u, v \in Threads :
           Busy(u)' /\ Busy(v)' /\ cur'[u] = cur'[v] /\ idx'[u] = idx'[v] => u = v
    BY <2>1 DEF ClaimInv
  <2>5. \A p \in ran' : p[2] < next'[p[1]] /\ p[2] < total'[p[1]]
    BY <1>3 DEF ClaimInv
  <2> QED
    BY <2>2, <2>3, <2>4, <2>5 DEF ClaimInv
<1>11. ~Held(i, m)' /\ ~Pending(i, m)' /\ ~Pending(i, m)
  <2>1. \A u \in Threads : ~Holds(u, i, m)'
    BY <1>2, <1>9
  <2>2. ~(m >= next'[i])
    BY <1>2, <1>3 DEF TypeOK
  <2>3. ~Held(i, m)'
    BY <2>1, <2>2 DEF Held
  <2>4. ~Pending(i, m)
    BY <1>1, <1>2 DEF Pending
  <2> QED
    BY <2>3, <2>4 DEF Pending
<1>12. \A j \in Launches : \A k \in 0 .. MaxTasks - 1 :
          <<j, k>> # <<i, m>> => (Held(j, k)' <=> Held(j, k)) /\ (Pending(j, k)' <=> Pending(j, k))
  <2> TAKE j \in Launches
  <2> TAKE k \in 0 .. MaxTasks - 1
  <2> HAVE <<j, k>> # <<i, m>>
  <2>1. \A c \in Callers : /\ pc'[c] = "launch_ref" <=> pc[c] = "launch_ref"
                           /\ pc'[c] = "launch_count" <=> pc[c] = "launch_count"
                           /\ pc[c] \in {"launch_ref", "launch_count"} => cur'[c] = cur[c]
    BY <1>1, <1>4 DEF Threads
  <2>2. k \in Nat
    BY ConstantsAssumption
  <2>3. \A u \in Threads : /\ Holds(u, j, k)' <=> Holds(u, j, k)
                           /\ Holds(u, j, k) => pc'[u] = pc[u]
    BY <1>9, <2>2
  <2>4. Held(j, k)' <=> Held(j, k)
    BY <1>3, <2>1, <2>3 DEF Held
  <2>5. Pending(j, k)' <=> Pending(j, k)
    BY <2>1, <2>3, <2>4 DEF Pending
  <2> QED
    BY <2>4, <2>5
<1>13. \A h \in Groups : PendingTasks(h)' = PendingTasks(h) /\ Owners(h)' = Owners(h)
  <2>1. \A j \in Launches : \A k \in 0 .. MaxTasks - 1 : Pending(j, k)' <=> Pending(j, k)
    BY <1>11, <1>12
  <2> QED
    BY <1>3, <2>1, SamePending DEF Owners
<1>14. \A h \in Groups \ {g} : HeldTasks(h)' = HeldTasks(h)
  BY <1>2, <1>3, <1>12, SameSets
<1>15. HeldTasks(g)' = HeldTasks(g) \ {<<i, m>>} /\ <<i, m>> \in HeldTasks(g)
  <2>1. <<i, m>> \in HeldTasks(g)
    BY <1>2 DEF HeldTasks, Tasks
  <2>2. \A p \in Tasks : p \in HeldTasks(g)' <=> p \in HeldTasks(g) \ {<<i, m>>}
    BY <1>2, <1>3, <1>11, <1>12 DEF HeldTasks, Tasks
  <2> QED
    BY <2>1, <2>2 DEF HeldTasks, Tasks
<1>16. Cardinality(HeldTasks(g)') = Cardinality(HeldTasks(g)) - 1 /\ Cardinality(HeldTasks(g)) > 0
  <2>1. IsFiniteSet(HeldTasks(g)) /\ Cardinality(HeldTasks(g)) \in Nat
    BY Finite
  <2>2. Cardinality(HeldTasks(g)') = Cardinality(HeldTasks(g)) - 1
    BY <1>15, <2>1, FS_RemoveElement
  <2>3. Cardinality(HeldTasks(g)) # 0
    BY <1>15, <2>1, FS_EmptySet
  <2> QED
    BY <2>1, <2>2, <2>3
<1>17. /\ refs'[g] = refs[g] - 1 /\ \A h \in Groups \ {g} : refs'[h] = refs[h]
       /\ \A h \in Groups \ {g} : h \in alive' <=> h \in alive
  BY <1>3 DEF TypeOK
<1>18. CountersExact'
  <2>1. Cardinality(Owners(g)) \in Nat /\ Cardinality(HeldTasks(g)) \in Nat
    BY Finite
  <2>2. refs[g] \in Int /\ refs[g] = Cardinality(HeldTasks(g)) + Cardinality(Owners(g))
    BY DEF CountersExact, TypeOK
  <2>3. g \in alive
    BY <1>16, <2>1, <2>2 DEF CountersExact
  <2>4. refs'[g] = Cardinality(HeldTasks(g)') + Cardinality(Owners(g)')
    BY <1>13, <1>16, <1>17, <2>1, <2>2
  <2>5. g \in alive' <=> refs'[g] > 0
    BY <1>3, <1>16, <1>17, <2>1, <2>2, <2>3
  <2>6. \A h \in Groups \ {g} : /\ refs'[h] = Cardinality(HeldTasks(h)') + Cardinality(Owners(h)')
                                /\ h \in alive' <=> refs'[h] > 0
    BY <1>13, <1>14, <1>17 DEF CountersExact
  <2>7. \A h \in Groups : remaining'[h] = Cardinality(PendingTasks(h)')
    BY <1>3, <1>13 DEF CountersExact
  <2> QED
    BY <2>4, <2>5, <2>6, <2>7 DEF CountersExact
<1>19. HeldOpened'
  <2>1. \A j \in Launches : \A k \in 0 .. MaxTasks - 1 : Held(j, k)' => Held(j, k)
    BY <1>11, <1>12
  <2> QED
    BY <1>3, <2>1 DEF HeldOpened
<1>20. EndInv'
  BY <1>3, <1>4 DEF EndInv, Threads
<1> QED
  BY <1>6, <1>7, <1>8, <1>10, <1>18, <1>19, <1>20

-----------------------------------------------------------------------------
(* The invariant is inductive.                                              *)

\* The invariant holds at the start.
LEMMA InitIInv == Init => IInv
<1> SUFFICES ASSUME Init PROVE IInv
  OBVIOUS
<1>1. TypeOK
  BY TypeInit
<1>2. /\ \A c \in Callers : pc[c] = "idle" /\ handle[c] = NULL /\ opened[c] = {}
      /\ \A t \in Threads : cur[t] = NULL /\ pc[t] \in {"idle", "check", "off"}
      /\ \A i \in Launches : group[i] = NULL /\ total[i] = 0 /\ next[i] = 0
      /\ queue = <<>> /\ ran = {} /\ alive = {}
      /\ \A g \in Groups : refs[g] = 0 /\ remaining[g] = 0
  BY DEF Init, Threads
<1>3. HandleInv
  BY <1>2, ConstantsAssumption DEF HandleInv, KernelPcs
<1>4. \A t \in Threads : ~Busy(t) /\ ~Launching(t) /\ pc[t] # "claim"
  BY <1>2 DEF Busy, Launching
<1>5. CurInv
  BY <1>2, <1>4 DEF CurInv
<1>6. LaunchInv
  BY <1>2, <1>4 DEF LaunchInv, Threads
<1>7. ClaimInv
  BY <1>2, <1>4 DEF ClaimInv
<1>8. \A i \in Launches : \A k \in 0 .. MaxTasks - 1 : ~Held(i, k)
  BY <1>2 DEF Held
<1>9. \A g \in Groups : HeldTasks(g) = {} /\ PendingTasks(g) = {} /\ Owners(g) = {}
  BY <1>2, <1>8, ConstantsAssumption DEF HeldTasks, PendingTasks, Owners, Tasks, Pending
<1>10. CountersExact
  <2>1. \A g \in Groups : /\ Cardinality(HeldTasks(g)) = 0
                         /\ Cardinality(PendingTasks(g)) = 0
                         /\ Cardinality(Owners(g)) = 0
    BY <1>9, FS_EmptySet
  <2> QED
    BY <1>2, <2>1 DEF CountersExact
<1>11. HeldOpened
  BY <1>8 DEF HeldOpened
<1>12. EndInv
  BY <1>2 DEF EndInv
<1> QED
  BY <1>1, <1>3, <1>5, <1>6, <1>7, <1>10, <1>11, <1>12 DEF IInv

\* The invariant is inductive.
LEMMA NextIInv == IInv /\ [Next]_vars => IInv'
<1> SUFFICES ASSUME IInv, [Next]_vars PROVE IInv'
  OBVIOUS
<1> DEFINE Rest == HandleInv' /\ CurInv' /\ LaunchInv' /\ ClaimInv' /\ CountersExact' /\ HeldOpened' /\ EndInv'
<1>1. TypeOK'
  BY TypeStep DEF IInv
<1>2. ASSUME QuietAction PROVE Rest
  <2>1. \A g \in Groups : remaining[g] >= 0
    BY CountersNat DEF IInv
  <2>2. Quiet /\ queue' = queue /\ HandleInv' /\ EndInv'
    BY <1>2, <2>1, QuietStep DEF IInv
  <2>3. CurInv' /\ ClaimInv' /\ CountersExact' /\ HeldOpened'
    BY <2>2, QuietInv DEF IInv
  <2>4. LaunchInv'
    BY <2>2, QuietLaunch DEF IInv
  <2> QED
    BY <2>2, <2>3, <2>4
<1>3. ASSUME NEW t \in Threads, PickNothing(t) PROVE Rest
  <2>1. HandleInv' /\ Quiet /\ LaunchInv' /\ EndInv'
    BY <1>3, PickNothingStep
  <2>2. CurInv' /\ ClaimInv' /\ CountersExact' /\ HeldOpened'
    BY <2>1, QuietInv DEF IInv
  <2> QED
    BY <2>1, <2>2
<1> HIDE DEF Rest
<1>4. ASSUME NEW c \in Callers, NEW g \in Groups, ISPCAlloc(c, g) PROVE Rest
  BY <1>4, AllocStep DEF Rest
<1>5. ASSUME NEW c \in Callers, NEW g \in Groups, NEW i \in Launches, NEW n \in 1 .. MaxTasks,
             LaunchInline(c, g, i, n) PROVE Rest
  BY <1>5, LaunchInlineStep DEF Rest
<1>6. ASSUME NEW c \in Callers, NEW g \in Groups, NEW i \in Launches, NEW n \in 1 .. MaxTasks,
             LaunchTasks(c, g, i, n) PROVE Rest
  BY <1>6, LaunchTasksStep DEF Rest
<1>7. ASSUME NEW c \in Callers, LaunchRef(c) PROVE Rest
  BY <1>7, LaunchRefStep DEF Rest
<1>8. ASSUME NEW c \in Callers, LaunchCount(c) PROVE Rest
  BY <1>8, LaunchCountStep DEF Rest
<1>9. ASSUME NEW c \in Callers, Enqueue(c) PROVE Rest
  BY <1>9, EnqueueStep DEF Rest
<1>10. ASSUME NEW c \in Callers, SyncReturn(c) PROVE Rest
  BY <1>10, SyncReturnStep DEF Rest
<1>11. ASSUME NEW t \in Threads, PickPreferred(t) \/ PickFront(t) PROVE Rest
  BY <1>11, PickStep DEF Rest
<1>12. ASSUME NEW t \in Threads, Claim(t) PROVE Rest
  BY <1>12, ClaimStep DEF Rest
<1>13. ASSUME NEW t \in Threads, Run(t) PROVE Rest
  BY <1>13, RunStep DEF Rest
<1>14. ASSUME NEW t \in Threads, Finish(t) PROVE Rest
  BY <1>14, FinishStep DEF Rest
<1>15. ASSUME NEW t \in Threads, Release(t) PROVE Rest
  BY <1>15, ReleaseStep DEF Rest
<1>16. Rest
  BY <1>2, <1>3, <1>4, <1>5, <1>6, <1>7, <1>8, <1>9, <1>10, <1>11, <1>12, <1>13, <1>14, <1>15,
     NextCases
<1> QED
  BY <1>1, <1>16 DEF Rest, IInv

-----------------------------------------------------------------------------
(* What the invariant gives.                                                *)

\* The group of a task that holds a reference is alive,
LEMMA HeldAlive ==
  ASSUME IInv, NEW i \in Launches, NEW k \in 0 .. MaxTasks - 1, Held(i, k), group[i] \in Groups
  PROVE  group[i] \in alive
<1> DEFINE g == group[i]
<1>1. <<i, k>> \in HeldTasks(g)
  BY DEF HeldTasks, Tasks
<1>2. Cardinality(HeldTasks(g)) # 0
  BY <1>1, Finite, FS_EmptySet
<1> QED
  BY <1>2, Finite DEF IInv, CountersExact

\* and so is the group a caller holds.
LEMMA OwnedAlive ==
  ASSUME IInv, NEW c \in Callers, handle[c] \in Groups
  PROVE  handle[c] \in alive
<1>1. c \in Owners(handle[c])
  BY DEF Owners
<1>2. Cardinality(Owners(handle[c])) # 0
  BY <1>1, Finite, FS_EmptySet
<1> QED
  BY <1>2, Finite DEF IInv, CountersExact

\* From the invariant: no task runs twice,
LEMMA InvRunsOnce == IInv => RunsOnce
<1> SUFFICES ASSUME IInv PROVE RunsOnce
  OBVIOUS
<1>1. \A t \in Threads : pc[t] = "run" => <<cur[t], idx[t]>> \notin ran
  BY DEF IInv, ClaimInv, Busy
<1>2. \A t, u \in Threads :
         Busy(t) /\ Busy(u) /\ cur[t] = cur[u] /\ idx[t] = idx[u] => t = u
  BY DEF IInv, ClaimInv
<1> QED
  BY <1>1, <1>2 DEF RunsOnce

\* a sync returns after all tasks of its group,
LEMMA InvSyncAfterAllTasks == IInv => SyncAfterAllTasks
<1> SUFFICES ASSUME IInv, NEW c \in Callers, pc[c] = "end", NEW i \in opened[c],
                    NEW k \in 0 .. total[i] - 1
             PROVE  <<i, k>> \in ran
  BY DEF SyncAfterAllTasks, TasksOf
<1> DEFINE g == handle[c]
<1>1. i \in Launches /\ g \in Groups /\ group[i] = g
  BY DEF IInv, TypeOK, HandleInv, KernelPcs
<1>2. total[i] \in 0 .. MaxTasks /\ k \in Nat /\ k < total[i] /\ next[i] \in Nat
  BY <1>1, ConstantsAssumption DEF IInv, TypeOK
<1>3. k \in 0 .. MaxTasks - 1
  BY <1>2, ConstantsAssumption
<1>4. \A d \in Callers : Launching(d) => cur[d] # i
  <2> SUFFICES ASSUME NEW d \in Callers, Launching(d), cur[d] = i PROVE FALSE
    OBVIOUS
  <2>1. handle[d] = g
    BY <1>1, LaunchFacts
  <2>2. d = c
    BY <1>1, <2>1, ConstantsAssumption DEF IInv, HandleInv
  <2> QED
    BY <2>2 DEF Launching
<1>5. PendingTasks(g) = {}
  <2>1. remaining[g] = 0
    BY DEF IInv, EndInv
  <2>2. Cardinality(PendingTasks(g)) = 0
    BY <1>1, <2>1 DEF IInv, CountersExact
  <2> QED
    BY <2>2, Finite, FS_EmptySet
<1>6. ~Pending(i, k)
  <2>1. <<i, k>> \in Tasks
    BY <1>1, <1>3 DEF Tasks
  <2>2. Pending(i, k) => <<i, k>> \in PendingTasks(g)
    BY <1>1, <2>1 DEF PendingTasks
  <2> QED
    BY <1>5, <2>2
<1>7. CASE Held(i, k)
  <2>1. PICK t \in Threads : Holds(t, i, k) /\ pc[t] \notin {"run", "finish"}
    BY <1>4, <1>6, <1>7 DEF Pending, Launching
  <2>2. Busy(t) /\ cur[t] = i /\ idx[t] = k /\ pc[t] # "run"
    BY <2>1 DEF Holds
  <2> QED
    BY <2>2 DEF IInv, ClaimInv
<1>8. CASE ~Held(i, k)
  <2>1. k < next[i] /\ ~\E t \in Threads : Holds(t, i, k)
    BY <1>2, <1>4, <1>8 DEF Held, Launching
  <2> QED
    BY <1>1, <2>1 DEF IInv, ClaimInv
<1> QED
  BY <1>7, <1>8

\* no thread uses a group that was freed,
LEMMA InvNoUseAfterFree == IInv => NoUseAfterFree
<1> SUFFICES ASSUME IInv, NEW t \in Threads PROVE Touches(t) \subseteq alive
  BY DEF NoUseAfterFree
<1>1. CASE Busy(t)
  <2>1. group[cur[t]] \in alive
    BY <1>1, BusyFacts, HeldAlive
  <2> QED
    BY <1>1, <2>1 DEF Touches
<1>2. CASE ~Busy(t) /\ t \in Callers
              /\ pc[t] \in {"launch_ref", "launch_count", "enqueue", "notify",
                            "sync", "wait", "blocked", "end"}
  <2>1. handle[t] \in Groups
    BY <1>2 DEF IInv, HandleInv, KernelPcs
  <2> QED
    BY <1>2, <2>1, OwnedAlive DEF Touches
<1> QED
  BY <1>1, <1>2 DEF Touches

\* and a work item of a freed group has no task left.
LEMMA InvStaleItemsSpent == IInv => StaleItemsSpent
<1> SUFFICES ASSUME IInv, NEW n \in DOMAIN queue, Unclaimed(queue[n])
             PROVE  /\ group[queue[n]] \in alive
                    /\ \A c \in Callers : handle[c] = group[queue[n]] => queue[n] \in opened[c]
  BY DEF StaleItemsSpent
<1> DEFINE i == queue[n]
           k == next[i]
<1>1. i \in Launches
  BY DEF IInv, TypeOK
<1>2. group[i] \in Groups
  BY <1>1 DEF IInv, TypeOK, LaunchInv
<1>3. next[i] \in Nat /\ next[i] < total[i] /\ total[i] \in 0 .. MaxTasks
  BY <1>1 DEF IInv, TypeOK, Unclaimed
<1>4. k \in 0 .. MaxTasks - 1 /\ k < total[i] /\ k >= next[i]
  BY <1>3, ConstantsAssumption
<1>5. \A c \in Callers : pc[c] = "launch_ref" => cur[c] # i
  BY DEF IInv, LaunchInv, Launching
<1>6. Held(i, k)
  BY <1>4, <1>5 DEF Held
<1>7. group[i] \in alive
  BY <1>1, <1>2, <1>4, <1>6, HeldAlive
<1>8. \A c \in Callers : handle[c] = group[i] => i \in opened[c]
  BY <1>1, <1>2, <1>4, <1>6, ConstantsAssumption DEF IInv, HeldOpened
<1> QED
  BY <1>7, <1>8

-----------------------------------------------------------------------------
(* The theorems: in every execution of the runtime, with any number of      *)
(* callers and workers and with set_thread_budget called at any time,       *)

(* the inductive invariant holds,                                           *)
THEOREM Invariant == Spec => []IInv
  BY InitIInv, NextIInv, PTL DEF Spec

(* the state has its type,                                                  *)
THEOREM TypeCorrect == Spec => []TypeOK
<1>1. IInv => TypeOK
  BY DEF IInv
<1> QED
  BY <1>1, Invariant, PTL

(* no index that next_index.fetch_add hands out in do_work is run twice,    *)
THEOREM TasksRunOnce == Spec => []RunsOnce
  BY Invariant, InvRunsOnce, PTL

(* ISPCSync returns only after every task of the kernel has run,            *)
THEOREM SyncIsABarrier == Spec => []SyncAfterAllTasks
  BY Invariant, InvSyncAfterAllTasks, PTL

(* no thread dereferences a TaskGroup that release() has deleted,           *)
THEOREM GroupsOutliveTheirUsers == Spec => []NoUseAfterFree
  BY Invariant, InvNoUseAfterFree, PTL

(* ref_count and remaining_tasks count exactly the tasks and the kernels    *)
(* they are meant to, and no group leaks,                                   *)
THEOREM CountersAreExact == Spec => []CountersExact
<1>1. IInv => CountersExact
  BY DEF IInv
<1> QED
  BY <1>1, Invariant, PTL

(* and no item left in queue_ after its group was deleted can be claimed.   *)
THEOREM DeletedGroupsHaveNoWork == Spec => []StaleItemsSpent
  BY Invariant, InvStaleItemsSpent, PTL

-----------------------------------------------------------------------------
(* Notifications, fork-join and the thread budget.                         *)

(* A step of one thread that ends no notification in progress, and starts   *)
(* one if it gives a sleeping thread something to wake for.                 *)
LEMMA SteadyStep ==
  ASSUME TypeOK, NoLostWakeup, NEW t \in Threads, NEW label, Goto(t, label),
         pc[t] \notin {"notify", "wake_all", "signal"},
         label = "asleep" => queue' = <<>> /\ ~stop',
         label = "blocked" => remaining'[handle'[t]] # 0,
         queue' # <<>> \/ stop' =>
            queue # <<>> \/ stop \/ (t \in Callers /\ label \in {"notify", "wake_all"}),
         \A c \in Callers \ {t} : pc[c] = "blocked" =>
            /\ handle'[c] = handle[c]
            /\ remaining'[handle[c]] = 0 =>
                  remaining[handle[c]] = 0 \/ (label = "signal" /\ group'[cur'[t]] = handle[c]),
         \A u \in Threads \ {t} : pc[u] = "signal" => group'[cur'[u]] = group[cur[u]]
  PROVE  NoLostWakeup'
<1>1. pc'[t] = label /\ \A u \in Threads \ {t} : pc'[u] = pc[u]
  BY DEF Goto, TypeOK
<1>2. ASSUME NEW w \in Workers, pc'[w] = "asleep", queue' # <<>> \/ stop'
      PROVE  \E c \in Callers : pc'[c] \in {"notify", "wake_all"}
  <2>1. w # t /\ pc[w] = "asleep"
    BY <1>1, <1>2 DEF Threads
  <2>2. CASE queue # <<>> \/ stop
    <3>1. PICK c \in Callers : pc[c] \in {"notify", "wake_all"}
      BY <2>1, <2>2 DEF NoLostWakeup
    <3> QED
      BY <1>1, <3>1 DEF Threads
  <2>3. CASE t \in Callers /\ label \in {"notify", "wake_all"}
    BY <1>1, <2>3
  <2> QED
    BY <1>2, <2>2, <2>3
<1>3. ASSUME NEW c \in Callers, pc'[c] = "blocked", remaining'[handle'[c]] = 0
      PROVE  \E u \in Threads : pc'[u] = "signal" /\ group'[cur'[u]] = handle'[c]
  <2>1. c # t /\ pc[c] = "blocked" /\ handle'[c] = handle[c]
    BY <1>1, <1>3 DEF Threads
  <2>2. CASE remaining[handle[c]] = 0
    <3>1. PICK u \in Threads : pc[u] = "signal" /\ group[cur[u]] = handle[c]
      BY <2>1, <2>2 DEF NoLostWakeup
    <3> QED
      BY <1>1, <2>1, <3>1
  <2>3. CASE label = "signal" /\ group'[cur'[t]] = handle[c]
    BY <1>1, <2>1, <2>3
  <2> QED
    BY <1>3, <2>1, <2>2, <2>3
<1> QED
  BY <1>2, <1>3 DEF NoLostWakeup

(* A launch changes the group of no item that a thread works with.          *)
LEMMA LaunchKeepsSignals ==
  ASSUME IInv, NEW i \in Launches, group[i] = NULL, NEW g, group' = [group EXCEPT ![i] = g],
         NEW u \in Threads, pc[u] = "signal"
  PROVE  group'[cur[u]] = group[cur[u]]
<1>1. cur[u] \in Launches /\ group[cur[u]] \in Groups
  BY BusyFacts DEF Busy
<1> QED
  BY <1>1, ConstantsAssumption DEF IInv, TypeOK

\* No step loses the wakeup of a caller that waits.
LEMMA WakeupStep == IInv /\ NoLostWakeup /\ [Next]_vars => NoLostWakeup'
<1> SUFFICES ASSUME IInv, TypeOK, HandleInv, NoLostWakeup, [Next]_vars PROVE NoLostWakeup'
  BY DEF IInv
<1> USE DEF groupVars, itemVars, poolVars, histVars
<1>1. ASSUME NEW c \in Callers, BeginKernel(c) PROVE NoLostWakeup'
  BY <1>1, SteadyStep DEF BeginKernel, Threads
<1>2. ASSUME NEW c \in Callers, EndKernel(c) PROVE NoLostWakeup'
  BY <1>2, SteadyStep DEF EndKernel, Threads
<1>3. ASSUME NEW c \in Callers, NEW g \in Groups, ISPCAlloc(c, g) PROVE NoLostWakeup'
  <2>1. pc[c] = "kernel" /\ remaining' = remaining /\ \A d \in Callers \ {c} : handle'[d] = handle[d]
    BY <1>3, UseGroupFacts DEF ISPCAlloc, IInv
  <2>2. UNCHANGED <<pc, queue, stop, group, cur>>
    BY <1>3 DEF ISPCAlloc
  <2> QED
    BY <2>1, <2>2 DEF NoLostWakeup
<1>4. ASSUME NEW c \in Callers, NEW g \in Groups, NEW i \in Launches, NEW n \in 1 .. MaxTasks,
             LaunchInline(c, g, i, n)
      PROVE  NoLostWakeup'
  <2>1. pc[c] = "kernel" /\ remaining' = remaining /\ \A d \in Callers \ {c} : handle'[d] = handle[d]
    BY <1>4, UseGroupFacts DEF LaunchInline, IInv
  <2>2. UNCHANGED <<pc, queue, stop, cur>>
    BY <1>4 DEF LaunchInline
  <2>3. \A u \in Threads : pc[u] = "signal" => group'[cur[u]] = group[cur[u]]
    BY <1>4, LaunchKeepsSignals DEF LaunchInline
  <2> QED
    BY <2>1, <2>2, <2>3 DEF NoLostWakeup
<1>5. ASSUME NEW c \in Callers, NEW g \in Groups, NEW i \in Launches, NEW n \in 1 .. MaxTasks,
             LaunchTasks(c, g, i, n)
      PROVE  NoLostWakeup'
  <2>1. pc[c] = "kernel" /\ remaining' = remaining /\ \A d \in Callers \ {c} : handle'[d] = handle[d]
    BY <1>5, UseGroupFacts DEF LaunchTasks, IInv
  <2>2. Goto(c, "launch_ref") /\ UNCHANGED <<queue, stop>> /\ cur' = [cur EXCEPT ![c] = i]
    BY <1>5 DEF LaunchTasks
  <2>3. \A u \in Threads \ {c} : cur'[u] = cur[u]
    BY <2>2 DEF TypeOK
  <2>4. \A u \in Threads : pc[u] = "signal" => group'[cur[u]] = group[cur[u]]
    BY <1>5, LaunchKeepsSignals DEF LaunchTasks
  <2> QED
    BY <2>1, <2>2, <2>3, <2>4, SteadyStep DEF Threads
<1>6. ASSUME NEW c \in Callers, LaunchRef(c) PROVE NoLostWakeup'
  BY <1>6, SteadyStep DEF LaunchRef, Threads
<1>7. ASSUME NEW c \in Callers, LaunchCount(c) PROVE NoLostWakeup'
  <2>1. /\ pc[c] = "launch_count" /\ Goto(c, "enqueue")
        /\ remaining' = [remaining EXCEPT ![handle[c]] = @ + total[cur[c]]]
        /\ UNCHANGED <<handle, group, queue, cur, stop>>
    BY <1>7 DEF LaunchCount
  <2>2. \A d \in Callers \ {c} : handle[d] # handle[c]
    BY <2>1, LaunchFacts DEF Launching
  <2>3. \A d \in Callers \ {c} : pc[d] = "blocked" => remaining'[handle[d]] = remaining[handle[d]]
    BY <2>1, <2>2 DEF TypeOK, HandleInv, KernelPcs
  <2> QED
    BY <2>1, <2>3, SteadyStep DEF Threads
<1>8. ASSUME NEW c \in Callers, Enqueue(c) PROVE NoLostWakeup'
  <2>1. \A u \in Threads \ {c} : cur'[u] = cur[u]
    BY <1>8 DEF Enqueue, TypeOK
  <2> QED
    BY <1>8, <2>1, SteadyStep DEF Enqueue, Threads
<1>9. ASSUME NEW c \in Callers, NotifyWorkers(c) \/ ShutdownNotify(c) PROVE NoLostWakeup'
  <2>1. /\ pc[c] \in {"notify", "wake_all"}
        /\ UNCHANGED <<handle, remaining, group, queue, cur, stop>>
    BY <1>9 DEF NotifyWorkers, ShutdownNotify
  <2>2. /\ \A u \in Threads : pc'[u] # "asleep"
        /\ \A u \in Threads : pc[u] = "signal" => pc'[u] = "signal"
        /\ \A u \in Threads : pc'[u] = "blocked" => pc[u] = "blocked"
    BY <1>9 DEF NotifyWorkers, ShutdownNotify, WakeWorkersAndGo, Threads
  <2> QED
    BY <2>1, <2>2 DEF NoLostWakeup, Threads
<1>10. ASSUME NEW c \in Callers, SyncLoop(c) PROVE NoLostWakeup'
  BY <1>10, SteadyStep DEF SyncLoop, Threads
<1>11. ASSUME NEW c \in Callers, SyncWait(c) PROVE NoLostWakeup'
  BY <1>11, SteadyStep DEF SyncWait, Threads
<1>12. ASSUME NEW c \in Callers, SyncTimeout(c) PROVE NoLostWakeup'
  BY <1>12, SteadyStep DEF SyncTimeout, Threads
<1>13. ASSUME NEW c \in Callers, SyncReturn(c) PROVE NoLostWakeup'
  <2>1. \A d \in Callers \ {c} : handle'[d] = handle[d]
    BY <1>13 DEF SyncReturn, TypeOK
  <2> QED
    BY <1>13, <2>1, SteadyStep DEF SyncReturn, ReleaseGroup, Threads
<1>14. ASSUME NEW t \in Threads, PickPreferred(t) \/ PickFront(t) PROVE NoLostWakeup'
  <2>1. queue' # <<>> => queue # <<>>
    BY <1>14, PickType DEF TypeOK
  <2>2. \A u \in Threads \ {t} : cur'[u] = cur[u]
    BY <1>14, PickType DEF TypeOK
  <2>3. /\ pc[t] = "pick" /\ Goto(t, "claim")
        /\ UNCHANGED <<handle, remaining, group, stop>>
    BY <1>14 DEF PickPreferred, PickFront
  <2> QED
    BY <2>1, <2>2, <2>3, SteadyStep
<1>15. ASSUME NEW t \in Threads, PickNothing(t) PROVE NoLostWakeup'
  BY <1>15, SteadyStep DEF PickNothing
<1>16. ASSUME NEW t \in Threads, Claim(t) PROVE NoLostWakeup'
  <2>1. \A u \in Threads \ {t} : cur'[u] = cur[u]
    BY <1>16 DEF Claim, TypeOK
  <2> QED
    BY <1>16, <2>1, SteadyStep DEF Claim
<1>17. ASSUME NEW t \in Threads, Run(t) PROVE NoLostWakeup'
  BY <1>17, SteadyStep DEF Run
<1>18. ASSUME NEW t \in Threads, Finish(t) PROVE NoLostWakeup'
  <2> DEFINE g == group[cur[t]]
  <2>1. /\ pc[t] = "finish" /\ UNCHANGED <<handle, group, queue, cur, stop>>
        /\ Goto(t, IF remaining[g] = 1 THEN "signal" ELSE "release")
        /\ remaining' = [remaining EXCEPT ![g] = @ - 1]
    BY <1>18 DEF Finish
  <2>2. g \in Groups
    BY <2>1, BusyFacts DEF Busy
  <2>3. ASSUME NEW c \in Callers \ {t}, pc[c] = "blocked", remaining'[handle[c]] = 0
        PROVE  remaining[handle[c]] = 0 \/ (remaining[g] = 1 /\ g = handle[c])
    BY <2>1, <2>2, <2>3 DEF TypeOK, HandleInv, KernelPcs
  <2> HIDE DEF g
  <2>4. CASE remaining[g] = 1
    <3>1. Goto(t, "signal")
      BY <2>1, <2>4
    <3> QED
      BY <2>1, <2>3, <3>1, SteadyStep DEF g
  <2>5. CASE remaining[g] # 1
    <3>1. Goto(t, "release")
      BY <2>1, <2>5
    <3> QED
      BY <2>1, <2>3, <2>5, <3>1, SteadyStep
  <2> QED
    BY <2>4, <2>5
<1>19. ASSUME NEW t \in Threads, Signal(t) PROVE NoLostWakeup'
  <2> DEFINE g == group[cur[t]]
  <2>1. /\ pc[t] = "signal"
        /\ UNCHANGED <<handle, remaining, group, queue, cur, stop>>
    BY <1>19 DEF Signal
  <2>2. /\ \A u \in Threads \ {t} : pc'[u] = pc[u] \/ (pc[u] = "blocked" /\ pc'[u] = "wait")
        /\ pc'[t] = "release"
        /\ \A u \in Threads : pc'[u] = "blocked" => handle[u] # g
    BY <1>19 DEF Signal
  <2>3. \A w \in Workers : pc'[w] = "asleep" => pc[w] = "asleep"
    BY <2>2 DEF Threads
  <2>4. \A c \in Callers : pc[c] \in {"notify", "wake_all"} => pc'[c] = pc[c]
    BY <2>1, <2>2 DEF Threads
  <2>5. \A c \in Callers : pc'[c] = "blocked" => pc[c] = "blocked" /\ handle[c] # g
    BY <2>2 DEF Threads
  <2>6. \A u \in Threads \ {t} : pc[u] = "signal" => pc'[u] = "signal"
    BY <2>2
  <2> QED
    BY <2>1, <2>3, <2>4, <2>5, <2>6 DEF NoLostWakeup
<1>20. ASSUME NEW t \in Threads, Release(t) PROVE NoLostWakeup'
  <2>1. \A u \in Threads \ {t} : cur'[u] = cur[u]
    BY <1>20 DEF Release, TypeOK
  <2> QED
    BY <1>20, <2>1, SteadyStep DEF Release, ReleaseGroup
<1>21. ASSUME NEW w \in Workers, WorkerCheck(w) PROVE NoLostWakeup'
  BY <1>21, SteadyStep DEF WorkerCheck, Threads
<1>22. ASSUME NEW w \in Workers, SpuriousWake(w) PROVE NoLostWakeup'
  BY <1>22, SteadyStep DEF SpuriousWake, Threads
<1>23. ASSUME NEW c \in Callers, NEW n \in Budgets, SetBudget(c, n) PROVE NoLostWakeup'
  BY <1>23, SteadyStep DEF SetBudget, Threads
<1>24. ASSUME NEW c \in Callers, Shutdown(c) PROVE NoLostWakeup'
  BY <1>24, SteadyStep DEF Shutdown, Threads
<1>25. ASSUME NEW c \in Callers, Join(c) PROVE NoLostWakeup'
  BY <1>25, SteadyStep DEF Join, Threads
<1>26. ASSUME NEW c \in Callers, NEW S \in SUBSET Workers, InitWorkers(c, S) PROVE NoLostWakeup'
  <2>1. /\ pc[c] = "init" /\ ~stop'
        /\ UNCHANGED <<handle, remaining, group, queue, cur>>
        /\ \A w \in S : pc[w] = "off"
    BY <1>26 DEF InitWorkers
  <2>2. \A u \in Threads : \/ pc'[u] = pc[u]
                           \/ u = c /\ pc'[u] = "idle"
                           \/ u \in S /\ pc'[u] = "check"
    BY <1>26 DEF InitWorkers
  <2>3. /\ \A w \in Workers : pc'[w] = "asleep" => pc[w] = "asleep"
        /\ \A d \in Callers : pc[d] \in {"notify", "wake_all"} => pc'[d] = pc[d]
        /\ \A d \in Callers : pc'[d] = "blocked" => pc[d] = "blocked"
        /\ \A u \in Threads : pc[u] = "signal" => pc'[u] = "signal"
    BY <2>1, <2>2, ConstantsAssumption DEF Threads
  <2> QED
    BY <2>1, <2>3 DEF NoLostWakeup
<1>27. CASE UNCHANGED vars
  BY <1>27 DEF vars, NoLostWakeup
<1> QED
  BY <1>1, <1>2, <1>3, <1>4, <1>5, <1>6, <1>7, <1>8, <1>9, <1>10, <1>11, <1>12, <1>13, <1>14,
     <1>15, <1>16, <1>17, <1>18, <1>19, <1>20, <1>21, <1>22, <1>23, <1>24, <1>25, <1>26, <1>27
  DEF Next, Launch, CallerStep, WorkerStep, DoWork, Threads

(* No worker sleeps through a launch or a shutdown, and no caller of        *)
(* ISPCSync through the end of its last task, unless the notification is    *)
(* still to come.                                                           *)
THEOREM WakeupsAreNotLost == Spec => []NoLostWakeup
<1>1. Init => NoLostWakeup
  BY DEF Init, NoLostWakeup, Threads
<1> QED
  BY <1>1, WakeupStep, Invariant, PTL DEF Spec

-----------------------------------------------------------------------------
(* The runtime implements fork-join.                                        *)

(* ISPCSync of the kernel that made it has not returned while a launch has  *)
(* tasks left to run.                                                       *)
UnfinishedOpen ==
    \A i \in Launches : \A k \in 0 .. total[i] - 1 :
        <<i, k>> \in ran \/ \E c \in Callers : i \in opened[c]

(* The steps that the fork-join specification sees.                         *)
ForkJoinAction ==
    \/ \E c \in Callers, g \in Groups, i \in Launches, n \in 1 .. MaxTasks :
          LaunchInline(c, g, i, n) \/ LaunchTasks(c, g, i, n)
    \/ \E c \in Callers : SyncReturn(c)
    \/ \E t \in Threads : Run(t)

\* A step that is none of those of ForkJoin leaves its variables alone.
LEMMA InvisibleStep ==
  ASSUME [Next]_vars
  PROVE  ForkJoinAction \/ UNCHANGED <<total, ran, opened>>
<1> USE DEF itemVars, histVars
<1>1. ASSUME NEW c \in Callers,
             BeginKernel(c) \/ EndKernel(c) \/ LaunchRef(c) \/ LaunchCount(c) \/ Enqueue(c)
             \/ NotifyWorkers(c) \/ SyncLoop(c) \/ SyncWait(c) \/ SyncTimeout(c)
             \/ Shutdown(c) \/ ShutdownNotify(c) \/ Join(c)
      PROVE  UNCHANGED <<total, ran, opened>>
  BY <1>1 DEF BeginKernel, EndKernel, LaunchRef, LaunchCount, Enqueue, NotifyWorkers, SyncLoop,
              SyncWait, SyncTimeout, Shutdown, ShutdownNotify, Join
<1>2. ASSUME NEW c \in Callers, NEW g \in Groups, ISPCAlloc(c, g) PROVE UNCHANGED <<total, ran, opened>>
  BY <1>2 DEF ISPCAlloc
<1>3. ASSUME NEW c \in Callers, NEW S \in SUBSET Workers, InitWorkers(c, S)
      PROVE  UNCHANGED <<total, ran, opened>>
  BY <1>3 DEF InitWorkers
<1>4. ASSUME NEW c \in Callers, NEW n \in Budgets, SetBudget(c, n) PROVE UNCHANGED <<total, ran, opened>>
  BY <1>4 DEF SetBudget
<1>5. ASSUME NEW t \in Threads,
             PickPreferred(t) \/ PickFront(t) \/ PickNothing(t) \/ Claim(t) \/ Finish(t)
             \/ Signal(t) \/ Release(t)
      PROVE  UNCHANGED <<total, ran, opened>>
  BY <1>5 DEF PickPreferred, PickFront, PickNothing, Claim, Finish, Signal, Release
<1>6. ASSUME NEW w \in Workers, WorkerCheck(w) \/ SpuriousWake(w) PROVE UNCHANGED <<total, ran, opened>>
  BY <1>6 DEF WorkerCheck, SpuriousWake
<1>7. CASE UNCHANGED vars
  BY <1>7 DEF vars
<1> QED
  BY <1>1, <1>2, <1>3, <1>4, <1>5, <1>6, <1>7
  DEF Next, Launch, CallerStep, WorkerStep, DoWork, Threads, ForkJoinAction

(* A launch opens its tasks, none of which has been seen before.            *)
LEMMA LaunchForks ==
  ASSUME IInv, NEW c \in Callers, NEW g \in Groups, NEW i \in Launches, NEW n \in 1 .. MaxTasks,
         LaunchInline(c, g, i, n) \/ LaunchTasks(c, g, i, n)
  PROVE  /\ opened' = [opened EXCEPT ![c] = @ \cup {i}]
         /\ total' = [total EXCEPT ![i] = n]
         /\ \A d \in Callers : i \notin opened[d]
         /\ total[i] = 0
         /\ ran' \in {ran, ran \cup ({i} \X (0 .. n - 1))}
         /\ ({i} \X (0 .. n - 1)) \subseteq Tasks
<1>1. /\ group[i] = NULL
      /\ opened' = [opened EXCEPT ![c] = @ \cup {i}]
      /\ total' = [total EXCEPT ![i] = n]
      /\ ran' \in {ran, ran \cup ({i} \X (0 .. n - 1))}
  BY DEF LaunchInline, LaunchTasks
<1>2. total[i] = 0 /\ \A d \in Callers : i \notin opened[d]
  BY <1>1, FreshLaunch DEF IInv
<1>3. ({i} \X (0 .. n - 1)) \subseteq Tasks
  BY ConstantsAssumption DEF Tasks
<1> QED
  BY <1>1, <1>2, <1>3

\* Every step keeps tasks that have not run among the open launches.
LEMMA UnfinishedOpenStep == IInv /\ UnfinishedOpen /\ [Next]_vars => UnfinishedOpen'
<1> SUFFICES ASSUME IInv, UnfinishedOpen, [Next]_vars,
                    NEW j \in Launches, NEW k \in 0 .. total'[j] - 1
             PROVE  <<j, k>> \in ran' \/ \E c \in Callers : j \in opened'[c]
  BY DEF UnfinishedOpen
<1>1. ASSUME NEW c \in Callers, NEW g \in Groups, NEW i \in Launches, NEW n \in 1 .. MaxTasks,
             LaunchInline(c, g, i, n) \/ LaunchTasks(c, g, i, n)
      PROVE  <<j, k>> \in ran' \/ \E d \in Callers : j \in opened'[d]
  <2>1. /\ opened' = [opened EXCEPT ![c] = @ \cup {i}]
        /\ total' = [total EXCEPT ![i] = n]
        /\ ran \subseteq ran'
    BY <1>1, LaunchForks
  <2>2. /\ i \in opened'[c]
        /\ \A d \in Callers : opened[d] \subseteq opened'[d]
    BY <2>1 DEF IInv, TypeOK
  <2>3. CASE j = i
    BY <2>2, <2>3
  <2>4. CASE j # i
    <3>1. k \in 0 .. total[j] - 1
      BY <2>1, <2>4 DEF IInv, TypeOK
    <3> QED
      BY <2>1, <2>2, <3>1 DEF UnfinishedOpen
  <2> QED
    BY <2>3, <2>4
<1>2. ASSUME NEW c \in Callers, SyncReturn(c)
      PROVE  <<j, k>> \in ran' \/ \E d \in Callers : j \in opened'[d]
  <2>1. /\ pc[c] = "end" /\ UNCHANGED <<total, ran>>
        /\ opened' = [opened EXCEPT ![c] = {}]
    BY <1>2 DEF SyncReturn, itemVars
  <2>2. j \in opened[c] => <<j, k>> \in ran
    BY <2>1, InvSyncAfterAllTasks DEF SyncAfterAllTasks, TasksOf
  <2>3. \A d \in Callers \ {c} : opened'[d] = opened[d]
    BY <2>1 DEF IInv, TypeOK
  <2> QED
    BY <2>1, <2>2, <2>3 DEF UnfinishedOpen
<1>3. ASSUME NEW t \in Threads, Run(t)
      PROVE  <<j, k>> \in ran' \/ \E d \in Callers : j \in opened'[d]
  BY <1>3 DEF Run, UnfinishedOpen, itemVars
<1>4. CASE UNCHANGED <<total, ran, opened>>
  BY <1>4 DEF UnfinishedOpen
<1> QED
  BY <1>1, <1>2, <1>3, <1>4, InvisibleStep DEF ForkJoinAction

\* The initial state is one of ForkJoin.
LEMMA InitForkJoin == Init => FJ!Init
<1> SUFFICES ASSUME Init PROVE FJ!Init
  OBVIOUS
<1>1. \A c \in Callers : opened[c] = {}
  BY DEF Init
<1>2. Forked = [c \in Callers |-> {}]
  BY <1>1 DEF Forked
<1> QED
  BY <1>2 DEF FJ!Init, Init

\* Every step is a step of ForkJoin or a stutter.
LEMMA StepForkJoin == IInv /\ UnfinishedOpen /\ [Next]_vars => [FJ!Next]_FJ!vars
<1> SUFFICES ASSUME IInv, UnfinishedOpen, [Next]_vars PROVE FJ!Next \/ UNCHANGED <<Forked, ran>>
  BY DEF FJ!vars
<1>1. ASSUME NEW c \in Callers, NEW g \in Groups, NEW i \in Launches, NEW n \in 1 .. MaxTasks,
             LaunchInline(c, g, i, n) \/ LaunchTasks(c, g, i, n)
      PROVE  FJ!Next
  <2> DEFINE T == {i} \X (0 .. n - 1)
  <2>1. /\ opened' = [opened EXCEPT ![c] = @ \cup {i}]
        /\ total' = [total EXCEPT ![i] = n]
        /\ \A d \in Callers : i \notin opened[d]
        /\ total[i] = 0
        /\ ran' \in {ran, ran \cup T}
        /\ T \subseteq Tasks
    BY <1>1, LaunchForks
  <2>2. TasksOf(i)' = T /\ \A j \in Launches \ {i} : TasksOf(j)' = TasksOf(j)
    BY <2>1 DEF TasksOf, IInv, TypeOK
  <2>3. T \cap ran = {}
    BY <2>1 DEF IInv, ClaimInv
  <2>4. \A d \in Callers : T \cap Forked[d] = {}
    BY <2>1 DEF Forked, TasksOf
  <2>5. FJ!Fresh(T)
    BY <2>3, <2>4 DEF FJ!Fresh
  <2>6. Forked' = [Forked EXCEPT ![c] = @ \cup T]
    <3>1. opened \in [Callers -> SUBSET Launches]
      BY DEF IInv, TypeOK
    <3>2. \A d \in Callers \ {c} : UNION {TasksOf(j)' : j \in opened'[d]} = UNION {TasksOf(j) : j \in opened[d]}
      BY <2>1, <2>2, <3>1
    <3>3. UNION {TasksOf(j)' : j \in opened'[c]} = (UNION {TasksOf(j) : j \in opened[c]}) \cup T
      BY <2>1, <2>2, <3>1
    <3> QED
      BY <3>2, <3>3 DEF Forked
  <2>7. FJ!Fork(c, T)
    BY <2>1, <2>5, <2>6 DEF FJ!Fork
  <2> QED
    BY <2>1, <2>7 DEF FJ!Next
<1>2. ASSUME NEW c \in Callers, SyncReturn(c) PROVE FJ!Next
  <2>1. /\ pc[c] = "end" /\ UNCHANGED <<total, ran>>
        /\ opened' = [opened EXCEPT ![c] = {}]
    BY <1>2 DEF SyncReturn, itemVars
  <2>2. Forked[c] \subseteq ran
    BY <2>1, InvSyncAfterAllTasks DEF SyncAfterAllTasks, Forked
  <2>3. Forked' = [Forked EXCEPT ![c] = {}]
    <3>1. /\ opened'[c] = {} /\ \A d \in Callers \ {c} : opened'[d] = opened[d]
          /\ \A j : TasksOf(j)' = TasksOf(j)
      BY <2>1 DEF TasksOf, IInv, TypeOK
    <3> QED
      BY <3>1 DEF Forked
  <2>4. FJ!Join(c)
    BY <2>1, <2>2, <2>3 DEF FJ!Join
  <2> QED
    BY <2>4 DEF FJ!Next
<1>3. ASSUME NEW t \in Threads, Run(t) PROVE FJ!Next
  <2> DEFINE task == <<cur[t], idx[t]>>
  <2>1. /\ pc[t] = "run" /\ ran' = ran \cup {task} /\ UNCHANGED <<total, opened>>
    BY <1>3 DEF Run, itemVars
  <2>2. /\ cur[t] \in Launches /\ idx[t] \in 0 .. MaxTasks - 1 /\ idx[t] < total[cur[t]]
    BY <2>1, BusyFacts DEF Busy
  <2>3. task \notin ran
    BY <2>1, InvRunsOnce DEF RunsOnce
  <2>4. idx[t] \in 0 .. total[cur[t]] - 1
    BY <2>2, ConstantsAssumption DEF IInv, TypeOK
  <2>5. PICK c \in Callers : cur[t] \in opened[c]
    BY <2>2, <2>3, <2>4 DEF UnfinishedOpen
  <2>6. task \in Forked[c]
    BY <2>4, <2>5 DEF Forked, TasksOf
  <2>7. UNCHANGED Forked
    BY <2>1 DEF Forked, TasksOf
  <2>8. task \in Tasks
    BY <2>2 DEF Tasks
  <2>9. FJ!Perform(task)
    BY <2>1, <2>3, <2>6, <2>7 DEF FJ!Perform
  <2> QED
    BY <2>8, <2>9 DEF FJ!Next
<1>4. CASE UNCHANGED <<total, ran, opened>>
  BY <1>4 DEF Forked, TasksOf
<1> QED
  BY <1>1, <1>2, <1>3, <1>4, InvisibleStep DEF ForkJoinAction

(* Whatever threads, queue and budget changes are behind it, the runtime is *)
(* a fork-join: every task of a launch runs once and ISPCSync joins.        *)
THEOREM RuntimeIsForkJoin == Spec => ImplementsForkJoin
<1>1. Init => UnfinishedOpen
  BY DEF Init, UnfinishedOpen
<1>2. Spec => []UnfinishedOpen
  BY <1>1, UnfinishedOpenStep, Invariant, PTL DEF Spec
<1> QED
  BY <1>2, InitForkJoin, StepForkJoin, Invariant, PTL DEF Spec, ImplementsForkJoin, FJ!Spec
-----------------------------------------------------------------------------
(* The thread budget, with one thread that sets it: two setters would each  *)
(* start their workers.                                                     *)

(* The caller that changes the budget is alone with the pool between the    *)
(* shutdown and the new workers, and a worker that the pool and the join    *)
(* list have let go of has ended.                                           *)
BudgetInv ==
    /\ \A c \in Callers : pc[c] \in BudgetPcs \/ want[c] > 0 => c \in Setters
    /\ \A c \in Callers : pc[c] \in BudgetPcs => want[c] > 0
    /\ \A c \in Callers : pc[c] \in {"wake_all", "join", "init"} => workers = {}
    /\ \A c \in Callers : joining[c] # {} => pc[c] \in {"wake_all", "join"}
    /\ \A c \in Callers : want[c] > 0 /\ pc[c] \notin BudgetPcs => Cardinality(workers) + 1 = want[c]
    /\ \A w \in Workers : pc[w] = "off" \/ w \in workers \/ \E c \in Callers : w \in joining[c]

OneSetter == \A c, d \in Setters : c = d

(* A step that leaves the pool alone: it starts no thread and enters or     *)
(* leaves no critical section of set_thread_budget.                         *)
LEMMA PoolUntouched ==
  ASSUME BudgetInv, UNCHANGED <<workers, joining, want>>,
         \A c \in Callers : pc'[c] = pc[c] \/ (pc[c] \notin BudgetPcs /\ pc'[c] \notin BudgetPcs),
         \A w \in Workers : pc[w] = "off" => pc'[w] = "off"
  PROVE  BudgetInv'
<1>1. \A c \in Callers : /\ pc'[c] \in BudgetPcs <=> pc[c] \in BudgetPcs
                         /\ pc'[c] \in {"wake_all", "join", "init"} <=> pc[c] \in {"wake_all", "join", "init"}
                         /\ pc'[c] \in {"wake_all", "join"} <=> pc[c] \in {"wake_all", "join"}
  BY DEF BudgetPcs
<1> QED
  BY <1>1 DEF BudgetInv

(* So is a jump of one thread that runs, outside set_thread_budget.         *)
LEMMA GotoOutside ==
  ASSUME TypeOK, BudgetInv, UNCHANGED <<workers, joining, want>>, NEW t \in Threads, NEW label,
         Goto(t, label), pc[t] \notin BudgetPcs, label \notin BudgetPcs, pc[t] # "off"
  PROVE  BudgetInv'
<1>1. pc'[t] = label /\ \A u \in Threads \ {t} : pc'[u] = pc[u]
  BY DEF Goto, TypeOK
<1>2. \A c \in Callers : pc'[c] = pc[c] \/ (pc[c] \notin BudgetPcs /\ pc'[c] \notin BudgetPcs)
  BY <1>1 DEF Threads
<1>3. \A w \in Workers : pc[w] = "off" => pc'[w] = "off"
  BY <1>1 DEF Threads
<1> QED
  BY <1>2, <1>3, PoolUntouched

\* Every step keeps the budget the callers and the workers share.
LEMMA BudgetStep == OneSetter /\ TypeOK /\ BudgetInv /\ [Next]_vars => BudgetInv'
<1> SUFFICES ASSUME OneSetter, TypeOK, BudgetInv, [Next]_vars PROVE BudgetInv'
  OBVIOUS
<1> USE DEF poolVars
<1>1. ASSUME NEW c \in Callers,
             BeginKernel(c) \/ EndKernel(c) \/ LaunchRef(c) \/ LaunchCount(c) \/ Enqueue(c)
             \/ SyncLoop(c) \/ SyncWait(c) \/ SyncTimeout(c) \/ SyncReturn(c)
      PROVE  BudgetInv'
  <2>1. \E label : Goto(c, label) /\ label \in {"idle"} \cup KernelPcs
    BY <1>1 DEF BeginKernel, EndKernel, LaunchRef, LaunchCount, Enqueue, SyncLoop, SyncWait,
                SyncTimeout, SyncReturn, KernelPcs
  <2>2. pc[c] \in {"idle"} \cup KernelPcs /\ UNCHANGED poolVars
    BY <1>1 DEF BeginKernel, EndKernel, LaunchRef, LaunchCount, Enqueue, SyncLoop, SyncWait,
                SyncTimeout, SyncReturn, KernelPcs
  <2> QED
    BY <2>1, <2>2, GotoOutside DEF Threads, KernelPcs, BudgetPcs
<1>2. ASSUME NEW c \in Callers, NEW g \in Groups, ISPCAlloc(c, g) PROVE BudgetInv'
  BY <1>2, PoolUntouched DEF ISPCAlloc
<1>3. ASSUME NEW c \in Callers, NEW g \in Groups, NEW i \in Launches, NEW n \in 1 .. MaxTasks,
             LaunchInline(c, g, i, n)
      PROVE  BudgetInv'
  BY <1>3, PoolUntouched DEF LaunchInline
<1>4. ASSUME NEW c \in Callers, NEW g \in Groups, NEW i \in Launches, NEW n \in 1 .. MaxTasks,
             LaunchTasks(c, g, i, n)
      PROVE  BudgetInv'
  <2>1. pc[c] = "kernel" /\ Goto(c, "launch_ref") /\ UNCHANGED poolVars
    BY <1>4 DEF LaunchTasks
  <2> QED
    BY <2>1, GotoOutside DEF Threads, BudgetPcs
<1>5. ASSUME NEW c \in Callers, NotifyWorkers(c) PROVE BudgetInv'
  <2>1. /\ UNCHANGED poolVars
        /\ \A u \in Threads : pc'[u] = pc[u] \/ (pc[u] = "asleep" /\ pc'[u] = "check")
                              \/ (pc[u] = "notify" /\ pc'[u] = "kernel")
    BY <1>5 DEF NotifyWorkers, WakeWorkersAndGo
  <2> QED
    BY <2>1, PoolUntouched DEF Threads, BudgetPcs
<1>6. ASSUME NEW t \in Threads,
             PickPreferred(t) \/ PickFront(t) \/ PickNothing(t) \/ Claim(t) \/ Run(t) \/ Finish(t)
             \/ Release(t)
      PROVE  BudgetInv'
  <2>1. \E label : /\ Goto(t, label)
                   /\ label \in {"claim", "wait", "check", "run", "pick", "finish", "signal", "release", "sync"}
    BY <1>6 DEF PickPreferred, PickFront, PickNothing, Claim, Run, Finish, Release
  <2>2. pc[t] \in {"pick", "claim", "run", "finish", "release"} /\ UNCHANGED poolVars
    BY <1>6 DEF PickPreferred, PickFront, PickNothing, Claim, Run, Finish, Release
  <2> QED
    BY <2>1, <2>2, GotoOutside DEF BudgetPcs
<1>7. ASSUME NEW t \in Threads, Signal(t) PROVE BudgetInv'
  <2>1. /\ UNCHANGED poolVars
        /\ \A u \in Threads : pc'[u] = pc[u] \/ (pc[u] = "signal" /\ pc'[u] = "release")
                              \/ (pc[u] = "blocked" /\ pc'[u] = "wait")
    BY <1>7 DEF Signal
  <2> QED
    BY <2>1, PoolUntouched DEF Threads, BudgetPcs
<1>8. ASSUME NEW w \in Workers, WorkerCheck(w) \/ SpuriousWake(w) PROVE BudgetInv'
  <2>1. \E label : Goto(w, label) /\ label \in {"pick", "off", "asleep", "check"}
    BY <1>8 DEF WorkerCheck, SpuriousWake
  <2>2. pc[w] \in {"check", "asleep"} /\ UNCHANGED poolVars
    BY <1>8 DEF WorkerCheck, SpuriousWake
  <2> QED
    BY <2>1, <2>2, GotoOutside DEF Threads, BudgetPcs
<1>9. ASSUME NEW c \in Callers, NEW n \in Budgets, SetBudget(c, n) PROVE BudgetInv'
  <2>1. /\ pc[c] = "idle" /\ c \in Setters /\ n > 0
        /\ want'[c] = n /\ \A d \in Callers \ {c} : want'[d] = want[d]
        /\ pc'[c] = "shutdown" /\ \A u \in Threads \ {c} : pc'[u] = pc[u]
        /\ UNCHANGED <<workers, joining>>
    BY <1>9, ConstantsAssumption DEF SetBudget, Goto, TypeOK, Threads
  <2>2. \A w \in Workers : pc'[w] = pc[w]
    BY <2>1, ConstantsAssumption DEF Threads
  <2>3. \A d \in Callers \ {c} : pc'[d] = pc[d]
    BY <2>1 DEF Threads
  <2> QED
    BY <2>1, <2>2, <2>3 DEF BudgetInv, BudgetPcs
<1>10. ASSUME NEW c \in Callers, Shutdown(c) PROVE BudgetInv'
  <2>1. /\ pc[c] = "shutdown" /\ pc'[c] = "wake_all" /\ \A u \in Threads \ {c} : pc'[u] = pc[u]
        /\ joining'[c] = workers /\ \A d \in Callers \ {c} : joining'[d] = joining[d]
        /\ workers' = {} /\ want' = want
    BY <1>10 DEF Shutdown, Goto, TypeOK, Threads
  <2>2. c \in Setters /\ \A d \in Callers \ {c} : d \notin Setters
    BY <2>1 DEF BudgetInv, BudgetPcs, OneSetter
  <2>3. \A w \in Workers : pc'[w] = pc[w]
    BY <2>1, ConstantsAssumption DEF Threads
  <2>4. \A d \in Callers \ {c} : pc'[d] = pc[d]
    BY <2>1 DEF Threads
  <2>5. joining[c] = {}
    BY <2>1 DEF BudgetInv
  <2> QED
    BY <2>1, <2>2, <2>3, <2>4, <2>5 DEF BudgetInv, BudgetPcs
<1>11. ASSUME NEW c \in Callers, ShutdownNotify(c) PROVE BudgetInv'
  <2>1. /\ UNCHANGED poolVars /\ pc[c] = "wake_all" /\ pc'[c] = "join"
        /\ \A u \in Threads \ {c} : pc'[u] = pc[u] \/ (pc[u] = "asleep" /\ pc'[u] = "check")
    BY <1>11 DEF ShutdownNotify, WakeWorkersAndGo, Threads
  <2>2. \A w \in Workers : pc[w] = "off" => pc'[w] = "off"
    BY <2>1, ConstantsAssumption DEF Threads
  <2>3. \A d \in Callers \ {c} : pc'[d] = pc[d]
    BY <2>1 DEF Threads, TypeOK, KernelPcs, BudgetPcs
  <2> QED
    BY <2>1, <2>2, <2>3 DEF BudgetInv, BudgetPcs
<1>12. ASSUME NEW c \in Callers, Join(c) PROVE BudgetInv'
  <2>1. /\ pc[c] = "join" /\ pc'[c] = "init" /\ \A u \in Threads \ {c} : pc'[u] = pc[u]
        /\ joining'[c] = {} /\ \A d \in Callers \ {c} : joining'[d] = joining[d]
        /\ \A w \in joining[c] : pc[w] = "off"
        /\ UNCHANGED <<workers, want>>
    BY <1>12 DEF Join, Goto, TypeOK, Threads
  <2>2. \A w \in Workers : pc'[w] = pc[w]
    BY <2>1, ConstantsAssumption DEF Threads
  <2>3. \A d \in Callers \ {c} : pc'[d] = pc[d]
    BY <2>1 DEF Threads
  <2> QED
    BY <2>1, <2>2, <2>3 DEF BudgetInv, BudgetPcs
<1>13. ASSUME NEW c \in Callers, NEW S \in SUBSET Workers, InitWorkers(c, S) PROVE BudgetInv'
  <2>1. /\ pc[c] = "init" /\ Cardinality(S) = want[c] - 1
        /\ workers' = workers \cup S /\ UNCHANGED <<joining, want>>
        /\ pc'[c] = "idle"
        /\ \A u \in Threads \ {c} : pc'[u] = IF u \in S THEN "check" ELSE pc[u]
    BY <1>13 DEF InitWorkers, Threads
  <2>2. /\ workers = {} /\ c \in Setters
        /\ \A d \in Callers \ {c} : d \notin Setters
    BY <2>1 DEF BudgetInv, BudgetPcs, OneSetter
  <2>3. \A d \in Callers \ {c} : pc'[d] = pc[d]
    BY <2>1, ConstantsAssumption DEF Threads
  <2>4. \A w \in Workers : w \in S \/ pc'[w] = pc[w]
    BY <2>1, ConstantsAssumption DEF Threads
  <2>5. workers' = S /\ Cardinality(workers') + 1 = want[c]
    BY <2>1, <2>2 DEF TypeOK
  <2> QED
    BY <2>1, <2>2, <2>3, <2>4, <2>5 DEF BudgetInv, BudgetPcs
<1>14. CASE UNCHANGED vars
  BY <1>14, PoolUntouched DEF vars
<1> QED
  BY <1>1, <1>2, <1>3, <1>4, <1>5, <1>6, <1>7, <1>8, <1>9, <1>10, <1>11, <1>12, <1>13, <1>14
  DEF Next, Launch, CallerStep, WorkerStep, DoWork, Threads

(* When one thread sets the budget, get_thread_count() is, outside          *)
(* set_thread_budget, the budget set last, and every other worker ended.    *)
THEOREM BudgetIsHonoured ==
  ASSUME OneSetter PROVE Spec => []BudgetHonoured
<1>1. Init => BudgetInv
  BY ConstantsAssumption DEF Init, BudgetInv, BudgetPcs, Threads
<1>2. IInv /\ BudgetInv /\ [Next]_vars => BudgetInv'
  BY OneSetter, BudgetStep DEF IInv
<1>3. BudgetInv => BudgetHonoured
  <2> SUFFICES ASSUME BudgetInv, \A c \in Callers : pc[c] \notin BudgetPcs
               PROVE  /\ \A c \in Callers : want[c] > 0 => \E d \in Callers : Cardinality(workers) + 1 = want[d]
                      /\ \A w \in Workers \ workers : pc[w] = "off"
    BY DEF BudgetHonoured
  <2>1. \A c \in Callers : joining[c] = {}
    BY DEF BudgetInv, BudgetPcs
  <2> QED
    BY <2>1 DEF BudgetInv
<1> QED
  BY <1>1, <1>2, <1>3, Invariant, PTL DEF Spec
=============================================================================
