----------------------------- MODULE TaskSystem -----------------------------
(***************************************************************************)
(* The ISPC task runtime of src/ispc/task_system.cpp: a pool of workers, a *)
(* FIFO of launches whose tasks are claimed by fetch_add, and reference-   *)
(* counted TaskGroups that an application thread (a caller) waits on in    *)
(* ISPCSync while it helps with the work.                                  *)
(*                                                                         *)
(* A step is one access to shared memory: an atomic read-modify-write, or  *)
(* a critical section of queue_mutex_ or of a group's mutex.               *)
(***************************************************************************)
EXTENDS Integers, Sequences, FiniteSets

CONSTANTS
    Callers,    \* application threads that run ISPC kernels
    Setters,    \* the callers that may also call set_thread_budget
    Workers,    \* identities of std::threads the pool can create
    Groups,     \* addresses a TaskGroup can be allocated at
    Launches,   \* identities of ISPCLaunch calls; each is used once (a bound)
    MaxTasks,   \* the most tasks one launch asks for (a bound)
    Budgets,    \* the thread counts asked of set_thread_budget
    NULL

ASSUME ConstantsAssumption ==
    /\ Callers \cap Workers = {}
    /\ Setters \subseteq Callers
    /\ IsFiniteSet(Workers)
    /\ IsFiniteSet(Callers)
    /\ IsFiniteSet(Launches)
    /\ MaxTasks \in Nat
    /\ Budgets \subseteq Nat \ {0}
    /\ NULL \notin Groups /\ NULL \notin Launches

Threads == Callers \cup Workers

VARIABLES
    pc,         \* where each thread is
    handle,     \* *handlePtr of the kernel each caller runs
    alive,      \* the TaskGroups that are allocated
    refs,       \* TaskGroup::ref_count
    remaining,  \* TaskGroup::remaining_tasks
    group,      \* TaskItem::group, NULL before the launch happens
    total,      \* TaskItem::total_tasks
    next,       \* TaskItem::next_index
    queue,      \* ThreadPool::queue_
    cur,        \* the TaskItem a thread holds in do_work or ISPCLaunch
    idx,        \* taskIdx of do_work
    stop,       \* ThreadPool::stop_
    workers,    \* the threads in ThreadPool::workers_
    joining,    \* workers_to_join of a caller inside shutdown
    want,       \* the count a caller passed to set_thread_budget
    ran,        \* history: the tasks whose function has returned
    opened      \* history: the launches of the kernel a caller runs

groupVars == <<alive, refs, remaining>>
itemVars  == <<group, total, next>>
poolVars  == <<stop, workers, joining, want>>
histVars  == <<ran, opened>>
vars == <<pc, handle, groupVars, itemVars, queue, cur, idx, poolVars, histVars>>

TasksOf(i) == {i} \X (0 .. total[i] - 1)

KernelPcs == {"kernel", "launch_ref", "launch_count", "enqueue", "notify", "sync",
              "pick", "claim", "run", "finish", "signal", "release", "wait",
              "blocked", "end"}
BudgetPcs == {"shutdown", "wake_all", "join", "init"}
WorkerPcs == {"off", "check", "asleep", "pick", "claim", "run", "finish", "signal", "release"}

Goto(t, label) == pc' = [pc EXCEPT ![t] = label]

-----------------------------------------------------------------------------
(* ThreadPool() starts the default number of workers: any number may be the *)
(* default, which the environment and the hardware determine.               *)
Init ==
    /\ workers \in SUBSET Workers
    /\ pc = [t \in Threads |-> IF t \in Callers THEN "idle"
                               ELSE IF t \in workers THEN "check" ELSE "off"]
    /\ handle = [c \in Callers |-> NULL]
    /\ alive = {}
    /\ refs = [g \in Groups |-> 0]
    /\ remaining = [g \in Groups |-> 0]
    /\ group = [i \in Launches |-> NULL]
    /\ total = [i \in Launches |-> 0]
    /\ next = [i \in Launches |-> 0]
    /\ queue = <<>>
    /\ cur = [t \in Threads |-> NULL]
    /\ idx = [t \in Threads |-> 0]
    /\ stop = FALSE
    /\ joining = [c \in Callers |-> {}]
    /\ want = [c \in Callers |-> 0]
    /\ ran = {}
    /\ opened = [c \in Callers |-> {}]

-----------------------------------------------------------------------------
(* An ISPC kernel: ISPCAlloc and ISPCLaunch any number of times, then       *)
(* ISPCSync.                                                                *)

BeginKernel(c) ==
    /\ pc[c] = "idle"
    /\ Goto(c, "kernel")
    /\ UNCHANGED <<handle, groupVars, itemVars, queue, cur, idx, poolVars, histVars>>

(* The group behind a kernel's handle, created at a free address when there *)
(* is none: ISPCAlloc and ISPCLaunch share this prologue (a launch of no     *)
(* tasks does nothing else). What ISPCAlloc allocates lives as long as the   *)
(* group.                                                                   *)
UseGroup(c, g) ==
    IF handle[c] # NULL
    THEN g = handle[c] /\ UNCHANGED <<handle, groupVars>>
    ELSE /\ g \notin alive
         /\ handle' = [handle EXCEPT ![c] = g]
         /\ alive' = alive \cup {g}
         /\ refs' = [refs EXCEPT ![g] = 1]
         /\ remaining' = [remaining EXCEPT ![g] = 0]

ISPCAlloc(c, g) ==
    /\ pc[c] = "kernel"
    /\ UseGroup(c, g)
    /\ UNCHANGED <<pc, itemVars, queue, cur, idx, poolVars, histVars>>

(* With one task, or with a budget of one thread, the caller runs the tasks *)
(* itself and creates no TaskItem.                                          *)
LaunchInline(c, g, i, n) ==
    /\ pc[c] = "kernel"
    /\ n = 1 \/ workers = {}
    /\ group[i] = NULL
    /\ UseGroup(c, g)
    /\ group' = [group EXCEPT ![i] = g]
    /\ total' = [total EXCEPT ![i] = n]
    /\ next' = [next EXCEPT ![i] = n]
    /\ ran' = ran \cup ({i} \X (0 .. n - 1))
    /\ opened' = [opened EXCEPT ![c] = @ \cup {i}]
    /\ UNCHANGED <<pc, queue, cur, idx, poolVars>>

LaunchTasks(c, g, i, n) ==
    /\ pc[c] = "kernel"
    /\ n > 1 /\ workers # {}
    /\ group[i] = NULL
    /\ UseGroup(c, g)
    /\ group' = [group EXCEPT ![i] = g]
    /\ total' = [total EXCEPT ![i] = n]
    /\ cur' = [cur EXCEPT ![c] = i]
    /\ opened' = [opened EXCEPT ![c] = @ \cup {i}]
    /\ Goto(c, "launch_ref")
    /\ UNCHANGED <<next, queue, idx, poolVars, ran>>

(* Faulty: add_ref() with its default of one reference.                     *)
LaunchRefOne(c) ==
    /\ pc[c] = "launch_ref"
    /\ refs' = [refs EXCEPT ![handle[c]] = @ + 1]
    /\ Goto(c, "launch_count")
    /\ UNCHANGED <<handle, alive, remaining, itemVars, queue, cur, idx, poolVars, histVars>>

LaunchRef(c) ==
    /\ pc[c] = "launch_ref"
    /\ refs' = [refs EXCEPT ![handle[c]] = @ + total[cur[c]]]
    /\ Goto(c, "launch_count")
    /\ UNCHANGED <<handle, alive, remaining, itemVars, queue, cur, idx, poolVars, histVars>>

LaunchCount(c) ==
    /\ pc[c] = "launch_count"
    /\ remaining' = [remaining EXCEPT ![handle[c]] = @ + total[cur[c]]]
    /\ Goto(c, "enqueue")
    /\ UNCHANGED <<handle, alive, refs, itemVars, queue, cur, idx, poolVars, histVars>>

Enqueue(c) ==
    /\ pc[c] = "enqueue"
    /\ queue' = Append(queue, cur[c])
    /\ cur' = [cur EXCEPT ![c] = NULL]
    /\ Goto(c, "notify")
    /\ UNCHANGED <<handle, groupVars, itemVars, idx, poolVars, histVars>>

(* Faulty: the notification is forgotten.                                   *)
WakeNobodyAndGo(c, label) == Goto(c, label)

(* cv_.notify_all(): every sleeping worker goes back to test its predicate. *)
WakeWorkersAndGo(c, label) ==
    pc' = [t \in Threads |-> IF t = c THEN label
                             ELSE IF pc[t] = "asleep" THEN "check" ELSE pc[t]]

NotifyWorkers(c) ==
    /\ pc[c] = "notify"
    /\ WakeWorkersAndGo(c, "kernel")
    /\ UNCHANGED <<handle, groupVars, itemVars, queue, cur, idx, poolVars, histVars>>

(* ISPCSync returns at once when nothing created a group.                   *)
EndKernel(c) ==
    /\ pc[c] = "kernel"
    /\ Goto(c, IF handle[c] = NULL THEN "idle" ELSE "sync")
    /\ UNCHANGED <<handle, groupVars, itemVars, queue, cur, idx, poolVars, histVars>>

-----------------------------------------------------------------------------
(* ISPCSync.                                                                *)

(* Faulty: the loop ends with one task left.                                *)
SyncLoopEarly(c) ==
    /\ pc[c] = "sync"
    /\ Goto(c, IF remaining[handle[c]] > 1 THEN "pick" ELSE "end")
    /\ UNCHANGED <<handle, groupVars, itemVars, queue, cur, idx, poolVars, histVars>>

(* Faulty: the caller waits and does not help.                              *)
SyncLoopIdle(c) ==
    /\ pc[c] = "sync"
    /\ Goto(c, IF remaining[handle[c]] > 0 THEN "wait" ELSE "end")
    /\ UNCHANGED <<handle, groupVars, itemVars, queue, cur, idx, poolVars, histVars>>

SyncLoop(c) ==
    /\ pc[c] = "sync"
    /\ Goto(c, IF remaining[handle[c]] > 0 THEN "pick" ELSE "end")
    /\ UNCHANGED <<handle, groupVars, itemVars, queue, cur, idx, poolVars, histVars>>

(* cv.wait_for tests its predicate under the group's mutex and sleeps.      *)
SyncWait(c) ==
    /\ pc[c] = "wait"
    /\ Goto(c, IF remaining[handle[c]] = 0 THEN "sync" ELSE "blocked")
    /\ UNCHANGED <<handle, groupVars, itemVars, queue, cur, idx, poolVars, histVars>>

(* The 50 microseconds are over.                                            *)
SyncTimeout(c) ==
    /\ pc[c] = "blocked"
    /\ Goto(c, "sync")
    /\ UNCHANGED <<handle, groupVars, itemVars, queue, cur, idx, poolVars, histVars>>

(* Faulty: the test takes the old count that fetch_sub returns for the new. *)
ReleaseGroupLate(g) ==
    /\ refs' = [refs EXCEPT ![g] = @ - 1]
    /\ alive' = IF refs[g] = 0 THEN alive \ {g} ELSE alive
    /\ UNCHANGED remaining

(* release(): the thread that takes the count to zero deletes the group.    *)
ReleaseGroup(g) ==
    /\ refs' = [refs EXCEPT ![g] = @ - 1]
    /\ alive' = IF refs[g] = 1 THEN alive \ {g} ELSE alive
    /\ UNCHANGED remaining

SyncReturn(c) ==
    /\ pc[c] = "end"
    /\ ReleaseGroup(handle[c])
    /\ handle' = [handle EXCEPT ![c] = NULL]
    /\ opened' = [opened EXCEPT ![c] = {}]
    /\ Goto(c, "idle")
    /\ UNCHANGED <<itemVars, queue, cur, idx, poolVars, ran>>

-----------------------------------------------------------------------------
(* do_work, run by workers and, for a preferred group, by ISPCSync.         *)

(* Faulty: an exhausted item still has a task.                              *)
UnclaimedOffByOne(i) == next[i] <= total[i]

Unclaimed(i) == next[i] < total[i]

(* The preferred group of a caller is the one it waits for.                 *)
Preferred(t) ==
    {n \in DOMAIN queue : t \in Callers /\ group[queue[n]] = handle[t] /\ Unclaimed(queue[n])}

Claimable == {n \in DOMAIN queue : Unclaimed(queue[n])}

IsFirst(n, S) == n \in S /\ \A m \in S : n <= m

PickPreferred(t) ==
    /\ pc[t] = "pick"
    /\ \E n \in Preferred(t) :
          /\ IsFirst(n, Preferred(t))
          /\ cur' = [cur EXCEPT ![t] = queue[n]]
    /\ Goto(t, "claim")
    /\ UNCHANGED <<handle, groupVars, itemVars, queue, idx, poolVars, histVars>>

(* Exhausted items are popped on the way to the first one that is not.      *)
PickFront(t) ==
    /\ pc[t] = "pick"
    /\ Preferred(t) = {}
    /\ \E n \in Claimable :
          /\ IsFirst(n, Claimable)
          /\ cur' = [cur EXCEPT ![t] = queue[n]]
          /\ queue' = SubSeq(queue, n, Len(queue))
    /\ Goto(t, "claim")
    /\ UNCHANGED <<handle, groupVars, itemVars, idx, poolVars, histVars>>

(* Faulty: exhausted items are skipped and not popped.                      *)
PickNothingKeepsQueue(t) ==
    /\ pc[t] = "pick"
    /\ Claimable = {}
    /\ Goto(t, IF t \in Callers THEN "wait" ELSE "check")
    /\ UNCHANGED <<handle, groupVars, itemVars, queue, cur, idx, poolVars, histVars>>

(* Faulty: a worker waits on the condition variable of a group.             *)
PickNothingWaits(t) ==
    /\ pc[t] = "pick"
    /\ Claimable = {}
    /\ queue' = <<>>
    /\ Goto(t, "wait")
    /\ UNCHANGED <<handle, groupVars, itemVars, cur, idx, poolVars, histVars>>

PickNothing(t) ==
    /\ pc[t] = "pick"
    /\ Claimable = {}
    /\ queue' = <<>>
    /\ Goto(t, IF t \in Callers THEN "wait" ELSE "check")
    /\ UNCHANGED <<handle, groupVars, itemVars, cur, idx, poolVars, histVars>>

(* Faulty: a load that leaves the index to the next thread as well.         *)
NextLoad(i) == next' = next

NextFetchAdd(i) == next' = [next EXCEPT ![i] = @ + 1]

(* next_index.fetch_add: the loop starts over when others took the rest.    *)
Claim(t) ==
    LET i == cur[t] IN
    /\ pc[t] = "claim"
    /\ NextFetchAdd(i)
    /\ \/ /\ Unclaimed(i)
          /\ idx' = [idx EXCEPT ![t] = next[i]]
          /\ Goto(t, "run")
          /\ UNCHANGED cur
       \/ /\ ~Unclaimed(i)
          /\ cur' = [cur EXCEPT ![t] = NULL]
          /\ Goto(t, "pick")
          /\ UNCHANGED idx
    /\ UNCHANGED <<handle, groupVars, group, total, queue, poolVars, histVars>>

(* The task's function returns.                                             *)
Run(t) ==
    /\ pc[t] = "run"
    /\ ran' = ran \cup {<<cur[t], idx[t]>>}
    /\ Goto(t, "finish")
    /\ UNCHANGED <<handle, groupVars, itemVars, queue, cur, idx, poolVars, opened>>

Finish(t) ==
    LET g == group[cur[t]] IN
    /\ pc[t] = "finish"
    /\ remaining' = [remaining EXCEPT ![g] = @ - 1]
    /\ Goto(t, IF remaining[g] = 1 THEN "signal" ELSE "release")
    /\ UNCHANGED <<handle, alive, refs, itemVars, queue, cur, idx, poolVars, histVars>>

(* group->cv.notify_all() under the group's mutex.                          *)
Signal(t) ==
    LET g == group[cur[t]] IN
    /\ pc[t] = "signal"
    /\ pc' = [u \in Threads |->
                IF u = t THEN "release"
                ELSE IF pc[u] = "blocked" /\ handle[u] = g THEN "wait" ELSE pc[u]]
    /\ UNCHANGED <<handle, groupVars, itemVars, queue, cur, idx, poolVars, histVars>>

Release(t) ==
    /\ pc[t] = "release"
    /\ ReleaseGroup(group[cur[t]])
    /\ cur' = [cur EXCEPT ![t] = NULL]
    /\ idx' = [idx EXCEPT ![t] = 0]
    /\ Goto(t, IF t \in Callers THEN "sync" ELSE "pick")
    /\ UNCHANGED <<handle, itemVars, queue, poolVars, histVars>>

DoWork(t) ==
    \/ PickPreferred(t) \/ PickFront(t) \/ PickNothing(t)
    \/ Claim(t) \/ Run(t) \/ Finish(t) \/ Signal(t) \/ Release(t)

-----------------------------------------------------------------------------
(* worker_loop: cv_.wait tests its predicate under queue_mutex_.            *)

WorkerCheck(w) ==
    /\ pc[w] = "check"
    /\ Goto(w, IF queue # <<>> THEN "pick" ELSE IF stop THEN "off" ELSE "asleep")
    /\ UNCHANGED <<handle, groupVars, itemVars, queue, cur, idx, poolVars, histVars>>

(* A condition variable may wake up without a notification.                 *)
SpuriousWake(w) ==
    /\ pc[w] = "asleep"
    /\ Goto(w, "check")
    /\ UNCHANGED <<handle, groupVars, itemVars, queue, cur, idx, poolVars, histVars>>

-----------------------------------------------------------------------------
(* set_thread_budget(n): the size test, shutdown() and init_workers() are   *)
(* separate critical sections.                                              *)

SetBudget(c, n) ==
    /\ pc[c] = "idle" /\ c \in Setters
    /\ Cardinality(workers) # n - 1
    /\ want' = [want EXCEPT ![c] = n]
    /\ Goto(c, "shutdown")
    /\ UNCHANGED <<handle, groupVars, itemVars, queue, cur, idx, stop, workers, joining, histVars>>

Shutdown(c) ==
    /\ pc[c] = "shutdown"
    /\ stop' = TRUE
    /\ joining' = [joining EXCEPT ![c] = workers]
    /\ workers' = {}
    /\ Goto(c, "wake_all")
    /\ UNCHANGED <<handle, groupVars, itemVars, queue, cur, idx, want, histVars>>

ShutdownNotify(c) ==
    /\ pc[c] = "wake_all"
    /\ WakeWorkersAndGo(c, "join")
    /\ UNCHANGED <<handle, groupVars, itemVars, queue, cur, idx, poolVars, histVars>>

(* Faulty: the threads are detached.                                        *)
JoinNobody(c) ==
    /\ pc[c] = "join"
    /\ joining' = [joining EXCEPT ![c] = {}]
    /\ Goto(c, "init")
    /\ UNCHANGED <<handle, groupVars, itemVars, queue, cur, idx, stop, workers, want, histVars>>

Join(c) ==
    /\ pc[c] = "join"
    /\ \A w \in joining[c] : pc[w] = "off"
    /\ joining' = [joining EXCEPT ![c] = {}]
    /\ Goto(c, "init")
    /\ UNCHANGED <<handle, groupVars, itemVars, queue, cur, idx, stop, workers, want, histVars>>

(* stop_ = false and init_workers. A std::thread identity is fresh.         *)
InitWorkers(c, S) ==
    /\ pc[c] = "init"
    /\ \A w \in S : pc[w] = "off" /\ \A d \in Callers : w \notin joining[d]
    /\ Cardinality(S) = want[c] - 1
    /\ stop' = FALSE
    /\ workers' = workers \cup S
    /\ pc' = [t \in Threads |-> IF t = c THEN "idle" ELSE IF t \in S THEN "check" ELSE pc[t]]
    /\ UNCHANGED <<handle, groupVars, itemVars, queue, cur, idx, joining, want, histVars>>

-----------------------------------------------------------------------------
(* The steps a thread takes on its own once it is scheduled.                *)
CallerStep(c) ==
    \/ LaunchRef(c) \/ LaunchCount(c) \/ Enqueue(c) \/ NotifyWorkers(c)
    \/ SyncLoop(c) \/ SyncWait(c) \/ SyncTimeout(c) \/ SyncReturn(c)
    \/ DoWork(c)
    \/ Shutdown(c) \/ ShutdownNotify(c) \/ Join(c)
    \/ \E S \in SUBSET Workers : InitWorkers(c, S)

WorkerStep(w) == WorkerCheck(w) \/ DoWork(w)

Launch(c) ==
    \E g \in Groups :
        \/ ISPCAlloc(c, g)
        \/ \E i \in Launches, n \in 1 .. MaxTasks :
              LaunchInline(c, g, i, n) \/ LaunchTasks(c, g, i, n)

Next ==
    \/ \E c \in Callers :
          \/ BeginKernel(c) \/ Launch(c) \/ EndKernel(c) \/ CallerStep(c)
          \/ \E n \in Budgets : SetBudget(c, n)
    \/ \E w \in Workers : WorkerStep(w) \/ SpuriousWake(w)

(* Every thread the kernel schedules goes on; a kernel that has been        *)
(* entered reaches its sync. Callers need not start kernels, nor change the *)
(* budget, and nothing wakes a worker spuriously.                           *)
Fairness ==
    /\ \A c \in Callers : WF_vars(CallerStep(c)) /\ WF_vars(EndKernel(c))
    /\ \A w \in Workers : WF_vars(WorkerStep(w))

Spec == Init /\ [][Next]_vars
FairSpec == Spec /\ Fairness
-----------------------------------------------------------------------------
(* Properties.                                                              *)

TypeOK ==
    /\ pc \in [Threads -> {"idle"} \cup KernelPcs \cup BudgetPcs \cup WorkerPcs]
    /\ \A c \in Callers : pc[c] \in {"idle"} \cup KernelPcs \cup BudgetPcs
    /\ \A w \in Workers : pc[w] \in WorkerPcs
    /\ handle \in [Callers -> Groups \cup {NULL}]
    /\ alive \in SUBSET Groups
    /\ refs \in [Groups -> Int]
    /\ remaining \in [Groups -> Int]
    /\ group \in [Launches -> Groups \cup {NULL}]
    /\ total \in [Launches -> 0 .. MaxTasks]
    /\ next \in [Launches -> Nat]
    /\ queue \in Seq(Launches)
    /\ cur \in [Threads -> Launches \cup {NULL}]
    /\ idx \in [Threads -> Nat]
    /\ stop \in BOOLEAN
    /\ workers \in SUBSET Workers
    /\ joining \in [Callers -> SUBSET Workers]
    /\ want \in [Callers -> Nat]
    /\ ran \in SUBSET (Launches \X Nat)
    /\ opened \in [Callers -> SUBSET Launches]

(* A thread that has claimed a task and not yet released its reference.     *)
Busy(t) == pc[t] \in {"run", "finish", "signal", "release"}
Holds(t, i, k) == Busy(t) /\ cur[t] = i /\ idx[t] = k

(* Each task function is called at most once: nobody runs a task that has   *)
(* run or that another thread runs (next_index hands every index out once,  *)
(* however do_work retries and however many threads picked the item).       *)
RunsOnce ==
    /\ \A t \in Threads : pc[t] = "run" => <<cur[t], idx[t]>> \notin ran
    /\ \A t, u \in Threads :
          Busy(t) /\ Busy(u) /\ cur[t] = cur[u] /\ idx[t] = idx[u] => t = u

(* ISPCSync comes back only when every task that the kernel launched has    *)
(* run, whoever ran it.                                                     *)
SyncAfterAllTasks ==
    \A c \in Callers : pc[c] = "end" => \A i \in opened[c] : TasksOf(i) \subseteq ran

(* The group that a thread's next step dereferences; run stands for the     *)
(* arguments of the task, which ~TaskGroup frees.                           *)
Touches(t) ==
    IF Busy(t) THEN {group[cur[t]]}
    ELSE IF t \in Callers /\ pc[t] \in {"launch_ref", "launch_count", "enqueue", "notify",
                                       "sync", "wait", "blocked", "end"}
         THEN {handle[t]} ELSE {}

(* No thread touches a TaskGroup after it was deleted: the reference count  *)
(* keeps it for the one that notifies while ISPCSync has already returned.  *)
NoUseAfterFree == \A t \in Threads : Touches(t) \subseteq alive

(* Task k of launch i has its reference to the group and has not dropped it; *)
(* and, of those, remaining_tasks still counts it.                           *)
Held(i, k) ==
    /\ k < total[i]
    /\ \A c \in Callers : pc[c] = "launch_ref" => cur[c] # i
    /\ k >= next[i] \/ \E t \in Threads : Holds(t, i, k)

Pending(i, k) ==
    /\ Held(i, k)
    /\ \A c \in Callers : pc[c] = "launch_count" => cur[c] # i
    /\ \A t \in Threads : Holds(t, i, k) => pc[t] \in {"run", "finish"}

Tasks == Launches \X (0 .. MaxTasks - 1)
HeldTasks(g) == {p \in Tasks : group[p[1]] = g /\ Held(p[1], p[2])}
PendingTasks(g) == {p \in Tasks : group[p[1]] = g /\ Pending(p[1], p[2])}
Owners(g) == {c \in Callers : handle[c] = g}

(* The two counters of a group say what they are meant to: ref_count is one *)
(* for the kernel that owns the handle and one per unreleased task, and     *)
(* remaining_tasks the tasks that have not finished. A group that nobody    *)
(* owns or works for is deleted: nothing leaks.                             *)
CountersExact ==
    \A g \in Groups :
        /\ refs[g] = Cardinality(HeldTasks(g)) + Cardinality(Owners(g))
        /\ remaining[g] = Cardinality(PendingTasks(g))
        /\ g \in alive <=> refs[g] > 0

(* An item can stay in queue_ after its group was deleted, and its address  *)
(* may by then be another kernel's group. No such item can be claimed.      *)
StaleItemsSpent ==
    \A n \in DOMAIN queue :
        Unclaimed(queue[n]) =>
            /\ group[queue[n]] \in alive
            /\ \A c \in Callers : handle[c] = group[queue[n]] => queue[n] \in opened[c]

(* A worker sleeps only while there is nothing to do, or someone who made   *)
(* something to do has yet to call notify_all, which it does after it has   *)
(* left the critical section. A caller that sleeps until its group has      *)
(* finished is likewise signalled, and does not depend on the timeout.      *)
NoLostWakeup ==
    /\ \A w \in Workers :
          pc[w] = "asleep" /\ (queue # <<>> \/ stop) =>
              \E c \in Callers : pc[c] \in {"notify", "wake_all"}
    /\ \A c \in Callers :
          pc[c] = "blocked" /\ remaining[handle[c]] = 0 =>
              \E t \in Threads : pc[t] = "signal" /\ group[cur[t]] = handle[c]

(* Outside set_thread_budget, get_thread_count() is a budget that was set,  *)
(* and every worker the pool does not own any more has ended.               *)
BudgetHonoured ==
    (\A c \in Callers : pc[c] \notin BudgetPcs) =>
        /\ \A c \in Callers : want[c] > 0 => \E d \in Callers : Cardinality(workers) + 1 = want[d]
        /\ \A w \in Workers \ workers : pc[w] = "off"

(* Every kernel ends: its tasks are all run, by workers or by the caller    *)
(* itself, also while the budget changes under it.                          *)
KernelEnds == \A c \in Callers : pc[c] = "kernel" ~> pc[c] = "idle"

(* set_thread_budget returns: each worker it joins sees stop_ and an empty  *)
(* queue.                                                                   *)
BudgetReturns == \A c \in Callers : pc[c] = "shutdown" ~> pc[c] = "idle"

(* No exhausted item stays in a queue that has workers: while the pool has  *)
(* one, the queue empties, and with it every dangling TaskItem::group.      *)
QueueDrains == queue # <<>> ~> (queue = <<>> \/ workers = {})

(* The runtime implements fork-join: a task of a kernel's launches is       *)
(* performed when its function returns, once, and ISPCSync joins.           *)
Forked == [c \in Callers |-> UNION {TasksOf(i) : i \in opened[c]}]

FJ == INSTANCE ForkJoin WITH forked <- Forked, done <- ran

ImplementsForkJoin == FJ!Spec
=============================================================================
