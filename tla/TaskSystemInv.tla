--------------------------- MODULE TaskSystemInv ---------------------------
(***************************************************************************)
(* The inductive invariant behind the safety theorems of TaskSystem: what  *)
(* each thread knows of the group and the item it works with, which tasks  *)
(* have been claimed, and what the counters count.                         *)
(***************************************************************************)
EXTENDS TaskSystem

Launching(c) == pc[c] \in {"launch_ref", "launch_count", "enqueue"}

(* A caller inside ISPCLaunch or ISPCSync has a group, one outside a kernel *)
(* has none, and two kernels never share one.                               *)
HandleInv ==
    \A c \in Callers :
        /\ pc[c] \in KernelPcs \ {"kernel"} => handle[c] \in Groups
        /\ pc[c] \notin KernelPcs => handle[c] = NULL
        /\ handle[c] = NULL => opened[c] = {}
        /\ \A i \in opened[c] : group[i] = handle[c]
        /\ \A d \in Callers : handle[c] = handle[d] => c = d \/ handle[c] = NULL

(* A thread holds an item exactly while it launches or works on it.         *)
CurInv ==
    \A t \in Threads :
        /\ cur[t] # NULL <=> (Busy(t) \/ pc[t] = "claim" \/ (t \in Callers /\ Launching(t)))
        /\ cur[t] # NULL => group[cur[t]] \in Groups

(* An item is nobody else's before it has been enqueued.                    *)
LaunchInv ==
    /\ \A i \in Launches : group[i] = NULL => total[i] = 0 /\ next[i] = 0
    /\ \A n \in DOMAIN queue : group[queue[n]] # NULL
    /\ \A c \in Callers : Launching(c) =>
          /\ cur[c] \in opened[c]
          /\ next[cur[c]] = 0
          /\ \A n \in DOMAIN queue : queue[n] # cur[c]
          /\ \A t \in Threads : cur[t] = cur[c] => t = c

(* Claimed tasks lie below next_index, are claimed once, and count as run   *)
(* from the return of their function on.                                    *)
ClaimInv ==
    /\ \A t \in Threads : Busy(t) =>
          /\ idx[t] < next[cur[t]] /\ idx[t] < total[cur[t]]
          /\ <<cur[t], idx[t]>> \in ran <=> pc[t] # "run"
    /\ \A t, u \in Threads :
          Busy(t) /\ Busy(u) /\ cur[t] = cur[u] /\ idx[t] = idx[u] => t = u
    /\ \A p \in ran : p[2] < next[p[1]] /\ p[2] < total[p[1]]
    /\ \A i \in Launches : \A k \in 0 .. total[i] - 1 :
          k < next[i] => <<i, k>> \in ran \/ \E t \in Threads : Holds(t, i, k)

(* The tasks that keep a kernel's group alive are its own.                  *)
HeldOpened ==
    \A c \in Callers, i \in Launches : \A k \in 0 .. MaxTasks - 1 :
        handle[c] # NULL /\ handle[c] = group[i] /\ Held(i, k) => i \in opened[c]

EndInv == \A c \in Callers : pc[c] = "end" => remaining[handle[c]] = 0

IInv ==
    /\ TypeOK
    /\ HandleInv
    /\ CurInv
    /\ LaunchInv
    /\ ClaimInv
    /\ CountersExact
    /\ HeldOpened
    /\ EndInv
=============================================================================
