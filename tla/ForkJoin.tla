------------------------------ MODULE ForkJoin ------------------------------
(***************************************************************************)
(* What the ISPC task runtime promises to a kernel, whatever threads and   *)
(* queues are behind it: launch adds tasks, each of which somebody performs *)
(* once, and sync is the kernel's return after all of them.                *)
(***************************************************************************)
CONSTANTS Callers, Tasks

VARIABLES
    forked,     \* the tasks that the kernel of each caller has launched
    done        \* the tasks that have been performed

vars == <<forked, done>>

TypeOK ==
    /\ forked \in [Callers -> SUBSET Tasks]
    /\ done \in SUBSET Tasks

Init ==
    /\ forked = [c \in Callers |-> {}]
    /\ done = {}

Fresh(T) == T \cap (done \cup UNION {forked[c] : c \in Callers}) = {}

Fork(c, T) ==
    /\ Fresh(T)
    /\ forked' = [forked EXCEPT ![c] = @ \cup T]
    /\ done' \in {done, done \cup T}    \* the caller may perform them on the spot

Perform(task) ==
    /\ task \notin done
    /\ \E c \in Callers : task \in forked[c]
    /\ done' = done \cup {task}
    /\ UNCHANGED forked

Join(c) ==
    /\ forked[c] \subseteq done
    /\ forked' = [forked EXCEPT ![c] = {}]
    /\ UNCHANGED done

Next ==
    \/ \E c \in Callers : Join(c) \/ \E T \in SUBSET Tasks : Fork(c, T)
    \/ \E task \in Tasks : Perform(task)

Spec == Init /\ [][Next]_vars
=============================================================================
