---------------------------- MODULE AtLeastOnce ----------------------------
(***************************************************************************)
(* What a store-and-forward queue promises to those who hand it jobs, with *)
(* no goroutines, files or tables: a job is open from when it is taken,    *)
(* and may be executed as long as it is open; it is closed once it was     *)
(* executed, or abandoned; what is closed is closed for good and never     *)
(* executed again.  Answers may be lost, so nothing is said of how often a *)
(* job is executed.  CmmsDispatch and OfflinePush implement this module.   *)
(***************************************************************************)
EXTENDS Naturals

CONSTANT Jobs

VARIABLES
    taken,      \* jobs that were handed over
    open,       \* those that may still be executed
    executed,   \* per job: how often it was executed
    abandoned   \* jobs that were given up

vars == <<taken, open, executed, abandoned>>

Init ==
    /\ taken = {} /\ open = {} /\ abandoned = {}
    /\ executed = [j \in Jobs |-> 0]

Take(j) ==
    /\ j \in Jobs \ taken
    /\ taken' = taken \cup {j}
    /\ open' = open \cup {j}
    /\ UNCHANGED <<executed, abandoned>>

Execute(j) ==
    /\ j \in open
    /\ executed' = [executed EXCEPT ![j] = @ + 1]
    /\ UNCHANGED <<taken, open, abandoned>>

\* Some open jobs are closed; those that were never executed are abandoned, and others may be.
Close(jobs, given) ==
    /\ jobs \subseteq open /\ given \subseteq jobs
    /\ \A j \in jobs \ given : executed[j] > 0
    /\ open' = open \ jobs
    /\ abandoned' = abandoned \cup given
    /\ UNCHANGED <<taken, executed>>

Next ==
    \/ \E j \in Jobs : Take(j) \/ Execute(j)
    \/ \E jobs \in SUBSET open : \E given \in SUBSET jobs : Close(jobs, given)

Spec == Init /\ [][Next]_vars
=============================================================================
