----------------------------- MODULE MCFileLock -----------------------------
(* All lockers are on one machine; the unprivileged ones ask for one lock only. *)
EXTENDS FileLock
OneMachine == [p \in Procs |-> "m1"]
OneRequest == [p \in Procs |-> 1]
MoreRequests == [p \in Procs |-> IF p \in Unprivileged THEN 1 ELSE 2]
Symmetry == Permutations(Procs \ Unprivileged)
=============================================================================
