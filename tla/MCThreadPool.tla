---------------------------- MODULE MCThreadPool ----------------------------
(* ThreadPool with values for TLC: the tasks are model values, all alike     *)
(* unless a run says otherwise. A cfg that checks no liveness may use the    *)
(* symmetry of the tasks.                                                    *)
EXTENDS ThreadPool, TLC

TaskSymmetry == Permutations(Tasks)

=============================================================================
