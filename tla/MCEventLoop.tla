---------------------------- MODULE MCEventLoop ----------------------------
(* EventLoop with values for TLC. The connections are alike.                 *)
EXTENDS EventLoop, TLC

ConnSymmetry == Permutations(Conns)

=============================================================================
