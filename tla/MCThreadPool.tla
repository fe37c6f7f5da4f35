---------------------------- MODULE MCThreadPool ----------------------------
(* Instances of ThreadPool for TLC.  The fairness constraints name single  *)
(* threads and the liveness property single tasks, so no symmetry is used. *)
EXTENDS ThreadPool, TLC

=============================================================================
