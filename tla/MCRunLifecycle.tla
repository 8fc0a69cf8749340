--------------------------- MODULE MCRunLifecycle ---------------------------
(* A small instance of RunLifecycle for TLC: its worker threads are alike.      *)
EXTENDS RunLifecycle, TLC

WorkerSymmetry == Permutations(Worker)
=============================================================================
