-------------------------- MODULE MCProcessRuntime --------------------------
(* ProcessRuntime for TLC: symmetry of the threads.  *)
EXTENDS ProcessRuntime, TLC

Symmetry == Permutations(Threads)
=============================================================================
