---------------------------- MODULE MCLifecycle ----------------------------
(* Lifecycle for TLC: symmetry of the threads.  *)
EXTENDS Lifecycle, TLC

Symmetry == Permutations(Callers) \cup Permutations(Workers) \cup Permutations(Identities)
=============================================================================
