----------------------------- MODULE MCHeartbeat -----------------------------
(* Heartbeat for TLC: symmetry of the threads and of the instances.       *)
EXTENDS Heartbeat, TLC

Symmetry == Permutations(Senders) \cup Permutations(Identities)
=============================================================================
