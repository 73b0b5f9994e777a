------------------------- MODULE MCFailureClassifier -------------------------
(* FailureClassifier for TLC: symmetry of the exceptions behind the first, *)
(* and what an exception may say.                                          *)
EXTENDS FailureClassifier, TLC

OneOrBoth == {{}, {"deterministic"}, {"transient"}, {"bare"}, {"deterministic", "transient"}}

Symmetry == Permutations(Exceptions \ {exc})
=============================================================================
