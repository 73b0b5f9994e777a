-------------------------- MODULE FailureClassifier --------------------------
(***************************************************************************)
(* _classify_lifecycle_failure (_recovery.py): the walk over an exception, *)
(* its causes and contexts that decides whether waiting can help.          *)
(*                                                                         *)
(* What one exception says of itself (its type, errno, HTTP status and     *)
(* error code) is its evidence.  The chain may share exceptions and may    *)
(* have cycles: __cause__ and __context__ are assignable attributes.       *)
(***************************************************************************)
EXTENDS Naturals, Sequences, FiniteSets

CONSTANTS
    Exceptions,   \* the exceptions there are
    exc,          \* the one to classify
    None,         \* no cause, no context
    Sayings,      \* what one exception may say, see Evidence
    MaxDepth      \* _EXCEPTION_CHAIN_MAX_DEPTH

(* "bare": the SDK's own request exception, whatever its fields say *)
Evidence == {"deterministic", "transient", "bare"}

ASSUME ClassifierAssumption ==
    /\ IsFiniteSet(Exceptions) /\ exc \in Exceptions /\ None \notin Exceptions
    /\ Sayings \subseteq SUBSET Evidence /\ {} \in Sayings
    /\ MaxDepth \in Nat

VARIABLES
    (* the input *)
    cause, context,   \* what reading __cause__ and __context__ gives
    evidence,         \* what each exception says
    broken,           \* exceptions with an attribute that raises when read
    verified,         \* the SDK version, stage and direction are whitelisted
    (* the locals *)
    pending,          \* stack of exceptions to visit
    visited, depth,
    found,            \* deterministic, transient and bare_candidates
    traversal_complete,
    failure_class     \* the answer, "none" until there is one

input == <<cause, context, evidence, broken, verified>>
vars == <<input, pending, visited, depth, found, traversal_complete, failure_class>>

Chained(e) == {cause[e], context[e]} \ {None}

Closed(S) == \A e \in S : Chained(e) \subseteq S

(* Everything that hangs on the exception. *)
Chain == {e \in Exceptions : \A S \in SUBSET Exceptions : exc \in S /\ Closed(S) => e \in S}

(* Exceptions that are not in the chain have nothing to tell apart. *)
Init ==
    /\ cause \in [Exceptions -> Exceptions \cup {None}]
    /\ context \in [Exceptions -> Exceptions \cup {None}]
    /\ \A e \in Exceptions \ Chain : Chained(e) = {}
    /\ evidence \in {f \in [Exceptions -> Sayings] : \A e \in Exceptions \ Chain : f[e] = {}}
    /\ broken \in {S \in SUBSET Chain : Cardinality(S) <= 1}
    /\ verified \in BOOLEAN
    /\ pending = <<exc>> /\ visited = {} /\ depth = 0 /\ found = {}
    /\ traversal_complete = TRUE /\ failure_class = "none"

Stacked(e, stack) == \E k \in 1 .. Len(stack) : stack[k] = e

(* Push what is neither visited nor waiting; the cause before the context. *)
Pushed(e, seen, stack) ==
    IF e = None \/ e \in seen \/ Stacked(e, stack) THEN stack ELSE Append(stack, e)

WaitingIsRepeated(e, seen) ==   \* mutant: one that is waiting already counts as a cycle
    Chained(e) \cap seen # {} \/ cause[e] = context[e]

(* An exception chained to one that was visited already ends the proof. *)
Repeated(e, seen) == Chained(e) \cap seen # {}

Visit ==
    LET current == pending[Len(pending)]
        rest == SubSeq(pending, 1, Len(pending) - 1)
        seen == visited \cup {current}
    IN  /\ failure_class = "none"
        /\ pending # <<>> /\ depth < MaxDepth
        /\ IF current \in visited
           THEN /\ pending' = rest /\ traversal_complete' = FALSE
                /\ UNCHANGED <<visited, depth, found>>
           ELSE /\ pending' = Pushed(context[current], seen, Pushed(cause[current], seen, rest))
                /\ traversal_complete' =
                      (traversal_complete /\ current \notin broken /\ ~Repeated(current, seen))
                /\ visited' = seen /\ depth' = depth + 1
                /\ found' = found \cup evidence[current]
        /\ UNCHANGED <<input, failure_class>>

TransientFirst(complete) ==   \* mutant: any transient evidence wins
    IF "transient" \in found THEN "transient"
    ELSE IF "deterministic" \in found THEN "deterministic"
    ELSE IF complete /\ "bare" \in found /\ verified THEN "transient" ELSE "unknown"

Verdict(complete) ==
    IF "deterministic" \in found THEN "deterministic"
    ELSE IF "transient" \in found THEN "transient"
    ELSE IF complete /\ "bare" \in found /\ verified THEN "transient" ELSE "unknown"

CompleteIfCut == traversal_complete   \* mutant: what the depth cuts off is forgotten

Complete == traversal_complete /\ pending = <<>>

Decide ==
    /\ failure_class = "none"
    /\ pending = <<>> \/ depth >= MaxDepth
    /\ failure_class' = Verdict(Complete)
    /\ UNCHANGED <<input, pending, visited, depth, found, traversal_complete>>

Next == Visit \/ Decide

Spec == Init /\ [][Next]_vars

(***************************************************************************)
(* Properties                                                              *)
(***************************************************************************)

(* Every variable keeps its type, the walk stays inside the chain and it   *)
(* never waits for what it has visited: the test of a popped exception     *)
(* against visited is a precaution.                                        *)
TypeOK ==
    /\ pending \in Seq(Exceptions) /\ visited \subseteq Chain
    /\ \A k \in 1 .. Len(pending) : pending[k] \in Chain \ visited
    /\ \A k, l \in 1 .. Len(pending) : pending[k] = pending[l] => k = l
    /\ depth = Cardinality(visited) /\ depth <= MaxDepth
    /\ found \subseteq Evidence /\ traversal_complete \in BOOLEAN
    /\ failure_class \in {"none", "deterministic", "transient", "unknown"}

Says(kind) == \E e \in Chain : kind \in evidence[e]
Fits == Cardinality(Chain) <= MaxDepth

(* README.md: "Transient transport failures recover at a low frequency;    *)
(* deterministic failures stop."  Within the depth, one deterministic      *)
(* exception anywhere in the chain decides, whatever lies around it, and   *)
(* without one a transient exception does.                                 *)
EvidenceDecides ==
    failure_class # "none" /\ Fits =>
        /\ failure_class = "deterministic" <=> Says("deterministic")
        /\ Says("transient") /\ ~Says("deterministic") => failure_class = "transient"

(* "The classifier is intentionally conservative": endless recovery needs  *)
(* transient evidence, or the SDK's bare exception in a chain of which     *)
(* every exception was seen and none was broken or said anything else.     *)
OnlyProvenTransients ==
    failure_class = "transient" =>
        \/ Says("transient")
        \/ /\ verified /\ Says("bare") /\ ~Says("deterministic")
           /\ Chain \cap broken = {} /\ Fits

Links == {l \in Chain \X Chain : l[2] \in Chained(l[1])}
Tree == Cardinality(Links) = Cardinality(Chain) - 1

(* The other way round: in a chain without sharing and cycles, an implicit *)
(* context that repeats the cause included, nothing hides a proof.         *)
ProofsAreFound ==
    failure_class # "none" /\ Fits /\ Tree /\ broken = {} /\ verified /\ Says("bare")
        => failure_class # "unknown"
=============================================================================
