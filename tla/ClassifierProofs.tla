--------------------------- MODULE ClassifierProofs ---------------------------
(***************************************************************************)
(* Proofs about FailureClassifier for every finite set of exceptions,      *)
(* every chain over them and every depth.                                  *)
(*                                                                         *)
(* The argument: what a visited exception chains to is visited or waits    *)
(* (Frontier), so a walk that ends with an empty stack has seen the whole  *)
(* chain; a walk that is cut has seen as many exceptions as the depth      *)
(* allows, which is the whole chain if it fits.  In a chain without        *)
(* sharing and cycles, every exception but the first hangs on exactly one  *)
(* other (OneParent), and what was visited or waits was put there by that  *)
(* one (Reached): nothing is met a second time.                            *)
(***************************************************************************)
EXTENDS FailureClassifier, FiniteSetTheorems, FunctionTheorems, SequenceTheorems, TLAPS

Waiting(stack) == {stack[k] : k \in 1 .. Len(stack)}

Distinct(stack) == \A k, l \in 1 .. Len(stack) : stack[k] = stack[l] => k = l

InputType ==
    /\ cause \in [Exceptions -> Exceptions \cup {None}]
    /\ context \in [Exceptions -> Exceptions \cup {None}]
    /\ evidence \in [Exceptions -> SUBSET Evidence]
    /\ broken \subseteq Chain /\ verified \in BOOLEAN

StackInv ==
    /\ pending \in Seq(Exceptions) /\ Distinct(pending)
    /\ visited \subseteq Chain /\ Waiting(pending) \subseteq Chain \ visited

Frontier ==
    /\ exc \in visited \cup Waiting(pending)
    /\ \A e \in visited : Chained(e) \subseteq visited \cup Waiting(pending)

(* The locals say what was visited. *)
SeenInv ==
    /\ depth \in Nat /\ depth = Cardinality(visited) /\ depth <= MaxDepth
    /\ found = UNION {evidence[e] : e \in visited}
    /\ traversal_complete \in BOOLEAN
    /\ traversal_complete => visited \cap broken = {}

AnswerInv ==
    failure_class # "none" =>
        /\ pending = <<>> \/ depth >= MaxDepth
        /\ failure_class = Verdict(Complete)

IInv == InputType /\ StackInv /\ Frontier /\ SeenInv /\ AnswerInv

(***************************************************************************)
(* The chain and the stack                                                 *)
(***************************************************************************)

(* The chain is the least set with the exception that is closed.           *)
LEMMA ChainIsClosed ==
  /\ Chain \subseteq Exceptions
  /\ InputType => exc \in Chain /\ Closed(Chain)
  /\ \A S \in SUBSET Exceptions : exc \in S /\ Closed(S) => Chain \subseteq S
<1>1. Chain \subseteq Exceptions
  BY DEF Chain
<1>2. \A S \in SUBSET Exceptions : exc \in S /\ Closed(S) => Chain \subseteq S
  BY DEF Chain
<1>3. ASSUME InputType PROVE exc \in Chain /\ Closed(Chain)
  <2>1. exc \in Chain
    BY ClassifierAssumption DEF Chain
  <2>2. ASSUME NEW e \in Chain, NEW f \in Chained(e) PROVE f \in Chain
    <3>1. f \in Exceptions
      BY <1>1, <1>3, <2>2 DEF Chained, InputType
    <3>2. ASSUME NEW S \in SUBSET Exceptions, exc \in S, Closed(S) PROVE f \in S
      BY <3>2, <2>2 DEF Chain, Closed
    <3> QED BY <3>1, <3>2 DEF Chain
  <2> QED BY <2>1, <2>2 DEF Closed
<1> QED BY <1>1, <1>2, <1>3

(* What a push does to the stack.                                          *)
LEMMA PushKeepsStack ==
  ASSUME NEW stack \in Seq(Exceptions), Distinct(stack), NEW seen,
         NEW e \in Exceptions \cup {None}
  PROVE  /\ Pushed(e, seen, stack) \in Seq(Exceptions)
         /\ Distinct(Pushed(e, seen, stack))
         /\ Waiting(stack) \subseteq Waiting(Pushed(e, seen, stack))
         /\ Waiting(Pushed(e, seen, stack)) \subseteq Waiting(stack) \cup ({e} \ (seen \cup {None}))
         /\ e \in Waiting(Pushed(e, seen, stack)) \cup seen \cup {None}
<1>1. CASE e = None \/ e \in seen \/ Stacked(e, stack)
  <2>1. Pushed(e, seen, stack) = stack
    BY <1>1 DEF Pushed
  <2>2. Stacked(e, stack) => e \in Waiting(stack)
    BY DEF Stacked, Waiting
  <2> QED BY <1>1, <2>1, <2>2
<1>2. CASE ~(e = None \/ e \in seen \/ Stacked(e, stack))
  <2> DEFINE new == Append(stack, e)
  <2>1. Pushed(e, seen, stack) = new
    BY <1>2 DEF Pushed
  <2>2. /\ new \in Seq(Exceptions) /\ Len(new) = Len(stack) + 1
        /\ new[Len(stack) + 1] = e /\ \A k \in 1 .. Len(stack) : new[k] = stack[k]
        /\ Len(stack) \in Nat
    BY <1>2
  <2>3. Waiting(new) = Waiting(stack) \cup {e}
    BY <2>2 DEF Waiting
  <2>4. Distinct(new)
    <3> SUFFICES ASSUME NEW k \in 1 .. Len(new), NEW l \in 1 .. Len(new), new[k] = new[l]
                 PROVE  k = l
      BY DEF Distinct
    <3>1. \A j \in 1 .. Len(stack) : stack[j] # e
      BY <1>2 DEF Stacked
    <3> HIDE DEF new
    <3> QED BY <2>2, <3>1 DEF Distinct
  <2> QED BY <1>2, <2>1, <2>2, <2>3, <2>4
<1> QED BY <1>1, <1>2

(* What popping the top does. *)
LEMMA PopKeepsStack ==
  ASSUME NEW stack \in Seq(Exceptions), Distinct(stack), stack # <<>>
  PROVE  LET top == stack[Len(stack)]
             rest == SubSeq(stack, 1, Len(stack) - 1)
         IN  /\ top \in Exceptions /\ rest \in Seq(Exceptions) /\ Distinct(rest)
             /\ Waiting(rest) = Waiting(stack) \ {top} /\ top \in Waiting(stack)
<1> DEFINE n == Len(stack)
           rest == SubSeq(stack, 1, n - 1)
<1>1. n \in Nat \ {0}
  OBVIOUS
<1>2. /\ rest \in Seq(Exceptions) /\ Len(rest) = n - 1
      /\ \A k \in 1 .. n - 1 : rest[k] = stack[k]
  <2>1. \A k \in 1 .. n - 1 : stack[k] \in Exceptions
    BY <1>1
  <2>2. /\ SubSeq(stack, 1, n - 1) \in Seq(Exceptions)
        /\ Len(SubSeq(stack, 1, n - 1)) = IF 1 <= n - 1 THEN n - 1 - 1 + 1 ELSE 0
        /\ \A k \in 1 .. n - 1 - 1 + 1 : SubSeq(stack, 1, n - 1)[k] = stack[1 + k - 1]
    <3> HIDE DEF n
    <3> QED BY ONLY <1>1, <2>1, SubSeqProperties, n \in Int, 1 \in Int, n - 1 \in Int
  <2> HIDE DEF n
  <2> QED BY <1>1, <2>2
<1>3. stack[n] \in Exceptions /\ stack[n] \in Waiting(stack)
  BY <1>1 DEF Waiting
<1>4. Distinct(rest)
  BY <1>1, <1>2 DEF Distinct
<1>5. Waiting(rest) = Waiting(stack) \ {stack[n]}
  BY <1>1, <1>2 DEF Distinct, Waiting
<1> QED BY <1>2, <1>3, <1>4, <1>5

(***************************************************************************)
(* The invariant                                                           *)
(***************************************************************************)
LEMMA InitInv == Init => IInv
<1> SUFFICES ASSUME Init PROVE IInv
  OBVIOUS
<1> USE ClassifierAssumption
<1>1. InputType
  BY DEF Init, InputType
<1>2. exc \in Chain
  BY <1>1, ChainIsClosed
<1>3. StackInv
  <2>1. pending \in Seq(Exceptions) /\ Distinct(pending)
    BY DEF Init, Distinct
  <2>2. Waiting(pending) = {exc}
    BY DEF Init, Waiting
  <2> QED BY <1>2, <2>1, <2>2 DEF Init, StackInv
<1>4. Frontier
  BY DEF Init, Frontier, Waiting
<1>5. SeenInv
  BY FS_EmptySet DEF Init, SeenInv
<1> QED BY <1>1, <1>3, <1>4, <1>5 DEF Init, IInv, AnswerInv

LEMMA VisitKeepsInv == IInv /\ Visit => IInv'
<1> SUFFICES ASSUME IInv, Visit PROVE IInv'
  OBVIOUS
<1> DEFINE current == pending[Len(pending)]
           rest == SubSeq(pending, 1, Len(pending) - 1)
           seen == visited \cup {current}
           stack1 == Pushed(cause[current], seen, rest)
           stack2 == Pushed(context[current], seen, stack1)
<1>1. /\ current \in Exceptions /\ rest \in Seq(Exceptions) /\ Distinct(rest)
      /\ Waiting(rest) = Waiting(pending) \ {current} /\ current \in Waiting(pending)
  BY PopKeepsStack DEF IInv, StackInv, Visit
<1>2. current \in Chain /\ current \notin visited
  BY <1>1 DEF IInv, StackInv
<1>3. /\ pending' = stack2 /\ visited' = seen /\ depth' = depth + 1
      /\ found' = found \cup evidence[current]
      /\ traversal_complete' = (traversal_complete /\ current \notin broken /\ ~Repeated(current, seen))
      /\ depth < MaxDepth /\ UNCHANGED <<input, failure_class>> /\ failure_class = "none"
  BY <1>2 DEF Visit
<1> HIDE DEF current, rest
<1>4. cause[current] \in Exceptions \cup {None} /\ context[current] \in Exceptions \cup {None}
  BY <1>1 DEF IInv, InputType
<1>5. /\ stack1 \in Seq(Exceptions) /\ Distinct(stack1)
      /\ Waiting(rest) \subseteq Waiting(stack1)
      /\ Waiting(stack1) \subseteq Waiting(rest) \cup ({cause[current]} \ (seen \cup {None}))
      /\ cause[current] \in Waiting(stack1) \cup seen \cup {None}
  BY <1>1, <1>4, PushKeepsStack
<1> HIDE DEF stack1
<1>6. /\ stack2 \in Seq(Exceptions) /\ Distinct(stack2)
      /\ Waiting(stack1) \subseteq Waiting(stack2)
      /\ Waiting(stack2) \subseteq Waiting(stack1) \cup ({context[current]} \ (seen \cup {None}))
      /\ context[current] \in Waiting(stack2) \cup seen \cup {None}
  BY <1>4, <1>5, PushKeepsStack
<1> HIDE DEF stack2
<1>7. Chain' = Chain /\ InputType'
  BY <1>3 DEF IInv, InputType, input, Chain, Closed, Chained
<1>8. Chained(current) \subseteq Chain
  BY <1>2, ChainIsClosed DEF IInv, Closed
<1>9. StackInv'
  <2>1. Waiting(stack2) \subseteq Chain \ seen
    BY <1>1, <1>5, <1>6, <1>8 DEF IInv, StackInv, Chained
  <2> QED BY <1>2, <1>3, <1>6, <1>7, <2>1 DEF IInv, StackInv, Distinct, Waiting
<1>10. Frontier'
  <2>1. visited \cup Waiting(pending) \subseteq seen \cup Waiting(stack2)
    BY <1>1, <1>5, <1>6
  <2>2. Chained(current) \subseteq seen \cup Waiting(stack2)
    BY <1>5, <1>6 DEF Chained
  <2>3. \A e \in seen : Chained(e) \subseteq seen \cup Waiting(stack2)
    BY <2>1, <2>2 DEF IInv, Frontier
  <2>4. \A e : Chained(e)' = Chained(e)
    BY <1>3 DEF input, Chained
  <2>5. Waiting(pending)' = Waiting(stack2)
    BY <1>3 DEF Waiting
  <2> QED BY <1>3, <2>1, <2>3, <2>4, <2>5 DEF IInv, Frontier
<1>11. SeenInv'
  <2>1. IsFiniteSet(visited) /\ MaxDepth \in Nat
    BY ClassifierAssumption, ChainIsClosed, FS_Subset DEF IInv, StackInv
  <2>2. Cardinality(seen) = Cardinality(visited) + 1
    BY <1>2, <2>1, FS_AddElement
  <2>3. found' = UNION {evidence'[e] : e \in visited'}
    BY <1>3 DEF IInv, SeenInv, input
  <2>4. traversal_complete' => visited' \cap broken' = {}
    BY <1>3 DEF IInv, SeenInv, input
  <2> QED BY <1>3, <2>1, <2>2, <2>3, <2>4 DEF IInv, SeenInv
<1> QED BY <1>3, <1>7, <1>9, <1>10, <1>11 DEF IInv, AnswerInv

LEMMA DecideKeepsInv == IInv /\ Decide => IInv'
<1> SUFFICES ASSUME IInv, Decide PROVE IInv'
  OBVIOUS
<1>1. /\ UNCHANGED <<cause, context, evidence, broken, verified, pending, visited, depth, found,
                     traversal_complete>>
      /\ pending = <<>> \/ depth >= MaxDepth
      /\ failure_class' = Verdict(Complete)
  BY DEF Decide, input
<1>2. Chain' = Chain /\ \A e : Chained(e)' = Chained(e)
  BY <1>1 DEF Chain, Closed, Chained
<1>3. InputType' /\ StackInv' /\ Frontier' /\ SeenInv'
  BY <1>1, <1>2 DEF IInv, InputType, StackInv, Frontier, SeenInv, Waiting, Distinct
<1>4. AnswerInv'
  BY <1>1 DEF AnswerInv, Verdict, Complete
<1> QED BY <1>3, <1>4 DEF IInv

LEMMA StutterKeepsInv == IInv /\ UNCHANGED vars => IInv'
<1> SUFFICES ASSUME IInv, UNCHANGED vars PROVE IInv'
  OBVIOUS
<1>1. Chain' = Chain /\ \A e : Chained(e)' = Chained(e)
  BY DEF vars, input, Chain, Closed, Chained
<1> QED BY <1>1 DEF IInv, InputType, StackInv, Frontier, SeenInv, AnswerInv, Waiting, Distinct,
             Verdict, Complete, vars, input

LEMMA Invariance == Spec => []IInv
<1>1. IInv /\ [Next]_vars => IInv'
  BY VisitKeepsInv, DecideKeepsInv, StutterKeepsInv DEF Next
<1> QED BY InitInv, <1>1, PTL DEF Spec

(***************************************************************************)
(* The theorems                                                            *)
(***************************************************************************)

(* A walk that emptied its stack, or a chain within the depth, has been    *)
(* seen to the last exception.                                             *)
LEMMA ChainIsSeen ==
  ASSUME IInv, pending = <<>> \/ (depth >= MaxDepth /\ Fits)
  PROVE  visited = Chain
<1>1. CASE pending = <<>>
  <2>1. Waiting(pending) = {}
    BY <1>1 DEF Waiting
  <2>2. exc \in visited /\ Closed(visited) /\ visited \in SUBSET Exceptions
    BY <2>1, ChainIsClosed DEF IInv, Frontier, StackInv, Closed
  <2>3. Chain \subseteq visited
    BY <2>2, ChainIsClosed
  <2> QED BY <2>3 DEF IInv, StackInv
<1>2. CASE depth >= MaxDepth /\ Fits
  <2>1. IsFiniteSet(Chain) /\ visited \in SUBSET Chain
    BY ClassifierAssumption, ChainIsClosed, FS_Subset DEF IInv, StackInv
  <2>2. Cardinality(Chain) \in Nat /\ Cardinality(visited) \in Nat /\ MaxDepth \in Nat
    BY <2>1, FS_CardinalityType, FS_Subset, ClassifierAssumption
  <2>3. Cardinality(visited) <= Cardinality(Chain)
    BY <2>1, FS_Subset
  <2>4. Cardinality(Chain) = Cardinality(visited)
    BY <1>2, <2>2, <2>3 DEF IInv, SeenInv, Fits
  <2> QED BY <2>1, <2>4, FS_Subset
<1> QED BY <1>1, <1>2

(* TypeOK: the walk stays inside the chain and visits nothing twice, so it *)
(* ends after at most MaxDepth exceptions.                                 *)
THEOREM TypeCorrect == Spec => []TypeOK
<1>1. IInv => TypeOK
  <2> SUFFICES ASSUME IInv PROVE TypeOK
    OBVIOUS
  <2>1. \A k \in 1 .. Len(pending) : pending[k] \in Chain \ visited
    BY DEF IInv, StackInv, Waiting
  <2>2. found \subseteq Evidence
    BY ChainIsClosed DEF IInv, SeenInv, StackInv, InputType
  <2>3. failure_class \in {"none", "deterministic", "transient", "unknown"}
    BY DEF IInv, AnswerInv, Verdict
  <2> QED BY <2>1, <2>2, <2>3 DEF TypeOK, IInv, StackInv, SeenInv, Distinct
<1> QED BY <1>1, Invariance, PTL

(* EvidenceDecides: in every chain within the depth one deterministic      *)
(* exception decides, wherever it hangs, and then a transient one.         *)
THEOREM EvidenceIsDecisive == Spec => []EvidenceDecides
<1>1. IInv => EvidenceDecides
  <2> SUFFICES ASSUME IInv, failure_class # "none", Fits
               PROVE  /\ failure_class = "deterministic" <=> Says("deterministic")
                      /\ Says("transient") /\ ~Says("deterministic")
                            => failure_class = "transient"
    BY DEF EvidenceDecides
  <2>1. visited = Chain
    BY ChainIsSeen DEF IInv, AnswerInv
  <2>2. \A kind : kind \in found <=> Says(kind)
    BY <2>1 DEF IInv, SeenInv, Says
  <2>3. failure_class = Verdict(Complete)
    BY DEF IInv, AnswerInv
  <2> QED BY <2>2, <2>3 DEF Verdict
<1> QED BY <1>1, Invariance, PTL

(* OnlyProvenTransients: recovery for ever needs transient evidence, or a  *)
(* bare request exception in a chain that was seen whole, unbroken and     *)
(* without evidence against it.                                            *)
THEOREM RecoveryNeedsProof == Spec => []OnlyProvenTransients
<1>1. IInv => OnlyProvenTransients
  <2> SUFFICES ASSUME IInv, failure_class = "transient", ~Says("transient")
               PROVE  /\ verified /\ Says("bare") /\ ~Says("deterministic")
                      /\ Chain \cap broken = {} /\ Fits
    BY DEF OnlyProvenTransients
  <2>1. failure_class = Verdict(Complete)
    BY DEF IInv, AnswerInv
  <2>2. \A kind : kind \in found => Says(kind)
    BY DEF IInv, SeenInv, StackInv, Says
  <2>3. Complete /\ "bare" \in found /\ verified /\ "deterministic" \notin found
    BY <2>1, <2>2 DEF Verdict
  <2>4. visited = Chain
    BY <2>3, ChainIsSeen DEF Complete
  <2>5. ~Says("deterministic")
    BY <2>3, <2>4 DEF IInv, SeenInv, Says
  <2>6. Chain \cap broken = {} /\ Fits
    BY <2>3, <2>4 DEF Complete, IInv, SeenInv, Fits
  <2> QED BY <2>2, <2>3, <2>5, <2>6
<1> QED BY <1>1, Invariance, PTL

(***************************************************************************)
(* Chains without sharing and cycles                                       *)
(***************************************************************************)
(* Every exception behind the first hangs on another one. *)
LEMMA EveryoneHangs ==
  ASSUME InputType, NEW e \in Chain \ {exc}
  PROVE  \E f \in Chain \ {e} : e \in Chained(f)
<1>1. SUFFICES ASSUME \A f \in Chain \ {e} : e \notin Chained(f) PROVE FALSE
  OBVIOUS
<1>2. /\ Chain \ {e} \in SUBSET Exceptions /\ exc \in Chain \ {e} /\ Closed(Chain \ {e})
  BY <1>1, ChainIsClosed DEF Closed
<1>3. Chain \subseteq Chain \ {e}
  BY <1>2, ChainIsClosed
<1> QED BY <1>3

(* A tree has as many links as there are exceptions behind the first, and  *)
(* each of these has one: no link is left for a second or for the first.   *)
LEMMA OneParent ==
  ASSUME InputType, Tree
  PROVE  /\ \A e, f \in Chain : e \in Chained(f) => e # exc /\ e # f
         /\ \A e, f, g \in Chain : e \in Chained(f) /\ e \in Chained(g) => f = g
<1> DEFINE Rest == Chain \ {exc}
           Goes(l, e) == l[2] = e /\ l[1] # e
           into == [e \in Rest |-> CHOOSE l \in Links : Goes(l, e)]
<1>1. IsFiniteSet(Chain) /\ exc \in Chain
  BY ClassifierAssumption, ChainIsClosed, FS_Subset
<1>2. IsFiniteSet(Links)
  <2>1. IsFiniteSet(Chain \X Chain)
    BY <1>1, FS_Product
  <2> QED BY <2>1, FS_Subset DEF Links
<1>3. Cardinality(Rest) = Cardinality(Links)
  BY <1>1, FS_RemoveElement DEF Tree
<1>4. \A e \in Rest : into[e] \in Links /\ Goes(into[e], e)
  <2>1. SUFFICES ASSUME NEW e \in Rest PROVE \E l \in Links : Goes(l, e)
    OBVIOUS
  <2>2. PICK f \in Chain \ {e} : e \in Chained(f)
    BY EveryoneHangs
  <2>3. <<f, e>> \in Links /\ Goes(<<f, e>>, e)
    BY <2>2 DEF Links
  <2> QED BY <2>3
<1>5. into \in [Rest -> Links]
  BY <1>4
<1> HIDE DEF into
<1>6. into \in Injection(Rest, Links)
  BY <1>4, <1>5, Fun_IsInj
<1>7. \A l \in Links : \E e \in Rest : into[e] = l
  BY <1>2, <1>3, <1>6, FS_Injection, Fun_SurjectionProperties
<1>8. \A l \in Links : l[2] \in Rest /\ into[l[2]] = l /\ l[1] # l[2]
  BY <1>4, <1>7
<1>9. \A e, f \in Chain : e \in Chained(f) => <<f, e>> \in Links
  BY DEF Links
<1>10. ASSUME NEW e \in Chain, NEW f \in Chain, e \in Chained(f)
       PROVE  e \in Rest /\ into[e] = <<f, e>> /\ e # f
  <2> DEFINE l == <<f, e>>
  <2>1. l \in Links /\ l[1] = f /\ l[2] = e
    BY <1>9, <1>10
  <2> HIDE DEF l
  <2>2. e \in Rest /\ into[e] = l /\ e # f
    BY <1>8, <2>1
  <2> QED BY <2>2 DEF l
<1>11. \A e, f, g \in Chain : e \in Chained(f) /\ e \in Chained(g) => f = g
  <2>1. \A e, f, g \in Chain :
          e \in Chained(f) /\ e \in Chained(g) => <<f, e>> = <<g, e>>
    BY <1>10
  <2> QED BY <2>1
<1> QED BY <1>10, <1>11

(* What was met hangs on something that was visited, and in a tree of      *)
(* exceptions that can all be read nothing has spoilt the proof.           *)
Reached ==
    /\ \A e \in visited \cup Waiting(pending) : e = exc \/ \E f \in visited : e \in Chained(f)
    /\ Tree /\ broken = {} => traversal_complete

LEMMA StepKeepsReached ==
  ASSUME IInv, Reached, [Next]_vars
  PROVE  Reached'
<1>1. CASE Visit
  <2> DEFINE current == pending[Len(pending)]
             rest == SubSeq(pending, 1, Len(pending) - 1)
             seen == visited \cup {current}
             stack1 == Pushed(cause[current], seen, rest)
             stack2 == Pushed(context[current], seen, stack1)
  <2>1. /\ current \in Exceptions /\ rest \in Seq(Exceptions) /\ Distinct(rest)
        /\ Waiting(rest) = Waiting(pending) \ {current} /\ current \in Waiting(pending)
    BY <1>1, PopKeepsStack DEF IInv, StackInv, Visit
  <2>2. current \in Chain /\ current \notin visited
    BY <2>1 DEF IInv, StackInv
  <2>3. /\ pending' = stack2 /\ visited' = seen /\ UNCHANGED input
        /\ traversal_complete' = (traversal_complete /\ current \notin broken /\ ~Repeated(current, seen))
    BY <1>1, <2>2 DEF Visit
  <2> HIDE DEF current, rest
  <2>4. cause[current] \in Exceptions \cup {None} /\ context[current] \in Exceptions \cup {None}
    BY <2>1 DEF IInv, InputType
  <2>5. /\ stack1 \in Seq(Exceptions) /\ Distinct(stack1)
        /\ Waiting(stack1) \subseteq Waiting(rest) \cup ({cause[current]} \ (seen \cup {None}))
    BY <2>1, <2>4, PushKeepsStack
  <2> HIDE DEF stack1
  <2>6. Waiting(stack2) \subseteq Waiting(stack1) \cup ({context[current]} \ (seen \cup {None}))
    BY <2>4, <2>5, PushKeepsStack
  <2> HIDE DEF stack2
  <2>7. seen \cup Waiting(stack2) \subseteq visited \cup Waiting(pending) \cup Chained(current)
    BY <2>1, <2>5, <2>6 DEF Chained
  <2>8. Waiting(pending)' = Waiting(stack2) /\ \A e : Chained(e)' = Chained(e)
    BY <2>3 DEF Waiting, Chained, input
  <2>9. \A e \in visited' \cup Waiting(pending)' :
          e = exc \/ \E f \in visited' : e \in Chained(f)'
    BY <2>3, <2>7, <2>8 DEF Reached
  <2>10. ASSUME Tree, broken = {} PROVE ~Repeated(current, seen)
    <3>1. SUFFICES ASSUME NEW e \in Chained(current), e \in seen PROVE FALSE
      BY DEF Repeated
    <3>2. e \in Chain /\ e # exc /\ e # current
      BY <2>2, <2>10, <3>1, ChainIsClosed, OneParent DEF IInv, Closed
    <3>3. PICK f \in visited : e \in Chained(f)
      BY <3>1, <3>2 DEF Reached
    <3>4. f = current
      BY <2>2, <2>10, <3>1, <3>2, <3>3, OneParent DEF IInv, StackInv
    <3> QED BY <2>2, <3>3, <3>4
  <2>11. Tree' /\ broken' = {} => Tree /\ broken = {}
    BY <2>3, <2>8 DEF Tree, Links, Chain, Closed, input
  <2>12. Tree' /\ broken' = {} => traversal_complete'
    BY <2>3, <2>10, <2>11 DEF Reached
  <2> QED BY <2>9, <2>12 DEF Reached
<1>2. CASE Decide \/ UNCHANGED vars
  <2>1. UNCHANGED <<cause, context, broken, pending, visited, traversal_complete>>
    BY <1>2 DEF Decide, vars, input
  <2> QED BY <2>1 DEF Reached, Tree, Links, Chain, Closed, Chained, Waiting
<1> QED BY <1>1, <1>2 DEF Next

LEMMA ReachedHolds == Spec => []Reached
<1>1. Init => Reached
  BY DEF Init, Reached, Waiting
<1> QED BY <1>1, StepKeepsReached, Invariance, PTL DEF Spec

(* ProofsAreFound: in a chain without sharing and cycles that can be read  *)
(* to the end, no order of the walk hides the SDK's bare exception.        *)
THEOREM ProofsAreNotHidden == Spec => []ProofsAreFound
<1>1. IInv /\ Reached => ProofsAreFound
  <2> SUFFICES ASSUME IInv, Reached, failure_class # "none", Fits, Tree, broken = {}, verified,
                      Says("bare")
               PROVE  failure_class # "unknown"
    BY DEF ProofsAreFound
  <2>1. visited = Chain
    BY ChainIsSeen DEF IInv, AnswerInv
  <2>2. pending = <<>>
    <3>1. Waiting(pending) = {} /\ pending \in Seq(Exceptions)
      BY <2>1 DEF IInv, StackInv
    <3>2. ASSUME pending # <<>> PROVE FALSE
      <4>1. 1 \in 1 .. Len(pending)
        BY <3>1, <3>2
      <4> QED BY <3>1, <4>1 DEF Waiting
    <3> QED BY <3>2
  <2>3. Complete /\ "bare" \in found
    BY <2>1, <2>2 DEF Complete, Reached, IInv, SeenInv, Says
  <2> QED BY <2>3 DEF IInv, AnswerInv, Verdict
<1> QED BY <1>1, Invariance, ReachedHolds, PTL
=============================================================================
