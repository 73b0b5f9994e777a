---------------------------- MODULE ReadsProofs ----------------------------
(***************************************************************************)
(* Proofs about Reads for every configuration, every number of retries and *)
(* answers of any length.                                                  *)
(*                                                                         *)
(* Progress counts the attempts at each place of the loop, and Ends says   *)
(* what the outcome tells of them.  What a list is made of (RowsAt, a loop *)
(* over the rows) is shown by induction on the rows looked at: Selects     *)
(* says where each row has got to.                                         *)
(***************************************************************************)
EXTENDS Reads, FiniteSetTheorems, FunctionTheorems, WellFoundedInduction, TLAPS

Progress ==
    /\ pc \in {"idle", "client"} => attempt = 0 /\ sdk_calls = 0
    /\ pc = "attempt" => attempt \in 1 .. Budget /\ sdk_calls = attempt - 1
    /\ pc = "sleep" => attempt < Budget /\ sdk_calls = attempt
    /\ sdk_calls <= Budget
    /\ ~request.valid => sdk_calls = 0 /\ attempt <= 1

Ends ==
    /\ pc \in {"idle", "client", "attempt", "sleep", "choose"} => outcome = NoOutcome
    /\ outcome = Raised("failure") => sdk_calls = Budget /\ failure.attempt = Budget
    /\ outcome = Raised("validation") => sdk_calls = 0 /\ attempt <= 1

IInv == TypeOK /\ Progress /\ Ends

(***************************************************************************)
(* Lemmas                                                                  *)
(***************************************************************************)

(* The number of attempts is a number, and positive once it is checked.    *)
LEMMA BudgetType ==
  ASSUME cfg \in Configs
  PROVE  Budget \in Nat /\ (~InvalidSettings => Budget > 0)
<1>1. cfg \in Config
  BY ReadsAssumption
<1>2. cfg.retry_times \in Nat /\ cfg.retry_enabled \in BOOLEAN
  BY <1>1 DEF Config
<1> QED BY <1>2 DEF Budget, InvalidSettings

(* The configuration of an application never changes, so neither do the    *)
(* number of attempts and the verdict on the settings.                     *)
LEMMA SettingsStay == UNCHANGED cfg => Budget' = Budget
  BY DEF Budget

(* The ways a read ends are different from one another.                    *)
LEMMA Outcomes ==
  ASSUME NEW v, NEW e, NEW f
  PROVE  /\ Returned(v) # Raised(e) /\ NoOutcome # Raised(e)
         /\ Raised(e) = Raised(f) => e = f
         /\ Returned(v).ended = "returned" /\ Raised(e).ended = "raised"
         /\ NoOutcome.ended = "no"
<1>1. Returned(v).ended = "returned" /\ Raised(e).ended = "raised" /\ NoOutcome.ended = "no"
  BY DEF Returned, Raised, NoOutcome
<1>2. Raised(e).value = e /\ Raised(f).value = f
  BY DEF Raised
<1> QED BY <1>1, <1>2

(* A choice ends the read, and not with an error of the retries.           *)
LEMMA ChooseEnds ==
  ASSUME Choose
  PROVE  /\ pc' = "ended"
         /\ outcome'.ended = "returned" \/ outcome' \in {Raised("strategy"), Raised("weights")}
         /\ outcome' # Raised("failure") /\ outcome' # Raised("validation")
<1>1. \E o : /\ End(o)
             /\ o.ended = "returned" \/ o \in {Raised("strategy"), Raised("weights")}
  <2>1. Returned("none").ended = "returned"
    BY DEF Returned
  <2>2. \A i : [ended |-> "returned", value |-> "row", row |-> rows[i]].ended = "returned"
    OBVIOUS
  <2> QED BY <2>1, <2>2 DEF Choose
<1>2. pc' = "ended" /\ (outcome'.ended = "returned"
                        \/ outcome' \in {Raised("strategy"), Raised("weights")})
  BY <1>1 DEF End
<1>3. \A e \in {"strategy", "weights"}, f \in {"failure", "validation"} : Raised(e) # Raised(f)
  BY Outcomes
<1>4. outcome' # Raised("failure") /\ outcome' # Raised("validation")
  BY <1>2, <1>3, Outcomes
<1> QED BY <1>2, <1>4

(***************************************************************************)
(* The invariant                                                           *)
(***************************************************************************)
LEMMA InitEstablishesIInv == Init => IInv
<1> SUFFICES ASSUME Init PROVE IInv
  OBVIOUS
<1> USE DEF Init
<1>1. NoRequest \in Request /\ NoRequest.valid
  BY DEF NoRequest, Request
<1>2. NoFailure \in Failure /\ NoFailure.attempt = 0
  BY DEF NoFailure, Failure
<1>3. TypeOK
  BY <1>1, <1>2, Outcomes DEF TypeOK, Pcs
<1>4. Progress
  BY <1>1, BudgetType DEF Progress
<1>5. Ends
  BY Outcomes DEF Ends
<1> QED BY <1>3, <1>4, <1>5 DEF IInv

LEMMA StepKeepsTypeOK ==
  ASSUME IInv, Next
  PROVE  TypeOK'
<1> USE DEF IInv, TypeOK, Pcs
<1>0. Budget \in Nat
  BY BudgetType
<1>1. \A n \in Nat, k \in {"sdk", "shape"} : [attempt |-> n, kind |-> k] \in Failure
  BY DEF Failure
<1>2. \A o : End(o) => outcome' = o /\ pc' = "ended"
  BY DEF End
<1>3. CASE Begin
  BY <1>3, <1>2, Outcomes DEF Begin
<1>4. CASE WithoutClient
  BY <1>4, <1>2, Outcomes DEF WithoutClient
<1>5. CASE ClientFails
  BY <1>5, <1>2, Outcomes DEF ClientFails
<1>6. CASE CheckSettings
  <2>1. attempt = 0 /\ sdk_calls = 0
    BY <1>6 DEF CheckSettings, Progress
  <2>2. failure \in Failure /\ failure.attempt \in Nat
    BY DEF Failure
  <2> QED BY <1>6, <1>2, <2>1, <2>2, Outcomes DEF CheckSettings
<1>7. CASE InputRefused
  BY <1>7, <1>2, Outcomes DEF InputRefused
<1>8. CASE CallFails
  <2>1. attempt \in 1 .. Budget /\ sdk_calls = attempt - 1
    BY <1>8 DEF CallFails, Progress
  <2>2. failure' \in Failure /\ failure'.attempt = attempt
    BY <1>8, <1>1 DEF CallFails, AttemptFails
  <2> QED BY <1>8, <1>0, <1>2, <2>1, <2>2, Outcomes DEF CallFails, AttemptFails
<1>9. CASE Unrecognized
  <2>1. attempt \in 1 .. Budget /\ sdk_calls = attempt - 1
    BY <1>9 DEF Unrecognized, Progress
  <2>2. failure' \in Failure /\ failure'.attempt = attempt
    BY <1>9, <1>1 DEF Unrecognized, AttemptFails
  <2> QED BY <1>9, <1>0, <1>2, <2>1, <2>2, Outcomes DEF Unrecognized, AttemptFails
<1>10. CASE CallSucceeds
  <2>1. attempt \in 1 .. Budget /\ sdk_calls = attempt - 1
    BY <1>10 DEF CallSucceeds, Progress
  <2> QED BY <1>10, <1>0, <1>2, <2>1, Outcomes DEF CallSucceeds
<1>11. CASE Slept
  <2>1. failure.attempt \in Nat
    BY DEF Failure
  <2> QED BY <1>11, <2>1 DEF Slept
<1>12. CASE SleepRaises
  BY <1>12, <1>2, Outcomes DEF SleepRaises
<1>13. CASE Choose
  <2>1. outcome'.ended \in {"returned", "raised"} /\ pc' = "ended"
    BY <1>13, ChooseEnds, Outcomes
  <2> QED BY <1>13, <2>1 DEF Choose
<1>14. CASE Again
  <2>1. NoRequest \in Request
    BY DEF NoRequest, Request
  <2>2. NoFailure \in Failure /\ NoFailure.attempt = 0
    BY DEF NoFailure, Failure
  <2> QED BY <1>14, <2>1, <2>2, Outcomes DEF Again
<1> QED BY <1>3, <1>4, <1>5, <1>6, <1>7, <1>8, <1>9, <1>10, <1>11, <1>12, <1>13, <1>14
        DEF Next, Step, Attempt

LEMMA StepKeepsProgress ==
  ASSUME IInv, Next
  PROVE  Progress'
<1> USE DEF IInv, TypeOK, Progress
<1>0. Budget \in Nat /\ (~InvalidSettings => Budget > 0)
  BY BudgetType
<1>1. UNCHANGED cfg => Budget' = Budget
  BY SettingsStay
<1>2. \A o : End(o) => pc' = "ended"
  BY DEF End
<1>3. CASE Begin
  BY <1>3, <1>0, <1>1, <1>2 DEF Begin
<1>4. CASE WithoutClient
  BY <1>4, <1>0, <1>1, <1>2 DEF WithoutClient
<1>5. CASE ClientFails
  BY <1>5, <1>0, <1>1, <1>2 DEF ClientFails
<1>6. CASE CheckSettings
  BY <1>6, <1>0, <1>1, <1>2 DEF CheckSettings
<1>7. CASE InputRefused
  BY <1>7, <1>0, <1>1, <1>2 DEF InputRefused
<1>8. CASE CallFails
  BY <1>8, <1>0, <1>1, <1>2 DEF CallFails, AttemptFails
<1>9. CASE Unrecognized
  BY <1>9, <1>0, <1>1, <1>2 DEF Unrecognized, AttemptFails
<1>10. CASE CallSucceeds
  BY <1>10, <1>0, <1>1, <1>2 DEF CallSucceeds
<1>11. CASE Slept
  BY <1>11, <1>0, <1>1 DEF Slept
<1>12. CASE SleepRaises
  BY <1>12, <1>0, <1>1, <1>2 DEF SleepRaises
<1>13. CASE Choose
  BY <1>13, <1>0, <1>1, <1>2 DEF Choose
<1>14. CASE Again
  <2>1. NoRequest.valid
    BY DEF NoRequest
  <2> QED BY <1>14, <1>0, <1>1, <2>1 DEF Again
<1> QED BY <1>3, <1>4, <1>5, <1>6, <1>7, <1>8, <1>9, <1>10, <1>11, <1>12, <1>13, <1>14
        DEF Next, Step, Attempt

LEMMA StepKeepsEnds ==
  ASSUME IInv, Next
  PROVE  Ends'
<1> USE DEF IInv, TypeOK, Ends
<1>0. Budget \in Nat
  BY BudgetType
<1>1. UNCHANGED cfg => Budget' = Budget
  BY SettingsStay
<1>2. \A o : End(o) => outcome' = o /\ pc' = "ended"
  BY DEF End
<1>3. CASE Begin
  BY <1>3, <1>1, <1>2, Outcomes DEF Begin
<1>4. CASE WithoutClient
  BY <1>4, <1>1, <1>2, Outcomes DEF WithoutClient
<1>5. CASE ClientFails
  <2>1. "client" # "failure" /\ "client" # "validation"
    OBVIOUS
  <2> QED BY <1>5, <1>1, <1>2, <2>1, Outcomes DEF ClientFails
<1>6. CASE CheckSettings
  <2>1. attempt = 0 /\ sdk_calls = 0
    BY <1>6 DEF CheckSettings, Progress
  <2>2. "validation" # "failure"
    OBVIOUS
  <2> QED BY <1>6, <1>1, <1>2, <2>1, <2>2, Outcomes DEF CheckSettings
<1>7. CASE InputRefused
  <2>1. attempt <= 1 /\ sdk_calls = 0
    BY <1>7 DEF InputRefused, Progress
  <2>2. "validation" # "failure"
    OBVIOUS
  <2> QED BY <1>7, <1>1, <1>2, <2>1, <2>2, Outcomes DEF InputRefused
<1>8. ASSUME CallFails \/ Unrecognized PROVE Ends'
  <2>1. attempt \in 1 .. Budget /\ sdk_calls' = attempt /\ UNCHANGED <<cfg, attempt>>
    BY <1>8, <1>0 DEF CallFails, Unrecognized, Progress
  <2>2. failure'.attempt = attempt
    BY <1>8 DEF CallFails, Unrecognized, AttemptFails
  <2>3. \/ pc' = "sleep" /\ outcome' = NoOutcome
        \/ ~(attempt < Budget) /\ outcome' = Raised("failure") /\ pc' = "ended"
    BY <1>8, <1>2 DEF CallFails, Unrecognized, AttemptFails
  <2>4. "validation" # "failure"
    OBVIOUS
  <2> QED BY <1>0, <1>1, <2>1, <2>2, <2>3, <2>4, Outcomes
<1>10. CASE CallSucceeds
  BY <1>10, <1>1, <1>2, Outcomes DEF CallSucceeds
<1>11. CASE Slept
  BY <1>11, <1>1, Outcomes DEF Slept
<1>12. CASE SleepRaises
  <2>1. "overflow" # "failure" /\ "overflow" # "validation"
    OBVIOUS
  <2> QED BY <1>12, <1>1, <1>2, <2>1, Outcomes DEF SleepRaises
<1>13. CASE Choose
  <2>1. outcome' # Raised("failure") /\ outcome' # Raised("validation") /\ pc' = "ended"
    BY <1>13, ChooseEnds, Outcomes
  <2> QED BY <2>1
<1>14. CASE Again
  BY <1>14, Outcomes DEF Again
<1> QED BY <1>3, <1>4, <1>5, <1>6, <1>7, <1>8, <1>10, <1>11, <1>12, <1>13, <1>14
        DEF Next, Step, Attempt

THEOREM InvariantHolds == Spec => []IInv
<1>1. IInv /\ [Next]_vars => IInv'
  <2>1. CASE Next
    BY <2>1, StepKeepsTypeOK, StepKeepsProgress, StepKeepsEnds DEF IInv
  <2>2. CASE UNCHANGED vars
    BY <2>2 DEF vars, IInv, TypeOK, Progress, Ends, Budget
  <2> QED BY <2>1, <2>2
<1> QED BY InitEstablishesIInv, <1>1, PTL DEF Spec

(***************************************************************************)
(* Induction on numbers up to a bound, for a property given as a set.      *)
(* The least element of a set of numbers is the one whose initial segment  *)
(* is least among finite sets.                                             *)
(***************************************************************************)
LEMMA Least ==
  ASSUME NEW n \in Nat, NEW T \in SUBSET (0 .. n), T # {}
  PROVE  \E m \in T : \A k \in T : m <= k
<1> DEFINE S == 0 .. n
           Below == {0 .. k : k \in T}
<1>1. Below \subseteq FiniteSubsetsOf(S) /\ Below # {}
  <2>1. \A k \in T : 0 .. k \subseteq S
    OBVIOUS
  <2>2. \A k \in T : IsFiniteSet(0 .. k)
    BY <2>1, FS_Interval, FS_Subset
  <2> QED BY <2>1, <2>2 DEF FiniteSubsetsOf
<1>2. PICK b \in Below : \A c \in Below : <<c, b>> \notin StrictSubsetOrdering(S)
  BY <1>1, FS_StrictSubsetOrderingWellFounded, WFMin
<1>3. PICK m \in T : b = 0 .. m
  OBVIOUS
<1>4. ASSUME NEW k \in T, k < m PROVE FALSE
  <2>1. <<0 .. k, 0 .. m>> \notin StrictSubsetOrdering(S)
    BY <1>2, <1>3
  <2>2. m \in 0 .. m /\ m \notin 0 .. k
    BY <1>4
  <2>3. 0 .. k \subseteq 0 .. m /\ 0 .. k # 0 .. m /\ 0 .. m \subseteq S
    BY <1>4, <2>2
  <2> QED BY <2>1, <2>3 DEF StrictSubsetOrdering
<1> QED BY <1>4

LEMMA Induction ==
  ASSUME NEW n \in Nat, NEW T, 0 \in T, \A k \in 0 .. n : k < n /\ k \in T => k + 1 \in T
  PROVE  n \in T
<1> DEFINE Missing == {k \in 0 .. n : k \notin T}
<1>1. SUFFICES ASSUME n \notin T PROVE FALSE
  OBVIOUS
<1>2. Missing # {} /\ Missing \in SUBSET (0 .. n)
  <2>1. n \in Missing
    BY <1>1
  <2> QED BY <2>1
<1>3. PICK m \in Missing : \A k \in Missing : m <= k
  BY <1>2, Least
<1>4. m # 0 /\ m - 1 \in 0 .. n /\ m - 1 \notin Missing
  BY <1>3
<1> QED BY <1>3, <1>4

(***************************************************************************)
(* RowsAt: a list built in a loop                                          *)
(***************************************************************************)
KeptStep(rs, places, kept, n) ==
    IF n = 0 THEN <<>>
    ELSE IF n \in places THEN Append(kept[n - 1], rs[n]) ELSE kept[n - 1]

(* The function that RowsAt defines by recursion exists. *)
LEMMA KeptExists ==
  ASSUME NEW rs, Len(rs) \in Nat, NEW places
  PROVE  \E kept : kept = [n \in 0 .. Len(rs) |-> KeptStep(rs, places, kept, n)]
<1> DEFINE T == {k \in Nat : \E f : f = [n \in 0 .. k |-> KeptStep(rs, places, f, n)]}
<1>1. 0 \in T
  <2> DEFINE f == [n \in 0 .. 0 |-> <<>>]
  <2>1. f = [n \in 0 .. 0 |-> KeptStep(rs, places, f, n)]
    BY DEF KeptStep
  <2> QED BY <2>1
<1>2. ASSUME NEW k \in Nat, k \in T PROVE k + 1 \in T
  <2>1. PICK f : f = [n \in 0 .. k |-> KeptStep(rs, places, f, n)]
    BY <1>2
  <2> DEFINE g == [n \in 0 .. k + 1 |-> IF n = k + 1 THEN KeptStep(rs, places, f, n) ELSE f[n]]
  <2>2. ASSUME NEW n \in 0 .. k + 1 PROVE g[n] = KeptStep(rs, places, g, n)
    <3>1. n # 0 => g[n - 1] = f[n - 1]
      OBVIOUS
    <3>2. KeptStep(rs, places, g, n) = KeptStep(rs, places, f, n)
      BY <3>1 DEF KeptStep
    <3>3. n # k + 1 => f[n] = KeptStep(rs, places, f, n)
      BY <2>1
    <3> QED BY <3>2, <3>3
  <2>3. g = [n \in 0 .. k + 1 |-> KeptStep(rs, places, g, n)]
    BY <2>2
  <2> HIDE DEF g
  <2> QED BY <2>3
<1> HIDE DEF T
<1>3. Len(rs) \in T
  BY <1>1, <1>2, Induction
<1> QED BY <1>3 DEF T

LEMMA RowsAtStep ==
  ASSUME NEW rs, Len(rs) \in Nat, NEW places
  PROVE  \E kept : /\ kept = [n \in 0 .. Len(rs) |-> KeptStep(rs, places, kept, n)]
                   /\ RowsAt(rs, places) = kept[Len(rs)]
<1> DEFINE f == CHOOSE kept : kept = [n \in 0 .. Len(rs) |-> KeptStep(rs, places, kept, n)]
<1>1. f = [n \in 0 .. Len(rs) |-> KeptStep(rs, places, f, n)]
  BY KeptExists
<1>2. RowsAt(rs, places) = f[Len(rs)]
  BY DEF RowsAt, KeptStep
<1> QED BY <1>1, <1>2

(* How many of the places are not behind i: where the row at i comes to be *)
Place(places, i) == Cardinality(places \cap 1 .. i)

LEMMA PlaceStep ==
  ASSUME NEW places, NEW i \in Nat
  PROVE  /\ Place(places, i) \in Nat /\ Place(places, 0) = 0
         /\ Place(places, i + 1) = IF i + 1 \in places THEN Place(places, i) + 1 ELSE Place(places, i)
<1>1. IsFiniteSet(1 .. i) /\ IsFiniteSet(places \cap 1 .. i)
  <2>1. IsFiniteSet(1 .. i)
    BY FS_Interval
  <2> QED BY <2>1, FS_Intersection
<1>2. Place(places, i) \in Nat
  BY <1>1, FS_CardinalityType DEF Place
<1>3. places \cap 1 .. 0 = {}
  OBVIOUS
<1>4. CASE i + 1 \in places
  <2>1. places \cap 1 .. (i + 1) = (places \cap 1 .. i) \cup {i + 1}
    BY <1>4
  <2>2. i + 1 \notin places \cap 1 .. i
    OBVIOUS
  <2>3. Cardinality((places \cap 1 .. i) \cup {i + 1}) = Cardinality(places \cap 1 .. i) + 1
    BY <1>1, <2>2, FS_AddElement
  <2> QED BY <1>2, <1>3, <1>4, <2>1, <2>3, FS_EmptySet DEF Place
<1>5. CASE i + 1 \notin places
  <2>1. places \cap 1 .. (i + 1) = places \cap 1 .. i
    BY <1>5
  <2> QED BY <1>2, <1>3, <1>5, <2>1, FS_EmptySet DEF Place
<1> QED BY <1>4, <1>5

(* Rows keep their order: Place grows, and strictly at a place.            *)
LEMMA PlaceGrows ==
  ASSUME NEW places, NEW i \in Nat, NEW j \in Nat, i <= j
  PROVE  /\ Place(places, i) <= Place(places, j)
         /\ i < j /\ j \in places => Place(places, i) < Place(places, j)
<1>1. ASSUME NEW k \in Nat, i <= k PROVE Place(places, i) <= Place(places, k)
  <2>1. places \cap 1 .. i \in SUBSET (places \cap 1 .. k)
    BY <1>1
  <2>2. IsFiniteSet(places \cap 1 .. k)
    <3>1. IsFiniteSet(1 .. k)
      BY FS_Interval
    <3> QED BY <3>1, FS_Intersection
  <2> QED BY <2>1, <2>2, FS_Subset DEF Place
<1>2. ASSUME i < j, j \in places PROVE Place(places, i) < Place(places, j)
  <2>1. j - 1 \in Nat /\ i <= j - 1 /\ (j - 1) + 1 = j
    BY <1>2
  <2>2. Place(places, j) = Place(places, j - 1) + 1
    BY <1>2, <2>1, PlaceStep
  <2>3. Place(places, i) <= Place(places, j - 1) /\ Place(places, i) \in Nat /\ Place(places, j - 1) \in Nat
    BY <1>1, <2>1, PlaceStep
  <2> QED BY <2>2, <2>3
<1> QED BY <1>1, <1>2

(* out is the rows at the places up to n: all of them, in their order.     *)
Selects(out, rs, places, n) ==
    /\ Len(out) = Place(places, n)
    /\ \A i \in places \cap 1 .. n : Place(places, i) \in 1 .. Len(out) /\ out[Place(places, i)] = rs[i]
    /\ \A k \in 1 .. Len(out) : \E i \in places \cap 1 .. n : k = Place(places, i)

LEMMA AppendSelects ==
  ASSUME NEW R, NEW rs \in Seq(R), NEW places, NEW n \in Nat, n < Len(rs),
         NEW out \in Seq(R), Selects(out, rs, places, n), n + 1 \in places
  PROVE  Append(out, rs[n + 1]) \in Seq(R) /\ Selects(Append(out, rs[n + 1]), rs, places, n + 1)
<1> DEFINE row == rs[n + 1]
           longer == Append(out, row)
           m == n + 1
<1>1. row \in R
  OBVIOUS
<1>2. /\ longer \in Seq(R) /\ Len(longer) = Len(out) + 1 /\ Len(out) \in Nat
      /\ longer[Len(out) + 1] = row /\ \A k \in 1 .. Len(out) : longer[k] = out[k]
  BY <1>1
<1>3. Place(places, m) = Len(out) + 1
  BY PlaceStep DEF Selects
<1>4. ASSUME NEW i \in places \cap 1 .. m
      PROVE  Place(places, i) \in 1 .. Len(longer) /\ longer[Place(places, i)] = rs[i]
  <2>1. CASE i = m
    BY <1>2, <1>3, <2>1
  <2>2. CASE i # m
    <3>1. i \in places \cap 1 .. n
      BY <2>2
    <3> QED BY <1>2, <3>1 DEF Selects
  <2> QED BY <2>1, <2>2
<1>5. ASSUME NEW k \in 1 .. Len(longer)
      PROVE  \E i \in places \cap 1 .. m : k = Place(places, i)
  <2>1. CASE k = Len(out) + 1
    <3>1. m \in places \cap 1 .. m
      OBVIOUS
    <3> QED BY <1>3, <2>1, <3>1
  <2>2. CASE k # Len(out) + 1
    <3>1. k \in 1 .. Len(out)
      BY <1>2, <2>2
    <3>2. PICK i \in places \cap 1 .. n : k = Place(places, i)
      BY <3>1 DEF Selects
    <3> QED BY <3>2
  <2> QED BY <2>1, <2>2
<1> QED BY <1>2, <1>3, <1>4, <1>5 DEF Selects

LEMMA SkipSelects ==
  ASSUME NEW rs, NEW places, NEW n \in Nat, NEW out,
         Selects(out, rs, places, n), n + 1 \notin places
  PROVE  Selects(out, rs, places, n + 1)
<1>1. places \cap 1 .. (n + 1) = places \cap 1 .. n
  OBVIOUS
<1> QED BY <1>1, PlaceStep DEF Selects

LEMMA RowsAtSelects ==
  ASSUME NEW R, NEW rs \in Seq(R), NEW places
  PROVE  RowsAt(rs, places) \in Seq(R) /\ Selects(RowsAt(rs, places), rs, places, Len(rs))
<1>0. Len(rs) \in Nat
  OBVIOUS
<1>1. PICK kept : /\ kept = [n \in 0 .. Len(rs) |-> KeptStep(rs, places, kept, n)]
                  /\ RowsAt(rs, places) = kept[Len(rs)]
  BY <1>0, RowsAtStep
<1> DEFINE T == {n \in 0 .. Len(rs) : kept[n] \in Seq(R) /\ Selects(kept[n], rs, places, n)}
<1>2. 0 \in T
  <2>1. kept[0] = <<>>
    BY <1>0, <1>1 DEF KeptStep
  <2>2. Place(places, 0) = 0
    BY PlaceStep
  <2>3. kept[0] \in Seq(R) /\ Len(kept[0]) = 0
    BY <2>1
  <2>4. Selects(kept[0], rs, places, 0)
    BY <2>2, <2>3 DEF Selects
  <2> QED BY <1>0, <2>3, <2>4
<1>3. ASSUME NEW n \in 0 .. Len(rs), n < Len(rs), n \in T PROVE n + 1 \in T
  <2>1. n + 1 \in 0 .. Len(rs) /\ n + 1 # 0 /\ (n + 1) - 1 = n
    BY <1>0, <1>3
  <2>2. kept[n + 1] = IF n + 1 \in places THEN Append(kept[n], rs[n + 1]) ELSE kept[n]
    BY <1>1, <2>1 DEF KeptStep
  <2>3. kept[n] \in Seq(R) /\ Selects(kept[n], rs, places, n)
    BY <1>3
  <2>4. kept[n + 1] \in Seq(R) /\ Selects(kept[n + 1], rs, places, n + 1)
    <3>0. n \in Nat
      BY <1>0, <1>3
    <3>1. CASE n + 1 \in places
      BY <1>3, <2>2, <2>3, <3>0, <3>1, AppendSelects
    <3>2. CASE n + 1 \notin places
      BY <2>2, <2>3, <3>0, <3>2, SkipSelects
    <3> QED BY <3>1, <3>2
  <2> QED BY <2>1, <2>4
<1> HIDE DEF T
<1>4. Len(rs) \in T
  BY <1>0, <1>2, <1>3, Induction
<1> QED BY <1>1, <1>4 DEF T

(* Selecting at A and then at B is selecting at W, if W is what of A comes *)
(* to a place of B.                                                        *)
LEMMA SelectingTwice ==
  ASSUME NEW R, NEW rs \in Seq(R), NEW A \in SUBSET (1 .. Len(rs)), NEW W \in SUBSET A,
         NEW B \in SUBSET (1 .. Len(RowsAt(rs, A))),
         \A i \in A : i \in W <=> Place(A, i) \in B,
         NEW j \in 0 .. Len(rs)
  PROVE  Place(B, Place(A, j)) = Place(W, j)
<1> DEFINE mid == RowsAt(rs, A)
           From == W \cap 1 .. j
           To == B \cap 1 .. Place(A, j)
           f == [i \in From |-> Place(A, i)]
<1>0. Len(rs) \in Nat /\ j \in Nat /\ \A i \in Nat : Place(A, i) \in Nat
  BY PlaceStep
<1>1. mid \in Seq(R) /\ Selects(mid, rs, A, Len(rs))
  BY RowsAtSelects
<1>2. A \cap 1 .. Len(rs) = A /\ \A i \in A : i \in Nat \ {0}
  <2>1. \A i \in 1 .. Len(rs) : i \in Nat \ {0}
    BY <1>0
  <2> QED BY <2>1
<1>3. f \in [From -> To]
  <2> SUFFICES ASSUME NEW i \in From PROVE Place(A, i) \in To
    OBVIOUS
  <2>1. i \in A /\ i \in Nat /\ i <= j
    BY <1>0, <1>2
  <2>2. Place(A, i) <= Place(A, j)
    BY <1>0, <2>1, PlaceGrows
  <2>3. Place(A, i) \in B
    BY <2>1
  <2>4. Place(A, i) \in Nat \ {0}
    BY <1>0, <1>1, <1>2, <2>1 DEF Selects
  <2> QED BY <1>0, <2>2, <2>3, <2>4
<1>4. ASSUME NEW i \in From, NEW k \in From, f[i] = f[k] PROVE i = k
  <2>1. i \in A /\ k \in A /\ i \in Nat /\ k \in Nat /\ Place(A, i) = Place(A, k)
    BY <1>2, <1>4
  <2>2. i < k => Place(A, i) < Place(A, k)
    BY <2>1, PlaceGrows
  <2>3. k < i => Place(A, k) < Place(A, i)
    BY <2>1, PlaceGrows
  <2>4. Place(A, i) \in Nat /\ ~(Place(A, i) < Place(A, i))
    BY <1>0, <2>1
  <2> QED BY <2>1, <2>2, <2>3, <2>4
<1>5. ASSUME NEW k \in To PROVE \E i \in From : f[i] = k
  <2>1. k \in B /\ k \in 1 .. Len(mid) /\ k <= Place(A, j)
    BY <1>0
  <2>2. PICK i \in A : k = Place(A, i)
    BY <1>1, <1>2, <2>1 DEF Selects
  <2>3. i \in W /\ i \in Nat \ {0}
    BY <1>2, <2>1, <2>2
  <2>4. i <= j
    <3>1. j < i => Place(A, j) < Place(A, i)
      BY <1>0, <2>3, PlaceGrows
    <3> QED BY <1>0, <2>1, <2>2, <2>3, <3>1
  <2>5. i \in From
    BY <1>0, <2>3, <2>4
  <2> QED BY <2>2, <2>5
<1> HIDE DEF f, From, To
<1>6. f \in Bijection(From, To)
  BY <1>3, <1>4, <1>5, Fun_IsBij
<1>7. IsFiniteSet(From)
  <2>1. IsFiniteSet(1 .. j)
    BY <1>0, FS_Interval
  <2> QED BY <2>1, FS_Intersection DEF From
<1>8. Cardinality(To) = Cardinality(From)
  BY <1>6, <1>7, FS_Bijection DEF ExistsBijection
<1> QED BY <1>8 DEF Place, From, To

(***************************************************************************)
(* The list                                                                *)
(***************************************************************************)
(* What normalization changes does not make a row match or cease to match. *)
LEMMA NormalizedMatches ==
  ASSUME NEW row \in Row, NEW query \in Query, MatchesFilters(row, query)
  PROVE  Normalized(row) \in Row /\ MatchesFilters(Normalized(row), query)
<1>1. Normalized(row) \in Row
  BY DEF Normalized, Row, ClusterOf
<1>2. ClusterOf(Normalized(row)) = ClusterOf(row)
  BY DEF Normalized, ClusterOf, Default
<1>3. query.metadata # NoFilter => Normalized(row).metadata = query.metadata
  BY DEF Normalized, MatchesFilters, Query, NoFilter
<1> QED BY <1>1, <1>2, <1>3 DEF MatchesFilters

Filtered(rs, query) == {i \in DOMAIN rs : MatchesFilters(rs[i], query)}

Wanted(rs, query, normalize) ==
    {i \in DOMAIN rs : /\ MatchesFilters(rs[i], query)
                       /\ normalize => rs[i].endpoint = "valid"}

Lists(out, rs, query, normalize) ==
    LET wanted == Wanted(rs, query, normalize)
    IN  /\ Len(out) = Cardinality(wanted)
        /\ \A i \in wanted :
              out[Place(wanted, i)] = IF normalize THEN Normalized(rs[i]) ELSE rs[i]
        /\ \A k \in DOMAIN out : MatchesFilters(out[k], query)

LEMMA FilterLists ==
  ASSUME NEW rs \in Seq(Row), NEW query \in Query
  PROVE  /\ FilterInstances(rs, query) \in Seq(Row)
         /\ Selects(FilterInstances(rs, query), rs, Filtered(rs, query), Len(rs))
         /\ \A k \in 1 .. Len(FilterInstances(rs, query)) :
               MatchesFilters(FilterInstances(rs, query)[k], query)
         /\ Filtered(rs, query) \cap 1 .. Len(rs) = Filtered(rs, query)
<1> DEFINE A == Filtered(rs, query)
           mid == FilterInstances(rs, query)
<1>1. mid = RowsAt(rs, A)
  BY DEF FilterInstances, Filtered
<1>2. mid \in Seq(Row) /\ Selects(mid, rs, A, Len(rs))
  BY <1>1, RowsAtSelects
<1>3. A \cap 1 .. Len(rs) = A
  BY DEF Filtered
<1>4. ASSUME NEW k \in 1 .. Len(mid) PROVE MatchesFilters(mid[k], query)
  <2>1. PICK i \in A : k = Place(A, i)
    BY <1>2, <1>3 DEF Selects
  <2>2. mid[k] = rs[i]
    BY <1>2, <1>3, <2>1 DEF Selects
  <2>3. MatchesFilters(rs[i], query)
    BY <2>1 DEF Filtered
  <2> QED BY <2>2, <2>3
<1> QED BY <1>2, <1>3, <1>4

LEMMA PlainLists ==
  ASSUME NEW rs \in Seq(Row), NEW query \in Query
  PROVE  /\ ListInstances(rs, query, FALSE) \in Seq(Row)
         /\ Lists(ListInstances(rs, query, FALSE), rs, query, FALSE)
<1> DEFINE A == Filtered(rs, query)
           mid == FilterInstances(rs, query)
<1>1. ListInstances(rs, query, FALSE) = mid
  BY DEF ListInstances
<1>2. Wanted(rs, query, FALSE) = A
  BY DEF Wanted, Filtered
<1>3. Len(mid) = Cardinality(A)
  BY FilterLists DEF Selects, Place
<1>4. \A i \in A : mid[Place(A, i)] = rs[i]
  BY FilterLists DEF Selects
<1>5. mid \in Seq(Row) /\ \A k \in DOMAIN mid : MatchesFilters(mid[k], query)
  <2>1. mid \in Seq(Row) /\ \A k \in 1 .. Len(mid) : MatchesFilters(mid[k], query)
    BY FilterLists
  <2>2. DOMAIN mid = 1 .. Len(mid)
    BY <2>1
  <2> QED BY <2>1, <2>2
<1> QED BY <1>1, <1>2, <1>3, <1>4, <1>5 DEF Lists

LEMMA NormalizedLists ==
  ASSUME NEW rs \in Seq(Row), NEW query \in Query
  PROVE  /\ ListInstances(rs, query, TRUE) \in Seq(Row)
         /\ Lists(ListInstances(rs, query, TRUE), rs, query, TRUE)
<1> DEFINE A == Filtered(rs, query)
           W == Wanted(rs, query, TRUE)
           mid == FilterInstances(rs, query)
           B == {k \in DOMAIN mid : Normalizable(mid[k])}
           kept == RowsAt(mid, B)
           out == [k \in DOMAIN kept |-> Normalized(kept[k])]
<1>1. ListInstances(rs, query, TRUE) = out
  BY DEF ListInstances, NormalizeInstances
<1>2. /\ mid \in Seq(Row) /\ Selects(mid, rs, A, Len(rs))
      /\ \A k \in 1 .. Len(mid) : MatchesFilters(mid[k], query)
      /\ A \cap 1 .. Len(rs) = A /\ A \in SUBSET (1 .. Len(rs))
      /\ mid = RowsAt(rs, A)
  BY FilterLists DEF FilterInstances, Filtered
<1>3. kept \in Seq(Row) /\ Selects(kept, mid, B, Len(mid))
  BY <1>2, RowsAtSelects
<1>4. B \in SUBSET (1 .. Len(mid)) /\ B \cap 1 .. Len(mid) = B
  BY <1>2
<1>5. W \in SUBSET A /\ W \cap 1 .. Len(rs) = W
  BY <1>2 DEF Wanted, Filtered
<1>6. \A i \in A : Place(A, i) \in 1 .. Len(mid) /\ mid[Place(A, i)] = rs[i]
  BY <1>2 DEF Selects
<1>7. \A i \in A : i \in W <=> Place(A, i) \in B
  BY <1>2, <1>6 DEF Wanted, Filtered, Normalizable
<1> HIDE DEF B
<1>8. ASSUME NEW j \in 0 .. Len(rs) PROVE Place(B, Place(A, j)) = Place(W, j)
  <2> HIDE DEF A, W
  <2>1. B \in SUBSET (1 .. Len(RowsAt(rs, A)))
    BY <1>2, <1>4
  <2> QED BY <1>2, <1>5, <1>7, <2>1, SelectingTwice
<1>9. Len(kept) = Cardinality(W)
  <2>1. Len(rs) \in 0 .. Len(rs)
    OBVIOUS
  <2>2. Len(kept) = Place(B, Len(mid)) /\ Len(mid) = Place(A, Len(rs))
    BY <1>2, <1>3 DEF Selects
  <2>3. Place(W, Len(rs)) = Cardinality(W)
    BY <1>5 DEF Place
  <2> QED BY <1>8, <2>1, <2>2, <2>3
<1>10. ASSUME NEW i \in W
       PROVE  Place(W, i) \in DOMAIN kept /\ kept[Place(W, i)] = rs[i]
  <2>1. i \in A /\ i \in 0 .. Len(rs) /\ Place(A, i) \in B
    <3>1. i \in W /\ i \in A /\ i \in 1 .. Len(rs)
      BY <1>2, <1>5
    <3>2. Place(A, i) \in B
      BY <1>7, <3>1
    <3>3. \A k \in 1 .. Len(rs) : k \in 0 .. Len(rs)
      OBVIOUS
    <3> QED BY <3>1, <3>2, <3>3
  <2>2. /\ Place(B, Place(A, i)) \in 1 .. Len(kept)
        /\ kept[Place(B, Place(A, i))] = mid[Place(A, i)]
    BY <1>3, <1>4, <2>1 DEF Selects
  <2>3. DOMAIN kept = 1 .. Len(kept)
    BY <1>3
  <2> QED BY <1>6, <1>8, <2>1, <2>2, <2>3
<1>11. ASSUME NEW k \in DOMAIN kept PROVE kept[k] \in Row /\ MatchesFilters(kept[k], query)
  <2>1. k \in 1 .. Len(kept)
    BY <1>3
  <2>2. PICK m \in B : k = Place(B, m)
    BY <1>3, <1>4, <2>1 DEF Selects
  <2>3. kept[k] = mid[m] /\ m \in 1 .. Len(mid)
    BY <1>3, <1>4, <2>2 DEF Selects
  <2> QED BY <1>2, <2>3
<1> HIDE DEF kept
<1>12. \A k \in DOMAIN kept : Normalized(kept[k]) \in Row /\ MatchesFilters(Normalized(kept[k]), query)
  BY <1>11, NormalizedMatches
<1>13. DOMAIN kept = 1 .. Len(kept) /\ Len(kept) \in Nat
  BY <1>3
<1>14. out \in Seq(Row) /\ Len(out) = Len(kept) /\ DOMAIN out = DOMAIN kept
       /\ \A k \in DOMAIN kept : out[k] = Normalized(kept[k])
  BY <1>12, <1>13
<1> HIDE DEF out, W
<1>15. Lists(out, rs, query, TRUE)
  BY <1>9, <1>10, <1>12, <1>14 DEF Lists, W
<1> QED BY <1>1, <1>14, <1>15

(***************************************************************************)
(* The list of a read                                                      *)
(***************************************************************************)
Listed ==
    /\ answer \in Seq(Row)
    /\ pc \in {"idle", "client", "attempt", "sleep"} => answer = <<>> /\ rows = <<>>
    /\ request.operation # "config" => rows = ListInstances(answer, request.query, cfg.normalize)

LEMMA RequestQuery ==
  ASSUME NEW r \in Request, r.operation # "config"
  PROVE  r.query \in Query
<1>1. CASE r \in [operation : {"config"}, valid : BOOLEAN]
  BY <1>1
<1>2. CASE r \in [operation : {"list"}, valid : BOOLEAN, query : Query]
  BY <1>2
<1>3. CASE r \in [operation : {"one"}, valid : BOOLEAN, query : Query,
                  strategy : Strategies \cup {"unsupported"}]
  BY <1>3
<1> QED BY <1>1, <1>2, <1>3 DEF Request

LEMMA ListInstancesLists ==
  ASSUME NEW rs \in Seq(Row), NEW query \in Query, NEW normalize \in BOOLEAN
  PROVE  /\ ListInstances(rs, query, normalize) \in Seq(Row)
         /\ Lists(ListInstances(rs, query, normalize), rs, query, normalize)
<1>1. CASE normalize = TRUE
  BY <1>1, NormalizedLists
<1>2. CASE normalize = FALSE
  BY <1>2, PlainLists
<1> QED BY <1>1, <1>2

(* Without an answer there is nothing to list. *)
LEMMA NothingListed ==
  ASSUME NEW query \in Query, NEW normalize \in BOOLEAN
  PROVE  ListInstances(<<>>, query, normalize) = <<>>
<1> DEFINE out == ListInstances(<<>>, query, normalize)
<1>1. <<>> \in Seq(Row)
  OBVIOUS
<1>2. out \in Seq(Row) /\ Lists(out, <<>>, query, normalize)
  BY <1>1, ListInstancesLists
<1>3. Wanted(<<>>, query, normalize) = {}
  BY DEF Wanted
<1>4. Len(out) = 0
  BY <1>2, <1>3, FS_EmptySet DEF Lists
<1> QED BY <1>2, <1>4

LEMMA NormalizeType == cfg \in Configs => cfg.normalize \in BOOLEAN
  BY ReadsAssumption DEF Config

LEMMA AnswersType == Answers \subseteq Seq(Row)
<1> SUFFICES ASSUME NEW n \in 0 .. MaxRows, NEW a \in [1 .. n -> Rows] PROVE a \in Seq(Row)
  BY DEF Answers
<1>1. n \in Nat /\ a \in [1 .. n -> Row]
  BY ReadsAssumption
<1> QED BY <1>1

LEMMA StepKeepsListed ==
  ASSUME IInv, Listed, [Next]_vars
  PROVE  Listed'
<1>0. \A o : End(o) => pc' = "ended"
  BY DEF End
<1>1. CASE Begin
  <2>1. answer' = <<>> /\ rows' = <<>> /\ answer' \in Seq(Row)
    BY <1>1 DEF Begin, Listed
  <2>2. request' \in Request /\ cfg' \in Configs
    BY <1>1 DEF Begin, IInv, TypeOK
  <2>3. ASSUME request'.operation # "config"
        PROVE  rows' = ListInstances(answer', request'.query, cfg'.normalize)
    <3>1. request'.query \in Query
      BY <2>2, <2>3, RequestQuery
    <3>2. cfg'.normalize \in BOOLEAN
      BY <2>2, ReadsAssumption DEF Config
    <3> QED BY <2>1, <3>1, <3>2, NothingListed
  <2> QED BY <2>1, <2>3 DEF Listed
<1>2. CASE CallSucceeds
  <2>1. CASE request.operation = "config"
    BY <1>0, <1>2, <2>1 DEF CallSucceeds, Listed
  <2>2. CASE request.operation # "config"
    <3>1. answer' \in Seq(Row)
      BY <1>2, <2>2, AnswersType DEF CallSucceeds
    <3>2. UNCHANGED <<cfg, request>> /\ rows' = ListInstances(answer', request.query, cfg.normalize)
      BY <1>2, <2>2 DEF CallSucceeds
    <3>3. pc' \in {"choose", "ended"}
      BY <1>0, <1>2, <2>2 DEF CallSucceeds
    <3> QED BY <3>1, <3>2, <3>3 DEF Listed
  <2> QED BY <2>1, <2>2
<1>3. CASE Again
  BY <1>3 DEF Again, Listed, NoRequest
<1>4. CASE UNCHANGED vars
  BY <1>4 DEF vars, Listed
<1>5. ASSUME \/ WithoutClient \/ ClientFails \/ CheckSettings \/ InputRefused \/ CallFails
             \/ Unrecognized \/ Slept \/ SleepRaises \/ Choose
      PROVE  Listed'
  <2>1. UNCHANGED <<cfg, request, answer, rows>>
    BY <1>5 DEF WithoutClient, ClientFails, CheckSettings, InputRefused, CallFails, Unrecognized,
                Slept, SleepRaises, Choose
  <2>2. pc \in {"idle", "client", "attempt", "sleep"} \/ pc' = "ended"
    BY <1>0, <1>5 DEF WithoutClient, ClientFails, CheckSettings, InputRefused, CallFails,
                Unrecognized, Slept, SleepRaises, Choose
  <2> QED BY <2>1, <2>2 DEF Listed
<1> QED BY <1>1, <1>2, <1>3, <1>4, <1>5 DEF Next, Step, Attempt

LEMMA ListedHolds == Spec => []Listed
<1>1. Init => Listed
  <2>1. NoRequest.operation = "config"
    BY DEF NoRequest
  <2> QED BY <2>1 DEF Init, Listed
<1> QED BY <1>1, StepKeepsListed, InvariantHolds, PTL DEF Spec

(***************************************************************************)
(* The theorems                                                            *)
(***************************************************************************)

(* Reads: every variable keeps its type, whatever the settings and answers *)
(* are.                                                                    *)
THEOREM TypeCorrect == Spec => []TypeOK
<1>1. IInv => TypeOK
  BY DEF IInv
<1> QED BY InvariantHolds, <1>1, PTL

(* run_with_retry: a read costs NACOS_RETRY_TIMES calls at most and none   *)
(* for invalid input, and gives up with the error of the last attempt.     *)
THEOREM BudgetIsKept == Spec => []RetriesAreBounded
<1>1. IInv => RetriesAreBounded
  BY DEF IInv, Progress, Ends, RetriesAreBounded
<1> QED BY InvariantHolds, <1>1, PTL

(* naming.list_instances: the list is the rows of the last answer that     *)
(* match the query and can be normalized if they are to be, all of them,   *)
(* once, in their order, for answers of any length.                        *)
THEOREM ListIsComplete == Spec => []ListIsTheMatchingRows
<1>1. IInv /\ Listed => ListIsTheMatchingRows
  <2> DEFINE wanted == {i \in DOMAIN answer : /\ MatchesFilters(answer[i], request.query)
                                              /\ cfg.normalize => answer[i].endpoint = "valid"}
  <2> SUFFICES ASSUME IInv, Listed, request.operation # "config"
               PROVE  /\ Len(rows) = Cardinality(wanted)
                      /\ \A i \in wanted :
                            rows[Cardinality({j \in wanted : j <= i})] =
                              IF cfg.normalize THEN Normalized(answer[i]) ELSE answer[i]
                      /\ \A k \in DOMAIN rows : MatchesFilters(rows[k], request.query)
    BY DEF ListIsTheMatchingRows
  <2>1. answer \in Seq(Row) /\ request.query \in Query /\ cfg.normalize \in BOOLEAN
    BY RequestQuery, NormalizeType DEF IInv, TypeOK, Listed
  <2>2. Lists(rows, answer, request.query, cfg.normalize)
    BY <2>1, ListInstancesLists DEF Listed
  <2>3. wanted = Wanted(answer, request.query, cfg.normalize)
    BY DEF Wanted
  <2>4. ASSUME NEW i \in wanted PROVE {j \in wanted : j <= i} = wanted \cap 1 .. i
    <3>1. \A j \in wanted : j \in Nat \ {0}
      BY <2>1
    <3> QED BY <3>1
  <2> HIDE DEF wanted
  <2> QED BY <2>2, <2>3, <2>4 DEF Lists, Place
<1> QED BY <1>1, InvariantHolds, ListedHolds, PTL

(* discovery.select_instance: the instance is one of the list, and one     *)
(* without weight only if there is no other.                               *)
THEOREM ChoicesAreJustified == Spec => []ChoiceIsJustified
<1>1. IInv /\ Listed /\ request.operation = "one" => rows \in Seq(Row)
  <2> SUFFICES ASSUME IInv, Listed, request.operation = "one" PROVE rows \in Seq(Row)
    OBVIOUS
  <2>1. answer \in Seq(Row) /\ request.query \in Query /\ cfg.normalize \in BOOLEAN
    BY RequestQuery, NormalizeType DEF IInv, TypeOK, Listed
  <2> QED BY <2>1, ListInstancesLists DEF Listed
<1>2. ASSUME IInv, Listed, ChoiceIsJustified, [Next]_vars PROVE ChoiceIsJustified'
  <2>1. CASE Choose
    <3> SUFFICES ASSUME request.operation = "one", outcome'.ended = "returned"
                 PROVE  ChoiceIsJustified'
      BY <2>1 DEF Choose, ChoiceIsJustified
    <3>0. UNCHANGED <<rows, request>>
      BY <2>1 DEF Choose
    <3>1. rows \in Seq(Row)
      BY <1>1, <1>2
    <3>2. CASE outcome' = Returned("none") /\ rows = <<>>
      BY <3>0, <3>2 DEF Returned, ChoiceIsJustified
    <3>3. ASSUME NEW i \in Choices(rows, request.strategy), rows # <<>>,
                 outcome' = [ended |-> "returned", value |-> "row", row |-> rows[i]]
          PROVE  ChoiceIsJustified'
      <4>1. 1 \in DOMAIN rows /\ i \in DOMAIN rows
        BY <3>1, <3>3 DEF Choices
      <4>2. outcome'.value = "row" /\ outcome'.row = rows[i]
        BY <3>3
      <4>3. request.strategy = "first" => i = 1
        BY <3>3 DEF Choices
      <4>4. request.strategy = "weight" /\ rows[i].weight = "zero" =>
              \A k \in DOMAIN rows : rows[k].weight = "zero"
        BY <3>3 DEF Choices, Weighs
      <4> QED BY <3>0, <4>1, <4>2, <4>3, <4>4 DEF ChoiceIsJustified
    <3>4. \/ outcome' = Returned("none") /\ rows = <<>>
          \/ /\ rows # <<>>
             /\ \E i \in Choices(rows, request.strategy) :
                   outcome' = [ended |-> "returned", value |-> "row", row |-> rows[i]]
      BY <2>1, Outcomes DEF Choose, End
    <3> QED BY <3>2, <3>3, <3>4
  <2>2. CASE UNCHANGED vars
    BY <1>2, <2>2 DEF vars, ChoiceIsJustified
  <2>3. CASE Again
    BY <2>3 DEF Again, ChoiceIsJustified, NoRequest
  <2>4. CASE Begin
    <3>1. outcome = NoOutcome
      BY <1>2, <2>4 DEF Begin, IInv, Ends
    <3>2. request'.operation = "config" \/ outcome' = NoOutcome
      BY <2>4, <3>1 DEF Begin
    <3> QED BY <3>2, Outcomes DEF ChoiceIsJustified
  <2>5. ASSUME Step, ~Choose PROVE ChoiceIsJustified'
    <3>1. UNCHANGED request
      BY <2>5 DEF Step, Attempt, WithoutClient, ClientFails, CheckSettings, InputRefused,
                  CallFails, Unrecognized, CallSucceeds, Slept, SleepRaises
    <3>2. outcome = NoOutcome
      BY <1>2, <2>5 DEF Step, Attempt, WithoutClient, ClientFails, CheckSettings, InputRefused,
                  CallFails, Unrecognized, CallSucceeds, Slept, SleepRaises, IInv, Ends
    <3>3. request.operation = "one" => outcome' = NoOutcome \/ \E e : outcome' = Raised(e)
      BY <2>5, <3>2 DEF Step, Attempt, WithoutClient, ClientFails, CheckSettings, InputRefused,
                  CallFails, Unrecognized, CallSucceeds, Slept, SleepRaises, AttemptFails, End
    <3> QED BY <3>1, <3>3, Outcomes DEF ChoiceIsJustified
  <2> QED BY <1>2, <2>1, <2>2, <2>3, <2>4, <2>5 DEF Next
<1>3. Init => ChoiceIsJustified
  BY DEF Init, ChoiceIsJustified, NoRequest
<1> QED BY <1>2, <1>3, InvariantHolds, ListedHolds, PTL DEF Spec
=============================================================================
