------------------------- MODULE HeartbeatLogProofs -------------------------
(***************************************************************************)
(* Proofs about HeartbeatLog for every set of senders, instances and error *)
(* types, every interval and every bound.                                  *)
(*                                                                         *)
(* WarningsAreSpaced is inductive once the variables have their types: the *)
(* failure state that Due compares with is the end of the streak that the  *)
(* new warning is appended to.                                             *)
(***************************************************************************)
EXTENDS HeartbeatLog, TLAPS

Beats == [identity : Identities \cup {None}, error : ErrorTypes \cup {None}, observed : Nat]

Typed ==
    /\ now \in Nat
    /\ failure_states \in [Identities -> Warnings \cup {None}]
    /\ streak \in [Identities -> Seq(Warnings)]
    /\ pc \in [Senders -> {"idle", "log"}]
    /\ beat \in [Senders -> Beats]

IInv == Typed /\ WarningsAreSpaced

(* One instance's part of WarningsAreSpaced *)
Spaced(q) ==
    \A k \in 2 .. Len(q) : q[k].error = q[k - 1].error => q[k].at >= q[k - 1].at + Interval

Last(q, state) == state = IF q = <<>> THEN None ELSE q[Len(q)]

(* A warning that is due keeps the streak spaced and ends it. *)
LEMMA DueKeepsSpaced ==
  ASSUME NEW q \in Seq(Warnings), NEW previous, NEW b \in Beats, b.error \in ErrorTypes,
         Spaced(q), Last(q, previous), Due(b, previous)
  PROVE  /\ Append(q, Warning(b)) \in Seq(Warnings)
         /\ Spaced(Append(q, Warning(b)))
         /\ Last(Append(q, Warning(b)), Warning(b))
<1> DEFINE w == Warning(b)
           r == Append(q, w)
<1>1. w \in Warnings /\ w.error = b.error /\ w.at = b.observed
  BY DEF Warning, Warnings, Beats
<1>2. /\ r \in Seq(Warnings) /\ Len(r) = Len(q) + 1 /\ Len(q) \in Nat
      /\ r[Len(r)] = w /\ \A k \in 1 .. Len(q) : r[k] = q[k]
  BY <1>1
<1>3. ASSUME NEW k \in 2 .. Len(r), r[k].error = r[k - 1].error
      PROVE  r[k].at >= r[k - 1].at + Interval
  <2>1. CASE k \in 2 .. Len(q)
    <3>1. r[k] = q[k] /\ r[k - 1] = q[k - 1]
      BY <1>2, <2>1
    <3> QED BY <1>3, <2>1, <3>1 DEF Spaced
  <2>2. CASE k = Len(r)
    <3>1. Len(q) >= 1 /\ r[k] = w /\ r[k - 1] = q[Len(q)]
      BY <1>2, <1>3, <2>2
    <3>2. previous = q[Len(q)] /\ previous \in Warnings
      BY <3>1 DEF Last
    <3>3. previous # None
      BY <3>2, HeartbeatLogAssumption
    <3> QED BY <1>1, <1>3, <3>1, <3>2, <3>3 DEF Due
  <2> QED BY <1>2, <1>3, <2>1, <2>2
<1>4. Last(r, w)
  BY <1>2 DEF Last
<1> QED BY <1>2, <1>3, <1>4 DEF Spaced

LEMMA InitInv == Init => IInv
  BY HeartbeatLogAssumption DEF Init, IInv, Typed, WarningsAreSpaced, NoBeat, Beats

LEMMA LogFailureKeepsInv ==
  ASSUME IInv, NEW b \in Beats, b.error # None, LogFailure(b)
  PROVE  /\ failure_states' \in [Identities -> Warnings \cup {None}]
         /\ streak' \in [Identities -> Seq(Warnings)]
         /\ WarningsAreSpaced'
<1> DEFINE i == b.identity
<1>1. CASE ~(i # None /\ Due(b, failure_states[i]))
  BY <1>1 DEF LogFailure, IInv, Typed, WarningsAreSpaced
<1>2. CASE i # None /\ Due(b, failure_states[i])
  <2>1. i \in Identities /\ b.error \in ErrorTypes
    BY <1>2 DEF Beats
  <2>2. /\ streak[i] \in Seq(Warnings) /\ Spaced(streak[i]) /\ Last(streak[i], failure_states[i])
        /\ \A j \in Identities : Spaced(streak[j]) /\ Last(streak[j], failure_states[j])
    BY <2>1 DEF IInv, Typed, WarningsAreSpaced, Spaced, Last
  <2>3. /\ Append(streak[i], Warning(b)) \in Seq(Warnings)
        /\ Spaced(Append(streak[i], Warning(b)))
        /\ Last(Append(streak[i], Warning(b)), Warning(b))
    BY <1>2, <2>1, <2>2, DueKeepsSpaced
  <2>4. /\ failure_states' = [failure_states EXCEPT ![i] = Warning(b)]
        /\ streak' = [streak EXCEPT ![i] = Append(streak[i], Warning(b))]
    BY <1>2 DEF LogFailure, Remembered
  <2>5. \A j \in Identities : Spaced(streak'[j]) /\ Last(streak'[j], failure_states'[j])
    BY <2>1, <2>2, <2>3, <2>4 DEF IInv, Typed
  <2>6. Warning(b) \in Warnings
    BY <2>1 DEF Warning, Warnings, Beats
  <2>7. WarningsAreSpaced'
    BY <2>5 DEF WarningsAreSpaced, Spaced, Last
  <2> QED BY <2>1, <2>3, <2>4, <2>6, <2>7 DEF IInv, Typed
<1> QED BY <1>1, <1>2

LEMMA LogSuccessKeepsInv ==
  ASSUME IInv, NEW b \in Beats, LogSuccess(b)
  PROVE  /\ failure_states' \in [Identities -> Warnings \cup {None}]
         /\ streak' \in [Identities -> Seq(Warnings)]
         /\ WarningsAreSpaced'
<1>1. CASE b.identity = None
  BY <1>1 DEF LogSuccess, IInv, Typed, WarningsAreSpaced
<1>2. CASE b.identity # None
  <2>1. /\ failure_states' = [failure_states EXCEPT ![b.identity] = None]
        /\ streak' = [streak EXCEPT ![b.identity] = <<>>]
    BY <1>2 DEF LogSuccess
  <2>2. <<>> \in Seq(Warnings) /\ Spaced(<<>>) /\ Last(<<>>, None)
    BY DEF Spaced, Last
  <2>3. \A j \in Identities : Spaced(streak'[j]) /\ Last(streak'[j], failure_states'[j])
    BY <2>1, <2>2 DEF IInv, Typed, WarningsAreSpaced, Spaced, Last
  <2>4. WarningsAreSpaced'
    BY <2>3 DEF WarningsAreSpaced, Spaced, Last
  <2> QED BY <2>1, <2>2, <2>4 DEF IInv, Typed
<1> QED BY <1>1, <1>2

LEMMA StepKeepsInv == IInv /\ [Next]_vars => IInv'
<1> SUFFICES ASSUME IInv, [Next]_vars PROVE IInv'
  OBVIOUS
<1>1. CASE Tick
  BY <1>1 DEF Tick, IInv, Typed, WarningsAreSpaced
<1>2. ASSUME NEW s \in Senders, Observe(s) PROVE IInv'
  <2>1. PICK i \in Identities \cup {None}, error \in ErrorTypes \cup {None} :
          beat' = [beat EXCEPT ![s] = [identity |-> i, error |-> error, observed |-> now]]
    BY <1>2 DEF Observe
  <2>2. beat' \in [Senders -> Beats]
    BY <2>1 DEF IInv, Typed, Beats
  <2> QED BY <1>2, <2>2 DEF Observe, IInv, Typed, WarningsAreSpaced
<1>3. ASSUME NEW s \in Senders, Log(s) PROVE IInv'
  <2>1. beat[s] \in Beats
    BY DEF IInv, Typed
  <2>2. /\ failure_states' \in [Identities -> Warnings \cup {None}]
        /\ streak' \in [Identities -> Seq(Warnings)]
        /\ WarningsAreSpaced'
    BY <1>3, <2>1, LogFailureKeepsInv, LogSuccessKeepsInv DEF Log
  <2>3. pc' \in [Senders -> {"idle", "log"}] /\ beat' \in [Senders -> Beats] /\ now' \in Nat
    BY <1>3 DEF Log, IInv, Typed, NoBeat, Beats
  <2> QED BY <2>2, <2>3 DEF IInv, Typed
<1>4. CASE UNCHANGED vars
  BY <1>4 DEF vars, IInv, Typed, WarningsAreSpaced
<1> QED BY <1>1, <1>2, <1>3, <1>4 DEF Next

(* The inductive invariant holds in every reachable state. *)
LEMMA Invariance == Spec => []IInv
  BY InitInv, StepKeepsInv, PTL DEF Spec

(***************************************************************************)
(* Theorems                                                                *)
(***************************************************************************)

(* client.py, _HEARTBEAT_WARNING_INTERVAL_SECONDS: whatever order the      *)
(* senders log in, an instance's warnings of one error type that follow    *)
(* each other are the interval apart.                                      *)
THEOREM WarningsStaySpaced == Spec => []WarningsAreSpaced
  BY Invariance, PTL DEF IInv

(* A failure that is logged at debug level only has a warning to refer to. *)
THEOREM FailuresAreAnnounced == Spec => NoSilentFailure
<1> DEFINE Announced(s) ==
        \E k \in DOMAIN streak'[beat[s].identity] :
            LET w == streak'[beat[s].identity][k]
            IN  w.error = beat[s].error /\ beat[s].observed < w.at + Interval
<1>1. ASSUME IInv, [Next]_vars, NEW s \in Senders, pc[s] = "log", pc'[s] = "idle",
             beat[s].identity # None, beat[s].error # None
      PROVE  Announced(s)
  <2> DEFINE b == beat[s]
             i == beat[s].identity
  <2>1. b \in Beats /\ i \in Identities /\ b.error \in ErrorTypes
    BY <1>1 DEF IInv, Typed, Beats
  <2>2. Log(s)
    BY <1>1 DEF Next, Tick, Observe, Log, vars, IInv, Typed
  <2>3. LogFailure(b)
    BY <1>1, <2>2 DEF Log
  <2>4. streak[i] \in Seq(Warnings) /\ Len(streak[i]) \in Nat
    BY <1>1, <2>1 DEF IInv, Typed
  <2>5. CASE Due(b, failure_states[i])
    <3>1. streak'[i] = Append(streak[i], Warning(b))
      BY <1>1, <2>1, <2>3, <2>5 DEF LogFailure, IInv, Typed
    <3>2. /\ Len(streak[i]) + 1 \in DOMAIN streak'[i]
          /\ streak'[i][Len(streak[i]) + 1] = Warning(b)
      BY <2>1, <2>4, <3>1 DEF Warning, Warnings, Beats
    <3>3. Warning(b).error = b.error /\ b.observed < Warning(b).at + Interval
      BY <2>1, HeartbeatLogAssumption DEF Warning, Beats
    <3> QED BY <3>2, <3>3
  <2>6. CASE ~Due(b, failure_states[i])
    <3>1. streak'[i] = streak[i]
      BY <2>3, <2>6 DEF LogFailure
    <3>2. streak[i] # <<>> /\ failure_states[i] = streak[i][Len(streak[i])]
      BY <1>1, <2>1, <2>6 DEF Due, IInv, WarningsAreSpaced
    <3>3. Len(streak[i]) \in DOMAIN streak[i] /\ streak[i][Len(streak[i])] \in Warnings
      BY <2>4, <3>2
    <3>4. /\ failure_states[i].error = b.error
          /\ b.observed < failure_states[i].at + Interval
      BY <2>1, <2>6, <3>2, <3>3, HeartbeatLogAssumption DEF Due, Beats, Warnings
    <3> QED BY <3>1, <3>2, <3>3, <3>4
  <2> QED BY <2>5, <2>6
<1>2. IInv /\ [Next]_vars =>
        [\A s \in Senders :
            /\ pc[s] = "log" /\ pc'[s] = "idle"
            /\ beat[s].identity # None /\ beat[s].error # None
            => Announced(s)]_vars
  BY <1>1
<1> QED BY <1>2, Invariance, PTL DEF Spec, NoSilentFailure
=============================================================================
