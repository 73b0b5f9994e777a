---------------------------- MODULE HeartbeatProofs ----------------------------
(***************************************************************************)
(* Proofs about Heartbeat for any number of senders, instances, error      *)
(* types, registrations and clock readings.                                *)
(*                                                                         *)
(* The argument: a heartbeat begun before the commit that opened the       *)
(* current cycle carries a time that is not later than that commit         *)
(* (Flights); and whatever passed the test of the cycle is not newer than  *)
(* last_observed, which one of them has (Observed).                        *)
(***************************************************************************)
EXTENDS Heartbeat, TLAPS

(* What a thread carries from before the commit is not later than it. *)
Flights ==
    \A s \in Senders :
        /\ beat[s].started <= now /\ beat[s].observed <= now /\ beat[s].cycle <= cycle
        /\ registered_identity # None /\ beat[s].cycle # cycle => beat[s].started <= cycle_started

(* A cycle is open exactly while an instance is registered. *)
Cycles ==
    /\ registered_identity # None => cycle_started \in Nat /\ cycle_started <= now
    /\ registered_identity = None => reported = {}

Observed ==
    /\ heartbeat_state \in {"healthy", "failing"} <=> last_observed # None
    /\ last_observed = None => reported = {} /\ last_success_at = None /\ last_failure_at = None
    /\ last_observed # None =>
          /\ last_observed \in Nat
          /\ \A b \in reported : b.observed <= last_observed
          /\ \E b \in reported : b.observed = last_observed /\ b.error = heartbeat_error_type
          /\ heartbeat_state = (IF heartbeat_error_type = None THEN "healthy" ELSE "failing")
    /\ \A at \in {last_success_at, last_failure_at} \ {None} : \E b \in reported : b.observed = at
    /\ \A b \in reported : b.own

IInv == TypeOK /\ Flights /\ Cycles /\ Observed

USE HeartbeatAssumption DEF observation, closing

(* What a recorded event does to the history. *)
LEMMA ReportIsOwn ==
  ASSUME IInv, NEW s \in Senders, OfCurrentCycle(s)
  PROVE  Report(s) \in Reports /\ Report(s).own /\ Report(s).observed = beat[s].observed
         /\ Report(s).error = beat[s].error
<1>1. beat[s] \in Beats /\ cycle \in Nat
  BY DEF IInv, TypeOK
<1>2. registered_identity # None /\ beat[s].identity = registered_identity
      /\ beat[s].started >= cycle_started
  BY DEF OfCurrentCycle
<1>3. cycle_started \in Nat
  BY <1>2 DEF IInv, Cycles
<1>4. beat[s].cycle = cycle \/ beat[s].started = cycle_started
  BY <1>1, <1>2, <1>3 DEF IInv, Flights, Beats
<1> QED BY <1>1, <1>2, <1>4 DEF Report, Reports, Beats

LEMMA InitInv == Init => IInv
<1> SUFFICES ASSUME Init PROVE IInv
  OBVIOUS
<1>1. TypeOK
  <2>1. NoBeat \in Beats
    BY DEF NoBeat, Beats
  <2> QED BY <2>1 DEF Init, TypeOK
<1>2. Flights /\ Cycles /\ Observed
  BY DEF Init, NoBeat, Flights, Cycles, Observed
<1> QED BY <1>1, <1>2 DEF IInv

LEMMA TickKeepsInv == IInv /\ Tick => IInv'
<1> SUFFICES ASSUME IInv, Tick PROVE IInv'
  OBVIOUS
<1>1. TypeOK'
  BY DEF IInv, TypeOK, Tick
<1>2. Flights'
  BY DEF IInv, TypeOK, Beats, Flights, Tick
<1>3. Cycles' /\ Observed'
  BY DEF IInv, TypeOK, Cycles, Observed, Tick
<1> QED BY <1>1, <1>2, <1>3 DEF IInv

LEMMA CommitRegistrationKeepsInv ==
  ASSUME IInv, NEW i \in Identities, CommitRegistration(i)
  PROVE  IInv'
<1> USE DEF CommitRegistration, StateReset
<1>1. TypeOK'
  BY DEF IInv, TypeOK
<1>2. Flights'
  BY DEF IInv, TypeOK, Beats, Flights
<1>3. Cycles'
  BY DEF IInv, TypeOK, Cycles
<1>4. Observed'
  BY DEF Observed
<1> QED BY <1>1, <1>2, <1>3, <1>4 DEF IInv

LEMMA CommitDeregistrationKeepsInv == IInv /\ CommitDeregistration => IInv'
<1> SUFFICES ASSUME IInv, CommitDeregistration PROVE IInv'
  OBVIOUS
<1> USE DEF CommitDeregistration, StateReset
<1>1. TypeOK'
  BY DEF IInv, TypeOK
<1>2. Flights' /\ Cycles' /\ Observed'
  BY DEF IInv, Flights, Cycles, Observed
<1> QED BY <1>1, <1>2 DEF IInv

LEMMA CloseKeepsInv == IInv /\ Close => IInv'
<1> SUFFICES ASSUME IInv, Close PROVE IInv'
  OBVIOUS
<1>1. TypeOK'
  BY DEF IInv, TypeOK, Close
<1>2. Flights' /\ Cycles' /\ Observed'
  BY DEF IInv, Flights, Cycles, Observed, Close
<1> QED BY <1>1, <1>2 DEF IInv

(* A sender that only moves its own event. *)
LEMMA FlightKeepsInv ==
  ASSUME IInv, NEW s \in Senders, Begin(s) \/ Answer(s) \/ Notify(s)
  PROVE  IInv'
<1>1. UNCHANGED <<now, registered_identity, shutting_down, authority, heartbeat_state,
                  heartbeat_error_type, last_success_at, last_failure_at, cycle_started,
                  last_observed, cycle, reported>>
  BY DEF Begin, Answer, Notify
<1>2. pc' \in [Senders -> {"idle", "sending", "notify", "record"}]
  BY DEF IInv, TypeOK, Begin, Answer, Notify, Done
<1>3. PICK b : /\ beat' = [beat EXCEPT ![s] = b] /\ b \in Beats
               /\ b.started <= now /\ b.observed <= now /\ b.cycle <= cycle
               /\ registered_identity # None /\ b.cycle # cycle => b.started <= cycle_started
  <2>1. CASE Begin(s)
    <3>1. PICK i \in Identities \cup {None} :
            beat' = [beat EXCEPT ![s] = [NoBeat EXCEPT !.identity = i, !.started = now,
                                                       !.cycle = cycle]]
      BY <2>1 DEF Begin
    <3> DEFINE b == [NoBeat EXCEPT !.identity = i, !.started = now, !.cycle = cycle]
    <3>2. NoBeat \in Beats /\ NoBeat.observed = 0 /\ now \in Nat /\ cycle \in Nat
      BY DEF NoBeat, Beats, IInv, TypeOK
    <3>3. b \in Beats /\ b.started = now /\ b.observed = 0 /\ b.cycle = cycle
      BY <3>2 DEF Beats
    <3> HIDE DEF b
    <3>4. beat' = [beat EXCEPT ![s] = b]
      BY <3>1 DEF b
    <3>5. b.started <= now /\ b.observed <= now /\ b.cycle <= cycle
      BY <3>2, <3>3
    <3> QED BY <3>3, <3>4, <3>5
  <2>2. CASE Answer(s)
    <3>1. PICK error \in ErrorTypes \cup {None} :
            beat' = [beat EXCEPT ![s].error = error, ![s].observed = now]
      BY <2>2 DEF Answer
    <3> DEFINE b == [beat[s] EXCEPT !.error = error, !.observed = now]
    <3>2. beat' = [beat EXCEPT ![s] = b]
      BY <3>1 DEF IInv, TypeOK
    <3>3. beat[s] \in Beats /\ now \in Nat
      BY DEF IInv, TypeOK
    <3>4. b \in Beats /\ b.observed = now /\ b.started = beat[s].started
          /\ b.cycle = beat[s].cycle
      BY <3>3 DEF Beats
    <3>5. /\ b.started <= now /\ b.observed <= now /\ b.cycle <= cycle
          /\ registered_identity # None /\ b.cycle # cycle => b.started <= cycle_started
      BY <3>3, <3>4 DEF IInv, Flights
    <3> HIDE DEF b
    <3> QED BY <3>2, <3>4, <3>5
  <2>3. CASE Notify(s)
    <3>1. beat' = [beat EXCEPT ![s] = NoBeat] \/ beat' = [beat EXCEPT ![s] = beat[s]]
      BY <2>3 DEF Notify, Done, IInv, TypeOK
    <3>2. NoBeat \in Beats /\ NoBeat.started = 0 /\ NoBeat.observed = 0 /\ NoBeat.cycle = 0
      BY DEF NoBeat, Beats
    <3>3. registered_identity # None => 0 <= cycle_started
      BY DEF IInv, Cycles
    <3>4. beat[s] \in Beats /\ 0 <= now /\ 0 <= cycle
      BY DEF IInv, TypeOK
    <3> QED BY <3>1, <3>2, <3>3, <3>4 DEF IInv, Flights
  <2> QED BY <2>1, <2>2, <2>3
<1>4. TypeOK'
  BY <1>1, <1>2, <1>3 DEF IInv, TypeOK
<1>5. Flights'
  BY <1>1, <1>3 DEF IInv, TypeOK, Flights
<1>6. Cycles' /\ Observed'
  BY <1>1 DEF IInv, Cycles, Observed
<1> QED BY <1>4, <1>5, <1>6 DEF IInv

LEMMA RecordKeepsInv ==
  ASSUME IInv, NEW s \in Senders, Record(s)
  PROVE  IInv'
<1>1. /\ UNCHANGED <<now, registered_identity, shutting_down, authority, cycle, cycle_started>>
      /\ pc' = [pc EXCEPT ![s] = "idle"] /\ beat' = [beat EXCEPT ![s] = NoBeat]
  BY DEF Record, Done, Recorded
<1>2. NoBeat \in Beats /\ NoBeat.started = 0 /\ NoBeat.observed = 0 /\ NoBeat.cycle = 0
  BY DEF NoBeat, Beats
<1>3. /\ pc' \in [Senders -> {"idle", "sending", "notify", "record"}]
      /\ beat' \in [Senders -> Beats]
  BY <1>1, <1>2 DEF IInv, TypeOK
<1>4. Flights'
  <2>1. now \in Nat /\ cycle \in Nat /\ (registered_identity # None => 0 <= cycle_started)
    BY DEF IInv, TypeOK, Cycles
  <2> QED BY <1>1, <1>2, <2>1 DEF IInv, TypeOK, Flights
<1>5. CASE ~(Accepted(s) /\ OfCurrentCycle(s))
  <2>1. UNCHANGED <<observation, reported>>
    BY <1>5 DEF Record
  <2>2. TypeOK' /\ Cycles' /\ Observed'
    BY <1>1, <1>3, <2>1 DEF IInv, TypeOK, Cycles, Observed
  <2> QED BY <1>4, <2>2 DEF IInv
<1>6. CASE Accepted(s) /\ OfCurrentCycle(s)
  <2> DEFINE r == Report(s)
  <2>1. r \in Reports /\ r.own /\ r.observed = beat[s].observed /\ r.error = beat[s].error
    BY <1>6, ReportIsOwn
  <2>2. reported' = reported \cup {r}
    BY <1>6 DEF Record
  <2>3. beat[s] \in Beats /\ registered_identity # None /\ Ephemeral
    BY <1>6 DEF IInv, TypeOK, OfCurrentCycle
  <2>4. Cycles'
    BY <1>1, <2>3 DEF IInv, Cycles
  <2> HIDE DEF r
  <2>5. CASE Newest(s)
    <3>1. Recorded(s)
      BY <1>6, <2>5 DEF Record
    <3>2. beat[s].observed \in Nat /\ beat[s].error \in ErrorTypes \cup {None}
      BY <2>3 DEF Beats
    <3>3. TypeOK'
      BY <1>1, <1>3, <2>1, <2>2, <2>3, <3>1, <3>2 DEF IInv, TypeOK, Recorded
    <3>4. \A b \in reported : b.observed <= beat[s].observed
      <4>1. CASE last_observed = None
        BY <4>1 DEF IInv, Observed
      <4>2. CASE last_observed # None
        <5>1. last_observed \in Nat /\ \A b \in reported : b.observed <= last_observed
          BY <4>2 DEF IInv, Observed
        <5>2. last_observed <= beat[s].observed
          BY <2>5, <3>2, <4>2, <5>1 DEF Newest
        <5>3. \A b \in reported : b.observed \in Nat
          BY DEF IInv, TypeOK, Reports
        <5> QED BY <3>2, <5>1, <5>2, <5>3
      <4> QED BY <4>1, <4>2
    <3>5. /\ last_observed' = r.observed /\ heartbeat_error_type' = r.error
          /\ heartbeat_state' = (IF heartbeat_error_type' = None THEN "healthy" ELSE "failing")
          /\ {last_success_at, last_failure_at}' \subseteq
                {last_success_at, last_failure_at, r.observed}
      BY <2>1, <3>1 DEF Recorded
    <3>6. r.observed \in Nat /\ r.observed # None
      BY <2>1, <3>2
    <3>7. \A b \in reported' : b.observed <= last_observed' /\ b.own
      BY <2>1, <2>2, <3>2, <3>4, <3>5, <3>6 DEF IInv, Observed
    <3>8. \E b \in reported' : b.observed = last_observed' /\ b.error = heartbeat_error_type'
      BY <2>2, <3>5
    <3>9. \A at \in {last_success_at, last_failure_at}' \ {None} : \E b \in reported' : b.observed = at
      BY <2>2, <3>5 DEF IInv, Observed
    <3>10. Observed'
      BY <3>5, <3>6, <3>7, <3>8, <3>9 DEF Observed
    <3> QED BY <1>4, <2>4, <3>3, <3>10 DEF IInv
  <2>6. CASE ~Newest(s)
    <3>1. UNCHANGED observation
      BY <1>6, <2>6 DEF Record
    <3>2. TypeOK'
      BY <1>1, <1>3, <2>1, <2>2, <3>1 DEF IInv, TypeOK
    <3>3. last_observed # None /\ r.observed <= last_observed
      BY <2>1, <2>3, <2>6 DEF Newest, Beats, IInv, Observed
    <3>4. Observed'
      BY <2>1, <2>2, <3>1, <3>3 DEF IInv, Observed
    <3> QED BY <1>4, <2>4, <3>2, <3>4 DEF IInv
  <2> QED BY <2>5, <2>6
<1> QED BY <1>5, <1>6

LEMMA Invariance == Spec => []IInv
<1>1. IInv /\ UNCHANGED vars => IInv'
  BY DEF vars, IInv, TypeOK, Flights, Cycles, Observed
<1>2. IInv /\ [Next]_vars => IInv'
  BY <1>1, TickKeepsInv, CommitRegistrationKeepsInv, CommitDeregistrationKeepsInv, CloseKeepsInv,
     FlightKeepsInv, RecordKeepsInv DEF Next, Sender
<1> QED BY InitInv, <1>2, PTL DEF Spec

(***************************************************************************)
(* The theorems                                                            *)
(***************************************************************************)

(* TypeOK: types, and only a registered ephemeral instance has a heartbeat *)
(* to observe.                                                             *)
THEOREM TypeCorrect == Spec => []TypeOK
<1>1. IInv => TypeOK
  BY DEF IInv
<1> QED BY <1>1, Invariance, PTL

(* OnlyThisCycle: what the status shows comes from heartbeats of the       *)
(* current registration.                                                   *)
THEOREM ObservationIsCurrent == Spec => []OnlyThisCycle
<1>1. IInv => OnlyThisCycle
  BY DEF IInv, Observed, OnlyThisCycle
<1> QED BY <1>1, Invariance, PTL

(* NewestDecides: heartbeats reported out of order never overwrite a newer *)
(* one.                                                                    *)
THEOREM StatusIsOfTheNewest == Spec => []NewestDecides
<1>1. IInv => NewestDecides
  BY DEF IInv, Observed, NewestDecides
<1> QED BY <1>1, Invariance, PTL

(* NoRecordAfterClose: a callback that was on its way when the runtime was *)
(* closed changes nothing.                                                 *)
THEOREM ClosedIsSilent == Spec => NoRecordAfterClose
<1> DEFINE Silent == (\E s \in Senders : pc[s] = "record" /\ pc'[s] = "idle")
                        /\ (~authority \/ shutting_down) => UNCHANGED observation
<1>1. TypeOK /\ [Next]_vars => [Silent]_vars
  <2> SUFFICES ASSUME TypeOK, Next, NEW s \in Senders, pc[s] = "record", pc'[s] = "idle",
                      ~authority \/ shutting_down
               PROVE  UNCHANGED observation
    BY DEF vars
  <2>1. CASE \E t \in Senders : Sender(t)
    <3>1. PICK t \in Senders : Sender(t)
      BY <2>1
    <3>2. t = s
      BY <3>1 DEF Sender, Begin, Answer, Notify, Done, Record, TypeOK
    <3> QED BY <3>1, <3>2 DEF Sender, Begin, Answer, Notify, Record, Accepted
  <2>2. CASE ~\E t \in Senders : Sender(t)
    BY <2>2 DEF Next, Tick, CommitDeregistration, CommitRegistration, Close
  <2> QED BY <2>1, <2>2
<1> QED BY <1>1, TypeCorrect, PTL DEF Spec, NoRecordAfterClose
===============================================================================
