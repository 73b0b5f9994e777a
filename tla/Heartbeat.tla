------------------------------ MODULE Heartbeat ------------------------------
(***************************************************************************)
(* Heartbeat observation of one application: the wrapper that client.py    *)
(* puts around the SDK's send_heartbeat, and the observer of extension.py  *)
(* that turns its calls into heartbeat_state.                              *)
(*                                                                         *)
(* Senders are the threads that call send_heartbeat: the SDK's, which      *)
(* outlive the registration they were started for, and any thread of the   *)
(* application.  Registration is what Lifecycle commits, one registration  *)
(* and one deregistration in turn.  A registration cycle is the time from  *)
(* one commit to the next.                                                 *)
(***************************************************************************)
EXTENDS Naturals, FiniteSets

CONSTANTS
    Senders,      \* threads that call send_heartbeat
    Identities,   \* normalised identities of instances
    ErrorTypes,   \* types of the exceptions send_heartbeat raises
    None,         \* Python's None
    Ephemeral,    \* NACOS_SERVICE_EPHEMERAL
    MaxTime,      \* bound on the clock
    MaxCycles     \* bound on the registrations

ASSUME HeartbeatAssumption ==
    /\ None \notin Identities \cup ErrorTypes \cup Nat
    /\ Ephemeral \in BOOLEAN
    /\ MaxTime \in Nat /\ MaxCycles \in Nat

VARIABLES
    now,                   \* time.monotonic(), common to all threads
    (* _AppRuntimeState *)
    registered_identity, shutting_down,
    heartbeat_state, heartbeat_error_type,
    last_success_at, last_failure_at,  \* by the observed clock of the event
    cycle_started, last_observed,
    authority,             \* the runtime is still the application's own
    (* threads *)
    pc, beat,              \* where a sender stands, and the event it reports
    (* history *)
    cycle,                 \* registrations so far
    reported               \* events that reached the observer in this cycle

observation == <<heartbeat_state, heartbeat_error_type, last_success_at, last_failure_at,
                 cycle_started, last_observed>>
closing == <<shutting_down, authority>>
vars == <<now, registered_identity, closing, observation, pc, beat, cycle, reported>>

NoBeat == [identity |-> None, error |-> None, started |-> 0, observed |-> 0, cycle |-> 0]

Init ==
    /\ now = 0
    /\ registered_identity = None /\ shutting_down = FALSE
    /\ heartbeat_state = "not_applicable" /\ heartbeat_error_type = None
    /\ last_success_at = None /\ last_failure_at = None
    /\ cycle_started = None /\ last_observed = None
    /\ authority = TRUE
    /\ pc = [s \in Senders |-> "idle"] /\ beat = [s \in Senders |-> NoBeat]
    /\ cycle = 0 /\ reported = {}

(***************************************************************************)
(* The registration lifecycle                                              *)
(***************************************************************************)

Tick ==
    /\ now < MaxTime /\ now' = now + 1
    /\ UNCHANGED <<registered_identity, closing, observation, pc, beat, cycle, reported>>

StateReset(state) ==
    /\ heartbeat_state' = state /\ heartbeat_error_type' = None
    /\ last_success_at' = None /\ last_failure_at' = None

CommitRegistration(i) ==
    /\ registered_identity = None /\ cycle < MaxCycles
    /\ registered_identity' = i
    /\ StateReset(IF Ephemeral THEN "unknown" ELSE "not_applicable")
    /\ cycle_started' = now /\ last_observed' = None
    /\ cycle' = cycle + 1 /\ reported' = {}
    /\ UNCHANGED <<now, closing, pc, beat>>

CommitDeregistrationOnly ==   \* mutant: the observation is not cleared
    /\ registered_identity # None
    /\ registered_identity' = None
    /\ UNCHANGED <<now, closing, observation, pc, beat, cycle, reported>>

CommitDeregistration ==
    /\ registered_identity # None
    /\ registered_identity' = None
    /\ StateReset("not_applicable")
    /\ cycle_started' = None /\ last_observed' = None
    /\ reported' = {}
    /\ UNCHANGED <<now, closing, pc, beat, cycle>>

(* The exit begins, or the runtime stops being the application's own. *)
Close ==
    /\ \/ ~shutting_down /\ shutting_down' = TRUE /\ UNCHANGED authority
       \/ authority /\ authority' = FALSE /\ UNCHANGED shutting_down
    /\ UNCHANGED <<now, registered_identity, observation, pc, beat, cycle, reported>>

(***************************************************************************)
(* instrumented_send_heartbeat                                             *)
(***************************************************************************)

(* The identity of the arguments, None when they make no sense. *)
Begin(s) ==
    /\ pc[s] = "idle"
    /\ \E i \in Identities \cup {None} :
        beat' = [beat EXCEPT ![s] = [NoBeat EXCEPT !.identity = i, !.started = now,
                                                   !.cycle = cycle]]
    /\ pc' = [pc EXCEPT ![s] = "sending"]
    /\ UNCHANGED <<now, registered_identity, closing, observation, cycle, reported>>

(* The call returns, or raises one of ErrorTypes; then the clock is read. *)
Answer(s) ==
    /\ pc[s] = "sending"
    /\ \E error \in ErrorTypes \cup {None} :
        beat' = [beat EXCEPT ![s].error = error, ![s].observed = now]
    /\ pc' = [pc EXCEPT ![s] = "notify"]
    /\ UNCHANGED <<now, registered_identity, closing, observation, cycle, reported>>

(* The event is through, recorded or not; the log is HeartbeatLog's. *)
Done(s) == pc' = [pc EXCEPT ![s] = "idle"] /\ beat' = [beat EXCEPT ![s] = NoBeat]

(* _record_heartbeat_observation looks at the authority before it locks ... *)
Notify(s) ==
    /\ pc[s] = "notify"
    /\ IF authority
       THEN pc' = [pc EXCEPT ![s] = "record"] /\ UNCHANGED beat
       ELSE Done(s)
    /\ UNCHANGED <<now, registered_identity, closing, observation, cycle, reported>>

AcceptedOnce(s) == ~shutting_down   \* mutant: the authority is not looked at again

(* ... and again under the lock. *)
Accepted(s) == authority /\ ~shutting_down

OfRegisteredInstance(s) ==   \* mutant: a late heartbeat of an earlier cycle counts
    registered_identity # None /\ Ephemeral /\ beat[s].identity = registered_identity

OfCurrentCycle(s) ==
    /\ registered_identity # None /\ Ephemeral /\ beat[s].identity = registered_identity
    /\ beat[s].started >= cycle_started

NewestIfLate(s) == TRUE   \* mutant: events are taken in the order they arrive

Newest(s) == last_observed = None \/ beat[s].observed >= last_observed

Recorded(s) ==
    /\ last_observed' = beat[s].observed
    /\ heartbeat_error_type' = beat[s].error
    /\ IF beat[s].error = None
       THEN /\ heartbeat_state' = "healthy" /\ last_success_at' = beat[s].observed
            /\ UNCHANGED last_failure_at
       ELSE /\ heartbeat_state' = "failing" /\ last_failure_at' = beat[s].observed
            /\ UNCHANGED last_success_at
    /\ UNCHANGED cycle_started

(* For the properties: the event, and whether it is the cycle's own. *)
Report(s) ==
    [error |-> beat[s].error, observed |-> beat[s].observed,
     own |-> /\ beat[s].identity = registered_identity
             /\ beat[s].cycle = cycle \/ beat[s].started = cycle_started]

Record(s) ==
    /\ pc[s] = "record"
    /\ IF Accepted(s) /\ OfCurrentCycle(s)
       THEN /\ reported' = reported \cup {Report(s)}
            /\ IF Newest(s) THEN Recorded(s) ELSE UNCHANGED observation
       ELSE UNCHANGED <<reported, observation>>
    /\ Done(s)
    /\ UNCHANGED <<now, registered_identity, closing, cycle>>

Sender(s) == Begin(s) \/ Answer(s) \/ Notify(s) \/ Record(s)

Next ==
    \/ Tick \/ CommitDeregistration \/ Close
    \/ \E i \in Identities : CommitRegistration(i)
    \/ \E s \in Senders : Sender(s)

Spec == Init /\ [][Next]_vars

(***************************************************************************)
(* Properties                                                              *)
(***************************************************************************)
Beats == [identity : Identities \cup {None}, error : ErrorTypes \cup {None},
          started : Nat, observed : Nat, cycle : Nat]
Reports == [error : ErrorTypes \cup {None}, observed : Nat, own : BOOLEAN]

(* Every variable keeps its type, and only an ephemeral instance that is   *)
(* registered has a heartbeat to observe.                                  *)
TypeOK ==
    /\ now \in Nat /\ cycle \in Nat
    /\ registered_identity \in Identities \cup {None}
    /\ shutting_down \in BOOLEAN /\ authority \in BOOLEAN
    /\ heartbeat_state \in {"not_applicable", "unknown", "healthy", "failing"}
    /\ heartbeat_error_type \in ErrorTypes \cup {None}
    /\ {last_success_at, last_failure_at, cycle_started, last_observed} \subseteq Nat \cup {None}
    /\ pc \in [Senders -> {"idle", "sending", "notify", "record"}]
    /\ beat \in [Senders -> Beats]
    /\ reported \subseteq Reports
    /\ heartbeat_state = "not_applicable" <=> registered_identity = None \/ ~Ephemeral

(* What the status shows comes from heartbeats of the current registration *)
(* cycle: not from a call begun before the commit that opened it, however  *)
(* late it ends, for the same instance or for another.  The clock decides, *)
(* so a call begun in the very tick of the commit may pass for a new one.  *)
OnlyThisCycle ==
    /\ \A b \in reported : b.own
    /\ heartbeat_state \in {"healthy", "failing"} =>
          \E b \in reported : b.observed = last_observed /\ b.error = heartbeat_error_type
    /\ \A at \in {last_success_at, last_failure_at} \ {None} :
          \E b \in reported : b.observed = at

(* The state is that of the newest heartbeat, whatever the order in which  *)
(* the senders get to report theirs.                                       *)
NewestDecides ==
    heartbeat_state \in {"healthy", "failing"} =>
        \E b \in reported :
            /\ \A c \in reported : c.observed <= b.observed
            /\ heartbeat_state = (IF b.error = None THEN "healthy" ELSE "failing")
            /\ heartbeat_error_type = b.error

(* A sender that passed the first look at the authority and then lost it,  *)
(* or the runtime to the exit, records nothing.                            *)
NoRecordAfterClose ==
    [][(\E s \in Senders : pc[s] = "record" /\ pc'[s] = "idle") /\ (~authority \/ shutting_down)
          => UNCHANGED observation]_vars
=============================================================================
