---------------------------- MODULE HeartbeatLog ----------------------------
(***************************************************************************)
(* The log of heartbeats of one SDK client (client.py): which failures are *)
(* warnings and which are kept at debug level, per instance, when several  *)
(* threads send heartbeats and get to log them in another order than they  *)
(* observed them.  What the status shows of them is Heartbeat.             *)
(***************************************************************************)
EXTENDS Naturals, Sequences

CONSTANTS
    Senders,      \* threads that call send_heartbeat
    Identities,   \* identities of instances
    ErrorTypes,   \* types of the exceptions send_heartbeat raises
    None,         \* no identity, no error, no failure state
    Interval,     \* _HEARTBEAT_WARNING_INTERVAL_SECONDS, in ticks of the clock
    MaxTime,      \* bound on the clock
    MaxBeats      \* bound on the heartbeats

(* What a failure state remembers of a warning *)
Warnings == [error : ErrorTypes, at : Nat]

ASSUME HeartbeatLogAssumption ==
    /\ None \notin Identities /\ None \notin ErrorTypes /\ None \notin Warnings
    /\ Interval \in Nat \ {0} /\ MaxTime \in Nat /\ MaxBeats \in Nat

VARIABLES
    now,              \* time.monotonic()
    failure_states,   \* per identity: type and time of the last warning
    pc, beat,         \* where a sender stands, and its heartbeat
    beats,            \* heartbeats so far
    streak            \* history: the warnings since an instance's last success

vars == <<now, failure_states, pc, beat, beats, streak>>

NoBeat == [identity |-> None, error |-> None, observed |-> 0]

Init ==
    /\ now = 0 /\ beats = 0
    /\ failure_states = [i \in Identities |-> None]
    /\ streak = [i \in Identities |-> <<>>]
    /\ pc = [s \in Senders |-> "idle"] /\ beat = [s \in Senders |-> NoBeat]

Tick == now < MaxTime /\ now' = now + 1 /\ UNCHANGED <<failure_states, pc, beat, beats, streak>>

(* send_heartbeat returns or raises, and the clock is read. *)
Observe(s) ==
    /\ pc[s] = "idle"
    /\ beats < MaxBeats /\ beats' = beats + 1
    /\ \E i \in Identities \cup {None}, error \in ErrorTypes \cup {None} :
        beat' = [beat EXCEPT ![s] = [identity |-> i, error |-> error, observed |-> now]]
    /\ pc' = [pc EXCEPT ![s] = "log"]
    /\ UNCHANGED <<now, failure_states, streak>>

Warning(b) == [error |-> b.error, at |-> b.observed]

DueAnyType(b, previous) ==   \* mutant: the type of the error is not compared
    previous = None \/ b.observed >= previous.at + Interval

Due(b, previous) ==
    \/ previous = None
    \/ b.error # previous.error
    \/ b.observed >= previous.at + Interval

FirstRemembered(b, previous) ==   \* mutant: a repeated warning does not move the clock
    IF previous # None /\ previous.error = b.error THEN previous ELSE Warning(b)

Remembered(b, previous) == Warning(b)

(* _heartbeat_failure_action and _heartbeat_success_action, under          *)
(* log_state_lock.  A heartbeat without an identity always warns.          *)
LogFailure(b) ==
    LET i == b.identity IN
    IF i # None /\ Due(b, failure_states[i])
    THEN /\ failure_states' = [failure_states EXCEPT ![i] = Remembered(b, @)]
         /\ streak' = [streak EXCEPT ![i] = Append(@, Warning(b))]
    ELSE UNCHANGED <<failure_states, streak>>

LogSuccess(b) ==
    IF b.identity # None
    THEN /\ failure_states' = [failure_states EXCEPT ![b.identity] = None]
         /\ streak' = [streak EXCEPT ![b.identity] = <<>>]
    ELSE UNCHANGED <<failure_states, streak>>

Log(s) ==
    /\ pc[s] = "log"
    /\ IF beat[s].error # None THEN LogFailure(beat[s]) ELSE LogSuccess(beat[s])
    /\ pc' = [pc EXCEPT ![s] = "idle"]
    /\ beat' = [beat EXCEPT ![s] = NoBeat]
    /\ UNCHANGED <<now, beats>>

Next == Tick \/ \E s \in Senders : Observe(s) \/ Log(s)

Spec == Init /\ [][Next]_vars

(***************************************************************************)
(* Properties                                                              *)
(***************************************************************************)

(* A failure kept out of the warnings was announced by one since the last  *)
(* success: of the same instance and error type, and less than the         *)
(* interval older, or newer and logged before it.                          *)
NoSilentFailure ==
    [][\A s \in Senders :
          /\ pc[s] = "log" /\ pc'[s] = "idle"
          /\ beat[s].identity # None /\ beat[s].error # None
          => \E k \in DOMAIN streak'[beat[s].identity] :
                LET w == streak'[beat[s].identity][k]
                IN  w.error = beat[s].error /\ beat[s].observed < w.at + Interval]_vars

(* The warnings of one streak do not repeat themselves: the next one has   *)
(* another type, or comes an interval later.  And the state the sender     *)
(* keeps is the last of them.                                              *)
WarningsAreSpaced ==
    \A i \in Identities :
        /\ \A k \in 2 .. Len(streak[i]) :
              streak[i][k].error = streak[i][k - 1].error =>
                  streak[i][k].at >= streak[i][k - 1].at + Interval
        /\ failure_states[i] = IF streak[i] = <<>> THEN None ELSE streak[i][Len(streak[i])]
=============================================================================
