---------------------------- MODULE ExitDeadline ----------------------------
(***************************************************************************)
(* Lifecycle with the clock of the exit handler.  In Lifecycle the wait    *)
(* for the call in flight may end at any moment; here it ends when the     *)
(* time has passed that the handler computed from the metadata of the      *)
(* call.  Time passes in ticks, between any two steps.                     *)
(***************************************************************************)
EXTENDS Lifecycle

CONSTANTS
    Timeouts,   \* what _naming_timeout_seconds may return; 0 is None
    Fallback,   \* _NAMING_RPC_TIMEOUT_FALLBACK
    Grace,      \* _EXIT_RPC_SCHEDULING_GRACE
    WaitMax,    \* _EXIT_RPC_WAIT_MAX
    MaxAge      \* calls of this age and more all look alike

ASSUME DeadlineAssumption ==
    /\ Timeouts \subseteq Nat /\ Fallback \in Nat /\ Grace \in Nat /\ WaitMax \in Nat
    /\ MaxAge \in Nat /\ \A n \in Timeouts \cup {Fallback} : n + Grace <= MaxAge

VARIABLES
    rpc_timeout,   \* naming_rpc_timeout
    rpc_age,       \* ticks since naming_rpc_started_at, up to MaxAge
    wait_timeout,  \* what the handler computed
    wait_left      \* ticks left of it

timers == <<rpc_timeout, rpc_age, wait_timeout, wait_left>>
timed_vars == <<vars, timers>>

Smaller(m, n) == IF m < n THEN m ELSE n

TimedInit ==
    Init /\ rpc_timeout = 0 /\ rpc_age = 0 /\ wait_timeout = 0 /\ wait_left = 0

(***************************************************************************)
(* The clock of the call: set with the other metadata when the call is     *)
(* claimed, cleared with it in the finally clause.  A handler that took    *)
(* its snapshot keeps reading the values it saw; no other call but its own *)
(* is claimed once the process is closing.                                 *)
(***************************************************************************)
Claimed(t) == pc[t] = "claim" /\ pc'[t] = "call"
Cleared == naming_rpc # None /\ naming_rpc' = None
Watched == \E e \in Exits : pc[e] \in {"wake", "await"} /\ handle[e] # None

StartedAt ==
    IF \E t \in Threads : Claimed(t) THEN rpc_timeout' \in Timeouts /\ rpc_age' = 0
    ELSE IF Cleared /\ ~Watched THEN rpc_timeout' = 0 /\ rpc_age' = 0
    ELSE UNCHANGED <<rpc_timeout, rpc_age>>

(***************************************************************************)
(* The wait of the exit handler                                            *)
(***************************************************************************)
CallTimeout == IF rpc_timeout = 0 THEN Fallback ELSE rpc_timeout

NoGrace ==   \* mutant: no time for the thread of the call to be scheduled
    Smaller(IF rpc_age < CallTimeout THEN CallTimeout - rpc_age ELSE 0, WaitMax)

WaitTimeout ==
    Smaller((IF rpc_age < CallTimeout THEN CallTimeout - rpc_age ELSE 0) + Grace, WaitMax)

WaitBegins ==
    IF \E e \in Exits : pc[e] = "wake" /\ pc'[e] = "await"
    THEN wait_timeout' = WaitTimeout /\ wait_left' = WaitTimeout
    ELSE UNCHANGED <<wait_timeout, wait_left>>

(* Event.wait returns False only if the event was not set in time.         *)
TimesOut(e) == pc[e] = "await" /\ pc'[e] = "gave_up"

WaitExpires == \A e \in Exits : TimesOut(e) => wait_left = 0 /\ handle[e] \in unset_events

(***************************************************************************)
(* Time and the specification                                              *)
(***************************************************************************)
Timed(A) == A /\ StartedAt /\ WaitBegins /\ WaitExpires

Tick ==
    /\ rpc_age' = IF naming_rpc # None \/ Watched THEN Smaller(rpc_age + 1, MaxAge) ELSE rpc_age
    /\ wait_left' = IF wait_left > 0 THEN wait_left - 1 ELSE 0
    /\ UNCHANGED <<vars, rpc_timeout, wait_timeout>>

TimedNext == Timed(Next) \/ Tick

(* BoundedExitFairness, and time goes on.  A call that is never answered   *)
(* is still allowed.                                                       *)
TimedFairness ==
    /\ \A t \in Callers \cup Workers :
          WF_timed_vars(Timed(Acquire(t) \/ Claim(t) \/ Commit(t) \/ Finish(t)))
    /\ \A e \in Exits : WF_timed_vars(Timed(ExitStep(e)))
    /\ WF_timed_vars(Tick)

TimedSpec == TimedInit /\ [][TimedNext]_timed_vars /\ TimedFairness

(***************************************************************************)
(* Properties                                                              *)
(***************************************************************************)

(* The handler gives cleanup up only for a call that has overrun its own   *)
(* timeout and the grace, counted from the start of the call, or that has  *)
(* kept it waiting for _EXIT_RPC_WAIT_MAX.  A call that keeps its timeout  *)
(* is waited for, however late in it the exit begins.                      *)
GivesUpOnlyOnOverrun ==
    [][\A e \in Exits : TimesOut(e) =>
          \/ rpc_age >= CallTimeout + Grace
          \/ wait_timeout = WaitMax]_timed_vars
=============================================================================
