------------------------- MODULE RegistrationService -------------------------
(***************************************************************************)
(* What the registration lifecycle promises, without threads, locks or     *)
(* retries (README, "Design guarantees": a last-command-wins state machine *)
(* with one Naming RPC at a time).  A command moves the target; a call to  *)
(* Nacos is made only while the target needs it, or to clean up once the   *)
(* process is closing; what is registered changes only when a call ends.   *)
(***************************************************************************)

VARIABLES
    target,      \* should the instance be registered?
    registered,  \* is it, as far as the process knows?
    inflight,    \* the Naming RPC in flight, "none" if there is none
    closed       \* has the process begun to exit?

vars == <<target, registered, inflight, closed>>

Init ==
    /\ target = FALSE /\ registered = FALSE
    /\ inflight = "none" /\ closed = FALSE

(* A command is accepted until the process closes. *)
SetTarget ==
    /\ ~closed
    /\ target' \in BOOLEAN
    /\ UNCHANGED <<registered, inflight, closed>>

Wanted(rpc) ==
    IF rpc = "register" THEN ~closed /\ target /\ ~registered
    ELSE registered /\ (closed \/ ~target)

Begin(rpc) ==
    /\ inflight = "none" /\ Wanted(rpc)
    /\ inflight' = rpc
    /\ UNCHANGED <<target, registered, closed>>

Succeed ==
    /\ inflight # "none"
    /\ registered' = (inflight = "register")
    /\ inflight' = "none"
    /\ UNCHANGED <<target, closed>>

Fail ==
    /\ inflight # "none"
    /\ inflight' = "none"
    /\ UNCHANGED <<target, registered, closed>>

Close ==
    /\ ~closed /\ closed' = TRUE
    /\ UNCHANGED <<target, registered, inflight>>

Next ==
    \/ SetTarget \/ Begin("register") \/ Begin("deregister")
    \/ Succeed \/ Fail \/ Close

Spec == Init /\ [][Next]_vars
=============================================================================
