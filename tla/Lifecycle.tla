------------------------------ MODULE Lifecycle ------------------------------
(***************************************************************************)
(* The registration lifecycle of one FastAPI application in one process:   *)
(* extension.py from register_instance_sync to _deregister_on_exit.        *)
(*                                                                         *)
(* Callers run register_instance_sync and deregister_instance_sync,        *)
(* workers run _registration_worker, exits run _atexit_handler_for or the  *)
(* lifespan shutdown.  They share one _AppRuntimeState.  A section of code *)
(* under runtime.state_lock is one action here: the lock excludes every    *)
(* other section, and code outside the sections touches thread locals, the *)
(* wakeup event or the network only, each a step of its own.               *)
(* runtime.network_operation_lock is held across a call to Nacos, so it is *)
(* a variable.                                                             *)
(***************************************************************************)
EXTENDS Naturals, FiniteSets

CONSTANTS
    Callers,           \* threads that submit commands
    Workers,           \* Thread objects a registration worker can run in
    Exits,             \* threads that run the exit handler
    Identities,        \* what resolve_instance_identity may return
    None,              \* Python's None
    MaxAttempts,       \* NACOS_RETRY_TIMES
    RetryEnabled,      \* NACOS_RETRY_ENABLED
    DeregisterOnExit,  \* NACOS_DEREGISTER_ON_EXIT
    WaitOverflows,     \* waits too long for Event.wait, see WaitRaises
    MaxCalls,          \* bound on the commands submitted
    MaxFailures        \* bound on the failures of threads, client and network

Threads == Callers \cup Workers \cup Exits
FailureClasses == {"transient", "deterministic", "unknown"}
Directions == {"register", "deregister"}

ASSUME ThreadsAssumption ==
    /\ Callers \cap Workers = {} /\ Callers \cap Exits = {} /\ Workers \cap Exits = {}
    /\ None \notin Threads /\ None \notin Identities
ASSUME ConfigAssumption ==
    /\ MaxAttempts \in Nat \ {0}
    /\ RetryEnabled \in BOOLEAN /\ DeregisterOnExit \in BOOLEAN
    /\ WaitOverflows \in {"never", "recovery", "always"}
ASSUME BoundsAssumption == MaxCalls \in Nat /\ MaxFailures \in Nat

VARIABLES
    (* _AppRuntimeState *)
    target_registered, registered, registered_identity,
    last_error,            \* whether last_error is not None
    operation_kind, operation_thread, operation_generation, operation_wakeup,
    shutting_down,
    client,                \* whether the client has been created
    network_lock,          \* holder of network_operation_lock
    naming_rpc,            \* thread whose call the naming_rpc_* fields describe
    (* threads *)
    pc,                    \* where each thread stands
    unset_events,          \* threads whose rpc_done event is not set yet
    worker,                \* locals of each worker
    handle,                \* the Thread to start, the call an exit waits for
    actual_identity,       \* identity of the Naming call a thread has prepared
    outcome,               \* result of a thread's last attempt
    (* outside the process, and history *)
    server,                \* identities registered in Nacos
    doubtful,              \* identities whose last call got no good answer
    last_command,          \* the last command accepted
    calls, failures        \* what is left of MaxCalls and MaxFailures is spent here

targets == <<target_registered, registered, registered_identity, last_error>>
operation == <<operation_kind, operation_thread, operation_generation, operation_wakeup>>
naming == <<network_lock, naming_rpc, unset_events>>
locals == <<worker, handle, actual_identity, outcome>>
external == <<server, doubtful>>
history == <<last_command, calls, failures>>
vars == <<targets, operation, naming, locals, external, history, shutting_down, client, pc>>

(* Program counters of the code every kind of thread may run.  *)
RpcPcs == {"acquire", "claim", "call", "commit", "finish"}
WorkerPcs == {"dead", "created", "top", "snapshot", "clear", "recheck", "sleep",
              "resume", "ready", "prepare", "after", "record", "decide", "leave"}
CallerPcs == {"idle", "start", "wake_return", "wake_sync", "settle", "reschedule"}
ExitPcs == {"idle", "wake", "await", "check", "exited", "gave_up"}

FreshWorker == [direction |-> "none", attempts |-> 0, recovering |-> FALSE,
                identity |-> None, generation |-> 0, target |-> FALSE]

Init ==
    /\ target_registered = FALSE /\ registered = FALSE /\ registered_identity = None
    /\ last_error = FALSE
    /\ operation_kind = "none" /\ operation_thread = None
    /\ operation_generation = 0 /\ operation_wakeup = FALSE
    /\ shutting_down = FALSE /\ client = FALSE
    /\ network_lock = None /\ naming_rpc = None /\ unset_events = {}
    /\ pc = [t \in Threads |-> IF t \in Workers THEN "dead" ELSE "idle"]
    /\ worker = [w \in Workers |-> FreshWorker]
    /\ handle = [t \in Callers \cup Exits |-> None]
    /\ actual_identity = [t \in Threads |-> None]
    /\ outcome = [t \in Threads |-> "none"]
    /\ server = {} /\ doubtful = {}
    /\ last_command = "deregister" /\ calls = 0 /\ failures = 0

Goto(t, label) == pc' = [pc EXCEPT ![t] = label]
Fail == failures < MaxFailures /\ failures' = failures + 1

(***************************************************************************)
(* Shared tests and assignments                                            *)
(***************************************************************************)
Converged == registered = target_registered
LatestNeeded == IF target_registered THEN "register" ELSE "deregister"

KeptError == last_error   \* mutant: the error outlives the failure

(* if registered == target_registered: last_error = None *)
ClearedIfConverged == IF Converged THEN FALSE ELSE last_error

(* last_error after a failure of one direction is recorded *)
AfterFailure(direction) ==
    LET relevant == IF direction = "register"
                    THEN target_registered /\ ~registered
                    ELSE ~target_registered /\ registered
    IN  IF relevant /\ ~shutting_down THEN TRUE ELSE ClearedIfConverged

(* What the thread's Naming call would do: only workers ever register. *)
RpcType(t) == IF t \in Workers THEN worker[t].direction ELSE "deregister"

NeededEvenClosing(t) ==   \* mutant: the gate forgets the shutdown
    IF RpcType(t) = "register" THEN target_registered /\ ~registered
    ELSE IF t \in Exits THEN shutting_down /\ registered
    ELSE ~target_registered /\ registered

NeededAnyTarget(t) ==     \* mutant: a deregistration forgets the target
    IF RpcType(t) = "register" THEN ~shutting_down /\ target_registered /\ ~registered
    ELSE IF t \in Exits THEN shutting_down /\ registered
    ELSE ~shutting_down /\ registered

(* The gate of a Naming call: is the call (still) needed? *)
Needed(t) ==
    IF RpcType(t) = "register" THEN ~shutting_down /\ target_registered /\ ~registered
    ELSE IF t \in Exits THEN shutting_down /\ registered
    ELSE ~shutting_down /\ ~target_registered /\ registered

Owns(w) == operation_kind = "register" /\ operation_thread = w

(* The test a worker repeats before it goes on with its direction. *)
StillNeeded(w) ==
    Owns(w) /\ ~shutting_down /\ ~Converged /\ LatestNeeded = worker[w].direction

(***************************************************************************)
(* Commands                                                                *)
(***************************************************************************)

(* _prepare_register_locked, for a thread that then starts what it created. *)
IdleAnyKind == ~registered   \* mutant: whatever operation is running

Idle == ~registered /\ operation_kind = "none"

TargetRegistered(new_command) ==
    LET moved == ~target_registered \/ (new_command /\ Idle)
    IN  /\ target_registered' = TRUE
        /\ operation_generation' = operation_generation + (IF moved THEN 1 ELSE 0)
        /\ operation_wakeup' = (operation_wakeup \/ moved)

NoWorkerNeeded(t) ==
    /\ registered \/ operation_kind # "none"
    /\ last_error' = IF registered THEN FALSE ELSE last_error
    /\ Goto(t, "idle")
    /\ UNCHANGED <<operation_kind, operation_thread, worker, handle, failures>>

WorkerNotCreated(t) ==
    /\ Idle
    /\ Fail
    /\ last_error' = TRUE
    /\ Goto(t, "idle")
    /\ UNCHANGED <<operation_kind, operation_thread, worker, handle>>

WorkerCreated(t) ==
    /\ Idle
    /\ \E w \in Workers :
        /\ pc[w] = "dead"
        /\ operation_kind' = "register"
        /\ operation_thread' = w
        /\ handle' = [handle EXCEPT ![t] = w]
        /\ worker' = [worker EXCEPT ![w] = FreshWorker]
        /\ pc' = [pc EXCEPT ![t] = "start", ![w] = "created"]
    /\ last_error' = FALSE
    /\ UNCHANGED failures

PrepareRegister(t, new_command) ==
    /\ TargetRegistered(new_command)
    /\ NoWorkerNeeded(t) \/ WorkerNotCreated(t) \/ WorkerCreated(t)
    /\ UNCHANGED <<registered, registered_identity, naming, actual_identity, outcome,
                   external, shutting_down, client>>

(* register_instance_sync *)
RegisterCommand(c) ==
    /\ pc[c] = "idle" /\ ~shutting_down
    /\ calls < MaxCalls /\ calls' = calls + 1
    /\ last_command' = "register"
    /\ PrepareRegister(c, TRUE)

(* _start_registration_thread: the thread starts, or thread.start() raises. *)
StartThread(c) ==
    /\ pc[c] = "start"
    /\ pc' = [pc EXCEPT ![c] = "idle", ![handle[c]] = "top"]
    /\ handle' = [handle EXCEPT ![c] = None]
    /\ UNCHANGED <<targets, operation, naming, worker, actual_identity, outcome,
                   external, history, shutting_down, client>>

StartFailsUnseen(c) ==   \* mutant: the operation is not given up
    /\ pc[c] = "start" /\ Fail
    /\ pc' = [pc EXCEPT ![c] = "idle", ![handle[c]] = "dead"]
    /\ handle' = [handle EXCEPT ![c] = None]
    /\ UNCHANGED <<targets, operation, naming, worker, actual_identity, outcome, external,
                   last_command, calls, shutting_down, client>>

StartFails(c) ==
    /\ pc[c] = "start" /\ Fail
    /\ pc' = [pc EXCEPT ![c] = "idle", ![handle[c]] = "dead"]
    /\ handle' = [handle EXCEPT ![c] = None]
    /\ IF operation_thread = handle[c]
       THEN /\ operation_thread' = None
            /\ operation_kind' = IF operation_kind = "register" THEN "none" ELSE operation_kind
            /\ last_error' = IF target_registered /\ ~registered /\ ~shutting_down
                             THEN TRUE ELSE ClearedIfConverged
       ELSE UNCHANGED <<operation_thread, operation_kind, last_error>>
    /\ UNCHANGED <<target_registered, registered, registered_identity, operation_generation,
                   operation_wakeup, naming, worker, actual_identity, outcome, external,
                   last_command, calls, shutting_down, client>>

(* deregister_instance_sync: the command, under the state lock. *)
DeregisterCommand(c) ==
    LET run_sync == operation_kind = "none" /\ registered
    IN  /\ pc[c] = "idle" /\ ~shutting_down
        /\ calls < MaxCalls /\ calls' = calls + 1
        /\ last_command' = "deregister"
        /\ target_registered' = FALSE
        /\ operation_generation' = operation_generation + (IF target_registered THEN 1 ELSE 0)
        /\ operation_kind' = IF run_sync THEN "deregister" ELSE operation_kind
        /\ operation_thread' = IF run_sync THEN None ELSE operation_thread
        /\ last_error' = IF operation_kind = "none" /\ ~registered THEN FALSE ELSE last_error
        /\ Goto(c, IF target_registered
                   THEN (IF run_sync THEN "wake_sync" ELSE "wake_return")
                   ELSE (IF run_sync THEN "acquire" ELSE "idle"))
        /\ UNCHANGED <<registered, registered_identity, operation_wakeup, naming, locals,
                       external, failures, shutting_down, client>>

(* operation_wakeup.set(), after the lock is released *)
Wake(c) ==
    /\ pc[c] \in {"wake_sync", "wake_return"}
    /\ operation_wakeup' = TRUE
    /\ Goto(c, IF pc[c] = "wake_sync" THEN "acquire" ELSE "idle")
    /\ UNCHANGED <<targets, operation_kind, operation_thread, operation_generation, naming,
                   locals, external, history, shutting_down, client>>

(* The finally clause: give the operation up and look at the target again. *)
ScheduleRegister == ~shutting_down /\ target_registered /\ ~registered

Settle(c) ==
    /\ pc[c] = "settle"
    /\ operation_kind' = IF operation_kind = "deregister" /\ operation_thread = None
                         THEN "none" ELSE operation_kind
    /\ last_error' = ClearedIfConverged
    /\ Goto(c, IF ScheduleRegister /\ operation_kind' = "none" THEN "reschedule" ELSE "idle")
    /\ outcome' = [outcome EXCEPT ![c] = "none"]
    /\ UNCHANGED <<target_registered, registered, registered_identity, operation_thread,
                   operation_generation, operation_wakeup, naming, worker, handle,
                   actual_identity, external, history, shutting_down, client>>

(* _prepare_register_locked again, under another acquisition of the lock *)
Reschedule(c) ==
    /\ pc[c] = "reschedule"
    /\ UNCHANGED <<last_command, calls>>
    /\ IF shutting_down
       THEN /\ Goto(c, "idle")
            /\ UNCHANGED <<targets, operation, naming, locals, external, failures,
                           shutting_down, client>>
       ELSE PrepareRegister(c, FALSE)

(***************************************************************************)
(* _execute_naming_rpc.  The network lock is taken before the first gate   *)
(* and given back in the finally clause; a call the gates refuse never     *)
(* shows itself in naming_rpc, so its whole stay is in one or two steps.   *)
(***************************************************************************)

(* Where a thread goes on after the call. *)
Return(t) == IF t \in Workers THEN "after" ELSE IF t \in Callers THEN "settle" ELSE "exited"

GiveUpHolding(t, result) ==   \* mutant: a refused call keeps the lock
    /\ outcome' = [outcome EXCEPT ![t] = result]
    /\ actual_identity' = [actual_identity EXCEPT ![t] = None]
    /\ network_lock' = t
    /\ Goto(t, Return(t))

(* The finally clause without an event: nothing but the lock to give back. *)
GiveUp(t, result) ==
    /\ outcome' = [outcome EXCEPT ![t] = result]
    /\ actual_identity' = [actual_identity EXCEPT ![t] = None]
    /\ network_lock' = None
    /\ Goto(t, Return(t))

(* Errors are recorded for every caller but the exit. *)
RecordedError(t) == IF t \in Exits THEN last_error ELSE AfterFailure(RpcType(t))

(* Take the network lock and pass the first gate. *)
Acquire(t) ==
    LET identity == IF RpcType(t) = "register" THEN worker[t].identity ELSE registered_identity
    IN  /\ pc[t] = "acquire" /\ network_lock = None
        /\ IF ~Needed(t)
           THEN GiveUp(t, "skipped") /\ UNCHANGED last_error
           ELSE IF identity = None \/ ~client
                THEN GiveUp(t, "deterministic") /\ last_error' = RecordedError(t)
                ELSE /\ network_lock' = t
                     /\ actual_identity' = [actual_identity EXCEPT ![t] = identity]
                     /\ Goto(t, "claim")
                     /\ UNCHANGED <<outcome, last_error>>
        /\ UNCHANGED <<target_registered, registered, registered_identity, operation, naming_rpc,
                       unset_events, worker, handle, external, history, shutting_down, client>>

(* Event() raises; the gate is asked again before the error is recorded. *)
EventFails(t) ==
    /\ pc[t] = "claim" /\ Fail
    /\ \E class \in FailureClasses :
        IF Needed(t) THEN GiveUp(t, class) /\ last_error' = RecordedError(t)
        ELSE GiveUp(t, "skipped") /\ UNCHANGED last_error
    /\ UNCHANGED <<target_registered, registered, registered_identity, operation, naming_rpc,
                   unset_events, worker, handle, external, last_command, calls,
                   shutting_down, client>>

PublishRegistration(t) ==   \* mutant: a deregistration is not published
    IF RpcType(t) = "register"
    THEN naming_rpc' = t /\ unset_events' = unset_events \cup {t}
    ELSE UNCHANGED <<naming_rpc, unset_events>>

(* The naming_rpc_* fields, for the exit handler. *)
Publish(t) == naming_rpc' = t /\ unset_events' = unset_events \cup {t}

(* The second gate, in one section with the metadata. *)
Claim(t) ==
    /\ pc[t] = "claim"
    /\ IF Needed(t)
       THEN /\ Publish(t)
            /\ Goto(t, "call")
            /\ UNCHANGED <<outcome, actual_identity, network_lock>>
       ELSE GiveUp(t, "skipped") /\ UNCHANGED <<naming_rpc, unset_events>>
    /\ UNCHANGED <<targets, operation, worker, handle, external, history, shutting_down, client>>

Applied(t) ==
    IF RpcType(t) = "register" THEN server \cup {actual_identity[t]}
    ELSE server \ {actual_identity[t]}

(* naming.register_instance or deregister_instance, answered with success *)
CallSucceeds(t) ==
    /\ pc[t] = "call"
    /\ server' = Applied(t)
    /\ doubtful' = doubtful \ {actual_identity[t]}
    /\ outcome' = [outcome EXCEPT ![t] = "succeeded"]
    /\ Goto(t, "commit")
    /\ UNCHANGED <<targets, operation, naming, worker, handle, actual_identity, history,
                   shutting_down, client>>

(* It raises: the request or its answer was lost, or Nacos refused. *)
CallFails(t) ==
    /\ pc[t] = "call" /\ Fail
    /\ server' \in {server, Applied(t)}
    /\ doubtful' = doubtful \cup {actual_identity[t]}
    /\ \E class \in FailureClasses : outcome' = [outcome EXCEPT ![t] = class]
    /\ Goto(t, "commit")
    /\ UNCHANGED <<targets, operation, naming, worker, handle, actual_identity,
                   last_command, calls, shutting_down, client>>

CommittedTarget(t) ==   \* mutant: the latest target is taken for the result
    /\ registered' = target_registered
    /\ registered_identity' = IF target_registered THEN actual_identity[t] ELSE None

(* The result is committed, then the finally clause releases the lock. *)
Committed(t) ==
    IF RpcType(t) = "register"
    THEN registered' = TRUE /\ registered_identity' = actual_identity[t]
    ELSE registered' = FALSE /\ registered_identity' = None

Commit(t) ==
    /\ pc[t] = "commit"
    /\ IF outcome[t] = "succeeded"
       THEN Committed(t) /\ last_error' = FALSE
       ELSE last_error' = RecordedError(t) /\ UNCHANGED <<registered, registered_identity>>
    /\ network_lock' = None
    /\ Goto(t, "finish")
    /\ UNCHANGED <<target_registered, operation, naming_rpc, unset_events, locals, external,
                   history, shutting_down, client>>

(* Only the latest call clears the metadata; every call sets its event. *)
MetadataAfter(t) == IF naming_rpc = t THEN None ELSE naming_rpc

Finish(t) ==
    /\ pc[t] = "finish"
    /\ naming_rpc' = MetadataAfter(t)
    /\ unset_events' = unset_events \ {t}
    /\ actual_identity' = [actual_identity EXCEPT ![t] = None]
    /\ Goto(t, Return(t))
    /\ UNCHANGED <<targets, operation, network_lock, worker, handle, outcome, external,
                   history, shutting_down, client>>

(***************************************************************************)
(* _registration_worker                                                    *)
(***************************************************************************)

(* Steps of a worker that touch its locals and the last error at most. *)
WorkerFrame ==
    UNCHANGED <<target_registered, registered, registered_identity, operation_kind,
                operation_thread, operation_generation, naming, handle, actual_identity,
                external, last_command, calls, shutting_down>>

Redirected(w) ==
    IF worker[w].direction = LatestNeeded THEN worker[w]
    ELSE [worker[w] EXCEPT !.direction = LatestNeeded, !.attempts = 0, !.recovering = FALSE,
              !.identity = IF LatestNeeded = "register" THEN None ELSE @]

(* The top of the loop: leave, or take the direction the target needs. *)
Top(w) ==
    /\ pc[w] = "top"
    /\ IF ~Owns(w) \/ shutting_down
       THEN Goto(w, "leave") /\ UNCHANGED <<last_error, worker>>
       ELSE IF Converged
            THEN Goto(w, "leave") /\ last_error' = FALSE /\ UNCHANGED worker
            ELSE /\ worker' = [worker EXCEPT ![w] = Redirected(w)]
                 /\ Goto(w, IF Redirected(w).recovering THEN "snapshot" ELSE "ready")
                 /\ UNCHANGED last_error
    /\ UNCHANGED <<operation_wakeup, outcome, failures, client>> /\ WorkerFrame

(* _interruptible_retry_wait: snapshot, clear, look again, wait. *)
WaitSnapshot(w) ==
    /\ pc[w] = "snapshot"
    /\ IF Owns(w) /\ ~shutting_down
       THEN /\ worker' = [worker EXCEPT ![w].generation = operation_generation,
                                        ![w].target = target_registered]
            /\ Goto(w, "clear")
       ELSE Goto(w, "top") /\ UNCHANGED worker
    /\ UNCHANGED <<last_error, operation_wakeup, outcome, failures, client>> /\ WorkerFrame

WaitClear(w) ==
    /\ pc[w] = "clear"
    /\ operation_wakeup' = FALSE
    /\ Goto(w, "recheck")
    /\ UNCHANGED <<last_error, worker, outcome, failures, client>> /\ WorkerFrame

Unchanged(w) ==
    /\ operation_generation = worker[w].generation
    /\ target_registered = worker[w].target

RecheckSkipped(w) ==   \* mutant: no second look after the event is cleared
    /\ pc[w] = "recheck"
    /\ Goto(w, "sleep")
    /\ UNCHANGED <<last_error, operation_wakeup, worker, outcome, failures, client>>
    /\ WorkerFrame

WaitRecheck(w) ==
    /\ pc[w] = "recheck"
    /\ Goto(w, IF Owns(w) /\ ~shutting_down /\ Unchanged(w) THEN "sleep" ELSE "top")
    /\ UNCHANGED <<last_error, operation_wakeup, worker, outcome, failures, client>>
    /\ WorkerFrame

(* Event.wait: woken, timed out, or refusing its argument.  It does so if  *)
(* NACOS_RETRY_INTERVAL is too long; one within a fifth of what it takes   *)
(* may be too long for the wait of a recovery, which jitter prolongs.      *)
WaitWoken(w) ==
    /\ pc[w] = "sleep" /\ operation_wakeup
    /\ Goto(w, "top")
    /\ UNCHANGED <<last_error, operation_wakeup, worker, outcome, failures, client>>
    /\ WorkerFrame

WaitTimesOut(w) ==
    /\ pc[w] = "sleep" /\ WaitOverflows # "always"
    /\ Goto(w, IF worker[w].recovering THEN "resume" ELSE "top")
    /\ UNCHANGED <<last_error, operation_wakeup, worker, outcome, failures, client>>
    /\ WorkerFrame

WaitRaises(w) ==
    /\ pc[w] = "sleep" /\ ~operation_wakeup
    /\ WaitOverflows = "always" \/ (WaitOverflows = "recovery" /\ worker[w].recovering)
    /\ last_error' = AfterFailure(worker[w].direction)
    /\ Goto(w, "leave")
    /\ UNCHANGED <<operation_wakeup, worker, outcome, failures, client>> /\ WorkerFrame

(* After a recovery wait, and again before the client is created. *)
Recheck(w) ==
    /\ pc[w] \in {"resume", "ready"}
    /\ IF StillNeeded(w)
       THEN Goto(w, IF pc[w] = "resume" THEN "ready" ELSE "prepare") /\ UNCHANGED last_error
       ELSE Goto(w, "top") /\ last_error' = ClearedIfConverged
    /\ UNCHANGED <<operation_wakeup, worker, outcome, failures, client>> /\ WorkerFrame

NeedsIdentity(w) == worker[w].direction = "register" /\ worker[w].identity = None

(* Create the client, resolve the identity to register. *)
Prepare(w) ==
    /\ pc[w] = "prepare"
    /\ client' = TRUE
    /\ IF NeedsIdentity(w)
       THEN \E i \in Identities : worker' = [worker EXCEPT ![w].identity = i]
       ELSE UNCHANGED worker
    /\ Goto(w, "acquire")
    /\ UNCHANGED <<last_error, operation_wakeup, outcome, failures>> /\ WorkerFrame

(* One of the two raises; the client may have been created already. *)
PrepareFails(w) ==
    /\ pc[w] = "prepare" /\ Fail
    /\ ~client \/ NeedsIdentity(w)
    /\ client' \in {client, client \/ NeedsIdentity(w)}
    /\ \E class \in FailureClasses : outcome' = [outcome EXCEPT ![w] = class]
    /\ Goto(w, "record")
    /\ UNCHANGED <<last_error, operation_wakeup, worker>> /\ WorkerFrame

(* After the call: converged, closing, failed, or on to a fresh target. *)
NextRound(w) ==
    LET cleaned == worker[w].direction = "deregister" /\ outcome[w] = "succeeded"
        fresh == [worker[w] EXCEPT !.identity = IF cleaned THEN None ELSE @]
    IN  IF LatestNeeded # worker[w].direction THEN [fresh EXCEPT !.direction = "none"]
        ELSE IF outcome[w] = "succeeded" THEN [fresh EXCEPT !.attempts = 0, !.recovering = FALSE]
        ELSE fresh

After(w) ==
    /\ pc[w] = "after"
    /\ last_error' = ClearedIfConverged
    /\ IF Converged \/ shutting_down
       THEN Goto(w, "leave") /\ UNCHANGED <<worker, outcome>>
       ELSE IF outcome[w] \in FailureClasses /\ LatestNeeded = worker[w].direction
            THEN Goto(w, "record") /\ UNCHANGED <<worker, outcome>>
            ELSE /\ worker' = [worker EXCEPT ![w] = NextRound(w)]
                 /\ outcome' = [outcome EXCEPT ![w] = "none"]
                 /\ Goto(w, "top")
    /\ UNCHANGED <<operation_wakeup, failures, client>> /\ WorkerFrame

(* _handle_worker_failure: record the error, then under a second section   *)
(* of the lock decide between stopping, another finite attempt and endless *)
(* recovery.                                                               *)
Record(w) ==
    /\ pc[w] = "record"
    /\ last_error' = AfterFailure(worker[w].direction)
    /\ Goto(w, "decide")
    /\ UNCHANGED <<operation_wakeup, worker, outcome, failures, client>> /\ WorkerFrame

OneAttemptMore(w) == worker[w].attempts + 1 <= MaxAttempts   \* mutant: off by one

AttemptsLeft(w) == worker[w].attempts + 1 < MaxAttempts

StopsExhausted(w) ==   \* mutant: no recovery after the finite attempts
    outcome[w] = "deterministic" \/ ~RetryEnabled \/ ~AttemptsLeft(w)

Stops(w) ==
    IF worker[w].recovering THEN outcome[w] # "transient"
    ELSE \/ outcome[w] = "deterministic" \/ ~RetryEnabled
         \/ ~AttemptsLeft(w) /\ outcome[w] # "transient"

Decided(w) ==
    IF worker[w].recovering THEN worker[w]
    ELSE [worker[w] EXCEPT !.attempts = @ + 1, !.recovering = ~AttemptsLeft(w)]

Decide(w) ==
    /\ pc[w] = "decide"
    /\ outcome' = [outcome EXCEPT ![w] = "none"]
    /\ IF ~Owns(w) \/ shutting_down \/ Converged
       THEN Goto(w, "leave") /\ last_error' = ClearedIfConverged /\ UNCHANGED worker
       ELSE /\ UNCHANGED last_error
            /\ IF LatestNeeded # worker[w].direction
               THEN Goto(w, "top") /\ UNCHANGED worker
               ELSE IF Stops(w)
                    THEN Goto(w, "leave") /\ UNCHANGED worker
                    ELSE /\ worker' = [worker EXCEPT ![w] = Decided(w)]
                         /\ Goto(w, IF Decided(w).recovering THEN "top" ELSE "snapshot")
    /\ UNCHANGED <<operation_wakeup, failures, client>> /\ WorkerFrame

(* The finally clause of the worker. *)
Leave(w) ==
    /\ pc[w] = "leave"
    /\ IF operation_thread = w
       THEN /\ operation_thread' = None
            /\ operation_kind' = IF operation_kind = "register" THEN "none" ELSE operation_kind
            /\ last_error' = ClearedIfConverged
       ELSE UNCHANGED <<operation_thread, operation_kind, last_error>>
    /\ Goto(w, "dead")
    /\ worker' = [worker EXCEPT ![w] = FreshWorker]
    /\ outcome' = [outcome EXCEPT ![w] = "none"]
    /\ UNCHANGED <<target_registered, registered, registered_identity, operation_generation,
                   operation_wakeup, naming, handle, actual_identity, external, history,
                   shutting_down, client>>

(***************************************************************************)
(* _atexit_handler_for and the lifespan shutdown                           *)
(***************************************************************************)

NoSnapshot == None   \* mutant: the call in flight is not noticed

Snapshot == naming_rpc

(* Close the runtime and take the snapshot, in one section. *)
ExitBegin(e) ==
    /\ pc[e] = "idle" /\ ~shutting_down
    /\ shutting_down' = TRUE
    /\ handle' = [handle EXCEPT ![e] = Snapshot]
    /\ Goto(e, "wake")
    /\ UNCHANGED <<targets, operation, naming, worker, actual_identity, outcome, external,
                   history, client>>

ExitWake(e) ==
    /\ pc[e] = "wake"
    /\ operation_wakeup' = TRUE
    /\ Goto(e, IF ~DeregisterOnExit THEN "exited"
               ELSE IF handle[e] # None THEN "await" ELSE "check")
    /\ UNCHANGED <<targets, operation_kind, operation_thread, operation_generation, naming,
                   locals, external, history, shutting_down, client>>

(* Wait for the event of the call in the snapshot, or for its timeout. *)
ExitWaited(e) ==
    /\ pc[e] = "await" /\ handle[e] \notin unset_events
    /\ Goto(e, "check")
    /\ UNCHANGED <<targets, operation, naming, locals, external, history, shutting_down, client>>

ExitWaitsOn(e) ==   \* mutant: the wait has no timeout
    /\ pc[e] = "await" /\ handle[e] \notin unset_events
    /\ Goto(e, "gave_up")
    /\ UNCHANGED <<targets, operation, naming, locals, external, history, shutting_down, client>>

ExitTimesOut(e) ==
    /\ pc[e] = "await"
    /\ Goto(e, "gave_up")
    /\ UNCHANGED <<targets, operation, naming, locals, external, history, shutting_down, client>>

ExitCheck(e) ==
    /\ pc[e] = "check"
    /\ Goto(e, IF registered THEN "acquire" ELSE "exited")
    /\ UNCHANGED <<targets, operation, naming, locals, external, history, shutting_down, client>>

(***************************************************************************)
(* The specification                                                       *)
(***************************************************************************)
NamingRpc(t) ==
    \/ Acquire(t) \/ EventFails(t) \/ Claim(t) \/ CallSucceeds(t) \/ CallFails(t)
    \/ Commit(t) \/ Finish(t)

CallerStep(c) ==
    \/ StartThread(c) \/ StartFails(c) \/ Wake(c) \/ NamingRpc(c) \/ Settle(c)
    \/ Reschedule(c)

WorkerStep(w) ==
    \/ Top(w) \/ WaitSnapshot(w) \/ WaitClear(w) \/ WaitRecheck(w) \/ WaitWoken(w)
    \/ WaitTimesOut(w) \/ WaitRaises(w) \/ Recheck(w) \/ Prepare(w) \/ PrepareFails(w)
    \/ NamingRpc(w) \/ After(w) \/ Record(w) \/ Decide(w) \/ Leave(w)

ExitStep(e) ==
    \/ ExitWake(e) \/ ExitWaited(e) \/ ExitTimesOut(e) \/ ExitCheck(e) \/ NamingRpc(e)

Next ==
    \/ \E c \in Callers : RegisterCommand(c) \/ DeregisterCommand(c) \/ CallerStep(c)
    \/ \E w \in Workers : WorkerStep(w)
    \/ \E e \in Exits : ExitBegin(e) \/ ExitStep(e)

Spec == Init /\ [][Next]_vars

(* Python threads run when they can, a wait ends, a call to Nacos returns:  *)
(* the SDK bounds it with its timeout.  No caller has to submit a command.  *)
Fairness ==
    /\ \A c \in Callers : WF_vars(CallerStep(c))
    /\ \A w \in Workers : WF_vars(WorkerStep(w))
    /\ \A e \in Exits : WF_vars(ExitStep(e))

FairSpec == Spec /\ Fairness

(***************************************************************************)
(* Invariants                                                              *)
(***************************************************************************)
PcType ==
    /\ pc \in [Threads -> RpcPcs \cup WorkerPcs \cup CallerPcs \cup ExitPcs]
    /\ \A c \in Callers : pc[c] \in RpcPcs \cup CallerPcs
    /\ \A w \in Workers : pc[w] \in RpcPcs \cup WorkerPcs
    /\ \A e \in Exits : pc[e] \in RpcPcs \cup ExitPcs

RuntimeType ==
    /\ target_registered \in BOOLEAN /\ registered \in BOOLEAN /\ last_error \in BOOLEAN
    /\ registered_identity \in Identities \cup {None}
    /\ operation_kind \in Directions \cup {"none"}
    /\ operation_thread \in Workers \cup {None}
    /\ operation_generation \in Nat /\ operation_wakeup \in BOOLEAN
    /\ shutting_down \in BOOLEAN /\ client \in BOOLEAN

NamingType ==
    /\ network_lock \in Threads \cup {None} /\ naming_rpc \in Threads \cup {None}
    /\ unset_events \subseteq Threads
    /\ actual_identity \in [Threads -> Identities \cup {None}]
    /\ outcome \in [Threads -> FailureClasses \cup {"none", "succeeded", "skipped"}]
    /\ server \subseteq Identities /\ doubtful \subseteq Identities

WorkerLocals ==
    [direction : Directions \cup {"none"}, attempts : 0 .. MaxAttempts, recovering : BOOLEAN,
     identity : Identities \cup {None}, generation : Nat, target : BOOLEAN]

WorkerType == worker \in [Workers -> WorkerLocals]

HandleType == handle \in [Callers \cup Exits -> Threads \cup {None}]

HistoryType == last_command \in Directions /\ calls \in Nat /\ failures \in Nat

TypeOK ==
    PcType /\ RuntimeType /\ NamingType /\ WorkerType /\ HandleType /\ HistoryType

(* A thread of deregister_instance_sync that owns the operation. *)
Deregistering(c) == pc[c] \in RpcPcs \cup {"wake_sync", "settle"}

(* One lifecycle operation at a time: operation_kind tells who runs it, a  *)
(* worker that is created but not started yet included.                    *)
OneOperation ==
    /\ \A w \in Workers : pc[w] # "dead" => Owns(w)
    /\ \A c \in Callers : Deregistering(c) =>
          /\ operation_kind = "deregister"
          /\ \A d \in Callers : Deregistering(d) => c = d
    /\ operation_kind = "register" => \E w \in Workers : pc[w] # "dead"
    /\ operation_kind = "deregister" => \E c \in Callers : Deregistering(c)

(* One Naming RPC at a time, and from before the call until its result is  *)
(* committed the metadata the exit handler snapshots describes it.         *)
OneNamingRpc ==
    \A t \in Threads : pc[t] \in {"call", "commit"} =>
        network_lock = t /\ naming_rpc = t /\ t \in unset_events

(* Between calls Nacos holds exactly the cached identity: only an identity *)
(* whose last call got no good answer may differ.                          *)
ServerMatchesRuntime ==
    (\A t \in Threads : pc[t] # "commit") =>
        \A i \in Identities \ doubtful : i \in server <=> registered /\ registered_identity = i

(* The exit handler never queues behind a Naming RPC of another thread:    *)
(* it waits for the event with a timeout, never for the lock.              *)
ExitNeverBlocksOnRpc ==
    \A e \in Exits : pc[e] = "acquire" =>
        \A t \in Threads \ {e} : pc[t] \notin {"call", "commit"}

(* The handler ran to its end, without a timeout or a failed call. *)
CleanExit(e) ==
    DeregisterOnExit /\ pc[e] = "exited" /\ outcome[e] \notin FailureClasses

CleanExitLeavesNothing ==
    \A e \in Exits : CleanExit(e) => ~registered /\ server \subseteq doubtful

(* An error is not left behind once the target is met. *)
NoStaleError == operation_kind = "none" /\ last_error => ~Converged

(* A worker asleep, with its event not set and nobody about to set it, has *)
(* missed nothing: since it took its snapshot no command was accepted and  *)
(* the process is not closing.  Only what came before the snapshot, when   *)
(* the worker had decided to wait, may be cleared with the event.          *)
Waking == {c \in Callers : pc[c] \in {"wake_sync", "wake_return"}}
          \cup {e \in Exits : pc[e] = "wake"}

NoWakeupIsMissed ==
    \A w \in Workers :
        pc[w] = "sleep" /\ ~operation_wakeup /\ Waking = {}
        => Owns(w) /\ ~shutting_down /\ Unchanged(w)

(* Once the handler is through, nothing registers behind its back. *)
ExitIsFinal ==
    [][\A e \in Exits : DeregisterOnExit /\ pc[e] = "exited"
          => UNCHANGED <<registered, registered_identity, server>>]_vars

(***************************************************************************)
(* The abstract specification this one implements                          *)
(***************************************************************************)
Inflight ==
    IF network_lock # None /\ pc[network_lock] \in {"call", "commit"}
    THEN RpcType(network_lock) ELSE "none"

Service == INSTANCE RegistrationService WITH
    target <- target_registered, inflight <- Inflight, closed <- shutting_down

(* Every step of the threads is a step of the last-command-wins service or *)
(* changes nothing it shows: a Naming RPC only begins while it is needed,  *)
(* one at a time, and the target is frozen once the process is closing.    *)
ImplementsService == Service!Spec

(***************************************************************************)
(* What the health endpoint makes of get_status, which reads everything in *)
(* one section.                                                            *)
(***************************************************************************)
OperationRunning == operation_kind # "none"

Health ==
    IF Converged \/ (OperationRunning /\ ~last_error) THEN "ok" ELSE "error"

(***************************************************************************)
(* Liveness                                                                *)
(***************************************************************************)

(* A worker that runs and has not yet decided to leave. *)
Working(w) == pc[w] \notin {"dead", "created", "leave"}

(* A worker with an unmet target brings the runtime to its target if every *)
(* failure it meets is transient and there are finitely many of them: no   *)
(* run of commands, waits and wakeups makes it give up or hang.            *)
RecoversFromTransients ==
    [](\A t \in Threads : outcome[t] \notin {"deterministic", "unknown"}) =>
        \A w \in Workers :
            Working(w) /\ ~Converged ~> Converged \/ shutting_down

(* Commands return: no caller waits for another thread for ever. *)
CallsReturn == \A c \in Callers : pc[c] # "idle" ~> pc[c] = "idle"

(* An unmet target is not reported as "ok" for ever: it is met, or the     *)
(* endpoint says so.  A failed single call of deregister_instance_sync, a  *)
(* thread that did not start and a command nobody carries out all show.    *)
HealthIsHonest ==
    Health = "ok" /\ ~Converged ~> Converged \/ Health = "error" \/ shutting_down

(* Shutdown is bounded: the handler ends although the Naming RPC of some   *)
(* other thread may never return.                                          *)
BoundedExitFairness ==
    /\ \A t \in Callers \cup Workers : WF_vars(Acquire(t) \/ Claim(t) \/ Commit(t) \/ Finish(t))
    /\ \A e \in Exits : WF_vars(ExitStep(e))

BoundedExitSpec == Spec /\ BoundedExitFairness

ShutdownIsBounded == \A e \in Exits : pc[e] = "wake" ~> pc[e] \in {"exited", "gave_up"}

(***************************************************************************)
(* What the documentation says and the code does not do                    *)
(***************************************************************************)

(* README.md: "a last-command-wins state machine".  A command that was     *)
(* accepted last is the target.                                            *)
LastCommandWins == target_registered = (last_command = "register")

(* ... and is carried out: with no operation running and no caller about   *)
(* to start one, an unmet target has an error to show for it.              *)
NoCommandIsLost ==
    /\ operation_kind = "none" /\ ~shutting_down
    /\ \A c \in Callers : pc[c] # "reschedule"
    => Converged \/ last_error
=============================================================================
