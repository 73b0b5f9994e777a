---------------------------- MODULE ProcessRuntime ----------------------------
(***************************************************************************)
(* The runtime of one application across forks: how a child process        *)
(* replaces what it inherited (_register_fork_hook,                        *)
(* _ensure_current_runtime), recovers the automatic registration of its    *)
(* parent (_resume_auto_register_if_pending, _prepare_registration), and   *)
(* creates its client (_get_or_create_client).                             *)
(*                                                                         *)
(* One process is followed from fork to fork.  Memory is copied by a fork: *)
(* the variables keep their values, the threads are gone, and a lock one   *)
(* of them held stays held by nobody.  What a command sets in motion once  *)
(* it is submitted is Lifecycle's: here a command moves the target.        *)
(***************************************************************************)
EXTENDS Naturals

CONSTANTS
    Threads,        \* threads that call the extension
    None,           \* a lock nobody holds
    Lost,           \* the holder of a lock that a fork left behind
    MaxForks,       \* bound on the forks
    MaxCalls        \* bound on the calls in one process

ASSUME RuntimeAssumption ==
    /\ None \notin Threads /\ Lost \notin Threads /\ None # Lost
    /\ MaxForks \in Nat /\ MaxCalls \in Nat

VARIABLES
    pid,
    (* the state of the application: its configuration, which never changes, *)
    auto_register,           \* NACOS_ENABLED and NACOS_AUTO_REGISTER
    invalid_config,          \* _registration_config_error finds an error
    (* and what a fork replaces *)
    runtime,                 \* its _AppRuntimeState
    stale,                   \* _runtime_stale
    rebuild_lock,            \* holder of _runtime_rebuild_lock
    validated,               \* _registration_error is in the state
    (* fields of the runtime *)
    auto_register_pending, target_registered, operation_generation, shutting_down,
    client, client_lock,
    (* module *)
    config_lock,             \* holder of logging._CONFIG_LOCK
    (* threads *)
    pc, operation,           \* where a thread stands and in which call
    seen,                    \* the runtime it read
    snapshot,                \* its _PendingRegistrationSnapshot
    (* history *)
    calls, created,          \* calls and runtimes of this process
    constructed,             \* clients constructed for this runtime
    last_command             \* the last command of this process that was accepted

config == <<auto_register, invalid_config>>
appstate == <<runtime, stale, rebuild_lock>>
lifecycle == <<auto_register_pending, target_registered, operation_generation, shutting_down,
               last_command>>
clients == <<client, client_lock, config_lock, constructed>>
locals == <<pc, operation, seen, snapshot>>
vars == <<pid, config, appstate, validated, lifecycle, clients, locals, calls, created>>

Operations == {"get_client", "register", "deregister", "exit"}
NoSnapshot == [generation |-> 0, target |-> FALSE]
NoRuntime == [pid |-> 0, id |-> 0]

(* init_app, in the process that is followed first: it raises when it is   *)
(* to register automatically and cannot                                    *)
Init ==
    /\ auto_register \in BOOLEAN /\ invalid_config \in BOOLEAN
    /\ auto_register => ~invalid_config
    /\ pid = 1 /\ runtime = [pid |-> 1, id |-> 1]
    /\ stale = FALSE /\ rebuild_lock = None
    /\ validated = auto_register
    /\ auto_register_pending = FALSE /\ target_registered = FALSE
    /\ operation_generation = 0 /\ shutting_down = FALSE
    /\ client = FALSE /\ client_lock = None /\ config_lock = None
    /\ pc = [t \in Threads |-> "idle"] /\ operation = [t \in Threads |-> "none"]
    /\ seen = [t \in Threads |-> NoRuntime] /\ snapshot = [t \in Threads |-> NoSnapshot]
    /\ calls = 0 /\ created = 0 /\ constructed = 0 /\ last_command = "none"

Goto(t, label) == pc' = [pc EXCEPT ![t] = label]

Return(t) ==
    /\ pc' = [pc EXCEPT ![t] = "idle"]
    /\ operation' = [operation EXCEPT ![t] = "none"]
    /\ seen' = [seen EXCEPT ![t] = NoRuntime]
    /\ snapshot' = [snapshot EXCEPT ![t] = NoSnapshot]

(***************************************************************************)
(* os.fork, by a thread outside the extension, and the child's hook        *)
(***************************************************************************)
Inherited(lock) == IF lock = None THEN None ELSE Lost

Fork ==
    /\ pid <= MaxForks /\ pid' = pid + 1
    /\ stale' = TRUE /\ rebuild_lock' = None
    /\ client_lock' = Inherited(client_lock) /\ config_lock' = Inherited(config_lock)
    /\ pc' = [t \in Threads |-> "idle"] /\ operation' = [t \in Threads |-> "none"]
    /\ seen' = [t \in Threads |-> NoRuntime] /\ snapshot' = [t \in Threads |-> NoSnapshot]
    /\ calls' = 0 /\ created' = 0 /\ last_command' = "none"
    /\ UNCHANGED <<config, runtime, validated, auto_register_pending, target_registered,
                   operation_generation, shutting_down, client, constructed>>

(***************************************************************************)
(* _ensure_current_runtime: two reads, then the rebuild under its lock     *)
(***************************************************************************)
Call(t) ==
    /\ pc[t] = "idle" /\ calls < MaxCalls /\ calls' = calls + 1
    /\ \E o \in Operations : operation' = [operation EXCEPT ![t] = o]
    /\ Goto(t, "read")
    /\ UNCHANGED <<pid, config, appstate, validated, lifecycle, clients, seen, snapshot, created>>

ReadRuntime(t) ==
    /\ pc[t] = "read"
    /\ seen' = [seen EXCEPT ![t] = runtime]
    /\ Goto(t, "check")
    /\ UNCHANGED <<pid, config, appstate, validated, lifecycle, clients, operation, snapshot, calls,
                   created>>

CurrentByFlag(r) == ~stale   \* mutant: the PID of the runtime is not compared

Current(r) == ~stale /\ r.pid = pid

CheckRuntime(t) ==
    /\ pc[t] = "check"
    /\ Goto(t, IF Current(seen[t]) THEN "enter" ELSE "rebuild")
    /\ UNCHANGED <<pid, config, appstate, validated, lifecycle, clients, operation, seen, snapshot,
                   calls, created>>

AlwaysOutdated == TRUE   \* mutant: no second look under the lock

Outdated == stale \/ runtime.pid # pid

(* _create_runtime for a fork.  That an automatic registration has an      *)
(* error to show cannot happen: init_app has refused it.                   *)
RegistrationError == validated /\ invalid_config

CreateRuntime ==
    /\ runtime' = [pid |-> pid, id |-> runtime.id + 1]
    /\ auto_register_pending' = (auto_register /\ ~RegistrationError)
    /\ target_registered' = (auto_register /\ RegistrationError)
    /\ operation_generation' = 0 /\ shutting_down' = FALSE
    /\ client' = FALSE /\ client_lock' = None

Rebuild(t) ==
    /\ pc[t] = "rebuild" /\ rebuild_lock = None
    /\ IF Outdated
       THEN /\ rebuild_lock' = t
            /\ CreateRuntime
            /\ created' = created + 1 /\ constructed' = 0
            /\ Goto(t, "clear") /\ UNCHANGED seen
       ELSE /\ seen' = [seen EXCEPT ![t] = runtime]
            /\ Goto(t, "enter")
            /\ UNCHANGED <<runtime, rebuild_lock, auto_register_pending, target_registered,
                           operation_generation, shutting_down, client, client_lock,
                           constructed, created>>
    /\ UNCHANGED <<pid, config, stale, validated, last_command, config_lock, operation, snapshot,
                   calls>>

ClearStale(t) ==
    /\ pc[t] = "clear"
    /\ stale' = FALSE /\ rebuild_lock' = None
    /\ seen' = [seen EXCEPT ![t] = runtime]
    /\ Goto(t, "enter")
    /\ UNCHANGED <<pid, config, runtime, validated, lifecycle, clients, operation, snapshot, calls,
                   created>>

(***************************************************************************)
(* The calls.  Within one process the runtime is not replaced once it is   *)
(* current (RuntimeIsCurrent): the calls of _require_state that follow the *)
(* first one, and the comparisons that make _prepare_registration start    *)
(* over, find what the first one found.                                    *)
(***************************************************************************)
Frame == UNCHANGED <<pid, config, appstate, calls, created>>

(* _resume_auto_register_if_pending *)
PeekPending(t) ==
    /\ pc[t] = "enter" /\ operation[t] = "get_client"
    /\ Goto(t, IF shutting_down \/ ~auto_register_pending THEN "client" ELSE "pending")
    /\ UNCHANGED <<validated, lifecycle, clients, operation, seen, snapshot>> /\ Frame

(* _prepare_registration for a pending recovery: the snapshot ... *)
TakeSnapshot(t) ==
    /\ pc[t] = "pending"
    /\ IF shutting_down \/ ~auto_register_pending
       THEN Goto(t, "client") /\ UNCHANGED snapshot
       ELSE /\ snapshot' = [snapshot EXCEPT ![t] = [generation |-> operation_generation,
                                                    target |-> target_registered]]
            /\ Goto(t, "recover")
    /\ UNCHANGED <<validated, lifecycle, clients, operation, seen>> /\ Frame

SnapshotTrusted(t) == ~shutting_down   \* mutant: the snapshot is not compared

SnapshotMatches(t) ==
    /\ ~shutting_down /\ auto_register_pending
    /\ snapshot[t] = [generation |-> operation_generation, target |-> target_registered]

(* _prepare_register_locked, which counts a repeated command only if idle *)
TargetRegistered ==
    /\ target_registered' = TRUE
    /\ \E repeated \in {0, 1} :
        operation_generation' = operation_generation + (IF target_registered THEN repeated ELSE 1)

SubmittedOnly ==   \* mutant: the pending recovery is not consumed
    /\ TargetRegistered
    /\ UNCHANGED auto_register_pending

(* ... and the transition, once the snapshot proves that nothing happened. *)
Submitted ==
    /\ auto_register_pending' = FALSE
    /\ TargetRegistered

SubmitPending(t) ==
    /\ pc[t] = "recover"
    /\ IF SnapshotMatches(t)
       THEN Submitted
       ELSE UNCHANGED <<auto_register_pending, target_registered, operation_generation>>
    /\ Goto(t, "client")
    /\ UNCHANGED <<validated, shutting_down, last_command, clients, operation, seen, snapshot>>
    /\ Frame

(* An explicit registration: look for the validation result, validate, ... *)
EnterRegister(t) ==
    /\ pc[t] = "enter" /\ operation[t] = "register"
    /\ IF shutting_down THEN Return(t)
       ELSE /\ Goto(t, IF validated THEN "submit" ELSE "validate")
            /\ UNCHANGED <<operation, seen, snapshot>>
    /\ UNCHANGED <<validated, lifecycle, clients>> /\ Frame

InstallValidation(t) ==
    /\ pc[t] = "validate"
    /\ validated' = TRUE
    /\ Goto(t, "submit")
    /\ UNCHANGED <<lifecycle, clients, operation, seen, snapshot>> /\ Frame

(* ... and submit, or raise the error that validation found. *)
SubmitRegister(t) ==
    /\ pc[t] = "submit"
    /\ IF shutting_down \/ invalid_config
       THEN UNCHANGED <<auto_register_pending, target_registered, operation_generation,
                        last_command>>
       ELSE Submitted /\ last_command' = "register"
    /\ Return(t)
    /\ UNCHANGED <<validated, shutting_down, clients>> /\ Frame

(* deregister_instance_sync, up to the section that moves the target *)
SubmitDeregister(t) ==
    /\ pc[t] = "enter" /\ operation[t] = "deregister"
    /\ auto_register_pending' = FALSE
    /\ IF shutting_down THEN UNCHANGED <<target_registered, operation_generation, last_command>>
       ELSE /\ target_registered' = FALSE
            /\ operation_generation' = operation_generation + (IF target_registered THEN 1 ELSE 0)
            /\ last_command' = "deregister"
    /\ Return(t)
    /\ UNCHANGED <<validated, shutting_down, clients>> /\ Frame

(* _shutdown_lifespan or the atexit handler, up to the closing section *)
Exit(t) ==
    /\ pc[t] = "enter" /\ operation[t] = "exit"
    /\ shutting_down' = TRUE
    /\ Return(t)
    /\ UNCHANGED <<validated, auto_register_pending, target_registered, operation_generation,
                   last_command, clients>> /\ Frame

(***************************************************************************)
(* _get_or_create_client, for get_client and for a registration worker     *)
(***************************************************************************)

(* A worker has the runtime it was started for, and no call to return to. *)
WorkerBegins(t) ==
    /\ pc[t] = "idle" /\ calls < MaxCalls /\ calls' = calls + 1
    /\ target_registered /\ Current(runtime) /\ ~shutting_down
    /\ operation' = [operation EXCEPT ![t] = "worker"]
    /\ seen' = [seen EXCEPT ![t] = runtime]
    /\ Goto(t, "client")
    /\ UNCHANGED <<pid, config, appstate, validated, lifecycle, clients, snapshot, created>>

ClientCached(t) ==
    /\ pc[t] = "client"
    /\ IF client THEN Return(t)
       ELSE Goto(t, "client_lock") /\ UNCHANGED <<operation, seen, snapshot>>
    /\ UNCHANGED <<validated, lifecycle, clients>> /\ Frame

NeverCached == FALSE   \* mutant: no second look under the lock

Cached == client

ClientLocked(t) ==
    /\ pc[t] = "client_lock" /\ client_lock = None
    /\ IF Cached THEN Return(t) /\ UNCHANGED client_lock
       ELSE /\ client_lock' = t
            /\ Goto(t, "configure") /\ UNCHANGED <<operation, seen, snapshot>>
    /\ UNCHANGED <<validated, lifecycle, client, config_lock, constructed>> /\ Frame

(* configure_sdk_loggers, before the SDK's client is constructed and after *)
Configure(t) ==
    /\ pc[t] \in {"configure", "cleanup"} /\ config_lock = None
    /\ config_lock' = t
    /\ Goto(t, IF pc[t] = "configure" THEN "construct" ELSE "publish")
    /\ UNCHANGED <<validated, lifecycle, client, client_lock, constructed, operation, seen,
                   snapshot>> /\ Frame

Construct(t) ==
    /\ pc[t] = "construct"
    /\ config_lock' = None
    /\ constructed' = constructed + 1
    /\ Goto(t, "cleanup")
    /\ UNCHANGED <<validated, lifecycle, client, client_lock, operation, seen, snapshot>> /\ Frame

ConstructFailsLocked(t) ==   \* mutant: the lock is not released when the SDK raises
    /\ pc[t] = "construct"
    /\ config_lock' = None
    /\ Return(t)
    /\ UNCHANGED <<validated, lifecycle, client, client_lock, constructed>> /\ Frame

ConstructFails(t) ==
    /\ pc[t] = "construct"
    /\ config_lock' = None /\ client_lock' = None
    /\ Return(t)
    /\ UNCHANGED <<validated, lifecycle, client, constructed>> /\ Frame

Publish(t) ==
    /\ pc[t] = "publish"
    /\ config_lock' = None /\ client_lock' = None
    /\ client' = TRUE
    /\ Return(t)
    /\ UNCHANGED <<validated, lifecycle, constructed>> /\ Frame

EnsureCurrentRuntime(t) == ReadRuntime(t) \/ CheckRuntime(t) \/ Rebuild(t) \/ ClearStale(t)

Step(t) ==
    \/ EnsureCurrentRuntime(t)
    \/ PeekPending(t) \/ TakeSnapshot(t) \/ SubmitPending(t)
    \/ EnterRegister(t) \/ InstallValidation(t) \/ SubmitRegister(t)
    \/ SubmitDeregister(t) \/ Exit(t)
    \/ ClientCached(t) \/ ClientLocked(t) \/ Configure(t) \/ Construct(t) \/ ConstructFails(t)
    \/ Publish(t)

Next == Fork \/ \E t \in Threads : Call(t) \/ WorkerBegins(t) \/ Step(t)

Spec == Init /\ [][Next]_vars

(* Threads run; a lock that is free goes to one that waits for it, and the *)
(* calls of a process are finitely many.  Nobody has to call or to fork.   *)
FairSpec == Spec /\ \A t \in Threads : WF_vars(Step(t))

(***************************************************************************)
(* Properties                                                              *)
(***************************************************************************)
EnsurePcs == {"read", "check", "rebuild", "clear"}
InsidePcs == {"enter", "pending", "recover", "validate", "submit"}
ClientPcs == {"client", "client_lock", "configure", "construct", "cleanup", "publish"}

(* Every variable keeps its type, and the locks are held by the threads    *)
(* inside their sections and by no other thread of the process.            *)
TypeOK ==
    /\ pid \in Nat /\ runtime \in [pid : Nat, id : Nat] /\ runtime.pid <= pid
    /\ {auto_register, invalid_config, stale, validated} \subseteq BOOLEAN
    /\ {rebuild_lock, client_lock, config_lock} \subseteq Threads \cup {None, Lost}
    /\ auto_register_pending \in BOOLEAN /\ target_registered \in BOOLEAN
    /\ shutting_down \in BOOLEAN /\ client \in BOOLEAN
    /\ operation_generation \in Nat
    /\ pc \in [Threads -> {"idle"} \cup EnsurePcs \cup InsidePcs \cup ClientPcs]
    /\ operation \in [Threads -> Operations \cup {"none", "worker"}]
    /\ seen \in [Threads -> [pid : Nat, id : Nat]]
    /\ snapshot \in [Threads -> [generation : Nat, target : BOOLEAN]]
    /\ calls \in Nat /\ created \in Nat /\ constructed \in Nat
    /\ last_command \in {"none", "register", "deregister"}
    /\ \A t \in Threads :
          /\ rebuild_lock = t <=> pc[t] = "clear"
          /\ client_lock = t <=> pc[t] \in {"configure", "construct", "cleanup", "publish"}
          /\ config_lock = t <=> pc[t] \in {"construct", "publish"}

(* A call works on the runtime of its own process, and on the one that     *)
(* every other call of the process works on: the parent's runtime, with    *)
(* its locks, is out of reach as soon as _ensure_current_runtime returns.  *)
RuntimeIsCurrent ==
    \A t \in Threads : pc[t] \in InsidePcs \cup ClientPcs =>
        ~stale /\ seen[t] = runtime /\ runtime.pid = pid

(* A process builds at most one runtime, however many calls find the       *)
(* inherited one at the same time.                                         *)
OneRuntimePerProcess == created <= 1

(* One client per runtime: none is constructed beside another.  *)
OneClient == constructed <= 1 /\ (client => constructed = 1)

(* The recovered automatic registration never overrides a command.  *)
RecoveryYieldsToCommands == last_command = "deregister" => ~target_registered

(* Nobody gets as far as a client while the automatic registration the     *)
(* child owes is still pending: only the exit may drop it.                 *)
RecoveryIsNotSkipped ==
    \A t \in Threads : pc[t] \in ClientPcs => ~auto_register_pending \/ shutting_down

(* Calls end, failures of the client and forks of other threads included:  *)
(* unless the fork left the lock of the loggers behind, see below.         *)
CallsEnd ==
    [](config_lock # Lost) => \A t \in Threads : pc[t] # "idle" ~> pc[t] = "idle"

(* docs/production.md: "inherited locks, runtime and client references are *)
(* discarded and rebuilt in each child PID".  No thread waits for a lock   *)
(* that a thread of the parent held.                                       *)
InheritedLocksAreDiscarded ==
    \A t \in Threads :
        /\ pc[t] = "rebuild" => rebuild_lock # Lost
        /\ pc[t] = "client_lock" => client_lock # Lost
        /\ pc[t] \in {"configure", "cleanup"} => config_lock # Lost
=============================================================================
