----------------------------- MODULE Application -----------------------------
(***************************************************************************)
(* The applications of one process: init_app with what it installs, the    *)
(* loggers it shares with every other application and with the SDK, and    *)
(* the hooks that end an application.                                      *)
(*                                                                         *)
(* Callers run init_app or create a client (of which ProcessRuntime has    *)
(* the rest: here it is what happens to the loggers).  _INIT_LOCK is held  *)
(* over a whole init_app, _CONFIG_LOCK over one configuration of a logger  *)
(* or of all SDK loggers; the constructor of the SDK takes neither.        *)
(***************************************************************************)
EXTENDS Configuration, Naturals, Sequences

CONSTANTS
    Callers,
    Apps, Extensions,
    None,
    BaseConfig,     \* _base_config of each extension
    Overrides,      \* mappings init_app may be called with
    Loggers,        \* SDK_LOGGER_NAMES
    UserPaths,      \* paths of an application's own routes
    MaxInits,       \* bound on the calls of init_app
    MaxFailures     \* bound on what raises in between

Serials == 1 .. MaxInits
Names == {Loggers[i] : i \in 1 .. Len(Loggers)}
Configs == {LoadConfig(BaseConfig[e], o) : e \in Extensions, o \in Overrides}

ASSUME ApplicationAssumption ==
    /\ None \notin Callers /\ None \notin Serials
    /\ MaxInits \in Nat /\ MaxFailures \in Nat
    /\ Loggers \in Seq(Names) /\ Loggers # <<>>

VARIABLES
    (* the applications *)
    app_state,      \* app.state.nacos: the serial of the call that made the state
    states,         \* every state that was made
    health_path,    \* path of the health route
    lifespans,      \* states whose lifespan is part of the application
    fork_hooks, exit_hooks,
    (* the loggers of the process *)
    handlers,       \* owned handlers of the extension's logger
    open_handlers,  \* owned handlers that are open
    flags,          \* the call its level, propagate and disabled are of
    sdk,            \* handlers and disabled of each SDK logger
    unclean,        \* history: SDK loggers a failed construction left a handler on
    (* locks and threads *)
    init_lock, config_lock, pc, job,
    (* the process *)
    process, deregistrations, serial, failures

apps == <<app_state, states, health_path, lifespans, fork_hooks, exit_hooks>>
named == <<handlers, open_handlers, flags>>
loggers == <<named, sdk, unclean>>
locks == <<init_lock, config_lock>>
ends == <<process, deregistrations>>
vars == <<apps, loggers, locks, ends, pc, job, serial, failures>>

NoJob == [owner |-> None, app |-> None, config |-> DEFAULTS, serial |-> 0,
          left |-> <<>>, next |-> "idle"]

Init ==
    /\ app_state = [a \in Apps |-> None] /\ states = [s \in {} |-> NoJob]
    /\ health_path = [a \in Apps |-> None]
    /\ lifespans = {} /\ fork_hooks = {} /\ exit_hooks = {}
    /\ handlers = {} /\ open_handlers = {} /\ flags = 0
    /\ sdk = [l \in Names |-> [handlers |-> {"user"}, disabled |-> FALSE]]
    /\ unclean = {}
    /\ init_lock = None /\ config_lock = None
    /\ pc = [c \in Callers |-> "idle"] /\ job = [c \in Callers |-> NoJob]
    /\ process = "running" /\ deregistrations = [s \in Serials |-> 0]
    /\ serial = 0 /\ failures = 0

Goto(c, label) == pc' = [pc EXCEPT ![c] = label]
Fail == failures < MaxFailures /\ failures' = failures + 1

(* The end of a call, whether it returns or raises *)
Return(c) == Goto(c, "idle") /\ job' = [job EXCEPT ![c] = NoJob]

(***************************************************************************)
(* init_app, up to the loggers                                             *)
(***************************************************************************)
CallInit(c) ==
    /\ pc[c] = "idle" /\ process = "running" /\ serial < MaxInits
    /\ serial' = serial + 1
    /\ \E e \in Extensions, a \in Apps, o \in Overrides :
        job' = [job EXCEPT ![c] = [NoJob EXCEPT !.owner = e, !.app = a, !.serial = serial + 1,
                                                !.config = LoadConfig(BaseConfig[e], o)]]
    /\ Goto(c, "init")
    /\ UNCHANGED <<apps, loggers, locks, ends, failures>>

NoInitLock == TRUE   \* mutant: init_app takes no lock

InitLockFree == init_lock = None

(* A state that is there is reused or, if it is another's, refused; so is  *)
(* a configuration.  Either way nothing has changed.                       *)
EnterInit(c) ==
    /\ pc[c] = "init" /\ InitLockFree
    /\ IF app_state[job[c].app] # None \/ Refused(job[c].config)
       THEN Return(c) /\ UNCHANGED init_lock
       ELSE Goto(c, "build") /\ init_lock' = c /\ UNCHANGED job
    /\ UNCHANGED <<apps, loggers, config_lock, ends, serial, failures>>

(***************************************************************************)
(* configure_named_logger.  The new handlers are made before the old ones  *)
(* are given up.                                                           *)
(***************************************************************************)
Made(c) == {<<job[c].serial, kind>> : kind \in DesiredHandlers(job[c].config)}

NoConfigLock == TRUE   \* mutant: the loggers are configured without a lock

ConfigLockFree == config_lock = None

BuildHandlers(c) ==
    /\ pc[c] = "build" /\ ConfigLockFree
    /\ config_lock' = c
    /\ open_handlers' = open_handlers \cup Made(c)
    /\ Goto(c, "remove")
    /\ UNCHANGED <<apps, handlers, flags, sdk, unclean, init_lock, ends, job, serial, failures>>

ConsoleLeftOpen(c) ==   \* mutant: the console handler is not closed again
    /\ pc[c] = "build" /\ ConfigLockFree /\ Fail
    /\ "file" \in DesiredHandlers(job[c].config)
    /\ open_handlers' = open_handlers \cup {h \in Made(c) : h[2] = "console"}
    /\ init_lock' = None
    /\ Return(c)
    /\ UNCHANGED <<apps, handlers, flags, sdk, unclean, config_lock, ends, serial>>

(* The log file cannot be opened: what was made is closed, the logger is   *)
(* as it was, and so is the application.                                   *)
BuildFails(c) ==
    /\ pc[c] = "build" /\ ConfigLockFree /\ Fail
    /\ "file" \in DesiredHandlers(job[c].config)
    /\ init_lock' = None
    /\ Return(c)
    /\ UNCHANGED <<apps, loggers, config_lock, ends, serial>>

RemoveOwned(c) ==
    /\ pc[c] = "remove"
    /\ handlers' = {} /\ open_handlers' = open_handlers \ handlers
    /\ Goto(c, "add")
    /\ UNCHANGED <<apps, flags, sdk, unclean, locks, ends, job, serial, failures>>

AddHandlers(c) ==
    /\ pc[c] = "add"
    /\ handlers' = handlers \cup Made(c)
    /\ Goto(c, "flags")
    /\ UNCHANGED <<apps, open_handlers, flags, sdk, unclean, locks, ends, job, serial, failures>>

(* configure_sdk_loggers is next; what follows it is in the job.           *)
SilenceNext(c, next) ==
    /\ job' = [job EXCEPT ![c].left = Loggers, ![c].next = next]
    /\ Goto(c, "sdk")

SetFlags(c) ==
    /\ pc[c] = "flags"
    /\ flags' = job[c].serial
    /\ config_lock' = None
    /\ SilenceNext(c, "install")
    /\ UNCHANGED <<apps, handlers, open_handlers, sdk, unclean, init_lock, ends, serial, failures>>

(***************************************************************************)
(* configure_sdk_loggers: one logger after another, and each in two steps, *)
(* since the constructor of the SDK looks at the handlers without a lock.  *)
(***************************************************************************)
EnterSdk(c) ==
    /\ pc[c] = "sdk" /\ ConfigLockFree
    /\ config_lock' = c
    /\ Goto(c, "detach")
    /\ UNCHANGED <<apps, loggers, init_lock, ends, job, serial, failures>>

Detach(c) ==
    /\ pc[c] = "detach"
    /\ sdk' = [sdk EXCEPT ![Head(job[c].left)].handlers = {}]
    /\ unclean' = unclean \ {Head(job[c].left)}
    /\ Goto(c, "silence")
    /\ UNCHANGED <<apps, named, locks, ends, job, serial, failures>>

FirstOnly(c) == <<>>   \* mutant: only the first logger is configured

Remaining(c) == Tail(job[c].left)

Silence(c) ==
    /\ pc[c] = "silence"
    /\ sdk' = [sdk EXCEPT ![Head(job[c].left)] =
                  [handlers |-> @.handlers \cup {"null"}, disabled |-> TRUE]]
    /\ job' = [job EXCEPT ![c].left = Remaining(c)]
    /\ IF Remaining(c) = <<>>
       THEN Goto(c, job[c].next) /\ config_lock' = None
       ELSE Goto(c, "detach") /\ UNCHANGED config_lock
    /\ UNCHANGED <<apps, named, unclean, init_lock, ends, serial, failures>>

(***************************************************************************)
(* init_app, once the loggers are configured                               *)
(***************************************************************************)
InstallState(c) ==
    LET j == job[c]
    IN  /\ pc[c] = "install"
        /\ app_state' = [app_state EXCEPT ![j.app] = j.serial]
        /\ states' = [s \in DOMAIN states \cup {j.serial} |->
              IF s = j.serial
              THEN [owner |-> j.owner, app |-> j.app, config |-> j.config, shutting_down |-> FALSE]
              ELSE states[s]]
        /\ Goto(c, "health")
        /\ UNCHANGED <<health_path, lifespans, fork_hooks, exit_hooks, loggers, locks, ends, job,
                       serial, failures>>

(* register_health_route leaves a route alone that has the name or path.   *)
HealthRoute(c) ==
    LET a == job[c].app
        path == job[c].config.NACOS_HEALTH_CHECK_PATH
        free == health_path[a] = None /\ path \notin UserPaths
    IN  /\ pc[c] = "health"
        /\ health_path' = IF On(job[c].config, "NACOS_HEALTH_CHECK_ENABLED") /\ free
                          THEN [health_path EXCEPT ![a] = path] ELSE health_path
        /\ Goto(c, "fork")
        /\ UNCHANGED <<app_state, states, lifespans, fork_hooks, exit_hooks, loggers, locks, ends,
                       job, serial, failures>>

(* A hook holds the extension and the application, not the state.          *)
Hook(c) == [owner |-> job[c].owner, app |-> job[c].app, serial |-> job[c].serial]

ForkHook(c) ==
    /\ pc[c] = "fork"
    /\ fork_hooks' = fork_hooks \cup {Hook(c)}
    /\ Goto(c, "atexit")
    /\ UNCHANGED <<app_state, states, health_path, lifespans, exit_hooks, loggers, locks, ends, job,
                   serial, failures>>

ExitHookAlways(c) ==   \* mutant: whatever NACOS_DEREGISTER_ON_EXIT says
    /\ pc[c] = "atexit"
    /\ exit_hooks' = exit_hooks \cup {Hook(c)}
    /\ Goto(c, "router")
    /\ UNCHANGED <<app_state, states, health_path, lifespans, fork_hooks, loggers, locks, ends, job,
                   serial, failures>>

ExitHook(c) ==
    /\ pc[c] = "atexit"
    /\ exit_hooks' = IF On(job[c].config, "NACOS_DEREGISTER_ON_EXIT")
                     THEN exit_hooks \cup {Hook(c)} ELSE exit_hooks
    /\ Goto(c, "router")
    /\ UNCHANGED <<app_state, states, health_path, lifespans, fork_hooks, loggers, locks, ends, job,
                   serial, failures>>

IncludeRouter(c) ==
    /\ pc[c] = "router"
    /\ lifespans' = lifespans \cup {job[c].serial}
    /\ init_lock' = None
    /\ Return(c)
    /\ UNCHANGED <<app_state, states, health_path, fork_hooks, exit_hooks, loggers, config_lock,
                   ends, serial, failures>>

StateKept(c) ==   \* mutant: no rollback
    /\ pc[c] \in {"health", "fork", "atexit", "router"} /\ Fail
    /\ init_lock' = None
    /\ Return(c)
    /\ UNCHANGED <<apps, loggers, config_lock, ends, serial>>

(* Any of these raises: the state goes, routes and hooks stay.             *)
Rollback(c) ==
    /\ pc[c] \in {"health", "fork", "atexit", "router"} /\ Fail
    /\ app_state' = IF app_state[job[c].app] = job[c].serial
                    THEN [app_state EXCEPT ![job[c].app] = None] ELSE app_state
    /\ init_lock' = None
    /\ Return(c)
    /\ UNCHANGED <<states, health_path, lifespans, fork_hooks, exit_hooks, loggers, config_lock, ends,
                   serial>>

(***************************************************************************)
(* Creation of a client: the SDK loggers are silenced before and after the *)
(* constructor, which gives a logger without handlers one of its own.  A   *)
(* state serves the threads that found it, even while init_app goes on.    *)
(***************************************************************************)
CreateClient(c) ==
    /\ pc[c] = "idle" /\ process = "running"
    /\ \E a \in Apps :
        /\ app_state[a] # None
        /\ LET cfg == states[app_state[a]].config
           IN  On(cfg, "NACOS_ENABLED") /\ ~ConnectionError(cfg)
    /\ SilenceNext(c, "construct")
    /\ UNCHANGED <<apps, loggers, locks, ends, serial, failures>>

HandlerAdded ==
    sdk' \in {[l \in Names |-> IF l \in added THEN [sdk[l] EXCEPT !.handlers = {"default"}]
                              ELSE sdk[l]] :
              added \in SUBSET {l \in Names : sdk[l].handlers = {}}}

NotCleanedUp(c) ==   \* mutant: the loggers are not looked at again
    /\ pc[c] = "construct"
    /\ HandlerAdded
    /\ Return(c)
    /\ UNCHANGED <<apps, named, unclean, locks, ends, serial, failures>>

Construct(c) ==
    /\ pc[c] = "construct"
    /\ HandlerAdded
    /\ SilenceNext(c, "publish")
    /\ UNCHANGED <<apps, named, unclean, locks, ends, serial, failures>>

ConstructFails(c) ==
    /\ pc[c] = "construct" /\ Fail
    /\ HandlerAdded
    /\ unclean' = unclean \cup {l \in Names : sdk'[l] # sdk[l]}
    /\ Return(c)
    /\ UNCHANGED <<apps, named, locks, ends, serial>>

PublishClient(c) ==
    /\ pc[c] = "publish"
    /\ Return(c)
    /\ UNCHANGED <<apps, loggers, locks, ends, serial, failures>>

(***************************************************************************)
(* The end of an application and of the process                            *)
(***************************************************************************)
CleansUpAgain(s) ==   \* mutant: a runtime that is closed is cleaned up again
    /\ states' = [states EXCEPT ![s].shutting_down = TRUE]
    /\ deregistrations' = [deregistrations EXCEPT ![s] = @ + 1]

(* _atexit_handler_for, of which Lifecycle has the rest *)
CleanUp(s) ==
    IF states[s].shutting_down THEN UNCHANGED <<states, deregistrations>>
    ELSE /\ states' = [states EXCEPT ![s].shutting_down = TRUE]
         /\ deregistrations' = [deregistrations EXCEPT ![s] = @ + 1]

(* _shutdown_lifespan *)
LifespanEnds(s) ==
    /\ process = "running" /\ s \in lifespans
    /\ lifespans' = lifespans \ {s}
    /\ IF app_state[states[s].app] # s THEN UNCHANGED <<states, deregistrations>>
       ELSE IF On(states[s].config, "NACOS_DEREGISTER_ON_EXIT") THEN CleanUp(s)
       ELSE states' = [states EXCEPT ![s].shutting_down = TRUE] /\ UNCHANGED deregistrations
    /\ UNCHANGED <<app_state, health_path, fork_hooks, exit_hooks, loggers, locks, process, pc, job,
                   serial, failures>>

(* The interpreter joins the threads before it runs the hooks.             *)
BeginExit ==
    /\ process = "running" /\ \A c \in Callers : pc[c] = "idle"
    /\ process' = "exiting"
    /\ UNCHANGED <<apps, loggers, locks, deregistrations, pc, job, serial, failures>>

(* The handler of _register_atexit: whatever state the application has     *)
(* now, if it is the extension's.                                          *)
RunExitHook(h) ==
    LET s == app_state[h.app]
    IN  /\ process = "exiting" /\ h \in exit_hooks
        /\ exit_hooks' = exit_hooks \ {h}
        /\ IF s # None /\ states[s].owner = h.owner THEN CleanUp(s)
           ELSE UNCHANGED <<states, deregistrations>>
        /\ UNCHANGED <<app_state, health_path, lifespans, fork_hooks, loggers, locks, process, pc,
                       job, serial, failures>>

Exited ==
    /\ process = "exiting" /\ exit_hooks = {}
    /\ process' = "exited"
    /\ UNCHANGED <<apps, loggers, locks, deregistrations, pc, job, serial, failures>>

(* Nothing is left to do: no deadlock.                                     *)
Over == process = "exited" /\ UNCHANGED vars

(***************************************************************************)
(* The specification                                                       *)
(***************************************************************************)
ConfigureNamed(c) ==
    BuildHandlers(c) \/ BuildFails(c) \/ RemoveOwned(c) \/ AddHandlers(c) \/ SetFlags(c)

ConfigureSdk(c) == EnterSdk(c) \/ Detach(c) \/ Silence(c)

Install(c) ==
    \/ InstallState(c) \/ HealthRoute(c) \/ ForkHook(c) \/ ExitHook(c) \/ IncludeRouter(c)
    \/ Rollback(c)

Client(c) == CreateClient(c) \/ Construct(c) \/ ConstructFails(c) \/ PublishClient(c)

Next ==
    \/ \E c \in Callers :
          CallInit(c) \/ EnterInit(c) \/ ConfigureNamed(c) \/ ConfigureSdk(c) \/ Install(c) \/ Client(c)
    \/ \E s \in Serials : LifespanEnds(s)
    \/ BeginExit \/ (\E h \in exit_hooks : RunExitHook(h)) \/ Exited \/ Over

Spec == Init /\ [][Next]_vars

(***************************************************************************)
(* Properties                                                              *)
(***************************************************************************)
Kinds == {"null", "console", "file"}
Pcs == {"idle", "init", "build", "remove", "add", "flags", "sdk", "detach", "silence", "install",
        "health", "fork", "atexit", "router", "construct", "publish"}
States == [owner : Extensions, app : Apps, config : Configs, shutting_down : BOOLEAN]
Hooks == [owner : Extensions, app : Apps, serial : Serials]

(* Every variable keeps its type; a switch of an installed configuration   *)
(* is a boolean, whatever init_app was given.                              *)
TypeOK ==
    /\ app_state \in [Apps -> Serials \cup {None}]
    /\ DOMAIN states \subseteq Serials
    /\ \A s \in DOMAIN states :
          states[s] \in States /\ \A key \in BoolKeys : states[s].config[key] \in {"yes", "no"}
    /\ \A a \in Apps : app_state[a] # None =>
          app_state[a] \in DOMAIN states /\ states[app_state[a]].app = a
    /\ lifespans \subseteq DOMAIN states /\ fork_hooks \subseteq Hooks /\ exit_hooks \subseteq Hooks
    /\ handlers \subseteq Serials \X Kinds /\ open_handlers \subseteq Serials \X Kinds
    /\ flags \in Serials \cup {0} /\ serial \in 0 .. MaxInits /\ failures \in 0 .. MaxFailures
    /\ sdk \in [Names -> [handlers : SUBSET {"user", "default", "null"}, disabled : BOOLEAN]]
    /\ unclean \subseteq Names
    /\ init_lock \in Callers \cup {None} /\ config_lock \in Callers \cup {None}
    /\ pc \in [Callers -> Pcs] /\ process \in {"running", "exiting", "exited"}
    /\ deregistrations \in [Serials -> Nat]

Initializing(c) == pc[c] \in {"build", "remove", "add", "flags", "install", "health", "fork",
                              "atexit", "router"} \/ job[c].next = "install"

(* Initialization of an application is exclusive and happens once: a state *)
(* is only ever taken back by the call that is still installing it, never  *)
(* replaced by a second call, of this extension or of another one.         *)
StateIsNeverReplaced ==
    [][\A a \in Apps : app_state[a] # None /\ app_state'[a] # app_state[a] =>
          /\ app_state'[a] = None
          /\ \E c \in Callers : Initializing(c) /\ job[c].serial = app_state[a]]_vars

CleansUp(s) == On(states[s].config, "NACOS_DEREGISTER_ON_EXIT")

(* An application that is initialized has everything that was installed    *)
(* for it: the hook that marks its runtime stale in a child and, unless    *)
(* the process is past it, the hook that cleans up.  What is half          *)
(* installed belongs to a call that is still at it.  And if it registers   *)
(* by itself, it can: what ProcessRuntime assumes of its configuration.    *)
InstalledComplete ==
    \A a \in Apps : app_state[a] # None =>
        LET s == app_state[a]
            cfg == states[s].config
            HookedBy(hooks) == \E h \in hooks : h.owner = states[s].owner /\ h.app = a
        IN  /\ ShouldAutoRegister(cfg) => ~InvalidConnection(cfg) /\ cfg.NACOS_SERVICE = "valid"
            /\ (\A c \in Callers : job[c].serial # s) =>
                  /\ HookedBy(fork_hooks)
                  /\ CleansUp(s) /\ process = "running" => HookedBy(exit_hooks)
                  /\ s \in lifespans \/ states[s].shutting_down

(* The logger of the extension is never a mixture of two configurations,   *)
(* and reconfiguration closes what it replaces: when nobody configures it, *)
(* its handlers and flags are those of one call, and at any time an open   *)
(* handler is on the logger or in the hands of the call that made it.      *)
LoggerIsOfOneCall ==
    /\ config_lock = None =>
          /\ \A h \in handlers : h[1] = flags
          /\ flags # 0 => handlers # {}
    /\ handlers \subseteq open_handlers
    /\ \A h \in open_handlers \ handlers :
          \E c \in Callers : job[c].serial = h[1] /\ pc[c] \in {"remove", "add"}

(* SDK loggers the thread has still to configure after its construction *)
StillToClean(c) ==
    IF job[c].next # "publish" THEN {}
    ELSE IF pc[c] = "silence" THEN {Tail(job[c].left)[i] : i \in 1 .. Len(job[c].left) - 1}
    ELSE {job[c].left[i] : i \in 1 .. Len(job[c].left)}

(* No record of the SDK reaches a destination of the user once there is an *)
(* initialized application, whatever other threads configure; and a        *)
(* handler the SDK added on its own is there only until the thread that    *)
(* caused it has cleaned up, unless the construction failed.               *)
SdkIsSilent ==
    \A l \in Names :
        /\ (\E a \in Apps : app_state[a] # None) =>
              sdk[l].disabled /\ "user" \notin sdk[l].handlers
        /\ "default" \in sdk[l].handlers =>
              l \in unclean \/ \E c \in Callers : l \in StillToClean(c)

(* The exits of the lifespan and of the process clean a runtime up once    *)
(* between them: not twice, and not never.  NACOS_DEREGISTER_ON_EXIT =     *)
(* False keeps an instance registered, but for the hook a failed call for  *)
(* the same application left behind.                                       *)
CleanedUpOnce ==
    /\ \A s \in Serials : deregistrations[s] <= 1
    /\ process = "exited" =>
          \A a \in Apps : app_state[a] # None /\ CleansUp(app_state[a]) =>
              deregistrations[app_state[a]] = 1
    /\ \A s \in DOMAIN states : deregistrations[s] > 0 =>
          \E r \in DOMAIN states :
              /\ CleansUp(r) /\ states[r].app = states[s].app /\ states[r].owner = states[s].owner
=============================================================================
