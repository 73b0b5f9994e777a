-------------------------- MODULE ApplicationProofs --------------------------
(***************************************************************************)
(* Proofs about Application for every set of callers, applications,        *)
(* extensions, configurations and loggers, and every bound.                *)
(*                                                                         *)
(* A step of a caller moves that caller only, and everything but the       *)
(* loggers of the SDK is protected by a lock or by the serial of the call: *)
(* the invariant says what each place in the code owes to the locks and to *)
(* the job of the call (JobInv), what the extension's logger, the SDK's    *)
(* loggers, the applications and their ends look like from there.          *)
(***************************************************************************)
EXTENDS Application, TLAPS

NamedPcs == {"build", "remove", "add", "flags"}
SdkPcs == {"sdk", "detach", "silence"}
InstallPcs == {"install", "health", "fork", "atexit", "router"}
Installed == {"health", "fork", "atexit", "router"}
ClientPcs == {"construct", "publish"}

(* The call that makes a state, from its first step to its last *)
Calling(c) == pc[c] \in {"init"} \cup NamedPcs \/ job[c].next = "install"

(***************************************************************************)
(* Jobs and locks                                                          *)
(***************************************************************************)
Jobs == [owner : Extensions \cup {None}, app : Apps \cup {None},
         config : Configs \cup {DEFAULTS}, serial : Serials \cup {0},
         left : Seq(Names), next : {"idle", "install"} \cup ClientPcs]

JobType == job \in [Callers -> Jobs]

(* Where a caller stands tells what it has in its hands. *)
JobShape(c) ==
    /\ pc[c] = "idle" => job[c] = NoJob
    /\ pc[c] \in {"init"} \cup NamedPcs => job[c].next = "idle"
    /\ pc[c] \in SdkPcs => job[c].next # "idle" /\ job[c].left # <<>>
    /\ pc[c] \in InstallPcs => job[c].next = "install" /\ job[c].left = <<>>
    /\ pc[c] \in ClientPcs => job[c].next = pc[c] /\ job[c].left = <<>>
    /\ job[c].next \in ClientPcs => job[c].serial = 0

CallShape(c) ==
    Calling(c) =>
        /\ job[c].owner \in Extensions /\ job[c].app \in Apps
        /\ job[c].config \in Configs /\ job[c].serial \in Serials
        /\ pc[c] # "init" => init_lock = c /\ ~Refused(job[c].config)

LockShape(c) ==
    pc[c] \in {"remove", "add", "flags", "detach", "silence"} => config_lock = c

(* A serial is of one call, and only an installed state has one. *)
SerialInv ==
    /\ \A c, d \in Callers : c # d /\ job[c].serial = job[d].serial => job[c].serial = 0
    /\ \A c \in Callers : job[c].serial <= serial
    /\ DOMAIN states \subseteq 1 .. serial
    /\ \A c \in Callers : pc[c] \notin Installed => job[c].serial \notin DOMAIN states

JobInv ==
    /\ JobType /\ SerialInv
    /\ \A c \in Callers : JobShape(c) /\ CallShape(c) /\ LockShape(c)
    /\ process # "running" => \A c \in Callers : pc[c] = "idle"

(***************************************************************************)
(* The extension's logger                                                  *)
(***************************************************************************)
LoggerInv ==
    /\ (\A c \in Callers : pc[c] \notin {"add", "flags"}) =>
          (\A h \in handlers : h[1] = flags) /\ (flags # 0 => handlers # {})
    /\ \A c \in Callers :
          /\ pc[c] = "add" => handlers = {}
          /\ pc[c] = "flags" => handlers = Made(c)
          /\ pc[c] \in {"remove", "add"} => Made(c) \subseteq open_handlers
          /\ pc[c] \in {"init", "build", "remove"} => \A h \in handlers : h[1] # job[c].serial
    /\ \A h \in handlers : h[1] <= serial
    /\ handlers \subseteq open_handlers
    /\ \A h \in open_handlers \ handlers :
          \E c \in Callers : pc[c] \in {"remove", "add"} /\ h \in Made(c)

(***************************************************************************)
(* The loggers of the SDK                                                  *)
(***************************************************************************)
Within(l, q) == \E i \in 1 .. Len(q) : q[i] = l

Silent(l) == sdk[l].disabled /\ "user" \notin sdk[l].handlers

SilenceInv ==
    /\ \A c \in Callers, l \in Names :
          pc[c] \in SdkPcs \cup InstallPcs \cup ClientPcs => Within(l, job[c].left) \/ Silent(l)
    /\ \A c \in Callers : pc[c] = "silence" => "user" \notin sdk[Head(job[c].left)].handlers
    /\ (\E a \in Apps : app_state[a] # None) => \A l \in Names : Silent(l)

DefaultInv ==
    \A l \in Names : "default" \in sdk[l].handlers =>
        l \in unclean \/ \E c \in Callers : l \in StillToClean(c)

(***************************************************************************)
(* The applications                                                        *)
(***************************************************************************)
Matches(h, s) == h.owner = states[s].owner /\ h.app = states[s].app

(* What a call has installed when it stands at c *)
InstallShape(c) ==
    /\ Initializing(c) /\ pc[c] \notin Installed => app_state[job[c].app] = None
    /\ pc[c] \in Installed =>
          /\ app_state[job[c].app] = job[c].serial
          /\ job[c].serial \in DOMAIN states
          /\ Matches(job[c], job[c].serial)
          /\ states[job[c].serial].config = job[c].config
    /\ pc[c] \in {"atexit", "router"} => Hook(c) \in fork_hooks
    /\ pc[c] = "router" /\ On(job[c].config, "NACOS_DEREGISTER_ON_EXIT") => Hook(c) \in exit_hooks

(* What an application has once no call is at it *)
Complete(s) ==
    /\ \E h \in fork_hooks : Matches(h, s)
    /\ s \in lifespans \/ states[s].shutting_down
    /\ CleansUp(s) =>
          \/ process # "running" /\ states[s].shutting_down
          \/ \E h \in exit_hooks : Matches(h, s)

AppShape(a) ==
    app_state[a] # None /\ (\A c \in Callers : job[c].serial # app_state[a]) =>
        Complete(app_state[a])

AppInv ==
    /\ \A s \in DOMAIN states : ~Refused(states[s].config)
    /\ \A c \in Callers : InstallShape(c)
    /\ \A a \in Apps : AppShape(a)

(***************************************************************************)
(* Their ends                                                              *)
(***************************************************************************)
(* A state is deregistered when it is closed, if it is at all. *)
CountInv ==
    /\ \A s \in Serials :
          /\ deregistrations[s] <= 1
          /\ deregistrations[s] > 0 => s \in DOMAIN states /\ states[s].shutting_down
    /\ \A s \in DOMAIN states : states[s].shutting_down /\ CleansUp(s) => deregistrations[s] = 1
    /\ \A s \in DOMAIN states : deregistrations[s] > 0 =>
          \E r \in DOMAIN states : CleansUp(r) /\ Matches(states[r], s)

(* An exit hook goes back to a state that asked for it. *)
HookInv == \A h \in exit_hooks : \E r \in DOMAIN states : CleansUp(r) /\ Matches(h, r)

CleanInv == CountInv /\ HookInv /\ (process = "exited" => exit_hooks = {})

IInv == TypeOK /\ JobInv /\ LoggerInv /\ SilenceInv /\ DefaultInv /\ AppInv /\ CleanInv

(* What one caller does *)
Step(c) ==
    CallInit(c) \/ EnterInit(c) \/ ConfigureNamed(c) \/ ConfigureSdk(c) \/ Install(c) \/ Client(c)

(* What anybody else does: a lifespan or a hook ends, the process does *)
Ending ==
    \/ \E s \in Serials : LifespanEnds(s)
    \/ BeginExit \/ (\E h \in exit_hooks : RunExitHook(h)) \/ Exited \/ Over

(***************************************************************************)
(* Configurations and sequences                                            *)
(***************************************************************************)
LEMMA BoolKeysAreRead ==
  ASSUME NEW base, NEW overrides, NEW key \in BoolKeys
  PROVE  LoadConfig(base, overrides)[key] \in {"yes", "no"}
<1>1. key \in DOMAIN DEFAULTS /\ DEFAULTS[key] \in {"yes", "no"}
  BY DEF BoolKeys, DEFAULTS
<1>2. LoadConfig(base, overrides)[key] = ToBool(Given(key, base, overrides), DEFAULTS[key])
  BY <1>1 DEF LoadConfig
<1> QED BY <1>1, <1>2 DEF ToBool

(* A configuration that init_app accepts and that registers, can. *)
LEMMA AcceptedIsValid ==
  ASSUME NEW cfg, ~Refused(cfg), ShouldAutoRegister(cfg)
  PROVE  ~InvalidConnection(cfg) /\ cfg.NACOS_SERVICE = "valid"
  BY DEF Refused, ShouldAutoRegister, RegistrationError, ConnectionError, InvalidRegistration

LEMMA HandlersDesired ==
  ASSUME NEW cfg
  PROVE  DesiredHandlers(cfg) # {} /\ DesiredHandlers(cfg) \subseteq Kinds
  BY DEF DesiredHandlers, Wanted, Kinds

LEMMA LoggersWithin == Loggers \in Seq(Names) /\ Loggers # <<>> /\ \A l \in Names : Within(l, Loggers)
  BY ApplicationAssumption DEF Within, Names

LEMMA TailWithin ==
  ASSUME NEW q \in Seq(Names), q # <<>>
  PROVE  /\ Head(q) \in Names /\ Tail(q) \in Seq(Names)
         /\ \A l : Within(l, q) <=> l = Head(q) \/ Within(l, Tail(q))
<1>1. /\ Head(q) = q[1] /\ q[1] \in Names /\ Tail(q) \in Seq(Names)
      /\ Len(q) \in Nat \ {0} /\ Len(Tail(q)) = Len(q) - 1
      /\ \A i \in 1 .. Len(Tail(q)) : Tail(q)[i] = q[i + 1]
  OBVIOUS
<1>2. ASSUME NEW l, Within(l, q), l # Head(q) PROVE Within(l, Tail(q))
  <2>1. PICK i \in 1 .. Len(q) : q[i] = l
    BY <1>2 DEF Within
  <2>2. i - 1 \in 1 .. Len(Tail(q)) /\ Tail(q)[i - 1] = l
    BY <1>1, <1>2, <2>1
  <2> QED BY <2>2 DEF Within
<1>3. ASSUME NEW l, Within(l, Tail(q)) PROVE Within(l, q)
  <2>1. PICK i \in 1 .. Len(Tail(q)) : Tail(q)[i] = l
    BY <1>3 DEF Within
  <2>2. i + 1 \in 1 .. Len(q) /\ q[i + 1] = l
    BY <1>1, <2>1
  <2> QED BY <2>2 DEF Within
<1>4. Within(Head(q), q)
  BY <1>1 DEF Within
<1> QED BY <1>1, <1>2, <1>3, <1>4

(***************************************************************************)
(* Jobs and locks                                                          *)
(***************************************************************************)

(* The actions of a caller, for the facts that are about all of them *)
USE DEF NamedPcs, SdkPcs, InstallPcs, Installed, ClientPcs

LEMMA StepMoves ==
  ASSUME JobType, NEW c \in Callers, Step(c)
  PROVE  /\ \E l \in Pcs : Goto(c, l)
         /\ job' = job \/ \E x : job' = [job EXCEPT ![c] = x]
         /\ pc[c] # "idle" \/ process = "running"
         /\ UNCHANGED <<process, deregistrations>>
<1> USE DEF Pcs
<1>1. CASE CallInit(c) \/ EnterInit(c)
  BY <1>1 DEF CallInit, EnterInit, Goto, Return, ends
<1>2. CASE ConfigureNamed(c)
  BY <1>2 DEF ConfigureNamed, BuildHandlers, BuildFails, RemoveOwned, AddHandlers, SetFlags, Goto,
              SilenceNext, Return, ends
<1>3. CASE ConfigureSdk(c)
  <2>1. job[c].next \in Pcs
    BY DEF JobType, Jobs
  <2> QED BY <1>3, <2>1 DEF ConfigureSdk, EnterSdk, Detach, Silence, ends
<1>4. CASE Install(c)
  BY <1>4 DEF Install, InstallState, HealthRoute, ForkHook, ExitHook, IncludeRouter, Rollback,
              Return, ends
<1>5. CASE Client(c)
  BY <1>5 DEF Client, CreateClient, Construct, ConstructFails, PublishClient, SilenceNext, Return,
              ends
<1> QED BY <1>1, <1>2, <1>3, <1>4, <1>5 DEF Step

(* The other callers stand where they stood, with their locks. *)
LEMMA OthersStay ==
  ASSUME TypeOK, JobInv, NEW c \in Callers, Step(c)
  PROVE  /\ \A d \in Callers : d # c => pc'[d] = pc[d] /\ job'[d] = job[d]
         /\ pc' \in [Callers -> Pcs]
         /\ init_lock' = init_lock \/ (init_lock \in {c, None} /\ init_lock' \in {c, None})
         /\ config_lock' = config_lock \/ (config_lock \in {c, None} /\ config_lock' \in {c, None})
         /\ process = "running"
<1>1. pc \in [Callers -> Pcs] /\ \E l \in Pcs : Goto(c, l)
  BY StepMoves DEF TypeOK, JobInv
<1>2. \A d \in Callers : d # c => pc'[d] = pc[d]
  BY <1>1 DEF Goto
<1>3. pc' \in [Callers -> Pcs]
  BY <1>1 DEF Goto
<1>4. \A d \in Callers : d # c => job'[d] = job[d]
  BY StepMoves DEF JobInv, JobType
<1>5. process = "running"
  BY StepMoves DEF JobInv
<1>6. init_lock' = init_lock \/ (init_lock \in {c, None} /\ init_lock' \in {c, None})
  <2>1. CASE EnterInit(c)
    BY <2>1 DEF EnterInit, InitLockFree
  <2>2. CASE BuildFails(c)
    BY <2>2 DEF BuildFails, JobInv, CallShape, Calling
  <2>3. CASE IncludeRouter(c) \/ Rollback(c)
    BY <2>3 DEF IncludeRouter, Rollback, JobInv, JobShape, CallShape, Calling
  <2>4. CASE ~(EnterInit(c) \/ BuildFails(c) \/ IncludeRouter(c) \/ Rollback(c))
    BY <2>4 DEF Step, CallInit, ConfigureNamed, BuildHandlers, RemoveOwned, AddHandlers, SetFlags,
                ConfigureSdk, EnterSdk, Detach, Silence, Install, InstallState, HealthRoute,
                ForkHook, ExitHook, Client, CreateClient, Construct, ConstructFails,
                PublishClient, locks
  <2> QED BY <2>1, <2>2, <2>3, <2>4
<1>7. config_lock' = config_lock \/ (config_lock \in {c, None} /\ config_lock' \in {c, None})
  <2>1. CASE BuildHandlers(c) \/ EnterSdk(c)
    BY <2>1 DEF BuildHandlers, EnterSdk, ConfigLockFree
  <2>2. CASE SetFlags(c) \/ Silence(c)
    BY <2>2 DEF SetFlags, Silence, JobInv, LockShape
  <2>3. CASE ~(BuildHandlers(c) \/ EnterSdk(c) \/ SetFlags(c) \/ Silence(c))
    BY <2>3 DEF Step, CallInit, EnterInit, ConfigureNamed, BuildFails, RemoveOwned, AddHandlers,
                ConfigureSdk, Detach, Install, InstallState, HealthRoute, ForkHook, ExitHook,
                IncludeRouter, Rollback, Client, CreateClient, Construct, ConstructFails,
                PublishClient, locks
  <2> QED BY <2>1, <2>2, <2>3
<1> QED BY <1>2, <1>3, <1>4, <1>5, <1>6, <1>7

(* Where a step takes its caller, and what it does to the job *)
LEMMA StepOfCaller ==
  ASSUME TypeOK, JobInv, NEW c \in Callers, NEW l, Goto(c, l)
  PROVE  pc'[c] = l /\ \A x : job' = [job EXCEPT ![c] = x] => job'[c] = x
  BY DEF TypeOK, JobInv, JobType, Goto

(* What JobInv says of one caller *)
OwnJob(c) ==
    /\ job[c] \in Jobs
    /\ JobShape(c) /\ CallShape(c) /\ LockShape(c)
    /\ pc[c] \notin Installed => job[c].serial \notin DOMAIN states
    /\ job[c].serial <= serial

LEMMA NoJobIsEmpty == NoJob \in Jobs /\ NoJob.serial = 0 /\ NoJob.next = "idle"
  BY DEF NoJob, Jobs

LEMMA ReturnKeepsJob ==
  ASSUME TypeOK, JobInv, NEW c \in Callers, Return(c), DOMAIN states' = DOMAIN states, serial' = serial
  PROVE  OwnJob(c)' /\ job'[c].serial = 0
<1>1. pc'[c] = "idle" /\ job'[c] = NoJob
  BY StepOfCaller DEF Return
<1>2. 0 \notin DOMAIN states /\ 0 <= serial
  BY DEF JobInv, SerialInv, TypeOK
<1> QED
  BY <1>1, <1>2, NoJobIsEmpty
  DEF OwnJob, JobShape, CallShape, LockShape, Calling

LEMMA InitKeepsJob ==
  ASSUME TypeOK, JobInv, NEW c \in Callers, CallInit(c) \/ EnterInit(c)
  PROVE  OwnJob(c)' /\ job'[c].serial \in {job[c].serial, 0, serial + 1}
<1>1. CASE CallInit(c)
  <2>1. PICK e \in Extensions, a \in Apps, o \in Overrides :
          job' = [job EXCEPT ![c] = [NoJob EXCEPT !.owner = e, !.app = a, !.serial = serial + 1,
                                                  !.config = LoadConfig(BaseConfig[e], o)]]
    BY <1>1 DEF CallInit
  <2>2. job'[c] = [owner |-> e, app |-> a, config |-> LoadConfig(BaseConfig[e], o),
                   serial |-> serial + 1, left |-> <<>>, next |-> "idle"]
    BY <2>1 DEF JobInv, JobType, NoJob
  <2>3. LoadConfig(BaseConfig[e], o) \in Configs
    BY DEF Configs
  <2>4. serial + 1 \in Serials /\ serial \in Nat /\ serial' = serial + 1 /\ states' = states
    <3>1. serial \in 0 .. MaxInits
      BY DEF TypeOK
    <3>2. serial < MaxInits /\ serial' = serial + 1 /\ states' = states
      BY <1>1 DEF CallInit, apps
    <3> QED BY <3>1, <3>2, ApplicationAssumption DEF Serials
  <2>5. pc'[c] = "init"
    BY <1>1, StepOfCaller DEF CallInit
  <2>6. job'[c] \in Jobs
    BY <2>2, <2>3, <2>4 DEF Jobs
  <2>7. serial + 1 \notin DOMAIN states
    BY <2>4 DEF JobInv, SerialInv
  <2> QED
    BY <2>2, <2>3, <2>4, <2>5, <2>6, <2>7 DEF OwnJob, JobShape, CallShape, LockShape, Calling
<1>2. CASE EnterInit(c)
  <2>1. UNCHANGED <<states, serial>>
    BY <1>2 DEF EnterInit, apps
  <2>2. CASE app_state[job[c].app] # None \/ Refused(job[c].config)
    BY <1>2, <2>1, <2>2, ReturnKeepsJob DEF EnterInit
  <2>3. CASE ~(app_state[job[c].app] # None \/ Refused(job[c].config))
    <3>1. pc[c] = "init" /\ pc'[c] = "build" /\ init_lock' = c /\ job' = job
      BY <1>2, <2>3, StepOfCaller DEF EnterInit
    <3> QED
      BY <2>1, <2>3, <3>1
      DEF OwnJob, JobInv, JobType, SerialInv, JobShape, CallShape, LockShape, Calling
  <2> QED BY <2>2, <2>3
<1> QED BY <1>1, <1>2

LEMMA NamedKeepsJob ==
  ASSUME TypeOK, JobInv, NEW c \in Callers, ConfigureNamed(c)
  PROVE  OwnJob(c)' /\ job'[c].serial \in {job[c].serial, 0}
<1>1. UNCHANGED <<states, serial>>
  BY DEF ConfigureNamed, BuildHandlers, BuildFails, RemoveOwned, AddHandlers, SetFlags, apps
<1>2. CASE BuildFails(c)
  BY <1>1, <1>2, ReturnKeepsJob DEF BuildFails
<1>3. CASE BuildHandlers(c) \/ RemoveOwned(c) \/ AddHandlers(c)
  <2>1. /\ pc[c] \in {"build", "remove", "add"} /\ pc'[c] \in {"remove", "add", "flags"}
        /\ job' = job /\ init_lock' = init_lock /\ config_lock' = c
    BY <1>3, StepOfCaller
    DEF BuildHandlers, RemoveOwned, AddHandlers, locks, JobInv, LockShape
  <2> QED
    BY <1>1, <2>1 DEF OwnJob, JobInv, JobType, SerialInv, JobShape, CallShape, LockShape, Calling
<1>4. CASE SetFlags(c)
  <2>1. /\ pc[c] = "flags" /\ pc'[c] = "sdk" /\ init_lock' = init_lock
        /\ job' = [job EXCEPT ![c].left = Loggers, ![c].next = "install"]
    BY <1>4, StepOfCaller DEF SetFlags, SilenceNext
  <2>2. /\ job'[c] = [job[c] EXCEPT !.left = Loggers, !.next = "install"]
        /\ job[c] \in Jobs
    BY <2>1 DEF JobInv, JobType
  <2>3. /\ job'[c] \in Jobs /\ job'[c].left = Loggers /\ job'[c].next = "install"
        /\ job'[c].owner = job[c].owner /\ job'[c].app = job[c].app
        /\ job'[c].config = job[c].config /\ job'[c].serial = job[c].serial
    BY <2>2, LoggersWithin DEF Jobs
  <2> QED
    BY <1>1, <2>1, <2>3, LoggersWithin
    DEF OwnJob, JobInv, SerialInv, JobShape, CallShape, LockShape, Calling
<1> QED BY <1>2, <1>3, <1>4 DEF ConfigureNamed

LEMMA SdkKeepsJob ==
  ASSUME TypeOK, JobInv, NEW c \in Callers, ConfigureSdk(c)
  PROVE  OwnJob(c)' /\ job'[c].serial = job[c].serial
<1>1. UNCHANGED <<states, serial, init_lock>>
  BY DEF ConfigureSdk, EnterSdk, Detach, Silence, apps, locks
<1>2. CASE EnterSdk(c) \/ Detach(c)
  <2>1. /\ pc[c] \in {"sdk", "detach"} /\ pc'[c] \in {"detach", "silence"}
        /\ job' = job /\ config_lock' = c
    BY <1>2, StepOfCaller DEF EnterSdk, Detach, locks, JobInv, LockShape
  <2> QED
    BY <1>1, <2>1 DEF OwnJob, JobInv, JobType, SerialInv, JobShape, CallShape, LockShape, Calling
<1>3. CASE Silence(c)
  <2>1. pc[c] = "silence" /\ job' = [job EXCEPT ![c].left = Remaining(c)]
    BY <1>3 DEF Silence
  <2>2. job[c] \in Jobs /\ job[c].left # <<>> /\ job[c].next # "idle"
    BY <2>1 DEF JobInv, JobType, JobShape
  <2>3. Remaining(c) \in Seq(Names)
    BY <2>2, TailWithin DEF Remaining, Jobs
  <2>4. job'[c] = [job[c] EXCEPT !.left = Remaining(c)]
    BY <2>1 DEF JobInv, JobType
  <2>5. /\ job'[c] \in Jobs /\ job'[c].left = Remaining(c) /\ job'[c].next = job[c].next
        /\ job'[c].owner = job[c].owner /\ job'[c].app = job[c].app
        /\ job'[c].config = job[c].config /\ job'[c].serial = job[c].serial
    BY <2>2, <2>3, <2>4 DEF Jobs
  <2>6. IF Remaining(c) = <<>> THEN pc'[c] = job[c].next ELSE pc'[c] = "detach" /\ config_lock' = config_lock
    BY <1>3, StepOfCaller DEF Silence
  <2>7. job[c].next \in {"install", "construct", "publish"}
    BY <2>2 DEF Jobs
  <2> QED
    BY <1>1, <2>1, <2>2, <2>5, <2>6, <2>7
    DEF OwnJob, JobInv, SerialInv, JobShape, CallShape, LockShape, Calling
<1> QED BY <1>2, <1>3 DEF ConfigureSdk

LEMMA InstallKeepsJob ==
  ASSUME TypeOK, JobInv, NEW c \in Callers, Install(c)
  PROVE  OwnJob(c)' /\ job'[c].serial \in {job[c].serial, 0}
<1>1. serial' = serial
  BY DEF Install, InstallState, HealthRoute, ForkHook, ExitHook, IncludeRouter, Rollback
<1>2. CASE IncludeRouter(c) \/ Rollback(c)
  BY <1>1, <1>2, ReturnKeepsJob DEF IncludeRouter, Rollback
<1>3. CASE InstallState(c) \/ HealthRoute(c) \/ ForkHook(c) \/ ExitHook(c)
  <2>1. /\ pc[c] \in InstallPcs /\ pc'[c] \in Installed /\ job' = job /\ init_lock' = init_lock
    BY <1>3, StepOfCaller DEF InstallState, HealthRoute, ForkHook, ExitHook, locks
  <2> QED
    BY <1>1, <2>1 DEF OwnJob, JobInv, JobType, SerialInv, JobShape, CallShape, LockShape, Calling
<1> QED BY <1>2, <1>3 DEF Install

LEMMA ClientKeepsJob ==
  ASSUME TypeOK, JobInv, NEW c \in Callers, Client(c)
  PROVE  OwnJob(c)' /\ job'[c].serial = 0
<1>1. UNCHANGED <<states, serial>>
  BY DEF Client, CreateClient, Construct, ConstructFails, PublishClient, apps
<1>2. CASE ConstructFails(c) \/ PublishClient(c)
  BY <1>1, <1>2, ReturnKeepsJob DEF ConstructFails, PublishClient
<1>3. ASSUME NEW next \in ClientPcs, SilenceNext(c, next), job[c].serial = 0
      PROVE  OwnJob(c)' /\ job'[c].serial = 0
  <2>1. /\ pc'[c] = "sdk" /\ job[c] \in Jobs
        /\ job'[c] = [job[c] EXCEPT !.left = Loggers, !.next = next]
    BY <1>3, StepOfCaller DEF SilenceNext, JobInv, JobType
  <2>2. /\ job'[c] \in Jobs /\ job'[c].left = Loggers /\ job'[c].next = next
        /\ job'[c].serial = 0
    BY <1>3, <2>1, LoggersWithin DEF Jobs
  <2>3. 0 \notin DOMAIN states /\ 0 <= serial
    BY DEF JobInv, SerialInv, TypeOK
  <2> QED
    BY <1>1, <1>3, <2>1, <2>2, <2>3, LoggersWithin
    DEF OwnJob, JobShape, CallShape, LockShape, Calling
<1>4. CASE CreateClient(c)
  <2>1. job[c].serial = 0
    BY <1>4, NoJobIsEmpty DEF CreateClient, JobInv, JobShape
  <2> QED BY <1>3, <1>4, <2>1 DEF CreateClient
<1>5. CASE Construct(c)
  <2>1. job[c].serial = 0
    BY <1>5 DEF Construct, JobInv, JobShape
  <2> QED BY <1>3, <1>5, <2>1 DEF Construct
<1> QED BY <1>2, <1>4, <1>5 DEF Client

(* What is left alone: the loggers and locks by the ends, the states and   *)
(* the hooks by what comes before their installation.                      *)
LEMMA StepKeepsStates ==
  ASSUME NEW c \in Callers, Step(c), ~InstallState(c)
  PROVE  states' = states
  BY DEF Step, CallInit, EnterInit, ConfigureNamed, BuildHandlers, BuildFails, RemoveOwned,
         AddHandlers, SetFlags, ConfigureSdk, EnterSdk, Detach, Silence, Install, HealthRoute,
         ForkHook, ExitHook, IncludeRouter, Rollback, Client, CreateClient, Construct,
         ConstructFails, PublishClient, apps

Closed(s) == [states EXCEPT ![s].shutting_down = TRUE]

LEMMA EndingMoves ==
  ASSUME TypeOK, JobInv, Ending
  PROVE  /\ UNCHANGED <<app_state, health_path, fork_hooks, loggers, locks, pc, job, serial, failures>>
         /\ states' = states \/ \E s \in DOMAIN states : states' = Closed(s)
         /\ process' # "running" => process # "running" \/ \A c \in Callers : pc[c] = "idle"
         /\ process' \in {"running", "exiting", "exited"}
<1>1. ASSUME NEW s \in DOMAIN states, CleanUp(s) PROVE states' = states \/ states' = Closed(s)
  BY <1>1 DEF CleanUp, Closed
<1>2. ASSUME NEW s \in Serials, LifespanEnds(s)
      PROVE  states' = states \/ \E r \in DOMAIN states : states' = Closed(r)
  <2>1. s \in DOMAIN states
    BY <1>2 DEF LifespanEnds, TypeOK
  <2> QED BY <1>1, <1>2, <2>1 DEF LifespanEnds, Closed
<1>3. ASSUME NEW h \in exit_hooks, RunExitHook(h)
      PROVE  states' = states \/ \E r \in DOMAIN states : states' = Closed(r)
  <2>1. h.app \in Apps
    BY DEF TypeOK, Hooks
  <2>2. app_state[h.app] # None => app_state[h.app] \in DOMAIN states
    BY <2>1 DEF TypeOK
  <2> QED BY <1>1, <1>3, <2>2 DEF RunExitHook
<1>4. UNCHANGED <<app_state, health_path, fork_hooks, loggers, locks, pc, job, serial, failures>>
  BY DEF Ending, LifespanEnds, BeginExit, RunExitHook, Exited, Over, vars, apps
<1>5. /\ process' # "running" => process # "running" \/ \A c \in Callers : pc[c] = "idle"
      /\ process' \in {"running", "exiting", "exited"}
  BY DEF Ending, LifespanEnds, BeginExit, RunExitHook, Exited, Over, vars, ends, TypeOK
<1>6. states' = states \/ \E s \in DOMAIN states : states' = Closed(s)
  BY <1>2, <1>3 DEF Ending, BeginExit, Exited, Over, vars, apps
<1> QED BY <1>4, <1>5, <1>6

(* A state that is there stays, and its owner, application and             *)
(* configuration with it.                                                  *)
LEMMA ClosedKeeps ==
  ASSUME TypeOK, NEW s \in DOMAIN states, states' = Closed(s)
  PROVE  /\ DOMAIN states' = DOMAIN states
         /\ \A r \in DOMAIN states :
               /\ states'[r] \in States
               /\ states'[r].owner = states[r].owner /\ states'[r].app = states[r].app
               /\ states'[r].config = states[r].config
               /\ states'[r].shutting_down = (states[r].shutting_down \/ r = s)
<1>1. \A r \in DOMAIN states : states[r] \in States
  BY DEF TypeOK
<1> QED BY <1>1 DEF Closed, States

LEMMA StepKeepsJobInv ==
  ASSUME TypeOK, JobInv, NEW c \in Callers, Step(c)
  PROVE  JobInv'
<1>1. OwnJob(c)' /\ job'[c].serial \in {job[c].serial, 0, serial + 1}
  BY InitKeepsJob, NamedKeepsJob, SdkKeepsJob, InstallKeepsJob, ClientKeepsJob DEF Step
<1>2. /\ \A d \in Callers : d # c => pc'[d] = pc[d] /\ job'[d] = job[d]
      /\ init_lock' = init_lock \/ (init_lock \in {c, None} /\ init_lock' \in {c, None})
      /\ config_lock' = config_lock \/ (config_lock \in {c, None} /\ config_lock' \in {c, None})
      /\ process = "running" /\ process' = process
  BY OthersStay, StepMoves DEF JobInv
<1>3. JobType'
  <2>1. job' \in [Callers -> Jobs]
    <3>1. job' = job \/ \E x : job' = [job EXCEPT ![c] = x]
      BY StepMoves DEF JobInv
    <3>2. job' = [job EXCEPT ![c] = job'[c]]
      BY <3>1 DEF JobInv, JobType
    <3> QED BY <1>1, <3>2 DEF OwnJob, JobInv, JobType
  <2> QED BY <2>1 DEF JobType, Jobs
<1>4. \A d \in Callers : d # c => JobShape(d)' /\ CallShape(d)' /\ LockShape(d)'
  BY <1>2, ApplicationAssumption DEF JobInv, JobShape, CallShape, LockShape, Calling
<1>5. serial \in Nat /\ serial' \in Nat /\ serial' >= serial
  <2>1. serial \in Nat
    BY DEF TypeOK
  <2>2. serial' \in {serial, serial + 1}
    BY DEF Step, CallInit, EnterInit, ConfigureNamed, BuildHandlers, BuildFails, RemoveOwned,
           AddHandlers, SetFlags, ConfigureSdk, EnterSdk, Detach, Silence, Install, InstallState,
           HealthRoute, ForkHook, ExitHook, IncludeRouter, Rollback, Client, CreateClient,
           Construct, ConstructFails, PublishClient
  <2> QED BY <2>1, <2>2
<1>6. \A d \in Callers : job[d].serial \in Nat /\ job[d].serial <= serial
  BY ApplicationAssumption DEF JobInv, JobType, Jobs, SerialInv, Serials
<1>7. DOMAIN states' = DOMAIN states \/ (pc[c] = "install" /\ DOMAIN states' = DOMAIN states \cup {job[c].serial})
  BY StepKeepsStates DEF InstallState
<1>8. SerialInv'
  <2>1. \A d, e \in Callers : d # e /\ job'[d].serial = job'[e].serial => job'[d].serial = 0
    BY <1>1, <1>2, <1>5, <1>6 DEF JobInv, SerialInv
  <2>2. \A d \in Callers : job'[d].serial <= serial'
    BY <1>1, <1>2, <1>5, <1>6 DEF OwnJob
  <2>3. pc[c] = "install" => job[c].serial \in Serials
    BY DEF JobInv, JobShape, CallShape, Calling
  <2>4. DOMAIN states' \subseteq 1 .. serial'
    BY <1>5, <1>6, <1>7, <2>3 DEF JobInv, SerialInv, Serials
  <2>5. \A d \in Callers : d # c /\ pc[d] \notin Installed => job[d].serial \notin DOMAIN states'
    BY <1>7, <2>3 DEF JobInv, SerialInv, Serials
  <2> QED BY <1>1, <1>2, <2>1, <2>2, <2>4, <2>5 DEF SerialInv, OwnJob
<1> QED BY <1>1, <1>2, <1>3, <1>4, <1>8 DEF JobInv, OwnJob

LEMMA EndingKeepsJobInv ==
  ASSUME TypeOK, JobInv, Ending
  PROVE  JobInv'
<1>1. DOMAIN states' = DOMAIN states
  BY EndingMoves, ClosedKeeps
<1>2. UNCHANGED <<pc, job, init_lock, config_lock, serial>>
  BY EndingMoves DEF locks
<1>3. process' # "running" => \A c \in Callers : pc[c] = "idle"
  BY EndingMoves DEF JobInv
<1>4. JobType' /\ SerialInv'
  BY <1>1, <1>2 DEF JobInv, JobType, SerialInv
<1>5. \A c \in Callers : JobShape(c)' /\ CallShape(c)' /\ LockShape(c)'
  BY <1>2 DEF JobInv, JobShape, CallShape, LockShape, Calling
<1> QED BY <1>2, <1>3, <1>4, <1>5 DEF JobInv

(***************************************************************************)
(* Types                                                                   *)
(***************************************************************************)
AppType ==
    /\ app_state \in [Apps -> Serials \cup {None}]
    /\ DOMAIN states \subseteq Serials
    /\ \A s \in DOMAIN states :
          states[s] \in States /\ \A key \in BoolKeys : states[s].config[key] \in {"yes", "no"}
    /\ \A a \in Apps : app_state[a] # None =>
          app_state[a] \in DOMAIN states /\ states[app_state[a]].app = a
    /\ lifespans \subseteq DOMAIN states /\ fork_hooks \subseteq Hooks /\ exit_hooks \subseteq Hooks

LoggerType ==
    /\ handlers \subseteq Serials \X Kinds /\ open_handlers \subseteq Serials \X Kinds
    /\ flags \in Serials \cup {0}
    /\ sdk \in [Names -> [handlers : SUBSET {"user", "default", "null"}, disabled : BOOLEAN]]
    /\ unclean \subseteq Names

RestType ==
    /\ serial \in 0 .. MaxInits /\ failures \in 0 .. MaxFailures
    /\ init_lock \in Callers \cup {None} /\ config_lock \in Callers \cup {None}
    /\ pc \in [Callers -> Pcs] /\ process \in {"running", "exiting", "exited"}
    /\ deregistrations \in [Serials -> Nat]

LEMMA TypeParts == TypeOK <=> AppType /\ LoggerType /\ RestType
  BY DEF TypeOK, AppType, LoggerType, RestType

(* The call a caller is in when it touches an application or the logger *)
LEMMA JobOfCall ==
  ASSUME JobInv, NEW c \in Callers, Calling(c)
  PROVE  /\ job[c].owner \in Extensions /\ job[c].app \in Apps /\ job[c].config \in Configs
         /\ job[c].serial \in Serials
         /\ \A key \in BoolKeys : job[c].config[key] \in {"yes", "no"}
         /\ Hook(c) \in Hooks
         /\ Made(c) \subseteq Serials \X Kinds /\ Made(c) # {}
         /\ \A h \in Made(c) : h[1] = job[c].serial
<1>1. /\ job[c].owner \in Extensions /\ job[c].app \in Apps /\ job[c].config \in Configs
      /\ job[c].serial \in Serials
  BY DEF JobInv, CallShape
<1>2. \A key \in BoolKeys : job[c].config[key] \in {"yes", "no"}
  BY <1>1, BoolKeysAreRead DEF Configs
<1>3. Hook(c) \in Hooks
  BY <1>1 DEF Hook, Hooks
<1>4. /\ Made(c) \subseteq Serials \X Kinds /\ Made(c) # {}
      /\ \A h \in Made(c) : h[1] = job[c].serial
  <2> DEFINE D == DesiredHandlers(job[c].config)
  <2>1. D # {} /\ D \subseteq Kinds
    BY HandlersDesired
  <2>2. Made(c) = {<<job[c].serial, kind>> : kind \in D}
    BY DEF Made
  <2> HIDE DEF D
  <2>3. ASSUME NEW h \in Made(c) PROVE h \in Serials \X Kinds /\ h[1] = job[c].serial
    <3>1. PICK kind \in D : h = <<job[c].serial, kind>>
      BY <2>2
    <3> QED BY <1>1, <2>1, <3>1
  <2>4. Made(c) # {}
    <3>1. PICK kind \in D : TRUE
      BY <2>1
    <3>2. <<job[c].serial, kind>> \in Made(c)
      BY <2>2
    <3> QED BY <3>2
  <2> QED BY <2>3, <2>4
<1> QED BY <1>1, <1>2, <1>3, <1>4

LEMMA StepKeepsAppType ==
  ASSUME TypeOK, JobInv, AppInv, NEW c \in Callers, Step(c)
  PROVE  AppType'
<1> USE DEF AppType
<1>0. AppType
  BY TypeParts
<1>1. CASE InstallState(c)
  <2>1. Calling(c)
    BY <1>1 DEF InstallState, JobInv, JobShape, Calling
  <2> DEFINE j == job[c]
             new == [owner |-> j.owner, app |-> j.app, config |-> j.config,
                     shutting_down |-> FALSE]
  <2>2. /\ app_state' = [app_state EXCEPT ![j.app] = j.serial]
        /\ states' = [s \in DOMAIN states \cup {j.serial} |-> IF s = j.serial THEN new ELSE states[s]]
        /\ UNCHANGED <<lifespans, fork_hooks, exit_hooks>>
    BY <1>1 DEF InstallState
  <2>3. /\ new \in States /\ j.serial \in Serials /\ j.app \in Apps
        /\ \A key \in BoolKeys : new.config[key] \in {"yes", "no"}
    BY <2>1, JobOfCall DEF States
  <2>4. /\ DOMAIN states' = DOMAIN states \cup {j.serial} /\ states'[j.serial] = new
        /\ \A s \in DOMAIN states : s # j.serial => states'[s] = states[s]
    BY <2>2
  <2>5. pc[c] \notin Installed
    BY <1>1 DEF InstallState
  <2>6. j.serial \notin DOMAIN states
    BY <2>5 DEF JobInv, SerialInv
  <2>7. \A a \in Apps : app_state'[a] # None =>
          app_state'[a] \in DOMAIN states' /\ states'[app_state'[a]].app = a
    BY <1>0, <2>2, <2>3, <2>4, <2>6
  <2> QED BY <1>0, <2>2, <2>3, <2>4, <2>7
<1>2. CASE ~InstallState(c)
  <2>1. states' = states
    BY <1>2, StepKeepsStates
  <2>2. CASE Install(c)
    <3>1. Calling(c)
      BY <2>2 DEF Install, InstallState, HealthRoute, ForkHook, ExitHook, IncludeRouter, Rollback,
                  JobInv, JobShape, Calling
    <3>2. \/ app_state' = app_state
          \/ app_state' = [app_state EXCEPT ![job[c].app] = None]
      BY <1>2, <2>2 DEF Install, HealthRoute, ForkHook, ExitHook, IncludeRouter, Rollback
    <3>3. /\ fork_hooks' \in {fork_hooks, fork_hooks \cup {Hook(c)}}
          /\ exit_hooks' \in {exit_hooks, exit_hooks \cup {Hook(c)}}
      BY <1>2, <2>2 DEF Install, HealthRoute, ForkHook, ExitHook, IncludeRouter, Rollback
    <3>4. lifespans' = lifespans \/ (pc[c] = "router" /\ lifespans' = lifespans \cup {job[c].serial})
      BY <1>2, <2>2 DEF Install, HealthRoute, ForkHook, ExitHook, IncludeRouter, Rollback
    <3>5. lifespans' \subseteq DOMAIN states
      BY <1>0, <3>4 DEF AppInv, InstallShape
    <3> QED BY <1>0, <2>1, <3>1, <3>2, <3>3, <3>5, JobOfCall
  <2>3. CASE ~Install(c)
    <3>1. UNCHANGED <<app_state, lifespans, fork_hooks, exit_hooks>>
      BY <2>3 DEF Step, CallInit, EnterInit, ConfigureNamed, BuildHandlers, BuildFails, RemoveOwned,
           AddHandlers, SetFlags, ConfigureSdk, EnterSdk, Detach, Silence, Client, CreateClient,
           Construct, ConstructFails, PublishClient, apps
    <3> QED BY <1>0, <2>1, <3>1
  <2> QED BY <2>2, <2>3
<1> QED BY <1>1, <1>2

LEMMA StepKeepsLoggerType ==
  ASSUME TypeOK, JobInv, NEW c \in Callers, Step(c)
  PROVE  LoggerType'
<1> USE DEF LoggerType
<1>0. LoggerType
  BY TypeParts
<1>1. CASE ConfigureNamed(c)
  <2>1. Calling(c)
    BY <1>1 DEF ConfigureNamed, BuildHandlers, BuildFails, RemoveOwned, AddHandlers, SetFlags, Calling
  <2>2. Made(c) \subseteq Serials \X Kinds /\ job[c].serial \in Serials
    BY <2>1, JobOfCall
  <2>3. UNCHANGED <<sdk, unclean>>
    BY <1>1 DEF ConfigureNamed, BuildHandlers, BuildFails, RemoveOwned, AddHandlers, SetFlags, loggers
  <2>4. /\ handlers' \in {handlers, {}, handlers \cup Made(c)}
        /\ open_handlers' \in {open_handlers, open_handlers \cup Made(c), open_handlers \ handlers}
        /\ flags' \in {flags, job[c].serial}
    BY <1>1 DEF ConfigureNamed, BuildHandlers, BuildFails, RemoveOwned, AddHandlers, SetFlags,
                loggers, named
  <2> QED BY <1>0, <2>2, <2>3, <2>4
<1>2. CASE ~ConfigureNamed(c)
  <2>1. UNCHANGED named
    BY <1>2 DEF Step, CallInit, EnterInit, ConfigureSdk, EnterSdk, Detach, Silence, Install,
         InstallState, HealthRoute, ForkHook, ExitHook, IncludeRouter, Rollback, Client,
         CreateClient, Construct, ConstructFails, PublishClient, loggers
  <2>2. CASE Detach(c) \/ Silence(c)
    <3>1. job[c].left \in Seq(Names) /\ job[c].left # <<>>
      BY <2>2 DEF Detach, Silence, JobInv, JobType, Jobs, JobShape
    <3>2. Head(job[c].left) \in Names
      BY <3>1, TailWithin
    <3>3. unclean' \subseteq Names
      BY <1>0, <2>2 DEF Detach, Silence
    <3>4. sdk' \in [Names -> [handlers : SUBSET {"user", "default", "null"}, disabled : BOOLEAN]]
      <4> DEFINE l == Head(job[c].left)
      <4>1. CASE Detach(c)
        <5>1. sdk' = [sdk EXCEPT ![l] = [sdk[l] EXCEPT !.handlers = {}]]
          BY <4>1, <3>2, <1>0 DEF Detach
        <5>2. [sdk[l] EXCEPT !.handlers = {}] \in [handlers : SUBSET {"user", "default", "null"}, disabled : BOOLEAN]
          BY <1>0, <3>2
        <5> QED BY <1>0, <5>1, <5>2
      <4>2. CASE Silence(c)
        <5>1. sdk' = [sdk EXCEPT ![l] = [handlers |-> sdk[l].handlers \cup {"null"}, disabled |-> TRUE]]
          BY <4>2, <3>2, <1>0 DEF Silence
        <5>2. sdk[l].handlers \cup {"null"} \in SUBSET {"user", "default", "null"}
          BY <1>0, <3>2
        <5> QED BY <1>0, <5>1, <5>2
      <4> QED BY <2>2, <4>1, <4>2
    <3> QED BY <1>0, <2>1, <3>3, <3>4 DEF named
  <2>3. CASE Construct(c) \/ ConstructFails(c)
    <3>1. HandlerAdded
      BY <2>3 DEF Construct, ConstructFails
    <3>2. PICK added \in SUBSET {l \in Names : sdk[l].handlers = {}} :
            sdk' = [l \in Names |-> IF l \in added THEN [sdk[l] EXCEPT !.handlers = {"default"}]
                                    ELSE sdk[l]]
      BY <3>1 DEF HandlerAdded
    <3>3. \A l \in Names : [sdk[l] EXCEPT !.handlers = {"default"}]
                             \in [handlers : SUBSET {"user", "default", "null"}, disabled : BOOLEAN]
      BY <1>0
    <3>4. unclean' \subseteq Names
      BY <1>0, <2>3 DEF Construct, ConstructFails
    <3> QED BY <1>0, <2>1, <3>2, <3>3, <3>4 DEF named
  <2>4. CASE ~(Detach(c) \/ Silence(c) \/ Construct(c) \/ ConstructFails(c))
    <3>1. UNCHANGED <<sdk, unclean>>
      BY <1>2, <2>4 DEF Step, CallInit, EnterInit, ConfigureSdk, EnterSdk, Install,
         InstallState, HealthRoute, ForkHook, ExitHook, IncludeRouter, Rollback, Client,
         CreateClient, PublishClient, loggers
    <3> QED BY <1>0, <2>1, <3>1 DEF named
  <2> QED BY <2>2, <2>3, <2>4
<1> QED BY <1>1, <1>2

LEMMA StepKeepsRestType ==
  ASSUME TypeOK, JobInv, NEW c \in Callers, Step(c)
  PROVE  RestType'
<1>0. RestType
  BY TypeParts
<1>1. serial' \in 0 .. MaxInits
  <2>1. serial' = serial \/ (serial < MaxInits /\ serial' = serial + 1)
    BY DEF Step, CallInit, EnterInit, ConfigureNamed, BuildHandlers, BuildFails, RemoveOwned,
           AddHandlers, SetFlags, ConfigureSdk, EnterSdk, Detach, Silence, Install, InstallState,
           HealthRoute, ForkHook, ExitHook, IncludeRouter, Rollback, Client, CreateClient,
           Construct, ConstructFails, PublishClient
  <2> QED BY <1>0, <2>1, ApplicationAssumption DEF RestType
<1>2. failures' \in 0 .. MaxFailures
  <2>1. failures' = failures \/ (failures < MaxFailures /\ failures' = failures + 1)
    BY DEF Step, CallInit, EnterInit, ConfigureNamed, BuildHandlers, BuildFails, RemoveOwned,
           AddHandlers, SetFlags, ConfigureSdk, EnterSdk, Detach, Silence, Install, InstallState,
           HealthRoute, ForkHook, ExitHook, IncludeRouter, Rollback, Client, CreateClient,
           Construct, ConstructFails, PublishClient, Fail
  <2> QED BY <1>0, <2>1, ApplicationAssumption DEF RestType
<1>3. /\ pc' \in [Callers -> Pcs] /\ UNCHANGED <<process, deregistrations>>
      /\ init_lock' \in Callers \cup {None} /\ config_lock' \in Callers \cup {None}
  <2>1. UNCHANGED <<process, deregistrations>>
    BY StepMoves DEF JobInv
  <2> QED BY <1>0, <2>1, OthersStay DEF RestType
<1> QED BY <1>0, <1>1, <1>2, <1>3 DEF RestType

LEMMA EndingKeepsTypes ==
  ASSUME TypeOK, JobInv, Ending
  PROVE  AppType' /\ LoggerType' /\ RestType'
<1>0. AppType /\ LoggerType /\ RestType
  BY TypeParts
<1>1. LoggerType'
  BY <1>0, EndingMoves DEF LoggerType, loggers, named
<1>2. RestType'
  <2>1. deregistrations' \in [Serials -> Nat]
    <3>1. ASSUME NEW s, CleanUp(s) PROVE deregistrations' \in [Serials -> Nat]
      BY <1>0, <3>1 DEF CleanUp, RestType
    <3> QED
      BY <1>0, <3>1 DEF Ending, LifespanEnds, BeginExit, RunExitHook, Exited, Over, vars, ends, RestType
  <2> QED BY <1>0, <2>1, EndingMoves DEF RestType, locks
<1>3. /\ lifespans' \subseteq lifespans /\ exit_hooks' \subseteq exit_hooks
  BY DEF Ending, LifespanEnds, BeginExit, RunExitHook, Exited, Over, vars, apps
<1>4. AppType'
  <2>1. UNCHANGED <<app_state, fork_hooks>>
    BY EndingMoves
  <2>2. CASE states' = states
    BY <1>0, <1>3, <2>1, <2>2 DEF AppType
  <2>3. CASE \E s \in DOMAIN states : states' = Closed(s)
    <3>1. /\ DOMAIN states' = DOMAIN states
          /\ \A r \in DOMAIN states :
                /\ states'[r] \in States /\ states'[r].app = states[r].app
                /\ states'[r].config = states[r].config
      BY <2>3, ClosedKeeps
    <3> QED BY <1>0, <1>3, <2>1, <3>1 DEF AppType
  <2> QED BY <2>2, <2>3, EndingMoves
<1> QED BY <1>1, <1>2, <1>4

(***************************************************************************)
(* The extension's logger                                                  *)
(***************************************************************************)
Configuring == {"remove", "add", "flags"}

LEMMA OneConfigures ==
  ASSUME JobInv, NEW c \in Callers, config_lock \in {c, None}
  PROVE  \A d \in Callers : d # c => pc[d] \notin Configuring
  BY ApplicationAssumption DEF JobInv, LockShape, Configuring

LEMMA NamedKeepsLoggerInv ==
  ASSUME TypeOK, JobInv, LoggerInv, NEW c \in Callers, ConfigureNamed(c), ~BuildFails(c)
  PROVE  LoggerInv'
<1>1. /\ \A d \in Callers : d # c => pc'[d] = pc[d] /\ job'[d] = job[d]
      /\ \A d \in Callers : d # c => Made(d)' = Made(d)
  BY OthersStay DEF Step, Made
<1>2. /\ Made(c) # {} /\ job[c].serial \in Serials
      /\ \A h \in Made(c) : h[1] = job[c].serial
  BY JobOfCall DEF ConfigureNamed, BuildHandlers, RemoveOwned, AddHandlers, SetFlags, Calling
<1>3. \A d \in Callers : d # c => pc[d] \notin Configuring
  BY OneConfigures
  DEF ConfigureNamed, BuildHandlers, RemoveOwned, AddHandlers, SetFlags, ConfigLockFree, JobInv,
      LockShape
<1>4. serial' = serial
  BY DEF ConfigureNamed, BuildHandlers, RemoveOwned, AddHandlers, SetFlags
<1>5. \A d \in Callers : d # c => job[d].serial # job[c].serial
  BY <1>2 DEF JobInv, SerialInv, Serials
<1>6. CASE BuildHandlers(c)
  <2>1. /\ pc[c] = "build" /\ pc'[c] = "remove" /\ job' = job /\ Made(c)' = Made(c)
        /\ open_handlers' = open_handlers \cup Made(c) /\ UNCHANGED <<handlers, flags>>
    BY <1>6, StepOfCaller DEF BuildHandlers, Made
  <2>2. \A d \in Callers : pc[d] \notin {"remove", "add"}
    BY <1>3, <2>1 DEF Configuring
  <2> QED BY <1>1, <1>3, <1>4, <2>1, <2>2 DEF LoggerInv, Configuring
<1>7. CASE RemoveOwned(c)
  <2>1. /\ pc[c] = "remove" /\ pc'[c] = "add" /\ job' = job /\ Made(c)' = Made(c)
        /\ open_handlers' = open_handlers \ handlers /\ handlers' = {}
    BY <1>7, StepOfCaller DEF RemoveOwned, Made
  <2>2. Made(c) \subseteq open_handlers'
    BY <1>2, <2>1 DEF LoggerInv
  <2>3. \A h \in open_handlers' : h \in Made(c)
    BY <1>3, <2>1 DEF LoggerInv, Configuring
  <2> QED BY <1>1, <1>3, <1>4, <2>1, <2>2, <2>3 DEF LoggerInv, Configuring
<1>8. CASE AddHandlers(c)
  <2>1. /\ pc[c] = "add" /\ pc'[c] = "flags" /\ job' = job /\ Made(c)' = Made(c)
        /\ open_handlers' = open_handlers /\ handlers' = Made(c)
    BY <1>8, StepOfCaller DEF AddHandlers, Made, LoggerInv
  <2>2. Made(c) \subseteq open_handlers
    BY <2>1 DEF LoggerInv
  <2>3. open_handlers \subseteq Made(c)
    BY <1>3, <2>1 DEF LoggerInv, Configuring
  <2>4. job[c].serial <= serial
    BY DEF JobInv, SerialInv
  <2> QED BY <1>1, <1>2, <1>3, <1>4, <1>5, <2>1, <2>2, <2>3, <2>4 DEF LoggerInv, Configuring
<1>9. CASE SetFlags(c)
  <2>1. /\ pc[c] = "flags" /\ pc'[c] = "sdk" /\ flags' = job[c].serial
        /\ UNCHANGED <<handlers, open_handlers>> /\ handlers = Made(c)
    BY <1>9, StepOfCaller DEF SetFlags, SilenceNext, LoggerInv
  <2>2. \A d \in Callers : pc[d] \notin {"remove", "add"}
    BY <1>3, <2>1 DEF Configuring
  <2>3. open_handlers \subseteq handlers
    BY <2>2 DEF LoggerInv
  <2> QED BY <1>1, <1>2, <1>3, <1>4, <2>1, <2>2, <2>3 DEF LoggerInv, Configuring
<1> QED BY <1>6, <1>7, <1>8, <1>9 DEF ConfigureNamed

LEMMA OtherStepsKeepLoggerInv ==
  ASSUME TypeOK, JobInv, LoggerInv, NEW c \in Callers, Step(c), ~ConfigureNamed(c) \/ BuildFails(c)
  PROVE  LoggerInv'
<1>1. /\ \A d \in Callers : d # c => pc'[d] = pc[d] /\ job'[d] = job[d]
      /\ \A d \in Callers : d # c => Made(d)' = Made(d)
  BY OthersStay DEF Made
<1>2. UNCHANGED named
  BY DEF Step, CallInit, EnterInit, ConfigureNamed, BuildHandlers, BuildFails, RemoveOwned,
         AddHandlers, SetFlags, ConfigureSdk, EnterSdk, Detach, Silence, Install, InstallState,
         HealthRoute, ForkHook, ExitHook, IncludeRouter, Rollback, Client, CreateClient,
         Construct, ConstructFails, PublishClient, loggers
<1>3. serial \in Nat /\ serial' \in {serial, serial + 1}
  <2>1. serial \in Nat
    BY DEF TypeOK
  <2>2. serial' \in {serial, serial + 1}
    BY DEF Step, CallInit, EnterInit, ConfigureNamed, BuildHandlers, BuildFails, RemoveOwned,
           AddHandlers, SetFlags, ConfigureSdk, EnterSdk, Detach, Silence, Install, InstallState,
           HealthRoute, ForkHook, ExitHook, IncludeRouter, Rollback, Client, CreateClient,
           Construct, ConstructFails, PublishClient
  <2> QED BY <2>1, <2>2
<1>4. pc[c] \notin Configuring /\ pc'[c] \notin Configuring
  <2>1. pc[c] \notin Configuring
    <3>1. CASE BuildFails(c)
      BY <3>1 DEF BuildFails, Configuring
    <3>2. CASE ~ConfigureNamed(c)
      BY <3>2 DEF Step, CallInit, EnterInit, ConfigureSdk, EnterSdk, Detach, Silence, Install,
                  InstallState, HealthRoute, ForkHook, ExitHook, IncludeRouter, Rollback, Client,
                  CreateClient, Construct, ConstructFails, PublishClient, Configuring
    <3> QED BY <3>1, <3>2
  <2>2. job[c].next \notin Configuring
    BY DEF JobInv, JobType, Jobs, Configuring
  <2>3. \E l : Goto(c, l) /\ l \notin Configuring
    <3>1. CASE BuildFails(c)
      BY <3>1 DEF BuildFails, Return, Configuring
    <3>2. CASE CallInit(c) \/ EnterInit(c)
      <4>1. Goto(c, "init") \/ Goto(c, "idle") \/ Goto(c, "build")
        BY <3>2 DEF CallInit, EnterInit, Return
      <4> QED BY <4>1 DEF Configuring
    <3>3. CASE ConfigureSdk(c)
      BY <2>2, <3>3 DEF ConfigureSdk, EnterSdk, Detach, Silence, Configuring
    <3>4. CASE Install(c)
      BY <3>4 DEF Install, InstallState, HealthRoute, ForkHook, ExitHook, IncludeRouter, Rollback,
                  Return, Configuring
    <3>5. CASE Client(c)
      BY <3>5 DEF Client, CreateClient, Construct, ConstructFails, PublishClient, SilenceNext,
                  Return, Configuring
    <3> QED BY <3>1, <3>2, <3>3, <3>4, <3>5 DEF Step
  <2> QED BY <2>1, <2>3, StepOfCaller
<1>5. pc'[c] \in {"init", "build"} => \A h \in handlers : h[1] # job'[c].serial
  <2>1. CASE CallInit(c)
    <3>1. job'[c].serial = serial + 1
      <4>1. PICK e \in Extensions, a \in Apps, o \in Overrides :
              job' = [job EXCEPT ![c] = [NoJob EXCEPT !.owner = e, !.app = a, !.serial = serial + 1,
                                                      !.config = LoadConfig(BaseConfig[e], o)]]
        BY <2>1 DEF CallInit
      <4> QED BY <4>1 DEF JobInv, JobType, NoJob
    <3>2. \A h \in handlers : h[1] <= serial /\ h[1] \in Nat
      BY DEF LoggerInv, TypeOK, Serials
    <3> QED BY <1>3, <3>1, <3>2
  <2>2. CASE EnterInit(c)
    <3>1. pc'[c] \in {"init", "build"} => pc[c] = "init" /\ job' = job
      BY <2>2, StepOfCaller DEF EnterInit, Return
    <3> QED BY <3>1 DEF LoggerInv
  <2>3. CASE ~CallInit(c) /\ ~EnterInit(c)
    <3>1. job[c].next \notin {"init", "build"}
      BY DEF JobInv, JobType, Jobs
    <3>2. \E l : Goto(c, l) /\ l \notin {"init", "build"}
      BY <2>3, <3>1
      DEF Step, ConfigureNamed, BuildHandlers, BuildFails, RemoveOwned,
        AddHandlers, SetFlags, ConfigureSdk, EnterSdk, Detach, Silence, Install, InstallState,
        HealthRoute, ForkHook, ExitHook, IncludeRouter, Rollback, Client, CreateClient,
        Construct, ConstructFails, PublishClient, Return, SilenceNext
    <3> QED BY <3>2, StepOfCaller
  <2> QED BY <2>1, <2>2, <2>3
<1>6. \A h \in handlers : h[1] <= serial'
  BY <1>3 DEF LoggerInv, TypeOK, Serials
<1> QED BY <1>1, <1>2, <1>4, <1>5, <1>6 DEF LoggerInv, named, Configuring

LEMMA LoggerOfOneCall ==
  ASSUME JobInv, LoggerInv
  PROVE  LoggerIsOfOneCall
<1>1. config_lock = None => \A c \in Callers : pc[c] \notin {"add", "flags"}
  BY ApplicationAssumption DEF JobInv, LockShape
<1>2. \A c \in Callers : pc[c] \in {"remove", "add"} => \A h \in Made(c) : h[1] = job[c].serial
  BY JobOfCall DEF Calling
<1> QED BY <1>1, <1>2 DEF LoggerInv, LoggerIsOfOneCall

(***************************************************************************)
(* The loggers of the SDK                                                  *)
(***************************************************************************)

(* What becomes of one logger *)
Detached(l) == sdk'[l].handlers = {} /\ sdk'[l].disabled = sdk[l].disabled
Silenced(l) == sdk'[l].handlers = sdk[l].handlers \cup {"null"} /\ sdk'[l].disabled = TRUE
Added(l) ==
    sdk[l].handlers = {} /\ sdk'[l].handlers = {"default"} /\ sdk'[l].disabled = sdk[l].disabled

LEMMA SdkEffects ==
  ASSUME TypeOK, JobInv, NEW c \in Callers, Step(c)
  PROVE  /\ Detach(c) => \A l \in Names :
               IF l = Head(job[c].left) THEN Detached(l) ELSE sdk'[l] = sdk[l]
         /\ Silence(c) => \A l \in Names :
               IF l = Head(job[c].left) THEN Silenced(l) ELSE sdk'[l] = sdk[l]
         /\ HandlerAdded => \A l \in Names : sdk'[l] = sdk[l] \/ Added(l)
         /\ ~Detach(c) /\ ~Silence(c) /\ ~Construct(c) /\ ~ConstructFails(c) =>
               UNCHANGED <<sdk, unclean>>
<1>1. \A l \in Names : sdk[l] \in [handlers : SUBSET {"user", "default", "null"}, disabled : BOOLEAN]
  BY DEF TypeOK
<1>2. sdk = [l \in Names |-> sdk[l]]
  BY DEF TypeOK
<1>3. ASSUME Detach(c), NEW l \in Names
      PROVE  IF l = Head(job[c].left) THEN Detached(l) ELSE sdk'[l] = sdk[l]
  <2>1. sdk' = [sdk EXCEPT ![Head(job[c].left)].handlers = {}]
    BY <1>3 DEF Detach
  <2>2. l = Head(job[c].left) => sdk'[l] = [sdk[l] EXCEPT !.handlers = {}]
    BY <1>2, <2>1
  <2> QED BY <1>1, <1>2, <2>1, <2>2 DEF Detached
<1>4. ASSUME Silence(c), NEW l \in Names
      PROVE  IF l = Head(job[c].left) THEN Silenced(l) ELSE sdk'[l] = sdk[l]
  BY <1>2, <1>4 DEF Silence, Silenced
<1>5. ASSUME HandlerAdded, NEW l \in Names PROVE sdk'[l] = sdk[l] \/ Added(l)
  <2>1. PICK added \in SUBSET {k \in Names : sdk[k].handlers = {}} :
          sdk' = [k \in Names |-> IF k \in added THEN [sdk[k] EXCEPT !.handlers = {"default"}]
                                  ELSE sdk[k]]
    BY <1>5 DEF HandlerAdded
  <2>2. CASE l \in added
    <3>1. sdk'[l] = [sdk[l] EXCEPT !.handlers = {"default"}] /\ sdk[l].handlers = {}
      BY <2>1, <2>2
    <3> QED BY <1>1, <3>1 DEF Added
  <2>3. CASE l \notin added
    BY <2>1, <2>3
  <2> QED BY <2>2, <2>3
<1>6. ASSUME ~Detach(c), ~Silence(c), ~Construct(c), ~ConstructFails(c)
      PROVE  UNCHANGED <<sdk, unclean>>
  BY <1>6 DEF Step, CallInit, EnterInit, ConfigureNamed, BuildHandlers, BuildFails, RemoveOwned,
         AddHandlers, SetFlags, ConfigureSdk, EnterSdk, Install, InstallState,
         HealthRoute, ForkHook, ExitHook, IncludeRouter, Rollback, Client, CreateClient,
         PublishClient, loggers
<1> QED BY <1>3, <1>4, <1>5, <1>6

(* Nobody gives the user's records back. *)
LEMMA SilentStays ==
  ASSUME TypeOK, JobInv, NEW c \in Callers, Step(c)
  PROVE  \A l \in Names :
             /\ "user" \notin sdk[l].handlers => "user" \notin sdk'[l].handlers
             /\ Silent(l) => Silent(l)'
<1>1. CASE Detach(c)
  BY <1>1, SdkEffects DEF Detached, Silent
<1>2. CASE Silence(c)
  <2>1. ASSUME NEW l \in Names, l = Head(job[c].left)
        PROVE  /\ "user" \notin sdk[l].handlers => "user" \notin sdk'[l].handlers
               /\ sdk'[l].disabled = TRUE
    <3>1. Silenced(l)
      BY <1>2, <2>1, SdkEffects
    <3> QED BY <3>1 DEF Silenced
  <2>2. ASSUME NEW l \in Names, l # Head(job[c].left) PROVE sdk'[l] = sdk[l]
    BY <1>2, <2>2, SdkEffects
  <2>3. ASSUME NEW l \in Names
        PROVE  /\ "user" \notin sdk[l].handlers => "user" \notin sdk'[l].handlers
               /\ Silent(l) => Silent(l)'
    BY <2>1, <2>2 DEF Silent
  <2> QED BY <2>3
<1>3. CASE Construct(c) \/ ConstructFails(c)
  BY <1>3, SdkEffects DEF Added, Silent, Construct, ConstructFails
<1>4. CASE ~Detach(c) /\ ~Silence(c) /\ ~Construct(c) /\ ~ConstructFails(c)
  BY <1>4, SdkEffects DEF Silent
<1> QED BY <1>1, <1>2, <1>3, <1>4

(* A step that goes on to the loggers of the SDK has them all before it. *)
LEMMA AllAreLeft ==
  ASSUME TypeOK, JobInv, NEW c \in Callers, NEW next, SilenceNext(c, next)
  PROVE  /\ pc'[c] = "sdk" /\ job'[c].left = Loggers
         /\ \A l \in Names : Within(l, job'[c].left)
<1>1. /\ job' = [job EXCEPT ![c].left = Loggers, ![c].next = next]
      /\ pc'[c] = "sdk"
  BY StepOfCaller DEF SilenceNext
<1>2. job'[c] = [job[c] EXCEPT !.left = Loggers, !.next = next] /\ job[c] \in Jobs
  BY <1>1 DEF JobInv, JobType
<1>3. job'[c].left = Loggers
  BY <1>2 DEF Jobs
<1> QED BY <1>1, <1>3, LoggersWithin DEF Within

LEMMA StepKeepsSilenceInv ==
  ASSUME TypeOK, JobInv, SilenceInv, NEW c \in Callers, Step(c)
  PROVE  SilenceInv'
<1> DEFINE Inside == SdkPcs \cup InstallPcs \cup ClientPcs
           To(d, l) == Within(l, job[d].left) \/ Silent(l)
<1>0. /\ \A d \in Callers : d # c => pc'[d] = pc[d] /\ job'[d] = job[d]
      /\ \A l \in Names : Silent(l) => Silent(l)'
      /\ \A l \in Names : "user" \notin sdk[l].handlers => "user" \notin sdk'[l].handlers
      /\ \A d \in Callers : pc[d] = "silence" => Head(job[d].left) \in Names
  <2>1. \A d \in Callers : pc[d] = "silence" => Head(job[d].left) \in Names
    BY TailWithin DEF JobInv, JobType, Jobs, JobShape
  <2> QED BY <2>1, OthersStay, SilentStays
<1>1. pc'[c] \in Inside => \A l \in Names : To(c, l)'
  <2>1. ASSUME job' = job, pc[c] \in Inside PROVE \A l \in Names : To(c, l)'
    BY <1>0, <2>1 DEF SilenceInv, Within
  <2>2. CASE CallInit(c) \/ EnterInit(c)
    <3>1. Goto(c, "init") \/ Goto(c, "idle") \/ Goto(c, "build")
      BY <2>2 DEF CallInit, EnterInit, Return
    <3> QED BY <3>1, StepOfCaller
  <2>3. CASE ConfigureNamed(c)
    <3>1. CASE SetFlags(c)
      BY <3>1, AllAreLeft DEF SetFlags
    <3>2. CASE ~SetFlags(c)
      BY <2>3, <3>2, StepOfCaller DEF ConfigureNamed, BuildHandlers, BuildFails, RemoveOwned, AddHandlers, Return
    <3> QED BY <3>1, <3>2
  <2>4. CASE EnterSdk(c) \/ Detach(c)
    BY <2>1, <2>4 DEF EnterSdk, Detach
  <2>5. CASE Silence(c)
    <3> DEFINE q == job[c].left
    <3>1. pc[c] = "silence" /\ q \in Seq(Names) /\ q # <<>> /\ job' = [job EXCEPT ![c].left = Tail(q)]
      BY <2>5 DEF Silence, Remaining, JobInv, JobType, Jobs, JobShape
    <3>2. job'[c].left = Tail(q)
      <4>1. job'[c] = [job[c] EXCEPT !.left = Tail(q)] /\ job[c] \in Jobs
        BY <3>1 DEF JobInv, JobType
      <4> QED BY <4>1 DEF Jobs
    <3>3. ASSUME NEW l \in Names, l = Head(q) PROVE Silent(l)'
      <4>1. "user" \notin sdk[l].handlers
        BY <3>1, <3>3 DEF SilenceInv
      <4>2. sdk'[l].handlers = sdk[l].handlers \cup {"null"} /\ sdk'[l].disabled
        BY <2>5, <3>3, SdkEffects DEF Silenced
      <4> QED BY <4>1, <4>2 DEF Silent
    <3>4. ASSUME NEW l \in Names PROVE To(c, l)'
      <4>1. Within(l, q) \/ Silent(l)
        BY <3>1 DEF SilenceInv
      <4>2. CASE l = Head(q)
        BY <3>3, <4>2
      <4>3. CASE l # Head(q)
        <5>1. Within(l, Tail(q)) \/ Silent(l)
          BY <3>1, <4>1, <4>3, TailWithin
        <5> QED BY <1>0, <3>2, <5>1 DEF Within
      <4> QED BY <4>2, <4>3
    <3> QED BY <3>4
  <2>6. CASE IncludeRouter(c) \/ Rollback(c) \/ ConstructFails(c) \/ PublishClient(c)
    BY <2>6, StepOfCaller DEF IncludeRouter, Rollback, ConstructFails, PublishClient, Return
  <2>7. CASE InstallState(c) \/ HealthRoute(c) \/ ForkHook(c) \/ ExitHook(c)
    BY <2>1, <2>7 DEF InstallState, HealthRoute, ForkHook, ExitHook
  <2>8. CASE CreateClient(c) \/ Construct(c)
    BY <2>8, AllAreLeft DEF CreateClient, Construct
  <2> QED BY <2>2, <2>3, <2>4, <2>5, <2>6, <2>7, <2>8 DEF Step, ConfigureSdk, Install, Client
<1>2. \A d \in Callers, l \in Names : pc'[d] \in Inside => To(d, l)'
  <2>1. \A d \in Callers, l \in Names : d # c /\ pc'[d] \in Inside => To(d, l)'
    BY <1>0 DEF SilenceInv, Within
  <2> QED BY <1>1, <2>1
<1>3. pc'[c] = "silence" => "user" \notin sdk'[Head(job'[c].left)].handlers
  <2>1. CASE Detach(c)
    <3>1. job' = job /\ Head(job[c].left) \in Names
      BY <2>1, TailWithin DEF Detach, JobInv, JobType, Jobs, JobShape
    <3> QED BY <2>1, <3>1, SdkEffects DEF Detached
  <2>2. CASE ~Detach(c)
    <3>1. job[c].next # "silence"
      BY DEF JobInv, JobType, Jobs
    <3>2. \E l : Goto(c, l) /\ l # "silence"
      <4>1. CASE CallInit(c) \/ EnterInit(c)
        <5>1. Goto(c, "init") \/ Goto(c, "idle") \/ Goto(c, "build")
          BY <4>1 DEF CallInit, EnterInit, Return
        <5> QED BY <5>1
      <4>2. CASE ~CallInit(c) /\ ~EnterInit(c)
        BY <2>2, <3>1, <4>2
        DEF Step, ConfigureNamed, BuildHandlers, BuildFails, RemoveOwned, AddHandlers, SetFlags,
            ConfigureSdk, EnterSdk, Silence, Install, InstallState, HealthRoute, ForkHook, ExitHook,
            IncludeRouter, Rollback, Client, CreateClient, Construct, ConstructFails,
            PublishClient, Return, SilenceNext
      <4> QED BY <4>1, <4>2
    <3> QED BY <3>2, StepOfCaller
  <2> QED BY <2>1, <2>2
<1>4. (\E a \in Apps : app_state'[a] # None) => \A l \in Names : Silent(l)'
  <2>1. CASE InstallState(c)
    <3>1. pc[c] = "install" /\ job[c].left = <<>>
      BY <2>1 DEF InstallState, JobInv, JobShape
    <3>2. \A l \in Names : Silent(l)
      BY <3>1 DEF SilenceInv, Within
    <3> QED BY <1>0, <3>2
  <2>2. CASE ~InstallState(c)
    <3>1. \A a \in Apps : app_state'[a] # None => app_state[a] # None
      <4>1. CASE Rollback(c)
        BY <4>1 DEF Rollback, TypeOK
      <4>2. CASE ~Rollback(c)
        BY <2>2, <4>2 DEF Step, CallInit, EnterInit, ConfigureNamed, BuildHandlers, BuildFails, RemoveOwned,
           AddHandlers, SetFlags, ConfigureSdk, EnterSdk, Detach, Silence, Install, HealthRoute,
           ForkHook, ExitHook, IncludeRouter, Client, CreateClient, Construct, ConstructFails,
           PublishClient, apps
      <4> QED BY <4>1, <4>2
    <3> QED BY <1>0, <3>1 DEF SilenceInv
  <2> QED BY <2>1, <2>2
<1>5. \A d \in Callers : pc'[d] = "silence" => "user" \notin sdk'[Head(job'[d].left)].handlers
  BY <1>0, <1>3 DEF SilenceInv
<1> QED BY <1>2, <1>4, <1>5 DEF SilenceInv

LEMMA EndingKeepsLoggersQuiet ==
  ASSUME TypeOK, JobInv, LoggerInv, SilenceInv, DefaultInv, Ending
  PROVE  LoggerInv' /\ SilenceInv' /\ DefaultInv'
<1>1. /\ UNCHANGED <<handlers, open_handlers, flags, sdk, unclean>>
      /\ UNCHANGED <<app_state, pc, job, serial>>
  BY EndingMoves DEF loggers, named
<1>2. LoggerInv'
  BY <1>1 DEF LoggerInv, Made
<1>3. SilenceInv'
  BY <1>1 DEF SilenceInv, Within, Silent
<1>4. DefaultInv'
  BY <1>1 DEF DefaultInv, StillToClean
<1> QED BY <1>2, <1>3, <1>4

(* The loggers that are still to be cleaned, as what is left of a sequence *)
Uncleaned(c) == IF pc[c] = "silence" THEN Tail(job[c].left) ELSE job[c].left

LEMMA StillToCleanIsLeft ==
  ASSUME NEW q \in Seq(Names), NEW l
  PROVE  /\ l \in {q[i] : i \in 1 .. Len(q)} <=> Within(l, q)
         /\ q # <<>> => (l \in {Tail(q)[i] : i \in 1 .. Len(q) - 1} <=> Within(l, Tail(q)))
<1>1. l \in {q[i] : i \in 1 .. Len(q)} <=> Within(l, q)
  BY DEF Within
<1>2. ASSUME q # <<>> PROVE l \in {Tail(q)[i] : i \in 1 .. Len(q) - 1} <=> Within(l, Tail(q))
  <2>1. Len(Tail(q)) = Len(q) - 1
    BY <1>2
  <2> DEFINE t == Tail(q)
             n == Len(q) - 1
  <2>2. Len(t) = n
    BY <2>1
  <2> HIDE DEF t, n
  <2>3. l \in {t[i] : i \in 1 .. n} <=> Within(l, t)
    BY <2>2 DEF Within
  <2> QED BY <2>3 DEF t, n
<1> QED BY <1>1, <1>2

LEMMA StepKeepsDefaultInv ==
  ASSUME TypeOK, JobInv, DefaultInv, NEW c \in Callers, Step(c)
  PROVE  DefaultInv'
<1> DEFINE q == job[c].left
<1>1. /\ \A d \in Callers : d # c => pc'[d] = pc[d] /\ job'[d] = job[d]
      /\ \A d \in Callers : d # c => StillToClean(d)' = StillToClean(d)
  BY OthersStay DEF StillToClean
<1>2. q \in Seq(Names) /\ (pc[c] \in SdkPcs => q # <<>>)
  BY DEF JobInv, JobType, Jobs, JobShape
<1>3. \A l : l \in StillToClean(c) =>
          job[c].next = "publish" /\ Within(l, IF pc[c] = "silence" THEN Tail(q) ELSE q)
  BY <1>2, StillToCleanIsLeft DEF StillToClean
<1>4. job'[c].left \in Seq(Names) /\ (pc'[c] \in SdkPcs => job'[c].left # <<>>)
  BY StepKeepsJobInv DEF JobInv, JobType, Jobs, JobShape
<1>5. ASSUME job'[c].next = "publish", NEW l,
             Within(l, IF pc'[c] = "silence" THEN Tail(job'[c].left) ELSE job'[c].left)
      PROVE  l \in StillToClean(c)'
  BY <1>4, <1>5, StillToCleanIsLeft DEF StillToClean
<1>6. SUFFICES ASSUME NEW l \in Names, "default" \in sdk'[l].handlers
               PROVE  l \in unclean' \/ \E d \in Callers : l \in StillToClean(d)'
  BY DEF DefaultInv
<1>7. ASSUME "default" \in sdk[l].handlers, l \in unclean => l \in unclean',
             l \in StillToClean(c) => l \in StillToClean(c)'
      PROVE  l \in unclean' \/ \E d \in Callers : l \in StillToClean(d)'
  BY <1>1, <1>7 DEF DefaultInv
<1>8. CASE Detach(c)
  <2>1. l # Head(q) /\ "default" \in sdk[l].handlers
    BY <1>6, <1>8, SdkEffects DEF Detached
  <2>2. pc[c] = "detach" /\ pc'[c] = "silence" /\ job' = job /\ unclean' = unclean \ {Head(q)}
    BY <1>8, StepOfCaller DEF Detach
  <2>3. l \in StillToClean(c) => Within(l, Tail(q))
    BY <1>2, <1>3, <2>1, <2>2, TailWithin
  <2>4. l \in StillToClean(c) => l \in StillToClean(c)'
    BY <1>3, <1>5, <2>2, <2>3
  <2> QED BY <1>7, <2>1, <2>2, <2>4
<1>9. CASE Silence(c)
  <2>1. "default" \in sdk[l].handlers
    <3>1. CASE l = Head(q)
      <4>1. Silenced(l)
        BY <1>9, <3>1, SdkEffects
      <4>2. sdk'[l].handlers = sdk[l].handlers \cup {"null"}
        BY <4>1 DEF Silenced
      <4> QED BY <1>6, <4>2
    <3>2. CASE l # Head(q)
      <4>1. sdk'[l] = sdk[l]
        BY <1>9, <3>2, SdkEffects
      <4> QED BY <1>6, <4>1
    <3> QED BY <3>1, <3>2
  <2>2. /\ pc[c] = "silence" /\ unclean' = unclean /\ job' = [job EXCEPT ![c].left = Tail(q)]
        /\ pc'[c] \in {job[c].next, "detach"}
    BY <1>9, StepOfCaller DEF Silence, Remaining
  <2>3. job'[c].left = Tail(q) /\ job'[c].next = job[c].next /\ job[c].next # "silence"
    <3>1. job'[c] = [job[c] EXCEPT !.left = Tail(q)] /\ job[c] \in Jobs
      BY <2>2 DEF JobInv, JobType
    <3> QED BY <3>1 DEF Jobs
  <2>4. l \in StillToClean(c) => l \in StillToClean(c)'
    BY <1>3, <1>5, <2>2, <2>3
  <2> QED BY <1>7, <2>1, <2>2, <2>4
<1>10. CASE Construct(c)
  <2>1. pc'[c] = "sdk" /\ job'[c].left = Loggers
    BY <1>10, AllAreLeft DEF Construct
  <2>2. job'[c].next = "publish"
    <3>1. job' = [job EXCEPT ![c].left = Loggers, ![c].next = "publish"]
      BY <1>10 DEF Construct, SilenceNext
    <3>2. job'[c] = [job[c] EXCEPT !.left = Loggers, !.next = "publish"] /\ job[c] \in Jobs
      BY <3>1 DEF JobInv, JobType
    <3> QED BY <3>2 DEF Jobs
  <2> QED BY <1>5, <2>1, <2>2, LoggersWithin
<1>11. CASE ConstructFails(c)
  <2>1. unclean' = unclean \cup {k \in Names : sdk'[k] # sdk[k]}
    BY <1>11 DEF ConstructFails
  <2>2. job[c].next # "publish"
    BY <1>11 DEF ConstructFails, JobInv, JobShape
  <2>3. CASE sdk'[l] # sdk[l]
    BY <2>1, <2>3
  <2>4. CASE sdk'[l] = sdk[l]
    BY <1>3, <1>6, <1>7, <2>1, <2>2, <2>4
  <2> QED BY <2>3, <2>4
<1>12. CASE ~Detach(c) /\ ~Silence(c) /\ ~Construct(c) /\ ~ConstructFails(c)
  <2>1. sdk' = sdk /\ unclean' = unclean
    BY <1>12, SdkEffects
  <2>2. CASE EnterSdk(c)
    <3>1. pc[c] = "sdk" /\ pc'[c] = "detach" /\ job' = job
      BY <2>2, StepOfCaller DEF EnterSdk
    <3> QED BY <1>3, <1>5, <1>6, <1>7, <2>1, <3>1
  <2>3. CASE ~EnterSdk(c)
    <3>1. pc[c] \notin SdkPcs
      BY <1>12, <2>3
      DEF Step, CallInit, EnterInit, ConfigureNamed, BuildHandlers, BuildFails, RemoveOwned,
          AddHandlers, SetFlags, ConfigureSdk, Install, InstallState, HealthRoute, ForkHook,
          ExitHook, IncludeRouter, Rollback, Client, CreateClient, PublishClient
    <3>2. job[c].next = "publish" => q = <<>>
      <4>1. pc[c] \in Pcs
        BY DEF TypeOK
      <4> QED BY <3>1, <4>1, NoJobIsEmpty DEF Pcs, JobInv, JobShape
    <3>3. l \notin StillToClean(c)
      BY <1>3, <3>1, <3>2 DEF Within
    <3> QED BY <1>6, <1>7, <2>1, <3>3
  <2> QED BY <2>2, <2>3
<1> QED BY <1>8, <1>9, <1>10, <1>11, <1>12

(***************************************************************************)
(* The applications                                                        *)
(***************************************************************************)

(* The call that is at an application, or past its loggers, has the lock.  *)
LEMMA InitializingHolds ==
  ASSUME JobInv, NEW c \in Callers, Initializing(c)
  PROVE  Calling(c) /\ pc[c] # "init" /\ init_lock = c /\ ~Refused(job[c].config)
<1>1. Calling(c) /\ pc[c] # "init"
  BY DEF Initializing, Calling, JobInv, JobShape
<1> QED BY <1>1 DEF JobInv, CallShape

LEMMA InstallInitializes ==
  ASSUME JobInv, NEW c \in Callers, Install(c)
  PROVE  Initializing(c) /\ \A d \in Callers : d # c => ~Initializing(d)
<1>1. Initializing(c)
  BY DEF Install, InstallState, HealthRoute, ForkHook, ExitHook, IncludeRouter, Rollback, Initializing
<1> QED BY <1>1, InitializingHolds

(* Only the installation touches the applications. *)
LEMMA AppsAreLeft ==
  ASSUME NEW c \in Callers, Step(c), ~Install(c)
  PROVE  UNCHANGED <<app_state, states, lifespans, fork_hooks, exit_hooks>>
  BY DEF Step, CallInit, EnterInit, ConfigureNamed, BuildHandlers, BuildFails, RemoveOwned,
         AddHandlers, SetFlags, ConfigureSdk, EnterSdk, Detach, Silence, Client, CreateClient,
         Construct, ConstructFails, PublishClient, apps

LEMMA ReturnedIsDone ==
  ASSUME TypeOK, JobInv, NEW c \in Callers, Return(c)
  PROVE  InstallShape(c)' /\ job'[c] = NoJob
<1>1. pc'[c] = "idle" /\ job'[c] = NoJob
  BY StepOfCaller DEF Return
<1> QED BY <1>1, NoJobIsEmpty DEF InstallShape, Initializing

(* A step that keeps the application of its call, and what is installed of *)
(* it, which is nothing.                                                   *)
LEMMA BeforeInstallation ==
  ASSUME NEW c \in Callers, InstallShape(c), app_state' = app_state,
         pc'[c] \notin Installed, Initializing(c)' => Initializing(c) /\ job'[c].app = job[c].app,
         pc[c] \notin Installed
  PROVE  InstallShape(c)'
  BY DEF InstallShape

LEMMA StepInstalls ==
  ASSUME TypeOK, JobInv, AppInv, NEW c \in Callers, Step(c)
  PROVE  InstallShape(c)'
<1>0. InstallShape(c)
  BY DEF AppInv
<1>1. CASE CallInit(c)
  <2>1. pc'[c] = "init"
    BY <1>1, StepOfCaller DEF CallInit
  <2>2. ~Initializing(c)'
    BY <2>1, StepKeepsJobInv DEF JobInv, JobShape, Initializing
  <2> QED BY <2>1, <2>2 DEF InstallShape
<1>2. CASE EnterInit(c)
  <2>1. CASE Return(c)
    BY <2>1, ReturnedIsDone
  <2>2. CASE ~Return(c)
    <3>1. pc'[c] = "build" /\ job' = job /\ app_state' = app_state /\ app_state[job[c].app] = None
      BY <1>2, <2>2, StepOfCaller DEF EnterInit, apps
    <3> QED BY <3>1 DEF InstallShape
  <2> QED BY <2>1, <2>2
<1>3. CASE ConfigureNamed(c)
  <2>1. CASE BuildFails(c)
    BY <2>1, ReturnedIsDone DEF BuildFails
  <2>2. CASE ~BuildFails(c)
    <3>1. /\ pc[c] \in NamedPcs /\ app_state' = app_state
          /\ Goto(c, "remove") \/ Goto(c, "add") \/ Goto(c, "flags") \/ Goto(c, "sdk")
      BY <1>3, <2>2
      DEF ConfigureNamed, BuildHandlers, RemoveOwned, AddHandlers, SetFlags, SilenceNext, apps
    <3>2. job'[c].app = job[c].app
      <4>1. job' = job \/ job' = [job EXCEPT ![c].left = Loggers, ![c].next = "install"]
        BY <1>3, <2>2 DEF ConfigureNamed, BuildHandlers, RemoveOwned, AddHandlers, SetFlags, SilenceNext
      <4>2. job'[c] = job[c] \/ job'[c] = [job[c] EXCEPT !.left = Loggers, !.next = "install"]
        BY <4>1 DEF JobInv, JobType
      <4>3. job[c] \in Jobs
        BY DEF JobInv, JobType
      <4> QED BY <4>2, <4>3 DEF Jobs
    <3>3. pc'[c] \notin Installed
      BY <3>1, StepOfCaller
    <3> QED BY <1>0, <3>1, <3>2, <3>3, BeforeInstallation DEF Initializing
  <2> QED BY <2>1, <2>2
<1>4. CASE ConfigureSdk(c)
  <2>1. /\ pc[c] \in SdkPcs /\ app_state' = app_state
        /\ pc'[c] \in {"detach", "silence", job[c].next}
    BY <1>4, StepOfCaller DEF ConfigureSdk, EnterSdk, Detach, Silence, apps
  <2>2. job'[c].app = job[c].app /\ job'[c].next = job[c].next
    <3>1. job' = job \/ job' = [job EXCEPT ![c].left = Remaining(c)]
      BY <1>4 DEF ConfigureSdk, EnterSdk, Detach, Silence
    <3>2. job'[c] = job[c] \/ job'[c] = [job[c] EXCEPT !.left = Remaining(c)]
      BY <3>1 DEF JobInv, JobType
    <3>3. job[c] \in Jobs
      BY DEF JobInv, JobType
    <3> QED BY <3>2, <3>3 DEF Jobs
  <2>3. job[c].next \in {"idle", "install"} \cup ClientPcs
    BY DEF JobInv, JobType, Jobs
  <2> QED BY <1>0, <2>1, <2>2, <2>3, BeforeInstallation DEF Initializing
<1>5. CASE Install(c)
  <2>1. Calling(c)
    BY <1>5, InstallInitializes, InitializingHolds
  <2>2. job[c].app \in Apps /\ job[c].serial \in Serials
    BY <2>1, JobOfCall
  <2>3. CASE InstallState(c)
    <3> DEFINE j == job[c]
    <3>1. /\ app_state' = [app_state EXCEPT ![j.app] = j.serial] /\ job' = job
          /\ states' = [s \in DOMAIN states \cup {j.serial} |-> IF s = j.serial
               THEN [owner |-> j.owner, app |-> j.app, config |-> j.config, shutting_down |-> FALSE]
               ELSE states[s]]
          /\ pc'[c] = "health"
      BY <2>3, StepOfCaller DEF InstallState
    <3>2. app_state'[j.app] = j.serial
      BY <2>2, <3>1 DEF TypeOK
    <3>3. /\ j.serial \in DOMAIN states' /\ states'[j.serial].owner = j.owner
          /\ states'[j.serial].app = j.app /\ states'[j.serial].config = j.config
      BY <3>1
    <3> QED BY <3>1, <3>2, <3>3 DEF InstallShape, Matches
  <2>4. CASE HealthRoute(c)
    <3>1. pc[c] = "health" /\ pc'[c] = "fork" /\ UNCHANGED <<job, app_state, states>>
      BY <2>4, StepOfCaller DEF HealthRoute
    <3> QED BY <1>0, <3>1 DEF InstallShape, Matches
  <2>5. CASE ForkHook(c)
    <3>1. /\ pc[c] = "fork" /\ pc'[c] = "atexit" /\ UNCHANGED <<job, app_state, states>>
          /\ fork_hooks' = fork_hooks \cup {Hook(c)}
      BY <2>5, StepOfCaller DEF ForkHook
    <3> QED BY <1>0, <3>1 DEF InstallShape, Matches, Hook
  <2>6. CASE ExitHook(c)
    <3>1. /\ pc[c] = "atexit" /\ pc'[c] = "router" /\ UNCHANGED <<job, app_state, states, fork_hooks>>
          /\ On(job[c].config, "NACOS_DEREGISTER_ON_EXIT") => Hook(c) \in exit_hooks'
      BY <2>6, StepOfCaller DEF ExitHook
    <3> QED BY <1>0, <3>1 DEF InstallShape, Matches, Hook
  <2>7. CASE IncludeRouter(c) \/ Rollback(c)
    BY <2>7, ReturnedIsDone DEF IncludeRouter, Rollback
  <2> QED BY <1>5, <2>3, <2>4, <2>5, <2>6, <2>7 DEF Install
<1>6. CASE Client(c)
  <2>1. CASE ConstructFails(c) \/ PublishClient(c)
    BY <2>1, ReturnedIsDone DEF ConstructFails, PublishClient
  <2>2. ASSUME NEW next \in ClientPcs, SilenceNext(c, next) PROVE ~Initializing(c)' /\ pc'[c] = "sdk"
    <3>1. pc'[c] = "sdk" /\ job' = [job EXCEPT ![c].left = Loggers, ![c].next = next]
      BY <2>2, StepOfCaller DEF SilenceNext
    <3>2. job'[c] = [job[c] EXCEPT !.left = Loggers, !.next = next] /\ job[c] \in Jobs
      BY <3>1 DEF JobInv, JobType
    <3>3. job'[c].next = next
      BY <3>2 DEF Jobs
    <3> QED BY <3>1, <3>3 DEF Initializing
  <2>3. CASE CreateClient(c) \/ Construct(c)
    <3>1. ~Initializing(c)' /\ pc'[c] = "sdk"
      BY <2>2, <2>3 DEF CreateClient, Construct
    <3> QED BY <3>1 DEF InstallShape
  <2> QED BY <1>6, <2>1, <2>3 DEF Client
<1> QED BY <1>1, <1>2, <1>3, <1>4, <1>5, <1>6 DEF Step

LEMMA OthersInstallAlone ==
  ASSUME TypeOK, JobInv, AppInv, NEW c \in Callers, Step(c), NEW d \in Callers, d # c
  PROVE  InstallShape(d)'
<1>1. pc'[d] = pc[d] /\ job'[d] = job[d] /\ InstallShape(d)
  BY OthersStay DEF AppInv
<1>2. CASE Install(c)
  <2>1. ~Initializing(d)
    BY <1>2, InstallInitializes
  <2> QED BY <1>1, <2>1 DEF InstallShape, Initializing
<1>3. CASE ~Install(c)
  BY <1>1, <1>3, AppsAreLeft DEF InstallShape, Initializing, Matches, Hook
<1> QED BY <1>2, <1>3

LEMMA CompleteStays ==
  ASSUME NEW s, Complete(s), states'[s] = states[s], lifespans \subseteq lifespans',
         fork_hooks \subseteq fork_hooks', exit_hooks \subseteq exit_hooks', process' = process
  PROVE  Complete(s)'
<1>1. \A h : Matches(h, s) => Matches(h, s)'
  BY DEF Matches
<1>2. CleansUp(s)' => CleansUp(s)
  BY DEF CleansUp
<1>3. states[s].shutting_down => states'[s].shutting_down
  OBVIOUS
<1>4. (\E h \in fork_hooks : Matches(h, s))'
  BY <1>1 DEF Complete
<1>5. (s \in lifespans \/ states[s].shutting_down)'
  BY <1>3 DEF Complete
<1>6. (CleansUp(s) => \/ process # "running" /\ states[s].shutting_down
                      \/ \E h \in exit_hooks : Matches(h, s))'
  BY <1>1, <1>2, <1>3 DEF Complete
<1> QED BY <1>4, <1>5, <1>6 DEF Complete

LEMMA StepKeepsAppShape ==
  ASSUME TypeOK, JobInv, AppInv, NEW c \in Callers, Step(c), NEW a \in Apps
  PROVE  AppShape(a)'
<1>1. SUFFICES ASSUME NEW s, s = app_state'[a], s # None, \A d \in Callers : job'[d].serial # s
               PROVE  Complete(s)'
  BY DEF AppShape
<1>2. InstallShape(c) /\ AppShape(a)
  BY DEF AppInv
<1>3. app_state[a] # None => app_state[a] \in DOMAIN states /\ states[app_state[a]].app = a
  BY DEF TypeOK
<1>4. process' = process /\ \A d \in Callers : d # c => job'[d] = job[d]
  BY OthersStay, StepMoves DEF JobInv
<1>5. ASSUME s = app_state[a], s # job[c].serial
      PROVE  Complete(s)
  <2>1. \A d \in Callers : job[d].serial # s
    BY <1>1, <1>4, <1>5
  <2> QED BY <1>1, <1>2, <1>5, <2>1 DEF AppShape
<1>6. CASE ~Install(c)
  <2>1. UNCHANGED <<app_state, states, lifespans, fork_hooks, exit_hooks>>
    BY <1>6, AppsAreLeft
  <2>2. CASE job' = job
    <3>1. s # job[c].serial
      BY <1>1, <2>2
    <3> QED BY <1>1, <1>4, <1>5, <2>1, <3>1, CompleteStays
  <2>3. CASE pc[c] \notin Installed
    <3>1. s # job[c].serial
      BY <1>1, <1>3, <2>1, <2>3 DEF JobInv, SerialInv
    <3> QED BY <1>1, <1>4, <1>5, <2>1, <3>1, CompleteStays
  <2>4. pc[c] \notin Installed
    BY <1>6 DEF Step, CallInit, EnterInit, ConfigureNamed, BuildHandlers, BuildFails, RemoveOwned,
      AddHandlers, SetFlags, ConfigureSdk, EnterSdk, Detach, Silence, Client, CreateClient,
      Construct, ConstructFails, PublishClient
  <2> QED BY <2>3, <2>4
<1>7. CASE InstallState(c)
  <2>1. /\ app_state' = [app_state EXCEPT ![job[c].app] = job[c].serial] /\ job' = job
        /\ UNCHANGED <<lifespans, fork_hooks, exit_hooks>>
        /\ \A r \in DOMAIN states : r # job[c].serial => states'[r] = states[r]
    BY <1>7 DEF InstallState
  <2>2. s # job[c].serial
    BY <1>1, <2>1
  <2>3. s = app_state[a]
    BY <1>1, <2>1, <2>2 DEF TypeOK
  <2>4. states'[s] = states[s]
    BY <1>1, <1>3, <2>1, <2>2, <2>3
  <2> QED BY <1>1, <1>4, <1>5, <2>1, <2>2, <2>3, <2>4, CompleteStays
<1>8. CASE HealthRoute(c) \/ ForkHook(c) \/ ExitHook(c)
  <2>1. /\ UNCHANGED <<app_state, states, lifespans, job>>
        /\ fork_hooks \subseteq fork_hooks' /\ exit_hooks \subseteq exit_hooks'
    BY <1>8 DEF HealthRoute, ForkHook, ExitHook
  <2>2. s # job[c].serial
    BY <1>1, <2>1
  <2> QED BY <1>1, <1>4, <1>5, <2>1, <2>2, CompleteStays
<1>9. CASE IncludeRouter(c)
  <2>1. /\ UNCHANGED <<app_state, states, fork_hooks, exit_hooks>> /\ pc[c] = "router"
        /\ lifespans' = lifespans \cup {job[c].serial}
    BY <1>9 DEF IncludeRouter
  <2>2. CASE s = job[c].serial
    <3>1. /\ Matches(job[c], s) /\ states[s].config = job[c].config /\ Hook(c) \in fork_hooks
          /\ On(job[c].config, "NACOS_DEREGISTER_ON_EXIT") => Hook(c) \in exit_hooks
      BY <1>2, <2>1, <2>2 DEF InstallShape
    <3>2. Matches(Hook(c), s)
      BY <3>1 DEF Matches, Hook
    <3>3. CleansUp(s) => Hook(c) \in exit_hooks
      BY <3>1 DEF CleansUp
    <3>4. (\E h \in fork_hooks : Matches(h, s)) /\ (CleansUp(s) => \E h \in exit_hooks : Matches(h, s))
      BY <3>1, <3>2, <3>3
    <3>5. s \in lifespans'
      BY <2>1, <2>2
    <3> QED BY <2>1, <3>4, <3>5 DEF Complete, Matches, CleansUp
  <2>3. CASE s # job[c].serial
    BY <1>1, <1>4, <1>5, <2>1, <2>3, CompleteStays
  <2> QED BY <2>2, <2>3
<1>10. CASE Rollback(c)
  <2>1. /\ UNCHANGED <<states, fork_hooks, exit_hooks, lifespans>> /\ pc[c] \in Installed
        /\ app_state' = IF app_state[job[c].app] = job[c].serial
                        THEN [app_state EXCEPT ![job[c].app] = None] ELSE app_state
    BY <1>10 DEF Rollback
  <2>2. /\ app_state[job[c].app] = job[c].serial /\ states[job[c].serial].app = job[c].app
    BY <1>2, <2>1 DEF InstallShape, Matches
  <2>3. a # job[c].app /\ s = app_state[a]
    BY <1>1, <2>1, <2>2 DEF TypeOK
  <2>4. s # job[c].serial
    BY <1>1, <1>3, <2>2, <2>3
  <2> QED BY <1>1, <1>4, <1>5, <2>1, <2>3, <2>4, CompleteStays
<1> QED BY <1>6, <1>7, <1>8, <1>9, <1>10 DEF Install

LEMMA StepKeepsAppInv ==
  ASSUME TypeOK, JobInv, AppInv, NEW c \in Callers, Step(c)
  PROVE  AppInv'
<1>1. \A s \in DOMAIN states' : ~Refused(states'[s].config)
  <2>1. CASE InstallState(c)
    <3>1. ~Refused(job[c].config)
      BY <2>1, InstallInitializes, InitializingHolds DEF Install
    <3>2. /\ DOMAIN states' = DOMAIN states \cup {job[c].serial}
          /\ states'[job[c].serial].config = job[c].config
          /\ \A s \in DOMAIN states : s # job[c].serial => states'[s] = states[s]
      BY <2>1 DEF InstallState
    <3> QED BY <3>1, <3>2 DEF AppInv
  <2>2. CASE ~InstallState(c)
    BY <2>2, StepKeepsStates DEF AppInv
  <2> QED BY <2>1, <2>2
<1>2. \A d \in Callers : InstallShape(d)'
  BY StepInstalls, OthersInstallAlone
<1> QED BY <1>1, <1>2, StepKeepsAppShape DEF AppInv

LEMMA CleanUpCloses ==
  ASSUME TypeOK, NEW s \in DOMAIN states, CleanUp(s)
  PROVE  states'[s].shutting_down
<1>1. CASE states[s].shutting_down
  BY <1>1 DEF CleanUp
<1>2. CASE ~states[s].shutting_down
  <2>1. states' = Closed(s)
    BY <1>2 DEF CleanUp, Closed
  <2> QED BY <2>1, ClosedKeeps
<1> QED BY <1>1, <1>2

(* What an end does to the lifespans and the hooks: the one that is over   *)
(* has closed its state, if that is still the one of the application.      *)
LEMMA EndsClose ==
  ASSUME TypeOK, JobInv, Ending
  PROVE  /\ \A s \in lifespans \ lifespans' : app_state[states[s].app] = s => states'[s].shutting_down
         /\ \A h \in exit_hooks \ exit_hooks' :
               /\ process = "exiting"
               /\ \A s \in DOMAIN states :
                     Matches(h, s) /\ app_state[states[s].app] = s => states'[s].shutting_down
         /\ lifespans' \subseteq lifespans /\ exit_hooks' \subseteq exit_hooks
<1>1. ASSUME NEW s \in Serials, LifespanEnds(s), app_state[states[s].app] = s
      PROVE  states'[s].shutting_down
  <2>1. s \in DOMAIN states
    BY <1>1 DEF LifespanEnds, TypeOK
  <2>2. CASE states' = Closed(s)
    BY <2>1, <2>2, ClosedKeeps
  <2> QED BY <1>1, <2>1, <2>2, CleanUpCloses DEF LifespanEnds, Closed
<1>2. ASSUME NEW h \in exit_hooks, RunExitHook(h), NEW s \in DOMAIN states, Matches(h, s),
             app_state[states[s].app] = s
      PROVE  states'[s].shutting_down
  <2>1. app_state[h.app] = s /\ s # None /\ states[s].owner = h.owner
    BY <1>2, ApplicationAssumption DEF Matches, TypeOK
  <2>2. CleanUp(s)
    BY <1>2, <2>1 DEF RunExitHook
  <2> QED BY <2>2, CleanUpCloses
<1>3. ASSUME NEW s \in lifespans \ lifespans' PROVE s \in Serials /\ LifespanEnds(s)
  BY <1>3 DEF Ending, LifespanEnds, BeginExit, RunExitHook, Exited, Over, vars, apps
<1>4. ASSUME NEW h \in exit_hooks \ exit_hooks' PROVE process = "exiting" /\ RunExitHook(h)
  BY <1>4 DEF Ending, LifespanEnds, BeginExit, RunExitHook, Exited, Over, vars, apps
<1>5. lifespans' \subseteq lifespans /\ exit_hooks' \subseteq exit_hooks
  BY DEF Ending, LifespanEnds, BeginExit, RunExitHook, Exited, Over, vars, apps
<1> QED BY <1>1, <1>2, <1>3, <1>4, <1>5

LEMMA EndingKeepsAppInv ==
  ASSUME TypeOK, JobInv, AppInv, Ending
  PROVE  AppInv'
<1>1. UNCHANGED <<app_state, fork_hooks, pc, job>>
  BY EndingMoves
<1>2. /\ DOMAIN states' = DOMAIN states
      /\ \A r \in DOMAIN states :
            /\ states'[r].owner = states[r].owner /\ states'[r].app = states[r].app
            /\ states'[r].config = states[r].config
            /\ states[r].shutting_down => states'[r].shutting_down
  BY EndingMoves, ClosedKeeps
<1>3. \A h, r : r \in DOMAIN states => (Matches(h, r)' <=> Matches(h, r))
  BY <1>2 DEF Matches
<1>4. ASSUME NEW d \in Callers PROVE InstallShape(d)'
  <2>1. CASE pc[d] = "idle"
    <3>1. ~Initializing(d)' /\ pc'[d] = "idle"
      BY <1>1, <2>1, NoJobIsEmpty DEF JobInv, JobShape, Initializing
    <3> QED BY <3>1 DEF InstallShape
  <2>2. CASE pc[d] # "idle"
    <3>1. process = "running"
      BY <2>2 DEF JobInv
    <3>2. exit_hooks' = exit_hooks
      BY <3>1, EndsClose
    <3>3. pc[d] \in Installed =>
            Matches(job[d], job[d].serial)' /\ states'[job[d].serial].config = job[d].config
      BY <1>1, <1>2, <1>3 DEF AppInv, InstallShape, Matches
    <3>4. Hook(d)' = Hook(d) /\ Initializing(d)' = Initializing(d)
      BY <1>1 DEF Hook, Initializing
    <3> QED BY <1>1, <1>2, <3>2, <3>3, <3>4 DEF AppInv, InstallShape, Matches
  <2> QED BY <2>1, <2>2
<1>5. ASSUME NEW a \in Apps PROVE AppShape(a)'
  <2>1. SUFFICES ASSUME NEW s, s = app_state[a], s # None, Complete(s)
                 PROVE  Complete(s)'
    BY <1>1, <1>5 DEF AppInv, AppShape
  <2>2. s \in DOMAIN states /\ app_state[states[s].app] = s
    BY <2>1 DEF TypeOK
  <2>3. (\E h \in fork_hooks : Matches(h, s))'
    BY <1>1, <1>3, <2>1, <2>2 DEF Complete
  <2>4. (s \in lifespans \/ states[s].shutting_down)'
    BY <1>2, <2>1, <2>2, EndsClose DEF Complete
  <2>5. (CleansUp(s) => \/ process # "running" /\ states[s].shutting_down
                        \/ \E h \in exit_hooks : Matches(h, s))'
    <3>1. SUFFICES ASSUME CleansUp(s), ~(process' # "running" /\ states'[s].shutting_down)
                   PROVE  \E h \in exit_hooks' : Matches(h, s)'
      BY <1>2, <2>2 DEF CleansUp
    <3>2. process # "running" => process' # "running"
      BY DEF Ending, LifespanEnds, BeginExit, RunExitHook, Exited, Over, vars, ends
    <3>3. PICK h \in exit_hooks : Matches(h, s)
      BY <1>2, <2>1, <2>2, <3>1, <3>2 DEF Complete
    <3>4. h \in exit_hooks'
      BY <2>2, <3>1, <3>2, <3>3, EndsClose
    <3> QED BY <1>3, <2>2, <3>3, <3>4
  <2> QED BY <2>3, <2>4, <2>5 DEF Complete
<1>6. \A s \in DOMAIN states' : ~Refused(states'[s].config)
  BY <1>2 DEF AppInv
<1> QED BY <1>4, <1>5, <1>6 DEF AppInv

(***************************************************************************)
(* Their ends                                                              *)
(***************************************************************************)
LEMMA StepKeepsCleanInv ==
  ASSUME TypeOK, JobInv, AppInv, CleanInv, NEW c \in Callers, Step(c)
  PROVE  CleanInv'
<1>1. UNCHANGED <<process, deregistrations>> /\ process = "running"
  BY StepMoves, OthersStay DEF JobInv
<1>2. deregistrations \in [Serials -> Nat] /\ DOMAIN states \subseteq Serials
  BY DEF TypeOK
<1>3. /\ DOMAIN states \subseteq DOMAIN states'
      /\ \A s \in DOMAIN states : states'[s] = states[s]
      /\ \A s \in DOMAIN states' \ DOMAIN states :
            s \in Serials /\ deregistrations[s] = 0 /\ states'[s].shutting_down = FALSE
  <2>1. CASE InstallState(c)
    <3>1. Calling(c) /\ pc[c] \notin Installed
      BY <2>1, InstallInitializes, InitializingHolds DEF Install, InstallState
    <3>2. job[c].serial \in Serials /\ job[c].serial \notin DOMAIN states
      BY <3>1, JobOfCall DEF JobInv, SerialInv
    <3>3. deregistrations[job[c].serial] = 0
      BY <1>2, <3>2 DEF CleanInv, CountInv
    <3>4. /\ DOMAIN states' = DOMAIN states \cup {job[c].serial}
          /\ states'[job[c].serial].shutting_down = FALSE
          /\ \A s \in DOMAIN states : s # job[c].serial => states'[s] = states[s]
      BY <2>1 DEF InstallState
    <3> QED BY <3>2, <3>3, <3>4
  <2>2. CASE ~InstallState(c)
    BY <2>2, StepKeepsStates
  <2> QED BY <2>1, <2>2
<1>4. \A r \in DOMAIN states : r \in DOMAIN states' /\ (CleansUp(r) => CleansUp(r)')
                                /\ \A h : Matches(h, r) => Matches(h, r)'
  BY <1>3 DEF CleansUp, Matches
<1>5. CountInv'
  <2>1. ASSUME NEW s \in Serials
        PROVE  /\ deregistrations'[s] <= 1
               /\ deregistrations'[s] > 0 => s \in DOMAIN states' /\ states'[s].shutting_down
    BY <1>1, <1>3 DEF CleanInv, CountInv
  <2>2. ASSUME NEW s \in DOMAIN states', states'[s].shutting_down, CleansUp(s)'
        PROVE  deregistrations'[s] = 1
    <3>1. s \in DOMAIN states /\ states[s].shutting_down /\ CleansUp(s)
      BY <1>3, <2>2 DEF CleansUp
    <3> QED BY <1>1, <3>1 DEF CleanInv, CountInv
  <2>3. ASSUME NEW s \in DOMAIN states', deregistrations'[s] > 0
        PROVE  (\E r \in DOMAIN states : CleansUp(r) /\ Matches(states[r], s))'
    <3>1. s \in DOMAIN states
      BY <1>1, <1>3, <2>3
    <3>2. PICK r \in DOMAIN states : CleansUp(r) /\ Matches(states[r], s)
      BY <1>1, <2>3, <3>1 DEF CleanInv, CountInv
    <3>3. states'[r] = states[r] /\ states'[s] = states[s]
      BY <1>3, <3>1, <3>2
    <3>4. CleansUp(r)' /\ Matches(states[r], s)'
      BY <3>2, <3>3 DEF CleansUp, Matches
    <3> QED BY <1>3, <3>2, <3>4
  <2> QED BY <2>1, <2>2, <2>3 DEF CountInv
<1>6. HookInv'
  <2>1. SUFFICES ASSUME NEW h \in exit_hooks'
                 PROVE  (\E r \in DOMAIN states : CleansUp(r) /\ Matches(h, r))'
    BY DEF HookInv
  <2>2. CASE h \in exit_hooks
    BY <1>4, <2>2 DEF CleanInv, HookInv
  <2>3. CASE h \notin exit_hooks
    <3>1. ExitHook(c)
      BY <2>1, <2>3 DEF Step, CallInit, EnterInit, ConfigureNamed, BuildHandlers, BuildFails, RemoveOwned,
         AddHandlers, SetFlags, ConfigureSdk, EnterSdk, Detach, Silence, Install, InstallState, HealthRoute,
         ForkHook, IncludeRouter, Rollback, Client, CreateClient, Construct,
         ConstructFails, PublishClient, apps
    <3>2. pc[c] \in Installed /\ h = Hook(c) /\ On(job[c].config, "NACOS_DEREGISTER_ON_EXIT")
      BY <2>1, <2>3, <3>1 DEF ExitHook
    <3>3. /\ job[c].serial \in DOMAIN states /\ Matches(job[c], job[c].serial)
          /\ states[job[c].serial].config = job[c].config
      BY <3>2 DEF AppInv, InstallShape
    <3>4. CleansUp(job[c].serial) /\ Matches(h, job[c].serial)
      BY <3>2, <3>3 DEF CleansUp, Matches, Hook
    <3> QED BY <1>4, <3>3, <3>4
  <2> QED BY <2>2, <2>3
<1> QED BY <1>1, <1>5, <1>6 DEF CleanInv

(* The handler at the end counts once, on a state that was to be cleaned   *)
(* up or shares its application and owner with one that was.               *)
LEMMA CleanUpCounts ==
  ASSUME TypeOK, CountInv, NEW s \in DOMAIN states, CleanUp(s),
         \E r \in DOMAIN states : CleansUp(r) /\ Matches(states[r], s)
  PROVE  CountInv'
<1>1. CASE states[s].shutting_down
  BY <1>1 DEF CleanUp, CountInv, CleansUp, Matches
<1>2. CASE ~states[s].shutting_down
  <2>1. /\ states' = Closed(s)
        /\ deregistrations' = [deregistrations EXCEPT ![s] = deregistrations[s] + 1]
    BY <1>2 DEF CleanUp, Closed
  <2>2. deregistrations \in [Serials -> Nat] /\ DOMAIN states \subseteq Serials
    BY DEF TypeOK
  <2>3. deregistrations[s] = 0
    BY <1>2, <2>2 DEF CountInv
  <2>4. deregistrations'[s] = 1 /\ \A r \in Serials : r # s => deregistrations'[r] = deregistrations[r]
    BY <2>1, <2>2, <2>3
  <2>5. /\ DOMAIN states' = DOMAIN states
        /\ \A r \in DOMAIN states :
              /\ states'[r].owner = states[r].owner /\ states'[r].app = states[r].app
              /\ states'[r].config = states[r].config
              /\ states'[r].shutting_down = (states[r].shutting_down \/ r = s)
    BY <2>1, ClosedKeeps
  <2>6. \A r \in DOMAIN states : CleansUp(r)' <=> CleansUp(r)
    BY <2>5 DEF CleansUp
  <2>7. \A r, t \in DOMAIN states : Matches(states[r], t)' <=> Matches(states[r], t)
    BY <2>5 DEF Matches
  <2>8. ASSUME NEW r \in Serials
        PROVE  /\ deregistrations'[r] <= 1
               /\ deregistrations'[r] > 0 => r \in DOMAIN states' /\ states'[r].shutting_down
    <3>1. CASE r = s
      BY <2>4, <2>5, <3>1, CleanUpCloses
    <3>2. CASE r # s
      <4>1. deregistrations'[r] = deregistrations[r]
        BY <2>4, <3>2
      <4>2. r \in DOMAIN states /\ states[r].shutting_down => r \in DOMAIN states' /\ states'[r].shutting_down
        BY <2>5
      <4> QED BY <4>1, <4>2 DEF CountInv
    <3> QED BY <3>1, <3>2
  <2>9. ASSUME NEW r \in DOMAIN states', states'[r].shutting_down, CleansUp(r)'
        PROVE  deregistrations'[r] = 1
    <3>1. CASE r = s
      BY <2>4, <3>1
    <3>2. CASE r # s
      BY <2>2, <2>4, <2>5, <2>6, <2>9, <3>2 DEF CountInv
    <3> QED BY <3>1, <3>2
  <2>10. ASSUME NEW r \in DOMAIN states', deregistrations'[r] > 0
         PROVE  (\E t \in DOMAIN states : CleansUp(t) /\ Matches(states[t], r))'
    <3>1. \E t \in DOMAIN states : CleansUp(t) /\ Matches(states[t], r)
      <4>1. CASE r # s
        BY <2>2, <2>4, <2>5, <2>10, <4>1 DEF CountInv
      <4> QED BY <4>1
    <3> QED BY <2>5, <2>6, <2>7, <3>1
  <2> QED BY <2>8, <2>9, <2>10 DEF CountInv
<1> QED BY <1>1, <1>2

LEMMA EndingKeepsCleanInv ==
  ASSUME TypeOK, JobInv, CleanInv, Ending
  PROVE  CleanInv'
<1>1. /\ DOMAIN states' = DOMAIN states
      /\ \A r \in DOMAIN states :
            /\ states'[r].owner = states[r].owner /\ states'[r].app = states[r].app
            /\ states'[r].config = states[r].config
  BY EndingMoves, ClosedKeeps
<1>2. HookInv'
  BY <1>1, EndsClose DEF CleanInv, HookInv, CleansUp, Matches
<1>3. process' = "exited" => exit_hooks' = {}
  <2>1. CASE Exited
    BY <2>1 DEF Exited, apps
  <2>2. CASE ~Exited
    <3>1. process' = "exited" => process = "exited"
      BY <2>2 DEF Ending, LifespanEnds, BeginExit, RunExitHook, Over, vars, ends
    <3> QED BY <3>1, EndsClose DEF CleanInv
  <2> QED BY <2>1, <2>2
<1>4. ASSUME UNCHANGED <<states, deregistrations>> PROVE CountInv'
  BY <1>4 DEF CleanInv, CountInv, CleansUp, Matches
<1>5. ASSUME NEW s \in Serials, LifespanEnds(s), ~UNCHANGED <<states, deregistrations>>
      PROVE  CountInv'
  <2>1. s \in DOMAIN states
    BY <1>5 DEF LifespanEnds, TypeOK
  <2>2. CASE CleansUp(s)
    <3>1. CleanUp(s)
      BY <1>5, <2>2 DEF LifespanEnds, CleansUp
    <3> QED BY <2>1, <2>2, <3>1, CleanUpCounts DEF CleanInv, Matches
  <2>3. CASE ~CleansUp(s)
    <3>1. states' = Closed(s) /\ deregistrations' = deregistrations
      BY <1>5, <2>3 DEF LifespanEnds, CleansUp, Closed
    <3>2. \A r \in DOMAIN states : states'[r].shutting_down = (states[r].shutting_down \/ r = s)
      BY <2>1, <3>1, ClosedKeeps
    <3>3. \A r \in DOMAIN states : CleansUp(r)' <=> CleansUp(r)
      BY <1>1 DEF CleansUp
    <3>4. \A r, t \in DOMAIN states : Matches(states[r], t)' <=> Matches(states[r], t)
      BY <1>1 DEF Matches
    <3>5. \A r \in Serials :
            /\ deregistrations'[r] <= 1
            /\ deregistrations'[r] > 0 => r \in DOMAIN states' /\ states'[r].shutting_down
      BY <1>1, <3>1, <3>2 DEF CleanInv, CountInv
    <3>6. ASSUME NEW r \in DOMAIN states', states'[r].shutting_down, CleansUp(r)'
          PROVE  deregistrations'[r] = 1
      BY <1>1, <2>3, <3>1, <3>2, <3>3, <3>6 DEF CleanInv, CountInv
    <3>7. ASSUME NEW r \in DOMAIN states', deregistrations'[r] > 0
          PROVE  (\E t \in DOMAIN states : CleansUp(t) /\ Matches(states[t], r))'
      <4>1. \E t \in DOMAIN states : CleansUp(t) /\ Matches(states[t], r)
        BY <1>1, <3>1, <3>7 DEF CleanInv, CountInv
      <4> QED BY <1>1, <3>3, <3>4, <3>7, <4>1
    <3> QED BY <3>5, <3>6, <3>7 DEF CountInv
  <2> QED BY <2>2, <2>3
<1>6. ASSUME NEW h \in exit_hooks, RunExitHook(h), ~UNCHANGED <<states, deregistrations>>
      PROVE  CountInv'
  <2> DEFINE s == app_state[h.app]
  <2>1. s # None /\ states[s].owner = h.owner /\ CleanUp(s)
    BY <1>6 DEF RunExitHook
  <2>2. h.app \in Apps
    BY DEF TypeOK, Hooks
  <2>3. s \in DOMAIN states /\ states[s].app = h.app
    BY <2>1, <2>2 DEF TypeOK
  <2>4. PICK r \in DOMAIN states : CleansUp(r) /\ Matches(h, r)
    BY DEF CleanInv, HookInv
  <2>5. Matches(states[r], s)
    BY <2>1, <2>3, <2>4 DEF Matches
  <2> QED BY <2>1, <2>3, <2>4, <2>5, CleanUpCounts DEF CleanInv
<1>7. CountInv'
  BY <1>4, <1>5, <1>6 DEF CleanInv, Ending, BeginExit, Exited, Over, vars, apps, ends
<1> QED BY <1>2, <1>3, <1>7 DEF CleanInv

(***************************************************************************)
(* The invariant                                                           *)
(***************************************************************************)
LEMMA InitIsFine == Init => IInv
<1> SUFFICES ASSUME Init PROVE IInv
  OBVIOUS
<1> USE DEF Init
<1>1. \A c \in Callers : pc[c] = "idle" /\ job[c] = NoJob
  OBVIOUS
<1>2. TypeOK
  <2>1. AppType
    BY DEF AppType
  <2>2. LoggerType
    BY DEF LoggerType
  <2>3. RestType
    BY ApplicationAssumption DEF RestType, Pcs
  <2> QED BY <2>1, <2>2, <2>3, TypeParts
<1>3. JobInv
  <2>1. JobType
    BY NoJobIsEmpty DEF JobType
  <2>2. SerialInv
    BY <1>1, NoJobIsEmpty DEF SerialInv
  <2>3. \A c \in Callers : JobShape(c) /\ CallShape(c) /\ LockShape(c)
    BY <1>1, NoJobIsEmpty DEF JobShape, CallShape, LockShape, Calling
  <2> QED BY <1>1, <2>1, <2>2, <2>3 DEF JobInv
<1>4. LoggerInv
  BY <1>1 DEF LoggerInv
<1>5. SilenceInv /\ DefaultInv
  BY <1>1 DEF SilenceInv, DefaultInv
<1>6. AppInv
  BY <1>1, NoJobIsEmpty DEF AppInv, InstallShape, AppShape, Initializing
<1>7. CleanInv
  BY DEF CleanInv, CountInv, HookInv
<1> QED BY <1>2, <1>3, <1>4, <1>5, <1>6, <1>7 DEF IInv

LEMMA StepKeepsIInv == ASSUME IInv, [Next]_vars PROVE IInv'
<1>0. TypeOK /\ JobInv /\ LoggerInv /\ SilenceInv /\ DefaultInv /\ AppInv /\ CleanInv
  BY DEF IInv
<1>1. ASSUME NEW c \in Callers, Step(c) PROVE IInv'
  <2>1. TypeOK'
    BY <1>0, <1>1, StepKeepsAppType, StepKeepsLoggerType, StepKeepsRestType
    DEF TypeOK, AppType, LoggerType, RestType
  <2>2. LoggerInv'
    BY <1>0, <1>1, NamedKeepsLoggerInv, OtherStepsKeepLoggerInv
  <2> QED
    BY <1>0, <1>1, <2>1, <2>2, StepKeepsJobInv, StepKeepsSilenceInv, StepKeepsDefaultInv,
       StepKeepsAppInv, StepKeepsCleanInv
    DEF IInv
<1>2. ASSUME Ending PROVE IInv'
  <2>1. TypeOK'
    BY <1>0, <1>2, EndingKeepsTypes DEF TypeOK, AppType, LoggerType, RestType
  <2> QED
    BY <1>0, <1>2, <2>1, EndingKeepsJobInv, EndingKeepsLoggersQuiet, EndingKeepsAppInv,
       EndingKeepsCleanInv
    DEF IInv
<1>3. CASE UNCHANGED vars
  <2> USE <1>3 DEF vars, apps, loggers, named, locks, ends
  <2>1. TypeOK'
    BY <1>0 DEF TypeOK
  <2>2. JobInv'
    BY <1>0 DEF JobInv, JobType, SerialInv, JobShape, CallShape, LockShape, Calling
  <2>3. LoggerInv'
    BY <1>0 DEF LoggerInv, Made
  <2>4. SilenceInv' /\ DefaultInv'
    BY <1>0 DEF SilenceInv, Within, Silent, DefaultInv, StillToClean
  <2>5. AppInv'
    BY <1>0 DEF AppInv, InstallShape, Initializing, Matches, Hook, AppShape, Complete, CleansUp
  <2>6. CleanInv'
    BY <1>0 DEF CleanInv, CountInv, HookInv, CleansUp, Matches
  <2> QED BY <2>1, <2>2, <2>3, <2>4, <2>5, <2>6 DEF IInv
<1> QED BY <1>1, <1>2, <1>3 DEF Next, Step, Ending

LEMMA Invariance == Spec => []IInv
  BY InitIsFine, StepKeepsIInv, PTL DEF Spec

(* Whatever the callers do and wherever a call fails, the variables keep   *)
(* their types: the configuration of a state has booleans for switches,    *)
(* the state of an application is that application's, and an application   *)
(* has a lifespan or a hook only of a state that was made.                 *)
THEOREM TypeCorrect == Spec => []TypeOK
<1>1. IInv => TypeOK
  BY DEF IInv
<1> QED BY <1>1, Invariance, PTL

(* init_app installs all or leaves nothing behind that is in use: an       *)
(* application with a state has the fork hook, the exit hook it asked for  *)
(* and its lifespan, or a call that is still at it; and if it registers by *)
(* itself, its configuration is one that can.                              *)
THEOREM InitIsComplete == Spec => []InstalledComplete
<1>1. IInv => InstalledComplete
  <2> SUFFICES ASSUME IInv, NEW a \in Apps, app_state[a] # None
               PROVE  LET s == app_state[a]
                          cfg == states[s].config
                          HookedBy(hooks) == \E h \in hooks : h.owner = states[s].owner /\ h.app = a
                      IN  /\ ShouldAutoRegister(cfg) => ~InvalidConnection(cfg) /\ cfg.NACOS_SERVICE = "valid"
                          /\ (\A c \in Callers : job[c].serial # s) =>
                                /\ HookedBy(fork_hooks)
                                /\ CleansUp(s) /\ process = "running" => HookedBy(exit_hooks)
                                /\ s \in lifespans \/ states[s].shutting_down
    BY DEF InstalledComplete
  <2> DEFINE s == app_state[a]
  <2>1. s \in DOMAIN states /\ states[s].app = a /\ ~Refused(states[s].config)
    BY DEF IInv, TypeOK, AppInv
  <2>2. ASSUME \A c \in Callers : job[c].serial # s
        PROVE  /\ \E h \in fork_hooks : h.owner = states[s].owner /\ h.app = a
               /\ CleansUp(s) /\ process = "running" =>
                     \E h \in exit_hooks : h.owner = states[s].owner /\ h.app = a
               /\ s \in lifespans \/ states[s].shutting_down
    <3>1. Complete(s)
      BY <2>2 DEF IInv, AppInv, AppShape
    <3> QED BY <2>1, <3>1 DEF Complete, Matches
  <2> QED BY <2>1, <2>2, AcceptedIsValid
<1> QED BY <1>1, Invariance, PTL

(* configure_named_logger takes a logger from one configuration to the     *)
(* next under its lock: nobody who has the lock sees a mixture, and every  *)
(* handler that is open is on the logger or in the hands of its call.      *)
THEOREM LoggerIsWhole == Spec => []LoggerIsOfOneCall
<1>1. IInv => LoggerIsOfOneCall
  BY LoggerOfOneCall DEF IInv
<1> QED BY <1>1, Invariance, PTL

(* configure_sdk_loggers and create_client keep the SDK quiet between them *)
(* however they interleave.                                                *)
THEOREM SdkStaysSilent == Spec => []SdkIsSilent
<1>1. IInv => SdkIsSilent
  BY DEF IInv, SilenceInv, DefaultInv, Silent, SdkIsSilent
<1> QED BY <1>1, Invariance, PTL

(* The exits of the lifespan and of the process deregister a state at most *)
(* once between them, and once the process has exited, every state of an   *)
(* application that was to be deregistered was; what was not to be is only *)
(* by the hook of a call for the same application that was.                *)
THEOREM ExitsCleanUpOnce == Spec => []CleanedUpOnce
<1>1. ASSUME IInv, process = "exited", NEW a \in Apps, app_state[a] # None, CleansUp(app_state[a])
      PROVE  deregistrations[app_state[a]] = 1
  <2> DEFINE s == app_state[a]
  <2>1. s \in DOMAIN states /\ s \in Serials
    BY <1>1 DEF IInv, TypeOK
  <2>2. \A c \in Callers : job[c].serial # s
    BY <1>1, <2>1, NoJobIsEmpty DEF IInv, JobInv, JobShape, Serials
  <2>3. exit_hooks = {} /\ Complete(s)
    BY <1>1, <2>2 DEF IInv, CleanInv, AppInv, AppShape
  <2>4. states[s].shutting_down
    BY <1>1, <2>3 DEF Complete
  <2> QED BY <1>1, <2>1, <2>4 DEF IInv, CleanInv, CountInv
<1>2. IInv => CleanedUpOnce
  BY <1>1 DEF IInv, CleanInv, CountInv, CleanedUpOnce, Matches
<1> QED BY <1>2, Invariance, PTL

(* A second init_app for an application, of the same extension or of       *)
(* another, never replaces a state, and none goes but by the rollback of   *)
(* the call that installed it.                                             *)
THEOREM StateStays == Spec => StateIsNeverReplaced
<1> DEFINE Kept == \A a \in Apps : app_state[a] # None /\ app_state'[a] # app_state[a] =>
                      /\ app_state'[a] = None
                      /\ \E c \in Callers : Initializing(c) /\ job[c].serial = app_state[a]
<1>1. ASSUME IInv, NEW c \in Callers, Step(c) PROVE Kept
  <2>1. SUFFICES ASSUME NEW a \in Apps, app_state[a] # None, app_state'[a] # app_state[a]
                 PROVE  app_state'[a] = None /\ Initializing(c) /\ job[c].serial = app_state[a]
    OBVIOUS
  <2>2. app_state \in [Apps -> Serials \cup {None}] /\ InstallShape(c)
    BY <1>1 DEF IInv, TypeOK, AppInv
  <2>3. Install(c)
    BY <1>1, <2>1, AppsAreLeft
  <2>4. Initializing(c)
    BY <1>1, <2>3, InstallInitializes DEF IInv
  <2>5. CASE InstallState(c)
    <3>1. app_state' = [app_state EXCEPT ![job[c].app] = job[c].serial] /\ pc[c] = "install"
      BY <2>5 DEF InstallState
    <3>2. app_state[job[c].app] = None
      BY <2>2, <2>4, <3>1 DEF InstallShape
    <3> QED BY <2>1, <2>2, <3>1, <3>2
  <2>6. CASE Rollback(c)
    <3>1. /\ pc[c] \in Installed
          /\ app_state' = IF app_state[job[c].app] = job[c].serial
                          THEN [app_state EXCEPT ![job[c].app] = None] ELSE app_state
      BY <2>6 DEF Rollback
    <3>2. app_state[job[c].app] = job[c].serial
      BY <2>2, <3>1 DEF InstallShape
    <3> QED BY <2>1, <2>2, <2>4, <3>1, <3>2
  <2>7. CASE ~InstallState(c) /\ ~Rollback(c)
    BY <2>1, <2>3, <2>7 DEF Install, HealthRoute, ForkHook, ExitHook, IncludeRouter
  <2> QED BY <2>5, <2>6, <2>7
<1>2. ASSUME IInv, Ending PROVE Kept
  BY <1>2, EndingMoves DEF IInv
<1>3. ASSUME IInv, [Next]_vars PROVE Kept
  BY <1>1, <1>2, <1>3 DEF Next, Step, Ending, vars, apps
<1>4. ASSUME IInv, [Next]_vars PROVE [Kept]_vars
  BY <1>3, <1>4
<1> QED BY <1>4, Invariance, PTL DEF Spec, StateIsNeverReplaced
=============================================================================
