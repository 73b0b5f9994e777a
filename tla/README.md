# FastAPI-Nacos-Extension in TLA+

A model of `fastapi-nacos-extension`: the state machine that keeps an
application registered with Nacos, and what surrounds it, as threads, calls to
Nacos, forks and process ends interleave. Source references are to
`src/fastapi_nacos_extension/` of the repository; `extension.py:986` is a line
of it.

## The system

One `FastAPINacos` extension serves any number of FastAPI applications. Each
application has, per process, one `_AppRuntimeState` (extension.py:126-162).
Everything below happens on that object.

| Component | State | Operations | Interacts through |
|---|---|---|---|
| Registration lifecycle (extension.py:711-1732) | target, registered, cached identity, last error, current operation, wakeup event | `register_instance`, `deregister_instance`, the worker thread, the Naming RPC | `state_lock`, `network_operation_lock`, `operation_wakeup`, the `naming_rpc_*` metadata |
| Process exit (1961-2076) | `shutting_down` | atexit handler, lifespan shutdown | takes the `naming_rpc_*` snapshot, waits for the call's event, deregisters |
| Heartbeat observation (480-692, client.py) | `heartbeat_*` fields of the runtime | callbacks of the SDK's heartbeat threads | `state_lock`, cached identity |
| Fork and runtime (336-431, 718-894, 1889-1957) | stale flag, rebuild lock, `auto_register_pending`, cached validation result | fork hook, first call in a child, recovery of pending registration | the application's state dictionary |
| Client cache (431-478, client.py) | `runtime.client` | double-checked creation | `client_lock` |
| Failure classification (_recovery.py) | none | exception -> transient, deterministic, unknown | called by the worker and the Naming RPC |
| Application integration (extension.py:186-330, 1736-1828, 1959-2017, health.py) | `app.state.nacos`, routes, fork and exit hooks, the router's lifespan | `init_app` with its rollback, the ends of an application | `_INIT_LOCK`, the hooks of the process, the exit |
| Configuration (config.py, config_center.py) | one snapshot per application | merge of three sources, coercion, validation | read by everything |
| Logging (logging.py) | the extension's logger and the SDK's, shared by the process | configure, clean up after the SDK | `_CONFIG_LOCK` |
| Reads (extension.py, naming.py:155-233, config_center.py, retry.py) | none | `list_instances`, `get_one_healthy_instance`, `get_config` with finite retries | the client |
| Discovery (discovery.py) | none | recognize, filter, normalize and choose rows | called by the reads |
| Status, health (extension.py:1829-1885, health.py) | none | snapshot under `state_lock` | reads the lifecycle state |

The hard behaviour is in the lifecycle, the exit, the forks and what the applications
of a process share. User threads, one worker, SDK
heartbeat threads and the exit handler share the runtime; calls to Nacos take
seconds and are made outside the state lock; commands may reverse the target at
any moment; replies get lost; the process may begin to exit or fork anywhere.

What makes each component correct:

- *Lifecycle*: one operation and one Naming RPC at a time; a call is made only
  while the target needs it; Nacos holds exactly the cached identity between
  calls; the last command wins and is carried out; transient failures are
  outlived; errors shown are current.
- *Exit*: ends within its timeouts; when it ran to its end nothing stays
  registered and nothing registers later.
- *Heartbeats*: a callback of an earlier registration never changes the state of
  the current one.
- *Fork*: a child never uses the parent's locks, client or runtime; a pending
  registration is submitted once, and never against a newer command.
- *Client cache*: one client per runtime, published complete.
- *Classification*: only a proven transport failure recovers for ever.
- *Applications*: a state is installed once and complete or not at all, however
  many threads and extensions initialize it and wherever that fails; an
  application is cleaned up once between its lifespan and the exit.
- *Logging*: the shared loggers always have the settings and handlers of one call;
  the SDK's records reach no destination of the user.
- *Reads*: a read costs no more calls than configured, and returns what Nacos
  answered last, filtered by what the user asked for.
- *Health*: an unmet target is not called healthy for ever.

## Modules

| Module | What it is |
|---|---|
| `Lifecycle` | registration lifecycle and process exit, in detail; its properties |
| `ExitDeadline` | `Lifecycle` with the clock of the exit's wait |
| `RegistrationService` | what they promise: target, registered, one call in flight, closed |
| `LifecycleProofs` | the inductive invariant of `Lifecycle` and its theorems |
| `RefinementProofs` | `Lifecycle` implements `RegistrationService`; what Nacos holds, the end of the exit and its deadline |
| `ProcessRuntime` | fork, rebuild of the runtime, recovery of the automatic registration, client cache |
| `Heartbeat` | heartbeat callbacks against registration cycles |
| `HeartbeatLog` | the throttled log of heartbeats |
| `FailureClassifier` | the walk over an exception chain |
| `Configuration` | how a configuration comes about and what is wrong with it (definitions only) |
| `Application` | `init_app`, the shared loggers, the ends of applications and process |
| `Discovery` | what is made of an answer of Nacos (definitions only) |
| `Reads` | the reads of a user with their retries |
| `RuntimeProofs`, `HeartbeatProofs`, `HeartbeatLogProofs`, `ClassifierProofs`, `ApplicationProofs`, `ReadsProofs` | inductive invariants and theorems of these |
| `MC...` | symmetry sets and inputs for TLC |

The modules are composed at their edges by taking from one another only what the
code passes on: `Heartbeat` is driven by the commits of `Lifecycle` (one
registration and one deregistration in turn: that is `ServerMatchesRuntime` and
`OneNamingRpc` there); `Lifecycle` takes the three outcomes of
`FailureClassifier` as nondeterministic; `ProcessRuntime` submits commands and
leaves what becomes of them to `Lifecycle`, which in turn relies on
`RuntimeIsCurrent`: within a process there is one runtime. `ProcessRuntime`
starts in every configuration with `auto_register => ~invalid_config`, which
`Application!InstalledComplete` shows of every application that is initialized;
`Application` calls the cleanup of which `Lifecycle` has the steps, and
`Application` and `Reads` share nothing but the client.

### Lifecycle

`Callers` are threads inside `register_instance_sync` or
`deregister_instance_sync`, `Workers` the `Thread` objects a
`_registration_worker` can run in, `Exits` the threads that run
`_atexit_handler_for` or `_shutdown_lifespan`. Each has a `pc`.

*Atomicity.* A `with runtime.state_lock` section is one action. The code around
sections only touches locals, the wakeup event (`Wake`, `WaitClear`, `ExitWake`
are steps of their own) and the network. `network_operation_lock` is held over a
call, so it is the variable `network_lock`. Three merges shorten the model:
taking the network lock and passing the first gate is one step (`Acquire`); a
refused call releases the lock in the step that refuses it (`GiveUp`), since it
has published nothing; the commit and the release that follows it are one step
(`Commit`), since the release is outside every section and nobody looks at the
lock except by waiting for it.

*State.* The names are the source's. `naming_rpc` stands for
`naming_rpc_active/seq/done`: the thread whose call the fields describe, `None`
when inactive. `unset_events` are the `rpc_done` events not set yet, one per
thread. `worker[w]` holds the locals of `_registration_worker`; `recovering` is
`recovery_round > 0` (the round itself only scales delays and log lines), and
`attempts` is `finite_attempts`. `last_error` and `client` say whether the field
is not `None`. `server` and `doubtful` are outside the process: what Nacos
holds, and the identities whose last call failed and may or may not have been
applied. `last_command` is history, for one property.

*Actions.* One per section: `RegisterCommand`, `StartThread`, `StartFails`,
`DeregisterCommand`, `Wake`, `Settle`, `Reschedule` for callers; `Top`,
`WaitSnapshot`, `WaitClear`, `WaitRecheck`, `WaitWoken`, `WaitTimesOut`,
`WaitRaises`, `Recheck`, `Prepare`, `PrepareFails`, `After`, `Record`, `Decide`,
`Leave` for workers; `ExitBegin`, `ExitWake`, `ExitWaited`, `ExitTimesOut`,
`ExitCheck` for exits; and `_execute_naming_rpc` for all three: `Acquire`,
`EventFails`, `Claim`, `CallSucceeds`, `CallFails`, `Commit`, `Finish`.
Failures of the client, the identity, a thread, an event and the network are
nondeterministic, of any class.

*Left out.* `NACOS_ENABLED = False` and configuration errors, which refuse a
command before it reaches the state machine; the except branches around the
result commit (1617-1637) and the infrastructure (1639-1660), whose bodies
contain nothing that raises; log lines and their throttle; the length of delays
and timeouts (a wait may end at any time). A handler interrupted by
`BaseException` is not modelled.

`Health` is what the health endpoint computes from the section of `get_status`
(extension.py:1829-1885, health.py), an operator over the same variables.

### ExitDeadline

`Lifecycle` lets the wait of the exit handler end at any moment. Here every step of
`Lifecycle` is taken with what it does to four timers (`Timed`), and `Tick` lets
time pass between any two: the age of the call in flight and its timeout, set by
`Claim`; the wait, computed by the snapshot from both (`WaitTimeout`), which may
only expire when its ticks are gone and the event is not set. The timeout of a
call is any of `Timeouts`, 0 for a client that has none to read.

### RegistrationService

Four variables, six actions: the last-command-wins state machine of README.md:122
without threads. `Lifecycle!ImplementsService` is the refinement: `target` is
`target_registered`, `closed` is `shutting_down`, and `inflight` is the direction
of the thread that holds the network lock between `Claim` and `Commit`.

### ProcessRuntime

One process is followed from fork to fork. `Fork` copies memory as the operating
system does: variables keep their values, the threads of the parent are gone and
a lock one of them held is held by `Lost`, which never releases it; then the hook
of `_register_fork_hook` runs (a fresh rebuild lock, the stale flag). The thread
that forks is outside the extension. `Threads` call `get_client`, register,
deregister or exit, or are workers that need a client.

`Call`, `ReadRuntime`, `CheckRuntime`, `Rebuild`, `ClearStale` are
`_ensure_current_runtime`: its two reads of the application's state are outside
every lock and are two steps, so are the writes of the runtime and of the flag
under the rebuild lock, which readers do not take. `PeekPending`, `TakeSnapshot`,
`SubmitPending` recover the automatic registration; `EnterRegister`,
`InstallValidation`, `SubmitRegister` are the explicit one; `ClientCached` to
`Publish` the double-checked creation of the client with the module lock of the
loggers inside it. The calls of `_require_state` after the first one and the
loops of `_prepare_registration` find what the first one found, because
`RuntimeIsCurrent` holds: they are not repeated. `auto_register` and
`invalid_config` are chosen in `Init` and never change.

Left out: the fallback for a PID that changes without the hook (1924-1931), the
arguments of the client, the observer of connection errors.

### Heartbeat and HeartbeatLog

A sender goes through `Begin` (time and identity are read), `Answer` (the SDK's
call ended, the clock is read again), `Notify` (the look at the authority before
the lock) and `Record` (the section). Between any two of them registrations end
and begin, other senders overtake, the exit begins. `reported` is history: the
events that passed the tests of the current cycle, each with whether it was
begun in this cycle. The clock has ticks, so that two events can carry the same
time; a heartbeat begun in the tick of the commit cannot be told from one of the
new cycle by the code, and `OnlyThisCycle` says so. The event's wall-clock times
are represented by the monotonic ones read at the same place.

`HeartbeatLog` is the other consumer, one action `Log` per section of
`log_state_lock`; heartbeats without a valid identity are in it. Clocks that
raise are left out: the code drops the event then.

### FailureClassifier

Reading type, `errno`, HTTP status and SDK code of one exception is abstracted to
what it says (`Evidence`); sharing, cycles, attributes that raise and the depth
limit are kept. `Visit` is one round of the loop with its stack, `Decide` the
end. Exceptions whose class is hostile to reading itself give UNKNOWN at once in
the code and are left out.

### Application and Configuration

`Callers` run `init_app` or create a client; several extensions may be given the
same application. A `job` holds the arguments of a call and a serial number by
which the properties know its state, handlers and hooks again. `_INIT_LOCK` is held
from `EnterInit` to `IncludeRouter` or `Rollback`, `_CONFIG_LOCK` over one
configuration. The steps of a configuration are single because what they change is
read without the lock: the SDK's constructor looks whether a logger has handlers
(`Construct`), a record of another thread passes through the logger at any time.
Whatever can raise does so: the log file (`BuildFails`), the constructor
(`ConstructFails`), any part of the installation (`Rollback`). `LifespanEnds`,
`BeginExit`, `RunExitHook` end applications and process; `Over` tells the end from
a deadlock, which is checked here.

`Configuration` keeps of every setting what is looked at; settings that are only
validated together are one key. `LoadConfig` is the merge of `config.py` with its
coercion, `Refused` what `init_app` raises before it changes anything.

Left out: the startup of the lifespan is a registration command of `Lifecycle`; the
dependency functions of FastAPI; the helpers of logging.py that nothing calls
(`add_console_handler_once`, `add_file_handler_once`,
`remove_nacos_default_file_handlers`); formatting.

### Reads and Discovery

A read shares only the client with other threads, so `Reads` follows one thread:
`Begin`, the client, `CheckSettings`, the attempts of `run_with_retry` (`Attempt`,
`AttemptFails`, `Slept`, `SleepRaises`), then `Choose`. A request is the operation
with a query and a strategy, valid or not; a row of the answer keeps one cluster,
the value of one metadata key, and whether endpoint and weight can be read. The
operators of `Discovery` are discovery.py by name; `ListIsTheMatchingRows` and
`ChoiceIsJustified` compare what a read returns with a definition by positions
instead of by passes over a sequence.

## Runs

| Run | Question | Result |
|---|---|---|
| `lifecycle` | safety of every interleaving: types, one operation, one Naming RPC with current metadata, Nacos agrees with the runtime, the exit never blocks on a call, a clean exit leaves nothing behind and is final, no stale error; the refinement of `RegistrationService` | holds |
| `recovery` | does a running worker reach its target through transient failures, do calls return, does health admit an unmet target? (no deregistration on exit) | holds under `Fairness` |
| `shutdown` | does the exit end when another thread's call never returns, and give cleanup up only for a call that overran? with workers thrown out of their wait by an exception | holds under `TimedFairness` |
| `lost_command` | is an accepted command always carried out or its error shown? | **violated** |
| `overridden` | is the last accepted command the target? | **violated** |
| `runtime` | one runtime and one client per process, current in every call; the recovered registration is neither skipped nor put over a command; calls end | holds; the last under `FairSpec`, if no fork left the loggers' lock behind |
| `inherited_lock` | does no thread wait for a lock of a thread of the parent? | **violated** |
| `heartbeat` | the status shows the newest heartbeat of this cycle only, and nothing after the close | holds |
| `heartbeat_log` | no failure is silent, no warning repeated within the interval | holds |
| `classifier` | does the evidence in the chain decide, and nothing else? | holds |
| `application` | is a state installed once and complete or not at all, are the shared loggers of one configuration and silent, is every application cleaned up once? no deadlock | holds |
| `reads` | does a read keep its budget, raise the last error, return the matching rows or a row the strategy may choose? no deadlock | holds |

In `application` and `reads` TLC checks for deadlock. The other systems really stop
(the process exits, nobody submits a command, a bound is reached), so there
deadlock is not checked; liveness is. `lifecycle` runs with `WaitOverflows =
"recovery"`, where a wait of a recovery may time out or raise, `recovery` with
"never" and `shutdown` with "always". The type invariants of `ProcessRuntime` and
`FailureClassifier` are not checked by a run since they are proved.

*Bounds.* `lifecycle`: two callers are the smallest number that can interleave
with one another; one exit, since the second one returns at once; two `Thread`
objects, one more than can ever be alive, so that a second worker would be seen;
two identities, so that an address resolved anew differs. `MaxCalls` bounds the
commands, `MaxFailures` the failures, `MaxAttempts` is 2: with four commands and
three failures a run can exhaust its attempts, recover, change direction twice
and exit. The liveness runs use three commands, two failures, one identity, no
symmetry; they need no more, a worker's attempts and one change of direction are
in them.

`shutdown`: two commands, one identity; a call may have a timeout of one or three
ticks or none (then `Fallback` is two), grace one tick, the wait at most three: so
there are calls shorter and longer than the cap, and exits that begin early and
late in a call. Ages beyond `MaxAge` = timeout and grace look alike.

`runtime`: two threads find the runtime stale at the same time, two forks, so
that a child that has not rebuilt yet forks again, four calls per process, every
configuration `init_app` accepts.

`application`: two threads, two applications and two extensions, so that both may
initialize the same one; two calls of `init_app` and two failures; two SDK loggers,
so that a configuration can be seen half done. The mappings are an empty one, one
that is valid with logging and without deregistration on exit, and one with a
health route, a value no coercion reads and half a pair of credentials. With three
calls of `init_app` (14 million states, too long for every day) the properties hold
as well.

`reads`: answers of up to three rows of ten kinds, each deviating from an ordinary
row in one field, in any order; ten configurations, retry times from 0 to 3. Three
rows are enough for two equal ones with another between them.

`heartbeat`: two senders (one overtakes), two instances, two cycles, three clock
readings, so that a heartbeat of the first cycle ends in the second before and
after one of its own. `heartbeat_log`: two senders, two error types, an interval
of two ticks, six heartbeats: a warning, a repeated one and the one after. One
instance, since states of instances are separate.

`classifier`: every graph of three exceptions (self-reference, cycles, shared
causes), the walk cut at two; `ClassifierProofs` covers the other sizes.

*Fairness.* `Fairness` is weak fairness of each thread: Python schedules it, a
wait has a timeout, an SDK call returns. No caller has to submit anything and
failures are finite. `TimedFairness` drops the fairness of every other thread's network call and
asks only that a call that did return is committed and finished, that the handler
runs and that time passes (`BoundedExitFairness` is the same without the clock). `FairSpec` of `ProcessRuntime` is weak fairness of the steps of a
call that began; calls of a process are finite, so nobody is overtaken for ever
at a lock.

## Disagreements found

- **Lost command** (`lost_command`). The worker sees it has converged and leaves
  (1118-1128); until its finally clause (1174-1181) runs, `operation_kind` is
  still `"register"`, so a command accepted in between schedules nothing; the
  finally clause does not look at the target. The runtime stays unmet, idle and
  without an error. The same ending is reached when two opposite commands pass
  between `_record_lifecycle_failure` and the decision that follows.
- **Overridden deregistration** (`overridden`). `deregister_instance_sync`
  decides to reschedule in one section and sets the target in the next.
- **Inherited lock** (`inherited_lock`). The runtime with its locks and the rebuild
  lock are replaced in a child, `logging._CONFIG_LOCK` (logging.py:36) is not. When
  the fork meets another thread that creates a client, the child can create none,
  and every call behind it waits for `client_lock`. docs/production.md:16-17 says
  inherited locks are discarded.

Not a disagreement, but worth knowing:

- A wakeup set after the worker decided to wait and before the wait's snapshot is
  cleared; one after the snapshot is not (`NoWakeupIsMissed`). The command of that
  wakeup reversed the target, which is therefore met, and the harm is a worker that
  sleeps a full interval with `operation_running` and a stale `last_error` shown.
- A synchronous deregistration makes a single call (1409-1422); when it fails
  transiently nothing retries. Health then says "error" (`HealthIsHonest`).
- The comparison of `naming_rpc_seq` before the metadata is cleared never fails:
  the network lock keeps calls apart (`OneNamingRpc`). The same holds of the
  classifier's test of a popped exception against `visited`.
- A finite `NACOS_RETRY_INTERVAL` that is too long for `time.sleep` raises
  `OverflowError` out of the except clause of `run_with_retry`, in place of the
  error of the attempt (`SleepRaises`); the worker's wait does likewise
  (`WaitRaises`).
- `random.choices` raises `ValueError` for weights without a finite sum; an
  unsupported strategy is found only after the call to Nacos (`Choose`).
- A metadata filter for `None` matches rows without the key (`MatchesFilters`).
- A failed `init_app` takes the state back and nothing else: its health route stays
  (one with another path is then "already registered"), and its exit hook serves
  the next state of the application, whatever that one says of
  `NACOS_DEREGISTER_ON_EXIT` (last conjunct of `CleanedUpOnce`). A failure past the
  configuration leaves the extension's logger configured.
- A repeated `init_app` of the same extension ignores its configuration; the last
  application that is initialized decides for the extension's logger.
- A construction of the SDK that fails leaves its default handler on the logger,
  which stays disabled, until the next configuration (`unclean`).
- The snapshot of a configuration copies one level of the metadata dictionaries
  (config.py:159): what is nested in them is shared with the caller.

## Proofs

Every theorem is for all values of the constants: any set of threads, any
configuration, any number of commands, failures, forks, heartbeats (the bounds in
the guards are arbitrary naturals).

| Module | Theorem | Property |
|---|---|---|
| `LifecycleProofs` | `TypeCorrect` | `TypeOK` |
| | `OneOperationAtATime` | `OneOperation` |
| | `OneNamingRpcAtATime` | `OneNamingRpc` |
| | `ExitDoesNotBlock` | `ExitNeverBlocksOnRpc` |
| | `ErrorsAreCurrent` | `NoStaleError` |
| | `WakeupsAreSeen` | `NoWakeupIsMissed` |
| `RefinementProofs` | `Implementation` | `ImplementsService` |
| | `NacosIsKnown` | `ServerMatchesRuntime` |
| | `ExitCleansUp` | `CleanExitLeavesNothing` |
| | `ExitClosesTheGates` | `ExitIsFinal` |
| | `TimingRefines` | `TimedSpec => Spec` |
| | `PatientExit` | `GivesUpOnlyOnOverrun` |
| `RuntimeProofs` | `TypeCorrect` | `TypeOK` |
| | `CallsUseTheirOwnRuntime` | `RuntimeIsCurrent` |
| | `RebuiltOnce` | `OneRuntimePerProcess` |
| | `ConstructedOnce` | `OneClient` |
| | `CommandsPrevail` | `RecoveryYieldsToCommands` |
| | `RecoveryComesFirst` | `RecoveryIsNotSkipped` |
| `HeartbeatProofs` | `TypeCorrect` | `TypeOK` |
| | `ObservationIsCurrent` | `OnlyThisCycle` |
| | `StatusIsOfTheNewest` | `NewestDecides` |
| | `ClosedIsSilent` | `NoRecordAfterClose` |
| `HeartbeatLogProofs` | `WarningsStaySpaced` | `WarningsAreSpaced` |
| | `FailuresAreAnnounced` | `NoSilentFailure` |
| `ClassifierProofs` | `TypeCorrect` | `TypeOK` |
| | `EvidenceIsDecisive` | `EvidenceDecides` |
| | `RecoveryNeedsProof` | `OnlyProvenTransients` |
| | `ProofsAreNotHidden` | `ProofsAreFound` |
| `ApplicationProofs` | `TypeCorrect` | `TypeOK` |
| | `InitIsComplete` | `InstalledComplete` |
| | `LoggerIsWhole` | `LoggerIsOfOneCall` |
| | `SdkStaysSilent` | `SdkIsSilent` |
| | `ExitsCleanUpOnce` | `CleanedUpOnce` |
| | `StateStays` | `StateIsNeverReplaced` |
| `ReadsProofs` | `TypeCorrect` | `TypeOK` |
| | `BudgetIsKept` | `RetriesAreBounded` |
| | `ListIsComplete` | `ListIsTheMatchingRows` |
| | `ChoicesAreJustified` | `ChoiceIsJustified` |

Every invariant and every action property of the passing runs is stated by a
theorem. In each module the theorems follow from an inductive invariant `IInv`
and, where named below, from further invariants proved on top of it.

*`LifecycleProofs`.*

- `TypeOK` and `AttemptsInv`: a worker out of attempts is recovering. Without it
  `attempts` could pass its bound on the next failure.
- `Ownership`: `OneOperation` with the facts that keep it true. `ThreadOwns`
  names the worker of an operation (so that the finally clause that compares
  `operation_thread` with itself really frees it), `Starting` says a caller about
  to start a thread holds the only one created (so that `StartThread` moves no
  other thread).
- `NamingInv`: a thread between `Claim` and `Commit` holds the network lock and
  an identity; its call is the one in the metadata.
- `ExitInv`: the exit is alone and after the flag; while it waits, a call in
  flight is the one in its snapshot; past the wait there is none.

Most actions move one thread inside a phase of its life. `MovesOn` describes such
a step and is shown once per action; `PcType` and `Ownership` follow from it
alone. The five actions that change the owner have a lemma each. Likewise
`CallsUntouched` and `ExitsUntouched` describe the steps outside the calls.

*`RefinementProofs`* adds `DirectionInv`: a worker past the top of its loop has a
direction, so that a call in flight is one of the two. A step of another thread
leaves a thread in a call where it is (`Stays`), hence what the service shows of
the call (`InflightStays`). Then `Claim` behind its gate is `Begin`, `Commit` is
`Succeed` or `Fail`, a command is `SetTarget`, `ExitBegin` is `Close`, and every
other step is a stutter.

*`RuntimeProofs`.* `Rebuilding`: the stale flag is set from the fork until the
thread with the rebuild lock has installed the runtime, and the process builds
one. `Readers`: while the flag is set nobody is past `_ensure_current_runtime`,
and a runtime of this process that was read is the only one; `check` may hold a
runtime of the parent, which the comparison of PIDs then sends to the rebuild.
`Locks` and `Clients` are the double-checked creation, `Recovery` ties the
pending registration to the commands.

*`HeartbeatLogProofs`.* `WarningsAreSpaced` is inductive with the types, because it
says that the kept state is the end of the streak: what `Due` compares with is what
the new warning is appended to (`DueKeepsSpaced`).

*`HeartbeatProofs`.* `Flights`: a heartbeat begun before the commit that opened
the current cycle carries a time not later than that commit. `Observed`: nothing
that passed the test of the cycle is newer than `last_observed`, and one of them
has that time and gave the state.

*`ClassifierProofs`.* `Frontier`: what a visited exception chains to is visited or
waits on the stack, so an empty stack means the whole chain was seen; a walk that
was cut has seen `MaxDepth` exceptions, which is the whole chain if it fits.

`Reached` serves `ProofsAreNotHidden`: what was visited or waits, other than the
first exception, hangs on something visited. In a chain with one link less than
exceptions the links and the exceptions behind the first are equally many, so by
counting everybody has one parent only (`OneParent`); then nothing that was put
aside as a cycle or repeated context is lost.

*`ApplicationProofs`.* `JobShape` and `CallShape` say what a caller has in its hands
at each place, `LockShape` which lock, `SerialInv` that no two calls share a
serial: these make the steps of one call invisible to another. On them rest
`LoggerInv` (which handlers are on the logger between the steps of a
reconfiguration), `SilenceInv` and `DefaultInv` (a logger of the SDK is silent, or
still among those the call has left; once one application is installed all are
silent, and no step makes one talk again), `AppInv` (`InstallShape`: what an
`init_app` has installed so far; `Complete`: what the application keeps when it is
gone) and `CleanInv` (`CountInv`: a state is deregistered once at most, and closed then;
`HookInv`: every exit hook goes back to a configuration that asked for it).

*`ReadsProofs`.* `Progress` counts the calls at each place of the loop (one less than
the attempt when it begins, as many when it has failed), `Ends` says what an outcome
tells of them. `Listed` says `rows` is what `ListInstances` makes of `answer`.
What that is, for answers of any length, needs induction. The provers
cannot apply the induction theorems of the library, so `Induction` states it for a
property given as a set of numbers and proves it from the well-foundedness of finite
sets; from it follow the existence of the function `RowsAt` defines by recursion
(`KeptExists`) and what it computes (`Selects`: a row comes to the place that counts
the selected rows not behind it). `SelectingTwice` composes the filter with the
normalization by a bijection of places.

*`LifecycleProofs`*, further. `ErrorsAreCurrent` needs that who clears the operation
decides about the error in the same step and owns it (`Ownership`).
`WakeupsAreSeen` ties the snapshot of a worker to the commands since: one that is
not yet visible in the event has its caller in `Waking`.

*`RefinementProofs`*, further. `ServerInv`: Nacos is one successful call ahead of
the runtime at most, and agrees with that call. `GateInv`: from the first gate to
the commit nobody else commits, so a registration still finds nothing registered
and a deregistration the identity it resolved. Both are needed together: without
the gate a call that succeeds could leave a second identity in Nacos. `OutcomeInv`
says what an exit that is through found at its gate. `DeadlineInv` belongs to `ExitDeadline`:
`Patient`, what is left of the wait takes the call past its timeout and the grace;
it holds while the exit waits since nobody begins a call then (`NoCallBegins`), so
the clock of the call is not reset.

The assumptions are those the modules name: sets of threads are disjoint and do
not contain `None`, no warning is `None`, the configuration has its types, bounds
are natural numbers, the exceptions are finitely many.

*Only model-checked*: liveness (`RecoversFromTransients`, `CallsReturn`,
`HealthIsHonest`, `ShutdownIsBounded`, `CallsEnd`), which is out of the prover's reach
under fairness, and the three runs that expect a violation.

## Not modelled

Scripts, examples and tests are no part of the running program. Of the program
itself: log lines and their wording, the formatting and the arguments of the SDK's
client, the fallback for a PID that changes without the fork hook
(extension.py:1924-1931), the dependency injection of FastAPI. The checks of single
values (utils.py) are the flags "valid" and "malformed" of the models.

## Plan

1. *Done*: `Lifecycle`, `RegistrationService`, the refinement; `ExitDeadline`;
   `ProcessRuntime` with the client cache; `Heartbeat`, `HeartbeatLog`;
   `FailureClassifier`; `Configuration`, `Application`; `Discovery`, `Reads`.
   Proofs of every invariant and action property of the passing runs.
2. Left for the proofs: abstract specifications of `ProcessRuntime` (one runtime, one
   client, a registration owed at most once) and of `Application` (an application is
   absent, installed or cleaned up), with the refinement step by step.

## Running

    tlc -config MCLifecycle.cfg MCLifecycle.tla
    tlapm LifecycleProofs.tla

and the same for the other configurations and proof modules; `RefinementProofs`
uses the lemmas of `LifecycleProofs`.
