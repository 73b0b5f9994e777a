----------------------------- MODULE RuntimeProofs -----------------------------
(***************************************************************************)
(* Proofs about ProcessRuntime for any set of threads and any number of    *)
(* forks and calls.                                                        *)
(*                                                                         *)
(* The argument: the flag is set from the fork until one thread, which     *)
(* holds the rebuild lock, has installed the runtime (Rebuilding); while   *)
(* it is set nobody is past _ensure_current_runtime, so nothing else       *)
(* touches the runtime that is being replaced.                             *)
(***************************************************************************)
EXTENDS ProcessRuntime, TLAPS

Types ==
    /\ pid \in Nat /\ runtime \in [pid : Nat, id : Nat] /\ runtime.pid <= pid
    /\ auto_register \in BOOLEAN /\ invalid_config \in BOOLEAN
    /\ stale \in BOOLEAN /\ validated \in BOOLEAN
    /\ {rebuild_lock, client_lock, config_lock} \subseteq Threads \cup {None, Lost}
    /\ auto_register_pending \in BOOLEAN /\ target_registered \in BOOLEAN
    /\ shutting_down \in BOOLEAN /\ client \in BOOLEAN
    /\ operation_generation \in Nat
    /\ calls \in Nat /\ created \in Nat /\ constructed \in Nat
    /\ last_command \in {"none", "register", "deregister"}

LocalTypes ==
    /\ pc \in [Threads -> {"idle"} \cup EnsurePcs \cup InsidePcs \cup ClientPcs]
    /\ operation \in [Threads -> Operations \cup {"none", "worker"}]
    /\ seen \in [Threads -> [pid : Nat, id : Nat]]
    /\ snapshot \in [Threads -> [generation : Nat, target : BOOLEAN]]

Locks ==
    \A t \in Threads :
        /\ rebuild_lock = t <=> pc[t] = "clear"
        /\ client_lock = t <=> pc[t] \in {"configure", "construct", "cleanup", "publish"}
        /\ config_lock = t <=> pc[t] \in {"construct", "publish"}

(* The rebuild lock is held from the installation of the runtime to the    *)
(* end of its publication; before, the process has built none.             *)
Rebuilding ==
    /\ rebuild_lock # Lost
    /\ stale => last_command = "none" /\ (rebuild_lock = None => runtime.pid < pid /\ created = 0)
    /\ ~stale => rebuild_lock = None /\ runtime.pid = pid
    /\ rebuild_lock # None => runtime.pid = pid
    /\ created <= 1

(* A runtime of this process that a thread has read is the only one.       *)
Readers ==
    \A t \in Threads :
        /\ pc[t] = "check" => seen[t].pid <= pid /\ (seen[t].pid = pid => seen[t] = runtime)
        /\ pc[t] \in InsidePcs \cup ClientPcs => ~stale /\ seen[t] = runtime

(* Who holds the client lock knows whether a client was constructed.       *)
Clients ==
    /\ constructed <= 1 /\ (client => constructed = 1)
    /\ constructed = 1 /\ ~client => client_lock # None
    /\ \A t \in Threads :
          /\ pc[t] \in {"configure", "construct"} => ~client /\ constructed = 0
          /\ pc[t] \in {"cleanup", "publish"} => ~client /\ constructed = 1

(* A command or an exit is the end of the pending recovery.                *)
Recovery ==
    /\ target_registered => ~auto_register_pending
    /\ last_command # "none" => ~auto_register_pending
    /\ last_command = "deregister" => ~target_registered
    /\ \A t \in Threads :
          /\ pc[t] \in ClientPcs => ~auto_register_pending \/ shutting_down
          /\ pc[t] = "recover" =>
                \/ ~auto_register_pending \/ shutting_down
                \/ snapshot[t] = [generation |-> operation_generation,
                                  target |-> target_registered]

IInv == Types /\ LocalTypes /\ Locks /\ Rebuilding /\ Readers /\ Clients /\ Recovery

USE RuntimeAssumption DEF config, appstate, lifecycle, clients, Frame, Goto, Return, EnsurePcs, InsidePcs,
                          ClientPcs

LEMMA InitInv == Init => IInv
<1> SUFFICES ASSUME Init PROVE IInv
  OBVIOUS
<1>1. Types
  <2>1. runtime \in [pid : Nat, id : Nat] /\ runtime.pid <= pid
    BY DEF Init
  <2> QED BY <2>1 DEF Init, Types
<1>2. LocalTypes
  BY DEF Init, LocalTypes, Operations, NoSnapshot, NoRuntime
<1>3. Locks
  BY DEF Init, Locks
<1>4. Rebuilding
  BY DEF Init, Rebuilding
<1>5. Readers
  BY DEF Init, Readers, NoRuntime
<1>6. Clients
  BY DEF Init, Clients
<1>7. Recovery
  BY DEF Init, Recovery
<1> QED BY <1>1, <1>2, <1>3, <1>4, <1>5, <1>6, <1>7 DEF IInv

LEMMA ForkKeepsInv == IInv /\ Fork => IInv'
<1> SUFFICES ASSUME IInv, Fork PROVE IInv'
  OBVIOUS
<1> USE DEF IInv, Fork
<1>1. Types'
  BY DEF Types, Inherited
<1>2. LocalTypes'
  BY DEF LocalTypes, Operations, NoSnapshot, NoRuntime
<1>3. Locks'
  BY DEF Locks, Inherited
<1>4. Rebuilding'
  BY DEF Rebuilding, Types
<1>5. Readers'
  BY DEF Readers, NoRuntime
<1>6. Clients'
  BY DEF Clients, Inherited, Locks
<1>7. Recovery'
  BY DEF Recovery, Types
<1> QED BY <1>1, <1>2, <1>3, <1>4, <1>5, <1>6, <1>7

LEMMA StepKeepsTypes ==
  ASSUME IInv, NEW u \in Threads, Call(u) \/ WorkerBegins(u) \/ Step(u)
  PROVE  Types'
<1> USE DEF IInv, Types
<1>1. CASE Call(u)
  BY <1>1 DEF Call
<1>2. CASE WorkerBegins(u)
  BY <1>2 DEF WorkerBegins, Current
<1>3. CASE ReadRuntime(u)
  BY <1>3 DEF ReadRuntime
<1>4. CASE CheckRuntime(u)
  BY <1>4 DEF CheckRuntime, Current
<1>5. CASE Rebuild(u)
  <2>1. CASE Outdated
    <3>1. runtime' = [pid |-> pid, id |-> runtime.id + 1]
      BY <1>5, <2>1 DEF Rebuild, CreateRuntime
    <3>2. runtime' \in [pid : Nat, id : Nat] /\ runtime'.pid <= pid
      BY <3>1
    <3>3. created' \in Nat /\ auto_register_pending' \in BOOLEAN /\ target_registered' \in BOOLEAN
      BY <1>5, <2>1 DEF Rebuild, CreateRuntime
    <3>4. /\ rebuild_lock' = u /\ client_lock' = None /\ config_lock' = config_lock
          /\ UNCHANGED <<pid, auto_register, invalid_config, stale, validated, last_command, calls>>
          /\ operation_generation' = 0 /\ shutting_down' = FALSE
          /\ client' = FALSE /\ constructed' = 0
      BY <1>5, <2>1 DEF Rebuild, CreateRuntime
    <3> QED BY <3>2, <3>3, <3>4
  <2>2. CASE ~Outdated
    BY <1>5, <2>2 DEF Rebuild, CreateRuntime
  <2> QED BY <2>1, <2>2
<1>6. CASE ClearStale(u)
  BY <1>6 DEF ClearStale
<1>7. CASE PeekPending(u)
  BY <1>7 DEF PeekPending
<1>8. CASE TakeSnapshot(u)
  BY <1>8 DEF TakeSnapshot
<1>9. CASE SubmitPending(u)
  <2>1. operation_generation' \in Nat
    BY <1>9 DEF SubmitPending, Submitted, TargetRegistered
  <2>2. auto_register_pending' \in BOOLEAN /\ target_registered' \in BOOLEAN
    BY <1>9 DEF SubmitPending, Submitted, TargetRegistered
  <2>3. last_command' \in {"none", "register", "deregister"}
    BY <1>9 DEF SubmitPending
  <2> QED BY <1>9, <2>1, <2>2, <2>3 DEF SubmitPending
<1>10. CASE EnterRegister(u)
  BY <1>10 DEF EnterRegister
<1>11. CASE InstallValidation(u)
  BY <1>11 DEF InstallValidation
<1>12. CASE SubmitRegister(u)
  <2>1. operation_generation' \in Nat
    BY <1>12 DEF SubmitRegister, Submitted, TargetRegistered
  <2>2. auto_register_pending' \in BOOLEAN /\ target_registered' \in BOOLEAN
    BY <1>12 DEF SubmitRegister, Submitted, TargetRegistered
  <2>3. last_command' \in {"none", "register", "deregister"}
    BY <1>12 DEF SubmitRegister
  <2> QED BY <1>12, <2>1, <2>2, <2>3 DEF SubmitRegister
<1>13. CASE SubmitDeregister(u)
  <2>1. operation_generation' \in Nat
    BY <1>13 DEF SubmitDeregister
  <2>2. auto_register_pending' \in BOOLEAN /\ target_registered' \in BOOLEAN
    BY <1>13 DEF SubmitDeregister
  <2>3. last_command' \in {"none", "register", "deregister"}
    BY <1>13 DEF SubmitDeregister
  <2> QED BY <1>13, <2>1, <2>2, <2>3 DEF SubmitDeregister
<1>14. CASE Exit(u)
  BY <1>14 DEF Exit
<1>15. CASE ClientCached(u)
  BY <1>15 DEF ClientCached
<1>16. CASE ClientLocked(u)
  BY <1>16 DEF ClientLocked, Cached
<1>17. CASE Configure(u)
  BY <1>17 DEF Configure
<1>18. CASE Construct(u)
  BY <1>18 DEF Construct
<1>19. CASE ConstructFails(u)
  BY <1>19 DEF ConstructFails
<1>20. CASE Publish(u)
  BY <1>20 DEF Publish
<1> QED BY <1>1, <1>2, <1>3, <1>4, <1>5, <1>6, <1>7, <1>8, <1>9, <1>10, <1>11, <1>12, <1>13,
            <1>14, <1>15, <1>16, <1>17, <1>18, <1>19, <1>20 DEF Step, EnsureCurrentRuntime

LEMMA ReturnKeepsLocalTypes ==
  ASSUME LocalTypes, NEW u \in Threads, Return(u)
  PROVE  LocalTypes'
<1>1. NoSnapshot \in [generation : Nat, target : BOOLEAN] /\ NoRuntime \in [pid : Nat, id : Nat]
  BY DEF NoSnapshot, NoRuntime
<1> QED BY <1>1 DEF LocalTypes, Operations

LEMMA StepKeepsLocalTypes ==
  ASSUME IInv, NEW u \in Threads, Call(u) \/ WorkerBegins(u) \/ Step(u)
  PROVE  LocalTypes'
<1> USE DEF IInv, LocalTypes, Types, Operations
<1> NoSnapshot \in [generation : Nat, target : BOOLEAN] /\ NoRuntime \in [pid : Nat, id : Nat]
  BY DEF NoSnapshot, NoRuntime
<1>1. CASE Call(u)
  BY <1>1 DEF Call
<1>2. CASE WorkerBegins(u)
  BY <1>2 DEF WorkerBegins, Current
<1>3. CASE ReadRuntime(u)
  BY <1>3 DEF ReadRuntime
<1>4. CASE CheckRuntime(u)
  BY <1>4 DEF CheckRuntime, Current
<1>5. CASE Rebuild(u)
  <2>1. runtime \in [pid : Nat, id : Nat]
    OBVIOUS
  <2>2. CASE Outdated
    BY <1>5, <2>2 DEF Rebuild, CreateRuntime
  <2>3. CASE ~Outdated
    <3>1. /\ pc' = [pc EXCEPT ![u] = "enter"] /\ seen' = [seen EXCEPT ![u] = runtime]
          /\ UNCHANGED <<operation, snapshot>>
      BY <1>5, <2>3 DEF Rebuild, CreateRuntime
    <3> QED BY <2>1, <3>1
  <2> QED BY <2>2, <2>3
<1>6. CASE ClearStale(u)
  BY <1>6 DEF ClearStale
<1>7. CASE PeekPending(u)
  BY <1>7 DEF PeekPending
<1>8. CASE TakeSnapshot(u)
  <2>1. CASE shutting_down \/ ~auto_register_pending
    BY <1>8, <2>1 DEF TakeSnapshot
  <2>2. CASE ~(shutting_down \/ ~auto_register_pending)
    BY <1>8, <2>2 DEF TakeSnapshot
  <2> QED BY <2>1, <2>2
<1>9. CASE SubmitPending(u)
  BY <1>9 DEF SubmitPending, SnapshotMatches, Submitted, TargetRegistered
<1>10. CASE EnterRegister(u)
  <2>1. CASE shutting_down
    BY <1>10, <2>1, ReturnKeepsLocalTypes DEF EnterRegister
  <2>2. CASE ~shutting_down
    BY <1>10, <2>2 DEF EnterRegister
  <2> QED BY <2>1, <2>2
<1>11. CASE InstallValidation(u)
  BY <1>11 DEF InstallValidation
<1>12. CASE SubmitRegister(u)
  BY <1>12 DEF SubmitRegister, Submitted, TargetRegistered
<1>13. CASE SubmitDeregister(u)
  BY <1>13 DEF SubmitDeregister
<1>14. CASE Exit(u)
  BY <1>14 DEF Exit
<1>15. CASE ClientCached(u)
  <2>1. CASE client
    BY <1>15, <2>1, ReturnKeepsLocalTypes DEF ClientCached
  <2>2. CASE ~client
    BY <1>15, <2>2 DEF ClientCached
  <2> QED BY <2>1, <2>2
<1>16. CASE ClientLocked(u)
  <2>1. CASE Cached
    BY <1>16, <2>1, ReturnKeepsLocalTypes DEF ClientLocked
  <2>2. CASE ~Cached
    BY <1>16, <2>2 DEF ClientLocked
  <2> QED BY <2>1, <2>2
<1>17. CASE Configure(u)
  BY <1>17 DEF Configure
<1>18. CASE Construct(u)
  BY <1>18 DEF Construct
<1>19. CASE ConstructFails(u)
  BY <1>19 DEF ConstructFails
<1>20. CASE Publish(u)
  BY <1>20 DEF Publish
<1> QED BY <1>1, <1>2, <1>3, <1>4, <1>5, <1>6, <1>7, <1>8, <1>9, <1>10, <1>11, <1>12, <1>13,
            <1>14, <1>15, <1>16, <1>17, <1>18, <1>19, <1>20 DEF Step, EnsureCurrentRuntime

LEMMA StepKeepsLocks ==
  ASSUME IInv, NEW u \in Threads, Call(u) \/ WorkerBegins(u) \/ Step(u)
  PROVE  Locks'
<1> USE DEF IInv, Locks, Types, LocalTypes
<1>1. CASE Call(u)
  BY <1>1 DEF Call
<1>2. CASE WorkerBegins(u)
  BY <1>2 DEF WorkerBegins, Current
<1>3. CASE ReadRuntime(u)
  BY <1>3 DEF ReadRuntime
<1>4. CASE CheckRuntime(u)
  BY <1>4 DEF CheckRuntime, Current
<1>5. CASE Rebuild(u)
  <2>1. CASE Outdated
    <3>1. \A t \in Threads : pc[t] \notin ClientPcs
      BY <1>5, <2>1 DEF Rebuild, CreateRuntime, Outdated, Rebuilding, Readers
    <3>2. pc[u] = "rebuild" /\ pc' = [pc EXCEPT ![u] = "clear"]
      BY <1>5, <2>1 DEF Rebuild, CreateRuntime
    <3>3. rebuild_lock = None /\ rebuild_lock' = u /\ client_lock' = None /\ config_lock' = config_lock
      BY <1>5, <2>1 DEF Rebuild, CreateRuntime
    <3>4. ASSUME NEW t \in Threads
          PROVE  /\ rebuild_lock' = t <=> pc'[t] = "clear"
                 /\ config_lock' = t <=> pc'[t] \in {"construct", "publish"}
      BY <3>2, <3>3
    <3>5. ASSUME NEW t \in Threads
          PROVE  client_lock' = t <=> pc'[t] \in {"configure", "construct", "cleanup", "publish"}
      BY <3>1, <3>2, <3>3
    <3> QED BY <3>4, <3>5
  <2>2. CASE ~Outdated
    BY <1>5, <2>2 DEF Rebuild, CreateRuntime
  <2> QED BY <2>1, <2>2
<1>6. CASE ClearStale(u)
  BY <1>6 DEF ClearStale
<1>7. CASE PeekPending(u)
  BY <1>7 DEF PeekPending
<1>8. CASE TakeSnapshot(u)
  BY <1>8 DEF TakeSnapshot
<1>9. CASE SubmitPending(u)
  BY <1>9 DEF SubmitPending, SnapshotMatches, Submitted, TargetRegistered
<1>10. CASE EnterRegister(u)
  BY <1>10 DEF EnterRegister
<1>11. CASE InstallValidation(u)
  BY <1>11 DEF InstallValidation
<1>12. CASE SubmitRegister(u)
  BY <1>12 DEF SubmitRegister, Submitted, TargetRegistered
<1>13. CASE SubmitDeregister(u)
  BY <1>13 DEF SubmitDeregister
<1>14. CASE Exit(u)
  BY <1>14 DEF Exit
<1>15. CASE ClientCached(u)
  BY <1>15 DEF ClientCached
<1>16. CASE ClientLocked(u)
  BY <1>16 DEF ClientLocked, Cached
<1>17. CASE Configure(u)
  BY <1>17 DEF Configure
<1>18. CASE Construct(u)
  BY <1>18 DEF Construct
<1>19. CASE ConstructFails(u)
  BY <1>19 DEF ConstructFails
<1>20. CASE Publish(u)
  BY <1>20 DEF Publish
<1> QED BY <1>1, <1>2, <1>3, <1>4, <1>5, <1>6, <1>7, <1>8, <1>9, <1>10, <1>11, <1>12, <1>13,
            <1>14, <1>15, <1>16, <1>17, <1>18, <1>19, <1>20 DEF Step, EnsureCurrentRuntime

LEMMA StepKeepsRebuilding ==
  ASSUME IInv, NEW u \in Threads, Call(u) \/ WorkerBegins(u) \/ Step(u)
  PROVE  Rebuilding'
<1> USE DEF IInv, Rebuilding, Types, LocalTypes, Locks, Readers
<1>1. CASE Call(u)
  BY <1>1 DEF Call
<1>2. CASE WorkerBegins(u)
  BY <1>2 DEF WorkerBegins, Current
<1>3. CASE ReadRuntime(u)
  BY <1>3 DEF ReadRuntime
<1>4. CASE CheckRuntime(u)
  BY <1>4 DEF CheckRuntime, Current
<1>5. CASE Rebuild(u)
  BY <1>5 DEF Rebuild, CreateRuntime, Outdated
<1>6. CASE ClearStale(u)
  BY <1>6 DEF ClearStale
<1>7. CASE PeekPending(u)
  BY <1>7 DEF PeekPending
<1>8. CASE TakeSnapshot(u)
  BY <1>8 DEF TakeSnapshot
<1>9. CASE SubmitPending(u)
  BY <1>9 DEF SubmitPending, SnapshotMatches, Submitted, TargetRegistered
<1>10. CASE EnterRegister(u)
  BY <1>10 DEF EnterRegister
<1>11. CASE InstallValidation(u)
  BY <1>11 DEF InstallValidation
<1>12. CASE SubmitRegister(u)
  BY <1>12 DEF SubmitRegister, Submitted, TargetRegistered
<1>13. CASE SubmitDeregister(u)
  BY <1>13 DEF SubmitDeregister
<1>14. CASE Exit(u)
  BY <1>14 DEF Exit
<1>15. CASE ClientCached(u)
  BY <1>15 DEF ClientCached
<1>16. CASE ClientLocked(u)
  BY <1>16 DEF ClientLocked, Cached
<1>17. CASE Configure(u)
  BY <1>17 DEF Configure
<1>18. CASE Construct(u)
  BY <1>18 DEF Construct
<1>19. CASE ConstructFails(u)
  BY <1>19 DEF ConstructFails
<1>20. CASE Publish(u)
  BY <1>20 DEF Publish
<1> QED BY <1>1, <1>2, <1>3, <1>4, <1>5, <1>6, <1>7, <1>8, <1>9, <1>10, <1>11, <1>12, <1>13,
            <1>14, <1>15, <1>16, <1>17, <1>18, <1>19, <1>20 DEF Step, EnsureCurrentRuntime

LEMMA StepKeepsReaders ==
  ASSUME IInv, NEW u \in Threads, Call(u) \/ WorkerBegins(u) \/ Step(u)
  PROVE  Readers'
<1> USE DEF IInv, Readers, Types, LocalTypes, Rebuilding, Locks
<1>1. CASE Call(u)
  BY <1>1 DEF Call
<1>2. CASE WorkerBegins(u)
  BY <1>2 DEF WorkerBegins, Current
<1>3. CASE ReadRuntime(u)
  BY <1>3 DEF ReadRuntime
<1>4. CASE CheckRuntime(u)
  BY <1>4 DEF CheckRuntime, Current
<1>5. CASE Rebuild(u)
  BY <1>5 DEF Rebuild, CreateRuntime, Outdated
<1>6. CASE ClearStale(u)
  BY <1>6 DEF ClearStale
<1>7. CASE PeekPending(u)
  BY <1>7 DEF PeekPending
<1>8. CASE TakeSnapshot(u)
  BY <1>8 DEF TakeSnapshot
<1>9. CASE SubmitPending(u)
  BY <1>9 DEF SubmitPending, SnapshotMatches, Submitted, TargetRegistered
<1>10. CASE EnterRegister(u)
  BY <1>10 DEF EnterRegister
<1>11. CASE InstallValidation(u)
  BY <1>11 DEF InstallValidation
<1>12. CASE SubmitRegister(u)
  BY <1>12 DEF SubmitRegister, Submitted, TargetRegistered
<1>13. CASE SubmitDeregister(u)
  BY <1>13 DEF SubmitDeregister
<1>14. CASE Exit(u)
  BY <1>14 DEF Exit
<1>15. CASE ClientCached(u)
  BY <1>15 DEF ClientCached
<1>16. CASE ClientLocked(u)
  BY <1>16 DEF ClientLocked, Cached
<1>17. CASE Configure(u)
  BY <1>17 DEF Configure
<1>18. CASE Construct(u)
  BY <1>18 DEF Construct
<1>19. CASE ConstructFails(u)
  BY <1>19 DEF ConstructFails
<1>20. CASE Publish(u)
  BY <1>20 DEF Publish
<1> QED BY <1>1, <1>2, <1>3, <1>4, <1>5, <1>6, <1>7, <1>8, <1>9, <1>10, <1>11, <1>12, <1>13,
            <1>14, <1>15, <1>16, <1>17, <1>18, <1>19, <1>20 DEF Step, EnsureCurrentRuntime

LEMMA StepKeepsClients ==
  ASSUME IInv, NEW u \in Threads, Call(u) \/ WorkerBegins(u) \/ Step(u)
  PROVE  Clients'
<1> USE DEF IInv, Clients, Types, LocalTypes, Locks, Readers, Rebuilding
<1>1. CASE Call(u)
  BY <1>1 DEF Call
<1>2. CASE WorkerBegins(u)
  BY <1>2 DEF WorkerBegins, Current
<1>3. CASE ReadRuntime(u)
  BY <1>3 DEF ReadRuntime
<1>4. CASE CheckRuntime(u)
  BY <1>4 DEF CheckRuntime, Current
<1>5. CASE Rebuild(u)
  BY <1>5 DEF Rebuild, CreateRuntime, Outdated
<1>6. CASE ClearStale(u)
  BY <1>6 DEF ClearStale
<1>7. CASE PeekPending(u)
  BY <1>7 DEF PeekPending
<1>8. CASE TakeSnapshot(u)
  BY <1>8 DEF TakeSnapshot
<1>9. CASE SubmitPending(u)
  BY <1>9 DEF SubmitPending, SnapshotMatches, Submitted, TargetRegistered
<1>10. CASE EnterRegister(u)
  BY <1>10 DEF EnterRegister
<1>11. CASE InstallValidation(u)
  BY <1>11 DEF InstallValidation
<1>12. CASE SubmitRegister(u)
  BY <1>12 DEF SubmitRegister, Submitted, TargetRegistered
<1>13. CASE SubmitDeregister(u)
  BY <1>13 DEF SubmitDeregister
<1>14. CASE Exit(u)
  BY <1>14 DEF Exit
<1>15. CASE ClientCached(u)
  BY <1>15 DEF ClientCached
<1>16. CASE ClientLocked(u)
  BY <1>16 DEF ClientLocked, Cached
<1>17. CASE Configure(u)
  BY <1>17 DEF Configure
<1>18. CASE Construct(u)
  BY <1>18 DEF Construct
<1>19. CASE ConstructFails(u)
  BY <1>19 DEF ConstructFails
<1>20. CASE Publish(u)
  BY <1>20 DEF Publish
<1> QED BY <1>1, <1>2, <1>3, <1>4, <1>5, <1>6, <1>7, <1>8, <1>9, <1>10, <1>11, <1>12, <1>13,
            <1>14, <1>15, <1>16, <1>17, <1>18, <1>19, <1>20 DEF Step, EnsureCurrentRuntime

LEMMA StepKeepsRecovery ==
  ASSUME IInv, NEW u \in Threads, Call(u) \/ WorkerBegins(u) \/ Step(u)
  PROVE  Recovery'
<1> USE DEF IInv, Recovery, Types, LocalTypes, Readers, Rebuilding
<1>1. CASE Call(u)
  BY <1>1 DEF Call
<1>2. CASE WorkerBegins(u)
  BY <1>2 DEF WorkerBegins, Current
<1>3. CASE ReadRuntime(u)
  BY <1>3 DEF ReadRuntime
<1>4. CASE CheckRuntime(u)
  BY <1>4 DEF CheckRuntime, Current
<1>5. CASE Rebuild(u)
  BY <1>5 DEF Rebuild, CreateRuntime, Outdated
<1>6. CASE ClearStale(u)
  BY <1>6 DEF ClearStale
<1>7. CASE PeekPending(u)
  BY <1>7 DEF PeekPending
<1>8. CASE TakeSnapshot(u)
  BY <1>8 DEF TakeSnapshot
<1>9. CASE SubmitPending(u)
  BY <1>9 DEF SubmitPending, SnapshotMatches, Submitted, TargetRegistered
<1>10. CASE EnterRegister(u)
  BY <1>10 DEF EnterRegister
<1>11. CASE InstallValidation(u)
  BY <1>11 DEF InstallValidation
<1>12. CASE SubmitRegister(u)
  BY <1>12 DEF SubmitRegister, Submitted, TargetRegistered
<1>13. CASE SubmitDeregister(u)
  BY <1>13 DEF SubmitDeregister
<1>14. CASE Exit(u)
  BY <1>14 DEF Exit
<1>15. CASE ClientCached(u)
  BY <1>15 DEF ClientCached
<1>16. CASE ClientLocked(u)
  BY <1>16 DEF ClientLocked, Cached
<1>17. CASE Configure(u)
  BY <1>17 DEF Configure
<1>18. CASE Construct(u)
  BY <1>18 DEF Construct
<1>19. CASE ConstructFails(u)
  BY <1>19 DEF ConstructFails
<1>20. CASE Publish(u)
  BY <1>20 DEF Publish
<1> QED BY <1>1, <1>2, <1>3, <1>4, <1>5, <1>6, <1>7, <1>8, <1>9, <1>10, <1>11, <1>12, <1>13,
            <1>14, <1>15, <1>16, <1>17, <1>18, <1>19, <1>20 DEF Step, EnsureCurrentRuntime

LEMMA Invariance == Spec => []IInv
<1>1. IInv /\ [Next]_vars => IInv'
  <2> SUFFICES ASSUME IInv, [Next]_vars PROVE IInv'
    OBVIOUS
  <2>1. CASE Fork
    BY <2>1, ForkKeepsInv
  <2>2. CASE \E u \in Threads : Call(u) \/ WorkerBegins(u) \/ Step(u)
    BY <2>2, StepKeepsTypes, StepKeepsLocalTypes, StepKeepsLocks, StepKeepsRebuilding,
       StepKeepsReaders, StepKeepsClients, StepKeepsRecovery DEF IInv
  <2>3. CASE UNCHANGED vars
    BY <2>3 DEF vars, locals, IInv, Types, LocalTypes, Locks, Rebuilding, Readers, Clients, Recovery
  <2> QED BY <2>1, <2>2, <2>3 DEF Next
<1> QED BY InitInv, <1>1, PTL DEF Spec

(***************************************************************************)
(* The theorems                                                            *)
(***************************************************************************)

(* TypeOK: types, and the locks held exactly inside their sections.        *)
THEOREM TypeCorrect == Spec => []TypeOK
<1>1. IInv => TypeOK
  BY DEF IInv, Types, LocalTypes, Locks, TypeOK
<1> QED BY <1>1, Invariance, PTL

(* RuntimeIsCurrent: past _ensure_current_runtime a call has the runtime   *)
(* of its own process, and the same one as every other call.               *)
THEOREM CallsUseTheirOwnRuntime == Spec => []RuntimeIsCurrent
<1>1. IInv => RuntimeIsCurrent
  BY DEF IInv, Readers, Rebuilding, RuntimeIsCurrent
<1> QED BY <1>1, Invariance, PTL

(* OneRuntimePerProcess: a process replaces what it inherited once.        *)
THEOREM RebuiltOnce == Spec => []OneRuntimePerProcess
<1>1. IInv => OneRuntimePerProcess
  BY DEF IInv, Rebuilding, OneRuntimePerProcess
<1> QED BY <1>1, Invariance, PTL

(* OneClient: double-checked creation constructs one client per runtime.   *)
THEOREM ConstructedOnce == Spec => []OneClient
<1>1. IInv => OneClient
  BY DEF IInv, Clients, OneClient
<1> QED BY <1>1, Invariance, PTL

(* RecoveryYieldsToCommands: the automatic registration that a child owes  *)
(* is never put over a deregistration of its own.                          *)
THEOREM CommandsPrevail == Spec => []RecoveryYieldsToCommands
<1>1. IInv => RecoveryYieldsToCommands
  BY DEF IInv, Recovery, RecoveryYieldsToCommands
<1> QED BY <1>1, Invariance, PTL

(* RecoveryIsNotSkipped: nobody gets to a client before it is submitted.   *)
THEOREM RecoveryComesFirst == Spec => []RecoveryIsNotSkipped
<1>1. IInv => RecoveryIsNotSkipped
  BY DEF IInv, Recovery, RecoveryIsNotSkipped
<1> QED BY <1>1, Invariance, PTL
===============================================================================
