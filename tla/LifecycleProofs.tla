--------------------------- MODULE LifecycleProofs ---------------------------
(***************************************************************************)
(* Proofs about Lifecycle for every set of threads and every bound.        *)
(*                                                                         *)
(* Most actions move one thread inside a phase of its life: a worker that  *)
(* runs, a caller that holds the deregistration or holds nothing, an exit. *)
(* MovesOn describes such a step; the invariants about who owns the        *)
(* operation follow from it alone, so each such action is opened once.     *)
(***************************************************************************)
EXTENDS Lifecycle, TLAPS

Running == (RpcPcs \cup WorkerPcs) \ {"dead", "created"}
Holding == RpcPcs \cup {"wake_sync", "settle"}
Outside == {"idle", "wake_return", "reschedule"}

(* The label l keeps thread t in the phase it is in. *)
SamePhase(t, l) ==
    \/ t \in Workers /\ pc[t] \in Running /\ l \in Running
    \/ t \in Callers /\ pc[t] \in Holding /\ l \in Holding
    \/ t \in Callers /\ pc[t] \in Outside /\ l \in Outside
    \/ t \in Exits /\ l \in RpcPcs \cup ExitPcs

MovesOn(t) ==
    /\ \E l : Goto(t, l) /\ SamePhase(t, l)
    /\ UNCHANGED <<operation_kind, operation_thread, handle>>

USE DEF RpcPcs, WorkerPcs, CallerPcs, ExitPcs, Running, Holding, Outside

(***************************************************************************)
(* Which actions are such steps                                            *)
(***************************************************************************)
LEMMA WorkerMovesOn ==
  ASSUME NEW w \in Workers,
         \/ Top(w) \/ WaitSnapshot(w) \/ WaitClear(w) \/ WaitRecheck(w) \/ WaitWoken(w)
         \/ WaitTimesOut(w) \/ WaitRaises(w) \/ Recheck(w) \/ Prepare(w) \/ PrepareFails(w)
         \/ After(w) \/ Record(w) \/ Decide(w)
  PROVE  MovesOn(w)
<1>1. UNCHANGED <<operation_kind, operation_thread, handle>>
  BY DEF Top, WaitSnapshot, WaitClear, WaitRecheck, WaitWoken, WaitTimesOut, WaitRaises,
         Recheck, Prepare, PrepareFails, After, Record, Decide, WorkerFrame
<1>2. \E l \in Running : Goto(w, l)
  BY DEF Top, WaitSnapshot, WaitClear, WaitRecheck, WaitWoken, WaitTimesOut, WaitRaises,
         Recheck, Prepare, PrepareFails, After, Record, Decide
<1>3. pc[w] \in Running
  BY DEF Top, WaitSnapshot, WaitClear, WaitRecheck, WaitWoken, WaitTimesOut, WaitRaises,
         Recheck, Prepare, PrepareFails, After, Record, Decide
<1> QED BY <1>1, <1>2, <1>3 DEF MovesOn, SamePhase

LEMMA RpcMovesOn ==
  ASSUME NEW t \in Threads, NamingRpc(t)
  PROVE  MovesOn(t) /\ pc[t] \in RpcPcs
<1>1. UNCHANGED <<operation_kind, operation_thread, handle>>
  BY DEF NamingRpc, Acquire, EventFails, Claim, Publish, CallSucceeds, CallFails, Commit, Finish,
         operation, locals
<1>2. \E l \in RpcPcs \cup {Return(t)} : Goto(t, l)
  BY DEF NamingRpc, Acquire, EventFails, Claim, Publish, CallSucceeds, CallFails, Commit, Finish, GiveUp
<1>3. pc[t] \in RpcPcs
  BY DEF NamingRpc, Acquire, EventFails, Claim, Publish, CallSucceeds, CallFails, Commit, Finish
<1>4. PICK l \in RpcPcs \cup {Return(t)} : Goto(t, l)
  BY <1>2
<1>5. SamePhase(t, l)
  BY <1>3, <1>4, ThreadsAssumption DEF SamePhase, Return, Threads
<1> QED BY <1>1, <1>3, <1>4, <1>5 DEF MovesOn

LEMMA OtherMovesOn ==
  ASSUME NEW t,
         \/ t \in Callers /\ Wake(t)
         \/ t \in Exits /\ (ExitWake(t) \/ ExitWaited(t) \/ ExitTimesOut(t) \/ ExitCheck(t))
  PROVE  MovesOn(t)
<1>1. CASE t \in Callers /\ Wake(t)
  BY <1>1 DEF Wake, MovesOn, SamePhase, locals
<1>2. CASE t \in Exits /\ ExitWake(t)
  BY <1>2 DEF ExitWake, MovesOn, SamePhase, locals
<1>3. CASE t \in Exits /\ (ExitWaited(t) \/ ExitTimesOut(t) \/ ExitCheck(t))
  BY <1>3 DEF ExitWaited, ExitTimesOut, ExitCheck, MovesOn, SamePhase, locals, operation
<1> QED BY <1>1, <1>2, <1>3

(***************************************************************************)
(* Program counters and the owner of the operation                         *)
(***************************************************************************)

(* OneOperation as an inductive invariant: an operation has its thread, a  *)
(* caller about to start a worker holds the only one, not started yet.     *)
Starting ==
    \A c \in Callers : pc[c] = "start" =>
        /\ handle[c] \in Workers /\ pc[handle[c]] = "created"
        /\ \A d \in Callers : pc[d] = "start" => c = d

ThreadOwns ==
    /\ operation_kind = "register" => operation_thread \in Workers /\ pc[operation_thread] # "dead"
    /\ operation_kind # "register" => operation_thread = None

Ownership == OneOperation /\ ThreadOwns /\ Starting

LEMMA MovesOnKeepsOwner ==
  ASSUME TypeOK, Ownership, NEW t \in Threads, MovesOn(t)
  PROVE  PcType' /\ Ownership'
<1>1. PICK l : Goto(t, l) /\ SamePhase(t, l)
  BY DEF MovesOn
<1>2. UNCHANGED <<operation_kind, operation_thread, handle>>
  BY DEF MovesOn
<1>3. PcType'
  BY <1>1, ThreadsAssumption DEF TypeOK, PcType, Goto, SamePhase, Threads
<1>4. \A u \in Threads : u # t => pc'[u] = pc[u]
  BY <1>1 DEF TypeOK, PcType, Goto
<1>5. pc'[t] = l
  BY <1>1 DEF TypeOK, PcType, Goto
<1>6. OneOperation'
  <2>1. \A w \in Workers : pc'[w] # "dead" <=> pc[w] # "dead"
    BY <1>1, <1>4, <1>5, ThreadsAssumption DEF SamePhase, Threads
  <2>2. \A c \in Callers : Deregistering(c)' <=> Deregistering(c)
    BY <1>1, <1>4, <1>5, ThreadsAssumption DEF SamePhase, Threads, Deregistering
  <2> QED
    BY <1>2, <2>1, <2>2 DEF Ownership, OneOperation, Owns
<1>7. ThreadOwns'
  BY <1>1, <1>2, <1>4, <1>5, ThreadsAssumption
  DEF Ownership, ThreadOwns, SamePhase, Threads
<1>8. Starting'
  <2>1. \A c \in Callers : pc'[c] = "start" <=> pc[c] = "start"
    BY <1>1, <1>4, <1>5, ThreadsAssumption DEF SamePhase, Threads
  <2>2. \A w \in Workers : pc'[w] = "created" <=> pc[w] = "created"
    BY <1>1, <1>4, <1>5, ThreadsAssumption DEF SamePhase, Threads
  <2> QED
    BY <1>2, <2>1, <2>2 DEF Ownership, Starting
<1> QED BY <1>3, <1>6, <1>7, <1>8 DEF Ownership

LEMMA OwnerInit == Init => PcType /\ Ownership
<1> SUFFICES ASSUME Init PROVE PcType /\ Ownership OBVIOUS
<1>1. PcType
  BY ThreadsAssumption DEF Init, PcType, Threads
<1>2. /\ \A c \in Callers : pc[c] = "idle"
      /\ \A w \in Workers : pc[w] = "dead"
      /\ operation_kind = "none" /\ operation_thread = None
  BY ThreadsAssumption DEF Init, Threads
<1>3. Ownership
  BY <1>2 DEF Ownership, OneOperation, Deregistering, ThreadOwns, Starting
<1> QED BY <1>1, <1>3

(* The actions that change who owns the operation *)
LEMMA PrepareRegisterKeepsOwner ==
  ASSUME TypeOK, Ownership, NEW c \in Callers, pc[c] \in {"idle", "reschedule"},
         NEW b, PrepareRegister(c, b)
  PROVE  PcType' /\ Ownership'
<1>0. c \in Threads
  BY DEF Threads
<1>1. CASE NoWorkerNeeded(c) \/ WorkerNotCreated(c)
  BY <1>0, <1>1, MovesOnKeepsOwner
  DEF NoWorkerNeeded, WorkerNotCreated, MovesOn, SamePhase
<1>2. CASE WorkerCreated(c)
  <2>1. PICK w \in Workers :
          /\ pc[w] = "dead"
          /\ operation_kind' = "register" /\ operation_thread' = w
          /\ handle' = [handle EXCEPT ![c] = w]
          /\ pc' = [pc EXCEPT ![c] = "start", ![w] = "created"]
    BY <1>2 DEF WorkerCreated
  <2>2. operation_kind = "none"
    BY <1>2 DEF WorkerCreated, Idle
  <2>3. \A v \in Workers : pc[v] = "dead"
    BY <2>2 DEF Ownership, OneOperation, Owns
  <2>4. \A d \in Callers : ~Deregistering(d) /\ pc[d] # "start"
    BY <2>2, <2>3 DEF Ownership, OneOperation, Starting
  <2>5. PcType'
    BY <2>1, ThreadsAssumption DEF TypeOK, PcType, Threads
  <2>6. /\ pc'[c] = "start" /\ pc'[w] = "created"
        /\ \A u \in Threads : u # c /\ u # w => pc'[u] = pc[u]
    BY <2>1, ThreadsAssumption DEF TypeOK, PcType, Threads
  <2>7. OneOperation'
    BY <2>1, <2>3, <2>4, <2>6, ThreadsAssumption
    DEF OneOperation, Owns, Deregistering, Threads
  <2>8. ThreadOwns'
    BY <2>1, <2>6 DEF ThreadOwns
  <2>9. Starting'
    <3>1. handle'[c] = w
      BY <2>1 DEF TypeOK, HandleType
    <3>2. \A d \in Callers : pc'[d] = "start" => d = c
      BY <2>4, <2>6, ThreadsAssumption DEF Threads
    <3> QED BY <2>6, <3>1, <3>2 DEF Starting
  <2> QED BY <2>5, <2>7, <2>8, <2>9 DEF Ownership
<1> QED BY <1>1, <1>2 DEF PrepareRegister

LEMMA StartThreadKeepsOwner ==
  ASSUME TypeOK, Ownership, NEW c \in Callers, StartThread(c) \/ StartFails(c)
  PROVE  PcType' /\ Ownership'
<1> DEFINE w == handle[c]
<1>1. /\ pc[c] = "start" /\ w \in Workers /\ pc[w] = "created"
      /\ \A d \in Callers : pc[d] = "start" => c = d
  BY DEF StartThread, StartFails, Ownership, Starting
<1>2. Owns(w) /\ \A v \in Workers : pc[v] # "dead" => v = w
  BY <1>1 DEF Ownership, OneOperation, Owns
<1>3. PICK l \in {"top", "dead"} : pc' = [pc EXCEPT ![c] = "idle", ![w] = l]
  BY DEF StartThread, StartFails
<1>4. PcType'
  BY <1>1, <1>3, ThreadsAssumption DEF TypeOK, PcType, Threads
<1>5. /\ pc'[c] = "idle" /\ pc'[w] = l
      /\ \A u \in Threads : u # c /\ u # w => pc'[u] = pc[u]
  BY <1>1, <1>3, ThreadsAssumption DEF TypeOK, PcType, Threads
<1>6. \A d \in Callers : ~Deregistering(d) /\ ~Deregistering(d)' /\ pc'[d] # "start"
  BY <1>1, <1>2, <1>5, ThreadsAssumption
  DEF Ownership, OneOperation, Owns, Deregistering, Threads
<1>7. Starting'
  BY <1>6 DEF Starting
<1>8. CASE StartThread(c)
  <2>1. l = "top" /\ UNCHANGED <<operation_kind, operation_thread>>
    <3>1. pc'[w] = "top"
      BY <1>1, <1>8, ThreadsAssumption DEF StartThread, TypeOK, PcType, Threads
    <3> QED BY <1>5, <1>8, <3>1 DEF StartThread, operation
  <2>2. OneOperation'
    BY <1>1, <1>2, <1>5, <1>6, <2>1, ThreadsAssumption DEF OneOperation, Owns, Threads
  <2>3. ThreadOwns'
    BY <1>1, <1>2, <1>5, <2>1 DEF ThreadOwns, Owns
  <2> QED BY <1>4, <1>7, <2>2, <2>3 DEF Ownership
<1>9. CASE StartFails(c)
  <2>1. l = "dead" /\ operation_kind' = "none" /\ operation_thread' = None
    <3>1. pc'[w] = "dead"
      BY <1>1, <1>9, ThreadsAssumption DEF StartFails, TypeOK, PcType, Threads
    <3> QED BY <1>2, <1>5, <1>9, <3>1 DEF StartFails, Owns
  <2>2. \A v \in Workers : pc'[v] = "dead"
    BY <1>1, <1>2, <1>5, <2>1, ThreadsAssumption DEF Threads
  <2>3. OneOperation' /\ ThreadOwns'
    BY <1>6, <2>1, <2>2 DEF OneOperation, ThreadOwns
  <2> QED BY <1>4, <1>7, <2>3 DEF Ownership
<1> QED BY <1>8, <1>9

LEMMA DeregisterCommandKeepsOwner ==
  ASSUME TypeOK, Ownership, NEW c \in Callers, DeregisterCommand(c)
  PROVE  PcType' /\ Ownership'
<1>0. c \in Threads /\ pc[c] = "idle"
  BY DEF Threads, DeregisterCommand
<1>1. CASE operation_kind = "none" /\ registered
  <2>1. PICK l \in {"wake_sync", "acquire"} : Goto(c, l)
    BY <1>1 DEF DeregisterCommand
  <2>2. operation_kind' = "deregister" /\ operation_thread' = None /\ handle' = handle
    BY <1>1 DEF DeregisterCommand, locals
  <2>3. /\ \A v \in Workers : pc[v] = "dead"
        /\ \A d \in Callers : ~Deregistering(d) /\ pc[d] # "start"
    BY <1>1 DEF Ownership, OneOperation, Owns, Starting
  <2>4. PcType'
    BY <1>0, <2>1, ThreadsAssumption DEF TypeOK, PcType, Threads, Goto
  <2>5. pc'[c] = l /\ \A u \in Threads : u # c => pc'[u] = pc[u]
    BY <1>0, <2>1 DEF TypeOK, PcType, Goto
  <2>6. /\ \A v \in Workers : pc'[v] = "dead"
        /\ \A d \in Callers : (Deregistering(d)' <=> d = c) /\ pc'[d] # "start"
    BY <2>3, <2>5, ThreadsAssumption DEF Threads, Deregistering
  <2>7. OneOperation' /\ ThreadOwns' /\ Starting'
    BY <2>2, <2>6 DEF OneOperation, ThreadOwns, Starting
  <2> QED BY <2>4, <2>7 DEF Ownership
<1>2. CASE ~(operation_kind = "none" /\ registered)
  <2>1. \E l \in {"wake_return", "idle"} : Goto(c, l)
    BY <1>2 DEF DeregisterCommand
  <2>2. UNCHANGED <<operation_kind, operation_thread, handle>>
    BY <1>2 DEF DeregisterCommand, locals
  <2> QED BY <1>0, <2>1, <2>2, MovesOnKeepsOwner DEF MovesOn, SamePhase
<1> QED BY <1>1, <1>2

LEMMA SettleKeepsOwner ==
  ASSUME TypeOK, Ownership, NEW c \in Callers, Settle(c)
  PROVE  PcType' /\ Ownership'
<1>0. c \in Threads /\ pc[c] = "settle" /\ handle' = handle
  BY DEF Threads, Settle
<1>1. PICK l \in {"reschedule", "idle"} : Goto(c, l)
  BY DEF Settle
<1>2. /\ operation_kind = "deregister" /\ operation_thread = None
      /\ \A d \in Callers : Deregistering(d) => d = c
  BY <1>0 DEF Ownership, OneOperation, ThreadOwns, Deregistering
<1>3. operation_kind' = "none" /\ operation_thread' = None
  BY <1>2 DEF Settle
<1>4. /\ \A v \in Workers : pc[v] = "dead"
      /\ \A d \in Callers : pc[d] # "start"
  BY <1>2 DEF Ownership, OneOperation, Owns, Starting
<1>5. PcType'
  BY <1>0, <1>1, ThreadsAssumption DEF TypeOK, PcType, Threads, Goto
<1>6. pc'[c] = l /\ \A u \in Threads : u # c => pc'[u] = pc[u]
  BY <1>0, <1>1 DEF TypeOK, PcType, Goto
<1>7. /\ \A v \in Workers : pc'[v] = "dead"
      /\ \A d \in Callers : ~Deregistering(d)' /\ pc'[d] # "start"
  BY <1>2, <1>4, <1>6, ThreadsAssumption DEF Threads, Deregistering
<1>8. OneOperation' /\ ThreadOwns' /\ Starting'
  BY <1>3, <1>7 DEF OneOperation, ThreadOwns, Starting
<1> QED BY <1>5, <1>8 DEF Ownership

LEMMA LeaveKeepsOwner ==
  ASSUME TypeOK, Ownership, NEW w \in Workers, Leave(w)
  PROVE  PcType' /\ Ownership'
<1>0. w \in Threads /\ pc[w] = "leave" /\ handle' = handle /\ Goto(w, "dead")
  BY DEF Threads, Leave
<1>1. Owns(w) /\ \A v \in Workers : pc[v] # "dead" => v = w
  BY <1>0 DEF Ownership, OneOperation, Owns
<1>2. operation_kind' = "none" /\ operation_thread' = None
  BY <1>1 DEF Leave, Owns
<1>3. \A d \in Callers : ~Deregistering(d) /\ pc[d] # "start"
  BY <1>0, <1>1 DEF Ownership, OneOperation, Owns, Starting
<1>4. PcType'
  BY <1>0, ThreadsAssumption DEF TypeOK, PcType, Threads, Goto
<1>5. pc'[w] = "dead" /\ \A u \in Threads : u # w => pc'[u] = pc[u]
  BY <1>0 DEF TypeOK, PcType, Goto
<1>6. /\ \A v \in Workers : pc'[v] = "dead"
      /\ \A d \in Callers : ~Deregistering(d)' /\ pc'[d] # "start"
  BY <1>1, <1>3, <1>5, ThreadsAssumption DEF Threads, Deregistering
<1>7. OneOperation' /\ ThreadOwns' /\ Starting'
  BY <1>2, <1>6 DEF OneOperation, ThreadOwns, Starting
<1> QED BY <1>4, <1>7 DEF Ownership

LEMMA ExitBeginKeepsOwner ==
  ASSUME TypeOK, Ownership, NEW e \in Exits, ExitBegin(e)
  PROVE  PcType' /\ Ownership'
<1>0. e \in Threads /\ Goto(e, "wake")
  BY DEF Threads, ExitBegin
<1>1. UNCHANGED <<operation_kind, operation_thread>> /\ \A c \in Callers : handle'[c] = handle[c]
  BY ThreadsAssumption DEF ExitBegin, operation, TypeOK, HandleType
<1>2. PcType'
  BY <1>0, ThreadsAssumption DEF TypeOK, PcType, Threads, Goto
<1>3. \A u \in Callers \cup Workers : pc'[u] = pc[u]
  BY <1>0, ThreadsAssumption DEF TypeOK, PcType, Goto, Threads
<1>4. \A c \in Callers : Deregistering(c)' <=> Deregistering(c)
  BY <1>3 DEF Deregistering
<1>5. OneOperation'
  BY <1>1, <1>3, <1>4 DEF Ownership, OneOperation, Owns
<1>6. ThreadOwns' /\ Starting'
  BY <1>1, <1>3 DEF Ownership, ThreadOwns, Starting
<1> QED BY <1>2, <1>5, <1>6 DEF Ownership

(***************************************************************************)
(* Types                                                                   *)
(***************************************************************************)
LEMMA ErrorTyped ==
  ASSUME RuntimeType
  PROVE  /\ ClearedIfConverged \in BOOLEAN
         /\ \A direction : AfterFailure(direction) \in BOOLEAN
         /\ \A t : RecordedError(t) \in BOOLEAN
<1>1. ClearedIfConverged \in BOOLEAN
  BY DEF RuntimeType, ClearedIfConverged
<1>2. \A direction : AfterFailure(direction) \in BOOLEAN
  BY <1>1 DEF AfterFailure
<1>3. last_error \in BOOLEAN
  BY DEF RuntimeType
<1> QED BY <1>1, <1>2, <1>3 DEF RecordedError

LEMMA LatestNeededTyped == LatestNeeded \in Directions
  BY DEF LatestNeeded, Directions

(* _AppRuntimeState, one lemma per kind of thread *)
LEMMA PrepareRegisterKeepsRuntimeType ==
  ASSUME TypeOK, NEW c, NEW b, PrepareRegister(c, b)
  PROVE  RuntimeType'
<1>1. target_registered' \in BOOLEAN /\ operation_generation' \in Nat /\ operation_wakeup' \in BOOLEAN
  BY DEF TypeOK, RuntimeType, PrepareRegister, TargetRegistered
<1>2. /\ operation_kind' \in Directions \cup {"none"} /\ operation_thread' \in Workers \cup {None}
      /\ last_error' \in BOOLEAN
  BY DEF TypeOK, RuntimeType, PrepareRegister, NoWorkerNeeded, WorkerNotCreated, WorkerCreated,
         Directions
<1>3. UNCHANGED <<registered, registered_identity, shutting_down, client>>
  BY DEF PrepareRegister
<1> QED BY <1>1, <1>2, <1>3 DEF TypeOK, RuntimeType

LEMMA CallerKeepsRuntimeType ==
  ASSUME TypeOK, NEW c \in Callers,
         \/ RegisterCommand(c) \/ StartThread(c) \/ StartFails(c) \/ DeregisterCommand(c)
         \/ Wake(c) \/ Settle(c) \/ Reschedule(c)
  PROVE  RuntimeType'
<1> USE DEF TypeOK, RuntimeType
<1>1. CASE RegisterCommand(c)
  BY <1>1, PrepareRegisterKeepsRuntimeType DEF RegisterCommand
<1>2. CASE StartThread(c)
  BY <1>2 DEF StartThread, targets, operation
<1>3. CASE StartFails(c)
  <2>1. last_error' \in BOOLEAN
    BY <1>3, ErrorTyped DEF StartFails
  <2>2. operation_kind' \in Directions \cup {"none"} /\ operation_thread' \in Workers \cup {None}
    BY <1>3 DEF StartFails
  <2> QED BY <1>3, <2>1, <2>2 DEF StartFails
<1>4. CASE DeregisterCommand(c)
  <2>1. operation_generation' \in Nat
    BY <1>4 DEF DeregisterCommand
  <2>2. operation_kind' \in Directions \cup {"none"} /\ operation_thread' \in Workers \cup {None}
    BY <1>4 DEF DeregisterCommand, Directions
  <2>3. target_registered' \in BOOLEAN /\ last_error' \in BOOLEAN
    BY <1>4 DEF DeregisterCommand
  <2> QED BY <1>4, <2>1, <2>2, <2>3 DEF DeregisterCommand
<1>5. CASE Wake(c)
  BY <1>5 DEF Wake, targets
<1>6. CASE Settle(c)
  <2>1. operation_kind' \in Directions \cup {"none"} /\ last_error' \in BOOLEAN
    BY <1>6, ErrorTyped DEF Settle
  <2> QED BY <1>6, <2>1 DEF Settle
<1>7. CASE Reschedule(c)
  BY <1>7, PrepareRegisterKeepsRuntimeType DEF Reschedule, targets, operation
<1> QED BY <1>1, <1>2, <1>3, <1>4, <1>5, <1>6, <1>7

LEMMA WorkerKeepsRuntimeType ==
  ASSUME TypeOK, NEW w \in Workers,
         \/ Top(w) \/ WaitSnapshot(w) \/ WaitClear(w) \/ WaitRecheck(w) \/ WaitWoken(w)
         \/ WaitTimesOut(w) \/ WaitRaises(w) \/ Recheck(w) \/ Prepare(w) \/ PrepareFails(w)
         \/ After(w) \/ Record(w) \/ Decide(w)
  PROVE  RuntimeType'
<1>1. UNCHANGED <<target_registered, registered, registered_identity, operation_kind,
                  operation_thread, operation_generation, shutting_down>>
  BY DEF Top, WaitSnapshot, WaitClear, WaitRecheck, WaitWoken, WaitTimesOut, WaitRaises,
         Recheck, Prepare, PrepareFails, After, Record, Decide, WorkerFrame
<1>2. last_error' \in BOOLEAN
  BY ErrorTyped
  DEF Top, WaitSnapshot, WaitClear, WaitRecheck, WaitWoken, WaitTimesOut, WaitRaises,
      Recheck, Prepare, PrepareFails, After, Record, Decide, TypeOK, RuntimeType
<1>3. operation_wakeup' \in BOOLEAN
  BY DEF Top, WaitSnapshot, WaitClear, WaitRecheck, WaitWoken, WaitTimesOut, WaitRaises,
         Recheck, Prepare, PrepareFails, After, Record, Decide, TypeOK, RuntimeType
<1>4. client' \in BOOLEAN
  BY DEF Top, WaitSnapshot, WaitClear, WaitRecheck, WaitWoken, WaitTimesOut, WaitRaises,
         Recheck, Prepare, PrepareFails, After, Record, Decide, TypeOK, RuntimeType
<1> QED BY <1>1, <1>2, <1>3, <1>4 DEF TypeOK, RuntimeType

LEMMA LeaveKeepsRuntimeType ==
  ASSUME TypeOK, NEW w \in Workers, Leave(w)
  PROVE  RuntimeType'
<1>1. last_error' \in BOOLEAN
  BY ErrorTyped DEF Leave, TypeOK, RuntimeType
<1>2. operation_kind' \in Directions \cup {"none"} /\ operation_thread' \in Workers \cup {None}
  BY DEF Leave, TypeOK, RuntimeType
<1> QED BY <1>1, <1>2 DEF Leave, TypeOK, RuntimeType

LEMMA RpcKeepsRuntimeType ==
  ASSUME TypeOK, NEW t \in Threads, NamingRpc(t)
  PROVE  RuntimeType'
<1>1. UNCHANGED <<target_registered, operation_kind, operation_thread, operation_generation,
                  operation_wakeup, shutting_down, client>>
  BY DEF NamingRpc, Acquire, EventFails, Claim, Publish, CallSucceeds, CallFails, Commit, Finish,
         targets, operation
<1>2. last_error' \in BOOLEAN
  BY ErrorTyped
  DEF NamingRpc, Acquire, EventFails, Claim, Publish, CallSucceeds, CallFails, Commit, Finish,
      targets, TypeOK, RuntimeType
<1>3. registered' \in BOOLEAN
  BY DEF NamingRpc, Acquire, EventFails, Claim, Publish, CallSucceeds, CallFails, Commit, Finish,
         Committed, targets, TypeOK, RuntimeType
<1>4. registered_identity' \in Identities \cup {None}
  BY DEF NamingRpc, Acquire, EventFails, Claim, Publish, CallSucceeds, CallFails, Commit, Finish,
         Committed, targets, TypeOK, RuntimeType, NamingType
<1> QED BY <1>1, <1>2, <1>3, <1>4 DEF TypeOK, RuntimeType

LEMMA ExitKeepsRuntimeType ==
  ASSUME TypeOK, NEW e \in Exits,
         ExitBegin(e) \/ ExitWake(e) \/ ExitWaited(e) \/ ExitTimesOut(e) \/ ExitCheck(e)
  PROVE  RuntimeType'
  BY DEF ExitBegin, ExitWake, ExitWaited, ExitTimesOut, ExitCheck, targets, operation,
         TypeOK, RuntimeType

(* The network lock, the calls and what Nacos holds *)
LockHeld ==
    \A t \in Threads : pc[t] \in {"claim", "call", "commit"} =>
        network_lock = t /\ actual_identity[t] \in Identities

LEMMA RpcKeepsNamingType ==
  ASSUME TypeOK, LockHeld, NEW t \in Threads, NamingRpc(t)
  PROVE  NamingType'
<1> USE DEF TypeOK, NamingType
<1>1. CASE Acquire(t)
  <2> DEFINE identity == IF RpcType(t) = "register" THEN worker[t].identity
                         ELSE registered_identity
  <2>1. identity \in Identities \cup {None}
    BY ThreadsAssumption DEF RpcType, WorkerType, WorkerLocals, RuntimeType
  <2>2. network_lock' \in Threads \cup {None}
    BY <1>1 DEF Acquire, GiveUp
  <2>3. actual_identity' \in [Threads -> Identities \cup {None}]
    BY <1>1, <2>1 DEF Acquire, GiveUp
  <2>4. outcome' \in [Threads -> FailureClasses \cup {"none", "succeeded", "skipped"}]
    BY <1>1 DEF Acquire, GiveUp, FailureClasses
  <2> QED BY <1>1, <2>2, <2>3, <2>4 DEF Acquire, external
<1>2. CASE EventFails(t)
  BY <1>2 DEF EventFails, GiveUp, external
<1>3. CASE Claim(t)
  BY <1>3 DEF Claim, Publish, GiveUp, external
<1>4. CASE CallSucceeds(t)
  BY <1>4 DEF CallSucceeds, Applied, naming, LockHeld
<1>5. CASE CallFails(t)
  BY <1>5 DEF CallFails, Applied, naming, LockHeld
<1>6. CASE Commit(t)
  BY <1>6 DEF Commit, locals, external
<1>7. CASE Finish(t)
  BY <1>7 DEF Finish, MetadataAfter, external
<1> QED BY <1>1, <1>2, <1>3, <1>4, <1>5, <1>6, <1>7 DEF NamingRpc

LEMMA CallerKeepsNamingType ==
  ASSUME TypeOK, NEW c \in Callers,
         \/ RegisterCommand(c) \/ StartThread(c) \/ StartFails(c) \/ DeregisterCommand(c)
         \/ Wake(c) \/ Settle(c) \/ Reschedule(c)
  PROVE  NamingType'
<1>1. /\ UNCHANGED <<network_lock, naming_rpc, unset_events, actual_identity, server, doubtful>>
      /\ outcome' = outcome \/ outcome' = [outcome EXCEPT ![c] = "none"]
  BY DEF RegisterCommand, StartThread, StartFails, DeregisterCommand, Wake, Settle, Reschedule,
         PrepareRegister, naming, locals, external
<1> QED BY <1>1 DEF TypeOK, NamingType

LEMMA WorkerKeepsNamingType ==
  ASSUME TypeOK, NEW w \in Workers,
         \/ Top(w) \/ WaitSnapshot(w) \/ WaitClear(w) \/ WaitRecheck(w) \/ WaitWoken(w)
         \/ WaitTimesOut(w) \/ WaitRaises(w) \/ Recheck(w) \/ Prepare(w) \/ PrepareFails(w)
         \/ After(w) \/ Record(w) \/ Decide(w) \/ Leave(w)
  PROVE  NamingType'
<1>1. UNCHANGED <<network_lock, naming_rpc, unset_events, actual_identity, server, doubtful>>
  BY DEF Top, WaitSnapshot, WaitClear, WaitRecheck, WaitWoken, WaitTimesOut, WaitRaises, Recheck,
         Prepare, PrepareFails, After, Record, Decide, Leave, WorkerFrame, naming, external
<1>2. outcome' \in [Threads -> FailureClasses \cup {"none", "succeeded", "skipped"}]
  BY DEF Top, WaitSnapshot, WaitClear, WaitRecheck, WaitWoken, WaitTimesOut, WaitRaises, Recheck,
         Prepare, PrepareFails, After, Record, Decide, Leave, TypeOK, NamingType
<1> QED BY <1>1, <1>2 DEF TypeOK, NamingType

LEMMA ExitKeepsNamingType ==
  ASSUME TypeOK, NEW e \in Exits,
         ExitBegin(e) \/ ExitWake(e) \/ ExitWaited(e) \/ ExitTimesOut(e) \/ ExitCheck(e)
  PROVE  NamingType'
  BY DEF ExitBegin, ExitWake, ExitWaited, ExitTimesOut, ExitCheck, naming, locals, external,
         TypeOK, NamingType

(* The locals of the worker *)
AttemptsInv == \A w \in Workers : worker[w].attempts < MaxAttempts \/ worker[w].recovering

LEMMA WorkerLocalsTyped ==
  ASSUME TypeOK, AttemptsInv, NEW w \in Workers
  PROVE  /\ FreshWorker \in WorkerLocals
         /\ Redirected(w) \in WorkerLocals
         /\ NextRound(w) \in WorkerLocals
         /\ Decided(w) \in WorkerLocals
<1>0. worker[w] \in WorkerLocals /\ 0 \in 0 .. MaxAttempts
  BY ConfigAssumption DEF TypeOK, WorkerType
<1>1. FreshWorker \in WorkerLocals
  BY <1>0 DEF FreshWorker, WorkerLocals
<1>2. Redirected(w) \in WorkerLocals
  BY <1>0, LatestNeededTyped DEF Redirected, WorkerLocals
<1>3. NextRound(w) \in WorkerLocals
  BY <1>0 DEF NextRound, WorkerLocals
<1>4. Decided(w) \in WorkerLocals
  <2>1. CASE worker[w].recovering
    BY <1>0, <2>1 DEF Decided
  <2>2. CASE ~worker[w].recovering
    <3> DEFINE n == worker[w].attempts + 1
               b == ~AttemptsLeft(w)
    <3>1. n \in 0 .. MaxAttempts /\ b \in BOOLEAN
      BY <1>0, <2>2, ConfigAssumption DEF WorkerLocals, AttemptsInv
    <3>2. Decided(w) = [worker[w] EXCEPT !.attempts = n, !.recovering = b]
      BY <2>2 DEF Decided
    <3> HIDE DEF n, b
    <3> QED BY <1>0, <3>1, <3>2 DEF WorkerLocals
  <2> QED BY <2>1, <2>2
<1> QED BY <1>1, <1>2, <1>3, <1>4

LEMMA StepKeepsWorkerType ==
  ASSUME TypeOK, AttemptsInv, Next
  PROVE  WorkerType' /\ AttemptsInv'
<1> DEFINE Kept == worker' = worker
           Set(w, r) == worker' = [worker EXCEPT ![w] = r]
<1>0. \A w \in Workers : worker[w] \in WorkerLocals
  BY DEF TypeOK, WorkerType
<1>1. ASSUME Kept PROVE WorkerType' /\ AttemptsInv'
  BY <1>1 DEF TypeOK, WorkerType, AttemptsInv
<1>2. ASSUME NEW w \in Workers, NEW r \in WorkerLocals, Set(w, r),
             r.attempts < MaxAttempts \/ r.recovering
      PROVE  WorkerType' /\ AttemptsInv'
  BY <1>2 DEF TypeOK, WorkerType, AttemptsInv
<1>3. FreshWorker \in WorkerLocals /\ FreshWorker.attempts < MaxAttempts
  BY ConfigAssumption DEF FreshWorker, WorkerLocals
<1>4. ASSUME NEW c, NEW b, PrepareRegister(c, b) PROVE WorkerType' /\ AttemptsInv'
  <2>1. Kept \/ \E w \in Workers : Set(w, FreshWorker)
    BY <1>4 DEF PrepareRegister, NoWorkerNeeded, WorkerNotCreated, WorkerCreated
  <2> QED BY <1>1, <1>2, <1>3, <2>1
<1>5. ASSUME NEW c \in Callers, RegisterCommand(c) \/ DeregisterCommand(c) \/ CallerStep(c),
             ~NamingRpc(c)
      PROVE  WorkerType' /\ AttemptsInv'
  <2>1. Kept \/ \E b : PrepareRegister(c, b)
    BY <1>5 DEF RegisterCommand, DeregisterCommand, CallerStep, StartThread, StartFails, Wake,
                Settle, Reschedule, locals
  <2> QED BY <1>1, <1>4, <2>1
<1>6. ASSUME NEW t \in Threads, NamingRpc(t) PROVE Kept
  BY <1>6 DEF NamingRpc, Acquire, EventFails, Claim, Publish, CallSucceeds, CallFails, Commit, Finish,
              locals
<1>7. ASSUME NEW e \in Exits, ExitBegin(e) \/ ExitStep(e), ~NamingRpc(e) PROVE Kept
  BY <1>7 DEF ExitBegin, ExitStep, ExitWake, ExitWaited, ExitTimesOut, ExitCheck, locals
<1>8. ASSUME NEW w \in Workers, WorkerStep(w), ~NamingRpc(w)
      PROVE  WorkerType' /\ AttemptsInv'
  <2>1. CASE \/ WaitClear(w) \/ WaitRecheck(w) \/ WaitWoken(w) \/ WaitTimesOut(w)
             \/ WaitRaises(w) \/ Recheck(w) \/ PrepareFails(w) \/ Record(w)
    <3>1. Kept
      BY <2>1 DEF WaitClear, WaitRecheck, WaitWoken, WaitTimesOut, WaitRaises, Recheck, PrepareFails,
                  Record
    <3> QED BY <1>1, <3>1
  <2>2. CASE Top(w)
    <3>1. Kept \/ Set(w, Redirected(w))
      BY <2>2 DEF Top
    <3>2. Redirected(w).attempts < MaxAttempts \/ Redirected(w).recovering
      BY <1>0, ConfigAssumption DEF Redirected, AttemptsInv, WorkerLocals
    <3> QED BY <1>1, <1>2, <3>1, <3>2, WorkerLocalsTyped
  <2>3. CASE WaitSnapshot(w)
    <3> DEFINE r == [worker[w] EXCEPT !.generation = operation_generation,
                                      !.target = target_registered]
    <3>1. Kept \/ Set(w, r)
      BY <2>3 DEF WaitSnapshot
    <3>2. r \in WorkerLocals /\ (r.attempts < MaxAttempts \/ r.recovering)
      BY <1>0 DEF TypeOK, RuntimeType, WorkerLocals, AttemptsInv
    <3> QED BY <1>1, <1>2, <3>1, <3>2
  <2>4. CASE Prepare(w)
    <3>1. Kept \/ \E i \in Identities : Set(w, [worker[w] EXCEPT !.identity = i])
      BY <2>4 DEF Prepare
    <3>2. ASSUME NEW i \in Identities
          PROVE  LET r == [worker[w] EXCEPT !.identity = i]
                 IN  r \in WorkerLocals /\ (r.attempts < MaxAttempts \/ r.recovering)
      BY <1>0 DEF WorkerLocals, AttemptsInv
    <3> QED BY <1>1, <1>2, <3>1, <3>2
  <2>5. CASE After(w)
    <3>1. Kept \/ Set(w, NextRound(w))
      BY <2>5 DEF After
    <3>2. NextRound(w).attempts < MaxAttempts \/ NextRound(w).recovering
      BY <1>0, ConfigAssumption DEF NextRound, AttemptsInv, WorkerLocals
    <3> QED BY <1>1, <1>2, <3>1, <3>2, WorkerLocalsTyped
  <2>6. CASE Decide(w)
    <3>1. Kept \/ Set(w, Decided(w))
      BY <2>6 DEF Decide
    <3>2. Decided(w).attempts < MaxAttempts \/ Decided(w).recovering
      BY <1>0, ConfigAssumption DEF Decided, AttemptsLeft, AttemptsInv, WorkerLocals
    <3> QED BY <1>1, <1>2, <3>1, <3>2, WorkerLocalsTyped
  <2>7. CASE Leave(w)
    <3>1. Set(w, FreshWorker)
      BY <2>7 DEF Leave
    <3> QED BY <1>2, <1>3, <3>1
  <2> QED BY <1>8, <2>1, <2>2, <2>3, <2>4, <2>5, <2>6, <2>7 DEF WorkerStep
<1> QED
  BY <1>1, <1>5, <1>6, <1>7, <1>8 DEF Next, CallerStep, WorkerStep, ExitStep, Threads

LEMMA StepKeepsHandleType ==
  ASSUME TypeOK, Next
  PROVE  HandleType'
<1> USE DEF TypeOK, HandleType
<1>1. ASSUME NEW c \in Callers, NEW b, PrepareRegister(c, b) PROVE HandleType'
  BY <1>1 DEF PrepareRegister, NoWorkerNeeded, WorkerNotCreated, WorkerCreated, Threads
<1>2. ASSUME NEW c \in Callers, RegisterCommand(c) \/ DeregisterCommand(c) \/ CallerStep(c),
             ~NamingRpc(c)
      PROVE  HandleType'
  <2>1. \/ handle' = handle \/ handle' = [handle EXCEPT ![c] = None]
        \/ \E b : PrepareRegister(c, b)
    BY <1>2 DEF RegisterCommand, DeregisterCommand, CallerStep, StartThread, StartFails, Wake,
                Settle, Reschedule, locals
  <2> QED BY <1>1, <2>1
<1>3. ASSUME NEW t \in Threads, NamingRpc(t) PROVE handle' = handle
  BY <1>3, RpcMovesOn DEF MovesOn
<1>4. ASSUME NEW e \in Exits, ExitBegin(e) PROVE HandleType'
  BY <1>4 DEF ExitBegin, Snapshot, NamingType
<1>5. ASSUME NEW e \in Exits, ExitStep(e), ~NamingRpc(e) PROVE handle' = handle
  BY <1>5, OtherMovesOn DEF ExitStep, MovesOn
<1>6. ASSUME NEW w \in Workers, WorkerStep(w), ~NamingRpc(w) PROVE handle' = handle
  BY <1>6, WorkerMovesOn DEF WorkerStep, MovesOn, Leave
<1> QED
  BY <1>2, <1>3, <1>4, <1>5, <1>6 DEF Next, CallerStep, WorkerStep, ExitStep, Threads

LEMMA StepKeepsHistoryType ==
  ASSUME TypeOK, Next
  PROVE  HistoryType'
<1> USE DEF TypeOK, HistoryType, Directions, Fail
<1>1. ASSUME NEW c \in Callers, RegisterCommand(c) \/ DeregisterCommand(c) \/ CallerStep(c),
             ~NamingRpc(c)
      PROVE  HistoryType'
  <2>1. ASSUME NEW b, PrepareRegister(c, b) PROVE failures' \in {failures, failures + 1}
    BY <2>1 DEF PrepareRegister, NoWorkerNeeded, WorkerNotCreated, WorkerCreated
  <2>2. /\ last_command' \in Directions \cup {last_command}
        /\ calls' \in {calls, calls + 1}
    BY <1>1 DEF RegisterCommand, DeregisterCommand, CallerStep, StartThread, StartFails, Wake,
                Settle, Reschedule, history
  <2>3. failures' \in {failures, failures + 1}
    BY <1>1, <2>1 DEF RegisterCommand, DeregisterCommand, CallerStep, StartThread, StartFails,
                      Wake, Settle, Reschedule, history
  <2> QED BY <2>2, <2>3
<1>2. ASSUME NEW t \in Threads, NamingRpc(t) PROVE HistoryType'
  BY <1>2 DEF NamingRpc, Acquire, EventFails, Claim, Publish, CallSucceeds, CallFails, Commit, Finish,
              history
<1>3. ASSUME NEW e \in Exits, ExitBegin(e) \/ ExitStep(e), ~NamingRpc(e) PROVE HistoryType'
  BY <1>3 DEF ExitBegin, ExitStep, ExitWake, ExitWaited, ExitTimesOut, ExitCheck, history
<1>4. ASSUME NEW w \in Workers, WorkerStep(w), ~NamingRpc(w) PROVE HistoryType'
  BY <1>4 DEF WorkerStep, Top, WaitSnapshot, WaitClear, WaitRecheck, WaitWoken, WaitTimesOut,
              WaitRaises, Recheck, Prepare, PrepareFails, After, Record, Decide, Leave,
              WorkerFrame, history
<1> QED
  BY <1>1, <1>2, <1>3, <1>4 DEF Next, CallerStep, WorkerStep, ExitStep, Threads

(***************************************************************************)
(* One Naming RPC, and the exit handler                                    *)
(***************************************************************************)
NamingInv == LockHeld /\ OneNamingRpc

ExitInv ==
    /\ \A e \in Exits : pc[e] # "idle" =>
          shutting_down /\ \A f \in Exits : pc[f] # "idle" => e = f
    /\ \A e \in Exits : pc[e] \in {"wake", "await"} =>
          \A t \in Threads : pc[t] \in {"call", "commit"} => handle[e] = t
    /\ \A e \in Exits : pc[e] \in RpcPcs \cup {"check"} \/ (pc[e] = "exited" /\ DeregisterOnExit) =>
          \A t \in Threads \ {e} : pc[t] \notin {"call", "commit"}

(* A step outside the calls: none begins, moves or ends. *)
CallsUntouched ==
    /\ UNCHANGED <<network_lock, naming_rpc, unset_events, actual_identity>>
    /\ \A t \in Threads : pc'[t] \in {"claim", "call", "commit"} => pc'[t] = pc[t]

ExitsUntouched ==
    /\ UNCHANGED shutting_down
    /\ \A e \in Exits : pc'[e] = pc[e] /\ handle'[e] = handle[e]

LEMMA UntouchedNaming ==
  ASSUME NamingInv, CallsUntouched
  PROVE  NamingInv'
  BY DEF NamingInv, LockHeld, OneNamingRpc, CallsUntouched

LEMMA UntouchedExits ==
  ASSUME ExitInv, CallsUntouched, ExitsUntouched
  PROVE  ExitInv'
  BY DEF ExitInv, CallsUntouched, ExitsUntouched

LEMMA GotoSets ==
  ASSUME TypeOK, NEW t \in Threads, NEW l, Goto(t, l)
  PROVE  pc'[t] = l /\ \A u \in Threads : u # t => pc'[u] = pc[u]
  BY DEF TypeOK, PcType, Goto

LEMMA PrepareRegisterUntouched ==
  ASSUME TypeOK, NEW c \in Callers, NEW b, PrepareRegister(c, b)
  PROVE  CallsUntouched /\ ExitsUntouched
<1>0. c \in Threads
  BY DEF Threads
<1>1. UNCHANGED <<network_lock, naming_rpc, unset_events, actual_identity, shutting_down>>
  BY DEF PrepareRegister, naming
<1>2. CASE NoWorkerNeeded(c) \/ WorkerNotCreated(c)
  <2>1. Goto(c, "idle") /\ handle' = handle
    BY <1>2 DEF NoWorkerNeeded, WorkerNotCreated
  <2> QED
    BY <1>0, <1>1, <2>1, GotoSets, ThreadsAssumption DEF CallsUntouched, ExitsUntouched, Threads
<1>3. CASE WorkerCreated(c)
  <2>1. PICK w \in Workers : /\ handle' = [handle EXCEPT ![c] = w]
                             /\ pc' = [pc EXCEPT ![c] = "start", ![w] = "created"]
    BY <1>3 DEF WorkerCreated
  <2>2. \A u \in Threads : \/ pc'[u] = pc[u] /\ u # c
                           \/ u \in {c, w} /\ pc'[u] \in {"start", "created"}
    BY <2>1, ThreadsAssumption DEF TypeOK, PcType, Threads
  <2>3. \A e \in Exits : pc'[e] = pc[e] /\ handle'[e] = handle[e]
    BY <2>1, <2>2, ThreadsAssumption DEF TypeOK, HandleType, Threads
  <2> QED BY <1>1, <2>2, <2>3 DEF CallsUntouched, ExitsUntouched
<1> QED BY <1>2, <1>3 DEF PrepareRegister

LEMMA CallerUntouched ==
  ASSUME TypeOK, Starting, NEW c \in Callers,
         \/ RegisterCommand(c) \/ StartThread(c) \/ StartFails(c) \/ DeregisterCommand(c)
         \/ Wake(c) \/ Settle(c) \/ Reschedule(c)
  PROVE  CallsUntouched /\ ExitsUntouched
<1>0. c \in Threads
  BY DEF Threads
<1>1. CASE \E b : PrepareRegister(c, b)
  BY <1>1, PrepareRegisterUntouched
<1>2. CASE StartThread(c) \/ StartFails(c)
  <2>1. PICK l \in {"top", "dead"} : pc' = [pc EXCEPT ![c] = "idle", ![handle[c]] = l]
    BY <1>2 DEF StartThread, StartFails
  <2>2. handle[c] \in Workers /\ handle' = [handle EXCEPT ![c] = None]
    BY <1>2 DEF StartThread, StartFails, Starting
  <2>3. UNCHANGED <<network_lock, naming_rpc, unset_events, actual_identity, shutting_down>>
    BY <1>2 DEF StartThread, StartFails, naming
  <2>4. \A u \in Threads : \/ pc'[u] = pc[u] /\ u # c
                           \/ u \in {c, handle[c]} /\ pc'[u] \in {"idle", "top", "dead"}
    BY <2>1, <2>2, ThreadsAssumption DEF TypeOK, PcType, Threads
  <2>5. \A e \in Exits : pc'[e] = pc[e] /\ handle'[e] = handle[e]
    BY <2>2, <2>4, ThreadsAssumption DEF TypeOK, HandleType, Threads
  <2> QED BY <2>3, <2>4, <2>5 DEF CallsUntouched, ExitsUntouched
<1>3. ASSUME DeregisterCommand(c) \/ Wake(c) \/ Settle(c) \/ Reschedule(c),
             ~\E b : PrepareRegister(c, b)
      PROVE  CallsUntouched /\ ExitsUntouched
  <2>1. \E l \in {"wake_sync", "wake_return", "acquire", "idle", "reschedule"} : Goto(c, l)
    BY <1>3 DEF DeregisterCommand, Wake, Settle, Reschedule
  <2>2. UNCHANGED <<network_lock, naming_rpc, unset_events, actual_identity, shutting_down, handle>>
    BY <1>3 DEF DeregisterCommand, Wake, Settle, Reschedule, naming, locals
  <2> QED
    BY <1>0, <2>1, <2>2, GotoSets, ThreadsAssumption DEF CallsUntouched, ExitsUntouched, Threads
<1> QED BY <1>1, <1>2, <1>3 DEF RegisterCommand

LEMMA WorkerUntouched ==
  ASSUME TypeOK, NEW w \in Workers, WorkerStep(w), ~NamingRpc(w)
  PROVE  CallsUntouched /\ ExitsUntouched
<1>0. w \in Threads
  BY DEF Threads
<1>1. UNCHANGED <<network_lock, naming_rpc, unset_events, actual_identity, shutting_down, handle>>
  BY DEF WorkerStep, Top, WaitSnapshot, WaitClear, WaitRecheck, WaitWoken, WaitTimesOut,
         WaitRaises, Recheck, Prepare, PrepareFails, After, Record, Decide, Leave, WorkerFrame,
         naming
<1>2. \E l \in WorkerPcs \cup {"acquire"} : Goto(w, l)
  BY DEF WorkerStep, Top, WaitSnapshot, WaitClear, WaitRecheck, WaitWoken, WaitTimesOut,
         WaitRaises, Recheck, Prepare, PrepareFails, After, Record, Decide, Leave
<1> QED
  BY <1>0, <1>1, <1>2, GotoSets, ThreadsAssumption DEF CallsUntouched, ExitsUntouched, Threads

LEMMA RpcKeepsNaming ==
  ASSUME TypeOK, NamingInv, NEW t \in Threads, NamingRpc(t)
  PROVE  NamingInv'
<1> USE DEF NamingInv, LockHeld, OneNamingRpc
<1>1. CASE Acquire(t)
  <2>1. PICK l \in {"claim", Return(t)} : Goto(t, l)
    BY <1>1 DEF Acquire, GiveUp
  <2>2. pc'[t] = l /\ \A u \in Threads : u # t => pc'[u] = pc[u]
    BY <2>1, GotoSets
  <2>3. \A u \in Threads : pc[u] \notin {"claim", "call", "commit"}
    BY <1>1, ThreadsAssumption DEF Acquire
  <2>4. ASSUME pc'[t] = "claim"
        PROVE  network_lock' = t /\ actual_identity'[t] \in Identities
    <3> DEFINE identity == IF RpcType(t) = "register" THEN worker[t].identity
                           ELSE registered_identity
    <3>1. /\ network_lock' = t /\ identity # None
          /\ actual_identity' = [actual_identity EXCEPT ![t] = identity]
      <4>1. Return(t) # "claim"
        BY DEF Return
      <4> QED BY <1>1, <2>4, <4>1, GotoSets DEF Acquire, GiveUp
    <3>2. identity \in Identities \cup {None}
      BY ThreadsAssumption DEF RpcType, TypeOK, WorkerType, WorkerLocals, RuntimeType
    <3> QED BY <3>1, <3>2 DEF TypeOK, NamingType
  <2> QED BY <2>2, <2>3, <2>4 DEF Return
<1>2. CASE EventFails(t) \/ (Claim(t) /\ ~Needed(t))
  <2>1. PICK class : GiveUp(t, class)
    BY <1>2 DEF EventFails, Claim, Publish
  <2>2. pc'[t] = Return(t) /\ \A u \in Threads : u # t => pc'[u] = pc[u]
    BY <2>1, GotoSets DEF GiveUp
  <2>3. \A u \in Threads : u # t => pc[u] \notin {"claim", "call", "commit"}
    BY <1>2 DEF EventFails, Claim, Publish
  <2> QED BY <2>2, <2>3 DEF Return
<1>3. CASE Claim(t) /\ Needed(t)
  <2>1. pc'[t] = "call" /\ \A u \in Threads : u # t => pc'[u] = pc[u]
    BY <1>3, GotoSets DEF Claim, Publish
  <2>2. \A u \in Threads : u # t => pc[u] \notin {"claim", "call", "commit"}
    BY <1>3 DEF Claim, Publish
  <2> QED BY <1>3, <2>1, <2>2 DEF Claim, Publish
<1>4. CASE CallSucceeds(t) \/ CallFails(t)
  <2>1. pc'[t] = "commit" /\ \A u \in Threads : u # t => pc'[u] = pc[u]
    BY <1>4, GotoSets DEF CallSucceeds, CallFails
  <2> QED BY <1>4, <2>1 DEF CallSucceeds, CallFails, naming
<1>5. CASE Commit(t)
  <2>1. pc'[t] = "finish" /\ \A u \in Threads : u # t => pc'[u] = pc[u]
    BY <1>5, GotoSets DEF Commit
  <2>2. \A u \in Threads : u # t => pc[u] \notin {"claim", "call", "commit"}
    BY <1>5 DEF Commit
  <2> QED BY <2>1, <2>2
<1>6. CASE Finish(t)
  <2>1. pc'[t] = Return(t) /\ \A u \in Threads : u # t => pc'[u] = pc[u]
    BY <1>6, GotoSets DEF Finish
  <2>2. \A u \in Threads : pc'[u] \in {"claim", "call", "commit"} => u # t
    BY <2>1 DEF Return
  <2>3. \A u \in Threads : u # t => actual_identity'[u] = actual_identity[u]
    BY <1>6 DEF Finish, TypeOK, NamingType
  <2>4. \A u \in Threads : u # t /\ naming_rpc = u => naming_rpc' = u
    BY <1>6 DEF Finish, MetadataAfter
  <2> QED BY <1>6, <2>1, <2>2, <2>3, <2>4 DEF Finish
<1> QED BY <1>1, <1>2, <1>3, <1>4, <1>5, <1>6 DEF NamingRpc

(* A call begins only while its gate is open: after the exit has begun,    *)
(* no thread but the exit itself makes one.                                *)
LEMMA RpcKeepsExits ==
  ASSUME TypeOK, NamingInv, ExitInv, NEW t \in Threads, NamingRpc(t)
  PROVE  ExitInv'
<1>0. shutting_down' = shutting_down /\ handle' = handle
  BY DEF NamingRpc, Acquire, EventFails, Claim, Publish, CallSucceeds, CallFails, Commit, Finish, locals
<1>1. PICK l \in RpcPcs \cup {Return(t)} : Goto(t, l)
  BY DEF NamingRpc, Acquire, EventFails, Claim, Publish, CallSucceeds, CallFails, Commit, Finish, GiveUp
<1>2. pc'[t] = l /\ \A u \in Threads : u # t => pc'[u] = pc[u]
  BY <1>1, GotoSets
<1>3. pc[t] \in RpcPcs
  BY RpcMovesOn
<1>4. ASSUME t \notin Exits, shutting_down, pc'[t] \in {"call", "commit"}
      PROVE  pc[t] \in {"call", "commit"}
  <2>1. ~Needed(t)
    BY <1>4 DEF Needed
  <2>2. CASE Claim(t)
    <3>1. pc'[t] = Return(t)
      BY <2>1, <2>2, GotoSets DEF Claim, Publish, GiveUp
    <3> QED BY <1>4, <3>1 DEF Return
  <2>3. CASE Acquire(t) \/ EventFails(t)
    <3>1. pc'[t] \in {"claim", Return(t)}
      BY <2>3, GotoSets DEF Acquire, EventFails, GiveUp
    <3> QED BY <1>4, <3>1 DEF Return
  <2>4. CASE CallSucceeds(t) \/ CallFails(t)
    BY <2>4 DEF CallSucceeds, CallFails
  <2>5. CASE Commit(t) \/ Finish(t)
    <3>1. pc'[t] \in {"finish", Return(t)}
      BY <2>5, GotoSets DEF Commit, Finish
    <3> QED BY <1>4, <3>1 DEF Return
  <2> QED BY <2>2, <2>3, <2>4, <2>5 DEF NamingRpc
<1>5. CASE t \notin Exits
  <2>1. \A e \in Exits : pc'[e] = pc[e] /\ e \in Threads
    BY <1>2, <1>5 DEF Threads
  <2>2. ASSUME NEW e \in Exits, pc[e] # "idle", NEW u \in Threads, pc'[u] \in {"call", "commit"}
        PROVE  pc[u] \in {"call", "commit"}
    BY <1>2, <1>4, <1>5, <2>2 DEF ExitInv
  <2> QED BY <1>0, <2>1, <2>2 DEF ExitInv
<1>6. CASE t \in Exits
  <2>1. /\ pc'[t] \in RpcPcs \cup {"exited"}
        /\ \A e \in Exits : pc'[e] # "idle" => e = t
        /\ shutting_down
    BY <1>2, <1>3, <1>6, ThreadsAssumption DEF ExitInv, Return, Threads
  <2>2. \A u \in Threads \ {t} : pc'[u] \notin {"call", "commit"}
    BY <1>2, <1>3, <1>6 DEF ExitInv
  <2> QED BY <1>0, <2>1, <2>2 DEF ExitInv
<1> QED BY <1>5, <1>6

LEMMA ExitKeepsExits ==
  ASSUME TypeOK, NamingInv, ExitInv, NEW e \in Exits,
         ExitBegin(e) \/ ExitWake(e) \/ ExitWaited(e) \/ ExitTimesOut(e) \/ ExitCheck(e)
  PROVE  CallsUntouched /\ ExitInv'
<1>0. e \in Threads
  BY DEF Threads
<1>1. PICK l \in {"wake", "await", "check", "exited", "gave_up", "acquire"} : Goto(e, l)
  BY DEF ExitBegin, ExitWake, ExitWaited, ExitTimesOut, ExitCheck
<1>2. pc'[e] = l /\ \A u \in Threads : u # e => pc'[u] = pc[u]
  BY <1>0, <1>1, GotoSets
<1>3. UNCHANGED <<network_lock, naming_rpc, unset_events, actual_identity>>
  BY DEF ExitBegin, ExitWake, ExitWaited, ExitTimesOut, ExitCheck, naming, locals
<1>4. CallsUntouched
  BY <1>2, <1>3 DEF CallsUntouched
<1>5. \A u \in Threads : pc'[u] \in {"call", "commit"} => pc[u] \in {"call", "commit"} /\ u # e
  BY <1>2
<1>6. \A f \in Exits : pc'[f] # "idle" => f = e
  BY <1>2 DEF ExitBegin, ExitWake, ExitWaited, ExitTimesOut, ExitCheck, ExitInv, Threads
<1>7. shutting_down'
  BY DEF ExitBegin, ExitWake, ExitWaited, ExitTimesOut, ExitCheck, ExitInv
<1>8. ASSUME l \in {"wake", "await"}, NEW u \in Threads, pc'[u] \in {"call", "commit"}
      PROVE  handle'[e] = u
  <2>1. CASE ExitBegin(e)
    BY <1>5, <1>8, <2>1 DEF ExitBegin, Snapshot, NamingInv, OneNamingRpc, TypeOK, HandleType
  <2>2. CASE ExitWake(e)
    BY <1>5, <1>8, <2>2 DEF ExitWake, ExitInv, locals
  <2>3. CASE ExitWaited(e) \/ ExitTimesOut(e) \/ ExitCheck(e)
    BY <1>2, <1>8, <2>3, GotoSets, <1>0 DEF ExitWaited, ExitTimesOut, ExitCheck
  <2> QED BY <2>1, <2>2, <2>3
<1>9. ASSUME l \in {"check", "acquire"} \/ (l = "exited" /\ DeregisterOnExit), NEW u \in Threads \ {e}
      PROVE  pc'[u] \notin {"call", "commit"}
  <2> SUFFICES ASSUME pc[u] \in {"call", "commit"} PROVE FALSE
    BY <1>5
  <2>1. CASE ExitBegin(e)
    BY <1>0, <1>2, <1>9, <2>1, GotoSets DEF ExitBegin
  <2>2. CASE ExitWake(e)
    <3>1. handle[e] = u
      BY <2>2 DEF ExitWake, ExitInv
    <3>2. pc'[e] = "await"
      BY <1>0, <1>2, <1>9, <2>2, <3>1, GotoSets, ThreadsAssumption DEF ExitWake
    <3> QED BY <1>2, <1>9, <3>2
  <2>3. CASE ExitWaited(e)
    BY <2>3 DEF ExitWaited, ExitInv, NamingInv, OneNamingRpc
  <2>4. CASE ExitTimesOut(e)
    BY <1>0, <1>2, <1>9, <2>4, GotoSets DEF ExitTimesOut
  <2>5. CASE ExitCheck(e)
    BY <2>5 DEF ExitCheck, ExitInv
  <2> QED BY <2>1, <2>2, <2>3, <2>4, <2>5
<1>10. ExitInv'
  BY <1>2, <1>6, <1>7, <1>8, <1>9 DEF ExitInv
<1> QED BY <1>4, <1>10

(***************************************************************************)
(* The inductive invariant                                                 *)
(***************************************************************************)
IInv == TypeOK /\ AttemptsInv /\ Ownership /\ NamingInv /\ ExitInv

LEMMA IInvInit == Init => IInv
<1> SUFFICES ASSUME Init PROVE IInv OBVIOUS
<1> USE DEF Init
<1>1. PcType /\ Ownership
  BY OwnerInit
<1>2. RuntimeType /\ HistoryType
  BY DEF RuntimeType, HistoryType, Directions
<1>3. NamingType /\ HandleType
  BY DEF NamingType, HandleType
<1>4. WorkerType /\ AttemptsInv
  BY ConfigAssumption DEF WorkerType, WorkerLocals, AttemptsInv, FreshWorker
<1>5. \A t \in Threads : pc[t] \in {"dead", "idle"}
  OBVIOUS
<1>6. NamingInv
  BY <1>5 DEF NamingInv, LockHeld, OneNamingRpc
<1>7. \A e \in Exits : pc[e] = "idle"
  BY ThreadsAssumption DEF Threads
<1>8. ExitInv
  BY <1>7 DEF ExitInv
<1> QED BY <1>1, <1>2, <1>3, <1>4, <1>6, <1>8 DEF IInv, TypeOK

LEMMA IInvNext == IInv /\ [Next]_vars => IInv'
<1> SUFFICES ASSUME IInv, [Next]_vars PROVE IInv' OBVIOUS
<1> DEFINE Rest == PcType' /\ RuntimeType' /\ NamingType' /\ Ownership' /\ NamingInv' /\ ExitInv'
<1> USE DEF IInv
<1>1. ASSUME NEW t \in Threads, NamingRpc(t) PROVE Rest
  <2>1. PcType' /\ Ownership'
    BY <1>1, RpcMovesOn, MovesOnKeepsOwner
  <2>2. RuntimeType' /\ NamingType'
    BY <1>1, RpcKeepsRuntimeType, RpcKeepsNamingType DEF NamingInv
  <2>3. NamingInv' /\ ExitInv'
    BY <1>1, RpcKeepsNaming, RpcKeepsExits
  <2> QED BY <2>1, <2>2, <2>3
<1>2. ASSUME NEW c \in Callers, RegisterCommand(c) \/ DeregisterCommand(c) \/ CallerStep(c),
             ~NamingRpc(c)
      PROVE  Rest
  <2>0. \/ RegisterCommand(c) \/ StartThread(c) \/ StartFails(c) \/ DeregisterCommand(c)
        \/ Wake(c) \/ Settle(c) \/ Reschedule(c)
    BY <1>2 DEF CallerStep
  <2>1. PcType' /\ Ownership'
    <3>1. CASE RegisterCommand(c)
      BY <3>1, PrepareRegisterKeepsOwner DEF RegisterCommand
    <3>2. CASE StartThread(c) \/ StartFails(c)
      BY <3>2, StartThreadKeepsOwner
    <3>3. CASE DeregisterCommand(c)
      BY <3>3, DeregisterCommandKeepsOwner
    <3>4. CASE Wake(c)
      BY <3>4, OtherMovesOn, MovesOnKeepsOwner DEF Threads
    <3>5. CASE Settle(c)
      BY <3>5, SettleKeepsOwner
    <3>6. CASE Reschedule(c)
      <4>1. CASE shutting_down
        BY <3>6, <4>1, MovesOnKeepsOwner
        DEF Reschedule, MovesOn, SamePhase, Threads, operation, locals
      <4>2. CASE ~shutting_down
        BY <3>6, <4>2, PrepareRegisterKeepsOwner DEF Reschedule
      <4> QED BY <4>1, <4>2
    <3> QED BY <2>0, <3>1, <3>2, <3>3, <3>4, <3>5, <3>6
  <2>2. RuntimeType' /\ NamingType'
    BY <2>0, CallerKeepsRuntimeType, CallerKeepsNamingType
  <2>3. NamingInv' /\ ExitInv'
    BY <2>0, CallerUntouched, UntouchedNaming, UntouchedExits DEF Ownership
  <2> QED BY <2>1, <2>2, <2>3
<1>3. ASSUME NEW w \in Workers, WorkerStep(w), ~NamingRpc(w) PROVE Rest
  <2>1. PcType' /\ Ownership' /\ RuntimeType'
    <3>1. CASE Leave(w)
      BY <3>1, LeaveKeepsOwner, LeaveKeepsRuntimeType
    <3>2. CASE ~Leave(w)
      BY <1>3, <3>2, WorkerMovesOn, MovesOnKeepsOwner, WorkerKeepsRuntimeType
      DEF WorkerStep, Threads
    <3> QED BY <3>1, <3>2
  <2>2. NamingType'
    BY <1>3, WorkerKeepsNamingType DEF WorkerStep
  <2>3. NamingInv' /\ ExitInv'
    BY <1>3, WorkerUntouched, UntouchedNaming, UntouchedExits
  <2> QED BY <2>1, <2>2, <2>3
<1>4. ASSUME NEW e \in Exits, ExitBegin(e) \/ ExitStep(e), ~NamingRpc(e) PROVE Rest
  <2>0. ExitBegin(e) \/ ExitWake(e) \/ ExitWaited(e) \/ ExitTimesOut(e) \/ ExitCheck(e)
    BY <1>4 DEF ExitStep
  <2>1. PcType' /\ Ownership'
    BY <2>0, ExitBeginKeepsOwner, OtherMovesOn, MovesOnKeepsOwner DEF Threads
  <2>2. RuntimeType' /\ NamingType'
    BY <2>0, ExitKeepsRuntimeType, ExitKeepsNamingType
  <2>3. NamingInv' /\ ExitInv'
    BY <2>0, ExitKeepsExits, UntouchedNaming
  <2> QED BY <2>1, <2>2, <2>3
<1>5. CASE Next
  <2>1. Rest
    BY <1>1, <1>2, <1>3, <1>4, <1>5 DEF Next, CallerStep, WorkerStep, ExitStep, Threads
  <2>2. WorkerType' /\ AttemptsInv' /\ HandleType' /\ HistoryType'
    BY <1>5, StepKeepsWorkerType, StepKeepsHandleType, StepKeepsHistoryType
  <2> QED BY <2>1, <2>2 DEF TypeOK
<1>6. CASE UNCHANGED vars
  BY <1>6
  DEF vars, targets, operation, naming, locals, external, history, TypeOK, PcType, RuntimeType,
      NamingType, WorkerType, HandleType, HistoryType, AttemptsInv, Ownership, OneOperation,
      Owns, Deregistering, ThreadOwns, Starting, NamingInv, LockHeld, OneNamingRpc, ExitInv
<1> QED BY <1>5, <1>6

(***************************************************************************)
(* Theorems                                                                *)
(***************************************************************************)

(* The inductive invariant holds in every reachable state. *)
THEOREM Invariance == Spec => []IInv
  BY IInvInit, IInvNext, PTL DEF Spec

(* Every variable keeps its type, the attempts of a worker their bound. *)
THEOREM TypeCorrect == Spec => []TypeOK
  BY Invariance, PTL DEF IInv

(* README.md, "Only one lifecycle worker ... per application/PID": at most *)
(* one worker or one synchronous deregistration is under way, and          *)
(* operation_kind names it.                                                *)
THEOREM OneOperationAtATime == Spec => []OneOperation
  BY Invariance, PTL DEF IInv, Ownership

(* "... and one Naming RPC run per application/PID": calls exclude each    *)
(* other, and the metadata the exit handler reads is the running call's.   *)
THEOREM OneNamingRpcAtATime == Spec => []OneNamingRpc
  BY Invariance, PTL DEF IInv, NamingInv

(* The exit handler asks for the network lock only when no other thread is *)
(* in a Naming RPC: shutdown is bounded by the timeouts alone.             *)
THEOREM ExitDoesNotBlock == Spec => []ExitNeverBlocksOnRpc
<1>1. IInv => ExitNeverBlocksOnRpc
  BY DEF IInv, ExitInv, ExitNeverBlocksOnRpc
<1> QED BY <1>1, Invariance, PTL

(***************************************************************************)
(* The last error                                                          *)
(***************************************************************************)

(* An error that is recorded or kept by a failure is about an unmet        *)
(* target; the exit only keeps what is there.                              *)
LEMMA RecordedIsCurrent ==
  /\ ClearedIfConverged => ~Converged
  /\ \A direction : AfterFailure(direction) => ~Converged
  /\ \A t : RecordedError(t) => last_error \/ ~Converged
<1>1. ClearedIfConverged => ~Converged
  BY DEF ClearedIfConverged
<1>2. ASSUME NEW direction PROVE AfterFailure(direction) => ~Converged
  BY <1>1 DEF AfterFailure, Converged
<1> QED BY <1>1, <1>2 DEF RecordedError

LEMMA CallerKeepsNoStaleError ==
  ASSUME IInv, NoStaleError, NEW c \in Callers,
         \/ RegisterCommand(c) \/ StartThread(c) \/ StartFails(c) \/ DeregisterCommand(c)
         \/ Wake(c) \/ Settle(c) \/ Reschedule(c)
  PROVE  NoStaleError'
<1>1. ASSUME NEW b, PrepareRegister(c, b) PROVE NoStaleError'
  <2>1. target_registered' = TRUE /\ registered' = registered
    BY <1>1 DEF PrepareRegister, TargetRegistered
  <2>2. CASE NoWorkerNeeded(c)
    BY <2>1, <2>2 DEF NoWorkerNeeded, NoStaleError, Converged
  <2>3. CASE WorkerNotCreated(c)
    BY <2>1, <2>3 DEF WorkerNotCreated, Idle, NoStaleError, Converged
  <2>4. CASE WorkerCreated(c)
    BY <2>4 DEF WorkerCreated, NoStaleError
  <2> QED BY <1>1, <2>2, <2>3, <2>4 DEF PrepareRegister
<1>2. CASE StartFails(c)
  <2>1. UNCHANGED <<target_registered, registered>>
    BY <1>2 DEF StartFails
  <2>2. pc[c] = "start"
    BY <1>2 DEF StartFails
  <2>3. operation_thread = handle[c]
    BY <2>2 DEF IInv, Ownership, Starting, OneOperation, Owns
  <2>4. last_error' = AfterFailure("register")
    BY <1>2, <2>3 DEF StartFails, AfterFailure
  <2> QED BY <2>1, <2>4, RecordedIsCurrent DEF NoStaleError, Converged
<1>3. CASE DeregisterCommand(c)
  BY <1>3 DEF DeregisterCommand, NoStaleError, Converged
<1>4. CASE Settle(c)
  BY <1>4, RecordedIsCurrent DEF Settle, NoStaleError, Converged
<1>5. CASE StartThread(c) \/ Wake(c) \/ (Reschedule(c) /\ shutting_down)
  BY <1>5 DEF StartThread, Wake, Reschedule, targets, operation, NoStaleError, Converged
<1> QED BY <1>1, <1>2, <1>3, <1>4, <1>5 DEF RegisterCommand, Reschedule

LEMMA WorkerKeepsNoStaleError ==
  ASSUME IInv, NoStaleError, NEW w \in Workers, WorkerStep(w), ~NamingRpc(w)
  PROVE  NoStaleError'
<1>1. UNCHANGED <<target_registered, registered>>
  BY DEF WorkerStep, Top, WaitSnapshot, WaitClear, WaitRecheck, WaitWoken, WaitTimesOut,
         WaitRaises, Recheck, Prepare, PrepareFails, After, Record, Decide, Leave, WorkerFrame
<1>2. last_error' => last_error \/ ~Converged
  BY RecordedIsCurrent
  DEF WorkerStep, Top, WaitSnapshot, WaitClear, WaitRecheck, WaitWoken, WaitTimesOut,
      WaitRaises, Recheck, Prepare, PrepareFails, After, Record, Decide, Leave
<1>3. CASE Leave(w)
  <2>1. operation_thread = w
    BY <1>3 DEF Leave, IInv, Ownership, OneOperation, Owns
  <2> QED BY <1>1, <1>3, <2>1, RecordedIsCurrent DEF Leave, NoStaleError, Converged
<1>4. CASE ~Leave(w)
  BY <1>1, <1>2, <1>4, WorkerMovesOn DEF WorkerStep, MovesOn, NoStaleError, Converged
<1> QED BY <1>3, <1>4

LEMMA RpcKeepsNoStaleError ==
  ASSUME IInv, NoStaleError, NEW t \in Threads, NamingRpc(t)
  PROVE  NoStaleError'
<1>1. operation_kind' = operation_kind
  BY RpcMovesOn DEF MovesOn
<1>2. \/ last_error' = FALSE
      \/ /\ UNCHANGED <<target_registered, registered>>
         /\ last_error' => last_error \/ ~Converged
  BY RecordedIsCurrent
  DEF NamingRpc, Acquire, EventFails, Claim, CallSucceeds, CallFails, Commit, Finish, targets
<1> QED BY <1>1, <1>2 DEF NoStaleError, Converged

LEMMA ErrorInvariance == Spec => [](IInv /\ NoStaleError)
<1>1. Init => NoStaleError
  BY DEF Init, NoStaleError
<1>2. IInv /\ NoStaleError /\ [Next]_vars => NoStaleError'
  <2> SUFFICES ASSUME IInv, NoStaleError, [Next]_vars PROVE NoStaleError'
    OBVIOUS
  <2>1. ASSUME NEW e \in Exits, ExitBegin(e) \/ ExitStep(e), ~NamingRpc(e) PROVE NoStaleError'
    BY <2>1 DEF ExitBegin, ExitStep, ExitWake, ExitWaited, ExitTimesOut, ExitCheck, targets,
                operation, NoStaleError, Converged
  <2>2. CASE UNCHANGED vars
    BY <2>2 DEF vars, targets, operation, NoStaleError, Converged
  <2> QED
    BY <2>1, <2>2, CallerKeepsNoStaleError, WorkerKeepsNoStaleError, RpcKeepsNoStaleError
    DEF Next, CallerStep, WorkerStep, ExitStep, Threads
<1> QED BY <1>1, <1>2, Invariance, PTL DEF Spec

(***************************************************************************)
(* The wait of a worker                                                    *)
(***************************************************************************)

(* What a worker asleep may have missed was announced: the event is set or *)
(* a thread is about to set it.                                            *)
NothingMissed ==
    \A w \in Workers :
        pc[w] = "sleep" => operation_wakeup \/ Waking # {} \/ (~shutting_down /\ Unchanged(w))

(* The threads about to set the event stand where they stood. *)
SameWakers ==
    \A t \in Callers \cup Exits :
        pc[t] \in {"wake", "wake_sync", "wake_return"} => pc'[t] = pc[t]

LEMMA SleepersKept ==
  ASSUME NothingMissed, SameWakers, operation_wakeup => operation_wakeup',
         \A w \in Workers : pc'[w] = "sleep" => pc[w] = "sleep" /\ worker'[w] = worker[w],
         UNCHANGED <<operation_generation, target_registered, shutting_down>>
  PROVE  NothingMissed'
<1>1. Waking \subseteq Waking'
  BY DEF SameWakers, Waking
<1> QED BY <1>1 DEF NothingMissed, Unchanged

LEMMA CallerKeepsNothingMissed ==
  ASSUME IInv, NothingMissed, NEW c \in Callers,
         \/ RegisterCommand(c) \/ StartThread(c) \/ StartFails(c) \/ DeregisterCommand(c)
         \/ Wake(c) \/ Settle(c) \/ Reschedule(c)
  PROVE  NothingMissed'
<1>0. c \in Threads /\ \A t \in Callers \cup Workers \cup Exits : t \in Threads
  BY DEF Threads
<1>1. ASSUME NEW b, PrepareRegister(c, b), pc[c] \in {"idle", "reschedule"} PROVE NothingMissed'
  <2>1. CASE operation_wakeup'
    BY <2>1 DEF NothingMissed
  <2>2. CASE ~operation_wakeup'
    <3>1. ~operation_wakeup /\ UNCHANGED <<operation_generation, target_registered, shutting_down>>
      <4>1. ~(operation_wakeup \/ ~target_registered \/ (b /\ Idle))
        BY <1>1, <2>2 DEF PrepareRegister, TargetRegistered
      <4>2. target_registered' = TRUE /\ operation_generation' = operation_generation + 0
        BY <1>1, <4>1 DEF PrepareRegister, TargetRegistered
      <4>3. target_registered \in BOOLEAN /\ operation_generation \in Nat
        BY DEF IInv, TypeOK, RuntimeType
      <4>4. UNCHANGED shutting_down
        BY <1>1 DEF PrepareRegister
      <4>5. target_registered' = target_registered
        BY <4>1, <4>2, <4>3
      <4>6. operation_generation' = operation_generation
        BY <4>2, <4>3
      <4> QED BY <4>1, <4>4, <4>5, <4>6
    <3>2. /\ \A t \in Threads \ {c} : pc'[t] = pc[t] \/ (t \in Workers /\ pc'[t] = "created")
          /\ pc'[c] \in {"idle", "start"}
          /\ \A w \in Workers : worker'[w] = worker[w] \/ pc'[w] = "created"
      <4>1. CASE NoWorkerNeeded(c) \/ WorkerNotCreated(c)
        BY <1>0, <4>1, GotoSets DEF NoWorkerNeeded, WorkerNotCreated, IInv
      <4>2. CASE WorkerCreated(c)
        <5>1. PICK w \in Workers : /\ worker' = [worker EXCEPT ![w] = FreshWorker]
                                   /\ pc' = [pc EXCEPT ![c] = "start", ![w] = "created"]
          BY <4>2 DEF WorkerCreated
        <5> QED BY <1>0, <5>1, ThreadsAssumption DEF IInv, TypeOK, PcType, WorkerType
      <4> QED BY <1>1, <4>1, <4>2 DEF PrepareRegister
    <3>3. SameWakers
      BY <1>0, <1>1, <3>2, ThreadsAssumption DEF SameWakers
    <3> QED BY <1>0, <3>1, <3>2, <3>3, SleepersKept, ThreadsAssumption
  <2> QED BY <2>1, <2>2
<1>2. CASE StartThread(c) \/ StartFails(c)
  <2>1. handle[c] \in Workers /\ pc[c] = "start"
    BY <1>2 DEF StartThread, StartFails, IInv, Ownership, Starting
  <2>2. /\ UNCHANGED <<operation_generation, operation_wakeup, target_registered, shutting_down,
                       worker>>
        /\ \E l \in {"top", "dead"} : pc' = [pc EXCEPT ![c] = "idle", ![handle[c]] = l]
    BY <1>2 DEF StartThread, StartFails, targets, operation
  <2>3. /\ pc'[c] = "idle" /\ pc'[handle[c]] \in {"top", "dead"}
        /\ \A t \in Threads : t # c /\ t # handle[c] => pc'[t] = pc[t]
    BY <1>0, <2>1, <2>2, ThreadsAssumption DEF IInv, TypeOK, PcType
  <2>4. SameWakers
    BY <1>0, <2>1, <2>3, ThreadsAssumption DEF SameWakers
  <2> QED BY <1>0, <2>1, <2>2, <2>3, <2>4, SleepersKept, ThreadsAssumption
<1>3. CASE DeregisterCommand(c)
  <2>1. /\ UNCHANGED <<operation_wakeup, shutting_down, worker>>
        /\ target_registered' = FALSE /\ pc[c] = "idle"
        /\ ~target_registered => operation_generation' = operation_generation
    BY <1>3 DEF DeregisterCommand, locals, IInv, TypeOK, RuntimeType
  <2>2. PICK l \in {"wake_sync", "wake_return", "acquire", "idle"} :
            Goto(c, l) /\ (target_registered => l \in {"wake_sync", "wake_return"})
    BY <1>3 DEF DeregisterCommand
  <2>3. pc'[c] = l /\ \A t \in Threads : t # c => pc'[t] = pc[t]
    BY <1>0, <2>2, GotoSets DEF IInv
  <2>4. CASE target_registered
    BY <2>2, <2>3, <2>4 DEF NothingMissed, Waking
  <2>5. CASE ~target_registered
    <3>1. UNCHANGED target_registered
      BY <2>1, <2>5 DEF IInv, TypeOK, RuntimeType
    <3>2. SameWakers
      BY <1>0, <2>1, <2>3 DEF SameWakers
    <3> QED BY <1>0, <2>1, <2>3, <2>5, <3>1, <3>2, SleepersKept, ThreadsAssumption
  <2> QED BY <2>4, <2>5
<1>4. CASE Wake(c)
  BY <1>4 DEF Wake, NothingMissed
<1>5. CASE Settle(c) \/ (Reschedule(c) /\ shutting_down)
  <2>1. /\ UNCHANGED <<operation_generation, operation_wakeup, target_registered, shutting_down,
                       worker>>
        /\ pc[c] \in {"settle", "reschedule"} /\ \E l \in {"reschedule", "idle"} : Goto(c, l)
    BY <1>5 DEF Settle, Reschedule, targets, operation, locals
  <2>2. \A t \in Threads : t # c => pc'[t] = pc[t]
    BY <1>0, <2>1, GotoSets DEF IInv
  <2>3. SameWakers
    BY <1>0, <2>1, <2>2 DEF SameWakers
  <2> QED BY <1>0, <2>1, <2>2, <2>3, SleepersKept, ThreadsAssumption
<1> QED BY <1>1, <1>2, <1>3, <1>4, <1>5 DEF RegisterCommand, Reschedule

LEMMA WorkerKeepsNothingMissed ==
  ASSUME IInv, NothingMissed, NEW w \in Workers, WorkerStep(w), ~NamingRpc(w)
  PROVE  NothingMissed'
<1>0. w \in Threads /\ pc[w] # "dead" /\ \A t \in Callers \cup Workers \cup Exits : t \in Threads
  BY DEF Threads, WorkerStep, Top, WaitSnapshot, WaitClear, WaitRecheck, WaitWoken, WaitTimesOut,
         WaitRaises, Recheck, Prepare, PrepareFails, After, Record, Decide, Leave
<1>1. PICK l : Goto(w, l)
  BY DEF WorkerStep, Top, WaitSnapshot, WaitClear, WaitRecheck, WaitWoken, WaitTimesOut,
         WaitRaises, Recheck, Prepare, PrepareFails, After, Record, Decide, Leave
<1>2. pc'[w] = l /\ \A t \in Threads : t # w => pc'[t] = pc[t]
  BY <1>0, <1>1, GotoSets DEF IInv
<1>3. \A v \in Workers : v # w => pc[v] = "dead" /\ pc'[v] = "dead"
  BY <1>0, <1>2 DEF IInv, Ownership, OneOperation, Owns
<1>4. UNCHANGED <<operation_generation, target_registered, shutting_down>>
  BY DEF WorkerStep, Top, WaitSnapshot, WaitClear, WaitRecheck, WaitWoken, WaitTimesOut,
         WaitRaises, Recheck, Prepare, PrepareFails, After, Record, Decide, Leave, WorkerFrame
<1>5. CASE WaitRecheck(w)
  <2>1. UNCHANGED worker /\ (pc'[w] = "sleep" => ~shutting_down /\ Unchanged(w))
    <3>1. CASE Owns(w) /\ ~shutting_down /\ Unchanged(w)
      BY <1>5, <3>1 DEF WaitRecheck
    <3>2. CASE ~(Owns(w) /\ ~shutting_down /\ Unchanged(w))
      BY <1>0, <1>5, <3>2, GotoSets DEF WaitRecheck, IInv
    <3> QED BY <3>1, <3>2
  <2> QED BY <1>3, <1>4, <2>1 DEF NothingMissed, Unchanged
<1>6. CASE ~WaitRecheck(w)
  <2>1. l # "sleep"
    BY <1>0, <1>2, <1>6, GotoSets
    DEF WorkerStep, Top, WaitSnapshot, WaitClear, WaitWoken, WaitTimesOut,
        WaitRaises, Recheck, Prepare, PrepareFails, After, Record, Decide, Leave, IInv
  <2> QED BY <1>2, <1>3, <2>1 DEF NothingMissed
<1> QED BY <1>5, <1>6

LEMMA RpcKeepsNothingMissed ==
  ASSUME IInv, NothingMissed, NEW t \in Threads, NamingRpc(t)
  PROVE  NothingMissed'
<1>0. \A u \in Callers \cup Workers \cup Exits : u \in Threads
  BY DEF Threads
<1>1. pc[t] \in RpcPcs /\ \E l : Goto(t, l) /\ SamePhase(t, l)
  BY RpcMovesOn DEF MovesOn
<1>2. \E l \in RpcPcs \cup {Return(t)} : Goto(t, l)
  BY DEF NamingRpc, Acquire, EventFails, Claim, CallSucceeds, CallFails, Commit, Finish, GiveUp
<1>3. /\ pc'[t] \in RpcPcs \cup {"after", "settle", "exited"}
      /\ \A u \in Threads : u # t => pc'[u] = pc[u]
  BY <1>2, GotoSets DEF Return, IInv
<1>4. UNCHANGED <<operation_generation, operation_wakeup, target_registered, shutting_down, worker>>
  BY DEF NamingRpc, Acquire, EventFails, Claim, CallSucceeds, CallFails, Commit, Finish,
         targets, operation, locals
<1>5. SameWakers
  BY <1>0, <1>1, <1>3 DEF SameWakers
<1> QED BY <1>0, <1>3, <1>4, <1>5, SleepersKept

LEMMA ExitKeepsNothingMissed ==
  ASSUME IInv, NothingMissed, NEW e \in Exits, ExitBegin(e) \/ ExitStep(e), ~NamingRpc(e)
  PROVE  NothingMissed'
<1>0. e \in Threads /\ \A u \in Callers \cup Workers \cup Exits : u \in Threads
  BY DEF Threads
<1>1. CASE ExitBegin(e)
  <2>1. pc'[e] = "wake"
    BY <1>0, <1>1, GotoSets DEF ExitBegin, IInv
  <2> QED BY <2>1 DEF NothingMissed, Waking
<1>2. CASE ExitWake(e)
  BY <1>2 DEF ExitWake, NothingMissed
<1>3. CASE ExitWaited(e) \/ ExitTimesOut(e) \/ ExitCheck(e)
  <2>1. /\ UNCHANGED <<operation_generation, operation_wakeup, target_registered, shutting_down,
                       worker>>
        /\ pc[e] \in {"await", "check"}
        /\ \E l \in {"check", "gave_up", "acquire", "exited"} : Goto(e, l)
    BY <1>3 DEF ExitWaited, ExitTimesOut, ExitCheck, targets, operation, locals
  <2>2. /\ pc'[e] \in {"check", "gave_up", "acquire", "exited"}
        /\ \A u \in Threads : u # e => pc'[u] = pc[u]
    BY <1>0, <2>1, GotoSets DEF IInv
  <2>3. SameWakers
    BY <1>0, <2>1, <2>2 DEF SameWakers
  <2> QED BY <1>0, <2>1, <2>2, <2>3, SleepersKept
<1> QED BY <1>1, <1>2, <1>3 DEF ExitStep

LEMMA WaitInvariance == Spec => [](IInv /\ NothingMissed)
<1>1. Init => NothingMissed
  BY DEF Init, NothingMissed, Threads
<1>2. IInv /\ NothingMissed /\ [Next]_vars => NothingMissed'
  <2> SUFFICES ASSUME IInv, NothingMissed, [Next]_vars PROVE NothingMissed'
    OBVIOUS
  <2>1. CASE UNCHANGED vars
    BY <2>1 DEF vars, targets, operation, locals, NothingMissed, Waking, Unchanged
  <2> QED
    BY <2>1, CallerKeepsNothingMissed, WorkerKeepsNothingMissed, RpcKeepsNothingMissed,
       ExitKeepsNothingMissed
    DEF Next, CallerStep, WorkerStep, ExitStep, Threads
<1> QED BY <1>1, <1>2, Invariance, PTL DEF Spec

(* get_status: an error is shown only while something is left to be done,  *)
(* whatever order failures, commands and the end of operations come in.    *)
THEOREM ErrorsAreCurrent == Spec => []NoStaleError
  BY ErrorInvariance, PTL

(* _interruptible_retry_wait: no command and no shutdown is slept through, *)
(* although the event is cleared outside the lock.                         *)
THEOREM WakeupsAreSeen == Spec => []NoWakeupIsMissed
<1>1. IInv /\ NothingMissed => NoWakeupIsMissed
  BY DEF IInv, Ownership, OneOperation, NothingMissed, NoWakeupIsMissed
<1> QED BY <1>1, WaitInvariance, PTL
=============================================================================
