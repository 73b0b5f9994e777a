--------------------------- MODULE RefinementProofs ---------------------------
(***************************************************************************)
(* Lifecycle implements RegistrationService, for every set of threads and  *)
(* every bound.                                                            *)
(*                                                                         *)
(* The argument: what the service shows of a call is fixed from Claim to   *)
(* Commit, since nobody but its own thread moves it (Stays) and a thread   *)
(* in a call has a direction (DirectionInv).  Then Claim is Begin, behind  *)
(* the gate that is Wanted; Commit is Succeed or Fail; a command is        *)
(* SetTarget, ExitBegin is Close, and every other step is a stutter.       *)
(*                                                                         *)
(* Then what the calls leave in Nacos, which needs the same directions;    *)
(* what an exit leaves there; and the deadline of the exit.                *)
(***************************************************************************)
EXTENDS LifecycleProofs, ExitDeadline

USE DEF RpcPcs, WorkerPcs, CallerPcs, ExitPcs

DirectionInv ==
    \A w \in Workers :
        pc[w] \notin {"dead", "created", "top", "leave"} => worker[w].direction \in Directions

InCall(t) == pc[t] \in {"call", "commit"}

(* A step of other threads: t stands where it stood, with its direction. *)
Stays(t) == pc'[t] = pc[t] /\ (t \in Workers => worker'[t] = worker[t])

LEMMA DirectionInit == Init => DirectionInv
  BY DEF Init, DirectionInv, Threads

(* Which threads a step leaves alone. *)
LEMMA CallerMovesItself ==
  ASSUME IInv, NEW c \in Callers,
         \/ RegisterCommand(c) \/ StartThread(c) \/ StartFails(c) \/ DeregisterCommand(c)
         \/ Wake(c) \/ Settle(c) \/ Reschedule(c)
  PROVE  /\ \A t \in Threads \ {c} : Stays(t) \/ (t \in Workers /\ pc'[t] \in {"dead", "created", "top"}
                                                  /\ pc[t] \in {"dead", "created"})
         /\ pc[c] \notin RpcPcs \ {"acquire"}
<1>0. c \in Threads
  BY DEF Threads
<1>1. ASSUME NEW b, PrepareRegister(c, b), pc[c] \in {"idle", "reschedule"}
      PROVE  \A t \in Threads \ {c} : Stays(t) \/ (t \in Workers /\ pc'[t] = "created" /\ pc[t] = "dead")
  <2>1. CASE NoWorkerNeeded(c) \/ WorkerNotCreated(c)
    BY <2>1 DEF NoWorkerNeeded, WorkerNotCreated, Goto, Stays, IInv, TypeOK, PcType
  <2>2. CASE WorkerCreated(c)
    <3>1. PICK w \in Workers : /\ pc[w] = "dead" /\ worker' = [worker EXCEPT ![w] = FreshWorker]
                               /\ pc' = [pc EXCEPT ![c] = "start", ![w] = "created"]
      BY <2>2 DEF WorkerCreated
    <3> QED BY <1>0, <3>1, ThreadsAssumption DEF Stays, IInv, TypeOK, PcType, WorkerType, Threads
  <2> QED BY <1>1, <2>1, <2>2 DEF PrepareRegister
<1>2. CASE StartThread(c) \/ StartFails(c)
  <2>1. handle[c] \in Workers /\ pc[handle[c]] = "created" /\ pc[c] = "start"
    BY <1>2 DEF StartThread, StartFails, IInv, Ownership, Starting
  <2>2. UNCHANGED worker /\ \E l \in {"top", "dead"} : pc' = [pc EXCEPT ![c] = "idle", ![handle[c]] = l]
    BY <1>2 DEF StartThread, StartFails
  <2>3. PICK l \in {"top", "dead"} : pc' = [pc EXCEPT ![c] = "idle", ![handle[c]] = l]
    BY <2>2
  <2>4. /\ pc'[handle[c]] = l
        /\ \A u \in Threads : u # c /\ u # handle[c] => pc'[u] = pc[u]
    BY <1>0, <2>1, <2>3, ThreadsAssumption DEF IInv, TypeOK, PcType, Threads
  <2> QED BY <2>1, <2>2, <2>4 DEF Stays
<1>3. CASE DeregisterCommand(c) \/ Wake(c) \/ Settle(c) \/ (Reschedule(c) /\ shutting_down)
  <2>1. UNCHANGED worker /\ \E l : Goto(c, l)
    BY <1>3 DEF DeregisterCommand, Wake, Settle, Reschedule, locals
  <2>2. pc[c] \in {"idle", "wake_sync", "wake_return", "settle", "reschedule"}
    BY <1>3 DEF DeregisterCommand, Wake, Settle, Reschedule
  <2>3. \A t \in Threads \ {c} : Stays(t)
    BY <1>0, <2>1, GotoSets DEF Stays, IInv
  <2> QED BY <2>2, <2>3
<1>4. CASE RegisterCommand(c) \/ (Reschedule(c) /\ ~shutting_down)
  <2>1. /\ pc[c] \in {"idle", "reschedule"}
        /\ PrepareRegister(c, TRUE) \/ PrepareRegister(c, FALSE)
    BY <1>4 DEF RegisterCommand, Reschedule
  <2>2. \A t \in Threads \ {c} : Stays(t) \/ (t \in Workers /\ pc'[t] = "created" /\ pc[t] = "dead")
    BY <1>1, <2>1
  <2> QED BY <2>1, <2>2
<1> QED BY <1>2, <1>3, <1>4

LEMMA WorkerMovesItself ==
  ASSUME IInv, NEW w \in Workers, WorkerStep(w), ~NamingRpc(w)
  PROVE  /\ \A t \in Threads \ {w} : Stays(t)
         /\ pc[w] \in WorkerPcs
<1>1. \E l : Goto(w, l)
  BY DEF WorkerStep, Top, WaitSnapshot, WaitClear, WaitRecheck, WaitWoken, WaitTimesOut,
         WaitRaises, Recheck, Prepare, PrepareFails, After, Record, Decide, Leave
<1>2. worker' = worker \/ \E x : worker' = [worker EXCEPT ![w] = x]
  <2>1. CASE WaitSnapshot(w) \/ WaitRecheck(w) \/ Prepare(w)
    BY <2>1 DEF WaitSnapshot, WaitRecheck, Prepare, IInv, TypeOK, WorkerType
  <2>2. CASE ~(WaitSnapshot(w) \/ WaitRecheck(w) \/ Prepare(w))
    BY <2>2 DEF WorkerStep, Top, WaitClear, WaitWoken, WaitTimesOut,
         WaitRaises, Recheck, PrepareFails, After, Record, Decide, Leave
  <2> QED BY <2>1, <2>2
<1>3. pc[w] \in WorkerPcs
  BY DEF WorkerStep, Top, WaitSnapshot, WaitClear, WaitRecheck, WaitWoken, WaitTimesOut,
         WaitRaises, Recheck, Prepare, PrepareFails, After, Record, Decide, Leave
<1> QED BY <1>1, <1>2, <1>3 DEF Goto, Stays, IInv, TypeOK, PcType, WorkerType

LEMMA RpcMovesItself ==
  ASSUME IInv, NEW t \in Threads, NamingRpc(t)
  PROVE  /\ UNCHANGED <<worker, target_registered, shutting_down>>
         /\ \A u \in Threads \ {t} : Stays(u)
         /\ pc[t] \in RpcPcs
<1>1. UNCHANGED <<worker, target_registered, shutting_down>>
  BY DEF NamingRpc, Acquire, EventFails, Claim, CallSucceeds, CallFails, Commit, Finish, locals,
         targets
<1>2. \E l : Goto(t, l)
  BY DEF NamingRpc, Acquire, EventFails, Claim, CallSucceeds, CallFails, Commit, Finish, GiveUp
<1>3. pc[t] \in RpcPcs
  BY RpcMovesOn
<1> QED BY <1>1, <1>2, <1>3 DEF Goto, Stays, IInv, TypeOK, PcType

LEMMA ExitMovesItself ==
  ASSUME IInv, NEW e \in Exits,
         ExitBegin(e) \/ ExitWake(e) \/ ExitWaited(e) \/ ExitTimesOut(e) \/ ExitCheck(e)
  PROVE  /\ \A t \in Threads \ {e} : Stays(t)
         /\ pc[e] \in ExitPcs
<1>1. UNCHANGED worker
  BY DEF ExitBegin, ExitWake, ExitWaited, ExitTimesOut, ExitCheck, locals
<1>3. \E l : Goto(e, l)
  BY DEF ExitBegin, ExitWake, ExitWaited, ExitTimesOut, ExitCheck
<1>2. pc[e] \in ExitPcs
  BY DEF ExitBegin, ExitWake, ExitWaited, ExitTimesOut, ExitCheck
<1> QED BY <1>1, <1>2, <1>3 DEF Goto, Stays, IInv, TypeOK, PcType

(***************************************************************************)
(* A worker past the top of its loop has a direction                       *)
(***************************************************************************)
LEMMA WorkerKeepsDirection ==
  ASSUME IInv, DirectionInv, NEW w \in Workers, WorkerStep(w), ~NamingRpc(w)
  PROVE  DirectionInv'
<1>0. w \in Threads /\ pc[w] \in WorkerPcs /\ \A t \in Threads \ {w} : Stays(t)
  BY WorkerMovesItself DEF Threads
<1>1. /\ worker[w] \in WorkerLocals /\ worker \in [Workers -> WorkerLocals]
      /\ pc \in [Threads -> RpcPcs \cup WorkerPcs \cup CallerPcs \cup ExitPcs]
  BY DEF IInv, TypeOK, WorkerType, PcType
<1>2. pc'[w] \notin {"dead", "created", "top", "leave"} => worker'[w].direction \in Directions
  <2>1. CASE Top(w)
    <3>1. CASE Goto(w, "leave")
      BY <1>0, <1>1, <3>1 DEF Goto
    <3>2. CASE ~Goto(w, "leave")
      <4>1. worker'[w] = Redirected(w)
        BY <1>1, <2>1, <3>2 DEF Top
      <4>2. Redirected(w).direction = LatestNeeded
        BY <1>1 DEF Redirected, WorkerLocals
      <4> QED BY <4>1, <4>2, LatestNeededTyped
    <3> QED BY <3>1, <3>2
  <2>2. CASE WaitSnapshot(w) \/ Prepare(w)
    <3>1. worker'[w].direction = worker[w].direction
      BY <1>1, <2>2 DEF WaitSnapshot, Prepare, WorkerLocals
    <3>2. pc[w] \in {"snapshot", "prepare"}
      BY <2>2 DEF WaitSnapshot, Prepare
    <3> QED BY <3>1, <3>2 DEF DirectionInv
  <2>3. CASE \/ WaitClear(w) \/ WaitRecheck(w) \/ WaitWoken(w) \/ WaitTimesOut(w)
             \/ WaitRaises(w) \/ Recheck(w) \/ PrepareFails(w) \/ Record(w)
    <3>1. UNCHANGED worker
      BY <2>3 DEF WaitClear, WaitRecheck, WaitWoken, WaitTimesOut, WaitRaises, Recheck, PrepareFails,
                  Record
    <3>2. pc[w] \in {"clear", "recheck", "sleep", "resume", "ready", "prepare", "record"}
      BY <2>3 DEF WaitClear, WaitRecheck, WaitWoken, WaitTimesOut, WaitRaises, Recheck, PrepareFails,
                  Record
    <3> QED BY <3>1, <3>2 DEF DirectionInv
  <2>4. CASE After(w)
    <3>1. UNCHANGED worker \/ pc'[w] = "top"
      BY <1>0, <2>4, GotoSets DEF After, IInv
    <3> QED BY <2>4, <3>1 DEF DirectionInv, After
  <2>5. CASE Decide(w)
    <3>1. worker'[w] = worker[w] \/ worker'[w] = Decided(w)
      BY <1>1, <2>5 DEF Decide
    <3>2. Decided(w).direction = worker[w].direction
      BY <1>1 DEF Decided, WorkerLocals
    <3> QED BY <2>5, <3>1, <3>2 DEF DirectionInv, Decide
  <2>6. CASE Leave(w)
    BY <1>0, <2>6, GotoSets DEF Leave, IInv
  <2> QED BY <2>1, <2>2, <2>3, <2>4, <2>5, <2>6 DEF WorkerStep
<1> QED BY <1>0, <1>2 DEF DirectionInv, Stays, Threads

LEMMA StepKeepsDirection == IInv /\ DirectionInv /\ [Next]_vars => DirectionInv'
<1> SUFFICES ASSUME IInv, DirectionInv, [Next]_vars PROVE DirectionInv'
  OBVIOUS
<1>1. CASE \E t \in Threads : NamingRpc(t)
  <2>1. PICK t \in Threads : NamingRpc(t)
    BY <1>1
  <2>2. UNCHANGED worker /\ pc[t] \in RpcPcs /\ \A u \in Threads \ {t} : Stays(u)
    BY <2>1, RpcMovesItself
  <2> QED BY <2>2 DEF DirectionInv, Stays, Threads
<1>2. ASSUME NEW c \in Callers, RegisterCommand(c) \/ DeregisterCommand(c) \/ CallerStep(c),
             ~NamingRpc(c)
      PROVE  DirectionInv'
  <2>1. \A w \in Workers : Stays(w) \/ pc'[w] \in {"dead", "created", "top"}
    BY <1>2, CallerMovesItself, ThreadsAssumption DEF CallerStep, Threads
  <2> QED BY <2>1 DEF DirectionInv, Stays
<1>3. ASSUME NEW e \in Exits, ExitBegin(e) \/ ExitStep(e), ~NamingRpc(e)
      PROVE  DirectionInv'
  <2>1. \A w \in Workers : Stays(w)
    BY <1>3, ExitMovesItself, ThreadsAssumption DEF ExitStep, Threads
  <2> QED BY <2>1 DEF DirectionInv, Stays
<1>4. CASE UNCHANGED vars
  BY <1>4 DEF vars, locals, DirectionInv
<1> QED
  BY <1>1, <1>2, <1>3, <1>4, WorkerKeepsDirection DEF Next, CallerStep, WorkerStep, ExitStep, Threads

LEMMA DirectionInvariance == Spec => [](IInv /\ DirectionInv)
  BY Invariance, DirectionInit, StepKeepsDirection, PTL DEF Spec

(***************************************************************************)
(* Steps outside the calls: commands, the begin of the exit, stutters      *)
(***************************************************************************)

(* Nobody outside the calls changes what the service shows of a call. *)
LEMMA InflightStays ==
  ASSUME TypeOK, CallsUntouched, \A t \in Threads : InCall(t) => Stays(t)
  PROVE  Inflight' = Inflight
<1>1. network_lock' = network_lock
  BY DEF CallsUntouched
<1>2. CASE network_lock = None
  BY <1>1, <1>2 DEF Inflight
<1>3. CASE network_lock \in Threads /\ InCall(network_lock)
  BY <1>1, <1>3 DEF Inflight, InCall, Stays, RpcType
<1>4. CASE network_lock \in Threads /\ ~InCall(network_lock)
  <2>1. pc'[network_lock] \notin {"call", "commit"}
    BY <1>4 DEF CallsUntouched, InCall
  <2> QED BY <1>1, <1>4, <2>1 DEF Inflight, InCall
<1> QED BY <1>2, <1>3, <1>4 DEF TypeOK, NamingType

LEMMA CallerRefines ==
  ASSUME IInv, NEW c \in Callers,
         \/ RegisterCommand(c) \/ StartThread(c) \/ StartFails(c) \/ DeregisterCommand(c)
         \/ Wake(c) \/ Settle(c) \/ Reschedule(c)
  PROVE  Service!SetTarget \/ UNCHANGED Service!vars
<1>1. Inflight' = Inflight
  <2>1. CallsUntouched
    BY CallerUntouched DEF IInv, Ownership
  <2>2. \A t \in Threads : InCall(t) => Stays(t)
    BY CallerMovesItself DEF InCall
  <2> QED BY <2>1, <2>2, InflightStays DEF IInv
<1>2. UNCHANGED <<registered, shutting_down>>
  BY DEF RegisterCommand, StartThread, StartFails, DeregisterCommand, Wake, Settle, Reschedule,
         PrepareRegister, targets
<1>3. target_registered' = target_registered \/ (~shutting_down /\ target_registered' \in BOOLEAN)
  BY DEF RegisterCommand, StartThread, StartFails, DeregisterCommand, Wake, Settle, Reschedule,
         PrepareRegister, TargetRegistered, targets
<1> QED BY <1>1, <1>2, <1>3 DEF Service!SetTarget, Service!vars

LEMMA WorkerRefines ==
  ASSUME IInv, NEW w \in Workers, WorkerStep(w), ~NamingRpc(w)
  PROVE  UNCHANGED Service!vars
<1>1. Inflight' = Inflight
  <2>1. CallsUntouched
    BY WorkerUntouched DEF IInv
  <2>2. \A t \in Threads : InCall(t) => Stays(t)
    BY WorkerMovesItself DEF InCall
  <2> QED BY <2>1, <2>2, InflightStays DEF IInv
<1>2. UNCHANGED <<target_registered, registered, shutting_down>>
  BY DEF WorkerStep, Top, WaitSnapshot, WaitClear, WaitRecheck, WaitWoken, WaitTimesOut,
         WaitRaises, Recheck, Prepare, PrepareFails, After, Record, Decide, Leave, WorkerFrame
<1> QED BY <1>1, <1>2 DEF Service!vars

LEMMA ExitRefines ==
  ASSUME IInv, NEW e \in Exits,
         ExitBegin(e) \/ ExitWake(e) \/ ExitWaited(e) \/ ExitTimesOut(e) \/ ExitCheck(e)
  PROVE  Service!Close \/ UNCHANGED Service!vars
<1>1. Inflight' = Inflight
  <2>1. CallsUntouched
    BY ExitKeepsExits DEF IInv
  <2>2. \A t \in Threads : InCall(t) => Stays(t)
    BY ExitMovesItself DEF InCall
  <2> QED BY <2>1, <2>2, InflightStays DEF IInv
<1>2. UNCHANGED <<target_registered, registered>>
  BY DEF ExitBegin, ExitWake, ExitWaited, ExitTimesOut, ExitCheck, targets
<1>3. shutting_down' = shutting_down \/ (~shutting_down /\ shutting_down' = TRUE)
  BY DEF ExitBegin, ExitWake, ExitWaited, ExitTimesOut, ExitCheck
<1> QED BY <1>1, <1>2, <1>3 DEF Service!Close, Service!vars

(***************************************************************************)
(* Steps of a Naming call                                                  *)
(***************************************************************************)
LEMMA RpcRefines ==
  ASSUME IInv, DirectionInv, NEW t \in Threads, NamingRpc(t)
  PROVE  \/ Service!Begin("register") \/ Service!Begin("deregister")
         \/ Service!Succeed \/ Service!Fail \/ UNCHANGED Service!vars
<1>1. /\ UNCHANGED <<worker, target_registered, shutting_down>>
      /\ RpcType(t)' = RpcType(t)
  BY RpcMovesItself DEF RpcType
<1>2. RpcType(t) \in Directions /\ t # None
  <2>1. CASE t \in Workers
    BY <2>1, RpcMovesItself, ThreadsAssumption DEF DirectionInv, RpcType
  <2>2. CASE t \notin Workers
    BY <2>2, ThreadsAssumption DEF RpcType, Directions
  <2> QED BY <2>1, <2>2
<1>3. pc[t] \in {"claim", "call", "commit"} => network_lock = t
  BY DEF IInv, NamingInv, LockHeld
<1>4. Return(t) \notin {"call", "commit"}
  BY DEF Return
<1>5. CASE Acquire(t)
  <2>1. Inflight = "none" /\ registered' = registered
    BY <1>5 DEF Acquire, Inflight
  <2>2. network_lock' = None \/ (network_lock' = t /\ pc'[t] = "claim")
    BY <1>5, GotoSets DEF Acquire, GiveUp, IInv
  <2>3. Inflight' = "none"
    BY <1>2, <2>2 DEF Inflight
  <2> QED BY <1>1, <2>1, <2>3 DEF Service!vars
<1>6. CASE EventFails(t) \/ (Claim(t) /\ ~Needed(t))
  <2>1. pc[t] = "claim" /\ registered' = registered /\ network_lock' = None
    BY <1>6 DEF EventFails, Claim, GiveUp, targets
  <2>2. Inflight = "none" /\ Inflight' = "none"
    BY <1>2, <1>3, <2>1 DEF Inflight
  <2> QED BY <1>1, <2>1, <2>2 DEF Service!vars
<1>7. CASE Claim(t) /\ Needed(t)
  <2>1. /\ pc[t] = "claim" /\ registered' = registered /\ network_lock' = network_lock
        /\ pc'[t] = "call"
    BY <1>7, GotoSets DEF Claim, Publish, targets, IInv
  <2>2. Inflight = "none" /\ Inflight' = RpcType(t)
    BY <1>1, <1>2, <1>3, <2>1 DEF Inflight
  <2>3. Service!Wanted(RpcType(t))
    BY <1>7 DEF Needed, Service!Wanted
  <2>4. Service!Begin(RpcType(t))
    BY <1>1, <2>1, <2>2, <2>3 DEF Service!Begin
  <2> QED BY <1>2, <2>4 DEF Directions
<1>8. CASE CallSucceeds(t) \/ CallFails(t)
  <2>1. /\ pc[t] = "call" /\ pc'[t] = "commit"
        /\ registered' = registered /\ network_lock' = network_lock
    BY <1>8, GotoSets DEF CallSucceeds, CallFails, targets, naming, IInv
  <2>2. Inflight' = Inflight
    BY <1>1, <1>2, <1>3, <2>1 DEF Inflight
  <2> QED BY <1>1, <2>1, <2>2 DEF Service!vars
<1>9. CASE Commit(t)
  <2>1. pc[t] = "commit" /\ network_lock' = None
    BY <1>9 DEF Commit
  <2>2. Inflight = RpcType(t) /\ Inflight' = "none" /\ Inflight # "none"
    BY <1>2, <1>3, <2>1 DEF Inflight, Directions
  <2>3. CASE outcome[t] = "succeeded"
    <3>1. registered' = (RpcType(t) = "register")
      BY <1>9, <2>3 DEF Commit, Committed
    <3> QED BY <1>1, <2>2, <3>1 DEF Service!Succeed
  <2>4. CASE outcome[t] # "succeeded"
    BY <1>1, <1>9, <2>2, <2>4 DEF Commit, Service!Fail
  <2> QED BY <2>3, <2>4
<1>10. CASE Finish(t)
  <2>1. /\ pc[t] = "finish" /\ registered' = registered /\ network_lock' = network_lock
        /\ pc'[t] = Return(t) /\ \A u \in Threads : u # t => pc'[u] = pc[u]
    BY <1>10, GotoSets DEF Finish, targets, IInv
  <2>2. Inflight' = Inflight
    BY <1>1, <1>4, <2>1 DEF Inflight, RpcType, IInv, TypeOK, NamingType
  <2> QED BY <1>1, <2>1, <2>2 DEF Service!vars
<1> QED BY <1>5, <1>6, <1>7, <1>8, <1>9, <1>10 DEF NamingRpc

(***************************************************************************)
(* Theorem                                                                 *)
(***************************************************************************)
LEMMA StepRefines ==
  IInv /\ DirectionInv /\ [Next]_vars => [Service!Next]_(Service!vars)
<1> SUFFICES ASSUME IInv, DirectionInv, [Next]_vars PROVE Service!Next \/ UNCHANGED Service!vars
  OBVIOUS
<1>1. ASSUME NEW t \in Threads, NamingRpc(t) PROVE Service!Next \/ UNCHANGED Service!vars
  BY <1>1, RpcRefines DEF Service!Next
<1>2. ASSUME NEW c \in Callers, RegisterCommand(c) \/ DeregisterCommand(c) \/ CallerStep(c),
             ~NamingRpc(c)
      PROVE  Service!Next \/ UNCHANGED Service!vars
  BY <1>2, CallerRefines DEF CallerStep, Service!Next
<1>3. ASSUME NEW w \in Workers, WorkerStep(w), ~NamingRpc(w)
      PROVE  Service!Next \/ UNCHANGED Service!vars
  BY <1>3, WorkerRefines
<1>4. ASSUME NEW e \in Exits, ExitBegin(e) \/ ExitStep(e), ~NamingRpc(e)
      PROVE  Service!Next \/ UNCHANGED Service!vars
  BY <1>4, ExitRefines DEF ExitStep, Service!Next
<1>5. CASE UNCHANGED vars
  BY <1>5 DEF vars, targets, naming, locals, Service!vars, Inflight, RpcType
<1> QED
  BY <1>1, <1>2, <1>3, <1>4, <1>5 DEF Next, CallerStep, WorkerStep, ExitStep, Threads

LEMMA InitRefines == Init => Service!Init
  BY DEF Init, Service!Init, Inflight

(* README.md, "Design guarantees": seen through target, registered state,  *)
(* the call in flight and the closing, the threads are a last-command-wins *)
(* service with one Naming RPC at a time, each begun while it is wanted.   *)
THEOREM Implementation == Spec => ImplementsService
  BY InitRefines, StepRefines, DirectionInvariance, PTL DEF Spec, ImplementsService, Service!Spec

(***************************************************************************)
(* What Nacos holds                                                        *)
(***************************************************************************)

(* Nacos holds the identity, if there is one, and nothing else that is     *)
(* certain.                                                                *)
Agrees(is_registered, identity) ==
    \A i \in Identities \ doubtful : i \in server <=> is_registered /\ identity = i

Succeeded(t) == pc[t] = "commit" /\ outcome[t] = "succeeded"

(* Nacos is one successful call ahead of the runtime at most.              *)
ServerInv ==
    /\ (\A t \in Threads : ~Succeeded(t)) => Agrees(registered, registered_identity)
    /\ \A t \in Threads : Succeeded(t) => Agrees(RpcType(t) = "register", actual_identity[t])

(* From the first gate to the commit nobody else commits: a registration   *)
(* still finds nothing registered, a deregistration what it resolved.      *)
GateInv ==
    \A t \in Threads : pc[t] \in {"claim", "call", "commit"} =>
        IF RpcType(t) = "register" THEN ~registered
        ELSE registered /\ actual_identity[t] = registered_identity

Undisturbed(t) ==
    /\ pc'[t] = pc[t] /\ outcome'[t] = outcome[t] /\ actual_identity'[t] = actual_identity[t]
    /\ RpcType(t)' = RpcType(t)

LEMMA UndisturbedServer ==
  ASSUME ServerInv, GateInv,
         UNCHANGED <<server, doubtful, registered, registered_identity>>,
         \A t \in Threads : \/ Undisturbed(t)
                            \/ {pc[t], pc'[t]} \cap {"claim", "call", "commit"} = {}
  PROVE  ServerInv' /\ GateInv'
<1>1. \A t \in Threads : Succeeded(t)' <=> Succeeded(t)
  BY DEF Succeeded, Undisturbed
<1>2. \A b, i : Agrees(b, i)' <=> Agrees(b, i)
  BY DEF Agrees
<1>3. ASSUME NEW t \in Threads, Succeeded(t)
      PROVE  RpcType(t)' = RpcType(t) /\ actual_identity'[t] = actual_identity[t]
  BY <1>3 DEF Succeeded, Undisturbed
<1>4. ServerInv'
  BY <1>1, <1>2, <1>3 DEF ServerInv, Agrees
<1>5. GateInv'
  BY DEF GateInv, Undisturbed
<1> QED BY <1>4, <1>5

LEMMA CallerKeepsServer ==
  ASSUME IInv, ServerInv, GateInv, NEW c \in Callers,
         \/ RegisterCommand(c) \/ StartThread(c) \/ StartFails(c) \/ DeregisterCommand(c)
         \/ Wake(c) \/ Settle(c) \/ Reschedule(c)
  PROVE  ServerInv' /\ GateInv'
<1>1. /\ UNCHANGED <<server, doubtful, registered, registered_identity, actual_identity>>
      /\ outcome' = outcome \/ outcome' = [outcome EXCEPT ![c] = "none"]
  BY DEF RegisterCommand, StartThread, StartFails, DeregisterCommand, Wake, Settle, Reschedule,
         PrepareRegister, targets, naming, locals, external
<1>2. \A t \in Threads \ {c} :
          \/ Stays(t) \/ {pc[t], pc'[t]} \cap {"claim", "call", "commit"} = {}
  BY CallerMovesItself
<1>3. c \in Threads /\ {pc[c], pc'[c]} \cap {"claim", "call", "commit"} = {}
  BY CallerMovesItself, CallerUntouched DEF IInv, Ownership, CallsUntouched, Threads
<1>4. \A t \in Threads \ {c} : Stays(t) => Undisturbed(t)
  BY <1>1, <1>3 DEF Stays, Undisturbed, RpcType, IInv, TypeOK, NamingType
<1> QED BY <1>1, <1>2, <1>3, <1>4, UndisturbedServer

LEMMA WorkerKeepsServer ==
  ASSUME IInv, ServerInv, GateInv, NEW w \in Workers, WorkerStep(w), ~NamingRpc(w)
  PROVE  ServerInv' /\ GateInv'
<1>0. w \in Threads
  BY DEF Threads
<1>1. UNCHANGED <<server, doubtful, registered, registered_identity, actual_identity>>
  BY DEF WorkerStep, Top, WaitSnapshot, WaitClear, WaitRecheck, WaitWoken, WaitTimesOut,
         WaitRaises, Recheck, Prepare, PrepareFails, After, Record, Decide, Leave, WorkerFrame,
         external
<1>2. outcome' = outcome \/ \E x : outcome' = [outcome EXCEPT ![w] = x]
  BY DEF WorkerStep, Top, WaitSnapshot, WaitClear, WaitRecheck, WaitWoken, WaitTimesOut,
         WaitRaises, Recheck, Prepare, PrepareFails, After, Record, Decide, Leave
<1>3. {pc[w], pc'[w]} \cap {"claim", "call", "commit"} = {}
  BY <1>0, WorkerMovesItself, WorkerUntouched DEF IInv, CallsUntouched
<1>4. \A t \in Threads \ {w} : Undisturbed(t)
  BY <1>0, <1>1, <1>2, WorkerMovesItself
  DEF Stays, Undisturbed, RpcType, IInv, TypeOK, NamingType
<1> QED BY <1>0, <1>1, <1>3, <1>4, UndisturbedServer

LEMMA ExitKeepsServer ==
  ASSUME IInv, ServerInv, GateInv, NEW e \in Exits,
         ExitBegin(e) \/ ExitWake(e) \/ ExitWaited(e) \/ ExitTimesOut(e) \/ ExitCheck(e)
  PROVE  ServerInv' /\ GateInv'
<1>0. e \in Threads
  BY DEF Threads
<1>1. UNCHANGED <<server, doubtful, registered, registered_identity, actual_identity, outcome>>
  BY DEF ExitBegin, ExitWake, ExitWaited, ExitTimesOut, ExitCheck, targets, locals, external
<1>2. {pc[e], pc'[e]} \cap {"claim", "call", "commit"} = {}
  BY <1>0, ExitMovesItself, ExitKeepsExits DEF IInv, CallsUntouched
<1>3. \A t \in Threads \ {e} : Undisturbed(t)
  BY <1>1, ExitMovesItself DEF Stays, Undisturbed, RpcType
<1> QED BY <1>0, <1>1, <1>2, <1>3, UndisturbedServer

LEMMA RpcKeepsServer ==
  ASSUME IInv, ServerInv, GateInv, NEW t \in Threads, NamingRpc(t)
  PROVE  ServerInv' /\ GateInv'
<1> DEFINE a == actual_identity[t]
           calls_pcs == {"claim", "call", "commit"}
<1>1. \A u \in Threads : RpcType(u)' = RpcType(u)
  BY RpcMovesItself DEF RpcType
<1>2. PICK l \in RpcPcs \cup {Return(t)} : Goto(t, l)
  BY DEF NamingRpc, Acquire, EventFails, Claim, CallSucceeds, CallFails, Commit, Finish, GiveUp
<1>3. pc'[t] = l /\ \A u \in Threads : u # t => pc'[u] = pc[u]
  BY <1>2, GotoSets DEF IInv
<1>4. \A u \in Threads : u # t => outcome'[u] = outcome[u] /\ actual_identity'[u] = actual_identity[u]
  BY DEF NamingRpc, Acquire, EventFails, Claim, CallSucceeds, CallFails, Commit, Finish, GiveUp,
         locals, IInv, TypeOK, NamingType
<1>5. \A u \in Threads : u # t => Undisturbed(u)
  BY <1>1, <1>3, <1>4 DEF Undisturbed
<1>6. \A u \in Threads : u # t /\ pc[t] \in calls_pcs => pc[u] \notin calls_pcs
  BY DEF IInv, NamingInv, LockHeld
<1>7. Return(t) \notin calls_pcs
  BY DEF Return
<1>8. CASE Acquire(t)
  <2>1. UNCHANGED <<server, doubtful, registered, registered_identity>> /\ pc[t] = "acquire"
    BY <1>8 DEF Acquire, external
  <2>2. CASE pc'[t] # "claim"
    <3>1. pc'[t] = Return(t)
      BY <1>3, <1>8, <2>2, GotoSets DEF Acquire, GiveUp, IInv
    <3> QED BY <1>5, <1>7, <2>1, <3>1, UndisturbedServer
  <2>3. CASE pc'[t] = "claim"
    <3>1. /\ Needed(t)
          /\ a' = IF RpcType(t) = "register" THEN worker[t].identity ELSE registered_identity
      BY <1>7, <1>8, <2>3, GotoSets DEF Acquire, GiveUp, IInv, TypeOK, NamingType
    <3>2. IF RpcType(t) = "register" THEN ~registered ELSE registered
      BY <3>1 DEF Needed
    <3>3. \A u \in Threads : Succeeded(u)' <=> Succeeded(u)
      BY <1>5, <2>1, <2>3 DEF Succeeded, Undisturbed
    <3>4. \A u \in Threads : Succeeded(u) => u # t
      BY <2>1 DEF Succeeded
    <3>5. ServerInv'
      BY <1>1, <1>5, <2>1, <3>3, <3>4 DEF ServerInv, Agrees, Undisturbed
    <3>6. GateInv'
      BY <1>1, <1>5, <2>1, <3>1, <3>2 DEF GateInv, Undisturbed
    <3> QED BY <3>5, <3>6
  <2> QED BY <2>2, <2>3
<1>9. CASE EventFails(t) \/ Claim(t) \/ Finish(t)
  <2>1. UNCHANGED <<server, doubtful, registered, registered_identity>>
    BY <1>9 DEF EventFails, Claim, Finish, targets, external
  <2>2. pc[t] \in {"claim", "finish"} /\ pc'[t] \in {"call", Return(t)}
    BY <1>9, GotoSets DEF EventFails, Claim, Finish, GiveUp, IInv
  <2>3. pc'[t] = "call" => pc[t] = "claim" /\ UNCHANGED actual_identity
    BY <1>7, <1>9, <2>2, GotoSets DEF EventFails, Claim, Finish, GiveUp, IInv
  <2>4. \A u \in Threads : (Succeeded(u)' <=> Succeeded(u)) /\ (Succeeded(u) => Undisturbed(u))
    BY <1>5, <1>7, <2>2 DEF Succeeded, Undisturbed
  <2>5. ServerInv'
    BY <2>1, <2>4 DEF ServerInv, Agrees, Undisturbed
  <2>6. GateInv'
    BY <1>1, <1>5, <1>7, <2>1, <2>2, <2>3 DEF GateInv, Undisturbed
  <2> QED BY <2>5, <2>6
<1>10. CASE CallSucceeds(t) \/ CallFails(t)
  <2>1. /\ UNCHANGED <<registered, registered_identity, actual_identity>>
        /\ pc[t] = "call" /\ pc'[t] = "commit"
    BY <1>10, GotoSets DEF CallSucceeds, CallFails, targets, IInv
  <2>2. Agrees(registered, registered_identity)
    BY <1>6, <2>1 DEF ServerInv, Succeeded
  <2>3. IF RpcType(t) = "register" THEN ~registered ELSE registered /\ a = registered_identity
    BY <2>1 DEF GateInv
  <2>4. \A u \in Threads : u # t => ~Succeeded(u)'
    BY <1>3, <1>6, <2>1 DEF Succeeded
  <2>5. GateInv'
    BY <1>1, <1>3, <1>6, <2>1, <2>3 DEF GateInv
  <2>6. CASE CallSucceeds(t)
    <3>1. server' = Applied(t) /\ doubtful' = doubtful \ {a} /\ Succeeded(t)'
      BY <2>1, <2>6 DEF CallSucceeds, Succeeded, IInv, TypeOK, NamingType
    <3>2. Agrees(RpcType(t) = "register", a)'
      BY <1>1, <2>1, <2>2, <2>3, <3>1 DEF Agrees, Applied
    <3> QED BY <2>4, <2>5, <3>1, <3>2 DEF ServerInv
  <2>7. CASE CallFails(t)
    <3>1. server' \in {server, Applied(t)} /\ doubtful' = doubtful \cup {a} /\ ~Succeeded(t)'
      BY <2>1, <2>7 DEF CallFails, Succeeded, IInv, TypeOK, NamingType, FailureClasses
    <3>2. Agrees(registered, registered_identity)'
      BY <2>1, <2>2, <3>1 DEF Agrees, Applied
    <3> QED BY <2>4, <2>5, <3>1, <3>2 DEF ServerInv
  <2> QED BY <1>10, <2>6, <2>7
<1>11. CASE Commit(t)
  <2>1. UNCHANGED <<server, doubtful, actual_identity, outcome>> /\ pc[t] = "commit" /\ pc'[t] = "finish"
    BY <1>11, GotoSets DEF Commit, locals, external, IInv
  <2>2. \A u \in Threads : ~Succeeded(u)' /\ pc'[u] \notin calls_pcs
    BY <1>3, <1>6, <2>1 DEF Succeeded
  <2>3. Agrees(registered, registered_identity)'
    <3>1. CASE outcome[t] = "succeeded"
      <4>1. Agrees(RpcType(t) = "register", a)
        BY <2>1, <3>1 DEF ServerInv, Succeeded
      <4>2. /\ registered' = (RpcType(t) = "register")
            /\ RpcType(t) = "register" => registered_identity' = a
        BY <1>11, <3>1 DEF Commit, Committed
      <4> QED BY <2>1, <4>1, <4>2 DEF Agrees
    <3>2. CASE outcome[t] # "succeeded"
      <4>1. \A u \in Threads : ~Succeeded(u)
        BY <1>6, <2>1, <3>2 DEF Succeeded
      <4>2. UNCHANGED <<registered, registered_identity>>
        BY <1>11, <3>2 DEF Commit
      <4> QED BY <2>1, <4>1, <4>2 DEF ServerInv, Agrees
    <3> QED BY <3>1, <3>2
  <2> QED BY <2>2, <2>3 DEF ServerInv, GateInv
<1> QED BY <1>8, <1>9, <1>10, <1>11 DEF NamingRpc

LEMMA ServerInvariance == Spec => [](IInv /\ ServerInv /\ GateInv)
<1>1. Init => ServerInv /\ GateInv
  <2> SUFFICES ASSUME Init PROVE ServerInv /\ GateInv
    OBVIOUS
  <2>1. \A t \in Threads : pc[t] \in {"dead", "idle"}
    BY DEF Init
  <2>2. server = {} /\ ~registered
    BY DEF Init
  <2> QED BY <2>1, <2>2 DEF ServerInv, GateInv, Succeeded, Agrees
<1>2. IInv /\ ServerInv /\ GateInv /\ [Next]_vars => ServerInv' /\ GateInv'
  <2> SUFFICES ASSUME IInv, ServerInv, GateInv, [Next]_vars PROVE ServerInv' /\ GateInv'
    OBVIOUS
  <2>1. CASE UNCHANGED vars
    BY <2>1, UndisturbedServer DEF vars, targets, locals, external, Undisturbed, RpcType
  <2>2. ASSUME NEW c \in Callers, RegisterCommand(c) \/ DeregisterCommand(c) \/ CallerStep(c),
               ~NamingRpc(c)
        PROVE  ServerInv' /\ GateInv'
    BY <2>2, CallerKeepsServer DEF CallerStep
  <2>3. ASSUME NEW e \in Exits, ExitBegin(e) \/ ExitStep(e), ~NamingRpc(e)
        PROVE  ServerInv' /\ GateInv'
    BY <2>3, ExitKeepsServer DEF ExitStep
  <2> QED
    BY <2>1, <2>2, <2>3, WorkerKeepsServer, RpcKeepsServer
    DEF Next, CallerStep, WorkerStep, ExitStep, Threads
<1> QED BY <1>1, <1>2, Invariance, PTL DEF Spec

(***************************************************************************)
(* What an exit leaves behind                                              *)
(***************************************************************************)

(* Only a call changes what is registered, in the runtime or in Nacos.     *)
LEMMA OnlyCallsRegister ==
  ASSUME [Next]_vars, \A t \in Threads : pc[t] \notin {"call", "commit"}
  PROVE  UNCHANGED <<registered, registered_identity, server>>
<1>1. ASSUME NEW t \in Threads, NamingRpc(t) PROVE UNCHANGED <<registered, registered_identity, server>>
  BY <1>1 DEF NamingRpc, Acquire, EventFails, Claim, CallSucceeds, CallFails, Commit, Finish,
              targets, external
<1>2. ASSUME NEW c \in Callers, RegisterCommand(c) \/ DeregisterCommand(c) \/ CallerStep(c),
             ~NamingRpc(c)
      PROVE  UNCHANGED <<registered, registered_identity, server>>
  BY <1>2 DEF RegisterCommand, StartThread, StartFails, DeregisterCommand, Wake, Settle, Reschedule,
              CallerStep, PrepareRegister, targets, external
<1>3. ASSUME NEW w \in Workers, WorkerStep(w), ~NamingRpc(w)
      PROVE  UNCHANGED <<registered, registered_identity, server>>
  BY <1>3 DEF WorkerStep, Top, WaitSnapshot, WaitClear, WaitRecheck, WaitWoken, WaitTimesOut,
              WaitRaises, Recheck, Prepare, PrepareFails, After, Record, Decide, Leave, WorkerFrame,
              external
<1>4. ASSUME NEW e \in Exits, ExitBegin(e) \/ ExitStep(e), ~NamingRpc(e)
      PROVE  UNCHANGED <<registered, registered_identity, server>>
  BY <1>4 DEF ExitBegin, ExitStep, ExitWake, ExitWaited, ExitTimesOut, ExitCheck, targets, external
<1>5. CASE UNCHANGED vars
  BY <1>5 DEF vars, targets, external
<1> QED
  BY <1>1, <1>2, <1>3, <1>4, <1>5 DEF Next, CallerStep, WorkerStep, ExitStep, Threads

(* A call that answered has an outcome; after a good one, or after a gate  *)
(* that found nothing to do, nothing is registered.                        *)
OutcomeKnown(e) ==
    /\ pc[e] \in {"commit", "finish"} => outcome[e] \in FailureClasses \cup {"succeeded"}
    /\ pc[e] = "finish" /\ outcome[e] = "succeeded" => ~registered
    /\ CleanExit(e) => ~registered

OutcomeInv == \A e \in Exits : OutcomeKnown(e)

(* e stands where it stood: nothing else registers behind it. *)
LEMMA OthersKeepOutcome ==
  ASSUME IInv, [Next]_vars, NEW e \in Exits, OutcomeKnown(e),
         pc'[e] = pc[e], outcome'[e] = outcome[e]
  PROVE  OutcomeKnown(e)'
<1>0. e \in Threads
  BY DEF Threads
<1>1. pc[e] = "finish" \/ CleanExit(e) => registered' = registered
  BY <1>0, OnlyCallsRegister DEF IInv, ExitInv, CleanExit
<1>2. CleanExit(e)' => CleanExit(e)
  BY DEF CleanExit
<1> QED BY <1>1, <1>2 DEF OutcomeKnown

LEMMA ExitKeepsOutcome ==
  ASSUME IInv, NEW e \in Exits,
         ExitBegin(e) \/ ExitWake(e) \/ ExitWaited(e) \/ ExitTimesOut(e) \/ ExitCheck(e)
  PROVE  OutcomeKnown(e)'
<1>0. e \in Threads /\ registered' = registered
  BY DEF Threads, ExitBegin, ExitWake, ExitWaited, ExitTimesOut, ExitCheck, targets
<1>1. /\ pc'[e] \in {"wake", "await", "check", "exited", "gave_up", "acquire"}
      /\ pc'[e] = "exited" => ~DeregisterOnExit \/ ~registered
  BY <1>0, GotoSets DEF IInv, ExitBegin, ExitWake, ExitWaited, ExitTimesOut, ExitCheck
<1> QED BY <1>0, <1>1 DEF OutcomeKnown, CleanExit

LEMMA RpcKeepsOutcome ==
  ASSUME IInv, NEW e \in Exits, NamingRpc(e), OutcomeKnown(e)
  PROVE  OutcomeKnown(e)'
<1>0. e \in Threads /\ RpcType(e) = "deregister" /\ Return(e) = "exited"
  BY ThreadsAssumption DEF Threads, RpcType, Return
<1>1. shutting_down
  BY DEF IInv, ExitInv, NamingRpc, Acquire, EventFails, Claim, CallSucceeds, CallFails, Commit, Finish
<1>2. Needed(e) <=> registered
  BY <1>0, <1>1 DEF Needed
<1>3. CASE Acquire(e) \/ EventFails(e) \/ Claim(e)
  <2>1. registered' = registered
    BY <1>3 DEF Acquire, EventFails, Claim, targets
  <2>2. ASSUME pc'[e] = "exited" PROVE outcome'[e] \in FailureClasses \/ ~registered
    <3>1. outcome'[e] \in FailureClasses \/ (outcome'[e] = "skipped" /\ ~Needed(e))
      BY <1>0, <1>3, <2>2, GotoSets
      DEF Acquire, EventFails, Claim, GiveUp, FailureClasses, IInv, TypeOK, NamingType
    <3> QED BY <1>2, <3>1
  <2>3. pc'[e] \in {"claim", "call", "exited"}
    BY <1>0, <1>3, GotoSets DEF Acquire, EventFails, Claim, GiveUp, IInv
  <2> QED BY <2>1, <2>2, <2>3 DEF OutcomeKnown, CleanExit
<1>4. CASE CallSucceeds(e) \/ CallFails(e)
  <2>1. pc'[e] = "commit" /\ outcome'[e] \in FailureClasses \cup {"succeeded"}
    BY <1>0, <1>4, GotoSets DEF CallSucceeds, CallFails, IInv, TypeOK, NamingType
  <2> QED BY <2>1 DEF OutcomeKnown, CleanExit
<1>5. CASE Commit(e)
  <2>1. pc[e] = "commit" /\ pc'[e] = "finish" /\ outcome' = outcome
    BY <1>0, <1>5, GotoSets DEF Commit, IInv, locals
  <2>2. outcome[e] = "succeeded" => ~registered'
    BY <1>0, <1>5 DEF Commit, Committed
  <2> QED BY <2>1, <2>2 DEF OutcomeKnown, CleanExit
<1>6. CASE Finish(e)
  <2>1. pc[e] = "finish" /\ pc'[e] = "exited" /\ outcome' = outcome /\ registered' = registered
    BY <1>0, <1>6, GotoSets DEF Finish, IInv, targets
  <2> QED BY <2>1 DEF OutcomeKnown, CleanExit
<1> QED BY <1>3, <1>4, <1>5, <1>6 DEF NamingRpc

LEMMA StepKeepsOutcome == IInv /\ OutcomeInv /\ [Next]_vars => OutcomeInv'
<1> SUFFICES ASSUME IInv, OutcomeInv, [Next]_vars, NEW e \in Exits PROVE OutcomeKnown(e)'
  BY DEF OutcomeInv
<1>0. OutcomeKnown(e) /\ e \in Threads
  BY DEF OutcomeInv, Threads
<1>1. CASE UNCHANGED vars
  BY <1>0, <1>1, OthersKeepOutcome DEF vars, locals
<1>2. ASSUME NEW t \in Threads, NamingRpc(t) PROVE OutcomeKnown(e)'
  <2>1. CASE t = e
    BY <1>0, <1>2, <2>1, RpcKeepsOutcome
  <2>2. CASE t # e
    <3>1. pc'[e] = pc[e]
      BY <1>0, <1>2, <2>2, RpcMovesItself DEF Stays
    <3>2. outcome'[e] = outcome[e]
      BY <1>0, <1>2, <2>2
      DEF NamingRpc, Acquire, EventFails, Claim, CallSucceeds, CallFails, Commit, Finish, GiveUp,
          locals, IInv, TypeOK, NamingType
    <3> QED BY <1>0, <3>1, <3>2, OthersKeepOutcome
  <2> QED BY <2>1, <2>2
<1>3. ASSUME NEW c \in Callers, RegisterCommand(c) \/ DeregisterCommand(c) \/ CallerStep(c),
             ~NamingRpc(c)
      PROVE  OutcomeKnown(e)'
  <2>1. outcome'[e] = outcome[e]
    <3>1. outcome' = outcome \/ outcome' = [outcome EXCEPT ![c] = "none"]
      BY <1>3 DEF RegisterCommand, StartThread, StartFails, DeregisterCommand, Wake, Settle,
                  Reschedule, CallerStep, PrepareRegister, locals
    <3> QED BY <1>0, <3>1, ThreadsAssumption DEF IInv, TypeOK, NamingType
  <2>2. pc'[e] = pc[e]
    BY <1>3, CallerUntouched DEF CallerStep, ExitsUntouched, IInv, Ownership
  <2> QED BY <1>0, <2>1, <2>2, OthersKeepOutcome
<1>4. ASSUME NEW w \in Workers, WorkerStep(w), ~NamingRpc(w) PROVE OutcomeKnown(e)'
  <2>1. outcome'[e] = outcome[e]
    <3>1. outcome' = outcome \/ \E x : outcome' = [outcome EXCEPT ![w] = x]
      BY <1>4 DEF WorkerStep, Top, WaitSnapshot, WaitClear, WaitRecheck, WaitWoken, WaitTimesOut,
                  WaitRaises, Recheck, Prepare, PrepareFails, After, Record, Decide, Leave
    <3> QED BY <1>0, <3>1, ThreadsAssumption DEF IInv, TypeOK, NamingType
  <2>2. pc'[e] = pc[e]
    BY <1>4, WorkerUntouched DEF ExitsUntouched, IInv
  <2> QED BY <1>0, <2>1, <2>2, OthersKeepOutcome
<1>5. ASSUME NEW f \in Exits, ExitBegin(f) \/ ExitStep(f), ~NamingRpc(f) PROVE OutcomeKnown(e)'
  <2>1. CASE f = e
    BY <1>5, <2>1, ExitKeepsOutcome DEF ExitStep
  <2>2. CASE f # e
    <3>1. pc'[e] = pc[e] /\ outcome' = outcome
      BY <1>0, <1>5, <2>2, ExitMovesItself
      DEF Stays, ExitStep, ExitBegin, ExitWake, ExitWaited, ExitTimesOut, ExitCheck, locals
    <3> QED BY <1>0, <3>1, OthersKeepOutcome
  <2> QED BY <2>1, <2>2
<1> QED
  BY <1>1, <1>2, <1>3, <1>4, <1>5 DEF Next, CallerStep, WorkerStep, ExitStep, Threads

(* README.md, "Design guarantees": the runtime does not lose sight of what *)
(* Nacos holds.  Between calls it is the cached identity, or nothing, but  *)
(* for identities whose last call got no good answer.                      *)
THEOREM NacosIsKnown == Spec => []ServerMatchesRuntime
<1>1. ServerInv => ServerMatchesRuntime
  BY DEF ServerInv, ServerMatchesRuntime, Agrees, Succeeded
<1> QED BY <1>1, ServerInvariance, PTL

(* _deregister_on_exit: an exit that neither timed out nor failed leaves   *)
(* nothing registered, in the runtime or in Nacos.                         *)
THEOREM ExitCleansUp == Spec => []CleanExitLeavesNothing
<1>1. Init => OutcomeInv
  BY ThreadsAssumption DEF Init, OutcomeInv, OutcomeKnown, CleanExit, Threads
<1>2. IInv /\ ServerInv /\ OutcomeInv => CleanExitLeavesNothing
  <2> SUFFICES ASSUME IInv, ServerInv, OutcomeInv, NEW e \in Exits, CleanExit(e)
               PROVE  ~registered /\ server \subseteq doubtful
    BY DEF CleanExitLeavesNothing
  <2>1. ~registered
    BY DEF OutcomeInv, OutcomeKnown
  <2>2. \A t \in Threads : ~Succeeded(t)
    BY DEF Succeeded, CleanExit, IInv, ExitInv
  <2> QED BY <2>1, <2>2 DEF ServerInv, Agrees, IInv, TypeOK, NamingType
<1> QED BY <1>1, <1>2, StepKeepsOutcome, ServerInvariance, PTL DEF Spec

(* Once the exit handler is through, no worker or command still under way  *)
(* registers, deregisters or commits: the gates are closed for good.       *)
THEOREM ExitClosesTheGates == Spec => ExitIsFinal
<1>1. IInv /\ [Next]_vars =>
        [\A e \in Exits : DeregisterOnExit /\ pc[e] = "exited"
            => UNCHANGED <<registered, registered_identity, server>>]_vars
  <2> SUFFICES ASSUME IInv, [Next]_vars, NEW e \in Exits, DeregisterOnExit, pc[e] = "exited"
               PROVE  UNCHANGED <<registered, registered_identity, server>>
    OBVIOUS
  <2>1. \A t \in Threads : pc[t] \notin {"call", "commit"}
    BY DEF IInv, ExitInv
  <2> QED BY <2>1, OnlyCallsRegister
<1> QED BY <1>1, Invariance, PTL DEF Spec, ExitIsFinal

(***************************************************************************)
(* The deadline of the exit handler                                        *)
(***************************************************************************)
TimerType ==
    rpc_timeout \in Timeouts \cup {0} /\ rpc_age \in Nat /\ wait_timeout \in Nat /\ wait_left \in Nat

(* What is left of the wait takes the call past its timeout and the grace. *)
Patient == wait_timeout = WaitMax \/ wait_left + rpc_age >= CallTimeout + Grace

DeadlineInv ==
    /\ TimerType
    /\ \A e \in Exits : pc[e] = "await" => handle[e] # None /\ Patient

(* Nobody but the exit itself begins a call while the process is closing.  *)
LEMMA NoCallBegins ==
  ASSUME IInv, [Next]_vars, shutting_down, NEW t \in Threads \ Exits, Claimed(t)
  PROVE  FALSE
<1>1. \A u \in Threads : NamingRpc(u) => u = t
  BY RpcMovesItself DEF Claimed, Stays
<1>2. ~NamingRpc(t)
  <2>1. ~Needed(t)
    BY DEF Needed
  <2>2. NamingRpc(t) => pc'[t] = Return(t)
    BY <2>1, GotoSets
    DEF Claimed, IInv, NamingRpc, Acquire, EventFails, Claim, CallSucceeds, CallFails, Commit,
        Finish, GiveUp
  <2> QED BY <2>2 DEF Claimed, Return
<1>3. ~CallsUntouched /\ ~UNCHANGED vars
  BY DEF Claimed, CallsUntouched, vars
<1> QED
  BY <1>1, <1>2, <1>3, CallerUntouched, WorkerUntouched, ExitKeepsExits
  DEF Next, CallerStep, WorkerStep, ExitStep, Threads, IInv, Ownership

(* While an exit waits, or begins to, the clock of the call is not reset.  *)
LEMMA ClockIsKept ==
  ASSUME IInv, Next, StartedAt, NEW e \in Exits, handle[e] # None,
         pc[e] = "await" \/ (pc[e] = "wake" /\ pc'[e] = "await")
  PROVE  UNCHANGED <<rpc_timeout, rpc_age>>
<1>1. \A t \in Threads \ Exits : ~Claimed(t)
  BY NoCallBegins DEF IInv, ExitInv
<1>2. \A f \in Exits : ~Claimed(f)
  BY DEF Claimed, IInv, ExitInv
<1> QED BY <1>1, <1>2 DEF StartedAt, Watched

(* The wait itself: who begins it, and that it keeps its call. *)
LEMMA ExitAwaits ==
  ASSUME IInv, [Next]_vars, NEW e \in Exits, pc'[e] = "await"
  PROVE  /\ handle'[e] = handle[e]
         /\ pc[e] = "await" \/ (pc[e] = "wake" /\ handle[e] # None)
<1>0. e \in Threads
  BY DEF Threads
<1>1. CASE ExitsUntouched
  BY <1>1 DEF ExitsUntouched
<1>2. CASE UNCHANGED vars
  BY <1>2 DEF vars, locals
<1>3. ASSUME NEW t \in Threads, NamingRpc(t)
      PROVE  handle' = handle /\ pc'[e] = pc[e]
  <2>1. t # e
    <3> SUFFICES ASSUME t = e PROVE FALSE
      OBVIOUS
    <3>1. \E l \in RpcPcs \cup {"exited"} : Goto(e, l)
      BY <1>3, ThreadsAssumption DEF NamingRpc, Acquire, EventFails, Claim, CallSucceeds, CallFails,
        Commit, Finish, GiveUp, Return, Threads
    <3> QED BY <1>0, <3>1, GotoSets DEF IInv
  <2> QED BY <1>0, <1>3, <2>1, RpcMovesOn, RpcMovesItself DEF MovesOn, Stays
<1>4. ASSUME NEW f \in Exits, ExitBegin(f) \/ ExitStep(f), ~NamingRpc(f), pc[e] # "await"
      PROVE  handle'[e] = handle[e] /\ pc[e] = "wake" /\ handle[e] # None
  <2>1. f = e
    BY <1>0, <1>4, ExitMovesItself DEF Stays, ExitStep
  <2>2. ExitWake(e)
    BY <1>0, <1>4, <2>1, GotoSets
    DEF ExitBegin, ExitStep, ExitWake, ExitWaited, ExitTimesOut, ExitCheck, IInv
  <2> QED BY <1>0, <2>2, GotoSets DEF ExitWake, locals, IInv
<1>5. ASSUME NEW f \in Exits, ExitBegin(f) \/ ExitStep(f), ~NamingRpc(f), pc[e] = "await"
      PROVE  handle'[e] = handle[e]
  BY <1>5 DEF ExitBegin, ExitStep, ExitWake, ExitWaited, ExitTimesOut, ExitCheck, locals, IInv, ExitInv
<1> QED
  BY <1>1, <1>2, <1>3, <1>4, <1>5, CallerUntouched, WorkerUntouched
  DEF Next, CallerStep, WorkerStep, ExitStep, Threads, IInv, Ownership

LEMMA TimersTyped ==
  ASSUME TimerType
  PROVE  CallTimeout \in Timeouts \cup {Fallback} /\ CallTimeout \in Nat /\ WaitTimeout \in Nat
<1>1. CallTimeout \in Timeouts \cup {Fallback} /\ CallTimeout \in Nat
  BY DeadlineAssumption DEF TimerType, CallTimeout
<1> QED BY <1>1, DeadlineAssumption DEF TimerType, WaitTimeout, Smaller

LEMMA TickKeepsDeadline ==
  ASSUME DeadlineInv, Tick
  PROVE  DeadlineInv'
<1>1. CallTimeout' = CallTimeout /\ UNCHANGED <<pc, handle, wait_timeout, rpc_timeout>>
  BY DEF Tick, CallTimeout, vars, locals
<1>2. /\ rpc_age' \in {rpc_age, Smaller(rpc_age + 1, MaxAge)}
      /\ wait_left' = IF wait_left > 0 THEN wait_left - 1 ELSE 0
  BY DEF Tick
<1>3. TimerType'
  BY <1>1, <1>2, DeadlineAssumption DEF DeadlineInv, TimerType, Smaller
<1>4. ASSUME NEW e \in Exits, pc[e] = "await" PROVE Patient'
  <2>1. naming_rpc # None \/ Watched
    BY <1>4 DEF DeadlineInv, Watched
  <2>2. rpc_age' = Smaller(rpc_age + 1, MaxAge)
    BY <2>1 DEF Tick
  <2>3. CallTimeout \in Nat /\ CallTimeout + Grace <= MaxAge
    BY TimersTyped, DeadlineAssumption DEF DeadlineInv
  <2>4. Patient
    BY <1>4 DEF DeadlineInv
  <2> QED
    BY <1>1, <1>2, <2>2, <2>3, <2>4, DeadlineAssumption DEF Patient, Smaller, DeadlineInv, TimerType
<1> QED BY <1>1, <1>3, <1>4 DEF DeadlineInv

LEMMA StepKeepsDeadline ==
  ASSUME IInv, DeadlineInv, Timed(Next)
  PROVE  DeadlineInv'
<1>0. Next /\ StartedAt /\ WaitBegins
  BY DEF Timed
<1>1. TimerType'
  <2>1. rpc_timeout' \in Timeouts \cup {0} /\ rpc_age' \in Nat
    BY <1>0 DEF StartedAt, DeadlineInv, TimerType
  <2>2. wait_timeout' \in Nat /\ wait_left' \in Nat
    BY <1>0, TimersTyped DEF WaitBegins, DeadlineInv, TimerType
  <2> QED BY <2>1, <2>2 DEF TimerType
<1>2. ASSUME NEW e \in Exits, pc'[e] = "await" PROVE handle'[e] # None /\ Patient'
  <2>1. /\ handle'[e] = handle[e] /\ handle[e] # None
        /\ pc[e] = "await" \/ pc[e] = "wake"
    BY <1>0, <1>2, ExitAwaits DEF DeadlineInv
  <2>2. UNCHANGED <<rpc_timeout, rpc_age>>
    BY <1>0, <1>2, <2>1, ClockIsKept
  <2>3. CallTimeout' = CallTimeout
    BY <2>2 DEF CallTimeout
  <2>4. CASE pc[e] = "await"
    <3>1. \A f \in Exits : pc[f] # "wake"
      BY <2>4 DEF IInv, ExitInv
    <3>2. UNCHANGED <<wait_timeout, wait_left>>
      BY <1>0, <3>1 DEF WaitBegins
    <3> QED BY <2>1, <2>2, <2>3, <2>4, <3>2 DEF DeadlineInv, Patient
  <2>5. CASE pc[e] = "wake"
    <3>1. wait_timeout' = WaitTimeout /\ wait_left' = WaitTimeout
      BY <1>0, <1>2, <2>5 DEF WaitBegins
    <3>2. WaitTimeout = WaitMax \/ WaitTimeout + rpc_age >= CallTimeout + Grace
      BY TimersTyped, DeadlineAssumption DEF WaitTimeout, Smaller, DeadlineInv, TimerType
    <3> QED BY <2>1, <2>2, <2>3, <3>1, <3>2 DEF Patient
  <2> QED BY <2>1, <2>4, <2>5
<1> QED BY <1>1, <1>2 DEF DeadlineInv

LEMMA DeadlineInvariance ==
  TimedInit /\ [][TimedNext]_timed_vars => [](IInv /\ DeadlineInv)
<1>1. TimedInit => IInv /\ DeadlineInv
  <2> SUFFICES ASSUME TimedInit PROVE IInv /\ DeadlineInv
    OBVIOUS
  <2>1. IInv
    BY IInvInit DEF TimedInit
  <2>2. \A e \in Exits : pc[e] = "idle"
    BY ThreadsAssumption DEF TimedInit, Init, Threads
  <2> QED BY <2>1, <2>2 DEF TimedInit, DeadlineInv, TimerType
<1>2. IInv /\ DeadlineInv /\ [TimedNext]_timed_vars => IInv' /\ DeadlineInv'
  <2> SUFFICES ASSUME IInv, DeadlineInv, [TimedNext]_timed_vars PROVE IInv' /\ DeadlineInv'
    OBVIOUS
  <2>1. [Next]_vars
    BY DEF TimedNext, Timed, Tick, timed_vars
  <2>2. ASSUME UNCHANGED timed_vars PROVE DeadlineInv'
    BY <2>2 DEF timed_vars, timers, vars, locals, DeadlineInv, TimerType, Patient, CallTimeout
  <2> QED BY <2>1, <2>2, IInvNext, TickKeepsDeadline, StepKeepsDeadline DEF TimedNext
<1> QED BY <1>1, <1>2, PTL

(* The clock only takes behaviours away: what is proved of Lifecycle holds *)
(* of the program with its deadline.                                       *)
THEOREM TimingRefines == TimedSpec => Spec
<1>1. TimedInit => Init
  BY DEF TimedInit
<1>2. [TimedNext]_timed_vars => [Next]_vars
  BY DEF TimedNext, Timed, Tick, timed_vars
<1> QED BY <1>1, <1>2, PTL DEF TimedSpec, Spec

(* _exit_wait_timeout: whatever the timeout of the call and however late   *)
(* in it the exit begins, the handler gives up only for a call that has    *)
(* overrun its timeout and the grace, or after _EXIT_RPC_WAIT_MAX.         *)
THEOREM PatientExit == TimedSpec => GivesUpOnlyOnOverrun
<1>1. IInv /\ DeadlineInv /\ [TimedNext]_timed_vars =>
        [\A e \in Exits : TimesOut(e) =>
            \/ rpc_age >= CallTimeout + Grace
            \/ wait_timeout = WaitMax]_timed_vars
  <2> SUFFICES ASSUME IInv, DeadlineInv, [TimedNext]_timed_vars, NEW e \in Exits, TimesOut(e)
               PROVE  rpc_age >= CallTimeout + Grace \/ wait_timeout = WaitMax
    OBVIOUS
  <2>1. WaitExpires
    BY DEF TimedNext, Timed, Tick, TimesOut, timed_vars, vars
  <2>2. wait_left = 0 /\ Patient
    BY <2>1 DEF WaitExpires, TimesOut, DeadlineInv
  <2> QED BY <2>2 DEF Patient, DeadlineInv, TimerType
<1> QED BY <1>1, DeadlineInvariance, PTL DEF TimedSpec, GivesUpOnlyOnOverrun
===============================================================================
