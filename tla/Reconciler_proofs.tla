-------------------------- MODULE Reconciler_proofs --------------------------
(***************************************************************************)
(* Proofs about Reconciler, for every number of sources, targets and       *)
(* workers and every value of the bounds: IInv is inductive, hence types   *)
(* are kept, no lock leaks, and no target is synced by two goroutines; the *)
(* locks of the targets implement TargetLock; and the status that is shown *)
(* is true of what the last sync left (StatusInv).                         *)
(***************************************************************************)
EXTENDS Reconciler, TLAPS

USE QueueSizeAssumption, BoundsAssumption, NoneAssumption
    DEF storeVars, outsideVars, registryVars, cacheVars, lockVars, localVars, tickerVars

-----------------------------------------------------------------------------
\* The initial states satisfy the invariant.
LEMMA InitIInv == Init => IInv
<1> SUFFICES ASSUME Init PROVE IInv
  OBVIOUS
<1>1. OutsideTypes
  BY DEF Init, OutsideTypes, Manifest, Downstream, Diverged, Snapshot
<1>2. RegistryTypes
  BY DEF Init, RegistryTypes
<1>3. CacheTypes
  BY DEF Init, CacheTypes
<1>4. QueueTypes
  BY DEF Init, QueueTypes
<1>5. LocalTypes
  BY DEF Init, LocalTypes, PCs, NoData, Unread, NoRun, Run
<1>6. ObjectsMade
  BY DEF Init, ObjectsMade, ActiveObjects
<1>7. WorkersFit
  BY DEF Init, WorkersFit, TaskFits, RunsFit, SinglePCs, BatchPCs, NoRun
<1>8. OwnersUnique /\ LocksAccounted
  BY DEF Init, OwnersUnique, LocksAccounted, Owns, OwnsBatch, SinglePCs, BatchPCs
<1> QED
  BY <1>1, <1>2, <1>3, <1>4, <1>5, <1>6, <1>7, <1>8 DEF IInv, TypeOK

-----------------------------------------------------------------------------
(***************************************************************************)
(* The locks and their owners.  A step keeps OwnersUnique and              *)
(* LocksAccounted when it changes what one worker owns and the lock maps   *)
(* together.                                                               *)
(***************************************************************************)
\* A step that leaves the locks and everyone's ownership alone.
LEMMA LocksKept ==
  ASSUME OwnersUnique, LocksAccounted, UNCHANGED lockVars,
         \A v \in Workers, t \in Targets : Owns(v, t)' <=> Owns(v, t),
         \A v \in Workers, s \in Sources : OwnsBatch(v, s)' <=> OwnsBatch(v, s)
  PROVE  OwnersUnique' /\ LocksAccounted'
BY DEF OwnersUnique, LocksAccounted

\* LoadOrStore: w takes the lock of a target nobody owns.
LEMMA TargetTaken ==
  ASSUME OwnersUnique, LocksAccounted, NEW w \in Workers, NEW u \in Targets,
         ~TargetLocked(u), LockTarget(u), UNCHANGED reconcilingBatches,
         \A v \in Workers, t \in Targets : Owns(v, t)' <=> Owns(v, t) \/ (v = w /\ t = u),
         \A v \in Workers, s \in Sources : OwnsBatch(v, s)' <=> OwnsBatch(v, s)
  PROVE  OwnersUnique' /\ LocksAccounted'
BY DEF OwnersUnique, LocksAccounted, TargetLocked, LockTarget

\* Delete: w gives up a lock that is its own.
LEMMA TargetReleased ==
  ASSUME OwnersUnique, LocksAccounted, NEW w \in Workers, NEW u \in Targets,
         Owns(w, u), UnlockTarget(u), UNCHANGED reconcilingBatches,
         \A v \in Workers, t \in Targets : Owns(v, t)' <=> Owns(v, t) /\ ~(v = w /\ t = u),
         \A v \in Workers, s \in Sources : OwnsBatch(v, s)' <=> OwnsBatch(v, s)
  PROVE  OwnersUnique' /\ LocksAccounted'
BY DEF OwnersUnique, LocksAccounted, UnlockTarget

\* The same for the lock of a batch.
LEMMA BatchTaken ==
  ASSUME OwnersUnique, LocksAccounted, NEW w \in Workers, NEW r \in Sources,
         r \notin reconcilingBatches, reconcilingBatches' = reconcilingBatches \cup {r},
         UNCHANGED reconcilingTargets,
         \A v \in Workers, t \in Targets : Owns(v, t)' <=> Owns(v, t),
         \A v \in Workers, s \in Sources : OwnsBatch(v, s)' <=> OwnsBatch(v, s) \/ (v = w /\ s = r)
  PROVE  OwnersUnique' /\ LocksAccounted'
BY DEF OwnersUnique, LocksAccounted

\* The lock of a batch is deleted by its only owner.
LEMMA BatchReleased ==
  ASSUME OwnersUnique, LocksAccounted, NEW w \in Workers, NEW r \in Sources,
         OwnsBatch(w, r), reconcilingBatches' = reconcilingBatches \ {r},
         UNCHANGED reconcilingTargets,
         \A v \in Workers, t \in Targets : Owns(v, t)' <=> Owns(v, t),
         \A v \in Workers, s \in Sources : OwnsBatch(v, s)' <=> OwnsBatch(v, s) /\ ~(v = w /\ s = r)
  PROVE  OwnersUnique' /\ LocksAccounted'
BY DEF OwnersUnique, LocksAccounted

-----------------------------------------------------------------------------
(***************************************************************************)
(* Steps of the environment, of the ticker and of the other senders: no    *)
(* worker, run or lock changes.                                            *)
(***************************************************************************)
\* A step that touches no lock and no worker keeps all but, perhaps, the types.
LEMMA OutsideStep ==
  ASSUME IInv, UNCHANGED <<localVars, run, lockVars>>, TypeOK', ObjectsMade'
  PROVE  IInv'
<1>1. WorkersFit'
  BY DEF IInv, WorkersFit, TaskFits, RunsFit, IsBatch
<1>2. OwnersUnique' /\ LocksAccounted'
  BY LocksKept DEF IInv, Owns, OwnsBatch
<1> QED
  BY <1>1, <1>2 DEF IInv

\* The objects stay made when no operator and no manifest changes.
LEMMA ObjectsKept ==
  ASSUME ObjectsMade, UNCHANGED <<activeOperators, manifest, target, todo>>
  PROVE  ObjectsMade'
BY DEF ObjectsMade, ActiveObjects

\* A step that may count a fault.
Faulty == (\E call \in Calls : Fault(call)) \/ UNCHANGED env

\* An event is counted as one of its kind.
LEMMA EventCounted ==
  ASSUME OutsideTypes, NEW kind \in DOMAIN env, NEW bound, Occurs(kind, bound) \/ UNCHANGED env
  PROVE  env' \in [data : Nat, edits : Nat, faults : Nat, triggers : Nat, webhooks : Nat]
<1>1. env \in [data : Nat, edits : Nat, faults : Nat, triggers : Nat, webhooks : Nat]
  BY DEF OutsideTypes
<1>2. env[kind] \in Nat
  BY <1>1
<1> QED
  BY <1>1, <1>2 DEF Occurs

\* A fault is counted.
LEMMA FaultCounted ==
  ASSUME OutsideTypes, Faulty
  PROVE  env' \in [data : Nat, edits : Nat, faults : Nat, triggers : Nat, webhooks : Nat]
<1>1. "faults" \in DOMAIN env
  BY DEF OutsideTypes
<1> QED
  BY <1>1, EventCounted DEF Faulty, Fault

\* A step outside the store, the sources and the services may count a fault.
LEMMA OutsideKept ==
  ASSUME OutsideTypes, UNCHANGED <<storeVars, outsideVars>>, Faulty
  PROVE  OutsideTypes'
BY FaultCounted DEF OutsideTypes

\* The environment takes no lock and moves no worker.
LEMMA EnvironmentIInv == ASSUME IInv, EnvironmentStep PROVE IInv'
<1> USE DEF IInv, TypeOK, EnvironmentStep
<1>1. CASE \E t \in Targets : EditTarget(t) \/ ToggleTarget(t)
  <2>1. PICK t \in Targets : EditTarget(t) \/ ToggleTarget(t)
    BY <1>1
  <2>2. OutsideTypes'
    <3>1. "edits" \in DOMAIN env /\ Occurs("edits", MaxEdits)
      BY <2>1 DEF OutsideTypes, EditTarget, ToggleTarget, Edit
    <3>2. env' \in [data : Nat, edits : Nat, faults : Nat, triggers : Nat, webhooks : Nat]
      BY <3>1, EventCounted
    <3> QED
      BY <2>1, <3>2 DEF OutsideTypes, EditTarget, ToggleTarget, Manifest
  <2>3. RegistryTypes' /\ CacheTypes' /\ QueueTypes' /\ LocalTypes'
    BY <2>1 DEF RegistryTypes, CacheTypes, QueueTypes, LocalTypes, EditTarget, ToggleTarget
  <2> QED
    BY <2>1, <2>2, <2>3, ObjectsKept, OutsideStep DEF EditTarget, ToggleTarget
<1>2. CASE \E s \in Sources : EditSource(s) \/ ToggleSource(s) \/ ChangeData(s)
  <2>1. PICK s \in Sources : EditSource(s) \/ ToggleSource(s) \/ ChangeData(s)
    BY <1>2
  <2>2. OutsideTypes'
    <3>1. /\ "edits" \in DOMAIN env /\ "data" \in DOMAIN env
          /\ Occurs("edits", MaxEdits) \/ Occurs("data", MaxData)
      BY <2>1 DEF OutsideTypes, EditSource, ToggleSource, ChangeData, Edit
    <3>2. env' \in [data : Nat, edits : Nat, faults : Nat, triggers : Nat, webhooks : Nat]
      BY <3>1, EventCounted
    <3>3. data' \in [Sources -> Nat]
      BY <2>1 DEF OutsideTypes, EditSource, ToggleSource, ChangeData
    <3> QED
      BY <2>1, <3>2, <3>3 DEF OutsideTypes, EditSource, ToggleSource, ChangeData
  <2>3. RegistryTypes' /\ CacheTypes' /\ QueueTypes' /\ LocalTypes'
    BY <2>1 DEF RegistryTypes, CacheTypes, QueueTypes, LocalTypes, EditSource, ToggleSource,
                ChangeData
  <2> QED
    BY <2>1, <2>2, <2>3, ObjectsKept, OutsideStep DEF EditSource, ToggleSource, ChangeData
<1>3. CASE \E o \in ActiveObjects : PeriodElapses(o)
  <2>1. OutsideTypes' /\ CacheTypes' /\ QueueTypes' /\ LocalTypes'
    BY <1>3 DEF OutsideTypes, CacheTypes, QueueTypes, LocalTypes, PeriodElapses
  <2>2. RegistryTypes'
    BY <1>3 DEF RegistryTypes, PeriodElapses
  <2> QED
    BY <1>3, <2>1, <2>2, ObjectsKept, OutsideStep DEF PeriodElapses
<1>4. CASE \E o \in ActiveObjects : TriggerReconciliation(o)
  <2>1. PICK o \in ActiveObjects : TriggerReconciliation(o)
    BY <1>4
  <2>2. o[1] \in Targets /\ manifest[o].src \in Sources
    BY <2>1 DEF ActiveObjects, ObjectsMade, RegistryTypes, Manifest
  <2>3. OutsideTypes'
    <3>1. "triggers" \in DOMAIN env /\ Occurs("triggers", MaxTriggers)
      BY <2>1 DEF OutsideTypes, TriggerReconciliation
    <3>2. env' \in [data : Nat, edits : Nat, faults : Nat, triggers : Nat, webhooks : Nat]
      BY <3>1, EventCounted
    <3> QED
      BY <2>1, <3>2 DEF OutsideTypes, TriggerReconciliation
  <2>4. QueueTypes'
    <3>1. [kind |-> "manual", source |-> manifest[o].src, target |-> o[1]] \in Task
      BY <2>2 DEF Task
    <3> QED
      BY <2>1, <3>1 DEF QueueTypes, TriggerReconciliation, TrySend
  <2>5. RegistryTypes' /\ CacheTypes' /\ LocalTypes'
    BY <2>1 DEF RegistryTypes, CacheTypes, LocalTypes, TriggerReconciliation
  <2> QED
    BY <2>1, <2>3, <2>4, <2>5, ObjectsKept, OutsideStep DEF TriggerReconciliation
<1>5. CASE \E o \in ActiveObjects : FlushWebhook(o)
  <2>1. PICK o \in ActiveObjects : FlushWebhook(o)
    BY <1>5
  <2>2. o[1] \in Targets /\ manifest[o].src \in Sources
    BY <2>1 DEF ActiveObjects, ObjectsMade, RegistryTypes, Manifest
  <2>3. OutsideTypes'
    <3>1. "webhooks" \in DOMAIN env /\ Occurs("webhooks", MaxWebhooks)
      BY <2>1 DEF OutsideTypes, FlushWebhook
    <3>2. env' \in [data : Nat, edits : Nat, faults : Nat, triggers : Nat, webhooks : Nat]
      BY <3>1, EventCounted
    <3> QED
      BY <2>1, <3>2 DEF OutsideTypes, FlushWebhook
  <2>4. QueueTypes'
    <3>1. [kind |-> "webhook", source |-> manifest[o].src, target |-> o[1]] \in Task
      BY <2>2 DEF Task
    <3> QED
      BY <2>1, <3>1 DEF QueueTypes, FlushWebhook, TrySend
  <2>5. RegistryTypes' /\ CacheTypes' /\ LocalTypes'
    BY <2>1 DEF RegistryTypes, CacheTypes, LocalTypes, FlushWebhook
  <2> QED
    BY <2>1, <2>3, <2>4, <2>5, ObjectsKept, OutsideStep DEF FlushWebhook
<1> QED
  BY <1>1, <1>2, <1>3, <1>4, <1>5

\* globalTicker: reloadFromStore changes the registry, scheduling the queue.
LEMMA AddAndRemoveMade ==
  ASSUME IInv, NEW added \in SUBSET Addable, AddAndRemove(added), UNCHANGED <<activeSources,
         storeVars, status, localVars>>
  PROVE  RegistryTypes' /\ ObjectsMade'
<1> USE DEF IInv, TypeOK, AddAndRemove, Addable
<1>1. \A t \in added : created[t] + 1 \in 1..MaxGen /\ targetManifest[t] \in Manifest
  BY DEF RegistryTypes, OutsideTypes
<1>2. RegistryTypes'
  BY <1>1 DEF RegistryTypes, OutsideTypes
<1>3. \A o \in Targets \X (1..MaxGen) : manifest[o] # None => manifest'[o] # None
  BY <1>1 DEF RegistryTypes, OutsideTypes
<1>4. ASSUME NEW o \in ActiveObjects' PROVE manifest'[o] # None
  <2>1. o[1] \in Targets /\ o \in Targets \X (1..MaxGen) /\ activeOperators'[o[1]] = o[2]
    BY DEF ActiveObjects
  <2>2. CASE o[1] \in added
    <3>1. o = <<o[1], created[o[1]] + 1>>
      BY <2>1, <2>2
    <3> QED
      BY <2>1, <2>2, <3>1, <1>1 DEF RegistryTypes
  <2>3. CASE o[1] \notin added
    <3>1. activeOperators[o[1]] = o[2]
      BY <2>1, <2>3
    <3> QED
      BY <2>1, <3>1, <1>3 DEF ActiveObjects, ObjectsMade
  <2> QED
    BY <2>2, <2>3
<1>5. /\ \A w \in Workers : \A o \in todo'[w] : manifest'[o] # None
      /\ \A w \in Workers : target'[w] # None => manifest'[target'[w]] # None
  BY <1>3 DEF ObjectsMade, LocalTypes
<1> QED
  BY <1>2, <1>4, <1>5 DEF ObjectsMade

\* The ticker publishes objects with their manifests and sends within the capacity.
LEMMA TickerIInv == ASSUME IInv, TickerStep PROVE IInv'
<1> USE DEF IInv, TypeOK
<1>1. CASE Tick \/ EndTick
  <2>1. OutsideTypes' /\ RegistryTypes' /\ CacheTypes' /\ QueueTypes' /\ LocalTypes'
    BY <1>1 DEF OutsideTypes, RegistryTypes, CacheTypes, QueueTypes, LocalTypes, Tick, EndTick
  <2> QED
    BY <1>1, <2>1, ObjectsKept, OutsideStep DEF Tick, EndTick
<1>2. CASE ReloadSources
  <2>1. OutsideTypes'
    BY <1>2, OutsideKept DEF ReloadSources, Faulty, Calls
  <2>2. RegistryTypes' /\ CacheTypes' /\ QueueTypes' /\ LocalTypes'
    BY <1>2 DEF RegistryTypes, CacheTypes, QueueTypes, LocalTypes, ReloadSources, OutsideTypes
  <2> QED
    BY <1>2, <2>1, <2>2, ObjectsKept, OutsideStep DEF ReloadSources
<1>3. CASE ReloadTargets
  <2>1. OutsideTypes'
    BY <1>3, OutsideKept DEF ReloadTargets, Faulty, Calls
  <2>2. CacheTypes' /\ QueueTypes' /\ LocalTypes'
    BY <1>3 DEF CacheTypes, QueueTypes, LocalTypes, ReloadTargets
  <2>3. RegistryTypes' /\ ObjectsMade'
    <3>1. CASE UNCHANGED <<activeOperators, created, manifest, initialised, due>>
      BY <1>3, <3>1, ObjectsKept DEF ReloadTargets, RegistryTypes
    <3>2. CASE \E added \in SUBSET Addable : AddAndRemove(added)
      BY <1>3, <3>2, AddAndRemoveMade DEF ReloadTargets
    <3> QED
      BY <1>3, <3>1, <3>2 DEF ReloadTargets
  <2> QED
    BY <1>3, <2>1, <2>2, <2>3, OutsideStep DEF ReloadTargets
<1>4. CASE Schedule
  <2>1. DueSources \in SUBSET Sources
    BY DEF DueSources, ActiveObjects, ObjectsMade, RegistryTypes, Manifest
  <2>2. OutsideTypes' /\ RegistryTypes' /\ CacheTypes' /\ QueueTypes' /\ LocalTypes'
    BY <1>4, <2>1 DEF OutsideTypes, RegistryTypes, CacheTypes, QueueTypes, LocalTypes, Schedule
  <2> QED
    BY <1>4, <2>2, ObjectsKept, OutsideStep DEF Schedule
<1>5. CASE \E s \in Sources : SendBatch(s)
  <2>1. PICK s \in Sources : SendBatch(s)
    BY <1>5
  <2>2. [kind |-> "batch", source |-> s, target |-> None] \in Task
    BY DEF Task
  <2>3. QueueTypes'
    BY <2>1, <2>2 DEF QueueTypes, SendBatch, TrySend
  <2>4. OutsideTypes' /\ RegistryTypes' /\ CacheTypes' /\ LocalTypes'
    BY <2>1 DEF OutsideTypes, RegistryTypes, CacheTypes, LocalTypes, SendBatch
  <2> QED
    BY <2>1, <2>3, <2>4, ObjectsKept, OutsideStep DEF SendBatch
<1> QED
  BY <1>1, <1>2, <1>3, <1>4, <1>5 DEF TickerStep
-----------------------------------------------------------------------------
(***************************************************************************)
(* Steps of one worker: the locals of the others stay as they are.         *)
(***************************************************************************)
OthersKept(w) == \A v \in Workers : v # w =>
  /\ pc'[v] = pc[v] /\ task'[v] = task[v] /\ target'[v] = target[v] /\ src'[v] = src[v]
  /\ todo'[v] = todo[v] /\ run'[v] = run[v]

KeepsOwn(w) ==
  /\ \A t \in Targets : Owns(w, t)' <=> Owns(w, t)
  /\ \A s \in Sources : OwnsBatch(w, s)' <=> OwnsBatch(w, s)

\* Other workers fit their tasks as before.
LEMMA OthersFit ==
  ASSUME WorkersFit, NEW w \in Workers, OthersKept(w), TaskFits(w)', RunsFit(w)'
  PROVE  WorkersFit'
<1> SUFFICES ASSUME NEW v \in Workers, v # w PROVE TaskFits(v)' /\ RunsFit(v)'
  BY DEF WorkersFit
<1> QED
  BY DEF WorkersFit, OthersKept, TaskFits, RunsFit, IsBatch

\* Other workers own what they owned.
LEMMA OthersOwn ==
  ASSUME NEW w \in Workers, OthersKept(w)
  PROVE  \A v \in Workers : v # w =>
           /\ \A t \in Targets : Owns(v, t)' <=> Owns(v, t)
           /\ \A s \in Sources : OwnsBatch(v, s)' <=> OwnsBatch(v, s)
BY DEF OthersKept, Owns, OwnsBatch

\* A step of w that takes and releases nothing.
LEMMA WorkerMoves ==
  ASSUME IInv, NEW w \in Workers, OthersKept(w), UNCHANGED lockVars,
         TaskFits(w)', RunsFit(w)', KeepsOwn(w)
  PROVE  WorkersFit' /\ OwnersUnique' /\ LocksAccounted'
<1>1. WorkersFit'
  BY OthersFit DEF IInv
<1>2. OwnersUnique' /\ LocksAccounted'
  BY OthersOwn, LocksKept DEF IInv, KeepsOwn
<1> QED
  BY <1>1, <1>2

\* The deferred Delete of executeSingle, from any point after the claim.
LEMMA SingleReturns ==
  ASSUME IInv, NEW w \in Workers, pc[w] \in SinglePCs, ReturnSingle(w),
         run' \in [Workers -> [Targets -> Run]],
         \A v \in Workers : v # w => run'[v] = run[v],
         \A t \in Targets : run'[w][t].phase = "none"
  PROVE  LocalTypes' /\ WorkersFit' /\ OwnersUnique' /\ LocksAccounted'
<1> USE DEF IInv, TypeOK
<1>1. LocalTypes' /\ OthersKept(w)
  BY DEF LocalTypes, OthersKept, ReturnSingle, Return, GoTo, PCs, NoData, Unread
<1>2. pc'[w] = "idle" /\ task[w] \in Task /\ task[w].target \in Targets
  BY DEF LocalTypes, ReturnSingle, Return, GoTo, WorkersFit, TaskFits, IsBatch, Task, SinglePCs
<1>3. TaskFits(w)' /\ RunsFit(w)'
  BY <1>2 DEF TaskFits, RunsFit, SinglePCs, BatchPCs
<1>4. /\ Owns(w, task[w].target)
      /\ \A t \in Targets : ~Owns(w, t)' /\ (Owns(w, t) => t = task[w].target)
      /\ \A s \in Sources : ~OwnsBatch(w, s)' /\ ~OwnsBatch(w, s)
  BY <1>2 DEF Owns, OwnsBatch, SinglePCs, BatchPCs
<1>5. OwnersUnique' /\ LocksAccounted'
  BY <1>1, <1>2, <1>4, OthersOwn, TargetReleased DEF ReturnSingle
<1> QED
  BY <1>1, <1>3, <1>5, OthersFit

\* The deferred Delete of executeBatch, when no goroutine of the batch is left.
LEMMA BatchReturns ==
  ASSUME IInv, NEW w \in Workers, pc[w] \in BatchPCs, ReturnBatch(w), UNCHANGED run,
         \A t \in Targets : run[w][t].phase = "none"
  PROVE  LocalTypes' /\ WorkersFit' /\ OwnersUnique' /\ LocksAccounted'
<1> USE DEF IInv, TypeOK
<1>1. LocalTypes' /\ OthersKept(w)
  BY DEF LocalTypes, OthersKept, ReturnBatch, Return, GoTo, PCs, NoData, Unread
<1>2. pc'[w] = "idle" /\ task[w] \in Task /\ task[w].source \in Sources
  BY DEF LocalTypes, ReturnBatch, Return, GoTo, WorkersFit, TaskFits, IsBatch, Task, BatchPCs
<1>3. TaskFits(w)' /\ RunsFit(w)'
  BY <1>2 DEF TaskFits, RunsFit, SinglePCs, BatchPCs
<1>4. /\ OwnsBatch(w, task[w].source)
      /\ \A t \in Targets : ~Owns(w, t)' /\ ~Owns(w, t)
      /\ \A s \in Sources : ~OwnsBatch(w, s)' /\ (OwnsBatch(w, s) => s = task[w].source)
  BY <1>2 DEF Owns, OwnsBatch, SinglePCs, BatchPCs
<1>5. OwnersUnique' /\ LocksAccounted'
  BY <1>1, <1>2, <1>4, OthersOwn, BatchReleased DEF ReturnBatch
<1> QED
  BY <1>1, <1>3, <1>5, OthersFit

\* Where a worker of each kind has no run.
LEMMA NoRuns ==
  ASSUME IInv, NEW w \in Workers, pc[w] \notin {"visit", "sync"}
  PROVE  \A t \in Targets : run[w][t].phase = "none"
BY DEF IInv, WorkersFit, RunsFit

-----------------------------------------------------------------------------
(***************************************************************************)
(* Taking a task and claiming its lock.                                    *)
(***************************************************************************)
\* A task is taken from the queue: its worker holds nothing yet.
LEMMA DequeueIInv == ASSUME IInv, NEW w \in Workers, Dequeue(w) PROVE IInv'
<1> USE DEF IInv, TypeOK, Dequeue
<1>1. OutsideTypes' /\ RegistryTypes' /\ CacheTypes'
  BY DEF OutsideTypes, RegistryTypes, CacheTypes
<1>2. Head(queue) \in Task /\ QueueTypes'
  BY DEF QueueTypes
<1>3. LocalTypes' /\ OthersKept(w)
  BY <1>2 DEF LocalTypes, OthersKept, PCs, GoTo
<1>4. pc[w] = "idle" /\ pc'[w] = "claim" /\ task'[w] # None
  BY <1>2 DEF LocalTypes, GoTo
<1>5. TaskFits(w)' /\ RunsFit(w)'
  BY <1>4, NoRuns DEF TaskFits, RunsFit, SinglePCs, BatchPCs
<1>6. ObjectsMade'
  BY ObjectsKept
<1>7. KeepsOwn(w)
  BY <1>4 DEF KeepsOwn, Owns, OwnsBatch, SinglePCs, BatchPCs
<1> QED
  BY <1>1, <1>2, <1>3, <1>5, <1>6, <1>7, WorkerMoves

\* A batch starts with the lock of its source, or is dropped.
LEMMA ClaimBatchIInv == ASSUME IInv, NEW w \in Workers, ClaimBatch(w) PROVE IInv'
<1> USE DEF IInv, TypeOK, ClaimBatch
<1>1. OutsideTypes' /\ RegistryTypes' /\ CacheTypes'
  BY DEF OutsideTypes, RegistryTypes, CacheTypes
<1>2. pc[w] = "claim" /\ task[w] \in Task /\ task[w].source \in Sources
  BY DEF LocalTypes, IsBatch, Task
<1>3. QueueTypes'
  BY <1>2 DEF QueueTypes
<1>4. LocalTypes' /\ OthersKept(w)
  <2>1. CASE Return(w)
    BY <1>2, <2>1 DEF LocalTypes, OthersKept, PCs, GoTo, Return, NoData, Unread
  <2>2. CASE ~Return(w)
    BY <1>2, <2>2 DEF LocalTypes, OthersKept, PCs, BatchPCs, GoTo
  <2> QED
    BY <2>1, <2>2
<1>5. ObjectsMade'
  BY DEF ObjectsMade, ActiveObjects, Return, LocalTypes
<1>6. CASE Return(w) /\ UNCHANGED lockVars
  <2>1. pc'[w] = "idle"
    BY <1>6 DEF Return, GoTo, LocalTypes
  <2>2. TaskFits(w)' /\ RunsFit(w)'
    BY <1>2, <2>1, NoRuns DEF TaskFits, RunsFit, SinglePCs, BatchPCs
  <2>3. KeepsOwn(w)
    BY <1>2, <2>1 DEF KeepsOwn, Owns, OwnsBatch, SinglePCs, BatchPCs
  <2> QED
    BY <1>1, <1>3, <1>4, <1>5, <1>6, <2>2, <2>3, WorkerMoves
<1>7. CASE ~(Return(w) /\ UNCHANGED lockVars)
  <2>1. /\ pc'[w] = "refreshSource" /\ src'[w] = task[w].source /\ task' = task
        /\ task[w].source \notin reconcilingBatches
        /\ reconcilingBatches' = reconcilingBatches \cup {task[w].source}
        /\ UNCHANGED reconcilingTargets
    BY <1>7 DEF GoTo, LocalTypes
  <2>2. TaskFits(w)' /\ RunsFit(w)'
    BY <1>2, <2>1, NoRuns DEF TaskFits, RunsFit, SinglePCs, BatchPCs, IsBatch
  <2>3. /\ \A t \in Targets : Owns(w, t)' <=> Owns(w, t)
        /\ \A s \in Sources : OwnsBatch(w, s)' <=> OwnsBatch(w, s) \/ s = task[w].source
    BY <1>2, <2>1 DEF Owns, OwnsBatch, SinglePCs, BatchPCs
  <2>4. OwnersUnique' /\ LocksAccounted'
    BY <1>2, <1>4, <2>1, <2>3, OthersOwn, BatchTaken
  <2> QED
    BY <1>1, <1>3, <1>4, <1>5, <2>2, <2>4, OthersFit
<1> QED
  BY <1>6, <1>7

\* A single task starts with the lock of its target, or is dropped.
LEMMA ClaimTargetIInv == ASSUME IInv, NEW w \in Workers, ClaimTarget(w) PROVE IInv'
<1> USE DEF IInv, TypeOK, ClaimTarget
<1>1. OutsideTypes' /\ RegistryTypes' /\ CacheTypes'
  BY DEF OutsideTypes, RegistryTypes, CacheTypes
<1>2. pc[w] = "claim" /\ task[w] \in Task /\ task[w].target \in Targets
  BY DEF LocalTypes, IsBatch, Task, WorkersFit, TaskFits
<1>3. QueueTypes'
  BY <1>2 DEF QueueTypes, LockTarget
<1>4. LocalTypes' /\ OthersKept(w)
  <2>1. CASE Return(w)
    BY <1>2, <2>1 DEF LocalTypes, OthersKept, PCs, GoTo, Return, NoData, Unread
  <2>2. CASE ~Return(w)
    BY <1>2, <2>2 DEF LocalTypes, OthersKept, PCs, SinglePCs, GoTo
  <2> QED
    BY <2>1, <2>2
<1>5. ObjectsMade'
  BY DEF ObjectsMade, ActiveObjects, Return, LocalTypes
<1>6. CASE Return(w) /\ UNCHANGED lockVars
  <2>1. pc'[w] = "idle"
    BY <1>6 DEF Return, GoTo, LocalTypes
  <2>2. TaskFits(w)' /\ RunsFit(w)'
    BY <1>2, <2>1, NoRuns DEF TaskFits, RunsFit, SinglePCs, BatchPCs
  <2>3. KeepsOwn(w)
    BY <1>2, <2>1 DEF KeepsOwn, Owns, OwnsBatch, SinglePCs, BatchPCs
  <2> QED
    BY <1>1, <1>3, <1>4, <1>5, <1>6, <2>2, <2>3, WorkerMoves
<1>7. CASE ~(Return(w) /\ UNCHANGED lockVars)
  <2>1. /\ pc'[w] = "lookup" /\ task' = task
        /\ ~TargetLocked(task[w].target) /\ LockTarget(task[w].target)
        /\ UNCHANGED reconcilingBatches
    BY <1>7 DEF GoTo, LocalTypes
  <2>2. TaskFits(w)' /\ RunsFit(w)'
    BY <1>2, <2>1, NoRuns DEF TaskFits, RunsFit, SinglePCs, BatchPCs, IsBatch
  <2>3. /\ \A t \in Targets : Owns(w, t)' <=> Owns(w, t) \/ t = task[w].target
        /\ \A s \in Sources : OwnsBatch(w, s)' <=> OwnsBatch(w, s)
    BY <1>2, <2>1 DEF Owns, OwnsBatch, SinglePCs, BatchPCs
  <2>4. OwnersUnique' /\ LocksAccounted'
    BY <1>2, <1>4, <2>1, <2>3, OthersOwn, TargetTaken
  <2> QED
    BY <1>1, <1>3, <1>4, <1>5, <2>2, <2>4, OthersFit
<1> QED
  BY <1>6, <1>7

\* The target of a single task is found, or the task returns.
LEMMA LookupIInv == ASSUME IInv, NEW w \in Workers, Lookup(w) PROVE IInv'
<1> USE DEF IInv, TypeOK, Lookup
<1>1. OutsideTypes' /\ RegistryTypes' /\ CacheTypes'
  BY DEF OutsideTypes, RegistryTypes, CacheTypes
<1>2. /\ pc[w] = "lookup" /\ pc[w] \in SinglePCs /\ ~IsBatch(w)
      /\ task[w] \in Task /\ task[w].target \in Targets
  BY DEF LocalTypes, IsBatch, Task, WorkersFit, TaskFits, SinglePCs
<1>3. QueueTypes'
  BY <1>2 DEF QueueTypes, ReturnSingle, UnlockTarget
<1>4. CASE ReturnSingle(w)
  <2>1. ObjectsMade'
    BY <1>4 DEF ObjectsMade, ActiveObjects, ReturnSingle, Return, LocalTypes
  <2> QED
    BY <1>1, <1>2, <1>3, <1>4, <2>1, NoRuns, SingleReturns DEF LocalTypes
<1>5. CASE ~ReturnSingle(w)
  <2> DEFINE o == <<task[w].target, activeOperators[task[w].target]>>
  <2>1. o \in ActiveObjects
    BY <1>2, <1>5 DEF ActiveObjects, RegistryTypes
  <2>2. LocalTypes' /\ OthersKept(w)
    <3>1. target' = [target EXCEPT ![w] = o] /\ o \in Targets \X (1..MaxGen)
      BY <1>5, <2>1 DEF ActiveObjects
    <3> QED
      BY <1>5, <3>1 DEF LocalTypes, OthersKept, PCs, SinglePCs, GoTo
  <2>3. /\ pc'[w] = "loadTarget" /\ task' = task /\ todo' = todo
        /\ target'[w] = o /\ UNCHANGED lockVars
    BY <1>5 DEF GoTo, LocalTypes
  <2>4. ObjectsMade'
    BY <2>1, <2>2, <2>3 DEF ObjectsMade, ActiveObjects, OthersKept
  <2>5. TaskFits(w)' /\ RunsFit(w)'
    <3>1. target'[w] # None
      BY <2>1, <2>3 DEF ActiveObjects, Object
    <3> QED
      BY <1>2, <2>3, <3>1, NoRuns DEF TaskFits, RunsFit, SinglePCs, BatchPCs, IsBatch
  <2>6. KeepsOwn(w)
    BY <1>2, <2>3 DEF KeepsOwn, Owns, OwnsBatch, SinglePCs, BatchPCs
  <2> QED
    BY <1>1, <1>3, <2>2, <2>3, <2>4, <2>5, <2>6, WorkerMoves
<1> QED
  BY <1>4, <1>5

-----------------------------------------------------------------------------
(***************************************************************************)
(* Refreshing manifests and fetching: a worker advances, keeps its task    *)
(* and its lock, and has no run yet.                                       *)
(***************************************************************************)
\* A worker moves on within its task.
LEMMA WorkerAdvances ==
  ASSUME IInv, NEW w \in Workers, OthersKept(w), UNCHANGED <<lockVars, task, run>>,
         TaskFits(w)', pc[w] \notin {"visit", "sync"}, pc'[w] # "sync",
         \/ pc[w] \in SinglePCs /\ pc'[w] \in SinglePCs
         \/ pc[w] \in BatchPCs /\ pc'[w] \in BatchPCs
  PROVE  WorkersFit' /\ OwnersUnique' /\ LocksAccounted'
<1>1. RunsFit(w)'
  BY NoRuns DEF RunsFit
<1>2. KeepsOwn(w)
  BY NoRuns DEF KeepsOwn, Owns, OwnsBatch, SinglePCs, BatchPCs
<1> QED
  BY <1>1, <1>2, WorkerMoves

\* Both kinds of refresh of a source keep the types of the caches.
LEMMA TryRefreshTypes ==
  ASSUME OutsideTypes, CacheTypes, NEW s \in Sources, TryRefreshSource(s)
  PROVE  CacheTypes' /\ Faulty
<1>1. Faulty
  BY DEF TryRefreshSource, Faulty, Calls
<1>2. CASE UNCHANGED cacheVars
  BY <1>1, <1>2 DEF CacheTypes
<1>3. CASE RefreshSourceManifest(s)
  BY <1>1, <1>3 DEF RefreshSourceManifest, CacheTypes, OutsideTypes
<1> QED
  BY <1>1, <1>2, <1>3 DEF TryRefreshSource

\* A batch refreshes the manifest of its source.
LEMMA RefreshSourceIInv == ASSUME IInv, NEW w \in Workers, RefreshSource(w) PROVE IInv'
<1> USE DEF IInv, TypeOK, RefreshSource
<1>1. /\ pc[w] = "refreshSource" /\ IsBatch(w) /\ src[w] \in Sources
      /\ task[w] # None /\ task[w].source \in Sources
  BY DEF WorkersFit, TaskFits, IsBatch, LocalTypes, Task, BatchPCs
<1>2. OutsideTypes' /\ CacheTypes'
  BY <1>1, TryRefreshTypes, OutsideKept
<1>3. RegistryTypes' /\ QueueTypes' /\ ObjectsMade'
  BY ObjectsKept DEF RegistryTypes, QueueTypes
<1>4. LocalTypes' /\ OthersKept(w) /\ pc'[w] = "loadTargets"
  BY DEF LocalTypes, OthersKept, PCs, BatchPCs, GoTo
<1>5. TaskFits(w)'
  BY <1>1, <1>4 DEF TaskFits, IsBatch, SinglePCs, BatchPCs
<1> QED
  BY <1>1, <1>2, <1>3, <1>4, <1>5, WorkerAdvances DEF BatchPCs

\* The object that a worker holds is one that was made.
LEMMA TargetMade ==
  ASSUME IInv, NEW w \in Workers, pc[w] \in (SinglePCs \ {"lookup"}) \cup {"publishTargets"}
  PROVE  /\ target[w] # None /\ target[w] \in Targets \X (1..MaxGen)
         /\ manifest[target[w]] \in Manifest
<1>1. target[w] # None /\ target[w] \in Targets \X (1..MaxGen)
  BY DEF IInv, TypeOK, LocalTypes, WorkersFit, TaskFits
<1> QED
  BY <1>1 DEF IInv, TypeOK, RegistryTypes, ObjectsMade

\* A single task finds the source its manifest names, or returns.
LEMMA ResolveSourceIInv == ASSUME IInv, NEW w \in Workers, ResolveSource(w) PROVE IInv'
<1> USE DEF IInv, TypeOK, ResolveSource
<1> DEFINE s == manifest[target[w]].src
<1>1. pc[w] = "source" /\ pc[w] \in SinglePCs \ {"lookup"} /\ ~IsBatch(w)
  BY DEF WorkersFit, TaskFits, SinglePCs
<1>2. s \in Sources /\ target[w] # None
  BY <1>1, TargetMade DEF Manifest
<1>3. OutsideTypes' /\ CacheTypes'
  <2>1. CASE UNCHANGED <<cacheVars, env>>
    BY <2>1 DEF CacheTypes, OutsideTypes
  <2>2. CASE TryRefreshSource(s)
    BY <1>2, <2>2, TryRefreshTypes, OutsideKept
  <2> QED
    BY <2>1, <2>2
<1>4. RegistryTypes' /\ QueueTypes'
  BY DEF RegistryTypes, QueueTypes, ReturnSingle, UnlockTarget
<1>5. CASE ReturnSingle(w)
  <2>1. ObjectsMade'
    BY <1>5 DEF ObjectsMade, ActiveObjects, ReturnSingle, Return, LocalTypes
  <2> QED
    BY <1>1, <1>3, <1>4, <1>5, <2>1, NoRuns, SingleReturns DEF LocalTypes
<1>6. CASE ~ReturnSingle(w)
  <2>1. LocalTypes' /\ OthersKept(w)
    BY <1>2, <1>6 DEF LocalTypes, OthersKept, PCs, SinglePCs, GoTo
  <2>2. /\ pc'[w] = "ids" /\ src'[w] \in Sources
        /\ UNCHANGED <<lockVars, task, target, todo, run, activeOperators, manifest>>
    BY <1>2, <1>6 DEF LocalTypes, GoTo
  <2>3. TaskFits(w)'
    BY <1>1, <1>2, <2>2 DEF WorkersFit, TaskFits, IsBatch, SinglePCs, BatchPCs
  <2> QED
    BY <1>1, <1>3, <1>4, <2>1, <2>2, <2>3, ObjectsKept, WorkerAdvances DEF SinglePCs
<1> QED
  BY <1>5, <1>6

\* Reading manifests from the store leaves only a worker's copy of them.
LEMMA LoadManifestsIInv ==
  ASSUME IInv, NEW w \in Workers, LoadTarget(w) \/ LoadTargets(w) PROVE IInv'
<1> USE DEF IInv, TypeOK, LoadTarget, LoadTargets, LoadManifests
<1>1. OutsideTypes' /\ RegistryTypes' /\ CacheTypes' /\ QueueTypes' /\ ObjectsMade'
  BY OutsideKept, ObjectsKept DEF RegistryTypes, CacheTypes, QueueTypes, Faulty, Calls
<1>2. StoreView \in [Targets -> Manifest \cup {None}]
  BY DEF StoreView, OutsideTypes
<1>3. LocalTypes' /\ OthersKept(w)
  <2>1. fresh' \in [Workers -> [Targets -> Manifest \cup {None}]]
    BY <1>2 DEF LocalTypes
  <2>2. pc' \in [Workers -> PCs]
    BY DEF LocalTypes, PCs, SinglePCs, BatchPCs, GoTo
  <2> QED
    BY <2>1, <2>2 DEF LocalTypes, OthersKept, GoTo
<1>4. \/ /\ pc[w] = "loadTarget" /\ pc'[w] \in {"invalidateTarget", "source"}
         /\ LoadTarget(w)
      \/ /\ pc[w] = "loadTargets" /\ pc'[w] \in {"rangeTargets", "batchIds"}
         /\ LoadTargets(w)
  BY DEF LocalTypes, GoTo
<1>5. TaskFits(w)'
  BY <1>4 DEF WorkersFit, TaskFits, IsBatch, SinglePCs, BatchPCs
<1> QED
  BY <1>1, <1>3, <1>4, <1>5, WorkerAdvances DEF SinglePCs, BatchPCs

\* The locals that the loop of a batch over all objects moves on with.
LEMMA LoopTypes ==
  ASSUME LocalTypes, NEW w \in Workers, NEW l \in PCs, pc' = [pc EXCEPT ![w] = l],
         fresh' \in {fresh, [fresh EXCEPT ![w] = Unread]}
  PROVE  /\ pc' \in [Workers -> PCs] /\ \A v \in Workers : v # w => pc'[v] = pc[v]
         /\ fresh' \in [Workers -> [Targets -> Manifest \cup {None}]]
BY DEF LocalTypes, Unread

\* The objects that a batch goes through are the active ones.
LEMMA RangeTargetsIInv == ASSUME IInv, NEW w \in Workers, RangeTargets(w) PROVE IInv'
<1> USE DEF IInv, TypeOK, RangeTargets
<1>1. Refreshable(w) \in SUBSET ActiveObjects /\ ActiveObjects \in SUBSET (Targets \X (1..MaxGen))
  BY DEF Refreshable, ActiveObjects
<1>2. OutsideTypes' /\ RegistryTypes' /\ CacheTypes' /\ QueueTypes'
  BY DEF OutsideTypes, RegistryTypes, CacheTypes, QueueTypes
<1>3. PICK l \in {"batchIds", "invalidateTargets"} :
        pc' = [pc EXCEPT ![w] = l] /\ fresh' \in {fresh, [fresh EXCEPT ![w] = Unread]}
  BY DEF GoTo
<1>4. LocalTypes' /\ OthersKept(w) /\ pc'[w] = l
  <2>1. l \in PCs
    BY DEF PCs, BatchPCs
  <2>2. /\ pc' \in [Workers -> PCs] /\ \A v \in Workers : v # w => pc'[v] = pc[v]
        /\ fresh' \in [Workers -> [Targets -> Manifest \cup {None}]]
    <3> HIDE DEF RangeTargets
    <3> QED
      BY <1>3, <2>1, LoopTypes
  <2>3. todo' \in [Workers -> SUBSET (Targets \X (1..MaxGen))]
    BY <1>1 DEF LocalTypes
  <2> QED
    BY <1>3, <2>2, <2>3 DEF LocalTypes, OthersKept
<1>5. ObjectsMade'
  BY <1>1 DEF ObjectsMade, ActiveObjects, LocalTypes
<1>6. TaskFits(w)'
  BY <1>3, <1>4 DEF WorkersFit, TaskFits, IsBatch, SinglePCs, BatchPCs
<1> QED
  BY <1>2, <1>3, <1>4, <1>5, <1>6, WorkerAdvances DEF BatchPCs

\* The hash of a changed target is that of a manifest of the store.
LEMMA InvalidateTypes ==
  ASSUME IInv, NEW w \in Workers, NEW t \in Targets,
         Invalidate(w, t), UNCHANGED sourceManifestHashes
  PROVE  CacheTypes'
<1>1. Changed(w, t) => fresh[w][t] \in Manifest
  BY DEF Changed, IInv, TypeOK, LocalTypes
<1> QED
  BY <1>1 DEF Invalidate, CacheTypes, IInv, TypeOK

\* A single task deletes the data hash of a changed target.
LEMMA InvalidateTargetIInv == ASSUME IInv, NEW w \in Workers, InvalidateTarget(w) PROVE IInv'
<1> USE DEF IInv, TypeOK, InvalidateTarget
<1>1. target[w] # None /\ target[w][1] \in Targets
  BY TargetMade DEF SinglePCs
<1>2. OutsideTypes' /\ RegistryTypes' /\ QueueTypes' /\ ObjectsMade'
  BY ObjectsKept DEF OutsideTypes, RegistryTypes, QueueTypes
<1>3. CacheTypes'
  BY <1>1, InvalidateTypes
<1>4. LocalTypes' /\ OthersKept(w) /\ pc'[w] = "publishTarget"
  BY DEF LocalTypes, OthersKept, PCs, SinglePCs, GoTo
<1>5. TaskFits(w)'
  BY <1>1, <1>4 DEF WorkersFit, TaskFits, IsBatch, SinglePCs, BatchPCs
<1> QED
  BY <1>2, <1>3, <1>4, <1>5, WorkerAdvances DEF SinglePCs

\* A batch deletes the data hash of a changed target, and keeps its object at hand.
LEMMA InvalidateTargetsIInv ==
  ASSUME IInv, NEW w \in Workers, NEW o \in todo[w], InvalidateTargets(w, o) PROVE IInv'
<1> USE DEF IInv, TypeOK, InvalidateTargets
<1>1. o \in Targets \X (1..MaxGen) /\ o # None /\ manifest[o] # None
  BY DEF LocalTypes, ObjectsMade, Object
<1>2. OutsideTypes' /\ RegistryTypes' /\ QueueTypes'
  BY DEF OutsideTypes, RegistryTypes, QueueTypes
<1>3. CacheTypes'
  BY <1>1, InvalidateTypes
<1>4. /\ LocalTypes' /\ OthersKept(w) /\ pc'[w] = "publishTargets" /\ target'[w] = o
      /\ \A v \in Workers : todo'[v] \subseteq todo[v]
  BY <1>1 DEF LocalTypes, OthersKept, PCs, BatchPCs, GoTo
<1>5. ObjectsMade'
  BY <1>1, <1>4 DEF ObjectsMade, ActiveObjects, OthersKept
<1>6. TaskFits(w)'
  BY <1>1, <1>4 DEF WorkersFit, TaskFits, IsBatch, SinglePCs, BatchPCs
<1> QED
  BY <1>2, <1>3, <1>4, <1>5, <1>6, WorkerAdvances DEF BatchPCs

\* Publishing gives an object a content of the store, and no status.
LEMMA PublishMade ==
  ASSUME IInv, NEW w \in Workers, target[w] \in Targets \X (1..MaxGen), Publish(w),
         UNCHANGED <<activeSources, activeOperators, created, initialised, due>>
  PROVE  /\ RegistryTypes'
         /\ \A o \in Targets \X (1..MaxGen) : manifest[o] # None => manifest'[o] # None
<1> DEFINE o == target[w]
           m == fresh[w][o[1]]
<1>1. m \in Manifest \cup {None}
  BY DEF IInv, TypeOK, LocalTypes
<1>2. CASE m = None
  BY <1>2 DEF Publish, IInv, TypeOK, RegistryTypes
<1>3. CASE m # None
  <2>1. manifest' = [manifest EXCEPT ![o] = m] /\ status' = [status EXCEPT ![o] = "none"]
    BY <1>3 DEF Publish
  <2> HIDE DEF m
  <2> QED
    BY <1>1, <1>3, <2>1 DEF IInv, TypeOK, RegistryTypes
<1> QED
  BY <1>2, <1>3

\* A single task publishes the manifest of its target.
LEMMA PublishTargetIInv == ASSUME IInv, NEW w \in Workers, PublishTarget(w) PROVE IInv'
<1> USE DEF IInv, TypeOK, PublishTarget
<1>1. target[w] # None /\ target[w] \in Targets \X (1..MaxGen)
  BY TargetMade DEF SinglePCs
<1>2. OutsideTypes' /\ CacheTypes' /\ QueueTypes'
  BY DEF OutsideTypes, CacheTypes, QueueTypes
<1>3. /\ RegistryTypes'
      /\ \A o \in Targets \X (1..MaxGen) : manifest[o] # None => manifest'[o] # None
  BY <1>1, PublishMade
<1>4. LocalTypes' /\ OthersKept(w) /\ pc'[w] = "source"
  BY DEF LocalTypes, OthersKept, Unread, PCs, SinglePCs, GoTo
<1>5. ObjectsMade'
  BY <1>3 DEF ObjectsMade, ActiveObjects, LocalTypes
<1>6. TaskFits(w)'
  BY <1>1, <1>4 DEF WorkersFit, TaskFits, IsBatch, SinglePCs, BatchPCs
<1> QED
  BY <1>2, <1>3, <1>4, <1>5, <1>6, WorkerAdvances DEF SinglePCs

\* A batch publishes the manifest of one target and goes on to the next.
LEMMA PublishTargetsIInv == ASSUME IInv, NEW w \in Workers, PublishTargets(w) PROVE IInv'
<1> USE DEF IInv, TypeOK, PublishTargets
<1>1. target[w] # None /\ target[w] \in Targets \X (1..MaxGen)
  BY TargetMade
<1>2. OutsideTypes' /\ CacheTypes' /\ QueueTypes'
  BY DEF OutsideTypes, CacheTypes, QueueTypes
<1>3. /\ RegistryTypes'
      /\ \A o \in Targets \X (1..MaxGen) : manifest[o] # None => manifest'[o] # None
  BY <1>1, PublishMade
<1>4. PICK l \in {"batchIds", "invalidateTargets"} :
        pc' = [pc EXCEPT ![w] = l] /\ fresh' \in {fresh, [fresh EXCEPT ![w] = Unread]}
  BY DEF GoTo
<1>5. LocalTypes' /\ OthersKept(w) /\ target'[w] = None /\ pc'[w] = l
  <2>1. l \in PCs
    BY DEF PCs, BatchPCs
  <2>2. /\ pc' \in [Workers -> PCs] /\ \A v \in Workers : v # w => pc'[v] = pc[v]
        /\ fresh' \in [Workers -> [Targets -> Manifest \cup {None}]]
    <3> HIDE DEF PublishTargets
    <3> QED
      BY <1>4, <2>1, LoopTypes
  <2>3. target' = [target EXCEPT ![w] = None]
    OBVIOUS
  <2> QED
    BY <1>4, <2>2, <2>3 DEF LocalTypes, OthersKept
<1>6. ObjectsMade'
  BY <1>3, <1>5 DEF ObjectsMade, ActiveObjects, LocalTypes, OthersKept
<1>7. TaskFits(w)'
  BY <1>4, <1>5 DEF WorkersFit, TaskFits, IsBatch, SinglePCs, BatchPCs
<1> QED
  BY <1>2, <1>3, <1>4, <1>5, <1>6, <1>7, WorkerAdvances DEF BatchPCs

\* A fetch that fails, or finds the source gone, returns from the task.
LEMMA FetchFails ==
  ASSUME IInv, NEW w \in Workers, Leave(w), pc[w] \notin {"visit", "sync"},
         pc[w] \in SinglePCs \cup BatchPCs, Faulty,
         UNCHANGED <<storeVars, outsideVars, registryVars, cacheVars, queue, run, tickerVars>>
  PROVE  IInv'
<1> USE DEF IInv, TypeOK, Leave
<1>1. \/ pc[w] \in SinglePCs /\ ReturnSingle(w)
      \/ pc[w] \in BatchPCs /\ ReturnBatch(w)
  BY DEF WorkersFit, TaskFits
<1>2. OutsideTypes' /\ RegistryTypes' /\ CacheTypes'
  BY OutsideKept DEF RegistryTypes, CacheTypes
<1>3. QueueTypes'
  BY <1>1 DEF QueueTypes, ReturnSingle, ReturnBatch, UnlockTarget
<1>4. ObjectsMade'
  BY <1>1 DEF ObjectsMade, ActiveObjects, ReturnSingle, ReturnBatch, Return, LocalTypes
<1>5. LocalTypes' /\ WorkersFit' /\ OwnersUnique' /\ LocksAccounted'
  BY <1>1, NoRuns, SingleReturns, BatchReturns DEF LocalTypes
<1> QED
  BY <1>2, <1>3, <1>4, <1>5

\* The source is known wherever data is fetched.
LEMMA SourceKnown ==
  ASSUME IInv, NEW w \in Workers,
         pc[w] \in {"ids", "groups", "decide", "sync"} \cup BatchPCs
  PROVE  src[w] \in Sources /\ data[src[w]] \in Nat
BY DEF IInv, TypeOK, OutsideTypes, WorkersFit, TaskFits

\* Both kinds of task fetch the identities.
LEMMA FetchIdentitiesIInv == ASSUME IInv, NEW w \in Workers, FetchIdentities(w) PROVE IInv'
<1> USE DEF FetchIdentities
<1>1. CASE Leave(w)
  <2>1. Faulty
    BY DEF Faulty, Calls
  <2> QED
    BY <1>1, <2>1, FetchFails DEF SinglePCs, BatchPCs
<1>2. CASE ~Leave(w)
  <2> USE DEF IInv, TypeOK
  <2>1. data[src[w]] \in Nat
    BY SourceKnown DEF BatchPCs
  <2>2. /\ snap' = [snap EXCEPT ![w].ids = data[src[w]]]
        /\ pc' = [pc EXCEPT ![w] = IF IsBatch(w) THEN "batchGroups" ELSE "groups"]
        /\ UNCHANGED <<env, lockVars, task, target, src, fresh, todo>>
    BY <1>2 DEF GoTo
  <2>3. snap' \in [Workers -> [ids : Nat, groups : Nat, hashed : BOOLEAN]]
    BY <2>1, <2>2 DEF LocalTypes
  <2>4. LocalTypes' /\ OthersKept(w)
    BY <2>2, <2>3 DEF LocalTypes, OthersKept, PCs, SinglePCs, BatchPCs
  <2>5. OutsideTypes' /\ RegistryTypes' /\ CacheTypes' /\ QueueTypes' /\ ObjectsMade'
    BY <2>2, ObjectsKept DEF OutsideTypes, RegistryTypes, CacheTypes, QueueTypes
  <2>6. \/ pc[w] = "ids" /\ pc'[w] = "groups"
        \/ pc[w] = "batchIds" /\ pc'[w] = "batchGroups"
    BY <2>2 DEF LocalTypes, WorkersFit, TaskFits, SinglePCs, BatchPCs
  <2>7. TaskFits(w)'
    BY <2>2, <2>6 DEF WorkersFit, TaskFits, IsBatch, SinglePCs, BatchPCs
  <2> QED
    BY <2>2, <2>4, <2>5, <2>6, <2>7, WorkerAdvances DEF SinglePCs, BatchPCs
<1> QED
  BY <1>1, <1>2

\* The groups and the outcome of the hash complete what was fetched.
LEMMA GroupsStored ==
  ASSUME snap \in [Workers -> [ids : Nat, groups : Nat, hashed : BOOLEAN]],
         NEW w \in Workers, NEW n \in Nat, NEW hashed \in BOOLEAN,
         snap' = [snap EXCEPT ![w].groups = n, ![w].hashed = hashed]
  PROVE  snap' \in [Workers -> [ids : Nat, groups : Nat, hashed : BOOLEAN]]
OBVIOUS

\* A single task fetches the groups.
LEMMA FetchGroupsIInv == ASSUME IInv, NEW w \in Workers, FetchGroups(w) PROVE IInv'
<1> USE DEF FetchGroups
<1>1. pc[w] = "groups" /\ ~IsBatch(w)
  BY DEF IInv, WorkersFit, TaskFits, SinglePCs
<1>2. CASE ReturnSingle(w) /\ Fault("fetch")
  BY <1>1, <1>2, FetchFails DEF SinglePCs, Leave, Faulty, Calls
<1>3. CASE ~(ReturnSingle(w) /\ Fault("fetch"))
  <2> USE DEF IInv, TypeOK
  <2>1. data[src[w]] \in Nat
    BY <1>1, SourceKnown
  <2>2. PICK hashed \in BOOLEAN :
          /\ IF hashed THEN UNCHANGED env ELSE Fault("hash")
          /\ snap' = [snap EXCEPT ![w].groups = data[src[w]], ![w].hashed = hashed]
          /\ pc' = [pc EXCEPT ![w] = "decide"]
          /\ UNCHANGED <<lockVars, task, target, src, fresh, todo>>
    BY <1>3 DEF GoTo
  <2>3. snap' \in [Workers -> [ids : Nat, groups : Nat, hashed : BOOLEAN]]
    BY <2>1, <2>2, GroupsStored DEF LocalTypes
  <2>4. LocalTypes' /\ OthersKept(w) /\ pc'[w] = "decide"
    BY <2>2, <2>3 DEF LocalTypes, OthersKept, PCs, SinglePCs
  <2>5. OutsideTypes' /\ RegistryTypes' /\ CacheTypes' /\ QueueTypes' /\ ObjectsMade'
    BY <2>2, OutsideKept, ObjectsKept DEF RegistryTypes, CacheTypes, QueueTypes, Faulty, Calls
  <2>6. TaskFits(w)'
    BY <1>1, <2>2, <2>4 DEF WorkersFit, TaskFits, IsBatch, SinglePCs, BatchPCs
  <2> QED
    BY <1>1, <2>2, <2>4, <2>5, <2>6, WorkerAdvances DEF SinglePCs
<1> QED
  BY <1>2, <1>3

\* A batch fetches the groups and goes on to its targets.
LEMMA FetchBatchGroupsIInv == ASSUME IInv, NEW w \in Workers, FetchBatchGroups(w) PROVE IInv'
<1> USE DEF FetchBatchGroups
<1>1. pc[w] = "batchGroups" /\ IsBatch(w)
  BY DEF IInv, WorkersFit, TaskFits, BatchPCs
<1>2. CASE ReturnBatch(w) /\ Fault("fetch")
  BY <1>1, <1>2, FetchFails DEF BatchPCs, Leave, Faulty, Calls
<1>3. CASE ~(ReturnBatch(w) /\ Fault("fetch"))
  <2> USE DEF IInv, TypeOK
  <2>1. data[src[w]] \in Nat
    BY <1>1, SourceKnown DEF BatchPCs
  <2>2. PICK hashed \in BOOLEAN :
          /\ IF hashed THEN UNCHANGED env ELSE Fault("hash")
          /\ snap' = [snap EXCEPT ![w].groups = data[src[w]], ![w].hashed = hashed]
          /\ todo' = [todo EXCEPT ![w] = TargetsOf(src[w])]
          /\ pc' = [pc EXCEPT ![w] = "visit"]
          /\ UNCHANGED <<lockVars, task, target, src, fresh>>
    BY <1>3 DEF GoTo
  <2>3. snap' \in [Workers -> [ids : Nat, groups : Nat, hashed : BOOLEAN]]
    BY <2>1, <2>2, GroupsStored DEF LocalTypes
  <2>4. TargetsOf(src[w]) \in SUBSET ActiveObjects
    BY DEF TargetsOf
  <2>5. todo' \in [Workers -> SUBSET (Targets \X (1..MaxGen))]
    BY <2>2, <2>4 DEF LocalTypes, ActiveObjects
  <2>6. LocalTypes' /\ OthersKept(w) /\ pc'[w] = "visit"
    BY <2>2, <2>3, <2>5 DEF LocalTypes, OthersKept, PCs, BatchPCs
  <2>7. OutsideTypes' /\ RegistryTypes' /\ CacheTypes' /\ QueueTypes'
    BY <2>2, OutsideKept DEF RegistryTypes, CacheTypes, QueueTypes, Faulty, Calls
  <2>8. ObjectsMade'
    BY <2>2, <2>4 DEF ObjectsMade, ActiveObjects, LocalTypes
  <2>9. TaskFits(w)'
    BY <1>1, <2>2, <2>6 DEF WorkersFit, TaskFits, IsBatch, SinglePCs, BatchPCs
  <2> QED
    BY <1>1, <2>2, <2>6, <2>7, <2>8, <2>9, WorkerAdvances DEF BatchPCs
<1> QED
  BY <1>2, <1>3

-----------------------------------------------------------------------------
(***************************************************************************)
(* Visiting the targets of a batch, and the goroutines that sync them: one *)
(* run of w changes, together with the lock of its target where it starts  *)
(* or ends.                                                                *)
(***************************************************************************)
Holding == {"claimed", "ready", "syncing", "clean", "erring", "broken", "synced", "failed"}

\* A new run of one target keeps the types of the locals.
LEMMA RunTypes ==
  ASSUME LocalTypes, NEW w \in Workers, NEW t \in Targets, NEW r \in Run,
         run' = [run EXCEPT ![w][t] = r], UNCHANGED localVars
  PROVE  /\ LocalTypes' /\ OthersKept(w)
         /\ run'[w][t] = r /\ \A u \in Targets : u # t => run'[w][u] = run[w][u]
BY DEF LocalTypes, OthersKept

\* A change of the phase is a new run.
LEMMA PhaseChanges ==
  ASSUME LocalTypes, NEW w \in Workers, NEW t \in Targets, NEW phase
  PROVE  [run EXCEPT ![w][t].phase = phase] =
           [run EXCEPT ![w][t] = [phase |-> phase, gen |-> run[w][t].gen, man |-> run[w][t].man]]
<1>1. run \in [Workers -> [Targets -> Run]] /\ run[w][t] \in Run
  BY DEF LocalTypes
<1>2. [run[w][t] EXCEPT !.phase = phase] =
        [phase |-> phase, gen |-> run[w][t].gen, man |-> run[w][t].man]
  BY <1>1 DEF Run
<1> QED
  BY <1>1, <1>2

\* A run goes on: its goroutine keeps the lock.
LEMMA RunGoesOn ==
  ASSUME IInv, NEW w \in Workers, NEW t \in Targets, NEW r \in Run,
         run' = [run EXCEPT ![w][t] = r], UNCHANGED <<localVars, lockVars>>,
         run[w][t].phase \in Holding, r.gen = run[w][t].gen,
         r.phase \in Holding \ {"claimed"}
  PROVE  LocalTypes' /\ WorkersFit' /\ OwnersUnique' /\ LocksAccounted'
<1>1. /\ LocalTypes' /\ OthersKept(w)
      /\ run'[w][t] = r /\ \A u \in Targets : u # t => run'[w][u] = run[w][u]
  BY RunTypes DEF IInv, TypeOK
<1>2. TaskFits(w)'
  BY DEF IInv, WorkersFit, TaskFits, IsBatch
<1>3. RunsFit(w)'
  BY <1>1 DEF IInv, WorkersFit, RunsFit, Holding
<1>4. KeepsOwn(w)
  BY <1>1 DEF KeepsOwn, Owns, OwnsBatch, Holding
<1> QED
  BY <1>1, <1>2, <1>3, <1>4, WorkerMoves

\* A run of a batch starts with the lock of its target.
LEMMA ClaimInBatchIInv ==
  ASSUME IInv, NEW w \in Workers, NEW o \in todo[w], ClaimInBatch(w, o)
  PROVE  IInv'
<1> DEFINE r == [phase |-> "claimed", gen |-> o[2], man |-> None]
           u == o[1]
<1> USE DEF ClaimInBatch
<1>1. pc[w] = "visit" /\ o \in Targets \X (1..MaxGen) /\ u \in Targets /\ r \in Run
  BY DEF IInv, TypeOK, LocalTypes, Run
<1>2. OutsideTypes' /\ RegistryTypes' /\ CacheTypes' /\ QueueTypes'
  BY <1>1 DEF IInv, TypeOK, OutsideTypes, RegistryTypes, CacheTypes, QueueTypes, LockTarget
<1>3. /\ run' \in [Workers -> [Targets -> Run]] /\ run'[w][u] = r
      /\ \A t \in Targets : t # u => run'[w][t] = run[w][t]
      /\ \A v \in Workers : v # w => run'[v] = run[v]
  BY <1>1 DEF IInv, TypeOK, LocalTypes
<1>4. todo' \in [Workers -> SUBSET (Targets \X (1..MaxGen))]
      /\ \A v \in Workers : todo'[v] \subseteq todo[v] /\ (v # w => todo'[v] = todo[v])
  BY DEF IInv, TypeOK, LocalTypes
<1>5. LocalTypes' /\ OthersKept(w)
  BY <1>3, <1>4 DEF IInv, TypeOK, LocalTypes, OthersKept
<1>6. ObjectsMade'
  BY <1>4 DEF IInv, ObjectsMade, ActiveObjects
<1>7. TaskFits(w)'
  BY <1>1 DEF IInv, WorkersFit, TaskFits, IsBatch, SinglePCs, BatchPCs
<1>8. RunsFit(w)'
  BY <1>1, <1>3 DEF IInv, WorkersFit, RunsFit
<1>9. /\ \A t \in Targets : Owns(w, t)' <=> Owns(w, t) \/ t = u
      /\ \A s \in Sources : OwnsBatch(w, s)' <=> OwnsBatch(w, s)
  BY <1>1, <1>3 DEF Owns, OwnsBatch, SinglePCs
<1>10. OwnersUnique' /\ LocksAccounted'
  BY <1>1, <1>5, <1>9, OthersOwn, TargetTaken DEF IInv
<1> QED
  BY <1>2, <1>5, <1>6, <1>7, <1>8, <1>10, OthersFit DEF IInv, TypeOK

\* A batch passes over a target that is locked or gone.
LEMMA PassOverIInv ==
  ASSUME IInv, NEW w \in Workers, NEW o \in todo[w], PassOver(w, o) PROVE IInv'
<1> USE DEF PassOver
<1>1. OutsideTypes' /\ RegistryTypes' /\ CacheTypes' /\ QueueTypes'
  BY DEF IInv, TypeOK, OutsideTypes, RegistryTypes, CacheTypes, QueueTypes
<1>2. LocalTypes' /\ OthersKept(w) /\ \A v \in Workers : todo'[v] \subseteq todo[v]
  BY DEF IInv, TypeOK, LocalTypes, OthersKept
<1>3. ObjectsMade'
  BY <1>2 DEF IInv, ObjectsMade, ActiveObjects
<1>4. TaskFits(w)' /\ RunsFit(w)'
  BY DEF IInv, WorkersFit, TaskFits, RunsFit, IsBatch, SinglePCs, BatchPCs
<1>5. KeepsOwn(w)
  BY DEF KeepsOwn, Owns, OwnsBatch
<1> QED
  BY <1>1, <1>2, <1>3, <1>4, <1>5, WorkerMoves DEF IInv, TypeOK

\* A run of a batch gives up the lock of its target: it is over, or only its
\* success is left to record.
LEMMA RunUnlocks ==
  ASSUME IInv, NEW w \in Workers, NEW t \in Targets, NEW r \in Run, pc[w] = "visit",
         run' = [run EXCEPT ![w][t] = r], UnlockTarget(t),
         UNCHANGED <<localVars, reconcilingBatches>>,
         run[w][t].phase \in Holding, r.phase \in {"none", "released"},
         r.phase = "released" => r.gen = run[w][t].gen
  PROVE  LocalTypes' /\ WorkersFit' /\ OwnersUnique' /\ LocksAccounted'
<1>1. /\ LocalTypes' /\ OthersKept(w)
      /\ run'[w][t] = r /\ \A u \in Targets : u # t => run'[w][u] = run[w][u]
  BY RunTypes DEF IInv, TypeOK
<1>2. TaskFits(w)'
  BY DEF IInv, WorkersFit, TaskFits, IsBatch
<1>3. RunsFit(w)'
  BY <1>1 DEF IInv, WorkersFit, RunsFit, Holding
<1>4. /\ Owns(w, t)
      /\ \A u \in Targets : Owns(w, u)' <=> Owns(w, u) /\ u # t
      /\ \A s \in Sources : OwnsBatch(w, s)' <=> OwnsBatch(w, s)
  BY <1>1 DEF Owns, OwnsBatch, Holding, SinglePCs
<1>5. OwnersUnique' /\ LocksAccounted'
  BY <1>1, <1>4, OthersOwn, TargetReleased DEF IInv
<1> QED
  BY <1>1, <1>2, <1>3, <1>5, OthersFit DEF IInv

\* Runs that hold the lock without a call in progress belong to a visit.
LEMMA VisitRun ==
  ASSUME IInv, NEW w \in Workers, NEW t \in Targets,
         run[w][t].phase \in {"claimed", "released"}
  PROVE  pc[w] = "visit" /\ run[w][t].gen \in 1..MaxGen
BY DEF IInv, WorkersFit, RunsFit

\* A batch skips a target whose data is unchanged and unlocks it.
LEMMA SkipInBatchIInv ==
  ASSUME IInv, NEW w \in Workers, NEW t \in Targets, SkipInBatch(w, t) PROVE IInv'
<1> USE DEF SkipInBatch
<1>1. NoRun \in Run /\ NoRun.phase = "none"
  BY DEF NoRun, Run
<1>2. LocalTypes' /\ WorkersFit' /\ OwnersUnique' /\ LocksAccounted'
  BY <1>1, VisitRun, RunUnlocks DEF Holding
<1>3. OutsideTypes' /\ RegistryTypes' /\ CacheTypes' /\ QueueTypes'
  BY DEF IInv, TypeOK, OutsideTypes, RegistryTypes, CacheTypes, QueueTypes, UnlockTarget
<1> QED
  BY <1>2, <1>3, ObjectsKept DEF IInv, TypeOK

\* A goroutine of a batch ends and unlocks its target.
LEMMA ReleaseInBatchIInv ==
  ASSUME IInv, NEW w \in Workers, NEW t \in Targets, ReleaseInBatch(w, t) PROVE IInv'
<1> USE DEF ReleaseInBatch
<1> DEFINE r == IF run[w][t].phase = "synced"
                THEN [run[w][t] EXCEPT !.phase = "released", !.man = None]
                ELSE NoRun
<1>1. /\ r \in Run /\ r.phase \in {"none", "released"}
      /\ r.phase = "released" => r.gen = run[w][t].gen
  <2>1. run[w][t] \in Run
    BY DEF IInv, TypeOK, LocalTypes
  <2>2. NoRun \in Run /\ NoRun.phase = "none"
    BY DEF NoRun, Run
  <2>3. CASE run[w][t].phase = "synced"
    <3>1. r = [phase |-> "released", gen |-> run[w][t].gen, man |-> None]
      BY <2>1, <2>3 DEF Run
    <3>2. r \in Run
      BY <2>1, <3>1 DEF Run
    <3> QED
      BY <3>1, <3>2
  <2>4. CASE run[w][t].phase # "synced"
    BY <2>2, <2>4
  <2> QED
    BY <2>3, <2>4
<1>2. LocalTypes' /\ WorkersFit' /\ OwnersUnique' /\ LocksAccounted'
  BY <1>1, RunUnlocks DEF Holding
<1>3. OutsideTypes' /\ RegistryTypes' /\ CacheTypes' /\ QueueTypes'
  BY DEF IInv, TypeOK, OutsideTypes, RegistryTypes, CacheTypes, QueueTypes, UnlockTarget
<1> QED
  BY <1>2, <1>3, ObjectsKept DEF IInv, TypeOK

\* A goroutine of a batch records its success after the unlock.
LEMMA RecordInBatchIInv ==
  ASSUME IInv, NEW w \in Workers, NEW t \in Targets, RecordInBatch(w, t) PROVE IInv'
<1> USE DEF RecordInBatch
<1>1. NoRun \in Run /\ NoRun.phase = "none" /\ pc[w] = "visit"
  BY VisitRun DEF NoRun, Run
<1>2. /\ LocalTypes' /\ OthersKept(w)
      /\ run'[w][t] = NoRun /\ \A u \in Targets : u # t => run'[w][u] = run[w][u]
  BY <1>1, RunTypes DEF IInv, TypeOK
<1>3. TaskFits(w)' /\ RunsFit(w)'
  BY <1>1, <1>2 DEF IInv, WorkersFit, TaskFits, RunsFit, IsBatch
<1>4. KeepsOwn(w)
  BY <1>1, <1>2 DEF KeepsOwn, Owns, OwnsBatch, SinglePCs
<1>5. OutsideTypes' /\ RegistryTypes' /\ CacheTypes' /\ QueueTypes'
  BY DEF IInv, TypeOK, OutsideTypes, RegistryTypes, CacheTypes, QueueTypes
<1> QED
  BY <1>2, <1>3, <1>4, <1>5, ObjectsKept, WorkerMoves DEF IInv, TypeOK

\* A batch returns when all its goroutines have ended.
LEMMA EndBatchIInv == ASSUME IInv, NEW w \in Workers, EndBatch(w) PROVE IInv'
<1> USE DEF EndBatch
<1>1. pc[w] \in BatchPCs
  BY DEF BatchPCs
<1>2. OutsideTypes' /\ RegistryTypes' /\ CacheTypes' /\ QueueTypes'
  BY DEF IInv, TypeOK, OutsideTypes, RegistryTypes, CacheTypes, QueueTypes, ReturnBatch
<1>3. ObjectsMade'
  BY DEF IInv, TypeOK, LocalTypes, ObjectsMade, ActiveObjects, ReturnBatch, Return
<1> QED
  BY <1>1, <1>2, <1>3, BatchReturns DEF IInv, TypeOK

-----------------------------------------------------------------------------
(***************************************************************************)
(* Skipping or starting a sync, and the sync itself.                       *)
(***************************************************************************)
\* What is hashed and what is applied is a snapshot.
LEMMA FetchedType ==
  ASSUME LocalTypes, NEW w \in Workers
  PROVE  Fetched(w) \in Snapshot /\ SourceDataHash(w) \in Snapshot
BY DEF LocalTypes, Fetched, SourceDataHash, Snapshot

\* Storing a data hash keeps the types of the caches.
LEMMA StoreHashTypes ==
  ASSUME CacheTypes, LocalTypes, NEW w \in Workers, NEW t \in Targets,
         StoreHash(w, t) \/ UNCHANGED sourceDataHashes,
         UNCHANGED <<sourceManifestHashes, targetManifestHashes>>
  PROVE  CacheTypes'
BY FetchedType DEF CacheTypes, StoreHash

\* A batch stores the data hash of a target and starts its goroutine.
LEMMA StartInBatchIInv ==
  ASSUME IInv, NEW w \in Workers, NEW t \in Targets, StartInBatch(w, t) PROVE IInv'
<1> USE DEF StartInBatch
<1> DEFINE r == [phase |-> "ready", gen |-> run[w][t].gen, man |-> run[w][t].man]
<1>1. run[w][t] \in Run
  BY DEF IInv, TypeOK, LocalTypes
<1>2. r \in Run /\ r.phase = "ready" /\ r.gen = run[w][t].gen
  BY <1>1 DEF Run
<1>3. run' = [run EXCEPT ![w][t] = r]
  BY PhaseChanges DEF IInv, TypeOK
<1>4. LocalTypes' /\ WorkersFit' /\ OwnersUnique' /\ LocksAccounted'
  <2>1. run[w][t].phase \in Holding /\ "ready" \in Holding \ {"claimed"}
    BY DEF Holding
  <2>2. UNCHANGED <<localVars, lockVars>>
    OBVIOUS
  <2> HIDE DEF StartInBatch, r
  <2> QED
    BY <1>2, <1>3, <2>1, <2>2, RunGoesOn
<1>5. CacheTypes'
  BY StoreHashTypes DEF IInv, TypeOK
<1>6. OutsideTypes' /\ RegistryTypes' /\ QueueTypes'
  BY DEF IInv, TypeOK, OutsideTypes, RegistryTypes, QueueTypes
<1> QED
  BY <1>4, <1>5, <1>6, ObjectsKept DEF IInv, TypeOK

\* A single task skips unchanged data and returns.
LEMMA SkipSingleIInv == ASSUME IInv, NEW w \in Workers, SkipSingle(w) PROVE IInv'
<1> USE DEF SkipSingle
<1>1. pc[w] \in SinglePCs /\ pc[w] = "decide"
  BY DEF SinglePCs
<1>2. OutsideTypes' /\ RegistryTypes' /\ CacheTypes' /\ QueueTypes'
  BY DEF IInv, TypeOK, OutsideTypes, RegistryTypes, CacheTypes, QueueTypes, ReturnSingle,
         UnlockTarget
<1>3. ObjectsMade'
  BY DEF IInv, TypeOK, LocalTypes, ObjectsMade, ActiveObjects, ReturnSingle, Return
<1>4. run' \in [Workers -> [Targets -> Run]] /\ \A t \in Targets : run'[w][t].phase = "none"
  BY <1>1, NoRuns DEF IInv, TypeOK, LocalTypes
<1> QED
  BY <1>1, <1>2, <1>3, <1>4, SingleReturns DEF IInv, TypeOK

\* A single task stores the data hash of its target and starts its run.
LEMMA StartSingleIInv == ASSUME IInv, NEW w \in Workers, StartSingle(w) PROVE IInv'
<1> USE DEF StartSingle
<1> DEFINE u == task[w].target
           r == [phase |-> "ready", gen |-> target[w][2], man |-> None]
<1>1. /\ pc[w] = "decide" /\ ~IsBatch(w) /\ task[w] # None /\ src[w] \in Sources
      /\ target[w] # None
  BY DEF IInv, WorkersFit, TaskFits, SinglePCs
<1>2. u \in Targets /\ r \in Run /\ r.gen \in 1..MaxGen
  <2>1. u \in Targets
    BY <1>1 DEF IInv, TypeOK, LocalTypes, IsBatch, Task
  <2>2. target[w][2] \in 1..MaxGen
    BY <1>1, TargetMade DEF SinglePCs
  <2> QED
    BY <2>1, <2>2 DEF Run
<1>3. /\ run' \in [Workers -> [Targets -> Run]] /\ run'[w][u] = r
      /\ \A t \in Targets : t # u => run'[w][t] = run[w][t]
      /\ \A v \in Workers : v # w => run'[v] = run[v]
  BY <1>2 DEF IInv, TypeOK, LocalTypes
<1>4. LocalTypes' /\ OthersKept(w) /\ pc'[w] = "sync"
  BY <1>3 DEF IInv, TypeOK, LocalTypes, OthersKept, GoTo, PCs, SinglePCs
<1>5. CacheTypes'
  BY <1>2, StoreHashTypes DEF IInv, TypeOK, CacheTypes
<1>6. OutsideTypes' /\ RegistryTypes' /\ QueueTypes'
  BY DEF IInv, TypeOK, OutsideTypes, RegistryTypes, QueueTypes
<1>7. TaskFits(w)'
  BY <1>1, <1>4 DEF TaskFits, IsBatch, SinglePCs, BatchPCs
<1>8. RunsFit(w)'
  BY <1>1, <1>2, <1>3, <1>4, NoRuns DEF RunsFit
<1>9. KeepsOwn(w)
  BY <1>1, <1>4 DEF KeepsOwn, Owns, OwnsBatch, SinglePCs, BatchPCs
<1> QED
  BY <1>4, <1>5, <1>6, <1>7, <1>8, <1>9, ObjectsKept, WorkerMoves DEF IInv, TypeOK

\* The operator of a locked target is called.
LEMMA BeginSyncIInv ==
  ASSUME IInv, NEW w \in Workers, NEW t \in Targets, BeginSync(w, t) PROVE IInv'
<1> USE DEF BeginSync
<1> DEFINE gen == run[w][t].gen
           made(phase, man) == [phase |-> phase, gen |-> gen, man |-> man]
<1>1. run[w][t] \in Run /\ gen \in 1..MaxGen /\ gen \in Nat
  BY DEF IInv, TypeOK, LocalTypes, Run, WorkersFit, RunsFit
<1>2. manifest[<<t, gen>>] \in Manifest \cup {None}
  BY <1>1 DEF IInv, TypeOK, RegistryTypes
<1>3. PICK r \in Run : run' = [run EXCEPT ![w][t] = r] /\ r.phase \in {"syncing", "failed"}
                      /\ r.gen = gen
  <2> HIDE DEF BeginSync
  <2>1. CASE run' = [run EXCEPT ![w][t] = made("syncing", manifest[<<t, gen>>])]
    <3>1. made("syncing", manifest[<<t, gen>>]) \in Run
      BY <1>1, <1>2 DEF Run
    <3> QED
      BY <2>1, <3>1
  <2>2. CASE run' = [run EXCEPT ![w][t].phase = "failed"]
    <3>1. made("failed", run[w][t].man) \in Run
      BY <1>1 DEF Run
    <3>2. run' = [run EXCEPT ![w][t] = made("failed", run[w][t].man)]
      BY <2>2, PhaseChanges DEF IInv, TypeOK
    <3> QED
      BY <3>1, <3>2
  <2> QED
    BY <2>1, <2>2 DEF BeginSync
<1>4. LocalTypes' /\ WorkersFit' /\ OwnersUnique' /\ LocksAccounted'
  BY <1>3, RunGoesOn DEF Holding
<1>5. OutsideTypes'
  BY OutsideKept DEF IInv, TypeOK, Faulty, Calls
<1>6. RegistryTypes' /\ CacheTypes' /\ QueueTypes'
  BY DEF IInv, TypeOK, RegistryTypes, CacheTypes, QueueTypes
<1> QED
  BY <1>4, <1>5, <1>6, ObjectsKept DEF IInv, TypeOK

\* What a sync leaves downstream has its type.
LEMMA OutcomeType ==
  ASSUME IInv, NEW w \in Workers, NEW t \in Targets, run[w][t].phase # "none"
  PROVE  /\ Outcome(w, t) \in Downstream /\ Outcome(w, t).state # "diverged"
         /\ Diverged \in Downstream
<1> DEFINE init == initialised[<<t, run[w][t].gen>>]
           applied == Applied(Fetched(w), run[w][t].man, init)
<1>1. /\ Fetched(w) \in Snapshot /\ run[w][t].man \in Manifest \cup {None}
      /\ run[w][t].gen \in 1..MaxGen
  BY FetchedType DEF IInv, TypeOK, LocalTypes, Run, WorkersFit, RunsFit
<1>2. init \in Manifest \cup {None}
  BY <1>1 DEF IInv, TypeOK, RegistryTypes
<1>3. applied \in Downstream /\ applied.state = "applied"
  BY <1>1, <1>2 DEF Applied, Downstream
<1>4. Diverged \in Downstream
  BY DEF Diverged, Downstream, Snapshot
<1>5. downstream[t] \in Downstream
  BY DEF IInv, TypeOK, OutsideTypes
<1>6. ASSUME NEW left \in {"truncated", "patched"}
      PROVE  /\ [downstream[t] EXCEPT !.state = left] \in Downstream
             /\ [downstream[t] EXCEPT !.state = left].state # "diverged"
  BY <1>5 DEF Downstream
<1>7. Outcome(w, t) \in {applied, [downstream[t] EXCEPT !.state = "truncated"],
                         [downstream[t] EXCEPT !.state = "patched"]}
  BY DEF Outcome
<1> HIDE DEF applied
<1> QED
  BY <1>3, <1>4, <1>6, <1>7

\* The call of the operator returns, and its run keeps the lock.
LEMMA EndSyncIInv ==
  ASSUME IInv, NEW w \in Workers, NEW t \in Targets, EndSync(w, t) PROVE IInv'
<1> USE DEF EndSync
<1> DEFINE ended(phase) == [phase |-> phase, gen |-> run[w][t].gen, man |-> run[w][t].man]
<1>1. run[w][t] \in Run
  BY DEF IInv, TypeOK, LocalTypes
<1>2. PICK phase \in {"clean", "erring", "broken"} : run' = [run EXCEPT ![w][t].phase = phase]
  OBVIOUS
<1>3. ended(phase) \in Run /\ run' = [run EXCEPT ![w][t] = ended(phase)]
  <2>1. ended(phase) \in Run
    BY <1>1 DEF Run
  <2>2. run' = [run EXCEPT ![w][t] = ended(phase)]
    <3> HIDE DEF EndSync
    <3> QED
      BY <1>2, PhaseChanges DEF IInv, TypeOK
  <2> QED
    BY <2>1, <2>2
<1>4. LocalTypes' /\ WorkersFit' /\ OwnersUnique' /\ LocksAccounted'
  BY <1>3, RunGoesOn DEF Holding
<1>5. OutsideTypes'
  <2>1. downstream' \in [Targets -> Downstream]
    BY OutcomeType DEF IInv, TypeOK, OutsideTypes
  <2>2. env' \in [data : Nat, edits : Nat, faults : Nat, triggers : Nat, webhooks : Nat]
    BY FaultCounted DEF IInv, TypeOK, Faulty, Calls
  <2> QED
    BY <2>1, <2>2 DEF IInv, TypeOK, OutsideTypes
<1>6. RegistryTypes' /\ CacheTypes' /\ QueueTypes'
  BY DEF IInv, TypeOK, RegistryTypes, CacheTypes, QueueTypes
<1> QED
  BY <1>4, <1>5, <1>6, ObjectsKept DEF IInv, TypeOK

\* The status is written to the object of now, and the run keeps the lock.
LEMMA UpdateTargetStatusIInv ==
  ASSUME IInv, NEW w \in Workers, NEW t \in Targets, UpdateTargetStatus(w, t) PROVE IInv'
<1> USE DEF UpdateTargetStatus
<1> DEFINE ended(phase) == [phase |-> phase, gen |-> run[w][t].gen, man |-> run[w][t].man]
<1>1. run[w][t] \in Run
  BY DEF IInv, TypeOK, LocalTypes
<1>2. PICK phase \in {"failed", "synced"} : run' = [run EXCEPT ![w][t].phase = phase]
  BY <1>1 DEF IInv, TypeOK, LocalTypes, Run
<1>3. ended(phase) \in Run /\ run' = [run EXCEPT ![w][t] = ended(phase)]
  <2>1. ended(phase) \in Run
    BY <1>1 DEF Run
  <2>2. run' = [run EXCEPT ![w][t] = ended(phase)]
    <3> HIDE DEF UpdateTargetStatus
    <3> QED
      BY <1>2, PhaseChanges DEF IInv, TypeOK
  <2> QED
    BY <2>1, <2>2
<1>4. LocalTypes' /\ WorkersFit' /\ OwnersUnique' /\ LocksAccounted'
  <2>1. run[w][t].phase \in Holding /\ phase \in Holding \ {"claimed"}
    BY DEF Holding
  <2>2. ended(phase).phase = phase /\ ended(phase).gen = run[w][t].gen
    OBVIOUS
  <2>3. UNCHANGED <<localVars, lockVars>>
    OBVIOUS
  <2> HIDE DEF UpdateTargetStatus, ended
  <2> QED
    BY <1>3, <2>1, <2>2, <2>3, RunGoesOn
<1>5. RegistryTypes'
  BY DEF IInv, TypeOK, RegistryTypes, StatusOf
<1>6. OutsideTypes' /\ CacheTypes' /\ QueueTypes'
  BY DEF IInv, TypeOK, OutsideTypes, CacheTypes, QueueTypes
<1> QED
  BY <1>4, <1>5, <1>6, ObjectsKept DEF IInv, TypeOK

\* A single task records what came of its sync and returns.
LEMMA FinishSingleIInv == ASSUME IInv, NEW w \in Workers, FinishSingle(w) PROVE IInv'
<1> USE DEF FinishSingle
<1>1. pc[w] = "sync" /\ pc[w] \in SinglePCs
  BY DEF SinglePCs
<1>2. task[w].target \in Targets /\ NoRun \in Run /\ NoRun.phase = "none"
  BY <1>1 DEF IInv, TypeOK, LocalTypes, WorkersFit, TaskFits, IsBatch, Task, NoRun, Run
<1>3. /\ run' \in [Workers -> [Targets -> Run]]
      /\ \A v \in Workers : v # w => run'[v] = run[v]
      /\ \A t \in Targets : run'[w][t].phase = "none"
  BY <1>1, <1>2 DEF IInv, TypeOK, LocalTypes, WorkersFit, RunsFit
<1>4. LocalTypes' /\ WorkersFit' /\ OwnersUnique' /\ LocksAccounted'
  BY <1>1, <1>3, SingleReturns
<1>5. OutsideTypes' /\ RegistryTypes' /\ CacheTypes' /\ QueueTypes'
  BY DEF IInv, TypeOK, OutsideTypes, RegistryTypes, CacheTypes, QueueTypes, ReturnSingle,
         UnlockTarget
<1>6. ObjectsMade'
  BY DEF IInv, TypeOK, LocalTypes, ObjectsMade, ActiveObjects, ReturnSingle, Return
<1> QED
  BY <1>4, <1>5, <1>6 DEF IInv, TypeOK

-----------------------------------------------------------------------------
\* IInv is inductive.
LEMMA NextIInv == IInv /\ [Next]_vars => IInv'
<1> SUFFICES ASSUME IInv, [Next]_vars PROVE IInv'
  OBVIOUS
<1>1. ASSUME NEW w \in Workers, WorkerStep(w) PROVE IInv'
  BY <1>1, DequeueIInv, ClaimBatchIInv, ClaimTargetIInv, LookupIInv, RefreshSourceIInv,
     ResolveSourceIInv, LoadManifestsIInv, RangeTargetsIInv, InvalidateTargetIInv,
     InvalidateTargetsIInv, PublishTargetIInv, PublishTargetsIInv, FetchIdentitiesIInv, FetchGroupsIInv, FetchBatchGroupsIInv, SkipSingleIInv,
     StartSingleIInv, FinishSingleIInv, EndBatchIInv, PassOverIInv, ClaimInBatchIInv,
     SkipInBatchIInv, StartInBatchIInv
     DEF WorkerStep
<1>2. ASSUME NEW w \in Workers, NEW t \in Targets, RunStep(w, t) PROVE IInv'
  BY <1>2, BeginSyncIInv, EndSyncIInv, UpdateTargetStatusIInv, ReleaseInBatchIInv,
     RecordInBatchIInv DEF RunStep
<1>3. CASE UNCHANGED vars
  <2>1. TypeOK'
    BY <1>3 DEF vars, IInv, TypeOK, OutsideTypes, RegistryTypes, CacheTypes, QueueTypes,
                LocalTypes
  <2> QED
    BY <1>3, <2>1, ObjectsKept, OutsideStep DEF vars, IInv
<1> QED
  BY <1>1, <1>2, <1>3, EnvironmentIInv, TickerIInv DEF Next

\* Every reachable state satisfies IInv.
THEOREM Invariance == Spec => []IInv
BY InitIInv, NextIInv, PTL DEF Spec

\* The maps of Manager and the locals of its workers keep their types, and the
\* task queue its capacity.
THEOREM TypeCorrect == Spec => []TypeOK
<1>1. IInv => TypeOK
  BY DEF IInv
<1> QED
  BY <1>1, Invariance, PTL

\* However many workers and targets there are, reconcilingTargets holds exactly
\* the targets some goroutine is reconciling, and the batch locks likewise.
THEOREM NoLockLeaks == Spec => []LocksAccounted
<1>1. IInv => LocksAccounted
  BY DEF IInv
<1> QED
  BY <1>1, Invariance, PTL

\* No target is ever synced by two goroutines at once.
THEOREM MutualExclusion == Spec => []SyncExclusive
<1>1. IInv => SyncExclusive
  <2> SUFFICES ASSUME IInv, NEW t \in Targets, NEW v \in Workers, NEW w \in Workers,
                      run[v][t].phase = "syncing", run[w][t].phase = "syncing", v # w
               PROVE  FALSE
    BY DEF SyncExclusive
  <2>1. Owns(v, t) /\ Owns(w, t)
    BY DEF IInv, WorkersFit, RunsFit, Owns, SinglePCs
  <2> QED
    BY <2>1 DEF IInv, OwnersUnique
<1> QED
  BY <1>1, Invariance, PTL

-----------------------------------------------------------------------------
(***************************************************************************)
(* Reconciler implements TargetLock: whatever its workers do, each target  *)
(* sees acquire, call, return and release by one holder.  By IInv the map  *)
(* reconcilingTargets tells who owns what, so that a step is told by what  *)
(* it does to the map and to the calls in progress.                        *)
(***************************************************************************)
\* A step that the abstract lock takes, or that it does not notice.
LockStep == [Lock!Next]_(Lock!lockVars)

\* No call is in progress and no target is held at the start.
LEMMA InitLock == Init => Lock!Init
<1> SUFFICES ASSUME Init PROVE Lock!Init
  OBVIOUS
<1>1. \A t \in Targets : Owners(t) = {}
  BY DEF Init, Owners, Owns, SinglePCs
<1>2. calling = {}
  BY DEF Init, calling, NoRun
<1> QED
  BY <1>1, <1>2 DEF Lock!Init, holder

-----------------------------------------------------------------------------
\* A call in progress is made by the owner of its target.
LEMMA CallerOwns ==
  ASSUME IInv, NEW w \in Workers, NEW t \in Targets, run[w][t].phase = "syncing"
  PROVE  Owns(w, t)
BY DEF IInv, WorkersFit, RunsFit, Owns, SinglePCs

\* The holder is told target by target.
LEMMA HolderIsFunction ==
  /\ holder = [t \in Targets |-> holder[t]]
  /\ holder' = [t \in Targets |-> holder'[t]]
BY DEF holder

\* A step of w leaves the holder of t as it is when t stays locked or unlocked.
LEMMA HolderKept ==
  ASSUME IInv, IInv', NEW w \in Workers, OthersKept(w), NEW t \in Targets,
         t \in reconcilingTargets' <=> t \in reconcilingTargets
  PROVE  holder'[t] = holder[t]
<1>1. \A v \in Workers : v # w => (Owns(v, t)' <=> Owns(v, t))
  BY OthersOwn
<1>2. /\ t \in reconcilingTargets <=> \E v \in Workers : Owns(v, t)
      /\ t \in reconcilingTargets' <=> \E v \in Workers : Owns(v, t)'
  BY DEF IInv, LocksAccounted
<1>3. Owns(w, t)' <=> Owns(w, t)
  BY <1>1, <1>2 DEF IInv, OwnersUnique
<1>4. Owners(t)' = Owners(t)
  BY <1>1, <1>3 DEF Owners
<1> QED
  BY <1>4 DEF holder

\* A step that changes neither the locked targets nor the calls.
LEMMA LockStutters ==
  ASSUME IInv, IInv', NEW w \in Workers, OthersKept(w),
         UNCHANGED <<reconcilingTargets, calling>>
  PROVE  LockStep
<1>1. \A t \in Targets : holder'[t] = holder[t]
  BY HolderKept
<1>2. holder' = holder
  BY <1>1, HolderIsFunction
<1> QED
  BY <1>2 DEF LockStep, Lock!lockVars

\* LoadOrStore succeeds: w becomes the holder.
LEMMA LockAcquired ==
  ASSUME IInv, IInv', NEW w \in Workers, OthersKept(w), UNCHANGED calling,
         NEW t \in Targets, ~TargetLocked(t), LockTarget(t)
  PROVE  LockStep
<1>1. Owners(t) = {} /\ Owners(t)' # {} /\ \A v \in Workers : v # w => ~Owns(v, t)'
  BY OthersOwn DEF IInv, LocksAccounted, TargetLocked, LockTarget, Owners
<1>2. Owners(t)' = {w}
  BY <1>1 DEF Owners
<1>3. holder[t] = None /\ holder'[t] = w
  BY <1>1, <1>2 DEF holder
<1>4. \A u \in Targets \ {t} : holder'[u] = holder[u]
  BY HolderKept DEF LockTarget
<1>5. Lock!Acquire(w, t)
  BY <1>3, <1>4, HolderIsFunction DEF Lock!Acquire
<1> QED
  BY <1>5 DEF LockStep, Lock!Next

\* Delete: the owner, with no call in progress, is the holder no more.
LEMMA LockReleased ==
  ASSUME IInv, IInv', NEW w \in Workers, OthersKept(w), UNCHANGED calling,
         NEW t \in Targets, Owns(w, t), run[w][t].phase # "syncing", UnlockTarget(t)
  PROVE  LockStep
<1>1. Owners(t) = {w} /\ Owners(t)' = {}
  BY DEF IInv, LocksAccounted, OwnersUnique, UnlockTarget, Owners
<1>2. holder[t] # None /\ holder'[t] = None
  BY <1>1, NoneAssumption DEF holder
<1>3. t \notin calling
  BY <1>1, CallerOwns DEF calling, Owners
<1>4. \A u \in Targets \ {t} : holder'[u] = holder[u]
  BY HolderKept DEF UnlockTarget
<1>5. Lock!Release(t)
  BY <1>2, <1>3, <1>4, HolderIsFunction DEF Lock!Release
<1> QED
  BY <1>5 DEF LockStep, Lock!Next

-----------------------------------------------------------------------------
\* Steps of nobody's: the locals, the runs and the locks stay as they are.
LEMMA OutsideLock ==
  ASSUME UNCHANGED <<localVars, run, lockVars>>
  PROVE  LockStep
<1>1. \A w \in Workers, t \in Targets : Owns(w, t)' <=> Owns(w, t)
  BY DEF Owns
<1>2. ASSUME NEW t \in Targets PROVE holder'[t] = holder[t]
  <2>1. Owners(t)' = Owners(t)
    BY <1>1 DEF Owners
  <2> QED
    BY <2>1 DEF holder
<1>3. UNCHANGED <<holder, calling>>
  BY <1>2, HolderIsFunction DEF calling
<1> QED
  BY <1>3 DEF LockStep, Lock!lockVars

\* Runs that do not change leave the calls as they are.
LEMMA CallsKept == UNCHANGED run => UNCHANGED calling
BY DEF calling

\* Return changes the locals of w only.
LEMMA ReturnKeepsOthers ==
  ASSUME IInv, NEW w \in Workers, Return(w), \A v \in Workers : v # w => run'[v] = run[v]
  PROVE  OthersKept(w)
BY DEF IInv, TypeOK, LocalTypes, OthersKept, Return, GoTo

\* The deferred Delete of executeSingle.
LEMMA SingleLock ==
  ASSUME IInv, IInv', NEW w \in Workers, pc[w] \in SinglePCs, ReturnSingle(w),
         UNCHANGED calling, \A v \in Workers : v # w => run'[v] = run[v],
         run[w][task[w].target].phase # "syncing"
  PROVE  LockStep
<1>1. task[w].target \in Targets
  BY DEF IInv, TypeOK, LocalTypes, WorkersFit, TaskFits, IsBatch, Task, SinglePCs
<1>2. OthersKept(w)
  BY ReturnKeepsOthers DEF ReturnSingle
<1>3. Owns(w, task[w].target)
  BY DEF Owns
<1> QED
  BY <1>1, <1>2, <1>3, LockReleased DEF ReturnSingle

\* The deferred Delete of executeBatch: no target is concerned.
LEMMA BatchLock ==
  ASSUME IInv, IInv', NEW w \in Workers, ReturnBatch(w), UNCHANGED run
  PROVE  LockStep
<1>1. OthersKept(w)
  BY ReturnKeepsOthers DEF ReturnBatch
<1> QED
  BY <1>1, CallsKept, LockStutters DEF ReturnBatch

-----------------------------------------------------------------------------
(***************************************************************************)
(* Workers until the visit or the sync: no run changes.                    *)
(***************************************************************************)
\* Actions that take and release no target.
LEMMA QuietLock ==
  ASSUME IInv, IInv', NEW w \in Workers,
         \/ Dequeue(w) \/ ClaimBatch(w) \/ RefreshSource(w) \/ LoadTarget(w) \/ LoadTargets(w)
         \/ RangeTargets(w) \/ InvalidateTarget(w) \/ PublishTarget(w) \/ PublishTargets(w)
         \/ EndBatch(w) \/ \E o \in todo[w] : InvalidateTargets(w, o) \/ PassOver(w, o)
  PROVE  LockStep
<1> USE DEF IInv, TypeOK, LocalTypes, OthersKept, GoTo
<1>1. UNCHANGED <<reconcilingTargets, run>>
  BY DEF Dequeue, ClaimBatch, RefreshSource, LoadTarget, LoadTargets, LoadManifests,
         RangeTargets, InvalidateTarget, InvalidateTargets, PublishTarget, PublishTargets,
         EndBatch, PassOver, ReturnBatch
<1>2. CASE Dequeue(w) \/ RefreshSource(w)
  BY <1>1, <1>2, CallsKept, LockStutters DEF Dequeue, RefreshSource
<1>3. CASE ClaimBatch(w)
  <2>1. OthersKept(w)
    BY <1>1, <1>3, ReturnKeepsOthers DEF ClaimBatch
  <2> QED
    BY <1>1, <2>1, CallsKept, LockStutters
<1>4. CASE LoadTarget(w) \/ LoadTargets(w)
  BY <1>1, <1>4, CallsKept, LockStutters DEF LoadTarget, LoadTargets, LoadManifests
<1>5. CASE InvalidateTarget(w) \/ \E o \in todo[w] : InvalidateTargets(w, o)
  BY <1>1, <1>5, CallsKept, LockStutters DEF InvalidateTarget, InvalidateTargets
<1>6. CASE RangeTargets(w) \/ PublishTarget(w) \/ PublishTargets(w)
  BY <1>1, <1>6, CallsKept, LockStutters DEF RangeTargets, PublishTarget, PublishTargets
<1>7. CASE EndBatch(w)
  BY <1>7, BatchLock DEF EndBatch
<1>8. CASE \E o \in todo[w] : PassOver(w, o)
  BY <1>1, <1>8, CallsKept, LockStutters DEF PassOver
<1> QED
  BY <1>2, <1>3, <1>4, <1>5, <1>6, <1>7, <1>8

\* executeSingle takes the lock of its target, or drops the task.
LEMMA ClaimTargetLock == ASSUME IInv, IInv', NEW w \in Workers, ClaimTarget(w) PROVE LockStep
<1> DEFINE t == task[w].target
<1>1. UNCHANGED run /\ t \in Targets
  BY DEF ClaimTarget, IInv, TypeOK, LocalTypes, WorkersFit, TaskFits, IsBatch, Task
<1>2. CASE Return(w) /\ UNCHANGED reconcilingTargets
  BY <1>1, <1>2, ReturnKeepsOthers, CallsKept, LockStutters
<1>3. CASE ~(Return(w) /\ UNCHANGED reconcilingTargets)
  <2>1. ~TargetLocked(t) /\ LockTarget(t)
    BY <1>3 DEF ClaimTarget
  <2>2. OthersKept(w)
    BY <1>1, <1>3 DEF ClaimTarget, IInv, TypeOK, LocalTypes, OthersKept, GoTo
  <2> QED
    BY <1>1, <2>1, <2>2, CallsKept, LockAcquired
<1> QED
  BY <1>2, <1>3

\* A single task goes on, or returns and gives up its lock.
LEMMA SingleMovesLock ==
  ASSUME IInv, IInv', NEW w \in Workers,
         Lookup(w) \/ ResolveSource(w) \/ FetchGroups(w) \/ SkipSingle(w)
  PROVE  LockStep
<1>1. UNCHANGED run /\ pc[w] \in SinglePCs \ {"sync"}
  BY DEF Lookup, ResolveSource, FetchGroups, SkipSingle, SinglePCs
<1>2. task[w].target \in Targets
  BY <1>1 DEF IInv, TypeOK, LocalTypes, WorkersFit, TaskFits, IsBatch, Task, SinglePCs
<1>3. run[w][task[w].target].phase # "syncing"
  BY <1>1, <1>2, NoRuns DEF SinglePCs
<1>4. CASE ReturnSingle(w)
  BY <1>1, <1>3, <1>4, CallsKept, SingleLock
<1>5. CASE ~ReturnSingle(w)
  <2>1. OthersKept(w) /\ UNCHANGED reconcilingTargets
    BY <1>5 DEF Lookup, ResolveSource, FetchGroups, SkipSingle, IInv, TypeOK, LocalTypes,
                OthersKept, GoTo
  <2> QED
    BY <1>1, <2>1, CallsKept, LockStutters
<1> QED
  BY <1>4, <1>5

\* A fetch of either kind of task, and the end of the fetch of a batch.
LEMMA FetchLock ==
  ASSUME IInv, IInv', NEW w \in Workers, FetchIdentities(w) \/ FetchBatchGroups(w)
  PROVE  LockStep
<1>1. UNCHANGED run /\ pc[w] \in {"ids", "batchIds", "batchGroups"}
  BY DEF FetchIdentities, FetchBatchGroups
<1>2. CASE ReturnSingle(w) /\ ~IsBatch(w)
  <2>1. pc[w] \in SinglePCs
    BY <1>1, <1>2 DEF IInv, WorkersFit, TaskFits, SinglePCs, BatchPCs
  <2>2. task[w].target \in Targets
    BY <1>2, <2>1 DEF IInv, TypeOK, LocalTypes, WorkersFit, TaskFits, IsBatch, Task, SinglePCs
  <2>3. run[w][task[w].target].phase # "syncing"
    BY <1>1, <2>2, NoRuns
  <2> QED
    BY <1>1, <1>2, <2>1, <2>3, CallsKept, SingleLock
<1>3. CASE ReturnBatch(w)
  BY <1>1, <1>3, BatchLock
<1>4. CASE ~ReturnBatch(w) /\ ~(ReturnSingle(w) /\ ~IsBatch(w))
  <2>1. OthersKept(w) /\ UNCHANGED reconcilingTargets
    BY <1>4 DEF FetchIdentities, FetchBatchGroups, Leave, IInv, TypeOK, LocalTypes,
                OthersKept, GoTo
  <2> QED
    BY <1>1, <2>1, CallsKept, LockStutters
<1> QED
  BY <1>2, <1>3, <1>4

-----------------------------------------------------------------------------
(***************************************************************************)
(* Runs: the goroutines of a batch, and the sync of a single task.         *)
(***************************************************************************)
\* The step changes the run of w for t alone, to phase p.
RunTo(w, t, p) ==
  /\ run'[w][t].phase = p
  /\ \A u \in Targets : u # t => run'[w][u] = run[w][u]
  /\ \A v \in Workers : v # w => run'[v] = run[v]

\* An assignment to one run.
LEMMA RunAssigned ==
  ASSUME IInv, NEW w \in Workers, NEW t \in Targets, NEW r, run' = [run EXCEPT ![w][t] = r]
  PROVE  RunTo(w, t, r.phase)
<1>1. run \in [Workers -> [Targets -> Run]]
  BY DEF IInv, TypeOK, LocalTypes
<1>2. run'[w][t] = r
  BY <1>1
<1> QED
  BY <1>1, <1>2 DEF RunTo

\* An assignment to the phase of one run.
LEMMA PhaseAssigned ==
  ASSUME IInv, NEW w \in Workers, NEW t \in Targets, NEW p,
         run' = [run EXCEPT ![w][t].phase = p]
  PROVE  RunTo(w, t, p)
<1> DEFINE r == [phase |-> p, gen |-> run[w][t].gen, man |-> run[w][t].man]
<1>1. run' = [run EXCEPT ![w][t] = r]
  BY PhaseChanges DEF IInv, TypeOK
<1>2. r.phase = p
  OBVIOUS
<1> HIDE DEF r
<1>3. RunTo(w, t, r.phase)
  BY <1>1, RunAssigned
<1> QED
  BY <1>2, <1>3

\* A run that is reset.
LEMMA RunReset ==
  ASSUME IInv, NEW w \in Workers, NEW t \in Targets, run' = [run EXCEPT ![w][t] = NoRun]
  PROVE  RunTo(w, t, "none")
<1>1. RunTo(w, t, NoRun.phase)
  BY RunAssigned
<1>2. NoRun.phase = "none"
  BY DEF NoRun
<1> QED
  BY <1>1, <1>2

\* A run that begins and ends no call.
LEMMA NoCall ==
  ASSUME NEW w \in Workers, NEW t \in Targets, NEW p, RunTo(w, t, p),
         run[w][t].phase # "syncing", p # "syncing"
  PROVE  UNCHANGED calling
<1>1. \A v \in Workers, u \in Targets : run'[v][u].phase = "syncing" <=> run[v][u].phase = "syncing"
  BY DEF RunTo
<1> QED
  BY <1>1 DEF calling

\* A run changes and the locals do not.
LEMMA RunKeepsOthers ==
  ASSUME NEW w \in Workers, NEW t \in Targets, NEW p, RunTo(w, t, p), UNCHANGED localVars
  PROVE  OthersKept(w)
BY DEF OthersKept, RunTo

\* The sync of a single task gets a run, which holds the lock of the task.
LEMMA StartSingleLock == ASSUME IInv, IInv', NEW w \in Workers, StartSingle(w) PROVE LockStep
<1> DEFINE t == task[w].target
           r == [phase |-> "ready", gen |-> target[w][2], man |-> None]
<1>1. pc[w] = "decide" /\ t \in Targets
  BY DEF StartSingle, IInv, TypeOK, LocalTypes, WorkersFit, TaskFits, IsBatch, Task, SinglePCs
<1>2. run' = [run EXCEPT ![w][t] = r] /\ UNCHANGED reconcilingTargets
  BY DEF StartSingle
<1>3. r.phase = "ready"
  OBVIOUS
<1>4. RunTo(w, t, "ready")
  <2> HIDE DEF r, t
  <2> QED
    BY <1>1, <1>2, <1>3, RunAssigned
<1>5. run[w][t].phase # "syncing"
  BY <1>1, NoRuns
<1>6. UNCHANGED calling
  BY <1>1, <1>4, <1>5, NoCall
<1>7. OthersKept(w)
  BY <1>4 DEF RunTo, StartSingle, OthersKept, IInv, TypeOK, LocalTypes, GoTo
<1> QED
  BY <1>2, <1>6, <1>7, LockStutters

\* A single task that has finished gives up its lock.
LEMMA FinishSingleLock == ASSUME IInv, IInv', NEW w \in Workers, FinishSingle(w) PROVE LockStep
<1> DEFINE t == task[w].target
<1>1. pc[w] \in SinglePCs /\ t \in Targets
  BY DEF FinishSingle, IInv, TypeOK, LocalTypes, WorkersFit, TaskFits, IsBatch, Task, SinglePCs
<1>2. run' = [run EXCEPT ![w][t] = NoRun] /\ run[w][t].phase # "syncing" /\ ReturnSingle(w)
  BY DEF FinishSingle
<1>3. RunTo(w, t, "none")
  BY <1>1, <1>2, RunReset
<1>4. UNCHANGED calling
  BY <1>1, <1>2, <1>3, NoCall
<1> QED
  BY <1>1, <1>2, <1>3, <1>4, SingleLock DEF RunTo

\* The loop of a batch takes the lock of a target.
LEMMA ClaimInBatchLock ==
  ASSUME IInv, IInv', NEW w \in Workers, NEW o \in todo[w], ClaimInBatch(w, o)
  PROVE  LockStep
<1> DEFINE t == o[1]
           r == [phase |-> "claimed", gen |-> o[2], man |-> None]
<1>1. t \in Targets
  BY DEF IInv, TypeOK, LocalTypes
<1>2. ~TargetLocked(t) /\ LockTarget(t) /\ run' = [run EXCEPT ![w][t] = r]
  BY DEF ClaimInBatch
<1>3. r.phase = "claimed"
  OBVIOUS
<1>4. RunTo(w, t, "claimed")
  <2> HIDE DEF r, t
  <2> QED
    BY <1>1, <1>2, <1>3, RunAssigned
<1>5. run[w][t].phase # "syncing"
  BY <1>1, <1>2, CallerOwns DEF IInv, LocksAccounted, TargetLocked
<1>6. UNCHANGED calling
  BY <1>1, <1>4, <1>5, NoCall
<1>7. OthersKept(w)
  BY <1>4 DEF RunTo, ClaimInBatch, OthersKept, IInv, TypeOK, LocalTypes
<1> QED
  BY <1>1, <1>2, <1>6, <1>7, LockAcquired

\* A run that ends, skipped or synced, gives the lock of its target back.
LEMMA ReleaseLock ==
  ASSUME IInv, IInv', NEW w \in Workers, NEW t \in Targets,
         SkipInBatch(w, t) \/ ReleaseInBatch(w, t)
  PROVE  LockStep
<1>1. /\ run[w][t].phase \in {"claimed", "synced", "failed"} /\ pc[w] = "visit"
      /\ UnlockTarget(t) /\ UNCHANGED localVars
  BY DEF SkipInBatch, ReleaseInBatch, IInv, WorkersFit, RunsFit
<1>2. RunTo(w, t, "none") \/ RunTo(w, t, "released")
  <2>1. CASE SkipInBatch(w, t)
    BY <2>1, RunReset DEF SkipInBatch
  <2>2. CASE ReleaseInBatch(w, t) /\ run[w][t].phase # "synced"
    <3>1. run' = [run EXCEPT ![w][t] = NoRun]
      BY <2>2 DEF ReleaseInBatch
    <3> QED
      BY <3>1, RunReset
  <2>3. CASE ReleaseInBatch(w, t) /\ run[w][t].phase = "synced"
    <3> DEFINE r == [run[w][t] EXCEPT !.phase = "released", !.man = None]
    <3>1. run' = [run EXCEPT ![w][t] = r]
      BY <2>3 DEF ReleaseInBatch
    <3>2. run[w][t] \in Run
      BY DEF IInv, TypeOK, LocalTypes
    <3>3. r.phase = "released"
      BY <3>2 DEF Run
    <3> HIDE DEF r
    <3> QED
      BY <3>1, <3>3, RunAssigned
  <2> QED
    BY <2>1, <2>2, <2>3
<1>3. OthersKept(w) /\ UNCHANGED calling
  BY <1>1, <1>2, NoCall, RunKeepsOthers
<1>4. Owns(w, t)
  BY <1>1 DEF Owns
<1> QED
  BY <1>1, <1>3, <1>4, LockReleased

\* Before the call and after the release, a run takes, calls and releases nothing.
LEMMA QuietRunLock ==
  ASSUME IInv, IInv', NEW w \in Workers, NEW t \in Targets,
         StartInBatch(w, t) \/ RecordInBatch(w, t)
  PROVE  LockStep
<1>1. run[w][t].phase \in {"claimed", "released"} /\ UNCHANGED <<localVars, lockVars>>
  BY DEF StartInBatch, RecordInBatch
<1>2. RunTo(w, t, "ready") \/ RunTo(w, t, "none")
  BY PhaseAssigned, RunReset DEF StartInBatch, RecordInBatch
<1>3. OthersKept(w) /\ UNCHANGED calling
  BY <1>1, <1>2, NoCall, RunKeepsOthers
<1> QED
  BY <1>1, <1>3, LockStutters

\* The status is written while the lock is kept.
LEMMA UpdateTargetStatusLock ==
  ASSUME IInv, IInv', NEW w \in Workers, NEW t \in Targets, UpdateTargetStatus(w, t)
  PROVE  LockStep
<1>1. /\ run[w][t].phase \in {"clean", "erring", "broken"} /\ UNCHANGED <<localVars, lockVars>>
      /\ run \in [Workers -> [Targets -> Run]]
  BY DEF UpdateTargetStatus, IInv, TypeOK, LocalTypes
<1>2. PICK p \in {"synced", "failed"} : run' = [run EXCEPT ![w][t].phase = p]
  BY <1>1 DEF UpdateTargetStatus, Run
<1>3. RunTo(w, t, p)
  BY <1>2, PhaseAssigned
<1>4. OthersKept(w) /\ UNCHANGED calling
  BY <1>1, <1>3, NoCall, RunKeepsOthers
<1> QED
  BY <1>1, <1>4, LockStutters

\* The caller of the operator is alone: no other worker calls it for this target.
LEMMA OneCaller ==
  ASSUME IInv, NEW w \in Workers, NEW t \in Targets, Owns(w, t)
  PROVE  \A v \in Workers : v # w => run[v][t].phase # "syncing"
BY CallerOwns DEF IInv, OwnersUnique

\* The operator is called: by the holder, and no other call is in progress.
LEMMA BeginSyncLock ==
  ASSUME IInv, IInv', NEW w \in Workers, NEW t \in Targets, BeginSync(w, t)
  PROVE  LockStep
<1> DEFINE r == [phase |-> "syncing", gen |-> run[w][t].gen,
                 man |-> manifest[<<t, run[w][t].gen>>]]
<1>1. run[w][t].phase = "ready" /\ UNCHANGED <<localVars, lockVars>>
  BY DEF BeginSync
<1>2. CASE run' = [run EXCEPT ![w][t].phase = "failed"]
  <2>1. RunTo(w, t, "failed")
    BY <1>2, PhaseAssigned
  <2>2. OthersKept(w) /\ UNCHANGED calling
    BY <1>1, <2>1, NoCall, RunKeepsOthers
  <2> QED
    BY <1>1, <2>2, LockStutters
<1>3. CASE run' = [run EXCEPT ![w][t] = r]
  <2>1. RunTo(w, t, "syncing")
    <3>1. r.phase = "syncing"
      OBVIOUS
    <3> HIDE DEF r
    <3> QED
      BY <1>3, <3>1, RunAssigned
  <2>2. Owns(w, t) /\ OthersKept(w)
    BY <1>1, <2>1, RunKeepsOthers DEF IInv, WorkersFit, RunsFit, Owns, SinglePCs
  <2>3. t \notin calling
    BY <1>1, <2>2, OneCaller DEF calling
  <2>4. \A u \in Targets : u \in calling' <=> u \in calling \/ u = t
    <3>1. \A v \in Workers, u \in Targets :
            run'[v][u].phase = "syncing" <=> run[v][u].phase = "syncing" \/ (v = w /\ u = t)
      BY <2>1 DEF RunTo
    <3> QED
      BY <3>1 DEF calling
  <2>5. calling' = calling \cup {t}
    BY <2>4 DEF calling
  <2>6. Owners(t) # {}
    BY <2>2 DEF Owners
  <2>7. holder[t] # None
    BY <2>6 DEF holder, Owners
  <2>8. holder' = holder
    BY <1>1, <2>2, HolderKept, HolderIsFunction
  <2>9. Lock!Call(t)
    BY <2>3, <2>5, <2>7, <2>8 DEF Lock!Call
  <2> QED
    BY <2>9 DEF LockStep, Lock!Next
<1> QED
  BY <1>2, <1>3 DEF BeginSync

\* The call of the operator returns, and its run keeps the lock.
LEMMA EndSyncLock ==
  ASSUME IInv, IInv', NEW w \in Workers, NEW t \in Targets, EndSync(w, t)
  PROVE  LockStep
<1>1. run[w][t].phase = "syncing" /\ UNCHANGED <<localVars, lockVars>>
  BY DEF EndSync
<1>2. \E p \in {"clean", "erring", "broken"} : RunTo(w, t, p)
  BY PhaseAssigned DEF EndSync
<1>3. OthersKept(w)
  BY <1>1, <1>2, RunKeepsOthers
<1>4. \A v \in Workers : v # w => run[v][t].phase # "syncing"
  BY <1>1, CallerOwns, OneCaller
<1>5. \A v \in Workers, u \in Targets :
        run'[v][u].phase = "syncing" <=> run[v][u].phase = "syncing" /\ u # t
  BY <1>1, <1>2, <1>4 DEF RunTo
<1>6. \A u \in Targets : u \in calling' <=> u \in calling /\ u # t
  BY <1>5 DEF calling
<1>7. t \in calling /\ calling' = calling \ {t}
  BY <1>1, <1>6 DEF calling
<1>8. holder' = holder
  BY <1>1, <1>3, HolderKept, HolderIsFunction
<1>9. Lock!Return(t)
  BY <1>7, <1>8 DEF Lock!Return
<1> QED
  BY <1>9 DEF LockStep, Lock!Next

-----------------------------------------------------------------------------
\* Every step of Reconciler is a step of TargetLock or changes nothing there.
LEMMA NextLock == IInv /\ IInv' /\ [Next]_vars => LockStep
<1> SUFFICES ASSUME IInv, IInv', [Next]_vars PROVE LockStep
  OBVIOUS
<1>1. ASSUME NEW w \in Workers, WorkerStep(w) PROVE LockStep
  <2>1. CASE \E o \in todo[w] : ClaimInBatch(w, o)
    BY <2>1, ClaimInBatchLock
  <2>2. CASE \E t \in Targets : SkipInBatch(w, t) \/ StartInBatch(w, t)
    BY <2>2, ReleaseLock, QuietRunLock
  <2>3. CASE StartSingle(w) \/ FinishSingle(w) \/ ClaimTarget(w)
    BY <2>3, StartSingleLock, FinishSingleLock, ClaimTargetLock
  <2>4. CASE Lookup(w) \/ ResolveSource(w) \/ FetchGroups(w) \/ SkipSingle(w)
    BY <2>4, SingleMovesLock
  <2>5. CASE FetchIdentities(w) \/ FetchBatchGroups(w)
    BY <2>5, FetchLock
  <2> QED
    BY <1>1, <2>1, <2>2, <2>3, <2>4, <2>5, QuietLock DEF WorkerStep
<1>2. ASSUME NEW w \in Workers, NEW t \in Targets, RunStep(w, t) PROVE LockStep
  BY <1>2, BeginSyncLock, EndSyncLock, UpdateTargetStatusLock, ReleaseLock, QuietRunLock
     DEF RunStep
<1>3. CASE UNCHANGED <<localVars, run, lockVars>>
  BY <1>3, OutsideLock
<1>4. TickerStep \/ EnvironmentStep => UNCHANGED <<localVars, run, lockVars>>
  BY DEF TickerStep, Tick, ReloadSources, ReloadTargets, Schedule, SendBatch, EndTick,
         EnvironmentStep, EditTarget, ToggleTarget, EditSource, ToggleSource, ChangeData,
         PeriodElapses, TriggerReconciliation, FlushWebhook
<1>5. CASE UNCHANGED vars
  BY <1>3, <1>5 DEF vars
<1> QED
  BY <1>1, <1>2, <1>3, <1>4, <1>5 DEF Next

\* For any number of workers and targets, reconcilingTargets with the paths that
\* set and delete its keys is a lock of each target: one holder at a time, which
\* calls the operator at most once at a time and lets go only after it returned.
THEOREM LockImplemented == Spec => ImplementsLock
<1>1. Init => Lock!Init
  BY InitLock
<1>2. IInv /\ IInv' /\ [Next]_vars => [Lock!Next]_(Lock!lockVars)
  BY NextLock DEF LockStep
<1> QED
  BY <1>1, <1>2, Invariance, PTL DEF Spec, ImplementsLock, Lock!Spec

-----------------------------------------------------------------------------
(***************************************************************************)
(* The status of a target.  A new object has no status, and whoever calls  *)
(* Sync tells of it later, under the lock: until then the target is        *)
(* Unreported, and nobody else writes its downstream service.              *)
(***************************************************************************)
Reporting == {"clean", "erring", "broken"}

\* An object that has not been made yet has no status, and no object is made twice.
Unborn ==
  /\ \A t \in Targets : activeOperators[t] <= created[t]
  /\ \A o \in Targets \X (1..MaxGen) : o[2] > created[o[1]] => status[o] = "none"

\* A call that has returned clean, and is about to tell so, left the service well.
CleanCalls == \A w \in Workers, t \in Targets :
  run[w][t].phase = "clean" => downstream[t].state # "diverged"

StatusInv == Unborn /\ CleanCalls /\ StatusTruthful

\* No call returns, and none tells of its outcome.
ReportsKept == \A w \in Workers, t \in Targets :
  run[w][t].phase \in Reporting \/ run'[w][t].phase \in Reporting
    => run'[w][t].phase = run[w][t].phase

\* A run that neither was nor is about to tell.
LEMMA NoReport ==
  ASSUME NEW w \in Workers, NEW t \in Targets, NEW p, RunTo(w, t, p),
         run[w][t].phase \notin Reporting, p \notin Reporting
  PROVE  ReportsKept
BY DEF RunTo, ReportsKept

\* A run before its call or after its report is one that the owner of t has.
LEMMA UnownedRun ==
  ASSUME IInv, NEW w \in Workers, NEW t \in Targets, t \notin reconcilingTargets
  PROVE  run[w][t].phase \notin Reporting
BY DEF IInv, LocksAccounted, WorkersFit, RunsFit, Owns, SinglePCs, Reporting

\* A status is lost or kept by every step but the return of Sync and the report.
LEMMA StatusKept ==
  ASSUME StatusInv, UNCHANGED <<activeOperators, created, downstream>>, ReportsKept,
         \A o \in Targets \X (1..MaxGen) : status'[o] \in {status[o], "none"}
  PROVE  StatusInv'
<1>1. Unborn'
  BY DEF StatusInv, Unborn
<1>2. CleanCalls'
  BY DEF StatusInv, CleanCalls, ReportsKept, Reporting
<1>3. \A t \in Targets : Unreported(t) => Unreported(t)'
  BY DEF Unreported, ReportsKept, Reporting
<1>4. StatusTruthful'
  BY <1>3 DEF StatusInv, StatusTruthful, ActiveObjects
<1> QED
  BY <1>1, <1>2, <1>4 DEF StatusInv

\* A target that is added gets an object of its own, without a status.
LEMMA AddedStatus ==
  ASSUME IInv, StatusInv, NEW added \in SUBSET Addable, AddAndRemove(added),
         UNCHANGED <<status, downstream, run>>
  PROVE  StatusInv'
<1>1. /\ created \in [Targets -> 0..MaxGen] /\ activeOperators \in [Targets -> 0..MaxGen]
      /\ created' = [t \in Targets |-> IF t \in added THEN created[t] + 1 ELSE created[t]]
      /\ activeOperators' = [t \in Targets |-> IF t \in added THEN created[t] + 1
                                              ELSE IF t \in storeTargets THEN activeOperators[t]
                                              ELSE 0]
  BY DEF IInv, TypeOK, RegistryTypes, AddAndRemove
<1>2. Unborn'
  <2>1. ASSUME NEW t \in Targets PROVE activeOperators'[t] <= created'[t] /\ created'[t] >= created[t]
    BY <1>1 DEF StatusInv, Unborn
  <2>2. ASSUME NEW o \in Targets \X (1..MaxGen), o[2] > created'[o[1]] PROVE status'[o] = "none"
    BY <1>1, <2>1, <2>2 DEF StatusInv, Unborn
  <2> QED
    BY <2>1, <2>2 DEF Unborn
<1>3. CleanCalls' /\ \A t \in Targets : Unreported(t)' <=> Unreported(t)
  BY DEF StatusInv, CleanCalls, Unreported
<1>4. ASSUME NEW o \in ActiveObjects', status'[o] = "Success"
      PROVE  downstream'[o[1]].state # "diverged" \/ Unreported(o[1])'
  <2>1. o \in Targets \X (1..MaxGen) /\ activeOperators'[o[1]] = o[2] /\ o[2] > 0
    BY DEF ActiveObjects
  <2>2. o[1] \notin added
    BY <1>1, <1>4, <2>1 DEF StatusInv, Unborn
  <2>3. o \in ActiveObjects
    BY <1>1, <2>1, <2>2 DEF ActiveObjects
  <2> QED
    BY <1>3, <1>4, <2>1, <2>3 DEF StatusInv, StatusTruthful
<1> QED
  BY <1>2, <1>3, <1>4 DEF StatusInv, StatusTruthful

\* A Sync that returns leaves the service well, or has its failure still to tell.
LEMMA EndSyncStatus ==
  ASSUME IInv, StatusInv, NEW w \in Workers, NEW t \in Targets, EndSync(w, t)
  PROVE  StatusInv'
<1>1. PICK p \in Reporting : run' = [run EXCEPT ![w][t].phase = p]
  BY DEF EndSync, Reporting
<1>2. PICK left \in Downstream : /\ downstream' = [downstream EXCEPT ![t] = left]
                                 /\ p = "clean" => left.state # "diverged"
  <2>1. Outcome(w, t) \in Downstream /\ Outcome(w, t).state # "diverged" /\ Diverged \in Downstream
    BY OutcomeType DEF EndSync
  <2>2. /\ run[w][t] \in Run /\ run'[w][t].phase = p
        /\ downstream' = [downstream EXCEPT ![t] = Outcome(w, t)]
           \/ (downstream' = [downstream EXCEPT ![t] = Diverged] /\ p # "clean")
    <3>1. run \in [Workers -> [Targets -> Run]]
      BY DEF IInv, TypeOK, LocalTypes
    <3>2. run'[w][t].phase = p
      BY <1>1, <3>1 DEF Run
    <3>3. ASSUME NEW q \in Reporting, run' = [run EXCEPT ![w][t].phase = q] PROVE p = q
      BY <3>1, <3>2, <3>3 DEF Run
    <3> QED
      BY <3>1, <3>2, <3>3 DEF EndSync, Reporting
  <2> QED
    BY <2>1, <2>2
<1>3. RunTo(w, t, p)
  BY <1>1, PhaseAssigned
<1>4. UNCHANGED <<activeOperators, created, status>> /\ downstream \in [Targets -> Downstream]
  BY DEF EndSync, IInv, TypeOK, OutsideTypes
<1>5. Owns(w, t) /\ \A v \in Workers : v # w => run'[v][t].phase # "clean"
  <2>1. Owns(w, t)
    BY CallerOwns DEF EndSync
  <2>2. ASSUME NEW v \in Workers, v # w PROVE run[v][t].phase # "clean"
    <3>1. run[v][t].phase = "clean" => Owns(v, t)
      BY DEF IInv, WorkersFit, RunsFit, Owns, SinglePCs
    <3> QED
      BY <2>1, <2>2, <3>1 DEF IInv, OwnersUnique
  <2> QED
    BY <1>3, <2>1, <2>2 DEF RunTo
<1>6. CleanCalls'
  <2> SUFFICES ASSUME NEW v \in Workers, NEW u \in Targets, run'[v][u].phase = "clean"
               PROVE  downstream'[u].state # "diverged"
    BY DEF CleanCalls
  <2>1. CASE u = t
    BY <1>2, <1>3, <1>4, <1>5, <2>1 DEF RunTo
  <2>2. CASE u # t
    BY <1>2, <1>3, <1>4, <2>2 DEF RunTo, StatusInv, CleanCalls
  <2> QED
    BY <2>1, <2>2
<1>7. Unreported(t)' /\ \A u \in Targets : u # t => (Unreported(u)' <=> Unreported(u))
  BY <1>3 DEF RunTo, Unreported, Reporting
<1>8. StatusTruthful'
  BY <1>2, <1>4, <1>7 DEF StatusInv, StatusTruthful, ActiveObjects
<1> QED
  BY <1>4, <1>6, <1>8 DEF StatusInv, Unborn

\* The report is true of the service, whatever object it is written to.
LEMMA UpdateTargetStatusStatus ==
  ASSUME IInv, StatusInv, NEW w \in Workers, NEW t \in Targets, UpdateTargetStatus(w, t)
  PROVE  StatusInv'
<1> DEFINE said == StatusOf(run[w][t].phase)
<1>1. /\ run[w][t].phase \in Reporting /\ run \in [Workers -> [Targets -> Run]]
      /\ activeOperators \in [Targets -> 0..MaxGen] /\ created \in [Targets -> 0..MaxGen]
      /\ status \in [Targets \X (1..MaxGen) -> {"none", "Success", "Failed"}]
      /\ UNCHANGED <<activeOperators, created, downstream>>
  BY DEF UpdateTargetStatus, Reporting, IInv, TypeOK, LocalTypes, RegistryTypes
<1>2. PICK p \in {"synced", "failed"} : run' = [run EXCEPT ![w][t].phase = p]
  BY <1>1 DEF UpdateTargetStatus, Run
<1>3. RunTo(w, t, p)
  BY <1>2, PhaseAssigned
<1>4. CleanCalls'
  BY <1>1, <1>3 DEF RunTo, StatusInv, CleanCalls
<1>5. \A u \in Targets : u # t => (Unreported(u)' <=> Unreported(u))
  BY <1>3 DEF RunTo, Unreported
<1>6. status' = IF activeOperators[t] = 0 THEN status
                ELSE [status EXCEPT ![<<t, activeOperators[t]>>] = said]
  BY DEF UpdateTargetStatus
<1>7. said = "Success" => downstream[t].state # "diverged"
  BY <1>1 DEF StatusOf, StatusInv, CleanCalls
<1> HIDE DEF said
<1>8. Unborn'
  <2> SUFFICES ASSUME NEW o \in Targets \X (1..MaxGen), o[2] > created[o[1]]
               PROVE  status'[o] = "none"
    BY <1>1 DEF StatusInv, Unborn
  <2>1. status[o] = "none" /\ activeOperators[o[1]] <= created[o[1]]
    BY DEF StatusInv, Unborn
  <2>2. o # <<t, activeOperators[t]>>
    BY <2>1, <1>1
  <2> QED
    BY <1>1, <1>6, <2>1, <2>2
<1>9. ASSUME NEW o \in ActiveObjects', status'[o] = "Success"
      PROVE  downstream'[o[1]].state # "diverged" \/ Unreported(o[1])'
  <2>1. o \in ActiveObjects /\ o \in Targets \X (1..MaxGen) /\ activeOperators[o[1]] = o[2]
    BY <1>1 DEF ActiveObjects
  <2>2. CASE o[1] # t
    <3>1. status[o] = "Success" /\ downstream'[o[1]] = downstream[o[1]]
      BY <1>1, <1>6, <1>9, <2>1, <2>2
    <3> QED
      BY <1>5, <2>1, <2>2, <3>1 DEF StatusInv, StatusTruthful
  <2>3. CASE o[1] = t
    <3>1. o = <<t, activeOperators[t]>> /\ activeOperators[t] # 0
      BY <2>1, <2>3
    <3>2. status'[o] = said
      BY <1>1, <1>6, <2>1, <3>1
    <3> QED
      BY <1>1, <1>7, <1>9, <2>3, <3>2
  <2> QED
    BY <2>2, <2>3
<1> QED
  BY <1>4, <1>8, <1>9 DEF StatusInv, StatusTruthful

\* The steps of a worker call no operator and tell nothing.
LEMMA WorkerReports ==
  ASSUME IInv, NEW w \in Workers, WorkerStep(w)
  PROVE  ReportsKept
<1>1. CASE UNCHANGED run
  BY <1>1 DEF ReportsKept
<1>2. CASE \E o \in todo[w] : ClaimInBatch(w, o)
  <2>1. PICK o \in todo[w] : ClaimInBatch(w, o)
    BY <1>2
  <2> DEFINE t == o[1]
             r == [phase |-> "claimed", gen |-> o[2], man |-> None]
  <2>2. t \in Targets /\ t \notin reconcilingTargets /\ run' = [run EXCEPT ![w][t] = r]
    BY <2>1 DEF IInv, TypeOK, LocalTypes, ClaimInBatch, TargetLocked
  <2>3. r.phase = "claimed"
    OBVIOUS
  <2> HIDE DEF t, r
  <2>4. RunTo(w, t, r.phase)
    BY <2>2, RunAssigned
  <2>5. run[w][t].phase \notin Reporting /\ r.phase \notin Reporting
    BY <2>2, <2>3, UnownedRun DEF Reporting
  <2> QED
    BY <2>2, <2>4, <2>5, NoReport
<1>3. CASE StartSingle(w)
  <2> DEFINE t == task[w].target
             r == [phase |-> "ready", gen |-> target[w][2], man |-> None]
  <2>1. pc[w] = "decide" /\ t \in Targets /\ run' = [run EXCEPT ![w][t] = r]
    BY <1>3 DEF StartSingle, IInv, TypeOK, LocalTypes, WorkersFit, TaskFits, IsBatch, Task,
                SinglePCs
  <2>2. r.phase = "ready"
    OBVIOUS
  <2> HIDE DEF t, r
  <2>3. RunTo(w, t, r.phase)
    BY <2>1, RunAssigned
  <2>4. run[w][t].phase \notin Reporting /\ r.phase \notin Reporting
    BY <2>1, <2>2, NoRuns DEF Reporting
  <2> QED
    BY <2>1, <2>3, <2>4, NoReport
<1>4. CASE FinishSingle(w)
  <2> DEFINE t == task[w].target
  <2>1. /\ t \in Targets /\ run' = [run EXCEPT ![w][t] = NoRun]
        /\ run[w][t].phase \notin Reporting
    BY <1>4 DEF FinishSingle, IInv, TypeOK, LocalTypes, WorkersFit, TaskFits, IsBatch, Task,
                SinglePCs, Reporting
  <2> HIDE DEF t
  <2>2. RunTo(w, t, "none") /\ "none" \notin Reporting
    BY <2>1, RunReset DEF Reporting
  <2> QED
    BY <2>1, <2>2, NoReport
<1>5. CASE \E t \in Targets : SkipInBatch(w, t)
  <2>1. PICK t \in Targets : SkipInBatch(w, t)
    BY <1>5
  <2>2. RunTo(w, t, "none") /\ run[w][t].phase \notin Reporting /\ "none" \notin Reporting
    BY <2>1, RunReset DEF SkipInBatch, Reporting
  <2> QED
    BY <2>2, NoReport
<1>6. CASE \E t \in Targets : StartInBatch(w, t)
  <2>1. PICK t \in Targets : StartInBatch(w, t)
    BY <1>6
  <2>2. RunTo(w, t, "ready") /\ run[w][t].phase \notin Reporting /\ "ready" \notin Reporting
    BY <2>1, PhaseAssigned DEF StartInBatch, Reporting
  <2> QED
    BY <2>2, NoReport
<1>7. \/ UNCHANGED run \/ StartSingle(w) \/ FinishSingle(w)
      \/ \E o \in todo[w] : ClaimInBatch(w, o)
      \/ \E t \in Targets : SkipInBatch(w, t) \/ StartInBatch(w, t)
  BY DEF WorkerStep, Dequeue, ClaimBatch, ClaimTarget, Lookup, RefreshSource, ResolveSource,
     LoadTarget, LoadTargets, LoadManifests, RangeTargets, InvalidateTarget, InvalidateTargets,
     PublishTarget, PublishTargets, FetchIdentities, FetchGroups, FetchBatchGroups, SkipSingle,
     EndBatch, PassOver
<1> QED
  BY <1>1, <1>2, <1>3, <1>4, <1>5, <1>6, <1>7

\* The other steps of the workers and of their goroutines.
LEMMA WorkerStatus ==
  ASSUME IInv, StatusInv, NEW w \in Workers, WorkerStep(w)
  PROVE  StatusInv'
<1>1. UNCHANGED <<activeOperators, created, downstream>>
  BY DEF WorkerStep, Dequeue, ClaimBatch, ClaimTarget, Lookup, RefreshSource, ResolveSource,
     LoadTarget, LoadTargets, LoadManifests, RangeTargets, InvalidateTarget, InvalidateTargets,
     PublishTarget, PublishTargets, FetchIdentities, FetchGroups, FetchBatchGroups, SkipSingle,
     StartSingle, FinishSingle, EndBatch, PassOver, ClaimInBatch, SkipInBatch, StartInBatch
<1>2. status \in [Targets \X (1..MaxGen) -> {"none", "Success", "Failed"}]
  BY DEF IInv, TypeOK, RegistryTypes
<1>3. CASE Publish(w)
  <2>1. \A o \in Targets \X (1..MaxGen) : status'[o] \in {status[o], "none"}
    BY <1>2, <1>3 DEF Publish
  <2> QED
    BY <1>1, <2>1, WorkerReports, StatusKept
<1>4. CASE UNCHANGED status
  BY <1>1, <1>4, WorkerReports, StatusKept
<1>5. Publish(w) \/ UNCHANGED status
  BY DEF WorkerStep, Dequeue, ClaimBatch, ClaimTarget, Lookup, RefreshSource, ResolveSource,
     LoadTarget, LoadTargets, LoadManifests, RangeTargets, InvalidateTarget, InvalidateTargets,
     PublishTarget, PublishTargets, FetchIdentities, FetchGroups, FetchBatchGroups, SkipSingle,
     StartSingle, FinishSingle, EndBatch, PassOver, ClaimInBatch, SkipInBatch, StartInBatch
<1> QED
  BY <1>3, <1>4, <1>5

\* A run that begins its call, or is over.
LEMMA RunReports ==
  ASSUME IInv, StatusInv, NEW w \in Workers, NEW t \in Targets,
         BeginSync(w, t) \/ ReleaseInBatch(w, t) \/ RecordInBatch(w, t)
  PROVE  StatusInv'
<1>1. \E p : RunTo(w, t, p) /\ p \notin Reporting
  <2>1. CASE run' = [run EXCEPT ![w][t].phase = "failed"]
    <3>1. RunTo(w, t, "failed") /\ "failed" \notin Reporting
      BY <2>1, PhaseAssigned DEF Reporting
    <3> QED
      BY <3>1
  <2>2. CASE run' = [run EXCEPT ![w][t] = NoRun]
    <3>1. RunTo(w, t, "none") /\ "none" \notin Reporting
      BY <2>2, RunReset DEF Reporting
    <3> QED
      BY <3>1
  <2>3. CASE BeginSync(w, t) /\ run' # [run EXCEPT ![w][t].phase = "failed"]
    <3> DEFINE r == [phase |-> "syncing", gen |-> run[w][t].gen,
                     man |-> manifest[<<t, run[w][t].gen>>]]
    <3>1. run' = [run EXCEPT ![w][t] = r]
      BY <2>3 DEF BeginSync
    <3>2. r.phase = "syncing"
      OBVIOUS
    <3> HIDE DEF r
    <3>3. RunTo(w, t, r.phase)
      BY <3>1, RunAssigned
    <3> QED
      BY <3>2, <3>3 DEF Reporting
  <2>4. CASE ReleaseInBatch(w, t) /\ run' # [run EXCEPT ![w][t] = NoRun]
    <3> DEFINE r == [run[w][t] EXCEPT !.phase = "released", !.man = None]
    <3>1. run' = [run EXCEPT ![w][t] = r]
      BY <2>4 DEF ReleaseInBatch
    <3>2. run[w][t] \in Run
      BY DEF IInv, TypeOK, LocalTypes
    <3>3. r.phase = "released"
      BY <3>2 DEF Run
    <3> HIDE DEF r
    <3>4. RunTo(w, t, r.phase)
      BY <3>1, RunAssigned
    <3> QED
      BY <3>3, <3>4 DEF Reporting
  <2>5. RecordInBatch(w, t) => run' = [run EXCEPT ![w][t] = NoRun]
    BY DEF RecordInBatch
  <2> QED
    BY <2>1, <2>2, <2>3, <2>4, <2>5
<1>2. run[w][t].phase \notin Reporting
  BY DEF BeginSync, ReleaseInBatch, RecordInBatch, Reporting
<1>3. ReportsKept
  BY <1>1, <1>2, NoReport
<1>4. UNCHANGED <<activeOperators, created, downstream, status>>
  BY DEF BeginSync, ReleaseInBatch, RecordInBatch
<1> QED
  BY <1>3, <1>4, StatusKept

\* The statuses and the services agree, whatever happens.
LEMMA NextStatus == IInv /\ StatusInv /\ [Next]_vars => StatusInv'
<1> SUFFICES ASSUME IInv, StatusInv, [Next]_vars PROVE StatusInv'
  OBVIOUS
<1>1. UNCHANGED run => ReportsKept
  BY DEF ReportsKept
<1>2. ASSUME NEW w \in Workers, NEW t \in Targets, RunStep(w, t) PROVE StatusInv'
  BY <1>2, EndSyncStatus, UpdateTargetStatusStatus, RunReports DEF RunStep
<1>3. CASE TickerStep
  <2>1. CASE ReloadTargets
    <3>1. CASE UNCHANGED <<activeOperators, created, manifest, initialised, due>>
      <4>1. UNCHANGED <<activeOperators, created, downstream, status, run>>
        BY <2>1, <3>1 DEF ReloadTargets
      <4> QED
        BY <1>1, <4>1, StatusKept
    <3>2. CASE \E added \in SUBSET Addable : AddAndRemove(added)
      <4>1. UNCHANGED <<status, downstream, run>>
        BY <2>1 DEF ReloadTargets
      <4> QED
        BY <3>2, <4>1, AddedStatus
    <3> QED
      BY <2>1, <3>1, <3>2 DEF ReloadTargets
  <2>2. CASE Tick \/ ReloadSources \/ Schedule \/ (\E s \in Sources : SendBatch(s)) \/ EndTick
    <3>1. UNCHANGED <<activeOperators, created, downstream, status, run>>
      BY <2>2 DEF Tick, ReloadSources, Schedule, SendBatch, EndTick
    <3> QED
      BY <1>1, <3>1, StatusKept
  <2> QED
    BY <1>3, <2>1, <2>2 DEF TickerStep
<1>4. CASE EnvironmentStep
  <2>1. UNCHANGED <<activeOperators, created, downstream, status, run>>
    BY <1>4 DEF EnvironmentStep, EditTarget, ToggleTarget, EditSource, ToggleSource, ChangeData,
       PeriodElapses, TriggerReconciliation, FlushWebhook
  <2> QED
    BY <1>1, <2>1, StatusKept
<1>5. CASE UNCHANGED vars
  <2>1. UNCHANGED <<activeOperators, created, downstream, status, run>>
    BY <1>5 DEF vars
  <2> QED
    BY <1>1, <2>1, StatusKept
<1> QED
  BY <1>2, <1>3, <1>4, <1>5, WorkerStatus DEF Next

\* Whatever the workers, the ticker and the editors of manifests do between the
\* return of Sync and updateTargetStatus, and however many Syncs fail, the status
\* Success is only shown over a service that the last Sync of its target left well,
\* or until the goroutine that still holds the lock has told of a failure.
THEOREM StatusIsTruthful == Spec => []StatusTruthful
<1>1. Init => StatusInv
  BY DEF Init, StatusInv, Unborn, CleanCalls, StatusTruthful, ActiveObjects, NoRun
<1>2. StatusInv => StatusTruthful
  BY DEF StatusInv
<1> QED
  BY <1>1, <1>2, NextStatus, Invariance, PTL DEF Spec
===============================================================================
