------------------------------ MODULE Reconciler ------------------------------
(***************************************************************************)
(* The reconciliation core of lexicore's controller: the task queue, the   *)
(* worker goroutines that run executeBatch and executeSingle, the global   *)
(* ticker that reloads the manifests and schedules batches, and the maps   *)
(* they share (active operators and sources, manifest hashes, source-data  *)
(* hashes, per-target and per-batch locks).                                *)
(*                                                                         *)
(* A step of a worker ends wherever another goroutine can observe or       *)
(* change what the worker uses next: after every claim or release of a     *)
(* lock, every read of the store or of the source, every publication of a  *)
(* manifest, and before and after the call of Sync.                        *)
(*                                                                         *)
(* The source and the downstream service are abstracted to versions: a     *)
(* fetch returns the current version, to which a source may return, and a  *)
(* full sync that succeeds leaves the downstream at the fetched snapshot   *)
(* under the manifest read for it and the one the operator was initialised *)
(* with, which are not the same after an edit.                             *)
(***************************************************************************)
EXTENDS Naturals, Sequences, FiniteSets

CONSTANTS
  Sources,        \* identity source names
  Targets,        \* sync target names
  Workers,        \* worker goroutines (workers.reconcileWorkers)
  None,           \* a value outside every other set
  QueueSize,      \* capacity of the task channel (workers.queueSize)
  SkipUnchanged,  \* targets whose operator has skipUnchangedSync: true
  PartialOps,     \* targets whose operator implements PartialSync
  PartialSources, \* sources that are PartialFetchCapable
  Failing,        \* the calls that may fail, a subset of Calls
  MaxGen,         \* bound: ActiveOperator objects ever created per target
  MaxData,        \* bound: changes of the data of the sources, and their versions
  MaxEdits,       \* bound: edits of the manifest store
  MaxFaults,      \* bound: failed calls
  MaxTriggers,    \* bound: accepted manual triggers
  MaxWebhooks,    \* bound: partial tasks flushed by the webhook debouncer
  MaxEvents       \* bound: the last five together

ASSUME QueueSizeAssumption == QueueSize \in Nat
ASSUME BoundsAssumption ==
  /\ MaxGen \in Nat /\ MaxData \in Nat /\ MaxEdits \in Nat
  /\ MaxFaults \in Nat /\ MaxTriggers \in Nat /\ MaxWebhooks \in Nat
  /\ MaxEvents \in Nat
\* Reads of the store, Initialize, the two fetches, the hash of what they returned,
\* NewPipeline and Execute, Sync and PartialSync.
Calls == {"store", "initialize", "fetch", "hash", "pipeline", "sync"}

ASSUME CapabilityAssumption ==
  /\ Failing \subseteq Calls
  /\ SkipUnchanged \subseteq Targets
  /\ PartialOps \subseteq Targets
  /\ PartialSources \subseteq Sources

VARIABLES
  \* the environment: manifest store, identity providers, downstream services
  storeSources,   \* source names the store returns
  storeTargets,   \* target names the store returns
  sourceManifest, \* version of each source manifest file
  targetManifest, \* content of each target manifest file
  data,           \* version of the data of each source
  downstream,     \* what the last sync left in each downstream service
  env,            \* how many environment events of each kind happened
  \* Manager
  activeSources, activeOperators, created, manifest, initialised, status, due,
  sourceManifestHashes, targetManifestHashes, sourceDataHashes,
  reconcilingTargets, reconcilingBatches, queue,
  \* worker goroutines and the goroutines of their batches
  pc, task, target, src, snap, fresh, todo, run,
  \* globalTicker
  tick, toSend

storeVars    == <<storeSources, storeTargets, sourceManifest, targetManifest>>
registryVars == <<activeSources, activeOperators, created, manifest, initialised, status, due>>
cacheVars    == <<sourceManifestHashes, targetManifestHashes, sourceDataHashes>>
lockVars     == <<reconcilingTargets, reconcilingBatches>>
localVars    == <<pc, task, target, src, snap, fresh, todo>>
tickerVars   == <<tick, toSend>>
outsideVars  == <<data, downstream>>

vars == <<storeVars, data, downstream, env, registryVars, cacheVars, lockVars,
          queue, localVars, run, tickerVars>>

-----------------------------------------------------------------------------
\* Types

Manifest == [ver : Nat, src : Sources]
Snapshot == [src : Sources \cup {None}, ids : Nat, groups : Nat]
Task     == [kind : {"batch"}, source : Sources, target : {None}]
              \cup [kind : {"manual", "webhook"}, source : Sources, target : Targets]
Object   == Targets \X Nat           \* an *ActiveOperator: name and generation

\* What a downstream service holds: what the last full sync applied (a snapshot
\* under the manifest read for it, by an operator initialised with another), as it
\* is or as a PartialSync or a Sync on a subset left it; or the remains of a failure.
Downstream == [state : {"applied", "diverged", "truncated", "patched"}, snap : Snapshot,
               man : Manifest \cup {None}, init : Manifest \cup {None}]
Applied(snapshot, man, init) ==
  [state |-> "applied", snap |-> snapshot, man |-> man, init |-> init]
Diverged == [state |-> "diverged", snap |-> [src |-> None, ids |-> 0, groups |-> 0],
             man |-> None, init |-> None]

ASSUME NoneAssumption ==
  /\ None \notin Sources /\ None \notin Targets /\ None \notin Workers
  /\ None \notin Nat /\ None \notin Manifest /\ None \notin Snapshot /\ None \notin Task
  /\ None \notin Object

SinglePCs == {"lookup", "loadTarget", "invalidateTarget", "publishTarget", "source",
              "ids", "groups", "decide", "sync"}
BatchPCs  == {"refreshSource", "loadTargets", "rangeTargets", "invalidateTargets",
              "publishTargets", "batchIds", "batchGroups", "visit"}
PCs       == {"idle", "claim"} \cup SinglePCs \cup BatchPCs

NoRun  == [phase |-> "none", gen |-> 0, man |-> None]
Run    == [phase : {"none", "claimed", "ready", "syncing", "clean", "erring", "broken",
                    "synced", "failed", "released"},
           gen : Nat, man : Manifest \cup {None}]
NoData == [ids |-> 0, groups |-> 0, hashed |-> FALSE]
Unread == [t \in Targets |-> None]

-----------------------------------------------------------------------------
\* Who holds what

IsBatch(w) == task[w] # None /\ task[w].kind = "batch"

\* Worker w, or a goroutine of its batch, owns the lock of target t.
Owns(w, t) ==
  \/ pc[w] \in SinglePCs /\ task[w].target = t
  \/ pc[w] = "visit" /\ run[w][t].phase \notin {"none", "released"}

OwnsBatch(w, s) == pc[w] \in BatchPCs /\ task[w].source = s

ActiveObjects == {o \in Targets \X (1..MaxGen) : activeOperators[o[1]] = o[2]}

\* executeSingle: the fetch is partial only if the source supports it.
IsPartial(w) == task[w].kind = "webhook" /\ src[w] \in PartialSources

\* reconcileTarget: Sync is called with the result of a partial fetch when the
\* operator answers PartialSync with "partial sync not implemented".
SyncsSubset(w, t) == IsPartial(w) /\ t \notin PartialOps

\* One more event of this kind.
Occurs(kind, bound) ==
  /\ env[kind] < bound
  /\ env.data + env.edits + env.faults + env.triggers + env.webhooks < MaxEvents
  /\ env' = [env EXCEPT ![kind] = @ + 1]

Fault(call) == call \in Failing /\ Occurs("faults", MaxFaults)

-----------------------------------------------------------------------------
Init ==
  /\ storeSources \in SUBSET Sources
  /\ storeTargets \in SUBSET Targets
  /\ sourceManifest = [s \in Sources |-> 0]
  /\ targetManifest \in [Targets -> [ver : {0}, src : Sources]]
  /\ data = [s \in Sources |-> 0]
  /\ downstream = [t \in Targets |-> Diverged]
  /\ env = [data |-> 0, edits |-> 0, faults |-> 0, triggers |-> 0, webhooks |-> 0]
  /\ activeSources = {}
  /\ activeOperators = [t \in Targets |-> 0]
  /\ created = [t \in Targets |-> 0]
  /\ manifest = [o \in Targets \X (1..MaxGen) |-> None]
  /\ initialised = [o \in Targets \X (1..MaxGen) |-> None]
  /\ status = [o \in Targets \X (1..MaxGen) |-> "none"]
  /\ due = [o \in Targets \X (1..MaxGen) |-> FALSE]
  /\ sourceManifestHashes = [s \in Sources |-> None]
  /\ targetManifestHashes = [t \in Targets |-> None]
  /\ sourceDataHashes = [t \in Targets |-> None]
  /\ reconcilingTargets = {}
  /\ reconcilingBatches = {}
  /\ queue = <<>>
  /\ pc = [w \in Workers |-> "idle"]
  /\ task = [w \in Workers |-> None]
  /\ target = [w \in Workers |-> None]
  /\ src = [w \in Workers |-> None]
  /\ snap = [w \in Workers |-> NoData]
  /\ fresh = [w \in Workers |-> Unread]
  /\ todo = [w \in Workers |-> {}]
  /\ run = [w \in Workers |-> [t \in Targets |-> NoRun]]
  /\ tick = "reload"
  /\ toSend = {}

-----------------------------------------------------------------------------
(***************************************************************************)
(* The environment.  Manifest files are edited, removed (or become         *)
(* unreadable, which FileStore treats alike) and restored; the data of a   *)
(* source changes, also back to what they were; ActiveOperator objects     *)
(* become due as time passes.                                              *)
(***************************************************************************)
Edit == Occurs("edits", MaxEdits)

EditTarget(t) ==
  /\ Edit
  /\ \E s \in Sources :
       targetManifest' = [targetManifest EXCEPT ![t] = [ver |-> @.ver + 1, src |-> s]]
  /\ UNCHANGED <<storeSources, storeTargets, sourceManifest, outsideVars, registryVars,
                 cacheVars, lockVars, queue, localVars, run, tickerVars>>

ToggleTarget(t) ==
  /\ Edit
  /\ storeTargets' = IF t \in storeTargets THEN storeTargets \ {t} ELSE storeTargets \cup {t}
  /\ UNCHANGED <<storeSources, sourceManifest, targetManifest, outsideVars, registryVars,
                 cacheVars, lockVars, queue, localVars, run, tickerVars>>

EditSource(s) ==
  /\ Edit
  /\ sourceManifest' = [sourceManifest EXCEPT ![s] = @ + 1]
  /\ UNCHANGED <<storeSources, storeTargets, targetManifest, outsideVars, registryVars,
                 cacheVars, lockVars, queue, localVars, run, tickerVars>>

ToggleSource(s) ==
  /\ Edit
  /\ storeSources' = IF s \in storeSources THEN storeSources \ {s} ELSE storeSources \cup {s}
  /\ UNCHANGED <<storeTargets, sourceManifest, targetManifest, outsideVars, registryVars,
                 cacheVars, lockVars, queue, localVars, run, tickerVars>>

ChangeData(s) ==
  /\ Occurs("data", MaxData)
  /\ \E version \in 0..MaxData \ {data[s]} : data' = [data EXCEPT ![s] = version]
  /\ UNCHANGED <<storeVars, downstream, registryVars, cacheVars, lockVars,
                 queue, localVars, run, tickerVars>>

\* now - lastReconciled reaches DefaultSyncPeriod.
PeriodElapses(o) ==
  /\ o \in ActiveObjects /\ ~due[o]
  /\ due' = [due EXCEPT ![o] = TRUE]
  /\ UNCHANGED <<storeVars, outsideVars, env, activeSources, activeOperators, created,
                 manifest, initialised, status, cacheVars, lockVars, queue, localVars, run,
                 tickerVars>>

-----------------------------------------------------------------------------
(***************************************************************************)
(* globalTicker: reloadFromStore, then scheduleReconciliations, at start   *)
(* and every minute.                                                       *)
(***************************************************************************)
Tick ==
  /\ tick = "wait"
  /\ tick' = "reload"
  /\ UNCHANGED <<storeVars, outsideVars, env, registryVars, cacheVars, lockVars, queue,
                 localVars, run, toSend>>

\* Sources that appear in the store are added unless Initialize fails; sources
\* that left the store are removed.  A store that cannot be read changes nothing.
ReloadSources ==
  /\ tick = "reload"
  /\ tick' = "reloadTargets"
  /\ \/ activeSources' = storeSources /\ UNCHANGED env
     \/ Fault("store") /\ UNCHANGED activeSources
     \/ Fault("initialize") /\ \E s \in storeSources \ activeSources : activeSources' = storeSources \ {s}
  /\ UNCHANGED <<storeVars, outsideVars, activeOperators, created, manifest, initialised,
                 status, due, cacheVars, lockVars, queue, localVars, run, toSend>>

\* AddSyncTarget needs the source of the target to be active.
Addable == {t \in storeTargets : /\ activeOperators[t] = 0
                                  /\ targetManifest[t].src \in activeSources
                                  /\ created[t] < MaxGen}

\* A new object runs its operator on the manifest of now, whatever is refreshed later.
AddAndRemove(added) ==
  LET new == {<<t, created[t] + 1>> : t \in added}
  IN /\ activeOperators' = [t \in Targets |-> IF t \in added THEN created[t] + 1
                                             ELSE IF t \in storeTargets THEN activeOperators[t]
                                             ELSE 0]
     /\ created' = [t \in Targets |-> IF t \in added THEN created[t] + 1 ELSE created[t]]
     /\ manifest' = [o \in DOMAIN manifest |-> IF o \in new THEN targetManifest[o[1]]
                                              ELSE manifest[o]]
     /\ initialised' = [o \in DOMAIN initialised |-> IF o \in new THEN targetManifest[o[1]]
                                                    ELSE initialised[o]]
     /\ due' = [o \in DOMAIN due |-> due[o] \/ o \in new]

ReloadTargets ==
  /\ tick = "reloadTargets"
  /\ tick' = "schedule"
  /\ \/ AddAndRemove(Addable) /\ UNCHANGED env
     \/ /\ Fault("store")
        /\ UNCHANGED <<activeOperators, created, manifest, initialised, due>>
     \/ Fault("initialize") /\ \E t \in Addable : AddAndRemove(Addable \ {t})
  /\ UNCHANGED <<storeVars, outsideVars, activeSources, status, cacheVars, lockVars, queue,
                 localVars, run, toSend>>

\* The sources of the due targets; one batch task is sent for each.
DueSources == {manifest[o].src : o \in {p \in ActiveObjects : due[p]}}

Schedule ==
  /\ tick = "schedule"
  /\ tick' = "send"
  /\ toSend' = DueSources
  /\ UNCHANGED <<storeVars, outsideVars, env, registryVars, cacheVars, lockVars, queue,
                 localVars, run>>

\* A non-blocking send: dropped when the channel is full.
TrySend(tk) == queue' = IF Len(queue) < QueueSize THEN Append(queue, tk) ELSE queue

SendBatch(s) ==
  /\ tick = "send" /\ s \in toSend
  /\ TrySend([kind |-> "batch", source |-> s, target |-> None])
  /\ toSend' = toSend \ {s}
  /\ UNCHANGED <<storeVars, outsideVars, env, registryVars, cacheVars, lockVars, localVars,
                 run, tick>>

EndTick ==
  /\ tick = "send" /\ toSend = {}
  /\ tick' = "wait"
  /\ UNCHANGED <<storeVars, outsideVars, env, registryVars, cacheVars, lockVars, queue,
                 localVars, run, toSend>>

-----------------------------------------------------------------------------
\* The other senders: the HTTP handlers and the webhook debouncer.

TriggerReconciliation(o) ==
  /\ o \in ActiveObjects
  /\ Len(queue) < QueueSize
  /\ Occurs("triggers", MaxTriggers)
  /\ TrySend([kind |-> "manual", source |-> manifest[o].src, target |-> o[1]])
  /\ UNCHANGED <<storeVars, outsideVars, registryVars, cacheVars, lockVars, localVars, run,
                 tickerVars>>

FlushWebhook(o) ==
  /\ o \in ActiveObjects
  /\ Occurs("webhooks", MaxWebhooks)
  /\ TrySend([kind |-> "webhook", source |-> manifest[o].src, target |-> o[1]])
  /\ UNCHANGED <<storeVars, outsideVars, registryVars, cacheVars, lockVars, localVars, run,
                 tickerVars>>

-----------------------------------------------------------------------------
(***************************************************************************)
(* Workers: taking a task and claiming its lock.                           *)
(***************************************************************************)
GoTo(w, l) == pc' = [pc EXCEPT ![w] = l]

\* The worker is done with its task: the locals of the call are gone.
Return(w) ==
  /\ GoTo(w, "idle")
  /\ task'  = [task EXCEPT ![w] = None]
  /\ target' = [target EXCEPT ![w] = None]
  /\ src'   = [src EXCEPT ![w] = None]
  /\ snap'  = [snap EXCEPT ![w] = NoData]
  /\ fresh' = [fresh EXCEPT ![w] = Unread]
  /\ todo'  = [todo EXCEPT ![w] = {}]

\* reconcilingTargets.LoadOrStore(t) and reconcilingTargets.Delete(t)
TargetLocked_Ignored(t) == FALSE
TargetLocked(t) == t \in reconcilingTargets
UnlockTarget_Forgotten(t) == UNCHANGED reconcilingTargets
UnlockTarget(t) == reconcilingTargets' = reconcilingTargets \ {t}
LockTarget(t) == reconcilingTargets' = reconcilingTargets \cup {t}

\* The deferred Delete of executeSingle and of executeBatch.
ReturnSingle(w) == UnlockTarget(task[w].target) /\ UNCHANGED reconcilingBatches /\ Return(w)
ReturnBatch(w) == /\ reconcilingBatches' = reconcilingBatches \ {task[w].source}
                  /\ UNCHANGED reconcilingTargets
                  /\ Return(w)
Leave(w) == IF IsBatch(w) THEN ReturnBatch(w) ELSE ReturnSingle(w)

Dequeue(w) ==
  /\ pc[w] = "idle" /\ queue # <<>>
  /\ GoTo(w, "claim")
  /\ task' = [task EXCEPT ![w] = Head(queue)]
  /\ queue' = Tail(queue)
  /\ UNCHANGED <<storeVars, outsideVars, env, registryVars, cacheVars, lockVars, target, src,
                 snap, fresh, todo, run, tickerVars>>

\* executeBatch: one batch per source at a time, another one is dropped.
ClaimBatch(w) ==
  /\ pc[w] = "claim" /\ IsBatch(w)
  /\ \/ task[w].source \in reconcilingBatches /\ Return(w) /\ UNCHANGED lockVars
     \/ /\ task[w].source \notin reconcilingBatches
        /\ reconcilingBatches' = reconcilingBatches \cup {task[w].source}
        /\ src' = [src EXCEPT ![w] = task[w].source]
        /\ GoTo(w, "refreshSource")
        /\ UNCHANGED <<reconcilingTargets, task, target, snap, fresh, todo>>
  /\ UNCHANGED <<storeVars, outsideVars, env, registryVars, cacheVars, queue, run, tickerVars>>

\* executeSingle: a target that is being reconciled drops the task.
ClaimTarget(w) ==
  /\ pc[w] = "claim" /\ ~IsBatch(w)
  /\ \/ TargetLocked(task[w].target) /\ Return(w) /\ UNCHANGED reconcilingTargets
     \/ /\ ~TargetLocked(task[w].target)
        /\ LockTarget(task[w].target)
        /\ GoTo(w, "lookup")
        /\ UNCHANGED <<task, target, src, snap, fresh, todo>>
  /\ UNCHANGED <<storeVars, outsideVars, env, registryVars, cacheVars, reconcilingBatches,
                 queue, run, tickerVars>>

\* executeSingle loads its *ActiveOperator and keeps the pointer.
Lookup(w) ==
  LET t == task[w].target
  IN /\ pc[w] = "lookup"
     /\ \/ activeOperators[t] = 0 /\ ReturnSingle(w)
        \/ /\ activeOperators[t] # 0
           /\ target' = [target EXCEPT ![w] = <<t, activeOperators[t]>>]
           /\ GoTo(w, "loadTarget")
           /\ UNCHANGED <<lockVars, task, src, snap, fresh, todo>>
     /\ UNCHANGED <<storeVars, outsideVars, env, registryVars, cacheVars, queue, run,
                    tickerVars>>

-----------------------------------------------------------------------------
(***************************************************************************)
(* Workers: refreshing manifests.  A changed manifest deletes the cached   *)
(* source-data hash, records the new manifest hash and only then replaces  *)
(* the manifest of the ActiveOperator, whose operator goes on with the     *)
(* config of its Initialize.                                               *)
(***************************************************************************)
TargetsOf(s) == {o \in ActiveObjects : manifest[o].src = s}

RefreshSourceManifest(s) ==
  /\ IF sourceManifestHashes[s] # sourceManifest[s]
       THEN /\ sourceManifestHashes' = [sourceManifestHashes EXCEPT ![s] = sourceManifest[s]]
            /\ sourceDataHashes' = [t \in Targets |->
                 IF \E o \in TargetsOf(s) : o[1] = t THEN None ELSE sourceDataHashes[t]]
       ELSE UNCHANGED <<sourceManifestHashes, sourceDataHashes>>
  /\ UNCHANGED targetManifestHashes

\* A source that cannot be loaded or is not active keeps its cached manifest.
TryRefreshSource(s) ==
  \/ Fault("store") /\ UNCHANGED cacheVars
  \/ s \in storeSources \cap activeSources /\ RefreshSourceManifest(s) /\ UNCHANGED env
  \/ s \notin storeSources \cap activeSources /\ UNCHANGED <<cacheVars, env>>

RefreshSource(w) ==
  /\ pc[w] = "refreshSource"
  /\ TryRefreshSource(task[w].source)
  /\ GoTo(w, "loadTargets")
  /\ UNCHANGED <<storeVars, outsideVars, registryVars, lockVars, queue, task, target, src,
                 snap, fresh, todo, run, tickerVars>>

\* executeSingle resolves its source after the refresh of the target, and fails
\* when the source is not active.
ResolveSource(w) ==
  LET s == manifest[target[w]].src
  IN /\ pc[w] = "source"
     /\ \/ s \notin activeSources /\ ReturnSingle(w) /\ UNCHANGED <<cacheVars, env>>
        \/ /\ s \in activeSources
           /\ src' = [src EXCEPT ![w] = s]
           /\ TryRefreshSource(s)
           /\ GoTo(w, "ids")
           /\ UNCHANGED <<lockVars, task, target, snap, fresh, todo>>
     /\ UNCHANGED <<storeVars, outsideVars, registryVars, queue, run, tickerVars>>

StoreView == [t \in Targets |-> IF t \in storeTargets THEN targetManifest[t] ELSE None]

LoadManifests(w, here, ok, failed) ==
  /\ pc[w] = here
  /\ \/ fresh' = [fresh EXCEPT ![w] = StoreView] /\ GoTo(w, ok) /\ UNCHANGED env
     \/ Fault("store") /\ GoTo(w, failed) /\ UNCHANGED fresh
  /\ UNCHANGED <<storeVars, outsideVars, registryVars, cacheVars, lockVars, queue, task, target,
                 src, snap, todo, run, tickerVars>>

LoadTarget(w)  == LoadManifests(w, "loadTarget", "invalidateTarget", "source")
LoadTargets(w) == LoadManifests(w, "loadTargets", "rangeTargets", "batchIds")

\* refreshAllTargetManifests ranges over the objects that the store has a manifest for.
Refreshable(w) == {o \in ActiveObjects : fresh[w][o[1]] # None}

RangeTargets(w) ==
  /\ pc[w] = "rangeTargets"
  /\ todo' = [todo EXCEPT ![w] = Refreshable(w)]
  /\ IF Refreshable(w) = {} THEN GoTo(w, "batchIds") /\ fresh' = [fresh EXCEPT ![w] = Unread]
                           ELSE GoTo(w, "invalidateTargets") /\ UNCHANGED fresh
  /\ UNCHANGED <<storeVars, outsideVars, env, registryVars, cacheVars, lockVars, queue, task,
                 target, src, snap, run, tickerVars>>

\* The freshly loaded manifest of t has another hash.
Changed(w, t) == fresh[w][t] # None /\ targetManifestHashes[t] # fresh[w][t]

Invalidate(w, t) ==
  IF Changed(w, t)
    THEN /\ sourceDataHashes' = [sourceDataHashes EXCEPT ![t] = None]
         /\ targetManifestHashes' = [targetManifestHashes EXCEPT ![t] = fresh[w][t]]
    ELSE UNCHANGED <<sourceDataHashes, targetManifestHashes>>

InvalidateTarget(w) ==
  /\ pc[w] = "invalidateTarget"
  /\ Invalidate(w, target[w][1])
  /\ GoTo(w, "publishTarget")
  /\ UNCHANGED <<storeVars, outsideVars, env, registryVars, sourceManifestHashes, lockVars,
                 queue, task, target, src, snap, fresh, todo, run, tickerVars>>

InvalidateTargets(w, o) ==
  /\ pc[w] = "invalidateTargets" /\ o \in todo[w]
  /\ Invalidate(w, o[1])
  /\ target' = [target EXCEPT ![w] = o]
  /\ todo' = [todo EXCEPT ![w] = @ \ {o}]
  /\ GoTo(w, "publishTargets")
  /\ UNCHANGED <<storeVars, outsideVars, env, registryVars, sourceManifestHashes, lockVars,
                 queue, task, src, snap, fresh, run, tickerVars>>

\* target.manifest = fresh; the status lives in the manifest and is lost with it.
Publish(w) ==
  LET o == target[w]
  IN IF fresh[w][o[1]] = None THEN UNCHANGED <<manifest, status>>
     ELSE /\ manifest' = [manifest EXCEPT ![o] = fresh[w][o[1]]]
          /\ status' = [status EXCEPT ![o] = "none"]

PublishTarget(w) ==
  /\ pc[w] = "publishTarget"
  /\ Publish(w)
  /\ fresh' = [fresh EXCEPT ![w] = Unread]
  /\ GoTo(w, "source")
  /\ UNCHANGED <<storeVars, outsideVars, env, activeSources, activeOperators, created,
                 initialised, due, cacheVars, lockVars, queue, task, target, src, snap, todo,
                 run, tickerVars>>

PublishTargets(w) ==
  /\ pc[w] = "publishTargets"
  /\ Publish(w)
  /\ target' = [target EXCEPT ![w] = None]
  /\ IF todo[w] = {} THEN GoTo(w, "batchIds") /\ fresh' = [fresh EXCEPT ![w] = Unread]
                     ELSE GoTo(w, "invalidateTargets") /\ UNCHANGED fresh
  /\ UNCHANGED <<storeVars, outsideVars, env, activeSources, activeOperators, created,
                 initialised, due, cacheVars, lockVars, queue, task, src, snap, todo, run,
                 tickerVars>>

-----------------------------------------------------------------------------
(***************************************************************************)
(* Workers: the two fetches of getIdentitiesAndGroups, and the hash of     *)
(* what they returned.  The data may change between the two.               *)
(***************************************************************************)
FetchIdentities(w) ==
  /\ pc[w] \in {"ids", "batchIds"}
  /\ \/ /\ \/ pc[w] = "batchIds" /\ src[w] \notin activeSources /\ UNCHANGED env
           \/ Fault("fetch")
        /\ Leave(w)
     \/ /\ pc[w] = "batchIds" => src[w] \in activeSources
        /\ snap' = [snap EXCEPT ![w].ids = data[src[w]]]
        /\ GoTo(w, IF IsBatch(w) THEN "batchGroups" ELSE "groups")
        /\ UNCHANGED <<env, lockVars, task, target, src, fresh, todo>>
  /\ UNCHANGED <<storeVars, outsideVars, registryVars, cacheVars, queue, run, tickerVars>>

FetchGroups(w) ==
  /\ pc[w] = "groups"
  /\ \/ Fault("fetch") /\ ReturnSingle(w)
     \/ \E hashed \in BOOLEAN :
          /\ IF hashed THEN UNCHANGED env ELSE Fault("hash")
          /\ snap' = [snap EXCEPT ![w].groups = data[src[w]], ![w].hashed = hashed]
          /\ GoTo(w, "decide")
          /\ UNCHANGED <<lockVars, task, target, src, fresh, todo>>
  /\ UNCHANGED <<storeVars, outsideVars, registryVars, cacheVars, queue, run, tickerVars>>

FetchBatchGroups(w) ==
  /\ pc[w] = "batchGroups"
  /\ \/ Fault("fetch") /\ ReturnBatch(w)
     \/ \E hashed \in BOOLEAN :
          /\ IF hashed THEN UNCHANGED env ELSE Fault("hash")
          /\ snap' = [snap EXCEPT ![w].groups = data[src[w]], ![w].hashed = hashed]
          /\ todo' = [todo EXCEPT ![w] = TargetsOf(src[w])]
          /\ GoTo(w, "visit")
          /\ UNCHANGED <<lockVars, task, target, src, fresh>>
  /\ UNCHANGED <<storeVars, outsideVars, registryVars, cacheVars, queue, run, tickerVars>>

Fetched(w) == [src |-> src[w], ids |-> snap[w].ids, groups |-> snap[w].groups]

\* computeSourceDataHash covers the identities and the groups.
SourceDataHash_IdentitiesOnly(w) == [src |-> src[w], ids |-> snap[w].ids, groups |-> 0]
SourceDataHash(w) == Fetched(w)

\* hasSourceDataChanged, ShouldSkipUnchangedSync and task.forced: a target is
\* skipped when the hash of the data is the cached one.
SkipsTarget(w, t) == /\ snap[w].hashed /\ sourceDataHashes[t] = SourceDataHash(w)
                     /\ t \in SkipUnchanged
                     /\ task[w].kind # "manual"

\* The hash is stored before the sync that will use the data.
StoreHash(w, t) ==
  sourceDataHashes' = IF snap[w].hashed
                      THEN [sourceDataHashes EXCEPT ![t] = SourceDataHash(w)]
                      ELSE sourceDataHashes

\* One iteration of the loop of executeBatch over the targets of the source: it
\* passes over a locked target, or locks it and then skips it or starts the
\* goroutine that syncs it.
NoneClaimed(w) == \A t \in Targets : run[w][t].phase # "claimed"

PassOver(w, o) ==
  /\ pc[w] = "visit" /\ o \in todo[w] /\ NoneClaimed(w)
  /\ TargetLocked(o[1])
  /\ todo' = [todo EXCEPT ![w] = @ \ {o}]
  /\ UNCHANGED <<storeVars, outsideVars, env, registryVars, cacheVars, lockVars, queue, pc,
                 task, target, src, snap, fresh, run, tickerVars>>

ClaimInBatch(w, o) ==
  /\ pc[w] = "visit" /\ o \in todo[w] /\ NoneClaimed(w)
  /\ ~TargetLocked(o[1])
  /\ LockTarget(o[1])
  /\ run' = [run EXCEPT ![w][o[1]] = [phase |-> "claimed", gen |-> o[2], man |-> None]]
  /\ todo' = [todo EXCEPT ![w] = @ \ {o}]
  /\ UNCHANGED <<storeVars, outsideVars, env, registryVars, cacheVars, reconcilingBatches,
                 queue, pc, task, target, src, snap, fresh, tickerVars>>

SkipInBatch(w, t) ==
  /\ run[w][t].phase = "claimed"
  /\ SkipsTarget(w, t)
  /\ due' = [due EXCEPT ![<<t, run[w][t].gen>>] = FALSE]
  /\ UnlockTarget(t)
  /\ run' = [run EXCEPT ![w][t] = NoRun]
  /\ UNCHANGED <<storeVars, outsideVars, env, activeSources, activeOperators, created,
                 manifest, initialised, status, cacheVars, reconcilingBatches, queue, localVars,
                 tickerVars>>

StartInBatch(w, t) ==
  /\ run[w][t].phase = "claimed"
  /\ ~SkipsTarget(w, t)
  /\ StoreHash(w, t)
  /\ run' = [run EXCEPT ![w][t].phase = "ready"]
  /\ UNCHANGED <<storeVars, outsideVars, env, registryVars, sourceManifestHashes,
                 targetManifestHashes, lockVars, queue, localVars, tickerVars>>

\* batchWg.Wait, then the batch lock is released.
EndBatch(w) ==
  /\ pc[w] = "visit" /\ todo[w] = {}
  /\ \A t \in Targets : run[w][t].phase = "none"
  /\ ReturnBatch(w)
  /\ UNCHANGED <<storeVars, outsideVars, env, registryVars, cacheVars, queue, run, tickerVars>>

\* executeSingle after the fetch: a partial fetch is not compared with the hash.
SkipSingle(w) ==
  /\ pc[w] = "decide"
  /\ ~IsPartial(w) /\ SkipsTarget(w, task[w].target)
  /\ due' = [due EXCEPT ![target[w]] = FALSE]
  /\ ReturnSingle(w)
  /\ UNCHANGED <<storeVars, outsideVars, env, activeSources, activeOperators, created,
                 manifest, initialised, status, cacheVars, queue, run, tickerVars>>

StartSingle(w) ==
  /\ pc[w] = "decide"
  /\ IF IsPartial(w)
       THEN UNCHANGED sourceDataHashes
       ELSE ~SkipsTarget(w, task[w].target) /\ StoreHash(w, task[w].target)
  /\ run' = [run EXCEPT ![w][task[w].target] =
                [phase |-> "ready", gen |-> target[w][2], man |-> None]]
  /\ GoTo(w, "sync")
  /\ UNCHANGED <<storeVars, outsideVars, env, registryVars, sourceManifestHashes,
                 targetManifestHashes, lockVars, queue, task, target, src, snap, fresh,
                 todo, tickerVars>>

-----------------------------------------------------------------------------
(***************************************************************************)
(* reconcileTarget, run by a goroutine of a batch or by executeSingle.     *)
(***************************************************************************)
\* What a call that succeeds leaves in the downstream service: the operator runs on
\* the manifest of its Initialize, what it is given was made by the one read now.
Outcome(w, t) ==
  LET applied == Applied(Fetched(w), run[w][t].man, initialised[<<t, run[w][t].gen>>])
  IN IF ~IsPartial(w) THEN applied
     ELSE IF SyncsSubset(w, t) THEN [downstream[t] EXCEPT !.state = "truncated"]
     ELSE IF downstream[t] = applied THEN applied
     ELSE [downstream[t] EXCEPT !.state = "patched"]

\* The pipeline is built from the current manifest of the object; when that or
\* its execution fails the call returns before the status is updated.
BeginSync(w, t) ==
  /\ run[w][t].phase = "ready"
  /\ \/ /\ run' = [run EXCEPT ![w][t] = [phase |-> "syncing", gen |-> @.gen,
                                         man |-> manifest[<<t, @.gen>>]]]
        /\ UNCHANGED env
     \/ /\ Fault("pipeline")
        /\ run' = [run EXCEPT ![w][t].phase = "failed"]
  /\ UNCHANGED <<storeVars, outsideVars, registryVars, cacheVars, lockVars, queue, localVars,
                 tickerVars>>

\* Sync returns: nil and nothing in the audit ("clean"), nil with errors of single
\* identities that the auditor has counted ("erring"), or an error ("broken").
EndSync(w, t) ==
  /\ run[w][t].phase = "syncing"
  /\ \/ /\ run' = [run EXCEPT ![w][t].phase = "clean"]
        /\ downstream' = [downstream EXCEPT ![t] = Outcome(w, t)]
        /\ UNCHANGED env
     \/ /\ Fault("sync")
        /\ \E outcome \in {"erring", "broken"} :
             run' = [run EXCEPT ![w][t].phase = outcome]
        /\ downstream' = [downstream EXCEPT ![t] = Diverged]
  /\ UNCHANGED <<storeVars, data, registryVars, cacheVars, lockVars, queue, localVars,
                 tickerVars>>

\* updateTargetStatus, a step later, writes to whatever object has the name by then.
StatusOf_ErrorsIgnored(outcome) == IF outcome = "broken" THEN "Failed" ELSE "Success"
StatusOf(outcome) == IF outcome = "clean" THEN "Success" ELSE "Failed"

UpdateTargetStatus(w, t) ==
  /\ run[w][t].phase \in {"clean", "erring", "broken"}
  /\ status' = IF activeOperators[t] = 0 THEN status
               ELSE [status EXCEPT ![<<t, activeOperators[t]>>] = StatusOf(run[w][t].phase)]
  /\ run' = [run EXCEPT ![w][t].phase = IF @ = "broken" THEN "failed" ELSE "synced"]
  /\ UNCHANGED <<storeVars, outsideVars, env, activeSources, activeOperators, created,
                 manifest, initialised, due, cacheVars, lockVars, queue, localVars, tickerVars>>

\* executeSingle: lastReconciled only after success, then the deferred Delete.
FinishSingle(w) ==
  LET t == task[w].target
  IN /\ pc[w] = "sync" /\ run[w][t].phase \in {"synced", "failed"}
     /\ due' = IF run[w][t].phase = "synced"
               THEN [due EXCEPT ![<<t, run[w][t].gen>>] = FALSE]
               ELSE due
     /\ run' = [run EXCEPT ![w][t] = NoRun]
     /\ ReturnSingle(w)
     /\ UNCHANGED <<storeVars, outsideVars, env, activeSources, activeOperators, created,
                    manifest, initialised, status, cacheVars, queue, tickerVars>>

\* The goroutine of a batch deletes the lock first and records success after.
ReleaseInBatch(w, t) ==
  /\ pc[w] = "visit" /\ run[w][t].phase \in {"synced", "failed"}
  /\ UnlockTarget(t)
  /\ run' = [run EXCEPT ![w][t] = IF run[w][t].phase = "synced"
                                  THEN [run[w][t] EXCEPT !.phase = "released", !.man = None]
                                  ELSE NoRun]
  /\ UNCHANGED <<storeVars, outsideVars, env, registryVars, cacheVars, reconcilingBatches,
                 queue, localVars, tickerVars>>

RecordInBatch(w, t) ==
  /\ run[w][t].phase = "released"
  /\ due' = [due EXCEPT ![<<t, run[w][t].gen>>] = FALSE]
  /\ run' = [run EXCEPT ![w][t] = NoRun]
  /\ UNCHANGED <<storeVars, outsideVars, env, activeSources, activeOperators, created,
                 manifest, initialised, status, cacheVars, lockVars, queue, localVars, tickerVars>>

-----------------------------------------------------------------------------
WorkerStep(w) ==
  \/ Dequeue(w) \/ ClaimBatch(w) \/ ClaimTarget(w) \/ Lookup(w)
  \/ RefreshSource(w) \/ ResolveSource(w) \/ LoadTarget(w) \/ LoadTargets(w)
  \/ InvalidateTarget(w) \/ RangeTargets(w) \/ PublishTarget(w) \/ PublishTargets(w)
  \/ FetchIdentities(w) \/ FetchGroups(w) \/ FetchBatchGroups(w)
  \/ SkipSingle(w) \/ StartSingle(w) \/ FinishSingle(w) \/ EndBatch(w)
  \/ \E o \in todo[w] : InvalidateTargets(w, o) \/ PassOver(w, o) \/ ClaimInBatch(w, o)
  \/ \E t \in Targets : SkipInBatch(w, t) \/ StartInBatch(w, t)

\* The goroutine that syncs t: one per target of a batch, the worker in a single.
RunStep(w, t) == \/ BeginSync(w, t) \/ EndSync(w, t) \/ UpdateTargetStatus(w, t)
                 \/ ReleaseInBatch(w, t) \/ RecordInBatch(w, t)

TickerStep == Tick \/ ReloadSources \/ ReloadTargets \/ Schedule
              \/ (\E s \in Sources : SendBatch(s)) \/ EndTick

EnvironmentStep ==
  \/ \E t \in Targets : EditTarget(t) \/ ToggleTarget(t)
  \/ \E s \in Sources : EditSource(s) \/ ToggleSource(s) \/ ChangeData(s)
  \/ \E o \in ActiveObjects : PeriodElapses(o) \/ TriggerReconciliation(o) \/ FlushWebhook(o)

Next ==
  \/ \E w \in Workers : WorkerStep(w) \/ \E t \in Targets : RunStep(w, t)
  \/ TickerStep
  \/ EnvironmentStep

Spec == Init /\ [][Next]_vars

\* Goroutines are scheduled fairly and the ticker keeps ticking; nothing is
\* assumed of the environment except that time passes.
Fairness ==
  /\ \A w \in Workers : WF_vars(WorkerStep(w))
  /\ \A w \in Workers, t \in Targets : WF_vars(RunStep(w, t))
  /\ WF_vars(TickerStep)
  /\ \A o \in Targets \X (1..MaxGen) : WF_vars(PeriodElapses(o))

FairSpec == Spec /\ Fairness

-----------------------------------------------------------------------------
(***************************************************************************)
(* Properties.                                                             *)
(***************************************************************************)

OutsideTypes ==
  /\ storeSources \in SUBSET Sources /\ storeTargets \in SUBSET Targets
  /\ sourceManifest \in [Sources -> Nat]
  /\ targetManifest \in [Targets -> Manifest]
  /\ data \in [Sources -> Nat]
  /\ downstream \in [Targets -> Downstream]
  /\ env \in [data : Nat, edits : Nat, faults : Nat, triggers : Nat, webhooks : Nat]

RegistryTypes ==
  /\ activeSources \in SUBSET Sources
  /\ activeOperators \in [Targets -> 0..MaxGen] /\ created \in [Targets -> 0..MaxGen]
  /\ manifest \in [Targets \X (1..MaxGen) -> Manifest \cup {None}]
  /\ initialised \in [Targets \X (1..MaxGen) -> Manifest \cup {None}]
  /\ status \in [Targets \X (1..MaxGen) -> {"none", "Success", "Failed"}]
  /\ due \in [Targets \X (1..MaxGen) -> BOOLEAN]

CacheTypes ==
  /\ sourceManifestHashes \in [Sources -> Nat \cup {None}]
  /\ targetManifestHashes \in [Targets -> Manifest \cup {None}]
  /\ sourceDataHashes \in [Targets -> Snapshot \cup {None}]

QueueTypes ==
  /\ reconcilingTargets \in SUBSET Targets /\ reconcilingBatches \in SUBSET Sources
  /\ queue \in Seq(Task) /\ Len(queue) <= QueueSize
  /\ tick \in {"wait", "reload", "reloadTargets", "schedule", "send"}
  /\ toSend \in SUBSET Sources

LocalTypes ==
  /\ pc \in [Workers -> PCs]
  /\ task \in [Workers -> Task \cup {None}]
  /\ target \in [Workers -> (Targets \X (1..MaxGen)) \cup {None}]
  /\ src \in [Workers -> Sources \cup {None}]
  /\ snap \in [Workers -> [ids : Nat, groups : Nat, hashed : BOOLEAN]]
  /\ fresh \in [Workers -> [Targets -> Manifest \cup {None}]]
  /\ todo \in [Workers -> SUBSET (Targets \X (1..MaxGen))]
  /\ run \in [Workers -> [Targets -> Run]]

\* Every variable keeps its type: the Go types of Manager's maps and of the
\* locals of executeBatch, executeSingle and reconcileTarget.
TypeOK == OutsideTypes /\ RegistryTypes /\ CacheTypes /\ QueueTypes /\ LocalTypes

\* The lock reconcilingTargets[t] is what keeps two goroutines from calling
\* Sync on one target at once, whichever of executeBatch and executeSingle they
\* came through: the drivers are not written for two concurrent Syncs.
SyncExclusive ==
  \A t \in Targets : \A v, w \in Workers :
    run[v][t].phase = "syncing" /\ run[w][t].phase = "syncing" => v = w

\* No lock leaks and none is released twice: reconcilingTargets holds exactly the
\* targets some worker or batch goroutine still owns, on every return path of
\* executeSingle and executeBatch; same for the batch locks.
LocksAccounted ==
  /\ reconcilingTargets = {t \in Targets : \E w \in Workers : Owns(w, t)}
  /\ reconcilingBatches = {s \in Sources : \E w \in Workers : OwnsBatch(w, s)}

\* The state a full sync with current data and manifest leaves behind, by the
\* operator that the target has: initialised with the manifest of that time.
InSync(t) ==
  LET s == targetManifest[t].src
  IN \E o \in ActiveObjects :
       /\ o[1] = t
       /\ downstream[t] = Applied([src |-> s, ids |-> data[s], groups |-> data[s]],
                                  targetManifest[t], initialised[o])

Wanted(t) == t \in storeTargets /\ targetManifest[t].src \in storeSources

\* The hashes of a target outlive its object: reloadFromStore forgets the object of
\* a target that left the store and not what was hashed for it.  Exempt is a target
\* that came back (to a manifest nobody compared with the hashes) after an edit.
Plain(t) == created[t] <= 1 \/ targetManifest[t].ver = 0

\* A target about to be skipped as unchanged was given the data just fetched by its
\* last full sync, under its current manifest and by the operator it has, also when
\* the data have changed to something else and back.  What webhooks have written
\* since then is not undone: a PartialSync does not touch the hash.
SkipIsSound ==
  \A w \in Workers, t \in Targets :
    /\ \/ run[w][t].phase = "claimed"
       \/ pc[w] = "decide" /\ task[w].target = t /\ ~IsPartial(w)
    /\ SkipsTarget(w, t) /\ Plain(t)
    => \A o \in ActiveObjects :
         o[1] = t => [downstream[t] EXCEPT !.state = "applied"]
                       = Applied(Fetched(w), manifest[o], initialised[o])

\* Once the manifests, the data and the faults settle, every target in the store
\* reaches its source's state and stays there (README, line 3), as far as the operator
\* it was given at first can bring it.
Converges == \A t \in Targets : <>[](Wanted(t) => InSync(t))

\* The call of t that has returned last has not told its outcome yet.
Unreported(t) == \E w \in Workers : run[w][t].phase \in {"clean", "erring", "broken"}

\* A Success shown by the API is never the one before a sync that failed: the lock
\* is held until updateTargetStatus has written, by name, into whatever object and
\* manifest is current then, which a reload or a refresh may have replaced.
StatusTruthful ==
  \A o \in ActiveObjects :
    status[o] = "Success" => downstream[o[1]].state # "diverged" \/ Unreported(o[1])

-----------------------------------------------------------------------------
(***************************************************************************)
(* The inductive invariant.  LocksAccounted is not inductive by itself: a  *)
(* worker that deletes a lock must be known to be its only owner, and what *)
(* a worker owns depends on where it is and on the runs of its batch.      *)
(***************************************************************************)
\* An ActiveOperator is published with its manifest, which is never unset.
ObjectsMade ==
  /\ \A o \in ActiveObjects : manifest[o] # None
  /\ \A w \in Workers : \A o \in todo[w] : manifest[o] # None
  /\ \A w \in Workers : target[w] # None => manifest[target[w]] # None

\* Where worker w is fits the kind of its task and what it has loaded so far.
TaskFits(w) ==
  /\ pc[w] # "idle" => task[w] # None
  /\ pc[w] \in SinglePCs => ~IsBatch(w)
  /\ pc[w] \in BatchPCs => IsBatch(w) /\ src[w] \in Sources
  /\ pc[w] \in (SinglePCs \ {"lookup"}) \cup {"publishTargets"} => target[w] # None
  /\ pc[w] \in {"ids", "groups", "decide", "sync"} => src[w] \in Sources

\* Only the visit of a batch has goroutines, and a single task at most its own.
RunsFit(w) == \A t \in Targets :
  /\ run[w][t].phase # "none" =>
       /\ run[w][t].gen \in 1..MaxGen
       /\ pc[w] = "visit" \/ (pc[w] = "sync" /\ task[w].target = t)
  /\ pc[w] = "sync" => run[w][t].phase \notin {"claimed", "released"}

WorkersFit == \A w \in Workers : TaskFits(w) /\ RunsFit(w)

\* No two workers own the same lock.
OwnersUnique == \A v, w \in Workers : v # w =>
  /\ \A t \in Targets : ~(Owns(v, t) /\ Owns(w, t))
  /\ \A s \in Sources : ~(OwnsBatch(v, s) /\ OwnsBatch(w, s))

\* What every step of the controller preserves.
IInv == TypeOK /\ ObjectsMade /\ WorkersFit /\ OwnersUnique /\ LocksAccounted

-----------------------------------------------------------------------------
(***************************************************************************)
(* The locks of Reconciler implement the abstract lock of TargetLock.      *)
(***************************************************************************)
Owners(t) == {w \in Workers : Owns(w, t)}
holder == [t \in Targets |-> IF Owners(t) = {} THEN None ELSE CHOOSE w \in Owners(t) : TRUE]
calling == {t \in Targets : \E w \in Workers : run[w][t].phase = "syncing"}

Lock == INSTANCE TargetLock WITH Agents <- Workers

\* Whatever path a task takes through executeBatch, executeSingle and
\* reconcileTarget, each target sees acquire, Sync, return, release by one owner.
ImplementsLock == Lock!Spec
=============================================================================
