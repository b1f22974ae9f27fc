------------------------ MODULE ReconcilerSkip_proofs ------------------------
(***************************************************************************)
(* Proof that a target skipped as unchanged was given the data just        *)
(* fetched by its last full sync (SkipIsSound), for every number of        *)
(* sources and targets and every value of the bounds, where the code makes *)
(* it true: one worker, and no call that fails after the hash of the data  *)
(* is stored.  The data may change to anything and back, operators may     *)
(* patch or truncate the target, reads of the store and fetches may fail.  *)
(***************************************************************************)
EXTENDS Reconciler_proofs

USE QueueSizeAssumption, BoundsAssumption, NoneAssumption
    DEF storeVars, outsideVars, registryVars, cacheVars, lockVars, localVars, tickerVars

\* Two workers break SkipIsSound, and so does a failed hash, pipeline or Sync.
Setting ==
  /\ \A v, w \in Workers : v = w
  /\ Failing \cap {"hash", "pipeline", "sync"} = {}

-----------------------------------------------------------------------------
(***************************************************************************)
(* The inductive invariant.  What a hash says must follow from the maps,   *)
(* the manifests of the objects, and how far the worker has come.          *)
(***************************************************************************)
\* Only objects that were made are used, and only for them anything is hashed.
Born ==
  /\ \A t \in Targets : activeOperators[t] <= created[t]
  /\ \A w \in Workers : \A o \in todo[w] : o[2] <= created[o[1]]
  /\ \A w \in Workers : target[w] # None => target[w][2] <= created[target[w][1]]
  /\ \A w \in Workers, t \in Targets : run[w][t].phase # "none" => run[w][t].gen <= created[t]
  /\ \A t \in Targets : created[t] = 0 =>
       targetManifestHashes[t] = None /\ sourceDataHashes[t] = None

\* As long as a manifest file is not edited there is one manifest of the target.
Unedited == \A t \in Targets : targetManifest[t].ver = 0 =>
  /\ \A g \in 1..MaxGen : g <= created[t] =>
       manifest[<<t, g>>] = targetManifest[t] /\ initialised[<<t, g>>] = targetManifest[t]
  /\ \A w \in Workers : fresh[w][t] \in {None, targetManifest[t]}
  /\ targetManifestHashes[t] \in {None, targetManifest[t]}

\* A worker that has fetched has a hash, and a single task has the object of its target.
LocalsFit(w) ==
  /\ pc[w] \in {"decide", "sync", "visit"} => snap[w].hashed
  /\ pc[w] \in SinglePCs \ {"lookup"} => target[w][1] = task[w].target

RunFits(w, t) ==
  run[w][t].phase = "syncing" => run[w][t].man = manifest[<<t, run[w][t].gen>>]

\* Between the two steps of a refresh the recorded hash is ahead of the manifest.
Publishing(w, t) ==
  /\ pc[w] \in {"publishTarget", "publishTargets"} /\ fresh[w][t] # None
  /\ target[w][1] = t

Man(t) == manifest[<<t, 1>>]
InitialMan(t) == initialised[<<t, 1>>]

ManifestHashFits(t) == \A w \in Workers :
  IF Publishing(w, t)
    THEN /\ targetManifestHashes[t] = fresh[w][t]
         /\ sourceDataHashes[t] # None => fresh[w][t] = Man(t)
    ELSE targetManifestHashes[t] \in {None, Man(t)}

\* Worker w has stored the hash of t and not synced t yet.
Pending(w, t) == run[w][t].phase \in {"ready", "syncing"} /\ ~IsPartial(w)

\* The data that the hash of t was computed of are downstream, or on their way there.
DataHashFits(w, t) ==
  LET h == sourceDataHashes[t]
  IN h # None =>
       IF Pending(w, t)
         THEN h = Fetched(w)
         ELSE [downstream[t] EXCEPT !.state = "applied"] = Applied(h, Man(t), InitialMan(t))

HashesFit(t) == ManifestHashFits(t) /\ \A w \in Workers : DataHashFits(w, t)

SkipInv ==
  /\ Born /\ Unedited
  /\ \A w \in Workers : LocalsFit(w) /\ \A t \in Targets : RunFits(w, t)
  /\ \A t \in Targets : Plain(t) => HashesFit(t)

-----------------------------------------------------------------------------
\* No call fails that matters.
LEMMA NoFault ==
  ASSUME Setting PROVE ~Fault("hash") /\ ~Fault("pipeline") /\ ~Fault("sync")
BY DEF Setting, Fault

\* All objects of a plain target have the same manifests.
LEMMA OneManifest ==
  ASSUME SkipInv, IInv, NEW t \in Targets, Plain(t), NEW g \in 1..MaxGen, g <= created[t]
  PROVE  manifest[<<t, g>>] = Man(t) /\ initialised[<<t, g>>] = InitialMan(t)
<1>0. created[t] \in 0..MaxGen
  BY DEF IInv, TypeOK, RegistryTypes
<1>1. CASE created[t] <= 1
  <2>1. g = 1
    BY <1>0, <1>1
  <2> QED
    BY <2>1 DEF Man, InitialMan
<1>2. CASE targetManifest[t].ver = 0
  <2>1. 1 <= created[t] /\ 1 \in 1..MaxGen
    BY <1>0
  <2> QED
    BY <1>2, <2>1 DEF SkipInv, Unedited, Man, InitialMan
<1> QED
  BY <1>1, <1>2 DEF Plain

\* SkipInv is what SkipIsSound needs.
LEMMA SkipInvImplies == Setting /\ IInv /\ SkipInv => SkipIsSound
<1> SUFFICES ASSUME Setting, IInv, SkipInv, NEW w \in Workers, NEW t \in Targets,
                    run[w][t].phase = "claimed"
                      \/ (pc[w] = "decide" /\ task[w].target = t /\ ~IsPartial(w)),
                    SkipsTarget(w, t), Plain(t), NEW o \in ActiveObjects, o[1] = t
             PROVE  [downstream[t] EXCEPT !.state = "applied"]
                      = Applied(Fetched(w), manifest[o], initialised[o])
  BY DEF SkipIsSound
<1> DEFINE h == sourceDataHashes[t]
<1>1. pc[w] \in {"decide", "sync", "visit"} /\ ~Pending(w, t)
  BY DEF IInv, WorkersFit, RunsFit, Pending
<1>2. h = Fetched(w) /\ Fetched(w) # None
  <2>1. Fetched(w) \in Snapshot
    BY <1>1, FetchedType DEF IInv, TypeOK, WorkersFit, TaskFits, BatchPCs
  <2> QED
    BY <2>1 DEF SkipsTarget, SourceDataHash, NoneAssumption
<1>3. [downstream[t] EXCEPT !.state = "applied"] = Applied(h, Man(t), InitialMan(t))
  BY <1>1, <1>2 DEF SkipInv, HashesFit, DataHashFits
<1>4. manifest[o] = Man(t) /\ initialised[o] = InitialMan(t)
  <2>1. o = <<t, o[2]>> /\ o[2] \in 1..MaxGen /\ o[2] <= created[t]
    BY DEF ActiveObjects, SkipInv, Born
  <2> QED
    BY <2>1, OneManifest
<1> QED
  BY <1>2, <1>3, <1>4

\* A hash that is kept or dropped fits, while what is downstream stays.
LEMMA DataHashKept ==
  ASSUME NEW w \in Workers, NEW t \in Targets, DataHashFits(w, t),
         sourceDataHashes'[t] \in {None, sourceDataHashes[t]},
         sourceDataHashes'[t] # None => UNCHANGED <<Man(t), InitialMan(t)>>,
         Pending(w, t)' <=> Pending(w, t), Pending(w, t) => Fetched(w)' = Fetched(w),
         downstream'[t] = downstream[t]
  PROVE  DataHashFits(w, t)'
BY DEF DataHashFits

-----------------------------------------------------------------------------
(***************************************************************************)
(* Steps outside the worker.                                               *)
(***************************************************************************)
\* A manifest file is edited, data change, or nothing that matters changes.
LEMMA OutsideSkip ==
  ASSUME SkipInv,
         UNCHANGED <<activeOperators, created, manifest, initialised, cacheVars, localVars, run,
                     downstream>>,
         \A t \in Targets : targetManifest'[t] = targetManifest[t] \/ targetManifest'[t].ver # 0
  PROVE  SkipInv'
<1>1. Born'
  BY DEF SkipInv, Born
<1>2. Unedited'
  BY DEF SkipInv, Unedited
<1>3. ASSUME NEW w \in Workers PROVE LocalsFit(w)' /\ \A t \in Targets : RunFits(w, t)'
  BY DEF SkipInv, LocalsFit, RunFits
<1>4. ASSUME NEW t \in Targets, Plain(t)' PROVE HashesFit(t)'
  <2>1. Plain(t)
    BY <1>4 DEF Plain
  <2>2. ManifestHashFits(t)'
    BY <2>1 DEF SkipInv, HashesFit, ManifestHashFits, Publishing, Man
  <2>3. ASSUME NEW w \in Workers PROVE DataHashFits(w, t)'
    <3>1. DataHashFits(w, t)
      BY <2>1 DEF SkipInv, HashesFit
    <3>2. UNCHANGED <<Man(t), InitialMan(t), Pending(w, t), Fetched(w), downstream[t],
                      sourceDataHashes[t]>>
      BY DEF Man, InitialMan, Pending, IsPartial, Fetched
    <3> QED
      BY <3>1, <3>2, DataHashKept
  <2> QED
    BY <2>2, <2>3 DEF HashesFit
<1> QED
  BY <1>1, <1>2, <1>3, <1>4 DEF SkipInv

\* The environment.
LEMMA EnvironmentSkip == ASSUME IInv, SkipInv, EnvironmentStep PROVE SkipInv'
<1>1. UNCHANGED <<activeOperators, created, manifest, initialised, cacheVars, localVars, run,
                  downstream>>
  BY DEF EnvironmentStep, EditTarget, ToggleTarget, EditSource, ToggleSource, ChangeData,
     PeriodElapses, TriggerReconciliation, FlushWebhook
<1>2. \A t \in Targets : targetManifest'[t] = targetManifest[t] \/ targetManifest'[t].ver # 0
  <2>1. targetManifest \in [Targets -> Manifest] /\ \A t \in Targets : targetManifest[t].ver \in Nat
    BY DEF IInv, TypeOK, OutsideTypes, Manifest
  <2>2. UNCHANGED targetManifest \/ \E u \in Targets : EditTarget(u)
    BY DEF EnvironmentStep, EditTarget, ToggleTarget, EditSource, ToggleSource, ChangeData,
       PeriodElapses, TriggerReconciliation, FlushWebhook
  <2>3. ASSUME NEW u \in Targets, EditTarget(u), NEW t \in Targets
        PROVE  targetManifest'[t] = targetManifest[t] \/ targetManifest'[t].ver # 0
    <3>1. PICK s \in Sources :
            targetManifest' = [targetManifest EXCEPT ![u] = [ver |-> @.ver + 1, src |-> s]]
      BY <2>3 DEF EditTarget
    <3>2. targetManifest[u].ver + 1 # 0
      BY <2>1
    <3> QED
      BY <2>1, <3>1, <3>2
  <2> QED
    BY <2>2, <2>3
<1> QED
  BY <1>1, <1>2, OutsideSkip

\* globalTicker adds objects with the manifest of the store, and forgets objects.
LEMMA AddedSkip ==
  ASSUME IInv, SkipInv, NEW added \in SUBSET Addable, AddAndRemove(added),
         UNCHANGED <<targetManifest, downstream, cacheVars, localVars, run>>
  PROVE  SkipInv'
<1>1. /\ created \in [Targets -> 0..MaxGen] /\ activeOperators \in [Targets -> 0..MaxGen]
      /\ manifest \in [Targets \X (1..MaxGen) -> Manifest \cup {None}]
      /\ initialised \in [Targets \X (1..MaxGen) -> Manifest \cup {None}]
      /\ added \in SUBSET Targets
      /\ created' = [t \in Targets |-> IF t \in added THEN created[t] + 1 ELSE created[t]]
      /\ activeOperators' = [t \in Targets |-> IF t \in added THEN created[t] + 1
                                              ELSE IF t \in storeTargets THEN activeOperators[t]
                                              ELSE 0]
  <2>1. added \in SUBSET Targets
    BY DEF IInv, TypeOK, OutsideTypes, Addable
  <2> QED
    BY <2>1 DEF IInv, TypeOK, RegistryTypes, AddAndRemove
<1>2. ASSUME NEW t \in Targets, NEW g \in 1..MaxGen
      PROVE  /\ g <= created[t] => UNCHANGED <<manifest[<<t, g>>], initialised[<<t, g>>]>>
             /\ g <= created'[t] /\ g > created[t] =>
                  manifest'[<<t, g>>] = targetManifest[t]
                    /\ initialised'[<<t, g>>] = targetManifest[t]
  <2> DEFINE new == {<<u, created[u] + 1>> : u \in added}
  <2>1. /\ manifest'[<<t, g>>] = IF <<t, g>> \in new THEN targetManifest[t] ELSE manifest[<<t, g>>]
        /\ initialised'[<<t, g>>] =
             IF <<t, g>> \in new THEN targetManifest[t] ELSE initialised[<<t, g>>]
    BY <1>1 DEF AddAndRemove
  <2>2. <<t, g>> \in new <=> t \in added /\ g = created[t] + 1
    OBVIOUS
  <2> QED
    BY <1>1, <2>1, <2>2
<1>3. \A t \in Targets : created[t] \in Nat /\ created'[t] \in Nat /\ created[t] <= created'[t]
  BY <1>1
<1>4. Born'
  <2>1. \A t \in Targets : activeOperators'[t] <= created'[t]
    BY <1>1 DEF SkipInv, Born
  <2>2. \A w \in Workers : \A o \in todo'[w] : o[2] <= created'[o[1]]
    BY <1>3 DEF SkipInv, Born, IInv, TypeOK, LocalTypes
  <2>3. \A w \in Workers : target'[w] # None => target'[w][2] <= created'[target'[w][1]]
    BY <1>3 DEF SkipInv, Born, IInv, TypeOK, LocalTypes
  <2>4. ASSUME NEW w \in Workers, NEW t \in Targets, run'[w][t].phase # "none"
        PROVE  run'[w][t].gen <= created'[t]
    <3>1. run[w][t].gen \in Nat /\ run[w][t].gen <= created[t]
      BY <2>4 DEF SkipInv, Born, IInv, TypeOK, LocalTypes, Run
    <3> QED
      BY <1>3, <3>1
  <2>5. \A t \in Targets : created'[t] = 0 => created[t] = 0
    BY <1>1
  <2> QED
    BY <2>1, <2>2, <2>3, <2>4, <2>5 DEF SkipInv, Born
<1>5. Unedited'
  <2> SUFFICES ASSUME NEW t \in Targets, targetManifest[t].ver = 0, NEW g \in 1..MaxGen,
                      g <= created'[t]
               PROVE  /\ manifest'[<<t, g>>] = targetManifest[t]
                      /\ initialised'[<<t, g>>] = targetManifest[t]
    BY DEF SkipInv, Unedited
  <2>1. CASE g <= created[t]
    BY <1>2, <2>1 DEF SkipInv, Unedited
  <2>2. CASE g > created[t]
    BY <1>2, <2>2
  <2> QED
    BY <1>3, <2>1, <2>2
<1>6. ASSUME NEW w \in Workers PROVE LocalsFit(w)' /\ \A t \in Targets : RunFits(w, t)'
  <2>1. LocalsFit(w)'
    BY DEF SkipInv, LocalsFit
  <2>2. ASSUME NEW t \in Targets, run[w][t].phase # "none"
        PROVE  manifest'[<<t, run[w][t].gen>>] = manifest[<<t, run[w][t].gen>>]
    <3>1. run[w][t].gen \in 1..MaxGen /\ run[w][t].gen <= created[t]
      BY <2>2 DEF SkipInv, Born, IInv, WorkersFit, RunsFit
    <3> QED
      BY <1>2, <3>1
  <2> QED
    BY <2>1, <2>2 DEF SkipInv, RunFits
<1>7. ASSUME NEW t \in Targets, Plain(t)' PROVE HashesFit(t)'
  <2>1. Plain(t)
    BY <1>3, <1>7 DEF Plain
  <2>2. created[t] # 0 => UNCHANGED <<Man(t), InitialMan(t)>>
    <3>1. created[t] # 0 => 1 \in 1..MaxGen /\ 1 <= created[t]
      BY <1>1
    <3> QED
      BY <1>2, <3>1 DEF Man, InitialMan
  <2>3. ManifestHashFits(t)'
    <3>1. CASE created[t] = 0
      <4>1. targetManifestHashes[t] = None
        BY <3>1 DEF SkipInv, Born
      <4>2. ASSUME NEW w \in Workers PROVE ~Publishing(w, t)
        <5>1. target[w] # None => target[w] \in Targets \X (1..MaxGen)
          BY DEF IInv, TypeOK, LocalTypes
        <5>2. target[w] # None => target[w][1] # t
          BY <3>1, <5>1 DEF SkipInv, Born
        <5>3. pc[w] \in {"publishTarget", "publishTargets"} => target[w] # None
          BY DEF IInv, WorkersFit, TaskFits, SinglePCs
        <5> QED
          BY <5>2, <5>3 DEF Publishing
      <4> QED
        BY <4>1, <4>2 DEF ManifestHashFits, Publishing
    <3>2. CASE created[t] # 0
      BY <2>1, <2>2, <3>2 DEF SkipInv, HashesFit, ManifestHashFits, Publishing
    <3> QED
      BY <3>1, <3>2
  <2>4. ASSUME NEW w \in Workers PROVE DataHashFits(w, t)'
    <3>1. DataHashFits(w, t)
      BY <2>1 DEF SkipInv, HashesFit
    <3>2. UNCHANGED <<Pending(w, t), Fetched(w), downstream[t], sourceDataHashes[t]>>
      BY DEF Pending, IsPartial, Fetched
    <3>3. sourceDataHashes'[t] # None => created[t] # 0
      BY DEF SkipInv, Born
    <3> QED
      BY <2>2, <3>1, <3>2, <3>3, DataHashKept
  <2> QED
    BY <2>3, <2>4 DEF HashesFit
<1> QED
  BY <1>4, <1>5, <1>6, <1>7 DEF SkipInv

\* The ticker.
LEMMA TickerSkip == ASSUME IInv, SkipInv, TickerStep PROVE SkipInv'
<1>1. CASE ReloadTargets /\ \E added \in SUBSET Addable : AddAndRemove(added)
  BY <1>1, AddedSkip DEF ReloadTargets
<1>2. CASE UNCHANGED <<activeOperators, created, manifest, initialised, cacheVars, localVars, run,
                       downstream, targetManifest>>
  BY <1>2, OutsideSkip
<1>3. ReloadTargets => \/ \E added \in SUBSET Addable : AddAndRemove(added)
                       \/ UNCHANGED <<activeOperators, created, manifest, initialised>>
  <2>1. \A t : Addable \ {t} \in SUBSET Addable /\ Addable \in SUBSET Addable
    OBVIOUS
  <2> QED
    BY <2>1 DEF ReloadTargets
<1> QED
  BY <1>1, <1>2, <1>3 DEF TickerStep, ReloadTargets, Tick, ReloadSources, Schedule, SendBatch,
     EndTick

-----------------------------------------------------------------------------
(***************************************************************************)
(* Steps of the worker.  It is the only one.                               *)
(***************************************************************************)
Elsewhere == UNCHANGED <<targetManifest, created, activeOperators, initialised>>

\* What a step of the worker has to keep.
LEMMA WorkerSkips ==
  ASSUME Setting, SkipInv, NEW w \in Workers, Elsewhere, Born', Unedited',
         LocalsFit(w)', \A t \in Targets : RunFits(w, t)',
         \A t \in Targets : Plain(t) => ManifestHashFits(t)' /\ DataHashFits(w, t)'
  PROVE  SkipInv'
<1>1. \A v \in Workers : v = w
  BY DEF Setting
<1>2. \A t \in Targets : Plain(t)' <=> Plain(t)
  BY DEF Plain, Elsewhere
<1>3. \A t \in Targets : Plain(t)' => HashesFit(t)'
  BY <1>1, <1>2 DEF HashesFit
<1> QED
  BY <1>1, <1>3 DEF SkipInv

AtPublish == {"publishTarget", "publishTargets"}

\* The object that worker w keeps was made.
TargetBorn(w) == target[w] # None => target[w][2] <= created[target[w][1]]

\* A step while no target is being synced, which changes no manifest and drops
\* hashes at most.
LEMMA QuietSkip ==
  ASSUME Setting, SkipInv, NEW w \in Workers, Elsewhere,
         UNCHANGED <<manifest, targetManifestHashes, downstream>>,
         pc[w] \notin AtPublish, pc'[w] \notin AtPublish,
         \A t \in Targets : run[w][t].phase \notin {"ready", "syncing"} /\ run'[w][t].phase = "none",
         \A t \in Targets : sourceDataHashes'[t] \in {None, sourceDataHashes[t]},
         \A t \in Targets : fresh'[w][t] \in {None, fresh[w][t], targetManifest[t]},
         \A o \in todo'[w] : o[2] <= created[o[1]], TargetBorn(w)', LocalsFit(w)'
  PROVE  SkipInv'
<1>1. \A v \in Workers : v = w
  BY DEF Setting
<1>2. Born'
  BY <1>1 DEF SkipInv, Born, Elsewhere, TargetBorn
<1>3. Unedited'
  BY <1>1 DEF SkipInv, Unedited, Elsewhere
<1>4. \A t \in Targets : RunFits(w, t)'
  BY DEF RunFits
<1>5. ASSUME NEW t \in Targets, Plain(t) PROVE ManifestHashFits(t)' /\ DataHashFits(w, t)'
  <2>1. ManifestHashFits(t) /\ DataHashFits(w, t)
    BY <1>5 DEF SkipInv, HashesFit
  <2>2. ManifestHashFits(t)'
    BY <1>1, <2>1 DEF ManifestHashFits, Publishing, Man, AtPublish
  <2>3. ~Pending(w, t) /\ ~Pending(w, t)' /\ UNCHANGED <<Man(t), InitialMan(t)>>
    BY DEF Pending, Man, InitialMan, Elsewhere
  <2> QED
    BY <2>1, <2>2, <2>3, DataHashKept
<1> QED
  BY <1>2, <1>3, <1>4, <1>5, WorkerSkips

\* A worker returns from its task with every run of it ended.
LEMMA ReturnSkip ==
  ASSUME Setting, IInv, SkipInv, NEW w \in Workers, Elsewhere, Return(w),
         UNCHANGED <<manifest, cacheVars, downstream>>, pc[w] \notin AtPublish,
         \A t \in Targets : run[w][t].phase \notin {"ready", "syncing"} /\ run'[w][t].phase = "none"
  PROVE  SkipInv'
<1>1. pc'[w] = "idle" /\ todo'[w] = {} /\ fresh'[w] = Unread /\ target'[w] = None
  BY DEF IInv, TypeOK, LocalTypes, Return, GoTo
<1>2. LocalsFit(w)' /\ TargetBorn(w)'
  BY <1>1 DEF LocalsFit, SinglePCs, TargetBorn
<1> QED
  BY <1>1, <1>2, QuietSkip DEF AtPublish, Unread

\* Taking a task, claiming its lock, finding the object of a single task.
LEMMA ClaimSkip ==
  ASSUME Setting, IInv, SkipInv, NEW w \in Workers,
         Dequeue(w) \/ ClaimBatch(w) \/ ClaimTarget(w) \/ Lookup(w)
  PROVE  SkipInv'
<1>1. /\ Elsewhere /\ UNCHANGED <<manifest, cacheVars, downstream, run>>
      /\ pc[w] \in {"idle", "claim", "lookup"}
  BY DEF Dequeue, ClaimBatch, ClaimTarget, Lookup, Elsewhere
<1>2. \A t \in Targets : run[w][t].phase = "none"
  BY <1>1 DEF IInv, WorkersFit, RunsFit
<1>3. CASE Return(w)
  BY <1>1, <1>2, <1>3, ReturnSkip DEF AtPublish
<1>4. CASE ~Return(w)
  <2>1. /\ pc'[w] \in {"claim", "refreshSource", "lookup", "loadTarget"}
        /\ UNCHANGED <<fresh, todo>>
    BY <1>4 DEF Dequeue, ClaimBatch, ClaimTarget, Lookup, ReturnSingle, GoTo, IInv, TypeOK,
                LocalTypes
  <2>2. \A o \in todo'[w] : o[2] <= created[o[1]]
    BY <2>1 DEF SkipInv, Born
  <2>3. TargetBorn(w)' /\ LocalsFit(w)'
    <3>1. CASE Lookup(w)
      <4>1. /\ target'[w] = <<task[w].target, activeOperators[task[w].target]>>
            /\ task' = task /\ task[w].target \in Targets
        BY <1>4, <3>1 DEF Lookup, ReturnSingle, IInv, TypeOK, LocalTypes, WorkersFit, TaskFits,
                          SinglePCs, IsBatch, Task
      <4> QED
        BY <1>1, <2>1, <4>1 DEF TargetBorn, LocalsFit, SkipInv, Born, Elsewhere
    <3>2. CASE ~Lookup(w)
      <4>1. /\ pc'[w] \in {"claim", "refreshSource", "lookup"} /\ UNCHANGED target
        BY <1>4, <3>2 DEF Dequeue, ClaimBatch, ClaimTarget, GoTo, IInv, TypeOK, LocalTypes
      <4> QED
        BY <1>1, <4>1 DEF TargetBorn, LocalsFit, SkipInv, Born, Elsewhere, SinglePCs
    <3> QED
      BY <3>1, <3>2
  <2> QED
    BY <1>1, <1>2, <2>1, <2>2, <2>3, QuietSkip DEF AtPublish
<1> QED
  BY <1>3, <1>4

\* Reading manifests from the store, and which objects have one.
LEMMA LoadSkip ==
  ASSUME Setting, IInv, SkipInv, NEW w \in Workers,
         LoadTarget(w) \/ LoadTargets(w) \/ RangeTargets(w)
  PROVE  SkipInv'
<1>1. /\ Elsewhere /\ UNCHANGED <<manifest, cacheVars, downstream, run, target, task>>
      /\ pc[w] \in {"loadTarget", "loadTargets", "rangeTargets"}
      /\ pc'[w] \in {"invalidateTarget", "invalidateTargets", "rangeTargets", "source", "batchIds"}
      /\ pc'[w] \in SinglePCs => pc[w] = "loadTarget"
      /\ fresh'[w] \in {fresh[w], StoreView, Unread}
      /\ todo'[w] \in {todo[w], Refreshable(w)}
  BY DEF LoadTarget, LoadTargets, LoadManifests, RangeTargets, Elsewhere, GoTo, IInv, TypeOK,
         LocalTypes, SinglePCs
<1>2. \A t \in Targets : run[w][t].phase = "none"
  BY <1>1 DEF IInv, WorkersFit, RunsFit
<1>3. \A t \in Targets : fresh'[w][t] \in {None, fresh[w][t], targetManifest[t]}
  BY <1>1 DEF StoreView, Unread
<1>4. LocalsFit(w)' /\ TargetBorn(w)'
  BY <1>1 DEF SkipInv, LocalsFit, TargetBorn, Born, Elsewhere, SinglePCs
<1>5. \A o \in todo'[w] : o[2] <= created[o[1]]
  BY <1>1 DEF SkipInv, Born, Refreshable, ActiveObjects
<1> QED
  BY <1>1, <1>2, <1>3, <1>4, <1>5, QuietSkip DEF AtPublish

\* A changed source manifest drops the hashes of the targets of the source.
LEMMA RefreshSkip ==
  ASSUME Setting, IInv, SkipInv, NEW w \in Workers, RefreshSource(w) \/ ResolveSource(w)
  PROVE  SkipInv'
<1>1. /\ Elsewhere /\ UNCHANGED <<manifest, targetManifestHashes, downstream, run>>
      /\ pc[w] \in {"refreshSource", "source"}
  BY DEF RefreshSource, ResolveSource, TryRefreshSource, RefreshSourceManifest, Elsewhere
<1>2. \A t \in Targets : run[w][t].phase = "none"
  BY <1>1 DEF IInv, WorkersFit, RunsFit
<1>3. CASE Return(w)
  <2>1. pc'[w] = "idle"
    BY <1>3 DEF Return, GoTo, IInv, TypeOK, LocalTypes
  <2>2. UNCHANGED cacheVars
    BY <2>1 DEF RefreshSource, ResolveSource, GoTo, IInv, TypeOK, LocalTypes
  <2> QED
    BY <1>1, <1>2, <1>3, <2>2, ReturnSkip DEF AtPublish
<1>4. CASE ~Return(w)
  <2>1. /\ UNCHANGED <<todo, task, fresh, target>> /\ pc'[w] \in {"loadTargets", "ids"}
        /\ pc'[w] = "ids" => pc[w] = "source"
    BY <1>4 DEF RefreshSource, ResolveSource, ReturnSingle, GoTo, IInv, TypeOK, LocalTypes
  <2>2. LocalsFit(w)' /\ TargetBorn(w)'
    BY <1>1, <2>1 DEF SkipInv, LocalsFit, TargetBorn, Born, Elsewhere, SinglePCs
  <2>3. \A t \in Targets : sourceDataHashes'[t] \in {None, sourceDataHashes[t]}
    BY DEF RefreshSource, ResolveSource, TryRefreshSource, RefreshSourceManifest
  <2>4. \A o \in todo'[w] : o[2] <= created[o[1]]
    BY <2>1 DEF SkipInv, Born
  <2> QED
    BY <1>1, <1>2, <2>1, <2>2, <2>3, <2>4, QuietSkip DEF AtPublish
<1> QED
  BY <1>3, <1>4

\* Both fetches, or a return because the source is not active or did not answer.
LEMMA FetchSkip ==
  ASSUME Setting, IInv, SkipInv, NEW w \in Workers,
         FetchIdentities(w) \/ FetchGroups(w) \/ FetchBatchGroups(w)
  PROVE  SkipInv'
<1>1. /\ Elsewhere /\ UNCHANGED <<manifest, cacheVars, downstream, run>>
      /\ pc[w] \in {"ids", "batchIds", "groups", "batchGroups"}
      /\ task[w] # None /\ snap[w] \in [ids : Nat, groups : Nat, hashed : BOOLEAN]
  BY DEF FetchIdentities, FetchGroups, FetchBatchGroups, Elsewhere, IInv, WorkersFit, TaskFits,
         TypeOK, LocalTypes
<1>2. \A t \in Targets : run[w][t].phase = "none"
  BY <1>1 DEF IInv, WorkersFit, RunsFit
<1>3. CASE Return(w)
  BY <1>1, <1>2, <1>3, ReturnSkip DEF AtPublish
<1>4. CASE ~Return(w)
  <2>1. UNCHANGED <<task, fresh, target>>
    BY <1>4 DEF FetchIdentities, FetchGroups, FetchBatchGroups, Leave, ReturnSingle, ReturnBatch
  <2>2. /\ pc'[w] \in {"groups", "batchGroups", "decide", "visit"}
        /\ pc'[w] \in SinglePCs => pc[w] \in {"ids", "groups"}
        /\ pc'[w] \in {"decide", "visit"} => snap'[w].hashed
    <3>1. CASE FetchIdentities(w)
      BY <1>1, <1>4, <3>1 DEF FetchIdentities, Leave, ReturnSingle, ReturnBatch, GoTo, IInv,
         WorkersFit, TaskFits, TypeOK, LocalTypes, SinglePCs, BatchPCs
    <3>2. CASE FetchGroups(w) \/ FetchBatchGroups(w)
      BY <1>1, <1>4, <3>2, NoFault DEF FetchGroups, FetchBatchGroups, ReturnSingle, ReturnBatch,
         GoTo, IInv, TypeOK, LocalTypes, SinglePCs
    <3> QED
      BY <3>1, <3>2
  <2>3. LocalsFit(w)' /\ TargetBorn(w)'
    BY <1>1, <2>1, <2>2 DEF SkipInv, LocalsFit, TargetBorn, Born, Elsewhere, SinglePCs
  <2>4. todo'[w] \in {todo[w], TargetsOf(src[w])}
    BY <1>4 DEF FetchIdentities, FetchGroups, FetchBatchGroups, Leave, ReturnSingle, ReturnBatch,
       IInv, TypeOK, LocalTypes
  <2>5. \A o \in todo'[w] : o[2] <= created[o[1]]
    BY <2>4 DEF SkipInv, Born, TargetsOf, ActiveObjects
  <2> QED
    BY <1>1, <1>2, <2>1, <2>2, <2>3, <2>5, QuietSkip DEF AtPublish
<1> QED
  BY <1>3, <1>4

-----------------------------------------------------------------------------
(***************************************************************************)
(* The two steps of a refresh.  The first records the hash of the manifest *)
(* that was read and drops the hash of the data, the second replaces the   *)
(* manifest of the object.                                                 *)
(***************************************************************************)
\* With one worker it is enough to look at what that worker publishes.
LEMMA ManifestHashOfOne ==
  ASSUME Setting, NEW w \in Workers, NEW t \in Targets,
         Publishing(w, t)' => /\ targetManifestHashes'[t] = fresh'[w][t]
                              /\ sourceDataHashes'[t] # None => fresh'[w][t] = Man(t)',
         ~Publishing(w, t)' => targetManifestHashes'[t] \in {None, Man(t)'}
  PROVE  ManifestHashFits(t)'
<1>1. \A v \in Workers : v = w
  BY DEF Setting
<1> QED
  BY <1>1 DEF ManifestHashFits, Publishing

\* A manifest that was read from the store is recorded for the object of a refresh.
LEMMA RecordSkip ==
  ASSUME Setting, IInv, SkipInv, NEW w \in Workers,
         InvalidateTarget(w) \/ \E o \in todo[w] : InvalidateTargets(w, o)
  PROVE  SkipInv'
<1>1. /\ Elsewhere /\ UNCHANGED <<manifest, downstream, run, fresh, task, src, snap>>
      /\ pc[w] \in {"invalidateTarget", "invalidateTargets"} /\ pc'[w] \in AtPublish
      /\ pc'[w] \in SinglePCs => pc[w] = "invalidateTarget" /\ target' = target
      /\ todo'[w] \subseteq todo[w]
  BY DEF InvalidateTarget, InvalidateTargets, Elsewhere, GoTo, IInv, TypeOK, LocalTypes,
         AtPublish, SinglePCs
<1>2. \A t \in Targets : run[w][t].phase = "none"
  BY <1>1 DEF IInv, WorkersFit, RunsFit
<1>3. /\ target'[w] \in Targets \X (1..MaxGen) /\ target'[w][2] <= created[target'[w][1]]
      /\ Invalidate(w, target'[w][1])
  <2>1. CASE InvalidateTarget(w)
    BY <2>1 DEF InvalidateTarget, IInv, WorkersFit, TaskFits, SinglePCs, TypeOK, LocalTypes,
       SkipInv, Born
  <2>2. CASE \E o \in todo[w] : InvalidateTargets(w, o)
    <3>1. PICK o \in todo[w] : InvalidateTargets(w, o)
      BY <2>2
    <3>2. target'[w] = o /\ o \in Targets \X (1..MaxGen)
      BY <3>1 DEF InvalidateTargets, IInv, TypeOK, LocalTypes
    <3> QED
      BY <3>1, <3>2 DEF InvalidateTargets, SkipInv, Born
  <2> QED
    BY <2>1, <2>2
<1>4. PICK u \in Targets : u = target'[w][1]
  BY <1>3
<1>5. /\ Invalidate(w, u) /\ created[u] # 0 /\ TargetBorn(w)'
      /\ \A t \in Targets : Publishing(w, t)' <=> t = u /\ fresh[w][u] # None
  <2>1. created[u] # 0
    BY <1>3, <1>4
  <2>2. TargetBorn(w)'
    BY <1>1, <1>3 DEF TargetBorn, Elsewhere
  <2> QED
    BY <1>1, <1>3, <1>4, <2>1, <2>2 DEF Publishing, AtPublish
<1>6. /\ \A t \in Targets : t # u => UNCHANGED <<sourceDataHashes[t], targetManifestHashes[t]>>
      /\ IF Changed(w, u)
           THEN sourceDataHashes'[u] = None /\ targetManifestHashes'[u] = fresh[w][u]
           ELSE UNCHANGED <<sourceDataHashes[u], targetManifestHashes[u]>>
  BY <1>5 DEF Invalidate, IInv, TypeOK, CacheTypes
<1>7. \A v \in Workers : v = w
  BY DEF Setting
<1>8. Born'
  <2>1. \A v \in Workers : \A o \in todo'[v] : o[2] <= created[o[1]]
    BY <1>1, <1>7 DEF SkipInv, Born
  <2>2. \A t \in Targets : created[t] = 0 =>
          targetManifestHashes'[t] = None /\ sourceDataHashes'[t] = None
    BY <1>5, <1>6 DEF SkipInv, Born
  <2>3. \A v \in Workers : target'[v] # None => target'[v][2] <= created[target'[v][1]]
    BY <1>3, <1>7
  <2> QED
    BY <1>1, <2>1, <2>2, <2>3 DEF SkipInv, Born, Elsewhere
<1>9. Unedited'
  BY <1>1, <1>6 DEF SkipInv, Unedited, Elsewhere, Changed
<1>10. LocalsFit(w)' /\ \A t \in Targets : RunFits(w, t)'
  BY <1>1, <1>2 DEF SkipInv, LocalsFit, RunFits, AtPublish, SinglePCs
<1>11. ASSUME NEW t \in Targets, Plain(t) PROVE ManifestHashFits(t)' /\ DataHashFits(w, t)'
  <2>1. ManifestHashFits(t) /\ DataHashFits(w, t)
    BY <1>11 DEF SkipInv, HashesFit
  <2>2. targetManifestHashes[t] \in {None, Man(t)}
    BY <1>1, <2>1 DEF ManifestHashFits, Publishing
  <2>3. UNCHANGED <<Man(t), InitialMan(t)>> /\ ~Pending(w, t) /\ ~Pending(w, t)'
    BY <1>1, <1>2 DEF Man, InitialMan, Pending, Elsewhere
  <2>4. DataHashFits(w, t)'
    BY <1>1, <1>6, <2>1, <2>3, DataHashKept
  <2>5. CASE t = u /\ fresh[w][u] # None
    <3>1. /\ targetManifestHashes'[t] = fresh[w][t]
          /\ sourceDataHashes'[t] # None => fresh[w][t] = Man(t)
      BY <1>6, <2>2, <2>5 DEF Changed
    <3> QED
      BY <1>1, <1>5, <2>3, <2>4, <2>5, <3>1, ManifestHashOfOne
  <2>6. CASE ~(t = u /\ fresh[w][u] # None)
    <3>1. targetManifestHashes'[t] = targetManifestHashes[t]
      BY <1>6, <2>6 DEF Changed
    <3> QED
      BY <1>5, <2>2, <2>3, <2>4, <2>6, <3>1, ManifestHashOfOne
  <2> QED
    BY <2>5, <2>6
<1> QED
  BY <1>1, <1>8, <1>9, <1>10, <1>11, WorkerSkips

\* The object gets the manifest whose hash was recorded.
LEMMA PublishSkip ==
  ASSUME Setting, IInv, SkipInv, NEW w \in Workers, PublishTarget(w) \/ PublishTargets(w)
  PROVE  SkipInv'
<1>1. /\ Elsewhere /\ UNCHANGED <<cacheVars, downstream, run, todo, task, src, snap>>
      /\ pc[w] \in AtPublish /\ pc'[w] \in {"source", "batchIds", "invalidateTargets"}
      /\ fresh'[w] \in {fresh[w], Unread}
      /\ pc'[w] \in SinglePCs => pc[w] = "publishTarget" /\ target' = target
      /\ target'[w] \in {target[w], None}
  BY DEF PublishTarget, PublishTargets, Elsewhere, GoTo, IInv, TypeOK, LocalTypes,
         AtPublish, SinglePCs
<1>2. \A t \in Targets : run[w][t].phase = "none"
  BY <1>1 DEF IInv, WorkersFit, RunsFit, AtPublish
<1>3. PICK u \in Targets, g \in 1..MaxGen : target[w] = <<u, g>> /\ g <= created[u]
  <2>1. target[w] \in Targets \X (1..MaxGen)
    BY <1>1 DEF AtPublish, IInv, WorkersFit, TaskFits, SinglePCs, TypeOK, LocalTypes
  <2>2. target[w] = <<target[w][1], target[w][2]>>
    BY <2>1
  <2>3. target[w] # None
    BY <1>1 DEF AtPublish, IInv, WorkersFit, TaskFits, SinglePCs
  <2>4. target[w][2] <= created[target[w][1]]
    BY <2>3 DEF SkipInv, Born
  <2> QED
    BY <2>1, <2>2, <2>4
<1>4. /\ \A o \in Targets \X (1..MaxGen) : o # <<u, g>> => UNCHANGED manifest[o]
      /\ manifest'[<<u, g>>] = IF fresh[w][u] # None THEN fresh[w][u] ELSE manifest[<<u, g>>]
  BY <1>3 DEF PublishTarget, PublishTargets, Publish, IInv, TypeOK, RegistryTypes
<1>5. \A v \in Workers : v = w
  BY DEF Setting
<1>6. Born'
  <2>1. TargetBorn(w)'
    BY <1>1, <1>3 DEF TargetBorn, Elsewhere
  <2> QED
    BY <1>1, <1>5, <2>1 DEF SkipInv, Born, Elsewhere, TargetBorn
<1>7. Unedited'
  <2> SUFFICES ASSUME NEW t \in Targets, targetManifest[t].ver = 0
               PROVE  /\ \A k \in 1..MaxGen : k <= created[t] =>
                             manifest'[<<t, k>>] = targetManifest[t]
                               /\ initialised[<<t, k>>] = targetManifest[t]
                      /\ fresh'[w][t] \in {None, targetManifest[t]}
                      /\ targetManifestHashes'[t] \in {None, targetManifest[t]}
    BY <1>1, <1>5 DEF Unedited, Elsewhere
  <2>1. fresh'[w][t] \in {None, targetManifest[t]}
    BY <1>1 DEF SkipInv, Unedited, Unread
  <2>2. ASSUME NEW k \in 1..MaxGen, k <= created[t]
        PROVE  manifest'[<<t, k>>] = targetManifest[t]
    BY <1>4, <2>2 DEF SkipInv, Unedited
  <2> QED
    BY <1>1, <2>1, <2>2 DEF SkipInv, Unedited
<1>8. LocalsFit(w)' /\ \A t \in Targets : RunFits(w, t)'
  BY <1>1, <1>2 DEF SkipInv, LocalsFit, RunFits, SinglePCs
<1>9. ASSUME NEW t \in Targets, Plain(t) PROVE ManifestHashFits(t)' /\ DataHashFits(w, t)'
  <2>1. ManifestHashFits(t) /\ DataHashFits(w, t)
    BY <1>9 DEF SkipInv, HashesFit
  <2>2. ~Pending(w, t) /\ ~Pending(w, t)' /\ ~Publishing(w, t)' /\ UNCHANGED InitialMan(t)
    BY <1>1, <1>2 DEF Pending, Publishing, InitialMan, Elsewhere
  <2>3. CASE Publishing(w, t)
    <3>1. u = t /\ fresh[w][t] # None
      BY <1>3, <2>3 DEF Publishing
    <3>2. manifest'[<<t, g>>] = fresh[w][t]
      BY <1>4, <3>1
    <3>3. Man(t)' = fresh[w][t]
      <4>1. CASE created[t] <= 1
        <5>1. g = 1
          BY <1>3, <3>1, <4>1 DEF IInv, TypeOK, RegistryTypes
        <5> QED
          BY <3>2, <5>1 DEF Man
      <4>2. CASE targetManifest[t].ver = 0
        <5>1. fresh[w][t] = targetManifest[t]
          BY <3>1, <4>2 DEF SkipInv, Unedited
        <5>2. 1 \in 1..MaxGen /\ 1 <= created[t]
          BY <1>3, <3>1 DEF IInv, TypeOK, RegistryTypes
        <5> QED
          BY <1>1, <1>7, <4>2, <5>1, <5>2 DEF Unedited, Man, Elsewhere
      <4> QED
        BY <1>9, <4>1, <4>2 DEF Plain
    <3>4. /\ targetManifestHashes[t] = fresh[w][t]
          /\ sourceDataHashes[t] # None => fresh[w][t] = Man(t)
      BY <2>1, <2>3 DEF ManifestHashFits
    <3>5. DataHashFits(w, t)'
      BY <1>1, <2>1, <2>2, <3>3, <3>4, DataHashKept
    <3> QED
      BY <1>1, <2>2, <3>3, <3>4, <3>5, ManifestHashOfOne
  <2>4. CASE ~Publishing(w, t)
    <3>1. created[t] # 0 => Man(t)' = Man(t)
      <4>1. created[t] # 0 => <<t, 1>> \in Targets \X (1..MaxGen)
        BY DEF IInv, TypeOK, RegistryTypes
      <4>2. ~(t = u /\ fresh[w][u] # None)
        BY <1>1, <1>3, <2>4 DEF Publishing, AtPublish
      <4> QED
        BY <1>4, <4>1, <4>2 DEF Man
    <3>2. created[t] = 0 => targetManifestHashes[t] = None /\ sourceDataHashes[t] = None
      BY DEF SkipInv, Born
    <3>3. DataHashFits(w, t)'
      BY <1>1, <2>1, <2>2, <3>1, <3>2, DataHashKept
    <3>4. targetManifestHashes'[t] \in {None, Man(t)'}
      BY <1>1, <2>1, <2>4, <3>1, <3>2 DEF ManifestHashFits
    <3> QED
      BY <2>2, <3>3, <3>4, ManifestHashOfOne
  <2> QED
    BY <2>3, <2>4
<1> QED
  BY <1>1, <1>6, <1>7, <1>8, <1>9, WorkerSkips

-----------------------------------------------------------------------------
(***************************************************************************)
(* Visiting the targets of a batch, and the sync of one target.            *)
(***************************************************************************)
Syncing == {"decide", "sync", "visit"}

\* A step after the fetches, which concerns one target.
LEMMA OneTargetSkip ==
  ASSUME Setting, SkipInv, NEW w \in Workers, NEW u \in Targets, Elsewhere,
         UNCHANGED <<manifest, targetManifestHashes, src, snap, task, fresh, target>>,
         pc[w] \in Syncing, pc'[w] \in Syncing, pc'[w] \in SinglePCs => pc[w] \in {"decide", "sync"},
         todo'[w] \subseteq todo[w],
         \A t \in Targets : t # u =>
           UNCHANGED <<run[w][t], sourceDataHashes[t], downstream[t]>>,
         run'[w][u].phase # "none" => run'[w][u].gen <= created[u], RunFits(w, u)',
         sourceDataHashes'[u] # sourceDataHashes[u] => created[u] # 0,
         Plain(u) => DataHashFits(w, u)'
  PROVE  SkipInv'
<1>1. \A v \in Workers : v = w
  BY DEF Setting
<1>2. Born'
  <2>1. \A t \in Targets : run'[w][t].phase # "none" => run'[w][t].gen <= created[t]
    BY DEF SkipInv, Born
  <2>2. \A t \in Targets : created[t] = 0 => sourceDataHashes'[t] = None
    BY DEF SkipInv, Born
  <2>3. \A o \in todo'[w] : o[2] <= created[o[1]]
    BY DEF SkipInv, Born
  <2> QED
    BY <1>1, <2>1, <2>2, <2>3 DEF SkipInv, Born, Elsewhere
<1>3. Unedited'
  BY DEF SkipInv, Unedited, Elsewhere
<1>4. LocalsFit(w)'
  BY DEF SkipInv, LocalsFit, Syncing, SinglePCs
<1>5. \A t \in Targets : RunFits(w, t)'
  <2>1. ASSUME NEW t \in Targets, t # u PROVE RunFits(w, t)'
    BY <2>1 DEF SkipInv, RunFits
  <2> QED
    BY <2>1
<1>6. ASSUME NEW t \in Targets, Plain(t) PROVE ManifestHashFits(t)' /\ DataHashFits(w, t)'
  <2>1. ManifestHashFits(t) /\ DataHashFits(w, t)
    BY <1>6 DEF SkipInv, HashesFit
  <2>2. ~Publishing(w, t) /\ ~Publishing(w, t)' /\ UNCHANGED <<Man(t), InitialMan(t)>>
    BY DEF Publishing, Syncing, Man, InitialMan, Elsewhere
  <2>3. ManifestHashFits(t)'
    BY <2>1, <2>2, ManifestHashOfOne DEF ManifestHashFits
  <2>4. CASE t # u
    <3>1. UNCHANGED <<Pending(w, t), Fetched(w)>>
      BY <2>4 DEF Pending, IsPartial, Fetched
    <3>2. DataHashFits(w, t)'
      BY <2>1, <2>2, <2>4, <3>1, DataHashKept
    <3> QED
      BY <2>3, <3>2
  <2> QED
    BY <1>6, <2>3, <2>4
<1> QED
  BY <1>2, <1>3, <1>4, <1>5, <1>6, WorkerSkips

\* A goroutine of a batch or a single task that syncs t has fetched and holds the lock.
LEMMA RunAt ==
  ASSUME IInv, NEW w \in Workers, NEW t \in Targets, run[w][t].phase # "none"
  PROVE  /\ pc[w] \in Syncing /\ run[w][t].gen \in 1..MaxGen
         /\ run[w][t].phase \in {"claimed", "released"} => pc[w] = "visit"
BY DEF IInv, WorkersFit, RunsFit, Syncing

\* The hash of what was just fetched is stored for a target that will be synced.
LEMMA HashStored ==
  ASSUME IInv, SkipInv, NEW w \in Workers, NEW t \in Targets,
         UNCHANGED <<src, snap, task>>, pc[w] \in Syncing,
         StoreHash(w, t), run'[w][t].phase = "ready", ~IsPartial(w)
  PROVE  /\ \A u \in Targets : u # t => UNCHANGED sourceDataHashes[u]
         /\ DataHashFits(w, t)'
<1>1. sourceDataHashes' = [sourceDataHashes EXCEPT ![t] = Fetched(w)]
  BY DEF StoreHash, SourceDataHash, SkipInv, LocalsFit, Syncing
<1>2. sourceDataHashes'[t] = Fetched(w) /\ \A u \in Targets : u # t => UNCHANGED sourceDataHashes[u]
  BY <1>1 DEF IInv, TypeOK, CacheTypes
<1>3. Pending(w, t)' /\ Fetched(w)' = Fetched(w)
  BY DEF Pending, IsPartial, Fetched
<1> QED
  BY <1>2, <1>3 DEF DataHashFits

\* A target is passed over or locked, and a locked one is skipped.
LEMMA VisitSkip ==
  ASSUME Setting, IInv, SkipInv, NEW w \in Workers, NEW o \in todo[w],
         PassOver(w, o) \/ ClaimInBatch(w, o)
  PROVE  SkipInv'
<1>1. /\ Elsewhere
      /\ UNCHANGED <<manifest, cacheVars, src, snap, task, fresh, downstream, pc, target>>
      /\ pc[w] = "visit" /\ todo'[w] \subseteq todo[w]
  BY DEF PassOver, ClaimInBatch, Elsewhere, IInv, TypeOK, LocalTypes
<1>2. PICK t \in Targets : t = o[1]
  BY DEF IInv, TypeOK, LocalTypes
<1>3. o[2] <= created[t]
  BY <1>2 DEF SkipInv, Born
<1>4. \A u \in Targets : u # t => UNCHANGED run[w][u]
  BY <1>2 DEF PassOver, ClaimInBatch, IInv, TypeOK, LocalTypes
<1>5. /\ run'[w][t].phase # "none" => run'[w][t].gen <= created[t]
      /\ RunFits(w, t)' /\ (Pending(w, t)' <=> Pending(w, t))
  <2>1. CASE PassOver(w, o)
    BY <1>1, <2>1 DEF PassOver, SkipInv, Born, RunFits, Pending, IsPartial
  <2>2. CASE ClaimInBatch(w, o)
    <3>1. run'[w][t] = [phase |-> "claimed", gen |-> o[2], man |-> None]
      BY <1>2, <2>2 DEF ClaimInBatch, IInv, TypeOK, LocalTypes
    <3>2. ~Owns(w, t)
      BY <1>2, <2>2 DEF ClaimInBatch, TargetLocked, IInv, LocksAccounted
    <3> QED
      BY <1>1, <1>3, <3>1, <3>2 DEF RunFits, Pending, Owns
  <2> QED
    BY <2>1, <2>2
<1>6. ASSUME Plain(t) PROVE DataHashFits(w, t)'
  <2>1. DataHashFits(w, t) /\ UNCHANGED <<Man(t), InitialMan(t), Fetched(w)>>
    BY <1>1, <1>6 DEF SkipInv, HashesFit, Man, InitialMan, Fetched, Elsewhere
  <2> QED
    BY <1>1, <1>5, <2>1, DataHashKept
<1>7. pc'[w] \in SinglePCs => pc[w] \in {"decide", "sync"}
  BY <1>1 DEF SinglePCs
<1> QED
  BY <1>1, <1>4, <1>5, <1>6, <1>7, OneTargetSkip DEF Syncing

\* A run begins or ends without a word to the service, or is about to.
LEMMA RunMoves ==
  ASSUME Setting, IInv, SkipInv, NEW w \in Workers, NEW t \in Targets, Elsewhere,
         UNCHANGED <<manifest, cacheVars, src, snap, task, fresh, todo, pc, target, downstream>>,
         pc[w] \in Syncing, \A u \in Targets : u # t => UNCHANGED run[w][u],
         run'[w][t].phase # "none" => run'[w][t].gen = run[w][t].gen /\ run[w][t].phase # "none",
         run'[w][t].phase = "syncing" => run'[w][t].man = manifest[<<t, run[w][t].gen>>],
         run'[w][t].phase \in {"ready", "syncing"} <=> run[w][t].phase \in {"ready", "syncing"}
  PROVE  SkipInv'
<1>1. run'[w][t].phase # "none" => run'[w][t].gen <= created[t]
  BY DEF SkipInv, Born
<1>2. RunFits(w, t)'
  BY DEF RunFits
<1>3. ASSUME Plain(t) PROVE DataHashFits(w, t)'
  <2>1. DataHashFits(w, t) /\ UNCHANGED <<Man(t), InitialMan(t), Fetched(w)>>
    BY <1>3 DEF SkipInv, HashesFit, Man, InitialMan, Fetched, Elsewhere
  <2>2. Pending(w, t)' <=> Pending(w, t)
    BY DEF Pending, IsPartial
  <2> QED
    BY <2>1, <2>2, DataHashKept
<1>4. pc'[w] \in SinglePCs => pc[w] \in {"decide", "sync"}
  BY DEF Syncing, SinglePCs
<1> QED
  BY <1>1, <1>2, <1>3, <1>4, OneTargetSkip

\* All of them: an unchanged target is skipped, the call of Sync begins, its outcome is
\* told, the lock is released, the success recorded.
LEMMA RunMovesSkip ==
  ASSUME Setting, IInv, SkipInv, NEW w \in Workers, NEW t \in Targets,
         SkipInBatch(w, t) \/ BeginSync(w, t) \/ UpdateTargetStatus(w, t)
           \/ ReleaseInBatch(w, t) \/ RecordInBatch(w, t)
  PROVE  SkipInv'
<1>1. /\ Elsewhere
      /\ UNCHANGED <<manifest, cacheVars, src, snap, task, fresh, todo, pc, target, downstream>>
  BY DEF SkipInBatch, BeginSync, UpdateTargetStatus, ReleaseInBatch, RecordInBatch, Elsewhere
<1>2. run[w][t].phase # "none" /\ run[w][t] \in Run /\ run \in [Workers -> [Targets -> Run]]
  BY DEF SkipInBatch, BeginSync, UpdateTargetStatus, ReleaseInBatch, RecordInBatch, IInv, TypeOK,
     LocalTypes
<1>3. \A u \in Targets : u # t => UNCHANGED run[w][u]
  BY <1>2 DEF SkipInBatch, BeginSync, UpdateTargetStatus, ReleaseInBatch, RecordInBatch
<1>4. CASE BeginSync(w, t)
  <2>1. run[w][t].phase = "ready"
    BY <1>4 DEF BeginSync
  <2>2. run'[w][t] = [phase |-> "syncing", gen |-> run[w][t].gen,
                      man |-> manifest[<<t, run[w][t].gen>>]]
    BY <1>2, <1>4, NoFault DEF BeginSync
  <2> QED
    BY <1>1, <1>2, <1>3, <2>1, <2>2, RunAt, RunMoves
<1>5. CASE SkipInBatch(w, t) \/ UpdateTargetStatus(w, t) \/ ReleaseInBatch(w, t)
             \/ RecordInBatch(w, t)
  <2>1. run[w][t].phase \notin {"ready", "syncing"}
    BY <1>5 DEF SkipInBatch, UpdateTargetStatus, ReleaseInBatch, RecordInBatch
  <2>2. \/ run'[w][t].phase = "none"
        \/ run'[w][t].phase \in {"synced", "failed", "released"} /\ run'[w][t].gen = run[w][t].gen
    <3>1. run'[w][t] \in {NoRun, [run[w][t] EXCEPT !.phase = "released", !.man = None],
                          [run[w][t] EXCEPT !.phase = "synced"],
                          [run[w][t] EXCEPT !.phase = "failed"]}
      <4>1. CASE SkipInBatch(w, t) \/ RecordInBatch(w, t) \/ ReleaseInBatch(w, t)
        BY <1>2, <4>1 DEF SkipInBatch, RecordInBatch, ReleaseInBatch
      <4>2. CASE UpdateTargetStatus(w, t)
        BY <1>2, <4>2 DEF UpdateTargetStatus
      <4> QED
        BY <1>5, <4>1, <4>2
    <3>2. /\ [run[w][t] EXCEPT !.phase = "released", !.man = None].phase = "released"
          /\ [run[w][t] EXCEPT !.phase = "released", !.man = None].gen = run[w][t].gen
          /\ [run[w][t] EXCEPT !.phase = "synced"].phase = "synced"
          /\ [run[w][t] EXCEPT !.phase = "synced"].gen = run[w][t].gen
          /\ [run[w][t] EXCEPT !.phase = "failed"].phase = "failed"
          /\ [run[w][t] EXCEPT !.phase = "failed"].gen = run[w][t].gen
          /\ NoRun.phase = "none"
      BY <1>2 DEF NoRun, Run
    <3> QED
      BY <3>1, <3>2
  <2> QED
    BY <1>1, <1>2, <1>3, <2>1, <2>2, RunAt, RunMoves
<1> QED
  BY <1>4, <1>5

\* A batch stores the hash of a target and starts its goroutine.
LEMMA StartInBatchSkip ==
  ASSUME Setting, IInv, SkipInv, NEW w \in Workers, NEW t \in Targets, StartInBatch(w, t)
  PROVE  SkipInv'
<1>1. /\ Elsewhere
      /\ UNCHANGED <<manifest, targetManifestHashes, src, snap, task, fresh, todo, pc, target,
                     downstream>>
      /\ run[w][t].phase = "claimed" /\ StoreHash(w, t)
  BY DEF StartInBatch, Elsewhere
<1>2. pc[w] = "visit" /\ IsBatch(w) /\ ~IsPartial(w)
  BY <1>1, RunAt DEF IInv, WorkersFit, TaskFits, BatchPCs, IsBatch, IsPartial
<1>3. /\ \A u \in Targets : u # t => UNCHANGED run[w][u]
      /\ run'[w][t].phase = "ready" /\ run'[w][t].gen = run[w][t].gen
  BY DEF StartInBatch, IInv, TypeOK, LocalTypes, Run
<1>4. run'[w][t].gen <= created[t] /\ created[t] # 0
  BY <1>1, <1>3, RunAt DEF SkipInv, Born, IInv, TypeOK, RegistryTypes
<1>5. /\ \A u \in Targets : u # t => UNCHANGED sourceDataHashes[u]
      /\ DataHashFits(w, t)'
  BY <1>1, <1>2, <1>3, HashStored DEF Syncing
<1>6. RunFits(w, t)'
  BY <1>3 DEF RunFits
<1>7. pc'[w] \in SinglePCs => pc[w] \in {"decide", "sync"}
  BY <1>1, <1>2 DEF SinglePCs
<1> QED
  BY <1>1, <1>2, <1>3, <1>4, <1>5, <1>6, <1>7, OneTargetSkip DEF Syncing

\* A single task stores the hash, unless its fetch was partial, and goes on to sync.
LEMMA StartSingleSkip ==
  ASSUME Setting, IInv, SkipInv, NEW w \in Workers, StartSingle(w)
  PROVE  SkipInv'
<1>1. /\ Elsewhere
      /\ UNCHANGED <<manifest, targetManifestHashes, src, snap, task, fresh, todo, target,
                     downstream>>
      /\ pc[w] = "decide" /\ pc'[w] = "sync"
  BY DEF StartSingle, Elsewhere, GoTo, IInv, TypeOK, LocalTypes
<1>2. PICK t \in Targets : t = task[w].target
  BY <1>1 DEF IInv, WorkersFit, TaskFits, IsBatch, TypeOK, LocalTypes, Task, SinglePCs
<1>3. target[w][2] \in 1..MaxGen /\ target[w][2] <= created[t] /\ created[t] # 0
  <2>1. target[w] \in Targets \X (1..MaxGen) /\ target[w] # None /\ target[w][1] = t
    BY <1>1, <1>2 DEF IInv, WorkersFit, TaskFits, TypeOK, LocalTypes, SinglePCs, SkipInv, LocalsFit
  <2> QED
    BY <2>1 DEF SkipInv, Born
<1>4. /\ \A u \in Targets : u # t => UNCHANGED run[w][u]
      /\ run'[w][t] = [phase |-> "ready", gen |-> target[w][2], man |-> None]
      /\ run[w][t].phase = "none"
  <2>1. run \in [Workers -> [Targets -> Run]]
    BY DEF IInv, TypeOK, LocalTypes
  <2>2. run' = [run EXCEPT ![w][t] = [phase |-> "ready", gen |-> target[w][2], man |-> None]]
    BY <1>2 DEF StartSingle
  <2>3. run[w][t].phase = "none"
    BY <1>1 DEF IInv, WorkersFit, RunsFit
  <2> QED
    BY <2>1, <2>2, <2>3
<1>5. RunFits(w, t)'
  BY <1>4 DEF RunFits
<1>6. /\ \A u \in Targets : u # t => UNCHANGED sourceDataHashes[u]
      /\ Plain(t) => DataHashFits(w, t)'
  <2>1. CASE IsPartial(w)
    <3>1. UNCHANGED sourceDataHashes
      BY <2>1 DEF StartSingle
    <3>2. ASSUME Plain(t) PROVE DataHashFits(w, t)'
      <4>1. DataHashFits(w, t) /\ UNCHANGED <<Man(t), InitialMan(t)>>
        BY <1>1, <3>2 DEF SkipInv, HashesFit, Man, InitialMan, Elsewhere
      <4>2. ~Pending(w, t) /\ ~Pending(w, t)'
        BY <1>1, <2>1 DEF Pending, IsPartial
      <4> QED
        BY <1>1, <3>1, <4>1, <4>2, DataHashKept
    <3> QED
      BY <3>1, <3>2
  <2>2. CASE ~IsPartial(w)
    <3>1. StoreHash(w, t)
      BY <1>2, <2>2 DEF StartSingle
    <3> QED
      BY <1>1, <1>4, <2>2, <3>1, HashStored DEF Syncing
  <2> QED
    BY <2>1, <2>2
<1>7. run'[w][t].gen <= created[t]
  BY <1>3, <1>4
<1> QED
  BY <1>1, <1>3, <1>4, <1>5, <1>6, <1>7, OneTargetSkip DEF Syncing

\* A full Sync that returns has done what the hash says, and after a Sync of a part
\* the last full one is still the one that the hash is about.
LEMMA EndSyncSkip ==
  ASSUME Setting, IInv, SkipInv, NEW w \in Workers, NEW t \in Targets, EndSync(w, t)
  PROVE  SkipInv'
<1>1. /\ Elsewhere
      /\ UNCHANGED <<manifest, cacheVars, src, snap, task, fresh, todo, pc, target>>
      /\ run[w][t].phase = "syncing"
      /\ run' = [run EXCEPT ![w][t].phase = "clean"]
      /\ downstream' = [downstream EXCEPT ![t] = Outcome(w, t)]
  BY NoFault DEF EndSync, Elsewhere
<1>2. /\ pc[w] \in Syncing /\ run[w][t].gen \in 1..MaxGen /\ run[w][t].gen <= created[t]
      /\ run[w][t].man = manifest[<<t, run[w][t].gen>>]
  BY <1>1, RunAt DEF SkipInv, Born, RunFits
<1>3. /\ \A u \in Targets : u # t => UNCHANGED <<run[w][u], downstream[u]>>
      /\ run'[w][t].phase = "clean" /\ run'[w][t].gen = run[w][t].gen
      /\ downstream'[t] = Outcome(w, t) /\ downstream[t] \in Downstream
  <2>1. run \in [Workers -> [Targets -> Run]] /\ downstream \in [Targets -> Downstream]
    BY DEF IInv, TypeOK, LocalTypes, OutsideTypes
  <2> QED
    BY <1>1, <2>1 DEF Run
<1>4. RunFits(w, t)'
  BY <1>3 DEF RunFits
<1>5. ASSUME Plain(t) PROVE DataHashFits(w, t)'
  <2> DEFINE applied == Applied(Fetched(w), Man(t), InitialMan(t))
  <2>1. DataHashFits(w, t) /\ UNCHANGED <<Man(t), InitialMan(t)>>
    BY <1>1, <1>5 DEF SkipInv, HashesFit, Man, InitialMan, Elsewhere
  <2>2. ~Pending(w, t)' /\ (Pending(w, t) <=> ~IsPartial(w))
    BY <1>1, <1>3 DEF Pending
  <2>3. run[w][t].man = Man(t) /\ initialised[<<t, run[w][t].gen>>] = InitialMan(t)
    BY <1>2, <1>5, OneManifest
  <2>4. CASE ~IsPartial(w)
    <3>1. downstream'[t] = applied
      BY <1>3, <2>3, <2>4 DEF Outcome
    <3>2. [applied EXCEPT !.state = "applied"] = applied
      BY DEF Applied
    <3> QED
      BY <1>1, <2>1, <2>2, <2>4, <3>1, <3>2 DEF DataHashFits
  <2>5. CASE IsPartial(w)
    <3>1. downstream'[t] \in {downstream[t], [downstream[t] EXCEPT !.state = "truncated"],
                              [downstream[t] EXCEPT !.state = "patched"]}
      BY <1>3, <2>5 DEF Outcome
    <3>2. [downstream'[t] EXCEPT !.state = "applied"] = [downstream[t] EXCEPT !.state = "applied"]
      BY <1>3, <3>1 DEF Downstream
    <3> QED
      BY <1>1, <2>1, <2>2, <2>5, <3>2 DEF DataHashFits
  <2> QED
    BY <2>4, <2>5
<1>6. pc'[w] \in SinglePCs => pc[w] \in {"decide", "sync"}
  BY <1>1, <1>2 DEF SinglePCs, Syncing
<1> QED
  BY <1>1, <1>2, <1>3, <1>4, <1>5, <1>6, OneTargetSkip

\* The returns of a batch and of a single task.
LEMMA EndSkip ==
  ASSUME Setting, IInv, SkipInv, NEW w \in Workers,
         EndBatch(w) \/ SkipSingle(w) \/ FinishSingle(w)
  PROVE  SkipInv'
<1>1. /\ Elsewhere /\ Return(w) /\ UNCHANGED <<manifest, cacheVars, downstream>>
      /\ pc[w] \in Syncing
  BY DEF EndBatch, SkipSingle, FinishSingle, ReturnBatch, ReturnSingle, Elsewhere, Syncing
<1>2. \A t \in Targets : run[w][t].phase \notin {"ready", "syncing"} /\ run'[w][t].phase = "none"
  <2>1. run \in [Workers -> [Targets -> Run]]
    BY DEF IInv, TypeOK, LocalTypes
  <2>2. CASE EndBatch(w)
    BY <2>2 DEF EndBatch
  <2>3. CASE SkipSingle(w)
    BY <2>3 DEF SkipSingle, IInv, WorkersFit, RunsFit
  <2>4. CASE FinishSingle(w)
    BY <2>1, <2>4 DEF FinishSingle, IInv, WorkersFit, RunsFit, NoRun
  <2> QED
    BY <2>2, <2>3, <2>4
<1> QED
  BY <1>1, <1>2, ReturnSkip DEF AtPublish, Syncing

-----------------------------------------------------------------------------
\* SkipInv is inductive, given IInv.
LEMMA NextSkip == ASSUME Setting PROVE IInv /\ SkipInv /\ [Next]_vars => SkipInv'
<1> SUFFICES ASSUME IInv, SkipInv, [Next]_vars PROVE SkipInv'
  OBVIOUS
<1>1. ASSUME NEW w \in Workers, WorkerStep(w) PROVE SkipInv'
  BY <1>1, ClaimSkip, LoadSkip, RefreshSkip, FetchSkip, RecordSkip, PublishSkip, VisitSkip,
     RunMovesSkip, StartInBatchSkip, StartSingleSkip, EndSkip DEF WorkerStep
<1>2. ASSUME NEW w \in Workers, NEW t \in Targets, RunStep(w, t) PROVE SkipInv'
  BY <1>2, RunMovesSkip, EndSyncSkip DEF RunStep
<1>3. CASE UNCHANGED vars
  BY <1>3, OutsideSkip DEF vars
<1> QED
  BY <1>1, <1>2, <1>3, EnvironmentSkip, TickerSkip DEF Next

\* Initially there is nothing to be wrong about.
LEMMA InitSkip == Init => SkipInv
<1> SUFFICES ASSUME Init PROVE SkipInv
  OBVIOUS
<1>1. Born
  BY DEF Init, Born, NoRun
<1>2. Unedited
  BY DEF Init, Unedited, Unread
<1>3. ASSUME NEW w \in Workers
      PROVE  LocalsFit(w) /\ \A t \in Targets : RunFits(w, t)
  BY DEF Init, LocalsFit, RunFits, NoRun, SinglePCs
<1>4. ASSUME NEW t \in Targets PROVE HashesFit(t)
  BY DEF Init, HashesFit, ManifestHashFits, DataHashFits, Publishing
<1> QED
  BY <1>1, <1>2, <1>3, <1>4 DEF SkipInv

\* With one worker and no call that fails once the data are fetched: a target that
\* executeBatch or executeSingle skips was given the data just fetched by its last full
\* sync, under the manifests of its object, however often targets are edited, removed,
\* added and moved to other sources, sources change between the two fetches and back,
\* webhooks patch or truncate the target in between, and fetches or reads of the store
\* fail.
THEOREM SkippingIsSound == ASSUME Setting PROVE Spec => []SkipIsSound
<1>1. IInv /\ SkipInv => SkipIsSound
  BY SkipInvImplies
<1>2. IInv /\ SkipInv /\ [Next]_vars => SkipInv'
  BY NextSkip
<1> QED
  BY <1>1, <1>2, InitSkip, Invariance, PTL DEF Spec
=============================================================================
