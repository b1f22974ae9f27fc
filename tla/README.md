# Lexicore: models, checks and proofs

Lexicore is a controller: it reads manifests of *identity sources* (Authentik, LDAP, a plugin) and *sync
targets* (Dovecot, iRedAdmin, Active Directory, LDAP, a plugin), fetches identities and groups
from a source, runs them through the transformation pipeline of the target and calls the target's *operator*
to make a downstream service agree. This directory holds TLA+ modules of the parts where order, concurrency
and failure decide whether that works, the TLC configurations that check them and TLAPS proofs about them.
`PROJECT.json` ties each definition to the source lines it models, and each run to its properties.

## 1. The system

| component | state | operations | interacts through |
|---|---|---|---|
| Reconciliation core (`pkg/controller/manager.go`, `reconciler.go`, `status.go`) | active sources and operators, three maps of hashes, locks `reconcilingTargets` and `reconcilingBatches`, bounded task queue | `reloadFromStore`, `scheduleReconciliations`, `worker`, `executeBatch`, `executeSingle`, `reconcileTarget`, `refresh…Manifest`, `updateTargetStatus` | the queue (from ticker, API, debouncer), the store, sources, operators |
| Webhook debouncer (`webhook.go`) | `webhookQueue`, `pendingWebhookUpdates`, one mutex and timer per update | `ProcessWebhook`, `accumulateWebhookUpdate`, `flushWebhookUpdates` | HTTP handlers in, the task queue out |
| Process life cycle (`cmd/controller/main.go`, `Manager.Start`) | two contexts, the WaitGroup, the closed flag of the queue | start, signal, shutdown | every goroutine above |
| Dovecot operator (`pkg/operator/drivers/dovecot`) | the `syncContext` of one Sync | two phases of goroutines: desired ACLs, then diff and apply per mailbox | doveadm calls |
| Account operators (`drivers/ad`, `iredadmin`, `ldap`) | connection or cookie jar, rate limiter, semaphore of a Sync | `Sync`, `PartialSync` | one downstream service each; the `SyncResult` |
| Transformation pipeline (`pkg/transformer`) | the copies of one run; lists shared with the source | selectors, templates, group aggregation, sanitizers, prefix | called by the core between fetch and Sync, in one goroutine per target of a batch |
| Identity sources (`pkg/source`) | client and its one connection, webhook parser | `Initialize`, `Connect`, `GetIdentities`, `GetGroups`, partial fetch | called by the core, over a service that others edit; webhooks to the debouncer |
| Manifest store (`pkg/store`) | a directory of manifests, optionally a git clone | clone or pull, `load` | read by the core on every tick and task, while the files are edited |
| Audit (`operator/audit*.go`, `controller/audit_report.go`) | `SyncResult`: entries and their index | record, merge, count; render, mail, export | filled by the goroutines of the operators, read by the core |
| HTTP API (`pkg/api`) | none | webhooks, reconcile one or all, read-only views | core, debouncer |
| Plugins (`pkg/plugin`), client (`cmd/lexictl`), configuration (`pkg/manifest`, `pkg/config`) | - | Starlark runtime; HTTP client; parsing | - |

What is hard, and what makes each part correct:

* **Core.** Several workers, and a goroutine per target inside a batch, share maps without a common lock. A
  target must never be synced twice at once; every return path must give its locks back; a target may be
  skipped as unchanged only if it was given the data; no Success may be shown of a sync that failed; and once
  the inputs settle every target must reach the state of its source. The last is what the README of
  Lexicore promises (line 3), and it needs liveness: locks drop work instead of queueing it, the queue drops
  when it is full, and only later ticks repair that.
* **Debouncer.** `timer.Stop` does nothing to a timer that has fired, and the pending update is looked up
  and locked in two steps. No update may stay registered without something that flushes it, none may be sent
  twice, and an accepted event must be sent.
* **Life cycle.** `Start` closes a channel that goroutines of three kinds send to. Shutdown must end, without
  panic.
* **Dovecot.** The second phase revokes whatever the first did not ask for, so every failure of the first is
  a potential revocation. A right that is due and held must not be lost, a clean Sync must leave exactly
  what is due (the code lets an entry of the user's own hide what is due through "anyone"), and the audit must be true.
* **Account operators.** A goroutine per identity reads an account, and then switches, updates, moves it and
  changes memberships, each by a call that may fail, or be carried out while its answer is lost. Nearly all of these
  failures end in an audit entry or a line in the log and not in an error of `Sync`. What must hold: a Sync that
  returns no error leaves nobody in the dark, the audit shows what was done and nothing else, an account that is
  right stays as it is (the LDAP operator writes it again, with equal values), and nothing is at work after `Sync` has returned (the lock of the target is released then).
* **Pipeline.** Maps are ranged over in random order, one identity that fails must stop the target, and the pipelines
  of all targets of a batch work on one fetched map at once. Each target must get what its own manifest makes of
  the identities, whatever the others do.
* **Sources.** A full fetch is one request per page, a partial one a request per user and group, and the service is
  edited between them. Whoever is left out of a full fetch loses his rights downstream, so nobody who is there all the time may
  be missing. LDAP keeps one connection, and resolves the nesting of groups over maps in random order.
* **Store.** A read opens one file after the other, and the ticker and the workers read on their own. A broken file must not
  take with it what other files declare, and what the files say in the end must be what is active.

The hazards, each at its line, are in `PROJECT.json`.

## 2. Modules

| module | models |
|---|---|
| `Reconciler` | the core: ticker, queue, workers, batches, caches, locks, status |
| `TargetLock` | abstract: what the core promises of the lock of a target |
| `MCReconciler` | small sets for the runs of `Reconciler` |
| `Reconciler_proofs` | the inductive invariant of `Reconciler` and what follows: the truth of the status, and that `Reconciler` implements `TargetLock` |
| `ReconcilerSkip_proofs` | that a target skipped as unchanged is unchanged |
| `Webhook`, `MCWebhook`, `Webhook_proofs` | the debouncer, its instance, its proofs |
| `Lifecycle`, `Lifecycle_proofs` | start and shutdown of the process, its proofs |
| `Dovecot`, `MCDovecot` | one Sync of the Dovecot operator, its instance |
| `Dovecot_proofs` | the inductive invariant of `Dovecot`: access, the audit, the contract, and what a clean Sync has settled |
| `SyncContract` | abstract: what the core counts on when it calls an operator |
| `DriverSync` | what the account operators share: identities, accounts, goroutines, `SyncResult` |
| `ActiveDirectory`, `IRedAdmin`, `LDAPOperator` | one call of each operator, over `DriverSync` |
| `Operators`, `MCOperators` | the three behind the interface, their properties and refinement; the instance |
| `Transformers` | the transformers as operators on one identity, with no state |
| `Operators_proofs` | the inductive invariants of `Operators`: the contract, the audit, the report, and who is left alone |
| `Pipeline`, `MCPipeline` | the pipelines of the targets of a batch side by side; the instance |
| `Pipeline_proofs` | the inductive invariants of `Pipeline`, its simulation by a run that is alone and what that run makes in any order of maps, the walk to the parents and the weighted value |
| `InputBase` | the variables and the failing call that the next three have in common |
| `AuthentikSource` | one fetch from Authentik while it is edited |
| `LDAPSource` | the LDAP source over many fetches |
| `Store` | manifests from their files to the registry of the Manager |
| `Inputs`, `MCInputs` | the three side by side, their fairness and liveness; the instance |
| `Inputs_proofs` | the inductive invariants of the store and of both sources, and what follows |

### Reconciler

`activeOperators[t]` is the generation of the `*ActiveOperator` in the map (0: none): a target that is
removed and added again is another object, and a batch that holds the old one keeps it. `manifest[o]`,
`status[o]` and `due[o]` are the fields of the object; the three hash maps carry the Go names and hold what
was hashed, so equal hashes mean equal contents. `pc[w]` is where worker *w* is between two steps:

    idle -> claim -> lookup -> loadTarget -> invalidateTarget -> publishTarget        executeSingle
                  -> source -> ids -> groups -> decide -> sync
    idle -> claim -> refreshSource -> loadTargets -> rangeTargets                     executeBatch
                  -> (invalidateTargets -> publishTargets, object by object)
                  -> batchIds -> batchGroups -> visit

and `run[w][t]` is the goroutine that a batch starts for target *t* (or the worker itself in a single task):
claimed, ready, syncing, then what Sync returned (clean, erring, broken), and when `updateTargetStatus` has told it,
synced or failed, and released. A step ends wherever another goroutine can see or change
what the next one uses: at each claim and release, each read of the store or the source, between comparing a
manifest hash, deleting the data hash and publishing the manifest, around the call of the operator, and between its
return and the status, which is written by name into whatever object and manifest is current then.

Data are versions. A source has one number, which may go back to what it was; identities and groups are fetched by two
calls, so that a snapshot is a pair of versions that may differ. A refresh replaces `manifest[o]` and nothing else: the operator goes on
with the config it was initialised with (`initialised[o]`). Downstream holds `Applied(snapshot, manifest, initialised)` after a full
sync that succeeded, "diverged" after one that failed or that recorded errors, "truncated" after a Sync on
the result of a partial fetch (the fallback of a webhook task), "patched" after a PartialSync. The
transformation pipeline is a deterministic function that may fail. Dry runs are left out (they change nothing
downstream). The environment edits, removes and restores manifest files, changes data, fails calls,
triggers syncs and sends webhooks; each kind has a bound (`MaxData`, `MaxEdits`, `MaxFaults`, `MaxTriggers`,
`MaxWebhooks`), `MaxEvents` bounds all of them together, `Failing` says which calls may fail, and `MaxGen` bounds the objects of a target.

### Webhook

An event is posted by a handler, queued, received and accumulated in two steps (`Receive` is `LoadOrCompute`,
`Accumulate` the critical section), and flushed in four (`Fire`, `Take`, `Copy`, `Send`). `hand` is what the
processor holds between its two steps: the window of the finding. Objects and flush goroutines are bounded by
the sets `Objects` and `Flushers`; identities and groups are one kind of item. `copied` and `late` are history: the updates a
flush has copied, and the events added to one after that.

### Lifecycle

Counts tasks instead of naming them. The select of the senders is a disjunction: send, be told of the
shutdown, give up by default, and, once the queue is closed, panic. The exit of `main`, which does not wait
for the manager, and of `logger.Fatal` end the process.

### Dovecot

Two phases with a semaphore of `concurrency` places. `desired`, `affected`, `allMailboxes`, `cache` and
`disabledUsers` are the maps of `syncContext`. A step ends at each doveadm call; a call may fail, a write that
fails may or may not have reached the server, and the context may be cancelled anywhere. `lost` and `unread`
are history: the users and mailboxes whose failure the code only logs. ACL rights are sets, mailboxes and
patterns are names, and what doveadm lists for a pattern is a constant. Left out: a listed mailbox without a
path, which `applyACLChanges` passes over (sync.go:277), two identities with one user name, ids of other domains.

### SyncContract and the account operators

`SyncContract` says what `reconcileTarget` takes for granted: before the call returns it may change the downstream (not
in a dry run) and only adds to the audit, and afterwards nothing moves. `Dovecot` and `Operators` both implement it
(`ImplementsContract`); what they map `downstream` and `recorded` to is at the end of each module.

`DriverSync` holds the state of one call: `want` and `name` are `SyncState.Identities`, `accounts` is the service,
`at[u]` is where the goroutine (or, with one connection, the turn) of an identity is, `seen` the account as it read it,
`left` the memberships still to change, `made` what it changed and has not recorded, and `entries` is `SyncResult`.
Each driver module has an action for each call of the service, with the recording that follows it. A call fails at most
`MaxFaults` times at random, and always after `Break` (the context is cancelled, the connection is lost); a failed
write may have had its effect. `applied` and `logged` are history: the changes made, and the identities given up
with no more than a line in the log. Two kinds of identities of iRedAdmin are passed over without even that (`Mailless`, `Unsubmitted`).

An account is active or not, has one attribute with values, a set of groups and an organisational unit; more attributes
would go into the same request. The name stands for what a driver finds the account by (sAMAccountName, mail, DN); two
identities may share it. `Identity.off` tells the field `Disabled` from the attribute "disabled", which iRedAdmin's
partial sync does not look at; `status` is its attribute "accountStatus".

### Transformers and Pipeline

`Transformers` has no state: an operator for each transformer, from an identity to the set of what it may become, one
element for each order of the maps the code ranges over. A pattern is the set of the texts it matches,
a normalisation a function, a template shows one field; an expression is a string, in which a placeholder is replaced wherever it
occurs (`ReplaceText`), so what one attribute puts in may make a placeholder of another. Values have a kind, since nearly every rule turns on it.

`Pipeline` runs them: `ids[t]` is `newIdentities` of the target, `stage[t]` the transformer, `todo[t]` what the range over
the map has left. A list is a slice: the array of a list that came from the source may have room for one more item, in a
cell (`heap`) that every copy of the identity shares, because `DeepCopy` copies the map and not the lists. So the modes
"append" and "uniqueAppend" take a step per group (`Extend`) and may write into it. A list that a pipeline makes is
taken to have no room; it is its own, and only a later mapping of the same identity could append to it.

What the code does in a loop or a recursion is a fold or a recursive function over one named step, so that it can be proved
about: a step of the walk of `resolveGroups` is `Follow`, one group of `getWeightedValue` is `Heavier`, one template is `Filled`.

### AuthentikSource and LDAPSource

`AuthentikSource` is one call of `getIdentitiesAndGroups`. `users` and `grps` are the service; an id is on page *p* of a list if as many
others are before it (`Before`) as on such a page, when the request is answered; that a list is in the order of the ids, which do
not change, is an assumption about the service: the requests ask for no order (client.go:102, 139). A full fetch lists users and then groups, and a request that fails
ends it; a partial one retrieves what the webhook named, then the groups that the identities have besides (`Additional`), and
whatever cannot be retrieved is left out. `usersGone`, `groupsGone`, `usersNew` and `logged` are history.

`LDAPSource` is the life of one source. The interface has `Connect` besides `Initialize`; `Connects` says whether whoever uses the source
calls it, once, before the first fetch, which the Manager does not. `Resolved` is `resolveParents`: the set of the
results for each order of its maps. Groups come with their members only if the configured `groupAttributes` name "member", which the default
does not (config.go:24-31); without it nothing is nested.

### Store

`dir` is the directory that `FileStore` reads (for git the clone) and `remote` the repository. The files are numbered in the order
of `os.ReadDir`. Each reader, the ticker and a worker, has what `load` has: the entries still to be opened and what it has
parsed. `activeOperators[t]` is the manifest of an active target; the pointers, locks and hashes around it are
`Reconciler`'s, where a read of the store is one step. A refresh of one target publishes the first manifest of its name
(`One`), a refresh of all the last (`Last`), a reload adds the first that can be added. Files are written, removed, renamed and
broken by others (`STEdit`); a failure is a directory that cannot be read, a file that cannot be opened, a source
that cannot be initialised (at most one new one per reload), a target that cannot be added, or a clone that fails and ends the process. A
source is its name here: what its manifest says, and its refresh, is `Reconciler`'s (`RefreshSource`).

### Inputs

What the core is fed with. The store and the sources share no state in the code, so a behaviour of `Inputs` is about one of
them (`part`), the variables of the others are `None`, and their runs are one run. The names of the parts begin with
`ST`, `AK` and `LD` (`STInit`, `AKNext`, ...). The core that uses them is `Reconciler`, where a read of the store and a fetch
are one step each, which returns a version or fails.

## 3. Runs

All with two TLC workers; a small instance is enough where said.

| run | instance | shows |
|---|---|---|
| `reconciler_locks` | 1 source, 2 targets, 2 workers, 1 trigger, 1 webhook, queue of 1 | `LocksAccounted`, `SyncExclusive`, and the refinement `ImplementsLock` |
| `reconciler_skip` | 2 sources, 1 target, 1 worker, 2 objects, 3 of 2 changes of data, 2 edits, a webhook and a read, fetch or Initialize that fails | `SkipIsSound` while the target moves between sources and is re-created, and the data change and change back |
| `reconciler_settles` | 1 source, 1 target, 2 workers and the goroutines of their batches, 2 of a fault, an edit, a change of data and a webhook, no PartialSync, nothing skipped | `Converges`, `StatusTruthful` |
| `reconciler_failed_skip` | `skipUnchangedSync`, 1 fault | violates `Converges` (finding 1) |
| `webhook` | 1 source, 2 targets, 3 events, 3 updates, 2 flushes at once, both queues of 1 | `FlushedOnce`, `PendingIsFlushed`, `AcceptedIsHandled` |
| `webhook_forgotten` | 2 sources, 2 events, queues of 2 | violates `NoUpdateForgotten` (finding 2) |
| `lifecycle_stop` | 2 workers, a handler, a timer, full queues, ticks | `ManagerStops`, `TypeOK` |
| `lifecycle_panic` | the same module | violates `NoSendOnClosedQueue` (finding 3) |
| `dovecot` | 2 users, 2 mailboxes, a pattern, 1 failing call, concurrency 1 or 2, both values of removeAnyone, a dry run | `Settled`, `KeepsAccess`, `AuditTruthful`, `SyncEnds`, `ImplementsContract`, `TypeOK` |
| `operators` | the 3 drivers, full and partial, 2 identities, with the same name or not, 2 failing calls and a loss for good, concurrency 1 or 2, a dry run | `Reported`, `AuditTruthful`, `AuditComplete`, `LeavesAlone`, `ImplementsContract`, `SyncEnds`, `TypeOK` |
| `pipeline` | 2 targets, each with any of 8 manifests, 2 identities, 3 groups with a cycle of parents, 8 sets of data, values that hold placeholders and parts of them | `Isolated`, `OrderFree`, `AllOrNothing`, `HeaviestWins`, `InheritsReachable`, `TypeOK` |
| `inputs` | store: 3 files, 2 sources, 1 target that moves between them or is in two files, file or git, 1 edit, 1 restart. Authentik: 3 users on pages of one, 2 groups, 2 edits, full or partial. LDAP: 2 people, 3 groups in every nesting, connected by its user. In each 1 failing call | `KeepsDeclared`, `FilesAreFollowed`, `NobodyOverlooked`, `GroupsFollow`, `NestedGroups`, `TypeOK` |

*Why these bounds.* Every conflict in the core is between two actors over one target or one source: two workers
on two targets of one source have all pairs (batch and batch, batch and single, single and single, and two
goroutines of one batch); `MCReconciler` permutes workers, targets or sources, only where they are alike and the run has no liveness. Two
versions of data and of a manifest tell old from new; three let data go on or back. A queue of one place fills at once. For liveness two
disturbances, of any kinds, reach each state from which the system has to recover: one hits a target while another worker recovers from
the other, and a batch and a single task compete for it. In the debouncer two objects of one source
are what the window needs, and two flushes what `FlushedOnce` is about. In Dovecot an ACL is changed by one
goroutine only, so two mailboxes show what goroutines share, the semaphore and the maps. Identities of an account
operator share the semaphore, the audit and, with one name, an account: two of them show it, where the first meets every
case of its driver and the second is plain or disabled; two faults are a call that fails and one that fails because of it, or
in the other identity. In the pipeline two targets are what can share an array, and the manifests of `MCPipeline` meet each
transformer, mode and error; in half of the sets of data the role of u2 holds a placeholder, which an expression inserts, so that the order shows. On pages of one every removal shifts a list, and two edits can undo each other; the third user is
the one who is overlooked. In the store one edit can be a rename, which two reads see half of; the second file may be broken from the start, so that what
comes after it has something to lose.

*What a run leaves out.* `SkipIsSound` is checked with no failing hash, pipeline or Sync, because a failed sync breaks it (finding 1),
and with one worker, because two break it too (the first race at the end of section 4). It exempts a target that was removed and
added again with an edited manifest (`Plain`): its hashes outlive it. And it is about what the last full sync gave the target: what a
webhook has written since then is not undone as long as the data have the hash of before (section 4). `Converges` holds in the passing runs because nothing
is skipped there, and it asks for no more than the operator as it was initialised can do: an edit of its config does not reach it. `StatusTruthful` leaves
out the moment between the return of a Sync and its status; a status may also be that of a sync under an earlier manifest. `AcceptedIsHandled` excepts the events
of finding 2, and counts a target whose task was dropped with a warning, because the queue was full, as handled. `Settled` has one exception besides what the code logs: rights due through
"anyone" that an entry of the user's own overrides (`Overridden`, diff.go:71-80). `Reported`, `AuditTruthful` and `LeavesAlone` name their exceptions, each of which is the code's: an
identity that is given up with a line in the log (`logged`), in iRedAdmin one without an Email and those not submitted after a
cancellation (sync.go:35-47), of which nothing is said, mailing lists of iRedAdmin (http.go:169-178), a
status of "false", which iRedAdmin enables and then disables in every Sync, and identities with one name. `Isolated` has one: the
cell of a shared array that another pipeline overwrote; `AllOrNothing` has it too, since what is in such a cell may decide whether a strict template
fails. `OrderFree` has another (`MixedAlone`): an expression is evaluated where its text has two "{{" without a "}}" between them, or names an attribute that
has a brace in its name or value, so that the order in which `evaluateExpression` ranges over the attributes may show. TLC reaches both: without them the run fails.
`NobodyOverlooked` and `GroupsFollow` have two: a removal from an earlier page moves the others up past the page that is to come, and a
partial fetch drops what it fails to retrieve. `KeepsDeclared` has two: a file that could not be opened, which `load` does not
tell from one that is gone, and a manifest that moved to another file during the read. Any file that was edited while it was read is outside of `steady`, of which
the property speaks, also one edited in place. `FilesAreFollowed` is about names of sources, the manifest of a target and the local clone: not
about what a source manifest says, the config of an operator that runs, or a push (section 4). `ReportDue` is what
`generateAuditReport` does with a report that is configured; without one it returns at once (audit_report.go:18).

*Fairness.* `Reconciler`: each worker, each goroutine and the ticker is scheduled (weak fairness per goroutine: the
Go scheduler), and the sync period elapses for each object; nothing is assumed of triggers, edits, data or
webhooks. `Webhook`: the processor, each flush and each armed timer; handlers and workers may stop. `Lifecycle`: the
goroutines of the WaitGroup while the process runs, with tasks that end; nothing of signals, requests and
timers. `Dovecot`: the goroutines of a Sync, since a doveadm call ends after 120 seconds at the latest (operator.go:40); cancellation is never due. `Operators`: some goroutine of
a call of iRedAdmin goes on as long as one can, whose client has the same timeout (iredadmin/operator.go:72); nothing of Active Directory and LDAP, whose
connections have none, nor of the loss of the service.
`Inputs`: the next tick comes; nothing of requests to a source, of edits and of a lost connection. The process of the
store starts, its ticker and its worker go on, and among the tasks of the worker there is a batch again and again (strong fairness of `Refresh` for all
targets), because `scheduleReconciliations` queues one every sync period; nothing of edits, failures and restarts.
`Pipeline` states none: its properties are invariants, and no step waits for another.

*Deadlock.* Checked in every run of the core, which never stops. The models of `Lifecycle`, `Dovecot`, `Operators`,
`Pipeline`, `Inputs` and the debouncer do end: the process exits, Sync or the fetch returns, posted events are
bounded, and a process whose first clone failed is not started again.

## 4. Findings

1. `reconciler_failed_skip`: the data hash is stored before Sync and kept when it fails; with
   `skipUnchangedSync` the target is then skipped until its data or manifest changes.
2. `webhook_forgotten`: an accepted event is added to an update that has been copied already.
3. `lifecycle_panic`: close before the senders have left.

Seen while modelling, and not shown by a run: with `skipUnchangedSync` and two workers, one may sync with the manifest of before an edit after
the other has deleted the data hash and before it publishes the new manifest; the hash that it stores makes later batches
skip the target (reconciler.go:536-545; `reconciler_failed_skip.cfg` with two workers, one edit, one trigger and no
fault shows it). A target that leaves the store keeps its hashes (manager.go:511-520 removes the object only); when it comes back edited,
a batch compares the new data with what the old manifest was synced with, and may skip it. A partial task neither compares nor stores a hash (reconciler.go:225): when the data go back to
what they were before the webhook, batches skip the target with what the webhook wrote. A refresh replaces the manifest of a target only: source and operator keep
the config of their `Initialize` (manager.go:273, 332), so an edited config, or another operator, never takes effect while the process runs. Nothing calls `Connect` of a source (manager.go:239-288), and without it every fetch of an LDAP source fails: `inputs` sets `Connects = TRUE`, the source as its interface means it. The git store
pulls when the process starts and never again, and nothing reads its `pollInterval` (git.go:34, 57). A forced trigger for a target that is being reconciled is dropped by
the worker although the API answered "queued" (reconciler.go:160-168, handlers.go:206); `main` returns without waiting for the manager (main.go:77-89); the
status of a target is lost when its manifest is refreshed, since it lives in the manifest; a Dovecot pattern that
cannot be expanded revokes rights silently, and an ACL that cannot be read is not in the result (`Settled` and
`KeepsAccess` name both as their exceptions). A partial task for an operator without PartialSync calls Sync with the few
identities of the webhook (reconciler.go:414-428): an operator that removes what is not in the list takes it away from
everyone else until the next full sync. That comes if the target is not skipped (`Converges`, since a truncated target is not in sync); with
`skipUnchangedSync` the hash of before stays and it comes only when the data or the manifest change. An audit report is made only of a Sync
that returned no error, so the changes that the LDAP operator made before one entry was not found are reported by nobody
(reconciler.go:430-437). `append` writes into an array that the targets of a batch share, so one may be given a value that
the manifest of another put there (`Isolated`). An identity without groups gets the default of a mapping even where
it has the attribute itself (group_aggregation.go:98-107). A group that has several groups as members becomes a parent of the
first only (ldap/client.go:190). A connection that the LDAP source has lost is never made again, and `Close` of a source is called by
nobody. Of two manifests with one name a batch takes the last and a single task the first (reconciler.go:561-564 and
614-617): the target goes back and forth between them. `branch` of the git store is not used either.

## 5. Proofs

`Reconciler_proofs` proves for every set of sources, targets and workers, every capacity and every bound, from the named
assumptions of `Reconciler` on its constants (bounds are numbers, capabilities are subsets, `None` is none of the
others):

* `Invariance`: `Spec => []IInv`, hence `TypeCorrect`, `NoLockLeaks` (`LocksAccounted`) and `MutualExclusion`
  (`SyncExclusive`).

`LocksAccounted` says that `reconcilingTargets` is exactly the set of targets that someone owns. It is not inductive:
deleting a lock is right only if its owner was the only one (`OwnersUnique`), and who owns what depends on
`pc` fitting the task and on a batch having goroutines only during its visit (`TaskFits`, `RunsFit`). `ObjectsMade` is
needed for types: an object in the map has a manifest. `SyncExclusive` follows from `OwnersUnique` and the
phases of a run. The proof has a lemma per action, and lemmas for what actions have in common: a worker that
moves without taking or releasing (`WorkerMoves`, `WorkerAdvances`), returns (`SingleReturns`, `BatchReturns`), or
changes one run (`RunGoesOn`, `RunUnlocks`).

`LockImplemented` is the refinement: `Spec => Lock!Spec` (`ImplementsLock`). The refinement mapping reads
the holder of a target off the owners of its lock and the calls in progress off the runs that are "syncing".
By `LocksAccounted` and `OwnersUnique` the holder changes exactly when `reconcilingTargets` does, so each action is told by
what it does to that map and to one run: `LockAcquired` (LoadOrStore), `LockReleased` (Delete, by an
owner whose call has returned), `NoCall` and `LockStutters` for the rest.

`StatusInv` proves `StatusIsTruthful` (`StatusTruthful`): a new object has no status (`Unborn`), and while a call has returned and not told its
outcome its goroutine owns the lock, so nobody else can write the downstream: what is told of a clean call is still so (`CleanCalls`), whichever object and
manifest a reload or a refresh has put in place by then.

`ReconcilerSkip_proofs` proves `SkippingIsSound` (`SkipIsSound`) where the code makes it true, and says so in `Setting`: one worker, and no
failing hash, pipeline or Sync. Each is needed: a failed Sync keeps its hash (finding
1), and two workers interleave a refresh with a sync. `SkipInv` says of each hash what it may say: the manifest hash is that of the manifest, but between the two steps of
a refresh, when it is ahead and the data hash is gone (`ManifestHashFits`); the data hash is that of what the last full sync applied, under the manifest and by the operator of now, or of
what is on its way there (`DataHashFits`), whatever version the data have by then.

`Webhook_proofs` proves the same way, for any number of sources, updates and flushes, `Invariance`, `FlushedByOne`
(`FlushedOnce`) and `PendingHasTimer` (`PendingIsFlushed`). The strengthening is `OneOwner`: a flush holds only
updates that are registered no more, so a later `LoadAndDelete` cannot find them.

`Operators_proofs` proves for the three drivers, any identities, accounts, groups and bounds `Invariance`, `TypeCorrect`
(`TypeOK`) and `ContractImplemented`: `OpSpec => ImplementsContract`, so that nothing moves downstream or in the audit after an
operator has returned, and nothing at all in a dry run. Its invariant adds `PhaseFits` (the call has an outcome exactly when it is
over, and then nobody is at work, but for LDAP's turn) and `Found` (an identity at work has an account) to the types. Every
action of a driver is shown to be a `Turn` of one identity, which keeps the invariant and is `Work` of the contract, once; what is left
are the steps that begin and end the call. The assumption `FinitelyMany` (finite identities) is needed for the semaphore.

Two invariants more are about what a call leaves behind. `AuditInv` proves `AuditIsTruthful` and `AuditIsComplete`: a change that is made waits in
`made[u]` until its identity records it (`Waiting`), every change waiting or shown was made (`Backed`), and every change made waits or is shown, or there is an
error of its account (`Told`). `ReportInv` proves `NobodyUnreported` (`Reported`) and `SettledIsLeftAlone` (`LeavesAlone`): it says for each place of
a turn what the account is like by then (`ADStands`, `IRStands`, `LDStands`), which is what the driver did or found nothing to do for on the way. What a step
of one identity may do to either is said once (`Tells`, `Minds`), shown action by action, and carried to the others, whose
accounts are not written unless they share the name.

`Lifecycle_proofs` proves for any number of workers, handlers and timers `Invariance` and `TypeCorrect` (`TypeOK`). The strengthening
`StartFits` says how far `Manager.Start` is: the queue is closed only after the signal, and nothing was launched before "launching" ended.

`Dovecot_proofs` proves for any finite sets of users and mailboxes (`FinitelyMany`, for the semaphores), any patterns, ACLs and
attributes, any failures and a cancellation anywhere `TypeCorrect` (`TypeOK`), `AccessKept` (`KeepsAccess`), `ChangesWereMade`
(`AuditTruthful`) and `ContractImplemented` (`ImplementsContract`). `KeepsAccess` is about single steps and needs to know what the steps
rely on: that what is desired of a user is what its identity asks for, unless a pattern was not expanded or the first phase
was left (`Prepared`), and that the entry of anyone goes only after those that had their rights through it have entries of their own
(`Wanted`). `AuditTruthful` needs `Written`, what of a diff is already on the server, and `RecordedLast`, that nobody writes a
mailbox whose changes are recorded. `SyncSettles` (`Settled`) needs `SettleInv`: an identity that was listed saw every mailbox with an
entry of its own that lets it look (`Listed`), a mailbox on which something is desired or that was seen has a goroutine (`Reached`), and what such a
goroutine has not brought about is still to be written or has failed (`Left`), or is `Overridden`.

`Inputs_proofs` proves for any files, manifests, edits, failed reads and restarts, any pages, ids and services, and any directories
`TypeCorrect` (`TypeOK`), `DeclaredKept` (`KeepsDeclared`), `NobodyIsOverlooked` (`NobodyOverlooked`), `GroupsAreFetched` (`GroupsFollow`) and
`NestingResolved` (`NestedGroups`). The invariant has a disjunct for each part.

* *Store.* `Seen` follows the ticker through the directory: a manifest in a file that was there all the time is among the entries still to be
  read or among those found. The types say besides that a reader holds no more manifests than it opened files.
* *Authentik.* An identity that is due is on a page that is to come, or excused (`UsersDue`, `GroupsDue`). Two facts about pages carry it. How many are
  before an id only grows, except by a removal before it, so it is not moved to a page that has been read (`BeforeGrows`); and the counts of the
  ids of a list have no gaps (`NoGaps`), so that when there is no next page every id has been on one (`PagesEnd`).
  In a partial fetch an id that is due is still to be retrieved, or the log has it.
* *LDAP.* What was returned is one of the results of `resolveParents` on the groups that were found, whatever the maps did (`LDInv`). A group gets a
  parent that has it as a member, and the first member that is a group gets the parent under the one key that `nameToKey` has for its name.

`Pipeline_proofs` proves for any targets, identities, groups, manifests and data `TypeCorrect` (`TypeOK`), `HeaviestDecides`
(`HeaviestWins`), `InheritanceIsComplete` (`InheritsReachable`), `IsolatedTargets` (`Isolated`), `OrderIsFree`
and `NothingOnFailure` (`AllOrNothing`). It assumes of its constants what the code's types and
parsers give: lists are lists, and slices that nobody has appended to when the batch begins; weights and ranks are numbers, the groups are
finitely many, a manifest names attributes that there are, and a list parsed from a template is a new one (`SourceAssumption`, `ManifestsAssumption`, `ParsedAssumption`). The
properties are about loops over lists of any length, and the library's induction cannot be cited with an operator of ours, so
the module makes an induction of its own: `UpTo` takes the least counterexample below a number, and from it come `FoldRuns` (a fold
has the values of its loop, place by place), `LoopExists` and `LoopInduction`.

* *Weights.* After each place the fold holds the heaviest group so far that has the attribute, ties to the smaller name
  (`HeaviestFound`).
* *Parents.* Nothing bounds the walk beforehand, as groups may be parents of each other. It ends because each step finds a group that was not found or
  leaves a shorter list (`WalkShrinks`, `WalkEnds`), so the recursive function is defined (`ResolvedIs`); that what it finds has a chain of
  parents, and what has one is found or ahead, is kept by every step (`StaysOnTheWay`).
* *Types.* `IInv` is `Given` (what the batch fetched is unchanged), `Tables` and `Shape`. A transformer keeps the shape of an identity
  (`SanitizedRuns`, `TemplatedRuns`, `DefaultedRuns` and a lemma per action), so one that is at work is never one that was removed.
* *Isolation.* An identity is followed by a run of its own manifest on copies, with nobody else there. `SInv` says that what the pipeline has made of it so far and
  what the run alone may have made by then show the same (`Follows`; `Track` is the run alone, stage by stage, and `Like` what it is to show the
  same): equal fields, and in each attribute the same items, where a list that is full reads its last item from a cell that this identity wrote
  (`WrittenBy`). While an aggregation is under way the two also have the same groups to come and lists with the same items
  (`UnderWay`). A cell holds what one of its writers wrote (`HeapWritten`), so the cells of an identity stay as they are until
  it is `Clobbered` (`HeapStays`), which is the exception of the property and lasts. There is a lemma per action for the target that
  moves (`BuildFollows` to `AdvanceFollows`) and one for all others (`OthersFollow`). A target with the outcome "ok" has nothing left to do
  (`Done`), so what it is given shows the same as one of the results of `Alone` (`AtTheEnd`).
* *Failure.* The two runs also fail alike: a transformer fails on an identity only if it can fail on what that looks like (`ResultsAlike`, `ResultAlone`), and a
  failure stays in the sets of the run alone to its end (`FailedStays`). `FInv` adds to `SInv` what makes "nothing is returned" last: a target that is not built or
  has failed has no identities, so nothing of it is at work and no step gives it any (`Refused`). What makes a failure possible never goes away, since the history of
  the cells only grows (`CanFailStays`). The other half is `AtTheEnd`: what a target with identities was given shows the same as a result that is no failure.
* *Order.* No step matters here; it is about what a run alone can make. Templates all read the snapshot, so in any order the result is the
  identity with each template's field shown, or a failure if one refuses (`FilledInOrder`, `TemplatedIsOne`). An expression is rewritten attribute by attribute. If of the texts it
  can become on the way no two replacements of the identity give different results one after the other (`Orderly`), any attribute of a set may be the last (`LastIsAny`), so all
  orders come to the same text (`OrdersAgree`). That this holds of each
  identity on the way is what `~TangledAlone` says of prefixes of the manifest, and a run of a prefix is the start of a run of all
  (`SanitizedUpTo`, `AloneUpTo`); so by induction over the transformers each set has one member (`StepIsOne`). The theorem is about `OneOutcome`, whose exception is just
  that; `OrderFree` gives a criterion that can be read off the braces of the texts, and that it is enough is a fact about strings which TLC checks on those of the run.

Only model-checked: everything temporal beyond safety (`Converges`, `AcceptedIsHandled`, `ManagerStops`, `SyncEnds`, `FilesAreFollowed`), which
the prover cannot do, and the criterion of `OrderFree`. Every other invariant and every
action property that a passing run checks is a theorem. `SkipIsSound` is proved for one worker and no failing hash, pipeline or Sync only, where it holds.

## 6. Plan

Done: 1. `Reconciler` with `TargetLock`; 2. `Webhook`; 3. `Lifecycle`; 4. `Dovecot`; 5. `SyncContract` and the account
operators with the audit; 6. `Transformers` and `Pipeline`; 7. the contract of `Operators` proved; 8. `AuthentikSource`, `LDAPSource` and `Store`
under `Inputs`;
`Lifecycle`, `Dovecot` and the reload of `Store` proved; 9. the safety properties of the passing runs proved. Left:

10. The loader of plugins and the pool of connections of their SQL library, which waits for a connection without a limit when
    a script leaves a transaction open; the README of Lexicore calls plugins "not yet ready" (line 15).

## 7. Not modelled

Parsing and validation of manifests and of the rules of transformers, the language of templates and their functions,
regular expressions, values of attributes that are maps, HTTP views, mail and export of audits, the Starlark
plugins and their libraries, the command-line client, git transport, TLS and authentication: sequential
glue or I/O, with no state the properties above tell apart.
