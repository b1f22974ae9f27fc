------------------------------- MODULE Operators -------------------------------
(***************************************************************************)
(* One call of Sync or PartialSync through the interface Operator, for the *)
(* operators that write accounts: what the Manager gets back, what the     *)
(* service is left with, and what the audit says of it.                    *)
(***************************************************************************)
EXTENDS ActiveDirectory, IRedAdmin, LDAPOperator

CONSTANT MaxConcurrency   \* bound: the largest "concurrency" considered
ASSUME ConcurrencyBound == MaxConcurrency \in Nat \ {0}

OpInit ==
  /\ partial \in BOOLEAN /\ dryRun \in BOOLEAN /\ concurrency \in 1..MaxConcurrency
  /\ ADInit \/ IRInit \/ LDInit

Sync ==
  \/ driver = "ad" /\ ADNext
  \/ driver = "iredadmin" /\ IRNext
  \/ driver = "ldap" /\ LDNext

OpNext == Sync \/ Break
OpSpec == OpInit /\ [][OpNext]_vars

\* The goroutines run.  The client of iRedAdmin has a timeout (iredadmin/operator.go:72)
\* and its calls take the context, so each is answered or fails; those of the other
\* two may wait for an answer for ever.
OpFairSpec == OpSpec /\ WF_vars(driver = "iredadmin" /\ IRNext)

Agrees(u) ==
  CASE driver = "ad" -> ADAgrees(u)
    [] driver = "iredadmin" -> IRAgrees(u)
    [] driver = "ldap" -> LDAgrees(u)

\* No other identity has the same name.
Alone(u) == \A v \in Uids \ {u} : name[v] # name[u]

-----------------------------------------------------------------------------
\* A Sync that returned no error leaves no identity in the dark: its account is
\* what it says, or the audit holds an error of it.  The exceptions are those that
\* the code gives up with a line in the log instead (logged), identities that share
\* a name and undo each other's changes, and two of iRedAdmin of which the code
\* says nothing at all: one without an email in a full Sync (sync.go:35-37), and one
\* that a cancelled call no longer submits and returns Ok (sync.go:39-47).
Reported ==
  outcome = "ok" /\ ~dryRun =>
    \A u \in Uids : Alone(u) =>
      \/ Agrees(u) \/ u \in logged
      \/ \E e \in entries : e.uid = u /\ e.error
      \/ driver = "iredadmin" /\ (Mailless(u) \/ Unsubmitted(u))

\* A change that the audit shows was made, whatever failed after it, but for a
\* dry run and for the mailing lists of iRedAdmin, whose failures are only logged
\* (http.go:169-178).
AuditTruthful ==
  \A e \in entries : \A c \in e.changes :
    \/ dryRun \/ <<e.name, c>> \in applied
    \/ driver = "iredadmin" /\ c \in Groups /\ \E u \in logged : name[u] = e.name

\* When Sync returned no error, a change that was made is in the audit or an error
\* of its account is, and a report is due.
AuditComplete ==
  outcome = "ok" =>
    \A a \in applied :
      /\ ReportDue
      /\ \E e \in entries : e.name = a[1] /\ e.action = "UPDATE" /\ (e.error \/ a[2] \in e.changes)

\* An account that is what its identity says is left alone to the end of the call,
\* but for iRedAdmin's users with a status of "false", which Sync enables first.
LeavesAlone ==
  [][\A u \in Uids :
       Alone(u) /\ Agrees(u) /\ ~(driver = "iredadmin" /\ want[u].status = "false")
         => accounts'[name[u]] = accounts[name[u]]]_vars

\* The operators keep the contract of the interface: nothing is written in a dry
\* run, the audit only grows, and nothing is at work once the call has returned.
Shown == UNION {{[name |-> e.name, action |-> e.action, error |-> e.error, change |-> c] :
                   c \in e.changes \cup {"entry"}} : e \in entries}
Contract == INSTANCE SyncContract WITH downstream <- accounts, recorded <- Shown
ImplementsContract == Contract!Spec

\* The call of iRedAdmin returns, whatever fails and whoever waits for the semaphore.
SyncEnds == driver = "iredadmin" ~> phase = "done"

-----------------------------------------------------------------------------
(***************************************************************************)
(* The inductive invariant behind ImplementsContract.  Not to write in a   *)
(* dry run or after the return depends on where the identities may be.     *)
(***************************************************************************)
\* Identities are at work only between the login and the return of the call.
PhaseFits ==
  /\ phase = "done" <=> outcome # "none"
  /\ phase \in {"login", "list"} => \A u \in Uids : at[u] = "new"
  /\ phase = "done" /\ driver # "ldap" => Busy = {}

\* An identity at work has an account, and the one that was read where the driver
\* compares with it.
Found ==
  \A u \in Busy :
    /\ accounts[name[u]] # Missing
    /\ driver = "ad" \/ (driver = "iredadmin" /\ at[u] \in {"modify", "groups"}) => seen[u] # Missing
    /\ driver = "ad" => want[u].home # None
    /\ driver = "ldap" => ~dryRun

IInv == TypeOK /\ PhaseFits /\ Found
===============================================================================
