------------------------------ MODULE DriverSync ------------------------------
(***************************************************************************)
(* What the Active Directory, iRedAdmin and LDAP operators share in one    *)
(* call of Sync or PartialSync: the SyncState they are handed, a goroutine *)
(* or a turn per identity, the accounts of the service, and the SyncResult *)
(* (operator/audit.go).  The drivers' modules extend this one.             *)
(*                                                                         *)
(* A step ends at a call of the service.  A call may fail, a failed write  *)
(* with or without effect, and a failure may be for good: a context that   *)
(* is cancelled or a connection that is lost.  The name of an identity     *)
(* stands for whatever the driver finds its account by.                    *)
(***************************************************************************)
EXTENDS Naturals, FiniteSets

CONSTANTS
  Uids, Names,
  Values,       \* values of an attribute the operator manages
  Groups,       \* groups or mailing lists
  Homes,        \* organisational units
  None,         \* an attribute that is not there
  Missing,      \* an account that is not there
  Wants,        \* the identities to consider
  Starts,       \* the accounts to start from
  MaxFaults     \* bound: calls that fail while nothing is lost for good

Account  == [active : BOOLEAN, value : {None} \cup Values, groups : SUBSET Groups, home : Homes]
Identity == [off : {"no", "identity", "attribute"},   \* Disabled, or the attribute "disabled"
             value : {None} \cup Values, groups : {None} \cup SUBSET Groups,
             home : {None} \cup Homes, email : BOOLEAN,
             status : {"none", "true", "false"}]      \* the attribute "accountStatus"

ASSUME DriverNames ==
  /\ None \notin Values \cup Homes /\ \A G \in SUBSET Groups : G # None
  /\ Missing \notin Account
  /\ Groups \cap {"active", "value", "home"} = {}
ASSUME DriverInput == Wants \subseteq Identity /\ Starts \subseteq {Missing} \cup Account
ASSUME FinitelyMany == IsFiniteSet(Uids)
ASSUME FaultBound == MaxFaults \in Nat

\* A Change names the attribute, or the group of a membership.
Change == {"active", "value", "home"} \cup Groups
Entry  == [name : Names, uid : Uids, action : {"UPDATE", "SKIP"}, error : BOOLEAN,
           changes : SUBSET Change]

VARIABLES
  driver, partial, dryRun, concurrency,   \* the operator, its configuration and the call
  name, want,   \* the identities by uid
  accounts,     \* the service
  phase,        \* "login", "list", "work" or "done"
  listed,       \* existingUsers
  outcome,      \* what the call returned: "none", "ok" or "error"
  at,           \* where the goroutine or the turn of an identity is
  seen,         \* its account as it was last read
  left,         \* memberships still to change
  made,         \* changes not recorded yet
  entries,      \* SyncResult.entries
  down, faults, \* every call fails from now on; the faults so far
  applied, logged   \* history: changes made; identities given up with a line in the log, not an error

input   == <<driver, partial, dryRun, concurrency, name, want>>
turn    == <<at, seen, left, made>>
history == <<applied, logged>>
vars    == <<input, accounts, phase, listed, outcome, turn, entries, down, faults, history>>

Busy_Leaked == {u \in Uids : at[u] # "new"}
Busy == {u \in Uids : at[u] \notin {"new", "done"}}

\* sem: a goroutine gets to work when the semaphore has a place left.
Free_OffByOne == Cardinality(Busy) <= concurrency
Free == Cardinality(Busy) < concurrency

\* Every variable keeps its type, and no more identities are at work than allowed.
TypeOK ==
  /\ driver \in {"ad", "iredadmin", "ldap"} /\ partial \in BOOLEAN /\ dryRun \in BOOLEAN
  /\ concurrency \in Nat \ {0}
  /\ name \in [Uids -> Names] /\ want \in [Uids -> Identity]
  /\ accounts \in [Names -> {Missing} \cup Account]
  /\ phase \in {"login", "list", "work", "done"} /\ listed \subseteq Names
  /\ outcome \in {"none", "ok", "error"}
  /\ at \in [Uids -> {"new", "switch", "get", "modify", "move", "groups", "done"}]
  /\ seen \in [Uids -> {Missing} \cup Account]
  /\ left \in [Uids -> SUBSET Groups] /\ made \in [Uids -> SUBSET Change]
  /\ entries \subseteq Entry
  /\ down \in BOOLEAN /\ faults \in 0..MaxFaults
  /\ applied \subseteq Names \X Change /\ logged \subseteq Uids
  /\ Cardinality(Busy) <= concurrency

Init ==
  /\ name \in [Uids -> Names] /\ want \in [Uids -> Wants]
  /\ accounts \in [Names -> Starts]
  /\ listed = {} /\ outcome = "none"
  /\ at = [u \in Uids |-> "new"] /\ seen = [u \in Uids |-> Missing]
  /\ left = [u \in Uids |-> {}] /\ made = [u \in Uids |-> {}]
  /\ entries = {} /\ down = FALSE /\ faults = 0
  /\ applied = {} /\ logged = {}

-----------------------------------------------------------------------------
\* A call of the service fails.
Fault == \/ faults < MaxFaults /\ faults' = faults + 1
         \/ down /\ UNCHANGED faults

\* The context is cancelled, the one connection is lost, or the service is.
Break ==
  /\ ~down /\ phase # "done"
  /\ down' = TRUE
  /\ UNCHANGED <<input, accounts, phase, listed, outcome, turn, entries, faults, history>>

\* append: an entry without an error is merged into the one of the same name and
\* action, whoever recorded that; an entry with an error stays by itself.
Same(e) == {f \in entries : f.name = e.name /\ f.action = e.action /\ ~f.error}
Appended_Replaced(e) ==
  IF e.error \/ Same(e) = {} THEN entries \cup {e}
  ELSE {IF f \in Same(e) THEN [f EXCEPT !.changes = e.changes] ELSE f : f \in entries}
Appended_ErrorsMerged(e) ==
  IF Same(e) = {} THEN entries \cup {e}
  ELSE {IF f \in Same(e) THEN [f EXCEPT !.changes = @ \cup e.changes] ELSE f : f \in entries}
Appended(e) ==
  IF e.error \/ Same(e) = {} THEN entries \cup {e}
  ELSE {IF f \in Same(e) THEN [f EXCEPT !.changes = @ \cup e.changes] ELSE f : f \in entries}

EntryOf(u, action, error, changes) ==
  [name |-> name[u], uid |-> u, action |-> action, error |-> error, changes |-> changes]
Record(u, action, changes) == entries' = Appended(EntryOf(u, action, FALSE, changes))
RecordError(u, action) == entries' = Appended(EntryOf(u, action, TRUE, {}))

\* A write of u's account that the service carries out, and one that it refuses or
\* of which only the answer is lost.
Written(u, changes, account) ==
  /\ ~down
  /\ accounts' = [accounts EXCEPT ![name[u]] = account]
  /\ applied' = applied \cup {<<name[u], c>> : c \in changes}
  /\ UNCHANGED faults
Refused(u, changes, account) ==
  /\ Fault
  /\ \/ UNCHANGED <<accounts, applied>>
     \/ /\ ~down
        /\ accounts' = [accounts EXCEPT ![name[u]] = account]
        /\ applied' = applied \cup {<<name[u], c>> : c \in changes}

\* The turn of u goes on at another place, or ends.
Go(u, place) == at' = [at EXCEPT ![u] = place]

\* wg.Wait, or the end of the loop.
AllDone_Started == \A u \in Uids : at[u] # "new"
AllDone == \A u \in Uids : at[u] = "done"

Off(u) == want[u].off # "no"

\* audit_report.go: a report is made of a call that succeeded with an UPDATE entry,
\* be it an error.
ReportDue == outcome = "ok" /\ \E e \in entries : e.action = "UPDATE"
===============================================================================
