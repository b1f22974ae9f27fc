------------------------------- MODULE Dovecot --------------------------------
(***************************************************************************)
(* One Sync of the Dovecot operator (drivers/dovecot).  A first phase runs *)
(* a goroutine per identity: it expands the ACL patterns of the identity,  *)
(* adds what the identity should have to the desired ACLs and lists the    *)
(* mailboxes it sees today.  When all have ended, a second phase runs a    *)
(* goroutine per mailbox: it reads the ACL of the mailbox, sets what       *)
(* differs and then removes what nobody wants.                             *)
(*                                                                         *)
(* A step ends at a doveadm call.  A call may fail, and the context may    *)
(* be cancelled; both phases then stop starting goroutines.  usernames     *)
(* stand for uids, and every ACL entry is of the operator's own domain.    *)
(***************************************************************************)
EXTENDS Naturals, FiniteSets, Sequences

CONSTANTS
  Users,        \* user names that have an identity or an ACL entry
  Mailboxes,    \* shared mailboxes, "folder/path"
  Patterns,     \* "folder/pattern" keys with a wildcard
  Matches,      \* the mailboxes that doveadm lists for each pattern
  Rights,
  Lookup,       \* the right without which a mailbox is not listed
  Anyone, None,
  Attributes,   \* the values of the attribute "acls" to consider
  InitialACLs,  \* the ACLs of the mailboxes to start from
  DefaultAcls,
  Configs,      \* the configurations to consider: removeAnyone, concurrency, and dryRun of the target
  MaxFaults     \* bound: doveadm calls that fail

Keys    == Mailboxes \cup Patterns
Entries == Users \cup {Anyone}
Granted == (SUBSET Rights) \cup {None}      \* None: no entry at all

ASSUME DovecotNames == None \notin SUBSET Rights /\ Anyone \notin Users
ASSUME FinitelyMany == IsFiniteSet(Users) /\ IsFiniteSet(Mailboxes)
ASSUME DovecotConfig ==
  /\ Matches \in [Patterns -> SUBSET Mailboxes] /\ Patterns \cap Mailboxes = {}
  /\ Lookup \in Rights /\ DefaultAcls \subseteq Rights
  /\ Configs \subseteq [removeAnyone : BOOLEAN, dryRun : BOOLEAN, concurrency : Nat \ {0}]
  /\ MaxFaults \in Nat
  /\ Attributes \subseteq Seq([key : Keys, rights : SUBSET Rights])
  /\ InitialACLs \subseteq [Mailboxes -> [Entries -> Granted]]

VARIABLES
  config, identities, disabled, attribute,   \* the SyncState and its identities
  acl,            \* the downstream: the ACL of each mailbox
  phase,          \* "identities", "apply" or "done"
  outcome,        \* what Sync returned: "none", "ok" or "error"
  user,           \* goroutine of an identity: "new", "list" or "done"
  cache,          \* expansionCache
  desired,        \* mailboxDesiredACLs
  allMailboxes,
  affected,       \* usersAffectedByMailbox
  disabledUsers,
  box,            \* goroutine of a mailbox, with its diff
  errors,         \* users with a recorded error
  changes,        \* recorded changes: user and mailbox
  cancelled, faults,
  lost, unread    \* history: users and mailboxes with an error only logged

input  == <<config, identities, disabled, attribute>>
shared == <<cache, desired, allMailboxes, affected, disabledUsers>>
audit  == <<errors, changes, lost, unread>>
vars   == <<input, acl, phase, outcome, user, shared, box, audit, cancelled, faults>>

Idle == [at |-> "none", set |-> {}, remove |-> {}, diff |-> {}, failed |-> {}]
Box  == [at : {"none", "new", "apply", "done"}, set : SUBSET Users, remove : SUBSET Entries,
         diff : SUBSET Entries, failed : SUBSET Entries]

Busy_Leaked == {m \in Mailboxes : box[m].at \in {"apply", "done"}}
Busy == {m \in Mailboxes : box[m].at = "apply"}
Listing == {u \in Users : user[u] = "list"}

\* Every variable keeps its type, and no phase exceeds its concurrency.
TypeOK ==
  /\ config \in Configs
  /\ identities \subseteq Users /\ disabled \subseteq Users
  /\ acl \in [Mailboxes -> [Entries -> Granted]]
  /\ phase \in {"identities", "apply", "done"} /\ outcome \in {"none", "ok", "error"}
  /\ user \in [Users -> {"new", "list", "done"}]
  /\ cache \subseteq Patterns /\ allMailboxes \subseteq Mailboxes /\ disabledUsers \subseteq Users
  /\ desired \in [Mailboxes -> [Users -> Granted]]
  /\ affected \in [Mailboxes -> SUBSET Users]
  /\ box \in [Mailboxes -> Box]
  /\ errors \subseteq Entries /\ changes \subseteq Entries \X Mailboxes
  /\ lost \subseteq Users /\ unread \subseteq Mailboxes
  /\ cancelled \in BOOLEAN /\ faults \in 0..MaxFaults
  /\ Cardinality(Busy) <= config.concurrency /\ Cardinality(Listing) <= config.concurrency

Init ==
  /\ config \in Configs
  /\ identities \in SUBSET Users /\ disabled \in SUBSET identities
  /\ attribute \in [Users -> Attributes]
  /\ \A u \in Users \ identities : attribute[u] = <<>>
  /\ acl \in InitialACLs
  /\ phase = "identities" /\ outcome = "none"
  /\ user = [u \in Users |-> IF u \in identities THEN "new" ELSE "done"]
  /\ cache = {} /\ allMailboxes = {} /\ disabledUsers = {}
  /\ desired = [m \in Mailboxes |-> [u \in Users |-> None]]
  /\ affected = [m \in Mailboxes |-> {}]
  /\ box = [m \in Mailboxes |-> Idle]
  /\ errors = {} /\ changes = {} /\ lost = {} /\ unread = {}
  /\ cancelled = FALSE /\ faults = 0

-----------------------------------------------------------------------------
\* A doveadm call fails; every call fails once the context is cancelled.
Fault == \/ faults < MaxFaults /\ faults' = faults + 1
         \/ cancelled /\ UNCHANGED faults

Cancel ==
  /\ ~cancelled /\ phase # "done"
  /\ cancelled' = TRUE
  /\ UNCHANGED <<input, acl, phase, outcome, user, shared, box, audit, faults>>

\* submit: a goroutine runs when the semaphore has a place left.
Free_OffByOne(running) == Cardinality(running) <= config.concurrency
Free(running) == Cardinality(running) < config.concurrency

\* mergeSharedMailAcls: items with the same key are merged, and the default ACLs
\* are added if the first of them names no rights.
ItemsOf(acls, k) == {i \in DOMAIN acls : acls[i].key = k}
KeysOf(acls) == {acls[i].key : i \in DOMAIN acls}
MergedRights(acls, k) ==
  LET first == CHOOSE i \in ItemsOf(acls, k) : \A j \in ItemsOf(acls, k) : i <= j
  IN (UNION {acls[i].rights : i \in ItemsOf(acls, k)})
         \cup IF acls[first].rights = {} THEN DefaultAcls ELSE {}

\* expandACLPatterns: what a key stands for, and the rights that keys give on a
\* mailbox; several keys that reach a mailbox add up.
Expand(k) == IF k \in Patterns THEN Matches[k] ELSE {k}
RightsOn(acls, keys, m) ==
  LET reaching == {k \in keys : m \in Expand(k)}
  IN IF reaching = {} THEN None ELSE UNION {MergedRights(acls, k) : k \in reaching}

\* A disabled identity is granted nothing, whatever its attribute says.
Wishes(u) == IF u \in disabled THEN <<>> ELSE attribute[u]

\* The patterns of an identity are expanded in one step: what they match does not
\* change during a Sync.  The loop goes on after a pattern that could not be
\* expanded; those that could are cached for the other goroutines.
ProcessACLs(u) ==
  LET acls == Wishes(u)
      missing == (KeysOf(acls) \cap Patterns) \ cache
  IN /\ phase = "identities" /\ user[u] = "new" /\ Free(Listing)
     /\ user' = [user EXCEPT ![u] = "list"]
     /\ \E failed \in SUBSET missing :
          LET keys == KeysOf(acls) \ failed
              reached == UNION {Expand(k) : k \in keys}
          IN /\ IF failed = {} THEN UNCHANGED <<faults, lost>> ELSE Fault /\ lost' = lost \cup {u}
             /\ cache' = cache \cup (missing \ failed)
             /\ desired' = [m \in Mailboxes |->
                  [desired[m] EXCEPT ![u] = IF m \in reached THEN RightsOn(acls, keys, m) ELSE @]]
             /\ allMailboxes' = allMailboxes \cup reached
             /\ affected' = [m \in Mailboxes |->
                  IF m \in reached THEN affected[m] \cup {u} ELSE affected[m]]
     /\ UNCHANGED <<input, acl, phase, outcome, disabledUsers, box, errors, changes, unread,
                    cancelled>>

\* The server lists a mailbox to those who have the right to look it up; an entry
\* of a user overrides the one of anyone.
Sees(u, m) == LET entry == IF acl[m][u] # None THEN acl[m][u] ELSE acl[m][Anyone]
              IN entry # None /\ Lookup \in entry

ListMailboxes(u) ==
  /\ phase = "identities" /\ user[u] = "list"
  /\ user' = [user EXCEPT ![u] = "done"]
  /\ \/ LET seen == {m \in Mailboxes : Sees(u, m)}
        IN /\ allMailboxes' = allMailboxes \cup seen
           /\ affected' = [m \in Mailboxes |->
                IF m \in seen THEN affected[m] \cup {u} ELSE affected[m]]
           /\ disabledUsers' = IF u \in disabled /\ seen # {} THEN disabledUsers \cup {u}
                               ELSE disabledUsers
           /\ UNCHANGED <<errors, faults>>
     \/ /\ Fault
        /\ errors' = errors \cup {u}
        /\ UNCHANGED <<allMailboxes, affected, disabledUsers>>
  /\ UNCHANGED <<input, acl, phase, outcome, cache, desired, box, changes, lost, unread,
                 cancelled>>

\* Cancelled before it was submitted, or while it waited for the semaphore.
AbandonIdentity(u) ==
  /\ phase = "identities" /\ user[u] = "new" /\ cancelled
  /\ user' = [user EXCEPT ![u] = "done"]
  /\ UNCHANGED <<input, acl, phase, outcome, shared, box, audit, cancelled, faults>>

\* waitErr: the second phase starts only if no goroutine was left out.
Complete == ~cancelled

EndIdentities ==
  /\ phase = "identities" /\ \A u \in Users : user[u] = "done"
  /\ IF Complete
       THEN /\ phase' = "apply" /\ UNCHANGED outcome
            /\ box' = [m \in Mailboxes |-> IF m \in allMailboxes THEN [Idle EXCEPT !.at = "new"]
                                           ELSE Idle]
       ELSE phase' = "done" /\ outcome' = "error" /\ UNCHANGED box
  /\ UNCHANGED <<input, acl, user, shared, audit, cancelled, faults>>

-----------------------------------------------------------------------------
\* calculateDiff.  The desired ACL of a user is None if nothing is desired.
DesiredFor(m, u) == IF u \in disabledUsers THEN None ELSE desired[m][u]
RightsOf(g) == IF g = None THEN {} ELSE g
Effective(m, u) ==
  RightsOf(acl[m][u]) \cup IF config.removeAnyone THEN {} ELSE RightsOf(acl[m][Anyone])

ToSet_MissingOnly(m) ==
  {u \in Users : DesiredFor(m, u) # None /\ ~(DesiredFor(m, u) \subseteq Effective(m, u))}
ToSet(m) == {u \in Users : DesiredFor(m, u) # None /\ DesiredFor(m, u) # Effective(m, u)}

ToRemove(m) ==
  {u \in Users : acl[m][u] # None /\ DesiredFor(m, u) = None}
    \cup {e \in {Anyone} : config.removeAnyone /\ RightsOf(acl[m][Anyone]) # {}}

\* A change is shown only if the old rights or the new ones are not empty.
Shown(m) ==
  {u \in ToSet(m) : Effective(m, u) \cup DesiredFor(m, u) # {}}
    \cup {e \in ToRemove(m) : RightsOf(acl[m][e]) \cup RightsOf(acl[m][Anyone]) # {}}

\* The error of getMailboxACLs is logged and not recorded.
ReadACL(m) ==
  /\ box[m].at = "new" /\ Free(Busy)
  /\ \/ /\ box' = [box EXCEPT ![m] =
             [at |-> IF ToSet(m) \cup ToRemove(m) = {} THEN "done" ELSE "apply",
              set |-> ToSet(m), remove |-> ToRemove(m), diff |-> Shown(m), failed |-> {}]]
        /\ UNCHANGED <<faults, unread>>
     \/ /\ Fault
        /\ box' = [box EXCEPT ![m].at = "done"]
        /\ unread' = unread \cup {m}
  /\ UNCHANGED <<input, acl, phase, outcome, user, shared, errors, changes, lost, cancelled>>

AbandonMailbox(m) ==
  /\ box[m].at = "new" /\ cancelled
  /\ box' = [box EXCEPT ![m].at = "done"]
  /\ UNCHANGED <<input, acl, phase, outcome, user, shared, audit, cancelled, faults>>

\* setMailboxACL or deleteMailboxACL, which a dry run leaves out; a failed call
\* may have reached the server, and does not end the loop it is in.
Write(m, e, granted, rest) ==
  \/ /\ acl' = IF config.dryRun THEN acl ELSE [acl EXCEPT ![m][e] = granted]
     /\ box' = [box EXCEPT ![m] = rest]
     /\ UNCHANGED faults
  \/ /\ ~config.dryRun /\ Fault
     /\ box' = [box EXCEPT ![m] = [rest EXCEPT !.failed = @ \cup {e}]]
     /\ acl' \in {acl, [acl EXCEPT ![m][e] = granted]}

ApplySet(m, u) ==
  /\ box[m].at = "apply" /\ u \in box[m].set
  /\ Write(m, u, DesiredFor(m, u), [box[m] EXCEPT !.set = @ \ {u}])
  /\ UNCHANGED <<input, phase, outcome, user, shared, audit, cancelled>>

\* All rights are set before any are removed.
Turn_Any(m) == TRUE
Turn(m) == box[m].set = {}

ApplyRemove(m, e) ==
  /\ box[m].at = "apply" /\ e \in box[m].remove /\ Turn(m)
  /\ Write(m, e, None, [box[m] EXCEPT !.remove = @ \ {e}])
  /\ UNCHANGED <<input, phase, outcome, user, shared, audit, cancelled>>

\* One failed call on the mailbox, and no change of it is recorded at all.
Succeeded_Ignored(m) == TRUE
Succeeded(m) == box[m].failed = {}

EndMailbox(m) ==
  /\ box[m].at = "apply" /\ box[m].set = {} /\ box[m].remove = {}
  /\ box' = [box EXCEPT ![m].at = "done"]
  /\ errors' = errors \cup box[m].failed
  /\ changes' = IF Succeeded(m)
                  THEN changes \cup ((box[m].diff \cap ({Anyone} \cup (affected[m] \cap identities)))
                                       \X {m})
                  ELSE changes
  /\ UNCHANGED <<input, acl, phase, outcome, user, shared, lost, unread, cancelled, faults>>

MailboxesDone_Submitted == \A m \in Mailboxes : box[m].at # "new"
MailboxesDone == \A m \in Mailboxes : box[m].at \in {"none", "done"}

Finish ==
  /\ phase = "apply" /\ MailboxesDone
  /\ phase' = "done"
  /\ outcome' = IF cancelled THEN "error" ELSE "ok"
  /\ UNCHANGED <<input, acl, user, shared, box, audit, cancelled, faults>>

-----------------------------------------------------------------------------
Work ==
  \/ \E u \in Users : ProcessACLs(u) \/ ListMailboxes(u) \/ AbandonIdentity(u)
  \/ EndIdentities
  \/ \E m \in Mailboxes : ReadACL(m) \/ AbandonMailbox(m) \/ EndMailbox(m)
  \/ \E m \in Mailboxes, u \in Users : ApplySet(m, u)
  \/ \E m \in Mailboxes, e \in Entries : ApplyRemove(m, e)
  \/ Finish

Next == Work \/ Cancel
Spec == Init /\ [][Next]_vars
FairSpec == Spec /\ WF_vars(Work)

-----------------------------------------------------------------------------
\* What the attribute of an identity asks for on a mailbox, whatever calls fail.
Due(u, m) == IF u \in identities \ disabled
               THEN RightsOn(attribute[u], KeysOf(attribute[u]), m) ELSE None

\* The rights a user has: its own entry overrides the one of anyone.
Has(u, m) == RightsOf(IF acl[m][u] # None THEN acl[m][u] ELSE acl[m][Anyone])

\* No step takes from a user a right that its identity is due and that it has: not
\* by its own entry, nor by removing the entry of anyone before its own is set.
\* The exceptions are the failures that the code goes on after: a pattern it could
\* not expand (helpers.go:24-30), and an aclSet that failed before the removals
\* of the same mailbox (operator.go:97-100).
KeepsAccess ==
  [][\A u \in Users, m \in Mailboxes :
       u \in lost \/ u \in box[m].failed
         \/ RightsOf(Due(u, m)) \cap Has(u, m) \subseteq Has(u, m)']_vars

\* An entry of a user that overrides the one of anyone and has fewer rights.
Overridden(u, m) ==
  /\ ~config.removeAnyone /\ acl[m][u] # None
  /\ ~(RightsOf(acl[m][Anyone]) \subseteq acl[m][u])

\* A Sync that returned no error, recorded none and only logged none has brought the
\* server to what the identities ask for: an identity has the rights it is due, no
\* more and no less, and one that is due nothing on a mailbox, a disabled one
\* included, no longer sees the mailbox by an entry of its own.  The exception is
\* of the code: where anyone's entry stays, it counts the rights of anyone as held
\* by a user whose own entry overrides them, and sets nothing (diff.go:71-80).
Clean == outcome = "ok" /\ errors = {} /\ lost = {} /\ unread = {} /\ ~config.dryRun
Settled ==
  Clean => \A m \in Mailboxes, u \in identities :
    IF Due(u, m) = None
      THEN acl[m][u] = None \/ Lookup \notin acl[m][u]
      ELSE Has(u, m) = Due(u, m) \/ (Overridden(u, m) /\ Effective(m, u) = Due(u, m))

\* A change that the audit shows on a mailbox was made: the server then holds
\* for that user what Sync decided.
AuditTruthful ==
  \A c \in changes : config.dryRun \/
    acl[c[2]][c[1]] = IF c[1] = Anyone THEN None ELSE DesiredFor(c[2], c[1])

\* The operator keeps the contract of the interface: nothing is written in a dry
\* run, the audit only grows, and no goroutine is at work once Sync has returned.
Contract == INSTANCE SyncContract WITH
  dryRun <- config.dryRun, downstream <- acl, recorded <- (changes \cup {<<e, "error">> : e \in errors})
ImplementsContract == Contract!Spec

\* Sync returns: whatever calls fail and whenever it is cancelled, no goroutine
\* waits for a place in the semaphore for ever.
SyncEnds == <>(phase = "done")
=============================================================================
