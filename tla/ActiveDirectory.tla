---------------------------- MODULE ActiveDirectory ----------------------------
(***************************************************************************)
(* Sync and PartialSync of the Active Directory operator (drivers/ad).     *)
(* With a concurrency of 1 every call goes over the connection made when   *)
(* the operator was initialised; otherwise each identity dials its own.    *)
(* No call takes the context, so nothing but a lost connection stops it.   *)
(***************************************************************************)
EXTENDS DriverSync

ADInit ==
  /\ driver = "ad" /\ phase = "work" /\ Init

\* syncIdentity works with the entry it read first: what differs from it is done.
ADGroupsLeft_NoneIsEmpty(u, a) ==
  IF want[u].groups = None THEN a.groups
  ELSE (want[u].groups \ a.groups) \cup (a.groups \ want[u].groups)
ADGroupsLeft(u, a) ==
  IF want[u].groups = None THEN {}
  ELSE (want[u].groups \ a.groups) \cup (a.groups \ want[u].groups)
ADStages(u, a) ==
  {s \in {"switch", "modify", "move", "groups"} :
     CASE s = "switch" -> Off(u) = a.active
       [] s = "modify" -> ~Off(u) /\ want[u].value \notin {None, a.value}
       [] s = "move"   -> ~Off(u) /\ want[u].home # a.home
       [] s = "groups" -> ~Off(u) /\ ADGroupsLeft(u, a) # {}}
ADPlace(u, a, passed) ==
  LET ahead == ADStages(u, a) \ passed
  IN IF "switch" \in ahead THEN "switch"
     ELSE IF "modify" \in ahead THEN "modify"
     ELSE IF "move" \in ahead THEN "move"
     ELSE IF "groups" \in ahead THEN "groups" ELSE "done"

\* The identity is given up before its account was read.
ADGiveUp(u) == Go(u, "done") /\ UNCHANGED <<accounts, applied, seen, left, made>>

ADSearch(u) ==
  /\ phase = "work" /\ at[u] = "new" /\ Free
  /\ \/ /\ concurrency > 1 /\ Fault                 \* getConnection fails: only logged
        /\ logged' = logged \cup {u} /\ UNCHANGED entries
        /\ ADGiveUp(u)
     \/ /\ want[u].home = None                      \* getUserBaseDN
        /\ logged' = logged \cup {u} /\ UNCHANGED <<entries, faults>>
        /\ ADGiveUp(u)
     \/ /\ want[u].home # None
        /\ Fault \/ (~down /\ accounts[name[u]] = Missing /\ UNCHANGED faults)
        /\ RecordError(u, "SKIP")
        /\ ADGiveUp(u) /\ UNCHANGED logged
     \/ /\ want[u].home # None /\ ~down /\ accounts[name[u]] # Missing
        /\ RecordError(u, "UPDATE")                   \* a userAccountControl that is no number
        /\ ADGiveUp(u) /\ UNCHANGED <<faults, logged>>
     \/ /\ want[u].home # None /\ ~down /\ accounts[name[u]] # Missing
        /\ seen' = [seen EXCEPT ![u] = accounts[name[u]]]
        /\ left' = [left EXCEPT ![u] = ADGroupsLeft(u, accounts[name[u]])]
        /\ Go(u, ADPlace(u, accounts[name[u]], {}))
        /\ UNCHANGED <<accounts, made, entries, faults, history>>
  /\ UNCHANGED <<input, phase, listed, outcome, down>>

\* enableUser and disableUser: an error ends the identity.
ADSwitch(u) ==
  LET account == [accounts[name[u]] EXCEPT !.active = ~Off(u)] IN
  /\ at[u] = "switch"
  /\ \/ /\ IF dryRun THEN UNCHANGED <<accounts, applied, faults>>
           ELSE Written(u, {"active"}, account)
        /\ Record(u, "UPDATE", {"active"})
        /\ Go(u, ADPlace(u, seen[u], {"switch"}))
     \/ /\ ~dryRun /\ Refused(u, {"active"}, account)
        /\ RecordError(u, "UPDATE")
        /\ Go(u, "done")
  /\ UNCHANGED <<input, phase, listed, outcome, seen, left, made, down, logged>>

\* updateUser: its changes are recorded when both of its calls succeed, and
\* the memberships follow whether it succeeds or not.
ADModify(u) ==
  LET account == [accounts[name[u]] EXCEPT !.value = want[u].value]
      place   == ADPlace(u, seen[u], {"switch", "modify"}) IN
  /\ at[u] = "modify"
  /\ \/ /\ IF dryRun THEN UNCHANGED <<accounts, applied, faults>>
           ELSE Written(u, {"value"}, account)
        /\ IF place = "move"
           THEN made' = [made EXCEPT ![u] = {"value"}] /\ UNCHANGED entries
           ELSE Record(u, "UPDATE", {"value"}) /\ UNCHANGED made
        /\ Go(u, place)
     \/ /\ ~dryRun /\ Refused(u, {"value"}, account)
        /\ RecordError(u, "UPDATE") /\ UNCHANGED made
        /\ Go(u, ADPlace(u, seen[u], {"switch", "modify", "move"}))
  /\ UNCHANGED <<input, phase, listed, outcome, seen, left, down, logged>>

ADMove(u) ==
  LET account == [accounts[name[u]] EXCEPT !.home = want[u].home] IN
  /\ at[u] = "move"
  /\ \/ /\ IF dryRun THEN UNCHANGED <<accounts, applied, faults>>
           ELSE Written(u, {"home"}, account)
        /\ Record(u, "UPDATE", made[u] \cup {"home"})
        /\ seen' = [seen EXCEPT ![u].home = want[u].home]   \* newDN
     \/ /\ ~dryRun /\ Refused(u, {"home"}, account)
        /\ RecordError(u, "UPDATE") /\ UNCHANGED seen
  /\ made' = [made EXCEPT ![u] = {}]
  /\ Go(u, ADPlace(u, seen[u], {"switch", "modify", "move"}))
  /\ UNCHANGED <<input, phase, listed, outcome, left, down, logged>>

\* syncGroups: memberships are added before others are removed; the first error
\* ends it, and what was changed until then is not recorded.  The groups refuse a
\* member by a DN that is not the user's any more, after a move that was taken
\* for failed.
ADTurn(u) ==
  LET adds == left[u] \ seen[u].groups IN IF adds # {} THEN adds ELSE left[u]
Toggled(u, g) ==
  [accounts[name[u]] EXCEPT !.groups = IF g \in left[u] \ seen[u].groups THEN @ \cup {g} ELSE @ \ {g}]
Resolves(u) == seen[u].home = accounts[name[u]].home

ADGroupsFail_Recorded(u, g) == Record(u, "UPDATE", made[u] \cup {g})
ADGroupsFail(u, g) == RecordError(u, "UPDATE")

ADGroups(u) ==
  /\ at[u] = "groups"
  /\ \E g \in ADTurn(u) :
     \/ /\ IF dryRun THEN UNCHANGED <<accounts, applied, faults>>
           ELSE Resolves(u) /\ Written(u, {g}, Toggled(u, g))
        /\ left' = [left EXCEPT ![u] = @ \ {g}]
        /\ IF left[u] = {g}
           THEN /\ Record(u, "UPDATE", made[u] \cup {g}) /\ Go(u, "done")
                /\ made' = [made EXCEPT ![u] = {}]
           ELSE /\ made' = [made EXCEPT ![u] = @ \cup {g}]
                /\ UNCHANGED <<at, entries>>
     \/ /\ ~dryRun
        /\ \/ Resolves(u) /\ Refused(u, {g}, Toggled(u, g))
           \/ ~Resolves(u) /\ UNCHANGED <<accounts, applied, faults>>
        /\ ADGroupsFail(u, g) /\ Go(u, "done")
        /\ left' = [left EXCEPT ![u] = {}] /\ made' = [made EXCEPT ![u] = {}]
  /\ UNCHANGED <<input, phase, listed, outcome, seen, down, logged>>

\* Sync waits for every identity and reports no error of its own.
ADFinish ==
  /\ phase = "work" /\ AllDone
  /\ phase' = "done" /\ outcome' = "ok"
  /\ UNCHANGED <<input, accounts, listed, turn, entries, down, faults, history>>

ADNext ==
  \/ ADFinish
  \/ \E u \in Uids : ADSearch(u) \/ ADSwitch(u) \/ ADModify(u) \/ ADMove(u) \/ ADGroups(u)

\* The account is what the identity says; an attribute it does not have is left alone.
ADAgrees(u) ==
  LET a == accounts[name[u]]  w == want[u] IN
  /\ a # Missing
  /\ a.active = ~Off(u)
  /\ ~Off(u) => /\ w.value \in {None, a.value}
                /\ w.groups \in {None, a.groups}
                /\ w.home = a.home
===============================================================================
