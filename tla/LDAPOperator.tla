----------------------------- MODULE LDAPOperator ------------------------------
(***************************************************************************)
(* Sync and PartialSync of the LDAP operator (drivers/ldap): one           *)
(* connection, one identity after the other in the order of a map.         *)
(***************************************************************************)
EXTENDS DriverSync

LDInit ==
  /\ driver = "ldap" /\ phase = "login" /\ concurrency = 1 /\ Init

\* Connect, in a dry run too.
LDConnect ==
  /\ phase = "login"
  /\ \/ ~down /\ phase' = "work" /\ UNCHANGED <<outcome, faults>>
     \/ Fault /\ phase' = "done" /\ outcome' = "error"
  /\ UNCHANGED <<input, accounts, listed, turn, entries, down, history>>

\* An entry that cannot be found ends the call; the identities after it are left.
LDSearch(u) ==
  /\ phase = "work" /\ at[u] = "new" /\ Free
  /\ \/ /\ dryRun /\ Go(u, "done") /\ UNCHANGED <<phase, outcome, faults>>
     \/ /\ ~dryRun /\ ~down /\ accounts[name[u]] # Missing
        /\ Go(u, IF want[u].value = None THEN "done" ELSE "modify")
        /\ UNCHANGED <<phase, outcome, faults>>
     \/ /\ ~dryRun
        /\ Fault \/ (~down /\ accounts[name[u]] = Missing /\ UNCHANGED faults)
        /\ phase' = "done" /\ outcome' = "error" /\ UNCHANGED at
  /\ UNCHANGED <<input, accounts, listed, seen, left, made, entries, down, history>>

\* updateEntry replaces every attribute, be it the same.
LDUpdate(u) ==
  LET account == [accounts[name[u]] EXCEPT !.value = want[u].value] IN
  /\ phase = "work" /\ at[u] = "modify"
  /\ \/ Written(u, {"value"}, account) /\ Record(u, "UPDATE", {"value"})
     \/ Refused(u, {"value"}, account) /\ RecordError(u, "UPDATE")
  /\ Go(u, "done")
  /\ UNCHANGED <<input, phase, listed, outcome, seen, left, made, down, logged>>

LDFinish ==
  /\ phase = "work" /\ AllDone
  /\ phase' = "done" /\ outcome' = "ok"
  /\ UNCHANGED <<input, accounts, listed, turn, entries, down, faults, history>>

LDNext ==
  LDConnect \/ LDFinish \/ \E u \in Uids : LDSearch(u) \/ LDUpdate(u)

\* The entry has the attributes of the identity; nothing else is looked at.
LDAgrees(u) ==
  accounts[name[u]] # Missing /\ want[u].value \in {None, accounts[name[u]].value}
===============================================================================
