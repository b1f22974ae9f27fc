------------------------------- MODULE IRedAdmin -------------------------------
(***************************************************************************)
(* Sync and PartialSync of the iRedAdmin operator (drivers/iredadmin).     *)
(* Both log in, Sync then lists the users there are, and a goroutine per   *)
(* identity works with what it reads itself.  Every call waits for the     *)
(* rate limiter with the context, so all of them fail once it is cancelled.*)
(* The goroutine of an identity reads its user twice: before its status is *)
(* switched and before the rest of it is compared.  The audit names a user *)
(* by its mail in the entries of updateUser and by its username in others; *)
(* in the model both are its name.                                         *)
(***************************************************************************)
EXTENDS DriverSync

IRInit ==
  /\ driver = "iredadmin" /\ phase = "login" /\ Init

\* Partial syncs do not look at the attribute "disabled".
IROff(u) == want[u].off = "identity" \/ (want[u].off = "attribute" /\ ~partial)

\* identityToUser: no mailing lists are the same as an empty list of them, and
\* "accountStatus" is the status to set whether the user is enabled or not.
IRLists(u) == IF want[u].groups = None THEN {} ELSE want[u].groups
IRStatus(u, a) == IF want[u].status = "none" THEN a.active ELSE want[u].status = "true"
IRListsLeft(u, a) == (IRLists(u) \ a.groups) \cup (a.groups \ IRLists(u))
IRData(u, a) ==
  {c \in {"active", "value"} :
     IF c = "active" THEN IRStatus(u, a) # a.active ELSE want[u].value \notin {None, a.value}}

IRLogin ==
  /\ phase = "login"
  /\ \/ /\ ~down /\ phase' = IF partial THEN "work" ELSE "list"
        /\ UNCHANGED <<outcome, faults>>
     \/ Fault /\ phase' = "done" /\ outcome' = "error"
  /\ UNCHANGED <<input, accounts, listed, turn, entries, down, history>>

\* getUsers
IRList ==
  /\ phase = "list"
  /\ \/ /\ ~down /\ listed' = {n \in Names : accounts[n] # Missing}
        /\ phase' = "work" /\ UNCHANGED <<outcome, faults>>
     \/ Fault /\ phase' = "done" /\ outcome' = "error" /\ UNCHANGED listed
  /\ UNCHANGED <<input, accounts, turn, entries, down, history>>

\* getUser succeeds; or it fails, or there is no such user.
IRRead(u) == ~down /\ accounts[name[u]] # Missing /\ UNCHANGED faults
IRUnread(u) == Fault \/ (~down /\ accounts[name[u]] = Missing /\ UNCHANGED faults)

\* Sync leaves out an identity without an email, and says so nowhere; PartialSync
\* logs a warning.
Mailless(u) == ~partial /\ ~want[u].email

IRStart(u) ==
  /\ phase = "work" /\ at[u] = "new" /\ Free
  /\ \/ /\ ~want[u].email
        /\ logged' = IF Mailless(u) THEN logged ELSE logged \cup {u}
        /\ Go(u, "done") /\ UNCHANGED <<entries, faults>>
     \/ /\ want[u].email /\ ~partial /\ name[u] \notin listed
        /\ RecordError(u, "SKIP")
        /\ Go(u, "done") /\ UNCHANGED <<faults, logged>>
     \/ /\ want[u].email /\ (partial \/ name[u] \in listed)
        /\ \/ /\ IRUnread(u) /\ RecordError(u, "UPDATE") /\ Go(u, "done")
           \/ /\ IRRead(u) /\ UNCHANGED entries
              /\ Go(u, IF accounts[name[u]].active = IROff(u) THEN "switch"
                       ELSE IF IROff(u) THEN "done" ELSE "get")
        /\ UNCHANGED logged
  /\ UNCHANGED <<input, accounts, phase, listed, outcome, seen, left, made, down, applied>>

\* enableUser and disableUser
IRSwitch(u) ==
  LET account == [accounts[name[u]] EXCEPT !.active = ~IROff(u)] IN
  /\ at[u] = "switch"
  /\ \/ /\ IF dryRun THEN UNCHANGED <<accounts, applied, faults>>
           ELSE Written(u, {"active"}, account)
        /\ Record(u, "UPDATE", {"active"})
        /\ Go(u, IF IROff(u) THEN "done" ELSE "get")
     \/ /\ ~dryRun /\ Refused(u, {"active"}, account)
        /\ RecordError(u, "UPDATE") /\ Go(u, "done")
  /\ UNCHANGED <<input, phase, listed, outcome, seen, left, made, down, logged>>

\* Sync records a user it cannot read again as skipped, without an error.
IRGet(u) ==
  /\ at[u] = "get"
  /\ \/ /\ Fault        \* nobody removes an account during a call
        /\ IF partial THEN RecordError(u, "SKIP") /\ UNCHANGED logged
           ELSE Record(u, "SKIP", {}) /\ logged' = logged \cup {u}
        /\ Go(u, "done") /\ UNCHANGED <<seen, left>>
     \/ /\ IRRead(u)
        /\ seen' = [seen EXCEPT ![u] = accounts[name[u]]]
        /\ left' = [left EXCEPT ![u] = IRListsLeft(u, accounts[name[u]])]
        /\ Go(u, IF IRData(u, accounts[name[u]]) # {} THEN "modify"
                 ELSE IF IRListsLeft(u, accounts[name[u]]) # {} THEN "groups" ELSE "done")
        /\ UNCHANGED <<entries, logged>>
  /\ UNCHANGED <<input, accounts, phase, listed, outcome, made, down, applied>>

\* updateUser: one request for what differs, then one for each mailing list; all
\* of it is recorded at the end.
IREnd(u, changes) ==
  IF left'[u] = {}
    THEN /\ Record(u, "UPDATE", changes) /\ Go(u, "done")
         /\ made' = [made EXCEPT ![u] = {}]
    ELSE /\ made' = [made EXCEPT ![u] = changes] /\ Go(u, "groups")
         /\ UNCHANGED entries

IRModify(u) ==
  LET data == IRData(u, seen[u])
      account == [accounts[name[u]] EXCEPT
        !.active = IF "active" \in data THEN IRStatus(u, seen[u]) ELSE @,
        !.value = IF "value" \in data THEN want[u].value ELSE @] IN
  /\ at[u] = "modify"
  /\ \/ /\ IF dryRun THEN UNCHANGED <<accounts, applied, faults>>
           ELSE Written(u, data, account)
        /\ UNCHANGED left /\ IREnd(u, data)
     \/ /\ ~dryRun /\ Refused(u, data, account)
        /\ RecordError(u, "UPDATE") /\ Go(u, "done")
        /\ left' = [left EXCEPT ![u] = {}] /\ UNCHANGED made
  /\ UNCHANGED <<input, phase, listed, outcome, seen, down, logged>>

\* The lists to subscribe to come first; a request that fails is only logged, and
\* its change is recorded with the others.
IRSubscribe(u) ==
  /\ at[u] = "groups"
  /\ \E g \in IF left[u] \cap IRLists(u) # {} THEN left[u] \cap IRLists(u) ELSE left[u] :
       LET account == [accounts[name[u]] EXCEPT
             !.groups = IF g \in IRLists(u) THEN @ \cup {g} ELSE @ \ {g}] IN
       /\ left' = [left EXCEPT ![u] = @ \ {g}]
       /\ IREnd(u, made[u] \cup {g})
       /\ \/ /\ IF dryRun THEN UNCHANGED <<accounts, applied, faults>>
                ELSE Written(u, {g}, account)
             /\ UNCHANGED logged
          \/ /\ ~dryRun /\ Refused(u, {g}, account)
             /\ logged' = logged \cup {u}
  /\ UNCHANGED <<input, phase, listed, outcome, seen, down>>

\* submit: once the context is cancelled no identity is submitted any more, and
\* Sync waits for those that were.  That is no error of the call.
Unsubmitted(u) == driver = "iredadmin" /\ down /\ at[u] = "new"

IRFinish ==
  /\ phase = "work" /\ \A u \in Uids : at[u] = "done" \/ Unsubmitted(u)
  /\ phase' = "done" /\ outcome' = "ok"
  /\ UNCHANGED <<input, accounts, listed, turn, entries, down, faults, history>>

IRNext ==
  \/ IRLogin \/ IRList \/ IRFinish
  \/ \E u \in Uids :
       IRStart(u) \/ IRSwitch(u) \/ IRGet(u) \/ IRModify(u) \/ IRSubscribe(u)

\* The user is what the identity says, the status included if it gives one.
IRAgrees(u) ==
  LET a == accounts[name[u]] IN
  /\ a # Missing
  /\ IF IROff(u) THEN ~a.active
     ELSE /\ want[u].value \in {None, a.value}
          /\ a.groups = IRLists(u)
          /\ a.active = (want[u].status # "false")
===============================================================================
