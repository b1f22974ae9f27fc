--------------------------- MODULE Operators_proofs ----------------------------
(***************************************************************************)
(* Proofs about Operators, for any finite set of identities, any accounts, *)
(* faults and concurrency.  The operators keep the contract of             *)
(* SyncContract, the audit shows what was done and nothing else, a call    *)
(* that returned no error leaves no identity in the dark, and an account   *)
(* that is right is left alone.                                            *)
(*                                                                         *)
(* Nearly every action is a step of one identity while the call is at work *)
(* (Turn).  What the invariant and the contract ask of such a step is said *)
(* once, and shown action by action; the audit and the report each add an  *)
(* invariant, and say of a step what it may do to it (Tells, Minds).       *)
(***************************************************************************)
EXTENDS Operators, FiniteSetTheorems, TLAPS

USE DriverNames, DriverInput, FaultBound, ConcurrencyBound

Places == {"new", "switch", "get", "modify", "move", "groups", "done"}

\* The types of what a step of an identity may change, after it.
TurnTypes ==
  /\ accounts' \in [Names -> {Missing} \cup Account]
  /\ seen' \in [Uids -> {Missing} \cup Account]
  /\ left' \in [Uids -> SUBSET Groups] /\ made' \in [Uids -> SUBSET Change]
  /\ entries' \subseteq Entry
  /\ down' \in BOOLEAN /\ faults' \in 0..MaxFaults
  /\ applied' \subseteq Names \X Change /\ logged' \subseteq Uids

\* An identity that is at work after the step has what Found asks.
TurnFound(u) ==
  at'[u] \notin {"new", "done"} =>
    /\ accounts'[name[u]] # Missing
    /\ driver = "ad" \/ (driver = "iredadmin" /\ at'[u] \in {"modify", "groups"}) => seen'[u] # Missing
    /\ driver = "ad" => want[u].home # None
    /\ driver = "ldap" => ~dryRun
    /\ at[u] = "new" => Free

\* A step of identity u while the call is at work.
Turn(u) ==
  /\ phase = "work" /\ UNCHANGED <<input, phase, listed, outcome>>
  /\ at' = [at EXCEPT ![u] = at'[u]] /\ at'[u] \in Places /\ at[u] # "done"
  /\ \A n \in Names : accounts[n] # Missing => accounts'[n] # Missing
  /\ \A v \in Uids \ {u} : seen'[v] = seen[v]
  /\ TurnTypes /\ TurnFound(u)
  /\ dryRun => UNCHANGED accounts
  /\ Shown \subseteq Shown'

-----------------------------------------------------------------------------
\* No more identities are at work than allowed: one starts only if a place is free.
LEMMA TurnBusy ==
  ASSUME TypeOK, NEW u \in Uids, Turn(u)
  PROVE  Cardinality(Busy') <= concurrency
<1>1. IsFiniteSet(Busy) /\ Cardinality(Busy) \in Nat
  BY FinitelyMany, FS_Subset, FS_CardinalityType DEF Busy
<1>2. \A v \in Uids \ {u} : at'[v] = at[v]
  BY DEF Turn, TypeOK
<1>3. concurrency \in Nat /\ Cardinality(Busy) <= concurrency
  BY DEF TypeOK
<1>4. CASE Busy' \subseteq Busy
  BY <1>1, <1>3, <1>4, FS_Subset, FS_CardinalityType
<1>5. CASE ~(Busy' \subseteq Busy)
  <2>1. u \in Busy' /\ u \notin Busy
    BY <1>2, <1>5 DEF Busy
  <2>2. at[u] = "new" /\ at'[u] \notin {"new", "done"}
    BY <2>1 DEF Busy, Turn
  <2>3. Cardinality(Busy) < concurrency
    BY <2>2 DEF Turn, TurnFound, Free
  <2>4. Busy' = Busy \cup {u}
    BY <1>2, <2>1 DEF Busy
  <2>5. Cardinality(Busy') = Cardinality(Busy) + 1
    BY <1>1, <2>1, <2>4, FS_AddElement
  <2> QED
    BY <1>1, <1>3, <2>3, <2>5
<1> QED
  BY <1>4, <1>5

\* A step of one identity keeps the invariant.
LEMMA TurnIInv == ASSUME IInv, NEW u \in Uids, Turn(u) PROVE IInv'
<1>1. TypeOK'
  <2>1. at' \in [Uids -> Places]
    BY DEF IInv, TypeOK, Turn, Places
  <2>2. Cardinality(Busy') <= concurrency
    BY TurnBusy DEF IInv
  <2> QED
    BY <2>1, <2>2 DEF IInv, TypeOK, Turn, TurnTypes, Places, input
<1>2. PhaseFits'
  BY DEF IInv, PhaseFits, Turn
<1>3. Found'
  <2> SUFFICES ASSUME NEW v \in Busy'
               PROVE  /\ accounts'[name'[v]] # Missing
                      /\ driver' = "ad" \/ (driver' = "iredadmin" /\ at'[v] \in {"modify", "groups"})
                           => seen'[v] # Missing
                      /\ driver' = "ad" => want'[v].home # None
                      /\ driver' = "ldap" => ~dryRun'
    BY DEF Found
  <2>1. v \in Uids /\ at'[v] \notin {"new", "done"}
    BY DEF Busy
  <2>2. UNCHANGED <<driver, dryRun, name, want>>
    BY DEF Turn, input
  <2>3. CASE v = u
    BY <2>1, <2>2, <2>3 DEF Turn, TurnFound
  <2>4. CASE v # u
    <3>1. at'[v] = at[v] /\ seen'[v] = seen[v] /\ v \in Busy
      BY <2>1, <2>4 DEF IInv, TypeOK, Turn, Busy
    <3>2. name[v] \in Names
      BY <2>1 DEF IInv, TypeOK
    <3> QED
      BY <2>2, <3>1, <3>2 DEF IInv, Found, Turn
  <2> QED
    BY <2>3, <2>4
<1> QED
  BY <1>1, <1>2, <1>3 DEF IInv

\* A step of one identity is one that the contract allows.
LEMMA TurnWorks == ASSUME IInv, NEW u \in Uids, Turn(u) PROVE Contract!Work
BY DEF IInv, PhaseFits, Turn, Contract!Work, input

-----------------------------------------------------------------------------
\* append keeps the entries well formed, keeps what each shows, shows what is appended,
\* and shows nothing else.
LEMMA AppendFacts ==
  ASSUME entries \subseteq Entry, NEW e \in Entry, entries' = Appended(e)
  PROVE  /\ entries' \subseteq Entry
         /\ \A f \in entries : \E h \in entries' :
              /\ h.name = f.name /\ h.uid = f.uid /\ h.action = f.action /\ h.error = f.error
              /\ f.changes \subseteq h.changes
         /\ \E h \in entries' :
              /\ h.name = e.name /\ h.action = e.action /\ e.changes \subseteq h.changes
              /\ e.error => h.error /\ h.uid = e.uid
         /\ \A h \in entries' : \A c \in h.changes :
              \/ h.name = e.name /\ c \in e.changes
              \/ \E f \in entries : f.name = h.name /\ c \in f.changes
<1> DEFINE M(f) == [f EXCEPT !.changes = @ \cup e.changes]
<1>1. CASE e.error \/ Same(e) = {}
  BY <1>1 DEF Appended
<1>2. CASE ~e.error /\ Same(e) # {}
  <2>1. entries' = {IF f \in Same(e) THEN M(f) ELSE f : f \in entries}
    BY <1>2 DEF Appended
  <2>2. \A f \in Same(e) : /\ f \in entries /\ f.name = e.name /\ f.action = e.action
                          /\ M(f) \in Entry /\ M(f).name = f.name /\ M(f).uid = f.uid
                          /\ M(f).action = f.action /\ M(f).error = f.error
                          /\ M(f).changes = f.changes \cup e.changes
    BY DEF Same, Entry
  <2> HIDE DEF M
  <2>3. entries' \subseteq Entry
    BY <2>1, <2>2
  <2>4. ASSUME NEW f \in entries
        PROVE  \E h \in entries' :
                 /\ h.name = f.name /\ h.uid = f.uid /\ h.action = f.action /\ h.error = f.error
                 /\ f.changes \subseteq h.changes
    <3>1. CASE f \in Same(e)
      <4>1. M(f) \in entries'
        BY <2>1, <3>1
      <4> QED
        BY <2>2, <3>1, <4>1
    <3>2. CASE f \notin Same(e)
      BY <2>1, <3>2
    <3> QED
      BY <3>1, <3>2
  <2>5. PICK f \in Same(e) : TRUE
    BY <1>2
  <2>6. M(f) \in entries'
    BY <2>1, <2>2, <2>5
  <2>7. \A h \in entries' : \E k \in entries : (h = M(k) /\ k \in Same(e)) \/ h = k
    BY <2>1
  <2>8. \A h \in entries' : \A c \in h.changes :
          \/ h.name = e.name /\ c \in e.changes
          \/ \E k \in entries : k.name = h.name /\ c \in k.changes
    BY <2>2, <2>7
  <2> QED
    BY <1>2, <2>2, <2>3, <2>4, <2>6, <2>8
<1> QED
  BY <1>1, <1>2

\* append loses nothing that the entries show.
LEMMA AppendShows ==
  ASSUME entries \subseteq Entry, NEW e \in Entry, entries' = Appended(e)
  PROVE  entries' \subseteq Entry /\ Shown \subseteq Shown'
<1>1. entries' \subseteq Entry
  BY AppendFacts
<1>2. \A f \in entries : \E h \in entries' :
        h.name = f.name /\ h.action = f.action /\ h.error = f.error /\ f.changes \subseteq h.changes
  BY AppendFacts
<1> QED
  <2> SUFFICES ASSUME NEW x \in Shown PROVE x \in Shown'
    BY <1>1
  <2>1. PICK f \in entries : \E c \in f.changes \cup {"entry"} :
          x = [name |-> f.name, action |-> f.action, error |-> f.error, change |-> c]
    BY DEF Shown
  <2>2. PICK c \in f.changes \cup {"entry"} :
          x = [name |-> f.name, action |-> f.action, error |-> f.error, change |-> c]
    BY <2>1
  <2>3. PICK h \in entries' :
          h.name = f.name /\ h.action = f.action /\ h.error = f.error /\ f.changes \subseteq h.changes
    BY <1>2
  <2>4. c \in h.changes \cup {"entry"}
    BY <2>3
  <2> QED
    BY <2>2, <2>3, <2>4 DEF Shown

\* What Record and RecordError add is an entry.
LEMMA RecordFacts ==
  ASSUME TypeOK, NEW u \in Uids, NEW action \in {"UPDATE", "SKIP"}, NEW changes \in SUBSET Change,
         Record(u, action, changes) \/ RecordError(u, action)
  PROVE  entries' \subseteq Entry /\ Shown \subseteq Shown'
<1>1. EntryOf(u, action, FALSE, changes) \in Entry /\ EntryOf(u, action, TRUE, {}) \in Entry
  BY DEF TypeOK, EntryOf, Entry
<1>2. entries \subseteq Entry
  BY DEF TypeOK
<1> QED
  BY <1>1, <1>2, AppendShows DEF Record, RecordError

\* A write, whatever becomes of it, removes no account and changes one.
LEMMA WriteFacts ==
  ASSUME TypeOK, NEW u \in Uids, NEW changes \in SUBSET Change, NEW account \in Account,
         Written(u, changes, account) \/ Refused(u, changes, account)
  PROVE  /\ accounts' \in [Names -> {Missing} \cup Account]
         /\ \A n \in Names : accounts[n] # Missing => accounts'[n] # Missing
         /\ faults' \in 0..MaxFaults
         /\ applied' \subseteq Names \X Change
<1>1. name[u] \in Names /\ accounts \in [Names -> {Missing} \cup Account] /\ account # Missing
  BY DEF TypeOK
<1>2. faults \in 0..MaxFaults /\ applied \subseteq Names \X Change
  BY DEF TypeOK
<1>3. faults' \in 0..MaxFaults
  BY <1>2 DEF Written, Refused, Fault
<1>4. accounts' = accounts \/ accounts' = [accounts EXCEPT ![name[u]] = account]
  BY DEF Written, Refused
<1>5. applied' = applied \/ applied' = applied \cup {<<name[u], c>> : c \in changes}
  BY DEF Written, Refused
<1> QED
  BY <1>1, <1>2, <1>3, <1>4, <1>5

\* A step that writes does so out of a dry run only, or leaves the service as it is.
LEMMA ServiceFacts ==
  ASSUME TypeOK, NEW u \in Uids, NEW changes \in SUBSET Change, NEW account \in Account,
         \/ UNCHANGED <<accounts, applied, faults>>
         \/ ~dryRun /\ (Written(u, changes, account) \/ Refused(u, changes, account))
  PROVE  /\ accounts' \in [Names -> {Missing} \cup Account]
         /\ \A n \in Names : accounts[n] # Missing => accounts'[n] # Missing
         /\ faults' \in 0..MaxFaults
         /\ applied' \subseteq Names \X Change
         /\ dryRun => UNCHANGED accounts
<1>1. CASE UNCHANGED <<accounts, applied, faults>>
  BY <1>1 DEF TypeOK
<1>2. CASE ~dryRun /\ (Written(u, changes, account) \/ Refused(u, changes, account))
  BY <1>2, WriteFacts
<1> QED
  BY <1>1, <1>2

-----------------------------------------------------------------------------
\* Where a turn of the Active Directory operator goes on.
LEMMA ADPlaces ==
  ASSUME NEW u, NEW a, NEW passed
  PROVE  ADPlace(u, a, passed) \in {"switch", "modify", "move", "groups", "done"}
BY DEF ADPlace

\* An identity at work means that the call is, but in a call of the LDAP operator.
LEMMA AtWork ==
  ASSUME IInv, NEW u \in Uids, at[u] \notin {"new", "done"}, driver # "ldap"
  PROVE  /\ phase = "work" /\ at[u] # "done"
         /\ accounts[name[u]] \in Account
         /\ seen[u] \in {Missing} \cup Account
         /\ driver = "ad" => seen[u] \in Account /\ want[u].home \in Homes
<1>1. u \in Busy
  BY DEF Busy
<1>2. name[u] \in Names /\ want[u] \in Identity
  BY DEF IInv, TypeOK
<1> QED
  BY <1>1, <1>2 DEF IInv, TypeOK, PhaseFits, Found, Identity

\* The search is a step of its identity.
LEMMA ADSearchTurns ==
  ASSUME IInv, driver = "ad", NEW u \in Uids, ADSearch(u) PROVE Turn(u)
<1>1. /\ phase = "work" /\ at[u] = "new" /\ Free
      /\ UNCHANGED <<input, phase, listed, outcome, accounts, applied, made, down>>
  BY DEF ADSearch, ADGiveUp, Go, history
<1>2. at' = [at EXCEPT ![u] = at'[u]] /\ at'[u] \in Places
  BY ADPlaces DEF ADSearch, ADGiveUp, Go, IInv, TypeOK, Places
<1>3. entries' \subseteq Entry /\ Shown \subseteq Shown'
  <2>1. CASE UNCHANGED entries
    BY <2>1 DEF IInv, TypeOK, Shown
  <2>2. CASE RecordError(u, "SKIP") \/ RecordError(u, "UPDATE")
    BY <2>2, RecordFacts DEF IInv
  <2> QED
    BY <2>1, <2>2 DEF ADSearch
<1>4. name[u] \in Names /\ want[u] \in Identity /\ accounts \in [Names -> {Missing} \cup Account]
  BY DEF IInv, TypeOK
<1>5. faults' \in 0..MaxFaults /\ logged' \subseteq Uids
  BY DEF ADSearch, Fault, IInv, TypeOK, history
<1>6. /\ seen' \in [Uids -> {Missing} \cup Account] /\ left' \in [Uids -> SUBSET Groups]
      /\ \A v \in Uids \ {u} : seen'[v] = seen[v]
      /\ at'[u] \notin {"new", "done"} =>
           accounts'[name[u]] # Missing /\ seen'[u] # Missing /\ want[u].home # None
  <2>1. CASE ADGiveUp(u)
    BY <2>1 DEF ADGiveUp, Go, IInv, TypeOK
  <2>2. CASE /\ want[u].home # None /\ accounts[name[u]] # Missing
             /\ seen' = [seen EXCEPT ![u] = accounts[name[u]]]
             /\ left' = [left EXCEPT ![u] = ADGroupsLeft(u, accounts[name[u]])]
    <3>1. accounts[name[u]] \in Account
      BY <1>4, <2>2
    <3>2. ADGroupsLeft(u, accounts[name[u]]) \in SUBSET Groups
      BY <1>4, <3>1 DEF ADGroupsLeft, Account, Identity
    <3> QED
      BY <1>1, <2>2, <3>1, <3>2 DEF IInv, TypeOK
  <2> QED
    BY <2>1, <2>2 DEF ADSearch
<1> QED
  BY <1>1, <1>2, <1>3, <1>5, <1>6 DEF Turn, TurnTypes, TurnFound, IInv, TypeOK

\* Enabling or disabling an account is a step of its identity.
LEMMA ADSwitchTurns ==
  ASSUME IInv, driver = "ad", NEW u \in Uids, ADSwitch(u) PROVE Turn(u)
<1> DEFINE account == [accounts[name[u]] EXCEPT !.active = ~Off(u)]
<1>1. /\ phase = "work" /\ at[u] = "switch" /\ seen[u] \in Account /\ accounts[name[u]] \in Account
      /\ want[u].home \in Homes
      /\ UNCHANGED <<input, phase, listed, outcome, seen, left, made, down, logged>>
  BY AtWork DEF ADSwitch
<1>2. account \in Account /\ {"active"} \in SUBSET Change
  BY <1>1 DEF Account, Change
<1>3. at' = [at EXCEPT ![u] = at'[u]] /\ at'[u] \in Places
  BY ADPlaces DEF ADSwitch, Go, IInv, TypeOK, Places
<1>4. entries' \subseteq Entry /\ Shown \subseteq Shown'
  BY <1>2, RecordFacts DEF IInv, ADSwitch
<1>5. \/ UNCHANGED <<accounts, applied, faults>>
      \/ ~dryRun /\ (Written(u, {"active"}, account) \/ Refused(u, {"active"}, account))
  BY DEF ADSwitch
<1> HIDE DEF account
<1>6. /\ accounts' \in [Names -> {Missing} \cup Account]
      /\ \A n \in Names : accounts[n] # Missing => accounts'[n] # Missing
      /\ faults' \in 0..MaxFaults
      /\ applied' \subseteq Names \X Change
      /\ dryRun => UNCHANGED accounts
  BY <1>2, <1>5, ServiceFacts DEF IInv
<1>7. name[u] \in Names
  BY DEF IInv, TypeOK
<1> QED
  BY <1>1, <1>3, <1>4, <1>6, <1>7 DEF Turn, TurnTypes, TurnFound, IInv, TypeOK

\* Changing the attributes of an account is a step of its identity.
LEMMA ADModifyTurns ==
  ASSUME IInv, driver = "ad", NEW u \in Uids, ADModify(u) PROVE Turn(u)
<1> DEFINE account == [accounts[name[u]] EXCEPT !.value = want[u].value]
<1>1. /\ phase = "work" /\ at[u] = "modify" /\ seen[u] \in Account /\ accounts[name[u]] \in Account
      /\ want[u].home \in Homes
      /\ UNCHANGED <<input, phase, listed, outcome, seen, left, down, logged>>
  BY AtWork DEF ADModify
<1>2. name[u] \in Names /\ want[u] \in Identity
  BY DEF IInv, TypeOK
<1>3. account \in Account /\ {"value"} \in SUBSET Change
  BY <1>1, <1>2 DEF Account, Identity, Change
<1>4. at' = [at EXCEPT ![u] = at'[u]] /\ at'[u] \in Places
  BY ADPlaces DEF ADModify, Go, IInv, TypeOK, Places
<1>5. entries' \subseteq Entry /\ Shown \subseteq Shown'
  <2>1. CASE UNCHANGED entries
    BY <2>1 DEF IInv, TypeOK, Shown
  <2>2. CASE Record(u, "UPDATE", {"value"}) \/ RecordError(u, "UPDATE")
    BY <1>3, <2>2, RecordFacts DEF IInv
  <2> QED
    BY <2>1, <2>2 DEF ADModify
<1>6. made' \in [Uids -> SUBSET Change]
  BY <1>3 DEF ADModify, IInv, TypeOK
<1>7. \/ UNCHANGED <<accounts, applied, faults>>
      \/ ~dryRun /\ (Written(u, {"value"}, account) \/ Refused(u, {"value"}, account))
  BY DEF ADModify
<1> HIDE DEF account
<1>8. /\ accounts' \in [Names -> {Missing} \cup Account]
      /\ \A n \in Names : accounts[n] # Missing => accounts'[n] # Missing
      /\ faults' \in 0..MaxFaults
      /\ applied' \subseteq Names \X Change
      /\ dryRun => UNCHANGED accounts
  BY <1>3, <1>7, ServiceFacts DEF IInv
<1> QED
  BY <1>1, <1>2, <1>4, <1>5, <1>6, <1>8 DEF Turn, TurnTypes, TurnFound, IInv, TypeOK

\* Moving an account is a step of its identity.
LEMMA ADMoveTurns ==
  ASSUME IInv, driver = "ad", NEW u \in Uids, ADMove(u) PROVE Turn(u)
<1> DEFINE account == [accounts[name[u]] EXCEPT !.home = want[u].home]
<1>1. /\ phase = "work" /\ at[u] = "move" /\ seen[u] \in Account /\ accounts[name[u]] \in Account
      /\ want[u].home \in Homes
      /\ UNCHANGED <<input, phase, listed, outcome, left, down, logged>>
  BY AtWork DEF ADMove
<1>2. name[u] \in Names /\ made[u] \in SUBSET Change
  BY DEF IInv, TypeOK
<1>3. account \in Account /\ made[u] \cup {"home"} \in SUBSET Change
  BY <1>1, <1>2 DEF Account, Change
<1>4. at' = [at EXCEPT ![u] = at'[u]] /\ at'[u] \in Places
  BY ADPlaces DEF ADMove, Go, IInv, TypeOK, Places
<1>5. entries' \subseteq Entry /\ Shown \subseteq Shown'
  BY <1>3, RecordFacts DEF IInv, ADMove
<1>6. made' \in [Uids -> SUBSET Change]
  BY DEF ADMove, IInv, TypeOK
<1>7. /\ seen' \in [Uids -> {Missing} \cup Account]
      /\ \A v \in Uids \ {u} : seen'[v] = seen[v]
      /\ seen'[u] \in Account
  <2>1. CASE UNCHANGED seen
    BY <1>1, <2>1 DEF IInv, TypeOK
  <2>2. CASE seen' = [seen EXCEPT ![u].home = want[u].home]
    <3>1. [seen[u] EXCEPT !.home = want[u].home] \in Account
      BY <1>1 DEF Account
    <3>2. seen' = [seen EXCEPT ![u] = [seen[u] EXCEPT !.home = want[u].home]]
      BY <2>2
    <3> QED
      BY <3>1, <3>2 DEF IInv, TypeOK
  <2> QED
    BY <2>1, <2>2 DEF ADMove
<1>8. \/ UNCHANGED <<accounts, applied, faults>>
      \/ ~dryRun /\ (Written(u, {"home"}, account) \/ Refused(u, {"home"}, account))
  BY DEF ADMove
<1> HIDE DEF account
<1>9. /\ accounts' \in [Names -> {Missing} \cup Account]
      /\ \A n \in Names : accounts[n] # Missing => accounts'[n] # Missing
      /\ faults' \in 0..MaxFaults
      /\ applied' \subseteq Names \X Change
      /\ dryRun => UNCHANGED accounts
  <2>1. {"home"} \in SUBSET Change
    BY DEF Change
  <2> QED
    BY <1>3, <1>8, <2>1, ServiceFacts DEF IInv
<1> QED
  BY <1>1, <1>2, <1>4, <1>5, <1>6, <1>7, <1>9 DEF Turn, TurnTypes, TurnFound, IInv, TypeOK

\* Changing a membership is a step of its identity.
LEMMA ADGroupsTurns ==
  ASSUME IInv, driver = "ad", NEW u \in Uids, ADGroups(u) PROVE Turn(u)
<1>1. /\ phase = "work" /\ at[u] = "groups" /\ seen[u] \in Account /\ accounts[name[u]] \in Account
      /\ want[u].home \in Homes
      /\ UNCHANGED <<input, phase, listed, outcome, seen, down, logged>>
  BY AtWork DEF ADGroups
<1>2. name[u] \in Names /\ made[u] \in SUBSET Change /\ left[u] \in SUBSET Groups
  BY DEF IInv, TypeOK
<1>3. PICK g \in ADTurn(u) :
        \/ /\ IF dryRun THEN UNCHANGED <<accounts, applied, faults>>
              ELSE Resolves(u) /\ Written(u, {g}, Toggled(u, g))
           /\ left' = [left EXCEPT ![u] = @ \ {g}]
           /\ IF left[u] = {g}
              THEN /\ Record(u, "UPDATE", made[u] \cup {g}) /\ Go(u, "done")
                   /\ made' = [made EXCEPT ![u] = {}]
              ELSE /\ made' = [made EXCEPT ![u] = @ \cup {g}]
                   /\ UNCHANGED <<at, entries>>
        \/ /\ ~dryRun
           /\ \/ Resolves(u) /\ Refused(u, {g}, Toggled(u, g))
              \/ ~Resolves(u) /\ UNCHANGED <<accounts, applied, faults>>
           /\ ADGroupsFail(u, g) /\ Go(u, "done")
           /\ left' = [left EXCEPT ![u] = {}] /\ made' = [made EXCEPT ![u] = {}]
  BY DEF ADGroups
<1>4. g \in Groups /\ {g} \in SUBSET Change /\ made[u] \cup {g} \in SUBSET Change
  BY <1>2 DEF ADTurn, Change
<1>5. Toggled(u, g) \in Account
  BY <1>1, <1>4 DEF Toggled, Account
<1>6. at' = [at EXCEPT ![u] = at'[u]] /\ at'[u] \in Places
  BY <1>1, <1>3 DEF Go, IInv, TypeOK, Places
<1>7. entries' \subseteq Entry /\ Shown \subseteq Shown'
  <2>1. CASE UNCHANGED entries
    BY <2>1 DEF IInv, TypeOK, Shown
  <2>2. CASE Record(u, "UPDATE", made[u] \cup {g}) \/ RecordError(u, "UPDATE")
    BY <1>4, <2>2, RecordFacts DEF IInv
  <2> QED
    BY <1>3, <2>1, <2>2 DEF ADGroupsFail
<1>8. made' \in [Uids -> SUBSET Change] /\ left' \in [Uids -> SUBSET Groups]
  BY <1>3, <1>4 DEF IInv, TypeOK
<1>9. \/ UNCHANGED <<accounts, applied, faults>>
      \/ ~dryRun /\ (Written(u, {g}, Toggled(u, g)) \/ Refused(u, {g}, Toggled(u, g)))
  BY <1>3
<1>10. /\ accounts' \in [Names -> {Missing} \cup Account]
       /\ \A n \in Names : accounts[n] # Missing => accounts'[n] # Missing
       /\ faults' \in 0..MaxFaults
       /\ applied' \subseteq Names \X Change
       /\ dryRun => UNCHANGED accounts
  BY <1>4, <1>5, <1>9, ServiceFacts DEF IInv
<1> QED
  BY <1>1, <1>2, <1>6, <1>7, <1>8, <1>10 DEF Turn, TurnTypes, TurnFound, IInv, TypeOK

-----------------------------------------------------------------------------
\* The first reading of a user is a step of its identity.
LEMMA IRStartTurns ==
  ASSUME IInv, driver = "iredadmin", NEW u \in Uids, IRStart(u) PROVE Turn(u)
<1>1. /\ phase = "work" /\ at[u] = "new" /\ Free
      /\ UNCHANGED <<input, accounts, phase, listed, outcome, seen, left, made, down, applied>>
  BY DEF IRStart
<1>2. at' = [at EXCEPT ![u] = at'[u]] /\ at'[u] \in {"switch", "get", "done"}
  BY DEF IRStart, Go, IInv, TypeOK
<1>3. at'[u] # "done" => accounts[name[u]] # Missing
  BY DEF IRStart, IRRead, Go, IInv, TypeOK
<1>4. entries' \subseteq Entry /\ Shown \subseteq Shown'
  <2>1. CASE UNCHANGED entries
    BY <2>1 DEF IInv, TypeOK, Shown
  <2>2. CASE RecordError(u, "SKIP")
    BY <2>2, RecordFacts DEF IInv
  <2>3. CASE RecordError(u, "UPDATE")
    BY <2>3, RecordFacts DEF IInv
  <2> QED
    BY <2>1, <2>2, <2>3 DEF IRStart
<1>5. faults' \in 0..MaxFaults /\ logged' \subseteq Uids
  BY DEF IRStart, IRRead, IRUnread, Fault, IInv, TypeOK
<1> QED
  BY <1>1, <1>2, <1>3, <1>4, <1>5 DEF Turn, TurnTypes, TurnFound, IInv, TypeOK, Places

\* Enabling or disabling a user is a step of its identity.
LEMMA IRSwitchTurns ==
  ASSUME IInv, driver = "iredadmin", NEW u \in Uids, IRSwitch(u) PROVE Turn(u)
<1> DEFINE account == [accounts[name[u]] EXCEPT !.active = ~IROff(u)]
<1>1. /\ phase = "work" /\ at[u] = "switch" /\ accounts[name[u]] \in Account
      /\ UNCHANGED <<input, phase, listed, outcome, seen, left, made, down, logged>>
  BY AtWork DEF IRSwitch
<1>2. account \in Account /\ {"active"} \in SUBSET Change
  BY <1>1 DEF Account, Change
<1>3. at' = [at EXCEPT ![u] = at'[u]] /\ at'[u] \in {"get", "done"}
  BY DEF IRSwitch, Go, IInv, TypeOK
<1>4. entries' \subseteq Entry /\ Shown \subseteq Shown'
  BY <1>2, RecordFacts DEF IInv, IRSwitch
<1>5. \/ UNCHANGED <<accounts, applied, faults>>
      \/ ~dryRun /\ (Written(u, {"active"}, account) \/ Refused(u, {"active"}, account))
  BY DEF IRSwitch
<1> HIDE DEF account
<1>6. /\ accounts' \in [Names -> {Missing} \cup Account]
      /\ \A n \in Names : accounts[n] # Missing => accounts'[n] # Missing
      /\ faults' \in 0..MaxFaults
      /\ applied' \subseteq Names \X Change
      /\ dryRun => UNCHANGED accounts
  BY <1>2, <1>5, ServiceFacts DEF IInv
<1>7. name[u] \in Names /\ Missing \notin Account
  BY DEF IInv, TypeOK
<1> QED
  BY <1>1, <1>3, <1>4, <1>6, <1>7 DEF Turn, TurnTypes, TurnFound, IInv, TypeOK, Places

\* The second reading of a user is a step of its identity.
LEMMA IRGetTurns ==
  ASSUME IInv, driver = "iredadmin", NEW u \in Uids, IRGet(u) PROVE Turn(u)
<1>1. /\ phase = "work" /\ at[u] = "get" /\ accounts[name[u]] \in Account
      /\ UNCHANGED <<input, accounts, phase, listed, outcome, made, down, applied>>
  BY AtWork DEF IRGet
<1>2. at' = [at EXCEPT ![u] = at'[u]] /\ at'[u] \in {"modify", "groups", "done"}
  BY DEF IRGet, Go, IInv, TypeOK
<1>3. entries' \subseteq Entry /\ Shown \subseteq Shown'
  <2>1. CASE UNCHANGED entries
    BY <2>1 DEF IInv, TypeOK, Shown
  <2>2. CASE RecordError(u, "SKIP")
    BY <2>2, RecordFacts DEF IInv
  <2>3. CASE Record(u, "SKIP", {})
    BY <2>3, RecordFacts DEF IInv
  <2> QED
    BY <2>1, <2>2, <2>3 DEF IRGet
<1>4. faults' \in 0..MaxFaults /\ logged' \subseteq Uids
  BY DEF IRGet, IRRead, Fault, IInv, TypeOK
<1>5. IRListsLeft(u, accounts[name[u]]) \in SUBSET Groups
  BY <1>1 DEF IRListsLeft, IRLists, IInv, TypeOK, Account, Identity
<1>6. /\ seen' \in [Uids -> {Missing} \cup Account] /\ left' \in [Uids -> SUBSET Groups]
      /\ \A v \in Uids \ {u} : seen'[v] = seen[v]
      /\ at'[u] # "done" => seen'[u] \in Account
  <2>1. CASE UNCHANGED <<seen, left>> /\ Go(u, "done")
    BY <2>1 DEF Go, IInv, TypeOK
  <2>2. CASE /\ seen' = [seen EXCEPT ![u] = accounts[name[u]]]
             /\ left' = [left EXCEPT ![u] = IRListsLeft(u, accounts[name[u]])]
    BY <1>1, <1>5, <2>2 DEF IInv, TypeOK
  <2> QED
    BY <2>1, <2>2 DEF IRGet
<1> QED
  BY <1>1, <1>2, <1>3, <1>4, <1>6 DEF Turn, TurnTypes, TurnFound, IInv, TypeOK, Places

\* Where an update goes on, and what it records, when its request was carried out.
LEMMA IREndFacts ==
  ASSUME IInv, NEW u \in Uids, NEW changes \in SUBSET Change, IREnd(u, changes)
  PROVE  /\ at' = [at EXCEPT ![u] = at'[u]] /\ at'[u] \in {"groups", "done"}
         /\ entries' \subseteq Entry /\ Shown \subseteq Shown'
         /\ made' \in [Uids -> SUBSET Change]
<1>1. CASE Record(u, "UPDATE", changes) /\ Go(u, "done") /\ made' = [made EXCEPT ![u] = {}]
  <2>1. entries' \subseteq Entry /\ Shown \subseteq Shown'
    BY <1>1, RecordFacts DEF IInv
  <2> QED
    BY <1>1, <2>1 DEF Go, IInv, TypeOK
<1>2. CASE made' = [made EXCEPT ![u] = changes] /\ Go(u, "groups") /\ UNCHANGED entries
  BY <1>2 DEF Go, IInv, TypeOK, Shown
<1> QED
  BY <1>1, <1>2 DEF IREnd

\* The request for what differs in a user is a step of its identity.
LEMMA IRModifyTurns ==
  ASSUME IInv, driver = "iredadmin", NEW u \in Uids, IRModify(u) PROVE Turn(u)
<1> DEFINE data == IRData(u, seen[u])
           account == [accounts[name[u]] EXCEPT
             !.active = IF "active" \in data THEN IRStatus(u, seen[u]) ELSE @,
             !.value = IF "value" \in data THEN want[u].value ELSE @]
<1>1. /\ phase = "work" /\ at[u] = "modify" /\ accounts[name[u]] \in Account
      /\ seen[u] \in {Missing} \cup Account
      /\ UNCHANGED <<input, phase, listed, outcome, seen, down, logged>>
  BY AtWork DEF IRModify
<1>2. seen[u] \in Account
  <2>1. u \in Busy
    BY <1>1 DEF Busy
  <2> QED
    BY <1>1, <2>1 DEF IInv, Found
<1>3. name[u] \in Names /\ want[u] \in Identity
  BY DEF IInv, TypeOK
<1>4. IRStatus(u, seen[u]) \in BOOLEAN
  BY <1>2, <1>3 DEF IRStatus, Account
<1>5. account \in Account /\ data \in SUBSET Change
  BY <1>1, <1>3, <1>4 DEF Account, Identity, Change, IRData
<1>6. \/ IREnd(u, data) /\ UNCHANGED left
      \/ RecordError(u, "UPDATE") /\ Go(u, "done") /\ left' = [left EXCEPT ![u] = {}] /\ UNCHANGED made
  BY DEF IRModify
<1>7. \/ UNCHANGED <<accounts, applied, faults>>
      \/ ~dryRun /\ (Written(u, data, account) \/ Refused(u, data, account))
  BY DEF IRModify
<1> HIDE DEF account, data
<1>8. /\ at' = [at EXCEPT ![u] = at'[u]] /\ at'[u] \in {"groups", "done"}
      /\ entries' \subseteq Entry /\ Shown \subseteq Shown'
      /\ made' \in [Uids -> SUBSET Change] /\ left' \in [Uids -> SUBSET Groups]
  <2>1. CASE IREnd(u, data) /\ UNCHANGED left
    BY <1>5, <2>1, IREndFacts DEF IInv, TypeOK
  <2>2. CASE /\ RecordError(u, "UPDATE") /\ Go(u, "done")
             /\ left' = [left EXCEPT ![u] = {}] /\ UNCHANGED made
    <3>1. entries' \subseteq Entry /\ Shown \subseteq Shown'
      BY <1>5, <2>2, RecordFacts DEF IInv
    <3> QED
      BY <2>2, <3>1 DEF Go, IInv, TypeOK
  <2> QED
    BY <1>6, <2>1, <2>2
<1>9. /\ accounts' \in [Names -> {Missing} \cup Account]
      /\ \A n \in Names : accounts[n] # Missing => accounts'[n] # Missing
      /\ faults' \in 0..MaxFaults
      /\ applied' \subseteq Names \X Change
      /\ dryRun => UNCHANGED accounts
  BY <1>5, <1>7, ServiceFacts DEF IInv
<1> QED
  BY <1>1, <1>2, <1>3, <1>8, <1>9 DEF Turn, TurnTypes, TurnFound, IInv, TypeOK, Places

\* The request for a mailing list is a step of its identity.
LEMMA IRSubscribeTurns ==
  ASSUME IInv, driver = "iredadmin", NEW u \in Uids, IRSubscribe(u) PROVE Turn(u)
<1>1. /\ phase = "work" /\ at[u] = "groups" /\ accounts[name[u]] \in Account
      /\ UNCHANGED <<input, phase, listed, outcome, seen, down>>
  BY AtWork DEF IRSubscribe
<1>2. seen[u] # Missing
  <2>1. u \in Busy
    BY <1>1 DEF Busy
  <2> QED
    BY <1>1, <2>1 DEF IInv, Found
<1>3. name[u] \in Names /\ made[u] \in SUBSET Change /\ left[u] \in SUBSET Groups
  BY DEF IInv, TypeOK
<1>4. PICK g \in left[u] :
        LET account == [accounts[name[u]] EXCEPT
              !.groups = IF g \in IRLists(u) THEN @ \cup {g} ELSE @ \ {g}] IN
        /\ left' = [left EXCEPT ![u] = @ \ {g}]
        /\ IREnd(u, made[u] \cup {g})
        /\ \/ /\ IF dryRun THEN UNCHANGED <<accounts, applied, faults>>
                 ELSE Written(u, {g}, account)
              /\ UNCHANGED logged
           \/ /\ ~dryRun /\ Refused(u, {g}, account)
              /\ logged' = logged \cup {u}
  BY DEF IRSubscribe
<1> DEFINE account == [accounts[name[u]] EXCEPT
                !.groups = IF g \in IRLists(u) THEN @ \cup {g} ELSE @ \ {g}]
<1>5. g \in Groups /\ {g} \in SUBSET Change /\ made[u] \cup {g} \in SUBSET Change
  BY <1>3 DEF Change
<1>6. account \in Account
  BY <1>1, <1>5 DEF Account
<1>7. logged' \subseteq Uids
  BY <1>4 DEF IInv, TypeOK
<1>8. \/ UNCHANGED <<accounts, applied, faults>>
      \/ ~dryRun /\ (Written(u, {g}, account) \/ Refused(u, {g}, account))
  BY <1>4
<1> HIDE DEF account
<1>9. /\ at' = [at EXCEPT ![u] = at'[u]] /\ at'[u] \in {"groups", "done"}
      /\ entries' \subseteq Entry /\ Shown \subseteq Shown'
      /\ made' \in [Uids -> SUBSET Change]
  BY <1>4, <1>5, IREndFacts
<1>10. left' \in [Uids -> SUBSET Groups]
  BY <1>3, <1>4 DEF IInv, TypeOK
<1>11. /\ accounts' \in [Names -> {Missing} \cup Account]
       /\ \A n \in Names : accounts[n] # Missing => accounts'[n] # Missing
       /\ faults' \in 0..MaxFaults
       /\ applied' \subseteq Names \X Change
       /\ dryRun => UNCHANGED accounts
  BY <1>5, <1>6, <1>8, ServiceFacts DEF IInv
<1> QED
  BY <1>1, <1>2, <1>3, <1>7, <1>9, <1>10, <1>11 DEF Turn, TurnTypes, TurnFound, IInv, TypeOK, Places

-----------------------------------------------------------------------------
\* The search of an entry, unless it ends the call, is a step of its identity.
LEMMA LDSearchTurns ==
  ASSUME IInv, driver = "ldap", NEW u \in Uids, LDSearch(u), UNCHANGED phase PROVE Turn(u)
<1>1. /\ phase = "work" /\ at[u] = "new" /\ Free
      /\ UNCHANGED <<input, accounts, listed, seen, left, made, entries, down, history>>
  BY DEF LDSearch
<1>2. /\ at' = [at EXCEPT ![u] = at'[u]] /\ at'[u] \in {"modify", "done"}
      /\ at'[u] = "modify" => ~dryRun /\ accounts[name[u]] # Missing
      /\ UNCHANGED <<outcome, faults>>
  BY <1>1 DEF LDSearch, Go, IInv, TypeOK
<1> QED
  BY <1>1, <1>2 DEF Turn, TurnTypes, TurnFound, IInv, TypeOK, Places, Shown, history

\* The update of an entry is a step of its identity.
LEMMA LDUpdateTurns ==
  ASSUME IInv, driver = "ldap", NEW u \in Uids, LDUpdate(u) PROVE Turn(u)
<1> DEFINE account == [accounts[name[u]] EXCEPT !.value = want[u].value]
<1>1. /\ phase = "work" /\ at[u] = "modify" /\ at' = [at EXCEPT ![u] = "done"]
      /\ UNCHANGED <<input, phase, listed, outcome, seen, left, made, down, logged>>
  BY DEF LDUpdate, Go
<1>2. name[u] \in Names /\ want[u] \in Identity
  BY DEF IInv, TypeOK
<1>3. accounts[name[u]] \in Account /\ ~dryRun
  <2>1. u \in Busy
    BY <1>1 DEF Busy
  <2> QED
    BY <1>2, <2>1 DEF IInv, TypeOK, Found
<1>4. account \in Account /\ {"value"} \in SUBSET Change
  BY <1>2, <1>3 DEF Account, Identity, Change
<1>5. entries' \subseteq Entry /\ Shown \subseteq Shown'
  BY <1>4, RecordFacts DEF IInv, LDUpdate
<1>6. ~dryRun /\ (Written(u, {"value"}, account) \/ Refused(u, {"value"}, account))
  BY <1>3 DEF LDUpdate
<1> HIDE DEF account
<1>7. /\ accounts' \in [Names -> {Missing} \cup Account]
      /\ \A n \in Names : accounts[n] # Missing => accounts'[n] # Missing
      /\ faults' \in 0..MaxFaults
      /\ applied' \subseteq Names \X Change
      /\ dryRun => UNCHANGED accounts
  BY <1>4, <1>6, ServiceFacts DEF IInv
<1> QED
  BY <1>1, <1>2, <1>5, <1>7 DEF Turn, TurnTypes, TurnFound, IInv, TypeOK, Places

-----------------------------------------------------------------------------
\* The call goes on after the login or the listing.
Begins ==
  /\ phase \in {"login", "list"} /\ phase' \in {"list", "work"}
  /\ listed' \subseteq Names
  /\ UNCHANGED <<input, accounts, outcome, turn, entries, down, faults, history>>

\* The call returns.
Ends ==
  /\ phase # "done" /\ phase' = "done" /\ outcome' \in {"ok", "error"}
  /\ driver # "ldap" => Busy = {}
  /\ listed' \subseteq Names /\ faults' \in 0..MaxFaults
  /\ UNCHANGED <<input, accounts, turn, entries, down, history>>

\* Going on keeps the invariant, and the contract sees nothing of it.
LEMMA BeginsFacts ==
  ASSUME IInv, Begins PROVE IInv' /\ UNCHANGED Contract!vars
<1>1. UNCHANGED <<input, accounts, outcome, turn, entries, down, faults, history>>
  BY DEF Begins
<1>2. Busy' = Busy /\ Shown' = Shown
  BY <1>1 DEF Busy, Shown, turn
<1>3. TypeOK'
  BY <1>1, <1>2 DEF Begins, IInv, TypeOK, input, turn, history
<1>4. PhaseFits'
  BY <1>1, <1>2 DEF Begins, IInv, PhaseFits, input, turn
<1>5. Found'
  BY <1>1, <1>2 DEF IInv, Found, input, turn
<1> QED
  BY <1>1, <1>2, <1>3, <1>4, <1>5 DEF IInv, Contract!vars, input

\* Returning keeps the invariant and is the Return of the contract.
LEMMA EndsFacts ==
  ASSUME IInv, Ends PROVE IInv' /\ Contract!Return
<1>1. UNCHANGED <<input, accounts, turn, entries, down, history>>
  BY DEF Ends
<1>2. Busy' = Busy /\ Shown' = Shown
  BY <1>1 DEF Busy, Shown, turn
<1>3. TypeOK'
  BY <1>1, <1>2 DEF Ends, IInv, TypeOK, input, turn, history
<1>4. PhaseFits'
  BY <1>1, <1>2 DEF Ends, IInv, PhaseFits, input, turn
<1>5. Found'
  BY <1>1, <1>2 DEF IInv, Found, input, turn
<1>6. outcome = "none"
  BY DEF IInv, TypeOK, PhaseFits, Ends
<1> QED
  BY <1>1, <1>2, <1>3, <1>4, <1>5, <1>6 DEF IInv, Ends, Contract!Return, input

\* So do a failure for good and a step that changes nothing.
LEMMA BreakFacts ==
  ASSUME IInv, Break \/ UNCHANGED vars PROVE IInv' /\ UNCHANGED Contract!vars
<1>1. /\ UNCHANGED <<input, accounts, phase, listed, outcome, turn, entries, faults, history>>
      /\ down' \in BOOLEAN
  BY DEF Break, vars, IInv, TypeOK
<1>2. Busy' = Busy /\ Shown' = Shown
  BY <1>1 DEF Busy, Shown, turn
<1>3. TypeOK'
  BY <1>1, <1>2 DEF IInv, TypeOK, input, turn, history
<1>4. PhaseFits' /\ Found'
  BY <1>1, <1>2 DEF IInv, PhaseFits, Found, input, turn
<1> QED
  BY <1>1, <1>2, <1>3, <1>4 DEF IInv, Contract!vars, input

-----------------------------------------------------------------------------
\* Every step of the Active Directory operator is of one of the kinds above.
LEMMA ADSteps ==
  ASSUME IInv, driver = "ad", ADNext
  PROVE  Ends \/ \E u \in Uids : Turn(u)
<1>1. CASE ADFinish
  <2>1. Busy = {}
    BY <1>1 DEF ADFinish, AllDone, Busy
  <2> QED
    BY <1>1, <2>1 DEF ADFinish, Ends, IInv, TypeOK
<1>2. CASE \E u \in Uids : ADSearch(u) \/ ADSwitch(u) \/ ADModify(u) \/ ADMove(u) \/ ADGroups(u)
  BY <1>2, ADSearchTurns, ADSwitchTurns, ADModifyTurns, ADMoveTurns, ADGroupsTurns
<1> QED
  BY <1>1, <1>2 DEF ADNext

\* Every step of the iRedAdmin operator is.
LEMMA IRSteps ==
  ASSUME IInv, driver = "iredadmin", IRNext
  PROVE  Begins \/ Ends \/ \E u \in Uids : Turn(u)
<1>1. CASE IRLogin
  <2>1. Busy = {}
    BY <1>1 DEF IRLogin, IInv, PhaseFits, Busy
  <2>2. faults' \in 0..MaxFaults
    BY <1>1 DEF IRLogin, Fault, IInv, TypeOK
  <2> QED
    BY <1>1, <2>1, <2>2 DEF IRLogin, Fault, Begins, Ends, IInv, TypeOK
<1>2. CASE IRList
  <2>1. Busy = {}
    BY <1>2 DEF IRList, IInv, PhaseFits, Busy
  <2>2. faults' \in 0..MaxFaults
    BY <1>2 DEF IRList, Fault, IInv, TypeOK
  <2> QED
    BY <1>2, <2>1, <2>2 DEF IRList, Fault, Begins, Ends, IInv, TypeOK
<1>3. CASE IRFinish
  <2>1. Busy = {}
    BY <1>3 DEF IRFinish, Unsubmitted, Busy
  <2> QED
    BY <1>3, <2>1 DEF IRFinish, Ends, IInv, TypeOK
<1>4. CASE \E u \in Uids :
        IRStart(u) \/ IRSwitch(u) \/ IRGet(u) \/ IRModify(u) \/ IRSubscribe(u)
  BY <1>4, IRStartTurns, IRSwitchTurns, IRGetTurns, IRModifyTurns, IRSubscribeTurns
<1> QED
  BY <1>1, <1>2, <1>3, <1>4 DEF IRNext

\* Every step of the LDAP operator is.
LEMMA LDSteps ==
  ASSUME IInv, driver = "ldap", LDNext
  PROVE  Begins \/ Ends \/ \E u \in Uids : Turn(u)
<1>1. CASE LDConnect
  <2>1. faults' \in 0..MaxFaults
    BY <1>1 DEF LDConnect, Fault, IInv, TypeOK
  <2> QED
    BY <1>1, <2>1 DEF LDConnect, Begins, Ends, IInv, TypeOK
<1>2. CASE LDFinish
  BY <1>2 DEF LDFinish, Ends, IInv, TypeOK
<1>3. ASSUME NEW u \in Uids, LDSearch(u) PROVE Ends \/ Turn(u)
  <2>1. CASE UNCHANGED phase
    BY <1>3, <2>1, LDSearchTurns
  <2>2. CASE phase' # phase
    <3>1. faults' \in 0..MaxFaults
      BY <1>3 DEF LDSearch, Fault, IInv, TypeOK
    <3> QED
      BY <1>3, <2>2, <3>1 DEF LDSearch, Ends, IInv, TypeOK, turn
  <2> QED
    BY <2>1, <2>2
<1>4. ASSUME NEW u \in Uids, LDUpdate(u) PROVE Turn(u)
  BY <1>4, LDUpdateTurns
<1> QED
  BY <1>1, <1>2, <1>3, <1>4 DEF LDNext

\* A step keeps the invariant, and the contract allows it or sees nothing of it.
LEMMA StepFacts ==
  ASSUME IInv, [OpNext]_vars PROVE IInv' /\ [Contract!Next]_Contract!vars
<1>1. CASE Sync
  <2>1. Begins \/ Ends \/ \E u \in Uids : Turn(u)
    BY <1>1, ADSteps, IRSteps, LDSteps DEF Sync
  <2>2. CASE Begins
    BY <2>2, BeginsFacts
  <2>3. CASE Ends
    BY <2>3, EndsFacts DEF Contract!Next
  <2>4. CASE \E u \in Uids : Turn(u)
    BY <2>4, TurnIInv, TurnWorks DEF Contract!Next
  <2> QED
    BY <2>1, <2>2, <2>3, <2>4
<1>2. CASE Break \/ UNCHANGED vars
  BY <1>2, BreakFacts
<1> QED
  BY <1>1, <1>2 DEF OpNext

\* Before the call nobody is at work and nothing is recorded.
LEMMA InitFacts == ASSUME OpInit PROVE IInv /\ Contract!Init
<1>1. Init /\ phase \in {"login", "work"} /\ driver \in {"ad", "iredadmin", "ldap"}
  BY DEF OpInit, ADInit, IRInit, LDInit
<1>2. Busy = {} /\ Cardinality(Busy) = 0
  BY <1>1, FS_EmptySet DEF Init, Busy
<1>3. partial \in BOOLEAN /\ dryRun \in BOOLEAN /\ concurrency \in Nat \ {0} /\ 0 <= concurrency
  BY DEF OpInit
<1>4. TypeOK
  <2>1. name \in [Uids -> Names] /\ want \in [Uids -> Identity]
    <3>1. want \in [Uids -> Wants] /\ Wants \subseteq Identity
      BY <1>1 DEF Init
    <3>2. \A u \in Uids : want[u] \in Identity
      BY <3>1
    <3> QED
      BY <1>1, <3>1, <3>2 DEF Init
  <2>2. accounts \in [Names -> {Missing} \cup Account]
    BY <1>1 DEF Init
  <2>3. /\ at \in [Uids -> Places] /\ seen \in [Uids -> {Missing} \cup Account]
        /\ left \in [Uids -> SUBSET Groups] /\ made \in [Uids -> SUBSET Change]
    BY <1>1 DEF Init, Places
  <2>4. faults \in 0..MaxFaults
    BY <1>1 DEF Init
  <2>5. down \in BOOLEAN
    BY <1>1, Zenon DEF Init
  <2>6. /\ entries \subseteq Entry /\ listed \subseteq Names
        /\ applied \subseteq Names \X Change /\ logged \subseteq Uids
    BY <1>1, Zenon DEF Init
  <2>7. outcome \in {"none", "ok", "error"}
    BY <1>1 DEF Init
  <2> QED
    BY <1>1, <1>2, <1>3, <2>1, <2>2, <2>3, <2>4, <2>5, <2>6, <2>7 DEF TypeOK, Places
<1>5. PhaseFits /\ Found
  BY <1>1, <1>2 DEF Init, PhaseFits, Found
<1>6. Contract!Init
  BY <1>1 DEF Init, Contract!Init, Shown
<1> QED
  BY <1>4, <1>5, <1>6 DEF IInv

-----------------------------------------------------------------------------
\* The invariant holds in every state of a call of Sync or PartialSync.
THEOREM Invariance == OpSpec => []IInv
BY InitFacts, StepFacts, PTL DEF OpSpec

\* The types of a call, and never more identities at work than "concurrency" allows:
\* the semaphore of the goroutines (drivers/ad/operator.go, drivers/iredadmin/operator.go).
THEOREM TypeCorrect == OpSpec => []TypeOK
<1>1. IInv => TypeOK
  BY DEF IInv
<1> QED
  BY <1>1, Invariance, PTL

\* The three operators keep the contract of operator/interface.go: nothing is written
\* in a dry run, the audit only grows, and nothing happens once the call has returned.
THEOREM ContractImplemented == OpSpec => ImplementsContract
BY InitFacts, StepFacts, Invariance, PTL DEF OpSpec, ImplementsContract, Contract!Spec

-----------------------------------------------------------------------------
(***************************************************************************)
(* The audit.  A change that is made waits among the changes of its        *)
(* identity until the entry of the update is recorded, so that the audit   *)
(* agrees with the service only together with what waits.  What a step of  *)
(* an identity may do to both is said once again, in Tells.                *)
(***************************************************************************)
\* A change of the account n that was made, or that the audit may show though it was not.
Backed(n, c) ==
  \/ dryRun \/ <<n, c>> \in applied
  \/ driver = "iredadmin" /\ c \in Groups /\ \E u \in logged : name[u] = n

\* The audit shows the change c of the account n, or an error of the account.
Told(n, c) ==
  \E e \in entries : e.name = n /\ e.action = "UPDATE" /\ (e.error \/ c \in e.changes)

\* A change waits to be recorded only while its update goes on.
Waiting(u) == at[u] \in {"move", "groups"}

\* Every identity has ended its turn, but those that iRedAdmin no longer submits.
AllOver == \A u \in Uids : at[u] = "done" \/ Unsubmitted(u)

AuditInv ==
  /\ AuditTruthful
  /\ \A u \in Uids : \A c \in made[u] : Waiting(u) /\ Backed(name[u], c)
  /\ \A n \in Names, c \in Change :
       <<n, c>> \in applied => Told(n, c) \/ \E u \in Uids : name[u] = n /\ c \in made[u]
  /\ outcome = "ok" => AllOver

\* A step of identity u makes the changes C, and records those of its update, keeps
\* them for the end of it, or records an error.
Tells(u) ==
  /\ logged \subseteq logged'
  /\ \A v \in Uids \ {u} : made'[v] = made[v]
  /\ \E n \in Names, C \in SUBSET Change :
       /\ n = name[u]
       /\ applied \subseteq applied' /\ applied' \subseteq applied \cup {<<n, c>> : c \in C}
       /\ \/ /\ RecordError(u, "UPDATE") /\ made'[u] = {}
          \/ /\ C = {} /\ made[u] = {} /\ made'[u] = {}
             /\ RecordError(u, "SKIP") \/ Record(u, "SKIP", {})
          \/ /\ \A c \in C : Backed(n, c)'
             /\ Record(u, "UPDATE", made[u] \cup C) /\ made'[u] = {}
          \/ /\ \A c \in C : Backed(n, c)'
             /\ UNCHANGED entries /\ made'[u] = made[u] \cup C
             /\ made'[u] # {} => Waiting(u)'

\* An entry that is recorded is in the audit by its name, and the others stay.
LEMMA RecordTells ==
  ASSUME TypeOK, NEW u \in Uids, NEW action \in {"UPDATE", "SKIP"}, NEW error \in BOOLEAN,
         NEW changes \in SUBSET Change,
         entries' = Appended(EntryOf(u, action, error, changes))
  PROVE  /\ \A n, c : Told(n, c) => Told(n, c)'
         /\ action = "UPDATE" => \A n, c : n = name[u] /\ (error \/ c \in changes) => Told(n, c)'
<1> DEFINE e == EntryOf(u, action, error, changes)
<1>1. /\ e \in Entry /\ e.name = name[u] /\ e.action = action /\ e.error = error
      /\ e.changes = changes
  BY DEF TypeOK, EntryOf, Entry
<1>2. entries \subseteq Entry
  BY DEF TypeOK
<1> HIDE DEF e
<1>3. entries' = Appended(e)
  BY DEF e
<1>4. /\ \A f \in entries : \E h \in entries' :
           /\ h.name = f.name /\ h.uid = f.uid /\ h.action = f.action /\ h.error = f.error
           /\ f.changes \subseteq h.changes
      /\ \E h \in entries' :
           /\ h.name = e.name /\ h.action = e.action /\ e.changes \subseteq h.changes
           /\ e.error => h.error /\ h.uid = e.uid
  BY <1>1, <1>2, <1>3, AppendFacts
<1>5. ASSUME NEW n, NEW c, Told(n, c) PROVE Told(n, c)'
  <2>1. PICK f \in entries : f.name = n /\ f.action = "UPDATE" /\ (f.error \/ c \in f.changes)
    BY <1>5 DEF Told
  <2>2. PICK h \in entries' : /\ h.name = f.name /\ h.action = f.action /\ h.error = f.error
                              /\ f.changes \subseteq h.changes
    BY <1>4
  <2> QED
    BY <2>1, <2>2 DEF Told
<1>6. ASSUME action = "UPDATE", NEW n, NEW c, n = name[u], error \/ c \in changes
      PROVE  Told(n, c)'
  <2>1. PICK h \in entries' : /\ h.name = e.name /\ h.action = e.action /\ e.changes \subseteq h.changes
                              /\ e.error => h.error
    BY <1>4
  <2>2. h.name = n /\ h.action = "UPDATE" /\ (h.error \/ c \in h.changes)
    BY <1>1, <1>6, <2>1
  <2> QED
    BY <2>2 DEF Told
<1> QED
  BY <1>5, <1>6

\* Recording shows nothing but what is recorded.
LEMMA RecordShows ==
  ASSUME TypeOK, NEW u \in Uids, NEW action \in {"UPDATE", "SKIP"}, NEW error \in BOOLEAN,
         NEW changes \in SUBSET Change,
         entries' = Appended(EntryOf(u, action, error, changes))
  PROVE  \A h \in entries' : \A c \in h.changes :
           \/ h.name = name[u] /\ c \in changes
           \/ \E f \in entries : f.name = h.name /\ c \in f.changes
<1> DEFINE e == EntryOf(u, action, error, changes)
<1>1. e \in Entry /\ e.name = name[u] /\ e.changes = changes
  BY DEF TypeOK, EntryOf, Entry
<1>2. entries \subseteq Entry
  BY DEF TypeOK
<1> HIDE DEF e
<1>3. entries' = Appended(e)
  BY DEF e
<1>4. \A h \in entries' : \A c \in h.changes :
        \/ h.name = e.name /\ c \in e.changes
        \/ \E f \in entries : f.name = h.name /\ c \in f.changes
  BY <1>1, <1>2, <1>3, AppendFacts
<1> QED
  BY <1>1, <1>4

\* What was backed stays backed.
LEMMA StaysBacked ==
  ASSUME NEW n, NEW c, Backed(n, c), logged \subseteq logged', applied \subseteq applied',
         UNCHANGED <<driver, dryRun, name>>
  PROVE  Backed(n, c)'
BY DEF Backed

\* A step of one identity keeps the audit in agreement with the service.
LEMMA TurnAudit ==
  ASSUME IInv, AuditInv, NEW u \in Uids, Turn(u), Tells(u) PROVE AuditInv'
<1>1. PICK n \in Names, C \in SUBSET Change :
        /\ n = name[u]
        /\ applied \subseteq applied' /\ applied' \subseteq applied \cup {<<n, c>> : c \in C}
        /\ \/ /\ RecordError(u, "UPDATE") /\ made'[u] = {}
           \/ /\ C = {} /\ made[u] = {} /\ made'[u] = {}
              /\ RecordError(u, "SKIP") \/ Record(u, "SKIP", {})
           \/ /\ \A c \in C : Backed(n, c)'
              /\ Record(u, "UPDATE", made[u] \cup C) /\ made'[u] = {}
           \/ /\ \A c \in C : Backed(n, c)'
              /\ UNCHANGED entries /\ made'[u] = made[u] \cup C
              /\ made'[u] # {} => Waiting(u)'
  BY DEF Tells
<1>2. /\ UNCHANGED <<driver, dryRun, name, outcome>> /\ logged \subseteq logged'
      /\ \A v \in Uids \ {u} : made'[v] = made[v] /\ at'[v] = at[v]
  BY DEF Tells, Turn, input, IInv, TypeOK
<1>3. \A m, c : Backed(m, c) => Backed(m, c)'
  BY <1>1, <1>2, StaysBacked
<1>4. TypeOK /\ made[u] \in SUBSET Change /\ made[u] \cup C \in SUBSET Change
  BY DEF IInv, TypeOK
<1>5. \A c \in made[u] : Backed(n, c)
  BY <1>1 DEF AuditInv
<1>6. \A e \in entries : \A c \in e.changes : Backed(e.name, c)
  BY DEF AuditInv, AuditTruthful, Backed
<1>7. \/ UNCHANGED entries /\ made'[u] = made[u] \cup C
      \/ \E action \in {"UPDATE", "SKIP"}, error \in BOOLEAN, changes \in SUBSET Change :
           /\ entries' = Appended(EntryOf(u, action, error, changes))
           /\ \A c \in changes : Backed(n, c)'
           /\ \A c \in made[u] \cup C : action = "UPDATE" /\ (error \/ c \in changes)
  <2>1. CASE RecordError(u, "UPDATE")
    BY <2>1 DEF RecordError
  <2>2. CASE C = {} /\ made[u] = {} /\ (RecordError(u, "SKIP") \/ Record(u, "SKIP", {}))
    BY <2>2 DEF RecordError, Record
  <2>3. CASE (\A c \in C : Backed(n, c)') /\ Record(u, "UPDATE", made[u] \cup C)
    <3>1. \A c \in made[u] \cup C : Backed(n, c)'
      BY <1>3, <1>5, <2>3
    <3> QED
      BY <1>4, <2>3, <3>1 DEF Record
  <2> QED
    BY <1>1, <2>1, <2>2, <2>3
<1>8. \A m, c : Told(m, c) => Told(m, c)'
  <2>1. CASE UNCHANGED entries
    BY <2>1 DEF Told
  <2> QED
    BY <1>4, <1>7, <2>1, RecordTells
<1>9. \A c \in made[u] \cup C : Told(n, c)' \/ c \in made'[u]
  BY <1>1, <1>4, <1>7, RecordTells
<1>10. ASSUME NEW h \in entries', NEW c \in h.changes, NEW m, m = h.name PROVE Backed(m, c)'
  <2>1. CASE \E f \in entries : f.name = m /\ c \in f.changes
    BY <1>3, <1>6, <2>1
  <2>2. CASE UNCHANGED entries
    BY <1>10, <2>1, <2>2
  <2>3. ASSUME NEW action \in {"UPDATE", "SKIP"}, NEW error \in BOOLEAN, NEW changes \in SUBSET Change,
               entries' = Appended(EntryOf(u, action, error, changes)),
               \A d \in changes : Backed(n, d)'
        PROVE  Backed(m, c)'
    <3>1. (m = n /\ c \in changes) \/ \E f \in entries : f.name = m /\ c \in f.changes
      BY <1>1, <1>4, <1>10, <2>3, RecordShows
    <3> QED
      BY <2>1, <2>3, <3>1
  <2> QED
    BY <1>7, <2>2, <2>3
<1>11. AuditTruthful'
  BY <1>2, <1>10 DEF AuditTruthful, Backed
<1>12. ASSUME NEW v \in Uids, NEW c \in made'[v], NEW m, m = name[v]
      PROVE  Waiting(v)' /\ Backed(m, c)'
  <2>1. CASE v = u
    BY <1>1, <1>3, <1>5, <1>12, <2>1
  <2>2. CASE v # u
    <3>1. Waiting(v) /\ Backed(m, c) /\ at'[v] = at[v]
      BY <1>2, <1>12, <2>2 DEF AuditInv
    <3> QED
      BY <1>3, <3>1 DEF Waiting
  <2> QED
    BY <2>1, <2>2
<1>13. ASSUME NEW m \in Names, NEW c \in Change, <<m, c>> \in applied'
       PROVE  Told(m, c)' \/ \E v \in Uids : name[v] = m /\ c \in made'[v]
  <2>1. CASE <<m, c>> \notin applied
    <3>1. m = n /\ c \in C
      BY <1>1, <1>13, <2>1
    <3> QED
      BY <1>1, <1>9, <3>1
  <2>2. CASE Told(m, c)
    BY <1>8, <2>2
  <2>3. ASSUME NEW v \in Uids, name[v] = m, c \in made[v]
        PROVE  Told(m, c)' \/ \E w \in Uids : name[w] = m /\ c \in made'[w]
    <3>1. CASE v = u
      BY <1>1, <1>9, <2>3, <3>1
    <3>2. CASE v # u
      BY <1>2, <2>3, <3>2
    <3> QED
      BY <3>1, <3>2
  <2> QED
    BY <2>1, <2>2, <2>3 DEF AuditInv
<1>14. outcome' # "ok"
  BY <1>2 DEF Turn, IInv, PhaseFits
<1> QED
  <2>1. \A v \in Uids : \A c \in made'[v] : Waiting(v)' /\ Backed(name[v], c)'
    BY <1>2, <1>12 DEF Backed
  <2> QED
    BY <1>2, <1>11, <1>13, <1>14, <2>1 DEF AuditInv, Backed

-----------------------------------------------------------------------------
\* A write that is carried out, or left out in a dry run, backs its changes.
LEMMA WriteBacks ==
  ASSUME NEW u, NEW changes, NEW account, UNCHANGED input,
         IF dryRun THEN UNCHANGED <<accounts, applied, faults>> ELSE Written(u, changes, account)
  PROVE  /\ applied \subseteq applied'
         /\ applied' \subseteq applied \cup {<<name[u], c>> : c \in changes}
         /\ \A n : n = name[u] => \A c \in changes : Backed(n, c)'
<1>1. (applied' = applied /\ dryRun) \/ applied' = applied \cup {<<name[u], c>> : c \in changes}
  BY DEF Written
<1>2. UNCHANGED dryRun
  BY DEF input
<1> QED
  BY <1>1, <1>2 DEF Backed

\* A step that makes changes, and records them or keeps them.
LEMMA MadeTells ==
  ASSUME TypeOK, NEW u \in Uids, NEW changes \in SUBSET Change,
         applied \subseteq applied', applied' \subseteq applied \cup {<<name[u], c>> : c \in changes},
         \A n : n = name[u] => \A c \in changes : Backed(n, c)',
         logged \subseteq logged', \A v \in Uids \ {u} : made'[v] = made[v],
         \/ Record(u, "UPDATE", made[u] \cup changes) /\ made'[u] = {}
         \/ UNCHANGED entries /\ made'[u] = made[u] \cup changes /\ Waiting(u)'
  PROVE  Tells(u)
<1>1. PICK n \in Names : n = name[u]
  BY DEF TypeOK
<1>2. \A c \in changes : Backed(n, c)'
  BY <1>1
<1> QED
  BY <1>1, <1>2 DEF Tells

\* A step that fails, with or without effect, and records the error of an update.
LEMMA FailTells ==
  ASSUME TypeOK, NEW u \in Uids, NEW changes \in SUBSET Change, NEW account,
         Refused(u, changes, account) \/ UNCHANGED applied,
         RecordError(u, "UPDATE"), UNCHANGED logged,
         \A v \in Uids \ {u} : made'[v] = made[v], made'[u] = {}
  PROVE  Tells(u)
<1>1. PICK n \in Names : n = name[u]
  BY DEF TypeOK
<1>2. applied \subseteq applied' /\ applied' \subseteq applied \cup {<<n, c>> : c \in changes}
  BY <1>1 DEF Refused
<1> QED
  BY <1>1, <1>2 DEF Tells

\* A step that changes nothing, of an identity with nothing to record.
LEMMA IdleTells ==
  ASSUME TypeOK, AuditInv, NEW u \in Uids, ~Waiting(u),
         UNCHANGED <<applied, made>>, logged \subseteq logged',
         \/ UNCHANGED entries \/ RecordError(u, "SKIP") \/ RecordError(u, "UPDATE")
         \/ Record(u, "SKIP", {})
  PROVE  Tells(u)
<1>1. PICK n \in Names : n = name[u]
  BY DEF TypeOK
<1>2. made[u] = {} /\ made'[u] = {}
  BY DEF AuditInv
<1>3. {} \in SUBSET Change /\ applied' = applied
  OBVIOUS
<1>4. CASE UNCHANGED entries
  BY <1>1, <1>2, <1>3, <1>4 DEF Tells
<1>5. CASE RecordError(u, "UPDATE")
  BY <1>1, <1>2, <1>3, <1>5 DEF Tells
<1>6. CASE RecordError(u, "SKIP") \/ Record(u, "SKIP", {})
  BY <1>1, <1>2, <1>3, <1>6 DEF Tells
<1> QED
  BY <1>4, <1>5, <1>6

\* An identity with nothing to record.
LEMMA NothingMade ==
  ASSUME AuditInv, NEW u \in Uids, ~Waiting(u) PROVE made[u] = {}
BY DEF AuditInv

\* The steps of the Active Directory operator.
LEMMA ADSearchTells ==
  ASSUME IInv, AuditInv, NEW u \in Uids, ADSearch(u) PROVE Tells(u)
<1>1. ~Waiting(u) /\ UNCHANGED <<applied, made>> /\ logged \subseteq logged'
  BY DEF ADSearch, ADGiveUp, Waiting, history
<1>2. UNCHANGED entries \/ RecordError(u, "SKIP") \/ RecordError(u, "UPDATE")
  BY DEF ADSearch
<1> QED
  BY <1>1, <1>2, IdleTells DEF IInv

LEMMA ADSwitchTells ==
  ASSUME IInv, AuditInv, NEW u \in Uids, ADSwitch(u) PROVE Tells(u)
<1> DEFINE account == [accounts[name[u]] EXCEPT !.active = ~Off(u)]
<1>1. ~Waiting(u) /\ UNCHANGED <<input, made, logged>>
  BY DEF ADSwitch, Waiting
<1>2. made[u] = {} /\ made'[u] = {} /\ {"active"} \in SUBSET Change
  BY <1>1, NothingMade DEF Change
<1>3. CASE /\ IF dryRun THEN UNCHANGED <<accounts, applied, faults>> ELSE Written(u, {"active"}, account)
           /\ Record(u, "UPDATE", {"active"})
  <2> HIDE DEF account
  <2>1. Record(u, "UPDATE", made[u] \cup {"active"})
    BY <1>2, <1>3
  <2> QED
    BY <1>1, <1>2, <1>3, <2>1, WriteBacks, MadeTells DEF IInv
<1>4. CASE Refused(u, {"active"}, account) /\ RecordError(u, "UPDATE")
  <2> HIDE DEF account
  <2> QED
    BY <1>1, <1>2, <1>4, FailTells DEF IInv
<1> QED
  BY <1>3, <1>4 DEF ADSwitch

LEMMA ADModifyTells ==
  ASSUME IInv, AuditInv, NEW u \in Uids, ADModify(u) PROVE Tells(u)
<1> DEFINE account == [accounts[name[u]] EXCEPT !.value = want[u].value]
           place == ADPlace(u, seen[u], {"switch", "modify"})
<1>1. ~Waiting(u) /\ UNCHANGED <<input, logged>>
  BY DEF ADModify, Waiting
<1>2. made[u] = {} /\ {"value"} \in SUBSET Change /\ made \in [Uids -> SUBSET Change]
      /\ at \in [Uids -> Places]
  BY <1>1, NothingMade DEF Change, IInv, TypeOK, Places
<1>3. CASE /\ IF dryRun THEN UNCHANGED <<accounts, applied, faults>> ELSE Written(u, {"value"}, account)
           /\ IF place = "move"
              THEN made' = [made EXCEPT ![u] = {"value"}] /\ UNCHANGED entries
              ELSE Record(u, "UPDATE", {"value"}) /\ UNCHANGED made
           /\ at' = [at EXCEPT ![u] = place]
  <2> HIDE DEF account, place
  <2>1. /\ \/ Record(u, "UPDATE", made[u] \cup {"value"}) /\ made'[u] = {}
           \/ UNCHANGED entries /\ made'[u] = made[u] \cup {"value"} /\ Waiting(u)'
        /\ \A v \in Uids \ {u} : made'[v] = made[v]
    BY <1>2, <1>3 DEF Waiting
  <2>2. /\ applied \subseteq applied' /\ applied' \subseteq applied \cup {<<name[u], c>> : c \in {"value"}}
        /\ \A n : n = name[u] => \A c \in {"value"} : Backed(n, c)'
    <3>1. UNCHANGED input
      BY <1>1
    <3>2. IF dryRun THEN UNCHANGED <<accounts, applied, faults>> ELSE Written(u, {"value"}, account)
      BY <1>3
    <3>3. \/ applied' = applied /\ dryRun
          \/ applied' = applied \cup {<<name[u], c>> : c \in {"value"}}
      BY <3>2 DEF Written
    <3> QED
      BY <3>1, <3>3 DEF Backed, input
  <2> QED
    BY <1>1, <1>2, <2>1, <2>2, MadeTells DEF IInv
<1>4. CASE Refused(u, {"value"}, account) /\ RecordError(u, "UPDATE") /\ UNCHANGED made
  <2> HIDE DEF account
  <2> QED
    BY <1>1, <1>2, <1>4, FailTells DEF IInv
<1> QED
  BY <1>3, <1>4 DEF ADModify, Go

LEMMA ADMoveTells ==
  ASSUME IInv, AuditInv, NEW u \in Uids, ADMove(u) PROVE Tells(u)
<1> DEFINE account == [accounts[name[u]] EXCEPT !.home = want[u].home]
<1>1. UNCHANGED <<input, logged>> /\ {"home"} \in SUBSET Change
  BY DEF ADMove, Change
<1>2. made'[u] = {} /\ \A v \in Uids \ {u} : made'[v] = made[v]
  BY DEF ADMove, IInv, TypeOK
<1>3. CASE /\ IF dryRun THEN UNCHANGED <<accounts, applied, faults>> ELSE Written(u, {"home"}, account)
           /\ Record(u, "UPDATE", made[u] \cup {"home"})
  <2> HIDE DEF account
  <2> QED
    BY <1>1, <1>2, <1>3, WriteBacks, MadeTells DEF IInv
<1>4. CASE Refused(u, {"home"}, account) /\ RecordError(u, "UPDATE")
  <2> HIDE DEF account
  <2> QED
    BY <1>1, <1>2, <1>4, FailTells DEF IInv
<1> QED
  BY <1>3, <1>4 DEF ADMove

LEMMA ADGroupsTells ==
  ASSUME IInv, AuditInv, NEW u \in Uids, ADGroups(u) PROVE Tells(u)
<1>1. at[u] = "groups" /\ UNCHANGED <<input, logged>>
  BY DEF ADGroups
<1>2. made[u] \in SUBSET Change /\ left[u] \in SUBSET Groups /\ made \in [Uids -> SUBSET Change]
  BY DEF IInv, TypeOK
<1>3. PICK g \in ADTurn(u) :
        \/ /\ IF dryRun THEN UNCHANGED <<accounts, applied, faults>>
              ELSE Resolves(u) /\ Written(u, {g}, Toggled(u, g))
           /\ IF left[u] = {g}
              THEN /\ Record(u, "UPDATE", made[u] \cup {g})
                   /\ made' = [made EXCEPT ![u] = {}]
              ELSE /\ made' = [made EXCEPT ![u] = @ \cup {g}]
                   /\ UNCHANGED <<at, entries>>
        \/ /\ \/ Resolves(u) /\ Refused(u, {g}, Toggled(u, g))
              \/ ~Resolves(u) /\ UNCHANGED <<accounts, applied, faults>>
           /\ ADGroupsFail(u, g)
           /\ made' = [made EXCEPT ![u] = {}]
  BY DEF ADGroups
<1>4. {g} \in SUBSET Change
  BY <1>2 DEF ADTurn, Change
<1>5. CASE /\ IF dryRun THEN UNCHANGED <<accounts, applied, faults>>
              ELSE Resolves(u) /\ Written(u, {g}, Toggled(u, g))
           /\ IF left[u] = {g}
              THEN /\ Record(u, "UPDATE", made[u] \cup {g})
                   /\ made' = [made EXCEPT ![u] = {}]
              ELSE /\ made' = [made EXCEPT ![u] = @ \cup {g}]
                   /\ UNCHANGED <<at, entries>>
  <2>1. /\ \/ Record(u, "UPDATE", made[u] \cup {g}) /\ made'[u] = {}
           \/ UNCHANGED entries /\ made'[u] = made[u] \cup {g} /\ Waiting(u)'
        /\ \A v \in Uids \ {u} : made'[v] = made[v]
    BY <1>1, <1>2, <1>5 DEF Waiting
  <2>2. IF dryRun THEN UNCHANGED <<accounts, applied, faults>> ELSE Written(u, {g}, Toggled(u, g))
    BY <1>5
  <2> QED
    BY <1>1, <1>4, <2>1, <2>2, WriteBacks, MadeTells DEF IInv
<1>6. CASE /\ \/ Resolves(u) /\ Refused(u, {g}, Toggled(u, g))
              \/ ~Resolves(u) /\ UNCHANGED <<accounts, applied, faults>>
           /\ ADGroupsFail(u, g)
           /\ made' = [made EXCEPT ![u] = {}]
  BY <1>1, <1>2, <1>4, <1>6, FailTells DEF IInv, ADGroupsFail
<1> QED
  BY <1>3, <1>5, <1>6

\* The steps of the iRedAdmin operator.
LEMMA IRStartTells ==
  ASSUME IInv, AuditInv, NEW u \in Uids, IRStart(u) PROVE Tells(u)
<1>1. ~Waiting(u) /\ UNCHANGED <<applied, made>> /\ logged \subseteq logged'
  BY DEF IRStart, Waiting
<1>2. UNCHANGED entries \/ RecordError(u, "SKIP") \/ RecordError(u, "UPDATE")
  BY DEF IRStart
<1> QED
  BY <1>1, <1>2, IdleTells DEF IInv

LEMMA IRSwitchTells ==
  ASSUME IInv, AuditInv, NEW u \in Uids, IRSwitch(u) PROVE Tells(u)
<1> DEFINE account == [accounts[name[u]] EXCEPT !.active = ~IROff(u)]
<1>1. ~Waiting(u) /\ UNCHANGED <<input, made, logged>>
  BY DEF IRSwitch, Waiting
<1>2. made[u] = {} /\ made'[u] = {} /\ {"active"} \in SUBSET Change
  BY <1>1, NothingMade DEF Change
<1>3. CASE /\ IF dryRun THEN UNCHANGED <<accounts, applied, faults>> ELSE Written(u, {"active"}, account)
           /\ Record(u, "UPDATE", {"active"})
  <2> HIDE DEF account
  <2>1. Record(u, "UPDATE", made[u] \cup {"active"})
    BY <1>2, <1>3
  <2> QED
    BY <1>1, <1>2, <1>3, <2>1, WriteBacks, MadeTells DEF IInv
<1>4. CASE Refused(u, {"active"}, account) /\ RecordError(u, "UPDATE")
  <2> HIDE DEF account
  <2> QED
    BY <1>1, <1>2, <1>4, FailTells DEF IInv
<1> QED
  BY <1>3, <1>4 DEF IRSwitch

LEMMA IRGetTells ==
  ASSUME IInv, AuditInv, NEW u \in Uids, IRGet(u) PROVE Tells(u)
<1>1. ~Waiting(u) /\ UNCHANGED <<applied, made>> /\ logged \subseteq logged'
  BY DEF IRGet, Waiting
<1>2. UNCHANGED entries \/ RecordError(u, "SKIP") \/ Record(u, "SKIP", {})
  BY DEF IRGet
<1> QED
  BY <1>1, <1>2, IdleTells DEF IInv

\* The end of an update records what was made, or keeps it.
LEMMA IREndTells ==
  ASSUME TypeOK, NEW u \in Uids, NEW changes, IREnd(u, changes)
  PROVE  /\ \/ Record(u, "UPDATE", changes) /\ made'[u] = {}
            \/ UNCHANGED entries /\ made'[u] = changes /\ Waiting(u)'
         /\ \A v \in Uids \ {u} : made'[v] = made[v]
BY DEF IREnd, Go, Waiting, TypeOK

LEMMA IRModifyTells ==
  ASSUME IInv, AuditInv, NEW u \in Uids, IRModify(u) PROVE Tells(u)
<1> DEFINE data == IRData(u, seen[u])
           account == [accounts[name[u]] EXCEPT
             !.active = IF "active" \in data THEN IRStatus(u, seen[u]) ELSE @,
             !.value = IF "value" \in data THEN want[u].value ELSE @]
<1>1. ~Waiting(u) /\ UNCHANGED <<input, logged>>
  BY DEF IRModify, Waiting
<1>2. made[u] = {} /\ data \in SUBSET Change
  BY <1>1, NothingMade DEF IRData, Change
<1>3. CASE /\ IF dryRun THEN UNCHANGED <<accounts, applied, faults>> ELSE Written(u, data, account)
           /\ IREnd(u, data)
  <2> HIDE DEF account, data
  <2>1. data = made[u] \cup data
    BY <1>2
  <2>2. /\ \/ Record(u, "UPDATE", made[u] \cup data) /\ made'[u] = {}
           \/ UNCHANGED entries /\ made'[u] = made[u] \cup data /\ Waiting(u)'
        /\ \A v \in Uids \ {u} : made'[v] = made[v]
    BY <1>3, <2>1, IREndTells DEF IInv
  <2> QED
    BY <1>1, <1>2, <1>3, <2>2, WriteBacks, MadeTells DEF IInv
<1>4. CASE Refused(u, data, account) /\ RecordError(u, "UPDATE") /\ UNCHANGED made
  <2> HIDE DEF account, data
  <2> QED
    BY <1>1, <1>2, <1>4, FailTells DEF IInv
<1> QED
  BY <1>3, <1>4 DEF IRModify

LEMMA IRSubscribeTells ==
  ASSUME IInv, AuditInv, driver = "iredadmin", NEW u \in Uids, IRSubscribe(u) PROVE Tells(u)
<1>1. made[u] \in SUBSET Change /\ left[u] \in SUBSET Groups /\ UNCHANGED input
  BY DEF IInv, TypeOK, IRSubscribe
<1>2. PICK g \in left[u] :
        LET account == [accounts[name[u]] EXCEPT
              !.groups = IF g \in IRLists(u) THEN @ \cup {g} ELSE @ \ {g}] IN
        /\ IREnd(u, made[u] \cup {g})
        /\ \/ /\ IF dryRun THEN UNCHANGED <<accounts, applied, faults>>
                 ELSE Written(u, {g}, account)
              /\ UNCHANGED logged
           \/ /\ ~dryRun /\ Refused(u, {g}, account)
              /\ logged' = logged \cup {u}
  BY DEF IRSubscribe
<1> DEFINE account == [accounts[name[u]] EXCEPT
                !.groups = IF g \in IRLists(u) THEN @ \cup {g} ELSE @ \ {g}]
<1>3. g \in Groups /\ {g} \in SUBSET Change /\ logged \subseteq logged'
  BY <1>1, <1>2 DEF Change
<1>4. /\ \/ Record(u, "UPDATE", made[u] \cup {g}) /\ made'[u] = {}
         \/ UNCHANGED entries /\ made'[u] = made[u] \cup {g} /\ Waiting(u)'
      /\ \A v \in Uids \ {u} : made'[v] = made[v]
  BY <1>2, IREndTells DEF IInv
<1>5. \/ IF dryRun THEN UNCHANGED <<accounts, applied, faults>> ELSE Written(u, {g}, account)
      \/ Refused(u, {g}, account) /\ logged' = logged \cup {u}
  BY <1>2
<1> HIDE DEF account
<1>6. CASE IF dryRun THEN UNCHANGED <<accounts, applied, faults>> ELSE Written(u, {g}, account)
  BY <1>1, <1>3, <1>4, <1>6, WriteBacks, MadeTells DEF IInv
<1>7. CASE Refused(u, {g}, account) /\ logged' = logged \cup {u}
  <2>1. applied \subseteq applied' /\ applied' \subseteq applied \cup {<<name[u], c>> : c \in {g}}
    BY <1>7 DEF Refused
  <2>2. ASSUME NEW n, n = name[u], NEW c \in {g} PROVE Backed(n, c)'
    BY <1>1, <1>3, <1>7, <2>2 DEF Backed, input
  <2> QED
    BY <1>1, <1>3, <1>4, <2>1, <2>2, MadeTells DEF IInv
<1> QED
  BY <1>5, <1>6, <1>7

\* The steps of the LDAP operator.
LEMMA LDSearchTells ==
  ASSUME IInv, AuditInv, NEW u \in Uids, LDSearch(u) PROVE Tells(u)
<1>1. ~Waiting(u) /\ UNCHANGED <<applied, made, entries>> /\ logged \subseteq logged'
  BY DEF LDSearch, Waiting, history
<1> QED
  BY <1>1, IdleTells DEF IInv

LEMMA LDUpdateTells ==
  ASSUME IInv, AuditInv, NEW u \in Uids, LDUpdate(u) PROVE Tells(u)
<1> DEFINE account == [accounts[name[u]] EXCEPT !.value = want[u].value]
<1>1. ~Waiting(u) /\ UNCHANGED <<input, made, logged>>
  BY DEF LDUpdate, Waiting
<1>2. made[u] = {} /\ made'[u] = {} /\ {"value"} \in SUBSET Change
  BY <1>1, NothingMade DEF Change
<1>3. CASE Written(u, {"value"}, account) /\ Record(u, "UPDATE", {"value"})
  <2> HIDE DEF account
  <2>1. Record(u, "UPDATE", made[u] \cup {"value"})
    BY <1>2, <1>3
  <2>2. /\ applied \subseteq applied' /\ applied' \subseteq applied \cup {<<name[u], c>> : c \in {"value"}}
        /\ \A n : n = name[u] => \A c \in {"value"} : Backed(n, c)'
    BY <1>3 DEF Written, Backed
  <2> QED
    BY <1>1, <1>2, <2>1, <2>2, MadeTells DEF IInv
<1>4. CASE Refused(u, {"value"}, account) /\ RecordError(u, "UPDATE")
  <2> HIDE DEF account
  <2> QED
    BY <1>1, <1>2, <1>4, FailTells DEF IInv
<1> QED
  BY <1>3, <1>4 DEF LDUpdate

-----------------------------------------------------------------------------
\* A step that leaves the identities, the audit and its history alone.
LEMMA QuietAudit ==
  ASSUME AuditInv, UNCHANGED <<input, turn, entries, history>>,
         outcome' = "ok" => outcome = "ok" \/ AllOver, down => down'
  PROVE  AuditInv'
<1>1. AuditTruthful'
  BY DEF AuditInv, AuditTruthful, input, history
<1>2. (\A u \in Uids : \A c \in made[u] : Waiting(u) /\ Backed(name[u], c))'
  BY DEF AuditInv, Waiting, Backed, input, turn, history
<1>3. (\A n \in Names, c \in Change :
         <<n, c>> \in applied => Told(n, c) \/ \E u \in Uids : name[u] = n /\ c \in made[u])'
  BY DEF AuditInv, Told, input, turn, history
<1>4. outcome' = "ok" => AllOver'
  BY DEF AuditInv, AllOver, Unsubmitted, input, turn
<1> QED
  BY <1>1, <1>2, <1>3, <1>4 DEF AuditInv

\* Every step of a call keeps the audit in agreement with the service.
LEMMA StepAudit == ASSUME IInv, AuditInv, [OpNext]_vars PROVE AuditInv'
<1>1. CASE ADFinish \/ IRFinish \/ LDFinish
  <2>1. AllOver /\ UNCHANGED <<input, turn, entries, history, down>>
    BY <1>1 DEF ADFinish, IRFinish, LDFinish, AllDone, AllOver
  <2> QED
    BY <2>1, QuietAudit
<1>2. CASE IRLogin \/ IRList \/ LDConnect \/ Break \/ UNCHANGED vars
  <2>1. /\ UNCHANGED <<input, turn, entries, history>> /\ (outcome' = "ok" => outcome = "ok")
        /\ down => down'
    BY <1>2 DEF IRLogin, IRList, LDConnect, Break, vars
  <2> QED
    BY <2>1, QuietAudit
<1>3. ASSUME NEW u \in Uids, driver = "ad",
             ADSearch(u) \/ ADSwitch(u) \/ ADModify(u) \/ ADMove(u) \/ ADGroups(u)
      PROVE  AuditInv'
  <2>1. Turn(u)
    BY <1>3, ADSearchTurns, ADSwitchTurns, ADModifyTurns, ADMoveTurns, ADGroupsTurns
  <2>2. Tells(u)
    BY <1>3, ADSearchTells, ADSwitchTells, ADModifyTells, ADMoveTells, ADGroupsTells
  <2> QED
    BY <2>1, <2>2, TurnAudit
<1>4. ASSUME NEW u \in Uids, driver = "iredadmin",
             \/ IRStart(u) \/ IRSwitch(u) \/ IRGet(u) \/ IRModify(u) \/ IRSubscribe(u)
      PROVE  AuditInv'
  <2>1. Turn(u)
    BY <1>4, IRStartTurns, IRSwitchTurns, IRGetTurns, IRModifyTurns, IRSubscribeTurns
  <2>2. Tells(u)
    BY <1>4, IRStartTells, IRSwitchTells, IRGetTells, IRModifyTells, IRSubscribeTells
  <2> QED
    BY <2>1, <2>2, TurnAudit
<1>5. ASSUME NEW u \in Uids, driver = "ldap", LDSearch(u) PROVE AuditInv'
  <2>1. CASE UNCHANGED phase
    BY <1>5, <2>1, LDSearchTurns, LDSearchTells, TurnAudit
  <2>2. CASE phase' # phase
    <3>1. UNCHANGED <<input, turn, entries, history, down>> /\ outcome' = "error"
      BY <1>5, <2>2 DEF LDSearch, turn
    <3> QED
      BY <3>1, QuietAudit
  <2> QED
    BY <2>1, <2>2
<1>6. ASSUME NEW u \in Uids, driver = "ldap", LDUpdate(u) PROVE AuditInv'
  BY <1>6, LDUpdateTurns, LDUpdateTells, TurnAudit
<1> QED
  BY <1>1, <1>2, <1>3, <1>4, <1>5, <1>6 DEF OpNext, Sync, ADNext, IRNext, LDNext

\* Before the call nothing is made and nothing recorded.
LEMMA InitAudit == ASSUME OpInit PROVE AuditInv
<1>1. Init
  BY DEF OpInit, ADInit, IRInit, LDInit
<1>2. entries = {} /\ applied = {} /\ outcome = "none" /\ \A u \in Uids : made[u] = {}
  BY <1>1 DEF Init
<1> QED
  BY <1>2 DEF AuditInv, AuditTruthful

\* The audit agrees with the service, but for what waits to be recorded.
THEOREM AuditInvariance == OpSpec => []AuditInv
BY InitAudit, StepAudit, Invariance, PTL DEF OpSpec

\* A change that the audit shows was made, whatever failed after it, but for a dry run
\* and for the mailing lists of iRedAdmin, whose failures are only logged (http.go:169-178).
THEOREM AuditIsTruthful == OpSpec => []AuditTruthful
<1>1. AuditInv => AuditTruthful
  BY DEF AuditInv
<1> QED
  BY <1>1, AuditInvariance, PTL

\* When Sync returned no error, a change that was made is in the audit or an error of its
\* account is, and a report of the call is due (audit.go, audit_report.go).
THEOREM AuditIsComplete == OpSpec => []AuditComplete
<1>1. ASSUME IInv, AuditInv PROVE AuditComplete
  <2> SUFFICES ASSUME outcome = "ok", NEW a \in applied
               PROVE  /\ ReportDue
                      /\ \E e \in entries : e.name = a[1] /\ e.action = "UPDATE"
                                          /\ (e.error \/ a[2] \in e.changes)
    BY DEF AuditComplete
  <2>1. PICK n \in Names, c \in Change : a = <<n, c>>
    BY <1>1 DEF IInv, TypeOK
  <2>2. \A u \in Uids : made[u] = {}
    BY <1>1 DEF AuditInv, AllOver, Unsubmitted, Waiting
  <2>3. Told(n, c)
    BY <1>1, <2>1, <2>2 DEF AuditInv
  <2> QED
    BY <2>1, <2>3 DEF Told, ReportDue
<1> QED
  BY <1>1, Invariance, AuditInvariance, PTL

-----------------------------------------------------------------------------
(***************************************************************************)
(* The report.  That an account is what its identity says at the end, or   *)
(* that the audit holds an error, rests on what the place of an identity   *)
(* says of the account meanwhile: what was passed is as the identity says, *)
(* and what is ahead is as it was read.                                    *)
(***************************************************************************)
Errs(u) == \E e \in entries : e.uid = u /\ e.error

\* What the place of an identity says of the identity.
PlaceFits(u) ==
  /\ driver = "ad" =>
       /\ at[u] \in {"modify", "move", "groups"} => ~Off(u)
       /\ at[u] = "modify" => want[u].value # None
       /\ at[u] = "groups" => want[u].groups # None
       /\ at[u] \in {"switch", "modify", "move", "groups"} => left[u] \subseteq ADGroupsLeft(u, seen[u])
  /\ driver = "iredadmin" => (at[u] \in {"get", "modify", "groups"} => ~IROff(u))
  /\ driver = "ldap" => (at[u] = "modify" => want[u].value # None)

\* What it says of the account, in each driver.
ADStands(u) ==
  LET a == accounts[name[u]]  s == seen[u]  w == want[u] IN
  /\ at[u] \in {"switch", "modify", "move"} =>
       left[u] = ADGroupsLeft(u, s) /\ a.groups = s.groups /\ a.home = s.home
  /\ at[u] \in {"switch", "modify"} => a.value = s.value
  /\ at[u] \in {"modify", "move", "groups"} => a.active
  /\ at[u] \in {"move", "groups"} => w.value \in {None, a.value}
  /\ at[u] = "groups" =>
       /\ a.home = w.home /\ s.home = a.home
       /\ left[u] = ADGroupsLeft(u, a)
       /\ left[u] \cap a.groups = left[u] \cap s.groups
  /\ at[u] = "done" => ADAgrees(u)

IRStands(u) ==
  LET a == accounts[name[u]] IN
  /\ at[u] = "get" => a.active
  /\ at[u] = "modify" => a = seen[u] /\ a.active /\ left[u] = IRListsLeft(u, a)
  /\ at[u] = "groups" =>
       /\ want[u].value \in {None, a.value} /\ a.active = (want[u].status # "false")
       /\ left[u] = IRListsLeft(u, a)
  /\ at[u] = "done" => IRAgrees(u) \/ Mailless(u)

LDStands(u) == at[u] = "done" => LDAgrees(u)

\* The exceptions are those of Reported.
Stands(u) ==
  Alone(u) /\ ~dryRun /\ u \notin logged /\ ~Errs(u) =>
    /\ driver = "ad" => ADStands(u)
    /\ driver = "iredadmin" => IRStands(u)
    /\ driver = "ldap" => LDStands(u)

ReportInv == \A u \in Uids : PlaceFits(u) /\ Stands(u)

\* The account of u is what u says, so that nobody has a reason to write it.
AtRest(u) == Alone(u) /\ Agrees(u) /\ ~(driver = "iredadmin" /\ want[u].status = "false")

\* A step of identity u writes its own account only, not if that is what u says, and
\* its next place fits.
Minds(u) ==
  /\ \A n \in Names \ {name[u]} : accounts'[n] = accounts[n]
  /\ \A v \in Uids \ {u} : left'[v] = left[v]
  /\ AtRest(u) => accounts'[name[u]] = accounts[name[u]]
  /\ PlaceFits(u)' /\ Stands(u)'

\* An error that was recorded is in the audit, and stays there.
LEMMA RecordErrs ==
  ASSUME TypeOK, NEW u \in Uids, NEW action \in {"UPDATE", "SKIP"}, NEW error \in BOOLEAN,
         NEW changes \in SUBSET Change,
         entries' = Appended(EntryOf(u, action, error, changes))
  PROVE  /\ \A v : Errs(v) => Errs(v)'
         /\ error => Errs(u)'
<1> DEFINE e == EntryOf(u, action, error, changes)
<1>1. e \in Entry /\ e.uid = u /\ e.error = error
  BY DEF TypeOK, EntryOf, Entry
<1>2. entries \subseteq Entry
  BY DEF TypeOK
<1> HIDE DEF e
<1>3. entries' = Appended(e)
  BY DEF e
<1>4. \A f \in entries : \E h \in entries' : h.uid = f.uid /\ h.error = f.error
  BY <1>1, <1>2, <1>3, AppendFacts
<1>5. e.error => \E h \in entries' : h.error /\ h.uid = e.uid
  BY <1>1, <1>2, <1>3, AppendFacts
<1>6. ASSUME NEW v, Errs(v) PROVE Errs(v)'
  BY <1>4, <1>6 DEF Errs
<1>7. error => Errs(u)'
  BY <1>1, <1>5 DEF Errs
<1> QED
  BY <1>6, <1>7

LEMMA ErrorErrs ==
  ASSUME TypeOK, NEW u \in Uids, RecordError(u, "UPDATE") \/ RecordError(u, "SKIP")
  PROVE  Errs(u)'
<1>1. {} \in SUBSET Change
  OBVIOUS
<1>2. CASE RecordError(u, "UPDATE")
  BY <1>1, <1>2, RecordErrs DEF RecordError
<1>3. CASE RecordError(u, "SKIP")
  BY <1>1, <1>3, RecordErrs DEF RecordError
<1> QED
  BY <1>2, <1>3

LEMMA TellsErrs ==
  ASSUME TypeOK, NEW u \in Uids, Tells(u) PROVE \A v : Errs(v) => Errs(v)'
<1>1. PICK C \in SUBSET Change :
        \/ UNCHANGED entries
        \/ RecordError(u, "UPDATE") \/ RecordError(u, "SKIP") \/ Record(u, "SKIP", {})
        \/ Record(u, "UPDATE", made[u] \cup C)
  BY DEF Tells
<1>2. {} \in SUBSET Change /\ made[u] \cup C \in SUBSET Change
  BY DEF TypeOK
<1>3. CASE UNCHANGED entries
  BY <1>3 DEF Errs
<1>4. CASE RecordError(u, "UPDATE")
  BY <1>2, <1>4, RecordErrs DEF RecordError
<1>5. CASE RecordError(u, "SKIP")
  BY <1>2, <1>5, RecordErrs DEF RecordError
<1>6. CASE Record(u, "SKIP", {})
  BY <1>2, <1>6, RecordErrs DEF Record
<1>7. CASE Record(u, "UPDATE", made[u] \cup C)
  BY <1>2, <1>7, RecordErrs DEF Record
<1> QED
  BY <1>1, <1>3, <1>4, <1>5, <1>6, <1>7

\* The invariant of an identity that the step is not about.
LEMMA OthersStand ==
  ASSUME NEW v, PlaceFits(v), Stands(v), UNCHANGED input,
         at'[v] = at[v], seen'[v] = seen[v], left'[v] = left[v],
         Alone(v) => accounts'[name[v]] = accounts[name[v]],
         logged \subseteq logged', Errs(v) => Errs(v)'
  PROVE  PlaceFits(v)' /\ Stands(v)'
<1>1. PlaceFits(v)'
  BY DEF PlaceFits, input, Off, ADGroupsLeft, IROff
<1>2. ASSUME Alone(v)', ~dryRun', v \notin logged', ~Errs(v)'
      PROVE  /\ driver' = "ad" => ADStands(v)'
             /\ driver' = "iredadmin" => IRStands(v)'
             /\ driver' = "ldap" => LDStands(v)'
  <2>1. Alone(v) /\ ~dryRun /\ v \notin logged /\ ~Errs(v)
    BY <1>2 DEF Alone, input
  <2>2. accounts'[name[v]] = accounts[name[v]]
    BY <2>1
  <2>3. CASE driver = "ad"
    <3>1. ADStands(v)
      BY <2>1, <2>3 DEF Stands
    <3> QED
      BY <2>2, <2>3, <3>1 DEF ADStands, ADAgrees, ADGroupsLeft, Off, input
  <2>4. CASE driver = "iredadmin"
    <3>1. IRStands(v)
      BY <2>1, <2>4 DEF Stands
    <3> QED
      BY <2>2, <2>4, <3>1 DEF IRStands, IRAgrees, IRListsLeft, IRLists, IROff, Mailless, input
  <2>5. CASE driver = "ldap"
    <3>1. LDStands(v)
      BY <2>1, <2>5 DEF Stands
    <3> QED
      BY <2>2, <2>5, <3>1 DEF LDStands, LDAgrees, input
  <2> QED
    BY <2>3, <2>4, <2>5 DEF input
<1> QED
  BY <1>1, <1>2 DEF Stands

\* A step of one identity keeps the invariant, and settled accounts as they are.
LEMMA TurnReport ==
  ASSUME IInv, ReportInv, NEW u \in Uids, Turn(u), Tells(u), Minds(u)
  PROVE  /\ ReportInv'
         /\ \A v \in Uids : AtRest(v) => accounts'[name[v]] = accounts[name[v]]
<1>1. ASSUME NEW v \in Uids \ {u}, Alone(v) PROVE accounts'[name[v]] = accounts[name[v]]
  BY <1>1 DEF Alone, Minds, IInv, TypeOK
<1>2. UNCHANGED input /\ logged \subseteq logged' /\ \A v : Errs(v) => Errs(v)'
  BY TellsErrs DEF Turn, Tells, IInv
<1>3. \A v \in Uids \ {u} : at'[v] = at[v] /\ seen'[v] = seen[v] /\ left'[v] = left[v]
  BY DEF Turn, Minds, IInv, TypeOK
<1>4. ASSUME NEW v \in Uids PROVE (PlaceFits(v) /\ Stands(v))'
  <2>1. CASE v = u
    BY <2>1 DEF Minds
  <2>2. CASE v # u
    BY <1>1, <1>2, <1>3, <2>2, OthersStand DEF ReportInv
  <2> QED
    BY <2>1, <2>2
<1> QED
  BY <1>1, <1>4 DEF ReportInv, AtRest, Minds

-----------------------------------------------------------------------------
\* Where a turn of the Active Directory operator goes on, by the account s that was read.
LEMMA ADPlaceMeans ==
  ASSUME NEW u, NEW s \in Account, NEW passed
  PROVE  LET p == ADPlace(u, s, passed) IN
         /\ p = "switch" => "switch" \notin passed /\ Off(u) = s.active
         /\ p = "modify" => "modify" \notin passed /\ ~Off(u) /\ want[u].value \notin {None, s.value}
         /\ p = "move"   => "move" \notin passed /\ ~Off(u) /\ want[u].home # s.home
         /\ p = "groups" => ~Off(u) /\ ADGroupsLeft(u, s) # {}
         /\ p # "switch" => "switch" \in passed \/ s.active = ~Off(u)
         /\ p \in {"move", "groups", "done"} /\ ~Off(u) =>
              "modify" \in passed \/ want[u].value \in {None, s.value}
         /\ p \in {"groups", "done"} /\ ~Off(u) => "move" \in passed \/ want[u].home = s.home
         /\ p = "done" /\ ~Off(u) => "groups" \in passed \/ ADGroupsLeft(u, s) = {}
<1>1. s.active \in BOOLEAN /\ Off(u) \in BOOLEAN
  BY DEF Account, Off
<1>2. /\ "switch" \in ADStages(u, s) <=> Off(u) = s.active
      /\ "modify" \in ADStages(u, s) <=> ~Off(u) /\ want[u].value \notin {None, s.value}
      /\ "move" \in ADStages(u, s) <=> ~Off(u) /\ want[u].home # s.home
      /\ "groups" \in ADStages(u, s) <=> ~Off(u) /\ ADGroupsLeft(u, s) # {}
  BY DEF ADStages
<1> QED
  BY <1>1, <1>2 DEF ADPlace

\* The place where a turn goes on fits its identity.
LEMMA ADGoesOn ==
  ASSUME driver = "ad", NEW u, UNCHANGED input, NEW s \in Account, NEW passed,
         at'[u] = ADPlace(u, s, passed), left'[u] \subseteq ADGroupsLeft(u, s),
         seen'[u].groups = s.groups
  PROVE  PlaceFits(u)'
<1>1. /\ at'[u] \in {"modify", "move", "groups"} => ~Off(u)
      /\ at'[u] = "modify" => want[u].value # None
      /\ at'[u] = "groups" => want[u].groups # None
  BY ADPlaceMeans DEF ADGroupsLeft
<1>2. left'[u] \subseteq ADGroupsLeft(u, seen[u])'
  BY DEF ADGroupsLeft, input
<1> QED
  BY <1>1, <1>2 DEF PlaceFits, Off, input

\* So does a place at the end, and one of an identity with an error.
LEMMA DoneFits == ASSUME NEW u, at'[u] = "done" PROVE PlaceFits(u)'
BY DEF PlaceFits

\* The account stands as the place where a turn goes on says, if what was passed is done.
LEMMA ADGoesOnStands ==
  ASSUME driver = "ad", NEW u, want[u] \in Identity, UNCHANGED input,
         NEW s \in Account, NEW a \in Account,
         NEW passed \in {{}, {"switch"}, {"switch", "modify"}, {"switch", "modify", "move"}},
         at'[u] = ADPlace(u, s, passed), left'[u] = ADGroupsLeft(u, s),
         seen'[u].groups = s.groups, seen'[u].value = s.value, seen'[u].home = a.home,
         accounts'[name[u]] = a, a.groups = s.groups,
         a.active = IF "switch" \in passed THEN ~Off(u) ELSE s.active,
         IF "modify" \in passed THEN want[u].value \in {None, a.value} ELSE a.value = s.value,
         IF "move" \in passed THEN a.home = want[u].home ELSE a.home = s.home
  PROVE  ADStands(u)'
<1> DEFINE p == ADPlace(u, s, passed)
<1>1. /\ p \in {"switch", "modify"} => a.value = s.value
      /\ p \in {"modify", "move", "groups"} => ~Off(u)
      /\ p \in {"move", "groups", "done"} /\ ~Off(u) => want[u].value \in {None, a.value}
      /\ p \in {"groups", "done"} /\ ~Off(u) => a.home = want[u].home
      /\ p = "done" /\ ~Off(u) => ADGroupsLeft(u, s) = {}
  <2>1. p = "switch" => "modify" \notin passed
    BY ADPlaceMeans
  <2>2. p = "modify" => "modify" \notin passed
    BY ADPlaceMeans
  <2>3. p \in {"modify", "move", "groups"} => ~Off(u)
    BY ADPlaceMeans
  <2>4. p \in {"move", "groups", "done"} /\ ~Off(u) =>
          "modify" \in passed \/ want[u].value \in {None, s.value}
    BY ADPlaceMeans
  <2>5. p \in {"groups", "done"} /\ ~Off(u) => "move" \in passed \/ want[u].home = s.home
    BY ADPlaceMeans
  <2>6. p = "done" /\ ~Off(u) => ADGroupsLeft(u, s) = {}
    BY ADPlaceMeans
  <2> HIDE DEF p
  <2> QED
    BY <2>1, <2>2, <2>3, <2>4, <2>5, <2>6
<1>2. p # "switch" => a.active = ~Off(u)
  BY ADPlaceMeans
<1>3. ADGroupsLeft(u, s) = ADGroupsLeft(u, a) /\ ADGroupsLeft(u, s) = ADGroupsLeft(u, seen[u])'
  BY DEF ADGroupsLeft, input
<1>4. ADGroupsLeft(u, a) = ADGroupsLeft(u, accounts[name[u]])'
  BY DEF ADGroupsLeft, input
<1>5. p = "done" => ADAgrees(u)'
  <2>1. p = "done" /\ ~Off(u) => want[u].groups \in {None, a.groups}
    BY <1>1 DEF ADGroupsLeft, Identity, Account
  <2> QED
    BY <1>1, <1>2, <2>1 DEF ADAgrees, Off, input
<1> HIDE DEF p
<1>6. at'[u] = p
  BY DEF p
<1>7. /\ at'[u] \in {"switch", "modify", "move"} =>
           left'[u] = ADGroupsLeft(u, seen[u])' /\ a.groups = seen'[u].groups /\ a.home = seen'[u].home
      /\ at'[u] \in {"switch", "modify"} => a.value = seen'[u].value
      /\ at'[u] \in {"modify", "move", "groups"} => a.active
      /\ at'[u] \in {"move", "groups"} => want[u].value \in {None, a.value}
      /\ at'[u] = "groups" =>
           /\ a.home = want[u].home /\ seen'[u].home = a.home
           /\ left'[u] = ADGroupsLeft(u, a)
           /\ left'[u] \cap a.groups = left'[u] \cap seen'[u].groups
  BY <1>1, <1>2, <1>3, <1>6
<1> QED
  BY <1>4, <1>5, <1>6, <1>7, <1>3 DEF ADStands, input

\* A write of the account of u, or none, leaves the others alone.
LEMMA OwnAccount ==
  ASSUME TypeOK, NEW u \in Uids, NEW changes, NEW account,
         \/ UNCHANGED accounts
         \/ Written(u, changes, account) \/ Refused(u, changes, account)
  PROVE  /\ \A n \in Names \ {name[u]} : accounts'[n] = accounts[n]
         /\ accounts'[name[u]] \in {accounts[name[u]], account}
         /\ Written(u, changes, account) => accounts'[name[u]] = account
<1>1. name[u] \in Names /\ accounts \in [Names -> {Missing} \cup Account]
  BY DEF TypeOK
<1>2. accounts' = accounts \/ accounts' = [accounts EXCEPT ![name[u]] = account]
  BY DEF Written, Refused
<1>3. Written(u, changes, account) => accounts' = [accounts EXCEPT ![name[u]] = account]
  BY DEF Written
<1> QED
  BY <1>1, <1>2, <1>3

\* What stands before a step of u, if Stands has something to say after it.
LEMMA Stood ==
  ASSUME TypeOK, ReportInv, NEW u \in Uids, Tells(u), UNCHANGED input,
         Alone(u)', ~dryRun', u \notin logged', ~Errs(u)'
  PROVE  /\ ~dryRun
         /\ driver = "ad" => ADStands(u)
         /\ driver = "iredadmin" => IRStands(u)
         /\ driver = "ldap" => LDStands(u)
<1>1. Alone(u) /\ ~dryRun
  BY DEF Alone, input
<1>2. u \notin logged /\ ~Errs(u)
  BY TellsErrs DEF Tells
<1> QED
  BY <1>1, <1>2 DEF ReportInv, Stands

\* An identity that is given up with an error, or without one, needs no account.
LEMMA GivenUp ==
  ASSUME NEW u, Errs(u)' \/ u \in logged' \/ dryRun' PROVE Stands(u)'
BY DEF Stands

\* The steps of the Active Directory operator.
LEMMA ADSearchMinds ==
  ASSUME IInv, ReportInv, driver = "ad", NEW u \in Uids, ADSearch(u) PROVE Minds(u)
<1>1. /\ UNCHANGED <<input, accounts>> /\ name[u] \in Names /\ want[u] \in Identity
      /\ accounts[name[u]] \in {Missing} \cup Account
      /\ \A v \in Uids \ {u} : left'[v] = left[v]
      /\ left \in [Uids -> SUBSET Groups] /\ at \in [Uids -> Places]
      /\ seen \in [Uids -> {Missing} \cup Account]
  BY DEF ADSearch, ADGiveUp, history, IInv, TypeOK, Places
<1>2. CASE /\ at' = [at EXCEPT ![u] = "done"]
           /\ RecordError(u, "SKIP") \/ RecordError(u, "UPDATE") \/ logged' = logged \cup {u}
  <2>1. at'[u] = "done" /\ (Errs(u)' \/ u \in logged')
    BY <1>1, <1>2, ErrorErrs DEF IInv
  <2> QED
    BY <1>1, <2>1, DoneFits, GivenUp DEF Minds
<1>3. CASE /\ accounts[name[u]] # Missing
           /\ seen' = [seen EXCEPT ![u] = accounts[name[u]]]
           /\ left' = [left EXCEPT ![u] = ADGroupsLeft(u, accounts[name[u]])]
           /\ at' = [at EXCEPT ![u] = ADPlace(u, accounts[name[u]], {})]
  <2> DEFINE a == accounts[name[u]]
  <2>1. /\ a \in Account /\ accounts'[name[u]] = a
        /\ at'[u] = ADPlace(u, a, {}) /\ left'[u] = ADGroupsLeft(u, a) /\ seen'[u] = a
    BY <1>1, <1>3
  <2> HIDE DEF a
  <2>2. PlaceFits(u)'
    BY <1>1, <2>1, ADGoesOn
  <2>3. ADStands(u)'
    BY <1>1, <2>1, ADGoesOnStands
  <2> QED
    BY <1>1, <2>2, <2>3 DEF Minds, Stands, input
<1> QED
  BY <1>2, <1>3 DEF ADSearch, ADGiveUp, Go

LEMMA ADSwitchMinds ==
  ASSUME IInv, ReportInv, driver = "ad", NEW u \in Uids, ADSwitch(u), Tells(u) PROVE Minds(u)
<1> DEFINE account == [accounts[name[u]] EXCEPT !.active = ~Off(u)]
<1>1. /\ at[u] = "switch" /\ seen[u] \in Account /\ accounts[name[u]] \in Account
      /\ want[u] \in Identity /\ at \in [Uids -> Places]
      /\ UNCHANGED <<input, seen, left>>
      /\ left[u] \subseteq ADGroupsLeft(u, seen[u])
  BY AtWork DEF ADSwitch, IInv, TypeOK, Places, ReportInv, PlaceFits
<1>2. account.active = ~Off(u) /\ account \in Account
      /\ account.groups = accounts[name[u]].groups /\ account.home = accounts[name[u]].home
      /\ account.value = accounts[name[u]].value
  BY <1>1 DEF Account, Off
<1>3. \/ /\ IF dryRun THEN UNCHANGED <<accounts, applied, faults>> ELSE Written(u, {"active"}, account)
         /\ at'[u] = ADPlace(u, seen[u], {"switch"})
      \/ /\ Refused(u, {"active"}, account) /\ RecordError(u, "UPDATE") /\ at'[u] = "done"
  BY <1>1 DEF ADSwitch, Go
<1>4. AtRest(u) => account = accounts[name[u]]
  BY <1>1 DEF AtRest, Agrees, ADAgrees, Account
<1> HIDE DEF account
<1>5. /\ \A n \in Names \ {name[u]} : accounts'[n] = accounts[n]
      /\ accounts'[name[u]] \in {accounts[name[u]], account}
      /\ ~dryRun /\ at'[u] # "done" => accounts'[name[u]] = account
      /\ ~dryRun /\ ~Errs(u)' => accounts'[name[u]] = account
  BY <1>3, OwnAccount, ErrorErrs DEF IInv
<1>6. PlaceFits(u)'
  BY <1>1, <1>3, ADGoesOn, DoneFits
<1>7. ASSUME Alone(u)', ~dryRun', u \notin logged', ~Errs(u)' PROVE ADStands(u)'
  <2>1. ADStands(u) /\ ~dryRun
    BY <1>1, <1>7, Stood DEF IInv
  <2>2. at'[u] = ADPlace(u, seen[u], {"switch"})
    BY <1>3, <1>7, ErrorErrs DEF IInv
  <2>3. /\ left[u] = ADGroupsLeft(u, seen[u]) /\ account.groups = seen[u].groups
        /\ account.home = seen[u].home /\ account.value = seen[u].value
    BY <1>1, <1>2, <2>1 DEF ADStands
  <2>4. accounts'[name[u]] = account
    BY <1>5, <1>7, <2>1
  <2> QED
    BY <1>1, <1>2, <2>2, <2>3, <2>4, ADGoesOnStands
<1> QED
  BY <1>1, <1>4, <1>5, <1>6, <1>7 DEF Minds, Stands, input

LEMMA ADModifyMinds ==
  ASSUME IInv, ReportInv, driver = "ad", NEW u \in Uids, ADModify(u), Tells(u) PROVE Minds(u)
<1> DEFINE account == [accounts[name[u]] EXCEPT !.value = want[u].value]
<1>1. /\ at[u] = "modify" /\ seen[u] \in Account /\ accounts[name[u]] \in Account
      /\ want[u] \in Identity /\ at \in [Uids -> Places]
      /\ UNCHANGED <<input, seen, left>>
      /\ left[u] \subseteq ADGroupsLeft(u, seen[u]) /\ ~Off(u) /\ want[u].value # None
  BY AtWork DEF ADModify, IInv, TypeOK, Places, ReportInv, PlaceFits
<1>2. account.value = want[u].value /\ account \in Account
      /\ account.groups = accounts[name[u]].groups /\ account.home = accounts[name[u]].home
      /\ account.active = accounts[name[u]].active
  BY <1>1 DEF Account, Identity
<1>3. \/ /\ IF dryRun THEN UNCHANGED <<accounts, applied, faults>> ELSE Written(u, {"value"}, account)
         /\ at'[u] = ADPlace(u, seen[u], {"switch", "modify"})
      \/ /\ Refused(u, {"value"}, account) /\ RecordError(u, "UPDATE")
         /\ at'[u] = ADPlace(u, seen[u], {"switch", "modify", "move"})
  BY <1>1 DEF ADModify, Go
<1>4. AtRest(u) => account = accounts[name[u]]
  BY <1>1 DEF AtRest, Agrees, ADAgrees, Account
<1> HIDE DEF account
<1>5. /\ \A n \in Names \ {name[u]} : accounts'[n] = accounts[n]
      /\ accounts'[name[u]] \in {accounts[name[u]], account}
      /\ ~dryRun /\ ~Errs(u)' => accounts'[name[u]] = account
  BY <1>3, OwnAccount, ErrorErrs DEF IInv
<1>6. PlaceFits(u)'
  BY <1>1, <1>3, ADGoesOn
<1>7. ASSUME Alone(u)', ~dryRun', u \notin logged', ~Errs(u)' PROVE ADStands(u)'
  <2>1. ADStands(u) /\ ~dryRun
    BY <1>1, <1>7, Stood DEF IInv
  <2>2. at'[u] = ADPlace(u, seen[u], {"switch", "modify"})
    BY <1>3, <1>7, ErrorErrs DEF IInv
  <2>3. /\ left[u] = ADGroupsLeft(u, seen[u]) /\ account.groups = seen[u].groups
        /\ account.home = seen[u].home /\ account.active
    BY <1>1, <1>2, <2>1 DEF ADStands
  <2>4. accounts'[name[u]] = account /\ account.active = ~Off(u)
    BY <1>1, <1>2, <1>5, <1>7, <2>1, <2>3 DEF Account
  <2> QED
    BY <1>1, <1>2, <2>2, <2>3, <2>4, ADGoesOnStands
<1> QED
  BY <1>1, <1>4, <1>5, <1>6, <1>7 DEF Minds, Stands, input

LEMMA ADMoveMinds ==
  ASSUME IInv, ReportInv, driver = "ad", NEW u \in Uids, ADMove(u), Tells(u) PROVE Minds(u)
<1> DEFINE account == [accounts[name[u]] EXCEPT !.home = want[u].home]
<1>1. /\ at[u] = "move" /\ seen[u] \in Account /\ accounts[name[u]] \in Account
      /\ want[u] \in Identity /\ want[u].home \in Homes /\ at \in [Uids -> Places]
      /\ seen \in [Uids -> {Missing} \cup Account]
      /\ UNCHANGED <<input, left>>
      /\ left[u] \subseteq ADGroupsLeft(u, seen[u]) /\ ~Off(u)
  BY AtWork DEF ADMove, IInv, TypeOK, Places, ReportInv, PlaceFits
<1>2. account.home = want[u].home /\ account \in Account
      /\ account.groups = accounts[name[u]].groups /\ account.value = accounts[name[u]].value
      /\ account.active = accounts[name[u]].active
  BY <1>1 DEF Account, Identity
<1>3. /\ at'[u] = ADPlace(u, seen[u], {"switch", "modify", "move"})
      /\ \/ /\ IF dryRun THEN UNCHANGED <<accounts, applied, faults>> ELSE Written(u, {"home"}, account)
            /\ seen'[u] = [seen[u] EXCEPT !.home = want[u].home]
         \/ /\ Refused(u, {"home"}, account) /\ RecordError(u, "UPDATE") /\ seen' = seen
  BY <1>1 DEF ADMove, Go
<1>4. AtRest(u) => account = accounts[name[u]]
  BY <1>1 DEF AtRest, Agrees, ADAgrees, Account
<1> HIDE DEF account
<1>5. /\ \A n \in Names \ {name[u]} : accounts'[n] = accounts[n]
      /\ accounts'[name[u]] \in {accounts[name[u]], account}
      /\ ~dryRun /\ ~Errs(u)' => accounts'[name[u]] = account
  BY <1>3, OwnAccount, ErrorErrs DEF IInv
<1>6. seen'[u].groups = seen[u].groups /\ seen'[u].value = seen[u].value
  BY <1>1, <1>3 DEF Account
<1>7. PlaceFits(u)'
  BY <1>1, <1>3, <1>6, ADGoesOn
<1>8. ASSUME Alone(u)', ~dryRun', u \notin logged', ~Errs(u)' PROVE ADStands(u)'
  <2>1. ADStands(u) /\ ~dryRun
    BY <1>1, <1>8, Stood DEF IInv
  <2>2. seen'[u].home = want[u].home
    BY <1>1, <1>3, <1>8, ErrorErrs DEF IInv, Account
  <2>3. /\ left[u] = ADGroupsLeft(u, seen[u]) /\ account.groups = seen[u].groups
        /\ account.active /\ want[u].value \in {None, account.value}
    BY <1>1, <1>2, <2>1 DEF ADStands
  <2>4. accounts'[name[u]] = account /\ account.active = ~Off(u)
    BY <1>1, <1>2, <1>5, <1>8, <2>1, <2>3 DEF Account
  <2> QED
    BY <1>1, <1>2, <1>3, <1>6, <2>2, <2>3, <2>4, ADGoesOnStands
<1> QED
  BY <1>1, <1>4, <1>5, <1>7, <1>8 DEF Minds, Stands, input

LEMMA ADGroupsMinds ==
  ASSUME IInv, ReportInv, driver = "ad", NEW u \in Uids, ADGroups(u), Tells(u) PROVE Minds(u)
<1>1. /\ at[u] = "groups" /\ seen[u] \in Account /\ accounts[name[u]] \in Account
      /\ want[u] \in Identity /\ at \in [Uids -> Places] /\ left \in [Uids -> SUBSET Groups]
      /\ UNCHANGED <<input, seen>>
      /\ left[u] \subseteq ADGroupsLeft(u, seen[u]) /\ ~Off(u) /\ want[u].groups # None
  BY AtWork DEF ADGroups, IInv, TypeOK, Places, ReportInv, PlaceFits
<1>2. PICK g \in ADTurn(u) :
        \/ /\ IF dryRun THEN UNCHANGED <<accounts, applied, faults>>
              ELSE Resolves(u) /\ Written(u, {g}, Toggled(u, g))
           /\ left' = [left EXCEPT ![u] = @ \ {g}]
           /\ IF left[u] = {g} THEN Go(u, "done") ELSE UNCHANGED at
        \/ /\ \/ Resolves(u) /\ Refused(u, {g}, Toggled(u, g))
              \/ ~Resolves(u) /\ UNCHANGED <<accounts, applied, faults>>
           /\ RecordError(u, "UPDATE") /\ Go(u, "done")
           /\ left' = [left EXCEPT ![u] = {}]
  BY DEF ADGroups, ADGroupsFail
<1> DEFINE account == Toggled(u, g)
           adds == left[u] \ seen[u].groups
<1>3. g \in left[u] /\ (g \in adds \/ adds = {})
  BY DEF ADTurn
<1>4. /\ account \in Account /\ account.active = accounts[name[u]].active
      /\ account.value = accounts[name[u]].value /\ account.home = accounts[name[u]].home
      /\ account.groups = IF g \in adds THEN accounts[name[u]].groups \cup {g}
                                        ELSE accounts[name[u]].groups \ {g}
  BY <1>1, <1>3 DEF Toggled, Account
<1>5. AtRest(u) => account = accounts[name[u]]
  <2> SUFFICES ASSUME AtRest(u) PROVE account = accounts[name[u]]
    OBVIOUS
  <2>1. want[u].groups = accounts[name[u]].groups
    BY <1>1 DEF AtRest, Agrees, ADAgrees
  <2>2. g \in (want[u].groups \ seen[u].groups) \cup (seen[u].groups \ want[u].groups)
    BY <1>1, <1>3 DEF ADGroupsLeft
  <2>3. account.groups = accounts[name[u]].groups
    BY <1>3, <1>4, <2>1, <2>2
  <2>4. account = [accounts[name[u]] EXCEPT !.groups = account.groups]
    BY <1>1, <1>4 DEF Toggled, Account
  <2> QED
    BY <1>1, <2>3, <2>4 DEF Account
<1> HIDE DEF account, adds
<1>6. /\ \A n \in Names \ {name[u]} : accounts'[n] = accounts[n]
      /\ accounts'[name[u]] \in {accounts[name[u]], account}
      /\ ~dryRun /\ ~Errs(u)' => accounts'[name[u]] = account
  <2> USE DEF account
  <2> QED
    BY <1>2, OwnAccount, ErrorErrs DEF IInv
<1>7. \A v \in Uids \ {u} : left'[v] = left[v]
  BY <1>1, <1>2
<1>8. \/ at'[u] = "done"
      \/ at'[u] = "groups" /\ left'[u] \subseteq left[u]
  BY <1>1, <1>2 DEF Go
<1>9. PlaceFits(u)'
  <2>1. CASE at'[u] = "done"
    BY <2>1, DoneFits
  <2>2. CASE at'[u] = "groups" /\ left'[u] \subseteq left[u]
    <3>1. left'[u] \subseteq ADGroupsLeft(u, seen[u])'
      BY <1>1, <2>2 DEF ADGroupsLeft, input
    <3> QED
      BY <1>1, <2>2, <3>1 DEF PlaceFits, Off, input
  <2> QED
    BY <1>8, <2>1, <2>2
<1>10. ASSUME Alone(u)', ~dryRun', u \notin logged', ~Errs(u)' PROVE ADStands(u)'
  <2>1. ADStands(u) /\ ~dryRun
    BY <1>1, <1>10, Stood DEF IInv
  <2> DEFINE a == accounts[name[u]]
  <2>2. /\ a.active /\ want[u].value \in {None, a.value} /\ a.home = want[u].home
        /\ seen[u].home = a.home /\ left[u] = ADGroupsLeft(u, a)
        /\ left[u] \cap a.groups = left[u] \cap seen[u].groups
    BY <1>1, <2>1 DEF ADStands
  <2>3. accounts'[name[u]] = account /\ account.home = a.home /\ account.value = a.value
        /\ account.active = a.active /\ account \in Account
    BY <1>4, <1>6, <1>10, <2>1
  <2>4. /\ left'[u] = left[u] \ {g}
        /\ IF left[u] = {g} THEN at'[u] = "done" ELSE at'[u] = "groups"
    BY <1>1, <1>2, <1>10, ErrorErrs DEF IInv, Go
  <2>5. g \in left[u] /\ account.groups = IF g \notin a.groups THEN a.groups \cup {g} ELSE a.groups \ {g}
    BY <1>3, <1>4, <2>2 DEF adds
  <2>6. ADGroupsLeft(u, account) = left[u] \ {g}
    BY <1>1, <2>2, <2>5 DEF ADGroupsLeft
  <2>7. (left[u] \ {g}) \cap account.groups = (left[u] \ {g}) \cap seen[u].groups
    BY <2>2, <2>5
  <2> HIDE DEF a
  <2>8. CASE at'[u] = "done"
    <3>1. ADGroupsLeft(u, account) = {}
      BY <2>4, <2>6, <2>8
    <3>2. want[u].groups = account.groups
      BY <1>1, <2>3, <3>1 DEF ADGroupsLeft, Identity, Account
    <3>3. account # Missing
      BY <2>3
    <3>4. ADAgrees(u)'
      BY <1>1, <2>2, <2>3, <3>2, <3>3 DEF ADAgrees, Off, input
    <3> QED
      BY <2>8, <3>4 DEF ADStands
  <2>9. CASE at'[u] = "groups"
    <3>1. ADGroupsLeft(u, account) = ADGroupsLeft(u, accounts[name[u]])'
      BY <1>1, <2>3 DEF ADGroupsLeft, input
    <3>2. left'[u] = ADGroupsLeft(u, accounts[name[u]])'
      BY <2>4, <2>6, <3>1
    <3> QED
      BY <1>1, <2>2, <2>3, <2>4, <2>7, <2>9, <3>2 DEF ADStands, input
  <2> QED
    BY <2>4, <2>8, <2>9
<1> QED
  BY <1>1, <1>5, <1>6, <1>7, <1>9, <1>10 DEF Minds, Stands, input

\* The steps of the iRedAdmin operator.
LEMMA IRStartMinds ==
  ASSUME IInv, driver = "iredadmin", NEW u \in Uids, IRStart(u) PROVE Minds(u)
<1>1. UNCHANGED <<input, accounts, left>> /\ at \in [Uids -> Places]
  BY DEF IRStart, IInv, TypeOK, Places
<1>2. CASE at'[u] = "done" /\ (u \in logged' \/ RecordError(u, "SKIP") \/ RecordError(u, "UPDATE"))
  <2>1. u \in logged' \/ Errs(u)'
    BY <1>2, ErrorErrs DEF IInv
  <2> QED
    BY <1>1, <1>2, <2>1, DoneFits, GivenUp DEF Minds
<1>3. CASE Mailless(u) /\ at'[u] = "done"
  <2>1. PlaceFits(u)' /\ IRStands(u)'
    BY <1>1, <1>3 DEF PlaceFits, IRStands, Mailless, input
  <2> QED
    BY <1>1, <2>1 DEF Minds, Stands, input
<1>4. CASE /\ accounts[name[u]] # Missing
           /\ at'[u] = IF accounts[name[u]].active = IROff(u) THEN "switch"
                       ELSE IF IROff(u) THEN "done" ELSE "get"
  <2>1. accounts[name[u]].active \in BOOLEAN /\ IROff(u) \in BOOLEAN
    BY <1>4 DEF IInv, TypeOK, Account, IROff
  <2>2. PlaceFits(u)'
    BY <1>1, <1>4 DEF PlaceFits, IROff, input
  <2>3. IRStands(u)'
    BY <1>1, <1>4, <2>1 DEF IRStands, IRAgrees, IROff, input
  <2> QED
    BY <1>1, <2>2, <2>3 DEF Minds, Stands, input
<1> QED
  BY <1>1, <1>2, <1>3, <1>4 DEF IRStart, IRRead, Go

LEMMA IRSwitchMinds ==
  ASSUME IInv, ReportInv, driver = "iredadmin", NEW u \in Uids, IRSwitch(u), Tells(u) PROVE Minds(u)
<1> DEFINE account == [accounts[name[u]] EXCEPT !.active = ~IROff(u)]
<1>1. /\ at[u] = "switch" /\ accounts[name[u]] \in Account /\ at \in [Uids -> Places]
      /\ UNCHANGED <<input, left>>
  BY AtWork DEF IRSwitch, IInv, TypeOK, Places
<1>2. account.active = ~IROff(u) /\ account # Missing
  BY <1>1 DEF Account, IROff
<1>3. \/ /\ IF dryRun THEN UNCHANGED <<accounts, applied, faults>> ELSE Written(u, {"active"}, account)
         /\ at'[u] = IF IROff(u) THEN "done" ELSE "get"
      \/ /\ Refused(u, {"active"}, account) /\ RecordError(u, "UPDATE") /\ at'[u] = "done"
  BY <1>1 DEF IRSwitch, Go
<1>4. AtRest(u) => account = accounts[name[u]]
  BY <1>1 DEF AtRest, Agrees, IRAgrees, Account, IROff
<1> HIDE DEF account
<1>5. /\ \A n \in Names \ {name[u]} : accounts'[n] = accounts[n]
      /\ accounts'[name[u]] \in {accounts[name[u]], account}
      /\ ~dryRun /\ ~Errs(u)' => accounts'[name[u]] = account
  BY <1>3, OwnAccount, ErrorErrs DEF IInv
<1>6. PlaceFits(u)'
  BY <1>1, <1>3 DEF PlaceFits, IROff, input
<1>7. ASSUME ~dryRun', ~Errs(u)' PROVE IRStands(u)'
  <2>1. at'[u] = IF IROff(u) THEN "done" ELSE "get"
    BY <1>3, <1>7, ErrorErrs DEF IInv
  <2>2. accounts'[name[u]] = account
    BY <1>1, <1>5, <1>7 DEF input
  <2> QED
    BY <1>1, <1>2, <2>1, <2>2 DEF IRStands, IRAgrees, IROff, input
<1> QED
  BY <1>1, <1>4, <1>5, <1>6, <1>7 DEF Minds, Stands, input

LEMMA IRGetMinds ==
  ASSUME IInv, ReportInv, driver = "iredadmin", NEW u \in Uids, IRGet(u), Tells(u) PROVE Minds(u)
<1>1. /\ at[u] = "get" /\ accounts[name[u]] \in Account /\ at \in [Uids -> Places]
      /\ want[u] \in Identity
      /\ left \in [Uids -> SUBSET Groups] /\ seen \in [Uids -> {Missing} \cup Account]
      /\ UNCHANGED <<input, accounts>> /\ ~IROff(u)
  BY AtWork DEF IRGet, IInv, TypeOK, Places, ReportInv, PlaceFits
<1>2. CASE at' = [at EXCEPT ![u] = "done"] /\ UNCHANGED left /\ (RecordError(u, "SKIP") \/ u \in logged')
  <2>1. at'[u] = "done" /\ (u \in logged' \/ Errs(u)')
    BY <1>1, <1>2, ErrorErrs DEF IInv
  <2> QED
    BY <1>1, <1>2, <2>1, DoneFits, GivenUp DEF Minds
<1> DEFINE a == accounts[name[u]]
<1>3. CASE /\ seen' = [seen EXCEPT ![u] = a]
           /\ left' = [left EXCEPT ![u] = IRListsLeft(u, a)]
           /\ at' = [at EXCEPT ![u] = IF IRData(u, a) # {} THEN "modify"
                                      ELSE IF IRListsLeft(u, a) # {} THEN "groups" ELSE "done"]
  <2>1. /\ at'[u] = IF IRData(u, a) # {} THEN "modify"
                    ELSE IF IRListsLeft(u, a) # {} THEN "groups" ELSE "done"
        /\ left'[u] = IRListsLeft(u, a) /\ seen'[u] = a /\ accounts'[name[u]] = a
    BY <1>1, <1>3
  <2>2. PlaceFits(u)'
    BY <1>1 DEF PlaceFits, IROff, input
  <2>3. ASSUME Alone(u)', ~dryRun', u \notin logged', ~Errs(u)' PROVE IRStands(u)'
    <3>1. a.active
      BY <1>1, <2>3, Stood DEF IInv, IRStands
    <3>2. IRData(u, a) = {} => want[u].value \in {None, a.value} /\ a.active = (want[u].status # "false")
      BY <1>1, <3>1 DEF IRData, IRStatus, Identity
    <3>3. IRListsLeft(u, a) = {} => a.groups = IRLists(u)
      BY <1>1 DEF IRListsLeft, IRLists, Identity, Account
    <3>4. a \in Account /\ a # Missing
      BY <1>1
    <3> HIDE DEF a
    <3> QED
      BY <1>1, <2>1, <3>1, <3>2, <3>3, <3>4 DEF IRStands, IRAgrees, IRListsLeft, IRLists, IROff, input
  <2>4. \A v \in Uids \ {u} : left'[v] = left[v]
    BY <1>1, <1>3
  <2> QED
    BY <1>1, <2>2, <2>3, <2>4 DEF Minds, Stands, input
<1> QED
  BY <1>2, <1>3 DEF IRGet, Go

\* Where an update goes on, or ends.
LEMMA IREndPlaces ==
  ASSUME TypeOK, NEW u \in Uids, NEW changes, IREnd(u, changes)
  PROVE  at'[u] = IF left'[u] = {} THEN "done" ELSE "groups"
BY DEF IREnd, Go, TypeOK

LEMMA IRModifyMinds ==
  ASSUME IInv, ReportInv, driver = "iredadmin", NEW u \in Uids, IRModify(u), Tells(u) PROVE Minds(u)
<1> DEFINE a == accounts[name[u]]
           s == seen[u]
           data == IRData(u, s)
           active == IF "active" \in data THEN IRStatus(u, s) ELSE a.active
           value == IF "value" \in data THEN want[u].value ELSE a.value
           account == [a EXCEPT !.active = active, !.value = value]
<1>1. /\ at[u] = "modify" /\ a \in Account /\ want[u] \in Identity /\ at \in [Uids -> Places]
      /\ left \in [Uids -> SUBSET Groups] /\ UNCHANGED <<input, seen>> /\ ~IROff(u)
  BY AtWork DEF IRModify, IInv, TypeOK, Places, ReportInv, PlaceFits
<1>2. s \in Account
  <2>1. u \in Busy
    BY <1>1 DEF Busy
  <2> QED
    BY <1>1, <2>1 DEF IInv, TypeOK, Found
<1>3. /\ "active" \in data <=> IRStatus(u, s) # s.active
      /\ "value" \in data <=> want[u].value \notin {None, s.value}
      /\ IRStatus(u, s) = IF want[u].status = "none" THEN s.active ELSE want[u].status = "true"
      /\ a.active \in BOOLEAN /\ s.active \in BOOLEAN
      /\ want[u].status \in {"none", "true", "false"}
  BY <1>1, <1>2 DEF IRData, IRStatus, Account, Identity
<1>4. /\ account.active = active /\ account.value = value
      /\ account.groups = a.groups /\ account # Missing
  <2>1. active \in BOOLEAN /\ value \in {None} \cup Values
    BY <1>1, <1>3 DEF Account, Identity
  <2> HIDE DEF active, value
  <2>2. account \in Account
    BY <1>1, <2>1 DEF Account
  <2> QED
    BY <1>1, <2>2 DEF Account
<1>5. \/ /\ IF dryRun THEN UNCHANGED <<accounts, applied, faults>> ELSE Written(u, data, account)
         /\ UNCHANGED left /\ IREnd(u, data)
      \/ /\ Refused(u, data, account) /\ RecordError(u, "UPDATE") /\ at'[u] = "done"
         /\ left' = [left EXCEPT ![u] = {}]
  BY <1>1 DEF IRModify, Go
<1>6. AtRest(u) => account = a
  <2> SUFFICES ASSUME AtRest(u) PROVE account = a
    OBVIOUS
  <2>1. want[u].value \in {None, a.value} /\ a.active /\ want[u].status # "false"
    BY <1>1, <1>3 DEF AtRest, Agrees, IRAgrees
  <2>2. active = a.active /\ value = a.value
    BY <1>3, <2>1
  <2> HIDE DEF active, value
  <2> QED
    BY <1>1, <2>2 DEF Account
<1> HIDE DEF account, data
<1>7. /\ \A n \in Names \ {name[u]} : accounts'[n] = accounts[n]
      /\ accounts'[name[u]] \in {a, account}
      /\ ~dryRun /\ ~Errs(u)' => accounts'[name[u]] = account
  BY <1>5, OwnAccount, ErrorErrs DEF IInv
<1>8. PlaceFits(u)'
  BY <1>1 DEF PlaceFits, IROff, input
<1>9. ASSUME Alone(u)', ~dryRun', u \notin logged', ~Errs(u)' PROVE IRStands(u)'
  <2>1. /\ a = s /\ a.active /\ left[u] = IRListsLeft(u, a) /\ ~dryRun
    BY <1>1, <1>9, Stood DEF IInv, IRStands
  <2>2. /\ left'[u] = left[u] /\ at'[u] = IF left[u] = {} THEN "done" ELSE "groups"
        /\ accounts'[name[u]] = account
    BY <1>5, <1>7, <1>9, <2>1, ErrorErrs, IREndPlaces DEF IInv
  <2>3. account.active = (want[u].status # "false")
    BY <1>3, <1>4, <2>1
  <2>4. want[u].value \in {None, account.value}
    BY <1>3, <1>4, <2>1
  <2>5. IRListsLeft(u, a) = {} => account.groups = IRLists(u)
    BY <1>1, <1>4 DEF IRListsLeft, IRLists, Identity, Account
  <2>6. IRListsLeft(u, a) = IRListsLeft(u, account)
    BY <1>4 DEF IRListsLeft
  <2> HIDE DEF a, s
  <2>7. CASE at'[u] = "done"
    <3>1. IRAgrees(u)'
      BY <1>1, <1>4, <2>1, <2>2, <2>3, <2>4, <2>5, <2>7 DEF IRAgrees, IRLists, IROff, input
    <3> QED
      BY <2>7, <3>1 DEF IRStands
  <2>8. CASE at'[u] = "groups"
    BY <1>1, <2>1, <2>2, <2>3, <2>4, <2>6, <2>8 DEF IRStands, IRListsLeft, IRLists, input
  <2> QED
    BY <2>2, <2>7, <2>8
<1>10. \A v \in Uids \ {u} : left'[v] = left[v]
  BY <1>1, <1>5
<1> QED
  BY <1>1, <1>6, <1>7, <1>8, <1>9, <1>10 DEF Minds, Stands, input

LEMMA IRSubscribeMinds ==
  ASSUME IInv, ReportInv, driver = "iredadmin", NEW u \in Uids, IRSubscribe(u), Tells(u)
  PROVE  Minds(u)
<1> DEFINE a == accounts[name[u]]
<1>1. /\ at[u] = "groups" /\ a \in Account /\ want[u] \in Identity /\ at \in [Uids -> Places]
      /\ left \in [Uids -> SUBSET Groups] /\ UNCHANGED <<input, seen>> /\ ~IROff(u)
  BY AtWork DEF IRSubscribe, IInv, TypeOK, Places, ReportInv, PlaceFits
<1>2. PICK g \in left[u] :
        LET account == [a EXCEPT
              !.groups = IF g \in IRLists(u) THEN @ \cup {g} ELSE @ \ {g}] IN
        /\ left' = [left EXCEPT ![u] = @ \ {g}]
        /\ IREnd(u, made[u] \cup {g})
        /\ \/ IF dryRun THEN UNCHANGED <<accounts, applied, faults>>
              ELSE Written(u, {g}, account)
           \/ /\ Refused(u, {g}, account)
              /\ logged' = logged \cup {u}
  BY DEF IRSubscribe
<1> DEFINE account == [a EXCEPT !.groups = IF g \in IRLists(u) THEN @ \cup {g} ELSE @ \ {g}]
<1>3. /\ account.active = a.active /\ account.value = a.value
      /\ account.groups = IF g \in IRLists(u) THEN a.groups \cup {g} ELSE a.groups \ {g}
      /\ account \in Account /\ account # Missing
  BY <1>1, <1>2 DEF Account
<1>4. \/ IF dryRun THEN UNCHANGED <<accounts, applied, faults>> ELSE Written(u, {g}, account)
      \/ Refused(u, {g}, account) /\ logged' = logged \cup {u}
  BY <1>2
<1>5. AtRest(u) => account = a
  <2> SUFFICES ASSUME AtRest(u) PROVE account = a
    OBVIOUS
  <2>1. a.groups = IRLists(u)
    BY <1>1 DEF AtRest, Agrees, IRAgrees
  <2>2. (IF g \in IRLists(u) THEN a.groups \cup {g} ELSE a.groups \ {g}) = a.groups
    BY <2>1
  <2> QED
    BY <1>1, <2>2 DEF Account
<1> HIDE DEF account
<1>6. /\ \A n \in Names \ {name[u]} : accounts'[n] = accounts[n]
      /\ accounts'[name[u]] \in {a, account}
      /\ ~dryRun /\ u \notin logged' => accounts'[name[u]] = account
  BY <1>4, OwnAccount DEF IInv
<1>7. PlaceFits(u)'
  BY <1>1 DEF PlaceFits, IROff, input
<1>8. ASSUME Alone(u)', ~dryRun', u \notin logged', ~Errs(u)' PROVE IRStands(u)'
  <2>1. /\ want[u].value \in {None, a.value} /\ a.active = (want[u].status # "false")
        /\ left[u] = IRListsLeft(u, a) /\ ~dryRun
    BY <1>1, <1>8, Stood DEF IInv, IRStands
  <2>2. /\ left'[u] = left[u] \ {g} /\ at'[u] = IF left'[u] = {} THEN "done" ELSE "groups"
        /\ accounts'[name[u]] = account
    BY <1>1, <1>2, <1>6, <1>8, <2>1, IREndPlaces DEF IInv
  <2>3. IRListsLeft(u, account) = left[u] \ {g}
    BY <1>2, <1>3, <2>1 DEF IRListsLeft
  <2>4. left'[u] = {} => account.groups = IRLists(u)
    BY <1>1, <1>3, <2>2, <2>3 DEF IRListsLeft, IRLists, Identity, Account
  <2> HIDE DEF a
  <2>5. CASE at'[u] = "done"
    <3>1. IRAgrees(u)'
      BY <1>1, <1>3, <2>1, <2>2, <2>4, <2>5 DEF IRAgrees, IRLists, IROff, input
    <3> QED
      BY <2>5, <3>1 DEF IRStands
  <2>6. CASE at'[u] = "groups"
    BY <1>1, <1>3, <2>1, <2>2, <2>3, <2>6 DEF IRStands, IRListsLeft, IRLists, input
  <2> QED
    BY <2>2, <2>5, <2>6
<1>9. \A v \in Uids \ {u} : left'[v] = left[v]
  BY <1>1, <1>2
<1> QED
  BY <1>1, <1>5, <1>6, <1>7, <1>8, <1>9 DEF Minds, Stands, input

\* The steps of the LDAP operator.
LEMMA LDSearchMinds ==
  ASSUME IInv, driver = "ldap", NEW u \in Uids, LDSearch(u), UNCHANGED phase PROVE Minds(u)
<1>1. /\ phase = "work" /\ UNCHANGED <<input, accounts, left>> /\ at \in [Uids -> Places]
  BY DEF LDSearch, IInv, TypeOK, Places
<1>2. \/ at'[u] = "done" /\ dryRun
      \/ /\ accounts[name[u]] # Missing
         /\ at'[u] = IF want[u].value = None THEN "done" ELSE "modify"
  BY <1>1 DEF LDSearch, Go
<1>3. PlaceFits(u)'
  BY <1>1, <1>2 DEF PlaceFits, input
<1>4. dryRun' \/ LDStands(u)'
  BY <1>1, <1>2 DEF LDStands, LDAgrees, input
<1> QED
  BY <1>1, <1>3, <1>4 DEF Minds, Stands, input

LEMMA LDUpdateMinds ==
  ASSUME IInv, ReportInv, driver = "ldap", NEW u \in Uids, LDUpdate(u) PROVE Minds(u)
<1> DEFINE account == [accounts[name[u]] EXCEPT !.value = want[u].value]
<1>1. /\ at[u] = "modify" /\ at'[u] = "done" /\ UNCHANGED <<input, left>> /\ want[u].value # None
  BY DEF LDUpdate, Go, IInv, TypeOK, ReportInv, PlaceFits
<1>2. accounts[name[u]] \in Account /\ want[u] \in Identity
  <2>1. u \in Busy
    BY <1>1 DEF Busy
  <2> QED
    BY <1>1, <2>1 DEF IInv, TypeOK, Found
<1>3. account.value = want[u].value /\ account \in Account /\ account # Missing
  BY <1>2 DEF Account, Identity
<1>4. Written(u, {"value"}, account) \/ (Refused(u, {"value"}, account) /\ RecordError(u, "UPDATE"))
  BY DEF LDUpdate
<1>5. AtRest(u) => account = accounts[name[u]]
  BY <1>1, <1>2 DEF AtRest, Agrees, LDAgrees, Account
<1> HIDE DEF account
<1>6. /\ \A n \in Names \ {name[u]} : accounts'[n] = accounts[n]
      /\ accounts'[name[u]] \in {accounts[name[u]], account}
      /\ ~Errs(u)' => accounts'[name[u]] = account
  BY <1>4, OwnAccount, ErrorErrs DEF IInv
<1>7. PlaceFits(u)'
  BY <1>1, DoneFits
<1>8. ~Errs(u)' => LDStands(u)'
  BY <1>1, <1>3, <1>6 DEF LDStands, LDAgrees, input
<1> QED
  BY <1>1, <1>5, <1>6, <1>7, <1>8 DEF Minds, Stands, input

-----------------------------------------------------------------------------
\* A step that leaves the identities, the accounts and the audit alone.
LEMMA QuietReport ==
  ASSUME ReportInv, UNCHANGED <<input, accounts, turn, entries, history>> PROVE ReportInv'
<1> SUFFICES ASSUME NEW v \in Uids PROVE (PlaceFits(v) /\ Stands(v))'
  BY DEF ReportInv
<1>1. UNCHANGED <<at, seen, left, logged>> /\ UNCHANGED input
  BY DEF turn, history
<1>2. accounts'[name[v]] = accounts[name[v]] /\ (Errs(v) => Errs(v)')
  BY DEF Errs
<1> QED
  BY <1>1, <1>2, OthersStand DEF ReportInv

\* Every step of a call keeps the invariant, and settled accounts as they are.
LEMMA StepReport ==
  ASSUME IInv, AuditInv, ReportInv, [OpNext]_vars
  PROVE  /\ ReportInv'
         /\ \A v \in Uids : AtRest(v) => accounts'[name[v]] = accounts[name[v]]
<1>1. CASE \/ ADFinish \/ IRFinish \/ LDFinish \/ IRLogin \/ IRList \/ LDConnect
           \/ Break \/ UNCHANGED vars
  <2>1. UNCHANGED <<input, accounts, turn, entries, history>>
    BY <1>1 DEF ADFinish, IRFinish, LDFinish, IRLogin, IRList, LDConnect, Break, vars
  <2> QED
    BY <2>1, QuietReport
<1>2. ASSUME NEW u \in Uids, driver = "ad",
             ADSearch(u) \/ ADSwitch(u) \/ ADModify(u) \/ ADMove(u) \/ ADGroups(u)
      PROVE  Turn(u) /\ Tells(u) /\ Minds(u)
  <2>1. Turn(u)
    BY <1>2, ADSearchTurns, ADSwitchTurns, ADModifyTurns, ADMoveTurns, ADGroupsTurns
  <2>2. Tells(u)
    BY <1>2, ADSearchTells, ADSwitchTells, ADModifyTells, ADMoveTells, ADGroupsTells
  <2> QED
    BY <1>2, <2>1, <2>2, ADSearchMinds, ADSwitchMinds, ADModifyMinds, ADMoveMinds, ADGroupsMinds
<1>3. ASSUME NEW u \in Uids, driver = "iredadmin",
             \/ IRStart(u) \/ IRSwitch(u) \/ IRGet(u) \/ IRModify(u) \/ IRSubscribe(u)
      PROVE  Turn(u) /\ Tells(u) /\ Minds(u)
  <2>1. Turn(u)
    BY <1>3, IRStartTurns, IRSwitchTurns, IRGetTurns, IRModifyTurns, IRSubscribeTurns
  <2>2. Tells(u)
    BY <1>3, IRStartTells, IRSwitchTells, IRGetTells, IRModifyTells, IRSubscribeTells
  <2> QED
    BY <1>3, <2>1, <2>2,
       IRStartMinds, IRSwitchMinds, IRGetMinds, IRModifyMinds, IRSubscribeMinds
<1>4. ASSUME NEW u \in Uids, driver = "ldap", LDSearch(u) \/ LDUpdate(u)
      PROVE  \/ Turn(u) /\ Tells(u) /\ Minds(u)
             \/ UNCHANGED <<input, accounts, turn, entries, history>>
  <2>1. CASE LDSearch(u) /\ UNCHANGED phase
    BY <1>4, <2>1, LDSearchTurns, LDSearchTells, LDSearchMinds
  <2>2. CASE LDSearch(u) /\ phase' # phase
    BY <2>2 DEF LDSearch, turn
  <2>3. CASE LDUpdate(u)
    BY <1>4, <2>3, LDUpdateTurns, LDUpdateTells, LDUpdateMinds
  <2> QED
    BY <1>4, <2>1, <2>2, <2>3
<1>5. ASSUME NEW u \in Uids, Turn(u) /\ Tells(u) /\ Minds(u)
      PROVE  /\ ReportInv'
             /\ \A v \in Uids : AtRest(v) => accounts'[name[v]] = accounts[name[v]]
  BY <1>5, TurnReport
<1>6. ASSUME UNCHANGED <<input, accounts, turn, entries, history>>
      PROVE  /\ ReportInv'
             /\ \A v \in Uids : AtRest(v) => accounts'[name[v]] = accounts[name[v]]
  BY <1>6, QuietReport
<1>7. \/ ADFinish \/ IRFinish \/ LDFinish \/ IRLogin \/ IRList \/ LDConnect
      \/ Break \/ UNCHANGED vars
      \/ UNCHANGED <<input, accounts, turn, entries, history>>
      \/ \E u \in Uids : Turn(u) /\ Tells(u) /\ Minds(u)
  BY <1>2, <1>3, <1>4 DEF OpNext, Sync, ADNext, IRNext, LDNext
<1> QED
  BY <1>1, <1>5, <1>6, <1>7

\* Before the call every place fits.
LEMMA InitReport == ASSUME OpInit PROVE ReportInv
<1>1. Init
  BY DEF OpInit, ADInit, IRInit, LDInit
<1>2. \A u \in Uids : at[u] = "new"
  BY <1>1 DEF Init
<1> QED
  BY <1>2 DEF ReportInv, PlaceFits, Stands, ADStands, IRStands, LDStands

\* The account of an identity is what its place says, in every state of a call.
THEOREM ReportInvariance == OpSpec => []ReportInv
BY InitReport, StepReport, Invariance, AuditInvariance, PTL DEF OpSpec

\* A Sync that returned no error leaves the account of every identity as the identity says,
\* or the audit holds an error of it; the exceptions are the identities given up with a line
\* in the log, those that share a name, and the two of iRedAdmin that are left out without
\* a word (iredadmin/sync.go:35-47).
THEOREM NobodyUnreported == OpSpec => []Reported
<1>1. ASSUME IInv, AuditInv, ReportInv PROVE Reported
  <2> SUFFICES ASSUME outcome = "ok", ~dryRun, NEW u \in Uids, Alone(u), u \notin logged, ~Errs(u),
                      ~(driver = "iredadmin" /\ (Mailless(u) \/ Unsubmitted(u)))
               PROVE  Agrees(u)
    BY DEF Reported, Errs
  <2>1. at[u] = "done"
    BY <1>1 DEF AuditInv, AllOver, Unsubmitted
  <2>2. driver \in {"ad", "iredadmin", "ldap"}
    BY <1>1 DEF IInv, TypeOK
  <2>3. Stands(u)
    BY <1>1 DEF ReportInv
  <2> QED
    BY <2>1, <2>2, <2>3 DEF Stands, ADStands, IRStands, LDStands, Agrees
<1> QED
  BY <1>1, Invariance, AuditInvariance, ReportInvariance, PTL

\* An account that is what its identity says is left alone to the end of the call, but for
\* iRedAdmin's users with a status of "false", which Sync enables first.
THEOREM SettledIsLeftAlone == OpSpec => LeavesAlone
<1>1. ASSUME IInv, AuditInv, ReportInv, [OpNext]_vars
      PROVE  \/ \A u \in Uids :
                  Alone(u) /\ Agrees(u) /\ ~(driver = "iredadmin" /\ want[u].status = "false")
                    => accounts'[name[u]] = accounts[name[u]]
             \/ UNCHANGED vars
  BY <1>1, StepReport DEF AtRest
<1> QED
  BY <1>1, Invariance, AuditInvariance, ReportInvariance, PTL DEF OpSpec, LeavesAlone
===============================================================================
