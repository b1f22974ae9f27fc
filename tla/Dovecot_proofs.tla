---------------------------- MODULE Dovecot_proofs -----------------------------
(***************************************************************************)
(* Proofs about Dovecot, for any finite sets of users and mailboxes, any   *)
(* patterns, rights, attributes and ACLs, any concurrency and any number   *)
(* of failing calls: types, that access is kept, the truth of the audit,   *)
(* what a clean Sync has settled, and the contract.                        *)
(*                                                                         *)
(* The audit is true because the goroutine of a mailbox is the only one to *)
(* write its ACL, and because what it decides does not change in the       *)
(* second phase: a step is either one of the first phase, where nothing is *)
(* recorded, or one of a single mailbox.  Access is kept because an entry  *)
(* that is removed is one that no identity asked for (Prepared), and       *)
(* because the entry of anyone goes last (Wanted).  A clean Sync has       *)
(* settled what was due because every mailbox that matters has a goroutine *)
(* (Listed, Reached), which leaves nothing undone but what failed (Left).  *)
(***************************************************************************)
EXTENDS Dovecot, FiniteSetTheorems, SequenceTheorems, TLAPS

\* What Sync decided for an entry of a mailbox.
Decision(m, e) == IF e = Anyone THEN None ELSE DesiredFor(m, e)

InputFits == attribute \in [Users -> Attributes]

\* Mailboxes have goroutines only in the second phase, and none when Sync has returned.
PhaseFits ==
  /\ phase = "identities" => changes = {} /\ \A m \in Mailboxes : box[m].at = "none"
  /\ phase = "done" => MailboxesDone
  /\ outcome = "none" <=> phase # "done"

\* Every entry of the diff of a mailbox is still to be written, or failed, or is as decided.
Written(m) ==
  box[m].at = "apply" =>
    /\ \A e \in box[m].remove : Decision(m, e) = None
    /\ config.dryRun \/ \A e \in box[m].diff :
         e \in box[m].set \cup box[m].remove \cup box[m].failed \/ acl[m][e] = Decision(m, e)

\* Before the entry of anyone is removed, each user has what was decided as its own.
Wanted(m) ==
  box[m].at = "apply" /\ Anyone \in box[m].remove =>
    /\ config.removeAnyone
    /\ config.dryRun \/ \A u \in Users : DesiredFor(m, u) # None =>
         u \in box[m].set \cup box[m].failed \/ RightsOf(acl[m][u]) = DesiredFor(m, u)

\* What the attribute of an identity asks for, if it counts.
Asked(u, m) == RightsOn(Wishes(u), KeysOf(Wishes(u)), m)

\* What was desired is what was asked for, but for users whose pattern was not expanded
\* and for those that a cancelled first phase left out.
Prepared ==
  /\ disabledUsers \subseteq disabled
  /\ phase = "apply" => \A u \in Users : user[u] = "done"
  /\ \A u \in Users :
       /\ user[u] = "new" => \A m \in Mailboxes : desired[m][u] = None
       /\ user[u] = "new" \/ u \in lost \/ (cancelled /\ phase # "apply")
            \/ \A m \in Mailboxes : desired[m][u] = Asked(u, m)

\* Nothing is recorded of a mailbox before its goroutine is done.
RecordedLast == \A c \in changes : box[c[2]].at = "done"

IInv ==
  /\ TypeOK /\ InputFits /\ PhaseFits /\ Prepared
  /\ \A m \in Mailboxes : Written(m) /\ Wanted(m)
  /\ RecordedLast /\ AuditTruthful

-----------------------------------------------------------------------------
\* The semaphore: who is at work after a step was at work before it, or took a place
\* that was free.
LEMMA Places ==
  ASSUME NEW S, NEW T, NEW x, NEW n \in Nat,
         IsFiniteSet(S), Cardinality(S) <= n,
         T \subseteq S \/ (T \subseteq S \cup {x} /\ Cardinality(S) < n)
  PROVE  Cardinality(T) <= n
<1>1. Cardinality(S) \in Nat
  BY FS_CardinalityType
<1>2. CASE T \subseteq S
  BY <1>1, <1>2, FS_Subset, FS_CardinalityType
<1>3. CASE T \subseteq S \cup {x} /\ Cardinality(S) < n
  <2>1. IsFiniteSet(S \cup {x}) /\ Cardinality(S \cup {x}) <= Cardinality(S) + 1
    <3>1. Cardinality(S \cup {x}) \in {Cardinality(S), Cardinality(S) + 1}
      BY FS_AddElement
    <3> QED BY <1>1, <3>1, FS_AddElement
  <2>2. IsFiniteSet(T) /\ Cardinality(T) <= Cardinality(S \cup {x})
    BY <1>3, <2>1, FS_Subset
  <2>3. Cardinality(T) \in Nat /\ Cardinality(S \cup {x}) \in Nat
    BY <2>1, <2>2, FS_CardinalityType
  <2> QED BY <1>1, <1>3, <2>1, <2>2, <2>3
<1> QED BY <1>2, <1>3

LEMMA Finite == IsFiniteSet(Busy) /\ IsFiniteSet(Listing)
BY FinitelyMany, FS_Subset DEF FinitelyMany, Busy, Listing

Items == Seq([key : Keys, rights : SUBSET Rights])

LEMMA ItemTyped ==
  ASSUME NEW acls \in Items, NEW i \in DOMAIN acls
  PROVE  acls[i].key \in Keys /\ acls[i].rights \subseteq Rights
<1>1. i \in 1..Len(acls)
  BY DEF Items
<1>2. acls[i] \in [key : Keys, rights : SUBSET Rights]
  BY <1>1, ElementOfSeq DEF Items
<1> QED BY <1>2

LEMMA KeysTyped ==
  ASSUME NEW acls \in Items
  PROVE  KeysOf(acls) \subseteq Keys
BY ItemTyped DEF KeysOf

\* What keys give is a set of rights, or no entry.
LEMMA RightsTyped ==
  ASSUME NEW acls \in Items, NEW keys \in SUBSET KeysOf(acls), NEW m \in Mailboxes
  PROVE  RightsOn(acls, keys, m) \in Granted
<1>1. ASSUME NEW k \in keys PROVE MergedRights(acls, k) \subseteq Rights
  <2> DEFINE first == CHOOSE i \in ItemsOf(acls, k) : \A j \in ItemsOf(acls, k) : i <= j
             given == UNION {acls[i].rights : i \in ItemsOf(acls, k)}
             default == IF acls[first].rights = {} THEN DefaultAcls ELSE {}
  <2>1. MergedRights(acls, k) = given \cup default
    BY DEF MergedRights
  <2>2. given \subseteq Rights
    <3>1. \A i \in ItemsOf(acls, k) : acls[i].rights \subseteq Rights
      BY ItemTyped DEF ItemsOf
    <3>2. \A r \in given : \E i \in ItemsOf(acls, k) : r \in acls[i].rights
      OBVIOUS
    <3> QED BY <3>1, <3>2
  <2>3. default \subseteq Rights
    BY DovecotConfig DEF DovecotConfig
  <2> HIDE DEF given, default
  <2> QED BY <2>1, <2>2, <2>3
<1> DEFINE reaching == {k \in keys : m \in Expand(k)}
           all == UNION {MergedRights(acls, k) : k \in reaching}
<1>2. reaching \subseteq keys
  OBVIOUS
<1>3. RightsOn(acls, keys, m) = IF reaching = {} THEN None ELSE all
  BY DEF RightsOn
<1> HIDE DEF reaching
<1>4. all \subseteq Rights
  <2>1. \A r \in all : \E k \in reaching : r \in MergedRights(acls, k)
    OBVIOUS
  <2> QED BY <1>1, <1>2, <2>1
<1> HIDE DEF all
<1> QED BY <1>3, <1>4 DEF Granted

LEMMA WishesTyped ==
  ASSUME InputFits, NEW u \in Users
  PROVE  Wishes(u) \in Items
<1>1. Attributes \subseteq Items
  BY DovecotConfig DEF DovecotConfig, Items
<1>2. attribute[u] \in Items
  BY <1>1 DEF InputFits
<1>3. <<>> \in Items
  BY DEF Items
<1> QED BY <1>2, <1>3 DEF Wishes

-----------------------------------------------------------------------------
\* A step of the first phase: no mailbox is at work and nothing is recorded.
FirstPhase ==
  /\ phase = "identities" /\ phase' = phase /\ outcome' = outcome
  /\ UNCHANGED <<input, acl, box, changes>>
  /\ errors \subseteq errors'

LEMMA FirstPhaseKeeps ==
  ASSUME IInv, TypeOK', FirstPhase, Prepared'
  PROVE  IInv'
<1>1. InputFits' /\ PhaseFits'
  BY DEF IInv, InputFits, PhaseFits, FirstPhase, input, MailboxesDone
<1>2. \A m \in Mailboxes : box'[m].at = "none"
  BY DEF IInv, PhaseFits, FirstPhase
<1>3. \A m \in Mailboxes : Written(m)' /\ Wanted(m)'
  BY <1>2 DEF Written, Wanted
<1>4. RecordedLast' /\ AuditTruthful'
  BY DEF IInv, PhaseFits, FirstPhase, RecordedLast, AuditTruthful
<1> QED BY <1>1, <1>3, <1>4 DEF IInv

LEMMA FirstPhaseWorks ==
  ASSUME IInv, FirstPhase
  PROVE  Contract!Work
BY DEF IInv, PhaseFits, FirstPhase, input, Contract!Work

LEMMA IdentityTypes ==
  ASSUME IInv, NEW u \in Users, ProcessACLs(u) \/ ListMailboxes(u) \/ AbandonIdentity(u)
  PROVE  TypeOK' /\ FirstPhase
<1> USE DEF IInv
<1>1. FirstPhase
  BY DEF ProcessACLs, ListMailboxes, AbandonIdentity, FirstPhase, input, shared, audit
<1>2. Cardinality(Busy') <= config'.concurrency
  BY <1>1 DEF FirstPhase, input, Busy, TypeOK
<1>3. config.concurrency \in Nat /\ config' = config
  BY <1>1, DovecotConfig DEF DovecotConfig, FirstPhase, input, TypeOK
<1>4. user' \in [Users -> {"new", "list", "done"}]
  BY DEF ProcessACLs, ListMailboxes, AbandonIdentity, TypeOK
<1>5. Cardinality(Listing') <= config'.concurrency
  <2>1. \/ Listing' \subseteq Listing
        \/ Listing' \subseteq Listing \cup {u} /\ Cardinality(Listing) < config.concurrency
    BY DEF ProcessACLs, ListMailboxes, AbandonIdentity, Listing, Free, TypeOK
  <2> QED BY <1>3, <2>1, Places, Finite DEF TypeOK
<1>6. faults' \in 0..MaxFaults
  <2>1. MaxFaults \in Nat
    BY DovecotConfig DEF DovecotConfig
  <2>2. UNCHANGED faults \/ Fault
    BY DEF ProcessACLs, ListMailboxes, AbandonIdentity
  <2> QED BY <2>1, <2>2 DEF Fault, TypeOK
<1>7. CASE ProcessACLs(u)
  <2> DEFINE acls == Wishes(u)
             missing == (KeysOf(acls) \cap Patterns) \ cache
  <2>1. acls \in Items
    BY WishesTyped
  <2>2. KeysOf(acls) \subseteq Keys
    BY <2>1, KeysTyped
  <2>3. PICK failed \in SUBSET missing :
          LET keys == KeysOf(acls) \ failed
              reached == UNION {Expand(k) : k \in keys}
          IN /\ IF failed = {} THEN UNCHANGED <<faults, lost>> ELSE Fault /\ lost' = lost \cup {u}
             /\ cache' = cache \cup (missing \ failed)
             /\ desired' = [m \in Mailboxes |->
                  [desired[m] EXCEPT ![u] = IF m \in reached THEN RightsOn(acls, keys, m) ELSE @]]
             /\ allMailboxes' = allMailboxes \cup reached
             /\ affected' = [m \in Mailboxes |->
                  IF m \in reached THEN affected[m] \cup {u} ELSE affected[m]]
    BY <1>7 DEF ProcessACLs
  <2> DEFINE keys == KeysOf(acls) \ failed
             reached == UNION {Expand(k) : k \in keys}
  <2>4. reached \subseteq Mailboxes
    <3>1. \A k \in Keys : Expand(k) \subseteq Mailboxes
      BY DovecotConfig DEF DovecotConfig, Expand, Keys
    <3> QED BY <2>2, <3>1
  <2>5. \A m \in Mailboxes : RightsOn(acls, keys, m) \in Granted
    BY <2>1, RightsTyped
  <2>6. desired' \in [Mailboxes -> [Users -> Granted]]
    <3> DEFINE new(m) == [desired[m] EXCEPT ![u] = IF m \in reached THEN RightsOn(acls, keys, m) ELSE @]
    <3>1. \A m \in Mailboxes : new(m) \in [Users -> Granted]
      <4>1. \A m \in Mailboxes : desired[m] \in [Users -> Granted]
        BY DEF TypeOK
      <4> HIDE DEF reached, keys
      <4> QED BY <2>5, <4>1
    <3>2. desired' = [m \in Mailboxes |-> new(m)]
      BY <2>3
    <3> HIDE DEF new
    <3> QED BY <3>1, <3>2
  <2>7. cache' \subseteq Patterns /\ allMailboxes' \subseteq Mailboxes /\ lost' \subseteq Users
    BY <2>3, <2>4 DEF TypeOK
  <2>8. affected' \in [Mailboxes -> SUBSET Users]
    BY <2>3 DEF TypeOK
  <2> QED
    BY <1>1, <1>2, <1>4, <1>5, <1>6, <1>7, <2>6, <2>7, <2>8
       DEF ProcessACLs, FirstPhase, input, TypeOK
<1>8. CASE ListMailboxes(u)
  <2>1. /\ allMailboxes' \subseteq Mailboxes /\ disabledUsers' \subseteq Users
        /\ errors' \subseteq Entries
    BY <1>8 DEF ListMailboxes, TypeOK, Entries
  <2>2. affected' \in [Mailboxes -> SUBSET Users]
    BY <1>8 DEF ListMailboxes, TypeOK
  <2> QED
    BY <1>1, <1>2, <1>4, <1>5, <1>6, <1>8, <2>1, <2>2
       DEF ListMailboxes, FirstPhase, input, TypeOK
<1>9. CASE AbandonIdentity(u)
  BY <1>1, <1>2, <1>4, <1>5, <1>6, <1>9
     DEF AbandonIdentity, FirstPhase, input, shared, audit, TypeOK
<1> QED BY <1>1, <1>7, <1>8, <1>9

\* No keys, no rights; and a mailbox that no key reaches is given none.
LEMMA NotReached ==
  ASSUME NEW acls, NEW keys, NEW m, m \notin UNION {Expand(k) : k \in keys}
  PROVE  RightsOn(acls, keys, m) = None
<1>1. \A k \in keys : m \notin Expand(k)
  OBVIOUS
<1>2. {k \in keys : m \in Expand(k)} = {}
  BY <1>1
<1> QED BY <1>2 DEF RightsOn

LEMMA IdentityPrepares ==
  ASSUME IInv, NEW u \in Users, ProcessACLs(u) \/ ListMailboxes(u) \/ AbandonIdentity(u)
  PROVE  Prepared'
<1> USE DEF IInv
<1>1. /\ phase = "identities" /\ phase' = "identities" /\ UNCHANGED <<input, cancelled>>
      /\ \A v \in Users \ {u} : user'[v] = user[v]
      /\ user[u] \in {"new", "list"}
  BY DEF ProcessACLs, ListMailboxes, AbandonIdentity, TypeOK
<1>2. \A v, m : Asked(v, m)' = Asked(v, m)
  BY <1>1 DEF Asked, Wishes, input
<1>3. CASE ProcessACLs(u)
  <2> DEFINE acls == Wishes(u)
             missing == (KeysOf(acls) \cap Patterns) \ cache
  <2>1. PICK failed \in SUBSET missing :
          LET keys == KeysOf(acls) \ failed
              reached == UNION {Expand(k) : k \in keys}
          IN /\ IF failed = {} THEN UNCHANGED <<faults, lost>> ELSE Fault /\ lost' = lost \cup {u}
             /\ desired' = [m \in Mailboxes |->
                  [desired[m] EXCEPT ![u] = IF m \in reached THEN RightsOn(acls, keys, m) ELSE @]]
    BY <1>3 DEF ProcessACLs
  <2> DEFINE keys == KeysOf(acls) \ failed
             reached == UNION {Expand(k) : k \in keys}
             given(m) == IF m \in reached THEN RightsOn(acls, keys, m) ELSE desired[m][u]
  <2>2. /\ \A m \in Mailboxes : desired'[m] = [desired[m] EXCEPT ![u] = given(m)]
        /\ lost \subseteq lost' /\ lost' \subseteq lost \cup {u} /\ (u \in lost' \/ failed = {})
    BY <2>1
  <2>3. ASSUME NEW v \in Users \ {u}, NEW m \in Mailboxes PROVE desired'[m][v] = desired[m][v]
    <3>1. desired[m] \in [Users -> Granted]
      BY DEF TypeOK
    <3> HIDE DEF given
    <3> QED BY <2>2, <3>1
  <2>4. ASSUME failed = {}, NEW m \in Mailboxes PROVE desired'[m][u] = Asked(u, m)
    <3>1. desired[m] \in [Users -> Granted] /\ desired[m][u] = None
      BY <1>3 DEF ProcessACLs, Prepared, TypeOK
    <3>2. desired'[m][u] = given(m)
      <4> HIDE DEF given
      <4> QED BY <2>2, <3>1
    <3>3. keys = KeysOf(acls)
      BY <2>4
    <3>4. m \notin reached => RightsOn(acls, keys, m) = None
      BY NotReached
    <3>5. given(m) = RightsOn(acls, keys, m)
      <4> HIDE DEF reached, keys, acls
      <4> QED BY <3>1, <3>4
    <3> QED BY <3>2, <3>3, <3>5 DEF Asked
  <2>5. user'[u] = "list" /\ disabledUsers' = disabledUsers
    BY <1>3 DEF ProcessACLs, TypeOK
  <2>6. ASSUME NEW v \in Users
        PROVE  /\ user'[v] = "new" => \A m \in Mailboxes : desired'[m][v] = None
               /\ user'[v] = "new" \/ v \in lost' \/ (cancelled' /\ phase' # "apply")
                    \/ \A m \in Mailboxes : desired'[m][v] = Asked(v, m)
    <3>1. CASE v = u
      BY <2>2, <2>4, <2>5, <3>1
    <3>2. CASE v # u
      <4>1. user'[v] = user[v] /\ \A m \in Mailboxes : desired'[m][v] = desired[m][v]
        BY <1>1, <2>3, <3>2
      <4> QED BY <1>1, <2>2, <4>1 DEF Prepared
    <3> QED BY <3>1, <3>2
  <2> HIDE DEF acls, missing, keys, reached, given
  <2> QED BY <1>1, <1>2, <2>5, <2>6 DEF Prepared, input
<1>4. CASE ListMailboxes(u)
  <2>1. /\ user[u] = "list" /\ user'[u] = "done" /\ UNCHANGED <<desired, lost>>
        /\ disabledUsers' \subseteq disabled
    BY <1>4 DEF ListMailboxes, TypeOK, Prepared
  <2> QED BY <1>1, <1>2, <2>1 DEF Prepared, input
<1>5. CASE AbandonIdentity(u)
  <2>1. cancelled /\ user'[u] = "done" /\ UNCHANGED <<desired, lost, disabledUsers>>
    BY <1>5 DEF AbandonIdentity, TypeOK, shared, audit
  <2> QED BY <1>1, <1>2, <2>1 DEF Prepared, input
<1> QED BY <1>3, <1>4, <1>5

-----------------------------------------------------------------------------
\* The second phase begins, or the call ends without it.
LEMMA EndIdentitiesKeeps ==
  ASSUME IInv, EndIdentities
  PROVE  IInv' /\ Contract!Next
<1> USE DEF IInv
<1>1. /\ phase = "identities" /\ UNCHANGED <<input, acl, user, shared, audit, cancelled, faults>>
      /\ changes = {} /\ changes' = {} /\ \A m \in Mailboxes : box[m].at = "none"
  BY DEF EndIdentities, PhaseFits, audit
<1>2. CASE phase' = "apply" /\ outcome' = outcome /\ box' = [m \in Mailboxes |->
              IF m \in allMailboxes THEN [Idle EXCEPT !.at = "new"] ELSE Idle]
  <2>1. \A m \in Mailboxes : box'[m] \in Box /\ box'[m].at \in {"none", "new"}
    BY <1>2 DEF Idle, Box
  <2>2. box' \in [Mailboxes -> Box]
    BY <1>2, <2>1
  <2>3. Busy' = {} /\ Busy = {}
    BY <1>1, <2>1 DEF Busy
  <2>4. Cardinality(Busy') <= config'.concurrency /\ Listing' = Listing
    BY <1>1, <2>3 DEF TypeOK, input, Listing
  <2>5. TypeOK'
    BY <1>1, <1>2, <2>2, <2>4 DEF TypeOK, input, shared, audit
  <2>6. InputFits' /\ PhaseFits'
    BY <1>1, <1>2 DEF InputFits, PhaseFits, input
  <2>9. Prepared'
    BY <1>1, <1>2 DEF EndIdentities, Complete, Prepared, Asked, Wishes, input, shared, audit
  <2>7. (\A m \in Mailboxes : Written(m)' /\ Wanted(m)') /\ RecordedLast' /\ AuditTruthful'
    BY <1>1, <2>1 DEF Written, Wanted, RecordedLast, AuditTruthful
  <2>8. Contract!Work
    BY <1>1, <1>2 DEF PhaseFits, input, audit, Contract!Work
  <2> QED BY <2>5, <2>6, <2>7, <2>8, <2>9 DEF Contract!Next
<1>3. CASE phase' = "done" /\ outcome' = "error" /\ UNCHANGED box
  <2>1. TypeOK'
    BY <1>1, <1>3 DEF TypeOK, input, shared, audit, Busy, Listing
  <2>2. InputFits' /\ PhaseFits'
    BY <1>1, <1>3 DEF InputFits, PhaseFits, input, MailboxesDone
  <2>5. Prepared'
    BY <1>1, <1>3 DEF Prepared, Asked, Wishes, input, shared, audit
  <2>3. (\A m \in Mailboxes : Written(m)' /\ Wanted(m)') /\ RecordedLast' /\ AuditTruthful'
    BY <1>1, <1>3 DEF Written, Wanted, RecordedLast, AuditTruthful
  <2>4. Contract!Return
    BY <1>1, <1>3 DEF PhaseFits, input, audit, Contract!Return
  <2> QED BY <2>1, <2>2, <2>3, <2>4, <2>5 DEF Contract!Next
<1> QED BY <1>2, <1>3 DEF EndIdentities

-----------------------------------------------------------------------------
\* A step of mailbox m: it writes no other ACL, and records nothing of another.
Turned(m) ==
  /\ phase = "apply" /\ UNCHANGED <<input, phase, outcome, user, shared, cancelled>>
  /\ box[m].at \in {"new", "apply"} /\ box' = [box EXCEPT ![m] = box'[m]] /\ box'[m] \in Box
  /\ box[m].at = "new" /\ box'[m].at = "apply" => Free(Busy)
  /\ acl' = [acl EXCEPT ![m] = acl'[m]] /\ acl'[m] \in [Entries -> Granted]
  /\ config.dryRun => acl' = acl
  /\ errors \subseteq errors' /\ errors' \subseteq Entries /\ unread' \subseteq Mailboxes
  /\ changes \subseteq changes' /\ changes' \subseteq changes \cup (Entries \X {m})
  /\ UNCHANGED lost
  /\ faults' \in 0..MaxFaults

\* What it leaves: the diff as it should be, and true records once it is done.
Fitting(m) ==
  /\ Written(m)' /\ Wanted(m)'
  /\ changes' # changes => box'[m].at = "done"
  /\ \A e \in Entries :
       <<e, m>> \in changes' => config.dryRun \/ acl'[m][e] = Decision(m, e)

LEMMA TurnedKeeps ==
  ASSUME IInv, NEW m \in Mailboxes, Turned(m), Fitting(m)
  PROVE  IInv' /\ Contract!Work
<1> USE DEF IInv
<1>1. TypeOK'
  <2>1. acl' \in [Mailboxes -> [Entries -> Granted]] /\ box' \in [Mailboxes -> Box]
    BY DEF Turned, TypeOK
  <2>2. changes' \subseteq Entries \X Mailboxes
    BY DEF Turned, TypeOK
  <2>3. config.concurrency \in Nat /\ config' = config
    BY DovecotConfig DEF DovecotConfig, Turned, input, TypeOK
  <2>4. \/ Busy' \subseteq Busy
        \/ Busy' \subseteq Busy \cup {m} /\ Cardinality(Busy) < config.concurrency
    BY DEF Turned, Busy, Free, TypeOK, Box
  <2>5. Cardinality(Busy') <= config'.concurrency
    BY <2>3, <2>4, Places, Finite DEF TypeOK
  <2>6. Listing' = Listing
    BY DEF Turned, Listing
  <2> QED BY <2>1, <2>2, <2>3, <2>5, <2>6 DEF Turned, input, shared, TypeOK
<1>2. InputFits' /\ PhaseFits' /\ Prepared'
  <2>1. Prepared'
    BY DEF Turned, input, shared, Prepared, Asked, Wishes
  <2> QED BY <2>1 DEF Turned, input, InputFits, PhaseFits
<1>3. \A n \in Mailboxes, e \in Entries : Decision(n, e)' = Decision(n, e)
  BY DEF Turned, shared, Decision, DesiredFor
<1>4. \A n \in Mailboxes \ {m} : box'[n] = box[n] /\ acl'[n] = acl[n]
  BY DEF Turned, TypeOK
<1>5. ASSUME NEW n \in Mailboxes PROVE Written(n)' /\ Wanted(n)'
  <2>1. CASE n = m
    BY <2>1 DEF Fitting
  <2>2. CASE n # m
    <3>1. config' = config /\ box'[n] = box[n] /\ acl'[n] = acl[n] /\ Written(n) /\ Wanted(n)
      BY <1>4, <2>2 DEF Turned, input
    <3>2. box[n] \in Box
      BY DEF TypeOK
    <3>3. box[n].remove \subseteq Entries /\ box[n].diff \subseteq Entries
      BY <3>2 DEF Box
    <3>4. \A u \in Users : DesiredFor(n, u)' = DesiredFor(n, u)
      BY DEF Turned, shared, DesiredFor
    <3> QED BY <1>3, <3>1, <3>3, <3>4 DEF Written, Wanted
  <2> QED BY <2>1, <2>2
<1>6. ASSUME NEW c \in changes'
      PROVE  /\ box'[c[2]].at = "done"
             /\ config'.dryRun \/ acl'[c[2]][c[1]] = Decision(c[2], c[1])'
  <2>1. c \in Entries \X Mailboxes /\ c = <<c[1], c[2]>>
    BY <1>1 DEF TypeOK
  <2>2. CASE c[2] = m
    <3>1. changes' # changes
      BY <1>6, <2>2 DEF RecordedLast, Turned
    <3> QED BY <1>3, <1>6, <2>1, <2>2, <3>1 DEF Fitting, Turned, input
  <2>3. CASE c[2] # m
    <3>1. c \in changes
      BY <1>6, <2>1, <2>3 DEF Turned
    <3>2. config.dryRun \/ acl[c[2]][c[1]] = Decision(c[2], c[1])
      BY <3>1 DEF AuditTruthful, Decision
    <3> QED BY <1>3, <1>4, <2>1, <2>3, <3>1, <3>2 DEF RecordedLast, Turned, input
  <2> QED BY <2>2, <2>3
<1>7. RecordedLast' /\ AuditTruthful'
  BY <1>6 DEF RecordedLast, AuditTruthful, Decision
<1>8. Contract!Work
  BY DEF Turned, input, PhaseFits, Contract!Work
<1> QED BY <1>1, <1>2, <1>5, <1>7, <1>8

\* A mailbox that is at work is so in the second phase, and nothing is recorded of it.
LEMMA AtWork ==
  ASSUME IInv, NEW m \in Mailboxes, box[m].at \in {"new", "apply"}
  PROVE  phase = "apply" /\ \A e \in Entries : <<e, m>> \notin changes
<1>1. phase = "apply"
  BY DEF IInv, TypeOK, PhaseFits, MailboxesDone
<1>2. ASSUME NEW e \in Entries, <<e, m>> \in changes PROVE FALSE
  BY <1>2 DEF IInv, RecordedLast
<1> QED BY <1>1, <1>2

LEMMA FaultTyped == ASSUME TypeOK, Fault \/ UNCHANGED faults PROVE faults' \in 0..MaxFaults
BY DovecotConfig DEF DovecotConfig, Fault, TypeOK

LEMMA ReadACLTurns ==
  ASSUME IInv, NEW m \in Mailboxes, ReadACL(m) \/ AbandonMailbox(m)
  PROVE  Turned(m) /\ Fitting(m)
<1> USE DEF IInv
<1>1. box[m].at = "new" /\ phase = "apply" /\ \A e \in Entries : <<e, m>> \notin changes
  BY AtWork DEF ReadACL, AbandonMailbox
<1>2. box[m] \in Box /\ acl[m] \in [Entries -> Granted] /\ acl = [acl EXCEPT ![m] = acl[m]]
  BY DEF TypeOK
<1>3. faults' \in 0..MaxFaults
  BY FaultTyped DEF ReadACL, AbandonMailbox
<1>4. CASE box' = [box EXCEPT ![m].at = "done"] /\ (unread' = unread \/ unread' = unread \cup {m})
  <2>1. box'[m] \in Box /\ box'[m].at = "done" /\ box' = [box EXCEPT ![m] = box'[m]]
    BY <1>2, <1>4 DEF TypeOK, Box
  <2>2. Turned(m)
    BY <1>1, <1>2, <1>3, <1>4, <2>1
       DEF ReadACL, AbandonMailbox, Turned, input, shared, audit, TypeOK
  <2>3. Fitting(m)
    BY <1>1, <2>1 DEF ReadACL, AbandonMailbox, audit, Fitting, Written, Wanted
  <2> QED BY <2>2, <2>3
<1>5. CASE /\ box' = [box EXCEPT ![m] =
                [at |-> IF ToSet(m) \cup ToRemove(m) = {} THEN "done" ELSE "apply",
                 set |-> ToSet(m), remove |-> ToRemove(m), diff |-> Shown(m), failed |-> {}]]
           /\ ReadACL(m) /\ UNCHANGED unread
  <2>1. /\ ToSet(m) \subseteq Users /\ ToRemove(m) \subseteq Entries
        /\ Shown(m) \subseteq ToSet(m) \cup ToRemove(m)
    BY DEF ToSet, ToRemove, Shown, Entries
  <2>2. /\ box'[m].at \in {"done", "apply"} /\ box'[m].set = ToSet(m)
        /\ box'[m].remove = ToRemove(m) /\ box'[m].diff = Shown(m)
        /\ box' = [box EXCEPT ![m] = box'[m]]
    BY <1>5 DEF TypeOK
  <2>3. box'[m] \in Box
    <3>1. Users \subseteq Entries
      BY DEF Entries
    <3> QED BY <1>5, <2>1, <3>1 DEF Box, TypeOK
  <2>4. Turned(m)
    BY <1>1, <1>2, <1>3, <1>5, <2>2, <2>3
       DEF ReadACL, Turned, input, shared, audit, TypeOK
  <2>5. \A e \in ToRemove(m) : Decision(m, e)' = None
    <3>1. \A e \in ToRemove(m) : Decision(m, e) = None
      BY DovecotNames DEF DovecotNames, ToRemove, Decision
    <3> QED BY <1>5, <3>1 DEF ReadACL, shared, Decision, DesiredFor
  <2>6. Written(m)'
    BY <1>5, <2>1, <2>2, <2>5 DEF Written
  <2>7. Wanted(m)'
    <3>1. Anyone \in ToRemove(m) => config.removeAnyone
      BY DovecotNames DEF DovecotNames, ToRemove
    <3>2. ASSUME NEW v \in Users, DesiredFor(m, v) # None, config.removeAnyone
          PROVE  v \in ToSet(m) \/ RightsOf(acl[m][v]) = DesiredFor(m, v)
      BY <3>2 DEF ToSet, Effective
    <3>3. /\ \A v \in Users : DesiredFor(m, v)' = DesiredFor(m, v)
          /\ acl' = acl /\ config' = config
      BY <1>5 DEF ReadACL, shared, input, DesiredFor
    <3> QED BY <2>2, <3>1, <3>2, <3>3 DEF Wanted
  <2>8. Fitting(m)
    BY <1>1, <1>5, <2>6, <2>7 DEF ReadACL, Fitting
  <2> QED BY <2>4, <2>8
<1> QED BY <1>4, <1>5 DEF ReadACL, AbandonMailbox, audit

\* What a call that writes the decision for an entry leaves.
LEMMA WriteTurns ==
  ASSUME IInv, NEW m \in Mailboxes, NEW e \in Entries, NEW rest, box[m].at = "apply",
         rest = [box[m] EXCEPT !.set = @ \ {e}] \/ rest = [box[m] EXCEPT !.remove = @ \ {e}],
         Write(m, e, Decision(m, e), rest), Decision(m, e) \in Granted,
         UNCHANGED <<input, phase, outcome, user, shared, audit, cancelled>>
  PROVE  Turned(m) /\ Fitting(m)
<1> USE DEF IInv
<1>1. phase = "apply" /\ \A x \in Entries : <<x, m>> \notin changes
  BY AtWork
<1>2. box[m] \in Box /\ acl[m] \in [Entries -> Granted]
  BY DEF TypeOK
<1>3. faults' \in 0..MaxFaults
  BY FaultTyped DEF Write
<1>4. /\ rest \in Box /\ rest.at = "apply" /\ rest.diff = box[m].diff
      /\ rest.failed = box[m].failed /\ rest.remove \subseteq box[m].remove
      /\ box[m].set \cup box[m].remove \subseteq rest.set \cup rest.remove \cup {e}
  BY <1>2 DEF Box
<1>5. /\ acl' \in {acl, [acl EXCEPT ![m][e] = Decision(m, e)]}
      /\ box'[m] \in {rest, [rest EXCEPT !.failed = @ \cup {e}]}
      /\ box' = [box EXCEPT ![m] = box'[m]]
      /\ config.dryRun => acl' = acl
      /\ config.dryRun \/ e \in box'[m].failed \/ acl' = [acl EXCEPT ![m][e] = Decision(m, e)]
  <2>1. \/ box'[m] = rest /\ acl' = IF config.dryRun THEN acl ELSE [acl EXCEPT ![m][e] = Decision(m, e)]
        \/ /\ ~config.dryRun /\ box'[m] = [rest EXCEPT !.failed = @ \cup {e}]
           /\ acl' \in {acl, [acl EXCEPT ![m][e] = Decision(m, e)]}
    BY DEF Write, TypeOK
  <2>2. box' = [box EXCEPT ![m] = box'[m]]
    BY DEF Write, TypeOK
  <2>3. box'[m] = [rest EXCEPT !.failed = @ \cup {e}] => e \in box'[m].failed
    BY <1>4 DEF Box
  <2> QED BY <2>1, <2>2, <2>3
<1>6. /\ box'[m] \in Box /\ box'[m].at = "apply" /\ box'[m].diff = box[m].diff
      /\ box'[m].set = rest.set /\ box'[m].remove = rest.remove
      /\ box[m].failed \subseteq box'[m].failed
  BY <1>4, <1>5 DEF Box
<1>7. /\ acl'[m] \in [Entries -> Granted] /\ acl' = [acl EXCEPT ![m] = acl'[m]]
      /\ \A x \in Entries \ {e} : acl'[m][x] = acl[m][x]
      /\ config.dryRun \/ e \in box'[m].failed \/ acl'[m][e] = Decision(m, e)
  <2>1. acl \in [Mailboxes -> [Entries -> Granted]]
    BY DEF TypeOK
  <2>2. CASE acl' = acl
    BY <1>2, <1>5, <2>1, <2>2
  <2>3. CASE acl' = [acl EXCEPT ![m][e] = Decision(m, e)]
    BY <1>2, <2>1, <2>3
  <2> QED BY <1>5, <2>2, <2>3
<1>8. Turned(m)
  BY <1>1, <1>3, <1>5, <1>6, <1>7 DEF Turned, shared, input, audit, TypeOK
<1>9. \A x \in Entries : Decision(m, x)' = Decision(m, x)
  BY DEF shared, Decision, DesiredFor
<1>10. Written(m)'
  <2>1. box[m].diff \subseteq Entries /\ box[m].remove \subseteq Entries
    BY <1>2 DEF Box
  <2>2. config' = config
    BY DEF input
  <2> QED BY <1>4, <1>6, <1>7, <1>9, <2>1, <2>2 DEF Written
<1>11. Wanted(m)'
  <2>1. config' = config /\ \A u \in Users : DesiredFor(m, u)' = DesiredFor(m, u)
    BY DEF input, shared, DesiredFor
  <2>2. SUFFICES ASSUME Anyone \in box[m].remove, ~config.dryRun, NEW u \in Users,
                        DesiredFor(m, u) # None
                 PROVE  u \in box'[m].set \cup box'[m].failed
                          \/ RightsOf(acl'[m][u]) = DesiredFor(m, u)
    BY <1>4, <1>6, <2>1 DEF Wanted
  <2>3. u \in box[m].set \cup box[m].failed \/ RightsOf(acl[m][u]) = DesiredFor(m, u)
    BY <2>2 DEF Wanted
  <2>4. u \in Entries /\ Decision(m, u) = DesiredFor(m, u)
    BY DovecotNames DEF DovecotNames, Entries, Decision
  <2>5. u \in box[m].set /\ u # e => u \in rest.set
    BY <1>2 DEF Box
  <2>6. CASE u = e
    BY <1>7, <2>2, <2>4, <2>6 DEF RightsOf
  <2>7. CASE u # e
    BY <1>6, <1>7, <2>3, <2>4, <2>5, <2>7
  <2> QED BY <2>6, <2>7
<1> QED BY <1>1, <1>8, <1>10, <1>11 DEF Fitting, audit

\* ApplySet writes what is desired and ApplyRemove removes what is not.
LEMMA ApplyTurns ==
  ASSUME IInv, NEW m \in Mailboxes, NEW e \in Entries,
         (e \in Users /\ ApplySet(m, e)) \/ ApplyRemove(m, e)
  PROVE  Turned(m) /\ Fitting(m)
<1> USE DEF IInv
<1>1. CASE e \in Users /\ ApplySet(m, e)
  <2>1. Decision(m, e) = DesiredFor(m, e)
    BY <1>1, DovecotNames DEF DovecotNames, Decision
  <2>2. DesiredFor(m, e) \in Granted
    BY <1>1 DEF DesiredFor, Granted, TypeOK
  <2> QED BY <1>1, <2>1, <2>2, WriteTurns DEF ApplySet
<1>2. CASE ApplyRemove(m, e)
  <2>1. Decision(m, e) = None /\ None \in Granted
    BY <1>2 DEF ApplyRemove, Written, Granted
  <2> QED BY <1>2, <2>1, WriteTurns DEF ApplyRemove
<1> QED BY <1>1, <1>2

\* Nothing is left to write, so what is recorded is as decided.
LEMMA EndMailboxTurns ==
  ASSUME IInv, NEW m \in Mailboxes, EndMailbox(m)
  PROVE  Turned(m) /\ Fitting(m)
<1> USE DEF IInv
<1>1. phase = "apply" /\ \A e \in Entries : <<e, m>> \notin changes
  BY AtWork DEF EndMailbox
<1>2. box[m] \in Box /\ acl[m] \in [Entries -> Granted] /\ acl = [acl EXCEPT ![m] = acl[m]]
  BY DEF TypeOK
<1>3. box'[m] \in Box /\ box'[m].at = "done" /\ box' = [box EXCEPT ![m] = box'[m]]
  BY <1>2 DEF EndMailbox, Box, TypeOK
<1>4. \/ changes' = changes
      \/ /\ box[m].failed = {} /\ changes \subseteq changes'
         /\ changes' \subseteq changes \cup (box[m].diff \X {m})
  BY DEF EndMailbox, Succeeded
<1>5. box[m].diff \subseteq Entries /\ box[m].failed \subseteq Entries
  BY <1>2 DEF Box
<1>6. Turned(m)
  BY <1>1, <1>2, <1>3, <1>4, <1>5 DEF EndMailbox, Turned, input, shared, TypeOK
<1>7. ASSUME NEW e \in Entries, <<e, m>> \in changes', ~config.dryRun
      PROVE  acl'[m][e] = Decision(m, e)
  <2>1. e \in box[m].diff /\ box[m].failed = {}
    BY <1>1, <1>4, <1>7
  <2> QED BY <1>7, <2>1 DEF EndMailbox, Written
<1> QED BY <1>3, <1>6, <1>7 DEF Fitting, Written, Wanted

-----------------------------------------------------------------------------
\* Sync returns, or is cancelled.
LEMMA FinishKeeps ==
  ASSUME IInv, Finish
  PROVE  IInv' /\ Contract!Return
<1>1. TypeOK'
  BY DEF IInv, Finish, TypeOK, input, shared, audit, Busy, Listing
<1>2. InputFits' /\ PhaseFits'
  BY DEF IInv, Finish, InputFits, PhaseFits, input, audit, MailboxesDone
<1>3. Prepared'
  BY DEF IInv, Finish, Prepared, Asked, Wishes, input, shared, audit
<1>5. (\A m \in Mailboxes : Written(m)' /\ Wanted(m)') /\ RecordedLast' /\ AuditTruthful'
  BY DEF IInv, Finish, Written, Wanted, RecordedLast, AuditTruthful, Decision, DesiredFor, input,
         shared, audit
<1>4. Contract!Return
  BY DEF IInv, Finish, PhaseFits, input, audit, Contract!Return
<1> QED BY <1>1, <1>2, <1>3, <1>4, <1>5 DEF IInv

LEMMA IdleKeeps ==
  ASSUME IInv, Cancel \/ UNCHANGED vars
  PROVE  IInv' /\ UNCHANGED Contract!vars
<1>1. /\ UNCHANGED <<input, acl, phase, outcome, user, shared, box, audit, faults>>
      /\ cancelled' \in BOOLEAN /\ (cancelled => cancelled')
  BY DEF IInv, TypeOK, Cancel, vars
<1>2. TypeOK'
  BY <1>1 DEF IInv, TypeOK, input, shared, audit, Busy, Listing
<1>3. InputFits' /\ PhaseFits'
  BY <1>1 DEF IInv, InputFits, PhaseFits, input, audit, MailboxesDone
<1>4. (\A m \in Mailboxes : Written(m)' /\ Wanted(m)') /\ RecordedLast' /\ AuditTruthful'
  BY <1>1 DEF IInv, Written, Wanted, RecordedLast, AuditTruthful, Decision, DesiredFor, input,
              shared, audit
<1>6. Prepared'
  BY <1>1 DEF IInv, Prepared, Asked, Wishes, input, shared, audit
<1>5. UNCHANGED Contract!vars
  BY <1>1 DEF input, audit, Contract!vars
<1> QED BY <1>2, <1>3, <1>4, <1>5, <1>6 DEF IInv

LEMMA StepFacts == IInv /\ [Next]_vars => IInv' /\ [Contract!Next]_(Contract!vars)
<1> SUFFICES ASSUME IInv, [Next]_vars PROVE IInv' /\ [Contract!Next]_(Contract!vars)
  OBVIOUS
<1>1. CASE Cancel \/ UNCHANGED vars
  BY <1>1, IdleKeeps
<1>2. CASE \E u \in Users : ProcessACLs(u) \/ ListMailboxes(u) \/ AbandonIdentity(u)
  BY <1>2, IdentityTypes, IdentityPrepares, FirstPhaseKeeps, FirstPhaseWorks DEF Contract!Next
<1>3. CASE EndIdentities
  BY <1>3, EndIdentitiesKeeps
<1>4. CASE \E m \in Mailboxes : ReadACL(m) \/ AbandonMailbox(m) \/ EndMailbox(m)
  BY <1>4, ReadACLTurns, EndMailboxTurns, TurnedKeeps DEF Contract!Next
<1>5. CASE \E m \in Mailboxes, u \in Users : ApplySet(m, u)
  BY <1>5, ApplyTurns, TurnedKeeps DEF Contract!Next, Entries
<1>6. CASE \E m \in Mailboxes, e \in Entries : ApplyRemove(m, e)
  BY <1>6, ApplyTurns, TurnedKeeps DEF Contract!Next
<1>7. CASE Finish
  BY <1>7, FinishKeeps DEF Contract!Next
<1> QED BY <1>1, <1>2, <1>3, <1>4, <1>5, <1>6, <1>7 DEF Next, Work

LEMMA InitFacts == ASSUME Init PROVE IInv /\ Contract!Init
<1>1. TypeOK
  <2>1. Busy = {} /\ Listing = {} /\ Cardinality({}) = 0
    BY FS_EmptySet DEF Init, Busy, Listing, Idle
  <2>2. config.concurrency \in Nat /\ 0 <= config.concurrency
    BY DovecotConfig DEF DovecotConfig, Init
  <2>3. box \in [Mailboxes -> Box]
    BY DEF Init, Idle, Box
  <2>4. /\ desired \in [Mailboxes -> [Users -> Granted]]
        /\ affected \in [Mailboxes -> SUBSET Users]
        /\ user \in [Users -> {"new", "list", "done"}]
    BY DEF Init, Granted
  <2>5. acl \in [Mailboxes -> [Entries -> Granted]] /\ faults \in 0..MaxFaults
    BY DovecotConfig DEF DovecotConfig, Init
  <2>6. cancelled \in BOOLEAN
    BY DEF Init
  <2>7. disabled \subseteq Users
    BY DEF Init
  <2> QED BY <2>1, <2>2, <2>3, <2>4, <2>5, <2>6, <2>7 DEF Init, TypeOK
<1>2. InputFits /\ PhaseFits
  BY DEF Init, InputFits, PhaseFits, Idle
<1>3. (\A m \in Mailboxes : Written(m) /\ Wanted(m)) /\ RecordedLast /\ AuditTruthful
  BY DEF Init, Idle, Written, Wanted, RecordedLast, AuditTruthful
<1>5. Prepared
  <2>1. ASSUME NEW u \in Users \ identities, NEW m \in Mailboxes PROVE Asked(u, m) = None
    <3>1. Wishes(u) = <<>>
      BY DEF Init, Wishes
    <3>2. KeysOf(<<>>) = {}
      BY DEF KeysOf
    <3> QED BY <3>1, <3>2, NotReached DEF Asked
  <2>2. \A u \in Users, m \in Mailboxes : desired[m][u] = None
    BY DEF Init
  <2>3. phase = "identities" /\ disabledUsers = {} /\ \A u \in identities : user[u] = "new"
    BY DEF Init
  <2> QED BY <2>1, <2>2, <2>3 DEF Prepared
<1>4. Contract!Init
  BY DEF Init, Contract!Init
<1> QED BY <1>1, <1>2, <1>3, <1>4, <1>5 DEF IInv

-----------------------------------------------------------------------------
\* What a step must not take from a user on a mailbox, unless one of the failures
\* named in KeepsAccess came before.
Kept(u, m) ==
  u \in lost \/ u \in box[m].failed
    \/ RightsOf(Due(u, m)) \cap Has(u, m) \subseteq Has(u, m)'

\* In the second phase what is due is what was decided.
LEMMA DueDecided ==
  ASSUME IInv, phase = "apply", NEW u \in Users \ lost, NEW m \in Mailboxes, Due(u, m) # None
  PROVE  DesiredFor(m, u) = Due(u, m)
<1>1. u \in identities \ disabled /\ Wishes(u) = attribute[u]
  BY DEF Due, Wishes
<1>2. desired[m][u] = Asked(u, m)
  BY DEF IInv, Prepared
<1> QED BY <1>1, <1>2 DEF IInv, Prepared, DesiredFor, Due, Asked

\* An entry that is written is what was decided; the one of anyone goes when each user
\* has an entry of its own.
LEMMA ApplyKept ==
  ASSUME IInv, NEW m \in Mailboxes, NEW e \in Entries,
         (e \in Users /\ ApplySet(m, e)) \/ ApplyRemove(m, e),
         NEW u \in Users, NEW n \in Mailboxes
  PROVE  Kept(u, n)
<1> USE DEF IInv
<1>1. phase = "apply" /\ box[m].at = "apply" /\ acl[m] \in [Entries -> Granted]
  BY AtWork DEF ApplySet, ApplyRemove, TypeOK
<1>2. acl' = acl \/ (~config.dryRun /\ acl' = [acl EXCEPT ![m][e] = Decision(m, e)])
  <2>1. CASE e \in Users /\ ApplySet(m, e)
    <3>1. Decision(m, e) = DesiredFor(m, e)
      BY <2>1, DovecotNames DEF DovecotNames, Decision
    <3> QED BY <2>1, <3>1 DEF ApplySet, Write
  <2>2. CASE ApplyRemove(m, e)
    <3>1. Decision(m, e) = None
      BY <1>1, <2>2 DEF ApplyRemove, Written
    <3> QED BY <2>2, <3>1 DEF ApplyRemove, Write
  <2> QED BY <2>1, <2>2
<1>3. CASE acl' = acl
  BY <1>3 DEF Kept, Has
<1>4. CASE ~config.dryRun /\ acl' = [acl EXCEPT ![m][e] = Decision(m, e)]
  <2>1. /\ n # m => acl'[n] = acl[n]
        /\ \A x \in Entries \ {e} : acl'[m][x] = acl[m][x]
        /\ acl'[m][e] = Decision(m, e)
    BY <1>1, <1>4 DEF TypeOK
  <2>2. u \in Entries /\ Anyone \in Entries /\ u # Anyone
    BY DovecotNames DEF DovecotNames, Entries
  <2>3. CASE n # m
    BY <2>1, <2>3 DEF Kept, Has
  <2>4. CASE n = m /\ e \notin {u, Anyone}
    BY <2>1, <2>2, <2>4 DEF Kept, Has
  <2>5. CASE n = m /\ (u \in lost \/ u \in box[m].failed \/ Due(u, m) = None)
    BY <2>5 DEF Kept, RightsOf
  <2>6. CASE n = m /\ u \notin lost /\ u \notin box[m].failed /\ Due(u, m) # None
    <3>1. DesiredFor(m, u) = Due(u, m)
      BY <1>1, <2>6, DueDecided
    <3>2. CASE e = u
      BY <2>1, <2>2, <2>6, <3>1, <3>2 DEF Decision, Kept, Has, RightsOf
    <3>3. CASE e = Anyone
      <4>1. ApplyRemove(m, Anyone)
        BY <2>2, <3>3, DovecotNames DEF DovecotNames
      <4>2. Anyone \in box[m].remove /\ box[m].set = {}
        BY <4>1 DEF ApplyRemove, Turn
      <4>3. RightsOf(acl[m][u]) = Due(u, m)
        BY <1>1, <1>4, <2>6, <3>1, <4>2 DEF Wanted
      <4>4. acl'[m][u] = acl[m][u]
        BY <2>1, <2>2, <3>3
      <4> QED BY <2>6, <4>3, <4>4 DEF Kept, Has, RightsOf
    <3> QED BY <2>4, <2>6, <3>2, <3>3
  <2> QED BY <2>3, <2>5, <2>6
<1> QED BY <1>2, <1>3, <1>4

LEMMA StepKept ==
  ASSUME IInv, [Next]_vars
  PROVE  \A u \in Users, m \in Mailboxes : Kept(u, m)
<1>1. CASE UNCHANGED acl
  BY <1>1 DEF Kept, Has
<1>2. CASE \E m \in Mailboxes, u \in Users : ApplySet(m, u)
  BY <1>2, ApplyKept DEF Entries
<1>3. CASE \E m \in Mailboxes, e \in Entries : ApplyRemove(m, e)
  BY <1>3, ApplyKept
<1> QED
  BY <1>1, <1>2, <1>3
     DEF Next, Work, vars, ProcessACLs, ListMailboxes, AbandonIdentity, EndIdentities, ReadACL,
         AbandonMailbox, EndMailbox, Finish, Cancel

-----------------------------------------------------------------------------
\* What a Sync has settled.  An identity that was listed saw what it could look up,
\* so every mailbox that matters has a goroutine; and what that goroutine has not
\* brought about is still to be written, or its write failed and is an error.

\* What Sync decided for a user on a mailbox is the case; and for anyone.
Met(m, u) ==
  IF DesiredFor(m, u) = None THEN acl[m][u] = None
  ELSE DesiredFor(m, u) \in {acl[m][u], Effective(m, u)}
Closed(m) == config.removeAnyone => RightsOf(acl[m][Anyone]) = {}

\* An identity that was listed saw every mailbox with an entry of its own that lets it look,
\* unless the mailbox is dealt with.
Listed ==
  \A u \in identities, m \in Mailboxes :
    \/ user[u] # "done" \/ u \in errors \/ (cancelled /\ phase # "apply")
    \/ m \in allMailboxes
    \/ acl[m][u] = None \/ Lookup \notin acl[m][u]

\* A mailbox on which something is desired is dealt with, and so it has a goroutine.
Reached ==
  /\ \A m \in Mailboxes, u \in Users : desired[m][u] # None => m \in allMailboxes
  /\ phase = "apply" \/ outcome = "ok" =>
       \A m \in Mailboxes : box[m].at = "none" <=> m \notin allMailboxes

\* Sync returns no error only if it was not cancelled and left no identity out.
ReturnedOk == outcome = "ok" => ~cancelled /\ \A u \in Users : user[u] = "done"

\* What the goroutine of a mailbox has not brought about is still to be written, or failed.
Left(m) ==
  /\ box[m].at # "apply" =>
       box[m].set = {} /\ box[m].remove = {} /\ box[m].failed \subseteq errors
  /\ box[m].at \in {"apply", "done"} /\ m \notin unread /\ ~cancelled /\ ~config.dryRun =>
       /\ \A u \in Users : u \in box[m].set \cup box[m].remove \cup box[m].failed \/ Met(m, u)
       /\ Anyone \in box[m].set \cup box[m].remove \cup box[m].failed \/ Closed(m)

SettleInv == Listed /\ Reached /\ ReturnedOk /\ \A m \in Mailboxes : Left(m)

\* A step of the first phase: ListMailboxes adds what the identity sees, and ProcessACLs
\* what its keys reach.
LEMMA IdentitySettles ==
  ASSUME IInv, SettleInv, NEW u \in Users, ProcessACLs(u) \/ ListMailboxes(u) \/ AbandonIdentity(u)
  PROVE  SettleInv'
<1> USE DEF IInv
<1>1. FirstPhase /\ phase = "identities" /\ UNCHANGED <<acl, box, identities, cancelled>>
  BY IdentityTypes DEF FirstPhase, input, ProcessACLs, ListMailboxes, AbandonIdentity
<1>2. /\ \A v \in Users \ {u} : user'[v] = user[v]
      /\ errors \subseteq errors' /\ allMailboxes \subseteq allMailboxes'
  BY DEF ProcessACLs, ListMailboxes, AbandonIdentity, shared, audit, TypeOK
<1>3. Listed'
  <2> SUFFICES ASSUME NEW v \in identities, NEW m \in Mailboxes, user'[v] = "done",
                      v \notin errors', ~cancelled, acl[m][v] # None, Lookup \in acl[m][v]
               PROVE  m \in allMailboxes'
    BY <1>1 DEF Listed, FirstPhase
  <2>1. v \in Users
    BY DEF TypeOK
  <2>2. CASE v # u
    BY <1>1, <1>2, <2>1, <2>2 DEF Listed, SettleInv
  <2>3. CASE v = u
    <3>1. ListMailboxes(u)
      BY <2>3 DEF ProcessACLs, AbandonIdentity, TypeOK
    <3>2. Sees(u, m)
      BY <2>3 DEF Sees
    <3> QED BY <2>3, <3>1, <3>2 DEF ListMailboxes
  <2> QED BY <2>2, <2>3
<1>4. \A m \in Mailboxes, v \in Users : desired'[m][v] # None => m \in allMailboxes'
  <2>1. CASE UNCHANGED desired
    BY <1>2, <2>1 DEF Reached, SettleInv
  <2>2. CASE ProcessACLs(u)
    <3> DEFINE acls == Wishes(u)
    <3>1. PICK keys :
            LET reached == UNION {Expand(k) : k \in keys}
            IN /\ desired' = [m \in Mailboxes |->
                     [desired[m] EXCEPT ![u] = IF m \in reached THEN RightsOn(acls, keys, m) ELSE @]]
               /\ allMailboxes' = allMailboxes \cup reached
      BY <2>2 DEF ProcessACLs
    <3> DEFINE reached == UNION {Expand(k) : k \in keys}
               given(m) == IF m \in reached THEN RightsOn(acls, keys, m) ELSE desired[m][u]
    <3>2. /\ \A m \in Mailboxes : desired'[m] = [desired[m] EXCEPT ![u] = given(m)]
          /\ allMailboxes' = allMailboxes \cup reached
      BY <3>1
    <3>3. \A m \in Mailboxes : m \notin reached => given(m) = desired[m][u]
      OBVIOUS
    <3> HIDE DEF reached, given
    <3>4. \A m \in Mailboxes : desired[m] \in [Users -> Granted]
      BY DEF TypeOK
    <3>5. \A m \in Mailboxes, v \in Users :
            desired'[m][v] = IF v = u THEN given(m) ELSE desired[m][v]
      BY <3>2, <3>4
    <3> QED BY <3>2, <3>3, <3>5 DEF Reached, SettleInv
  <2> QED BY <2>1, <2>2 DEF ListMailboxes, AbandonIdentity, shared
<1>5. Reached' /\ ReturnedOk'
  BY <1>1, <1>4 DEF FirstPhase, PhaseFits, Reached, ReturnedOk
<1>6. \A m \in Mailboxes : Left(m)'
  <2>1. \A m \in Mailboxes : box'[m] = box[m] /\ box[m].at = "none"
    BY <1>1 DEF PhaseFits
  <2> QED BY <1>2, <2>1 DEF Left, SettleInv
<1> QED BY <1>3, <1>5, <1>6 DEF SettleInv

\* The goroutines of the second phase are those of the mailboxes to deal with.
LEMMA EndIdentitiesSettles ==
  ASSUME IInv, SettleInv, EndIdentities
  PROVE  SettleInv'
<1> USE DEF IInv
<1>1. /\ phase = "identities" /\ UNCHANGED <<input, acl, user, shared, audit, cancelled>>
      /\ \A m \in Mailboxes : box[m].at = "none"
      /\ \A u \in Users : user[u] = "done"
  BY DEF EndIdentities, PhaseFits
<1>2. CASE /\ ~cancelled /\ phase' = "apply" /\ outcome' = outcome
           /\ box' = [m \in Mailboxes |->
                        IF m \in allMailboxes THEN [Idle EXCEPT !.at = "new"] ELSE Idle]
  <2>1. \A m \in Mailboxes :
          /\ box'[m].at = "none" <=> m \notin allMailboxes
          /\ box'[m].at \in {"none", "new"} /\ box'[m].set = {} /\ box'[m].remove = {}
          /\ box'[m].failed = {}
    BY <1>2 DEF Idle
  <2>2. Listed' /\ ReturnedOk'
    BY <1>1, <1>2 DEF SettleInv, Listed, ReturnedOk, PhaseFits, input, shared, audit
  <2>3. Reached'
    BY <1>1, <2>1 DEF SettleInv, Reached, shared
  <2>4. \A m \in Mailboxes : Left(m)'
    BY <2>1 DEF Left
  <2> QED BY <2>2, <2>3, <2>4 DEF SettleInv
<1>3. CASE cancelled /\ phase' = "done" /\ outcome' = "error" /\ UNCHANGED box
  <2>1. Listed' /\ ReturnedOk' /\ Reached'
    BY <1>1, <1>3 DEF SettleInv, Listed, ReturnedOk, Reached, input, shared, audit
  <2>2. \A m \in Mailboxes : Left(m)'
    BY <1>1, <1>3 DEF SettleInv, Left, audit
  <2> QED BY <2>1, <2>2 DEF SettleInv
<1> QED BY <1>2, <1>3 DEF EndIdentities, Complete

\* A step of a mailbox disturbs only what is left of that mailbox.
LEMMA TurnedSettles ==
  ASSUME IInv, SettleInv, NEW m \in Mailboxes, Turned(m), Left(m)', box'[m].at # "none",
         unread \subseteq unread'
  PROVE  SettleInv'
<1> USE DEF IInv
<1>1. /\ phase = "apply" /\ outcome = "none"
      /\ UNCHANGED <<input, phase, outcome, user, shared, cancelled>> /\ errors \subseteq errors'
      /\ \A n \in Mailboxes \ {m} : box'[n] = box[n] /\ acl'[n] = acl[n]
      /\ m \in allMailboxes
  <2>1. \A n \in Mailboxes \ {m} : box'[n] = box[n] /\ acl'[n] = acl[n]
    BY DEF Turned, TypeOK
  <2> QED BY <2>1 DEF Turned, PhaseFits, SettleInv, Reached
<1>2. Listed'
  BY <1>1 DEF SettleInv, Listed, input, shared
<1>3. Reached' /\ ReturnedOk'
  BY <1>1 DEF SettleInv, Reached, ReturnedOk, shared
<1>4. ASSUME NEW n \in Mailboxes PROVE Left(n)'
  <2>1. CASE n # m
    <3>1. /\ config' = config /\ cancelled' = cancelled /\ box'[n] = box[n] /\ acl'[n] = acl[n]
          /\ Left(n)
      BY <1>1, <2>1 DEF input, SettleInv
    <3>2. Closed(n)' = Closed(n) /\ \A u \in Users : Met(n, u) => Met(n, u)'
      BY <1>1, <3>1 DEF Met, Closed, DesiredFor, Effective, shared
    <3>3. n \notin unread' => n \notin unread
      OBVIOUS
    <3> QED BY <1>1, <3>1, <3>2, <3>3 DEF Left
  <2> QED BY <2>1
<1> QED BY <1>2, <1>3, <1>4 DEF SettleInv

\* What differs is to be set, what nobody wants to be removed, and the rest is as decided.
LEMMA ReadACLSettles ==
  ASSUME IInv, SettleInv, NEW m \in Mailboxes, ReadACL(m) \/ AbandonMailbox(m)
  PROVE  SettleInv'
<1> USE DEF IInv
<1>1. /\ Turned(m) /\ box[m].at = "new"
      /\ box[m].set = {} /\ box[m].remove = {} /\ box[m].failed \subseteq errors
  BY ReadACLTurns DEF SettleInv, Left, ReadACL, AbandonMailbox
<1>2. box[m] \in Box /\ acl' = acl /\ errors' = errors /\ unread \subseteq unread'
  BY DEF TypeOK, ReadACL, AbandonMailbox, audit
<1>3. CASE /\ box' = [box EXCEPT ![m].at = "done"]
           /\ cancelled \/ m \in unread'
  <2>1. /\ box'[m].at = "done" /\ box'[m].set = {} /\ box'[m].remove = {}
        /\ box'[m].failed \subseteq errors
    BY <1>1, <1>2, <1>3 DEF TypeOK, Box
  <2>2. Left(m)'
    BY <1>1, <1>2, <1>3, <2>1 DEF Turned, Left
  <2> QED BY <1>1, <1>2, <2>1, <2>2, TurnedSettles
<1>4. CASE /\ box' = [box EXCEPT ![m] =
                [at |-> IF ToSet(m) \cup ToRemove(m) = {} THEN "done" ELSE "apply",
                 set |-> ToSet(m), remove |-> ToRemove(m), diff |-> Shown(m), failed |-> {}]]
           /\ ReadACL(m)
  <2>1. /\ box'[m].at = IF ToSet(m) \cup ToRemove(m) = {} THEN "done" ELSE "apply"
        /\ box'[m].set = ToSet(m) /\ box'[m].remove = ToRemove(m) /\ box'[m].failed = {}
    BY <1>4 DEF TypeOK
  <2>2. ASSUME NEW u \in Users PROVE u \in ToSet(m) \cup ToRemove(m) \/ Met(m, u)
    BY DEF ToSet, ToRemove, Met
  <2>3. Closed(m)' = Closed(m) /\ \A u \in Users : Met(m, u)' = Met(m, u)
    BY <1>1, <1>2 DEF Turned, input, shared, Met, Closed, DesiredFor, Effective
  <2>4. Anyone \in ToRemove(m) \/ Closed(m)
    BY DEF ToRemove, Closed
  <2>5. Left(m)'
    BY <2>1, <2>2, <2>3, <2>4 DEF Left
  <2> QED BY <1>1, <1>2, <2>1, <2>5, TurnedSettles
<1> QED BY <1>3, <1>4 DEF ReadACL, AbandonMailbox

\* An entry is written as decided, or its write failed; the entry of anyone is written
\* only if it counts for nobody (Wanted).
LEMMA ApplySettles ==
  ASSUME IInv, SettleInv, NEW m \in Mailboxes, NEW e \in Entries,
         (e \in Users /\ ApplySet(m, e)) \/ ApplyRemove(m, e)
  PROVE  SettleInv'
<1> USE DEF IInv
<1>1. Turned(m) /\ box[m].at = "apply" /\ unread' = unread /\ e \in box[m].set \cup box[m].remove
  BY ApplyTurns DEF ApplySet, ApplyRemove, audit
<1>2. box[m] \in Box /\ acl[m] \in [Entries -> Granted] /\ Users \subseteq Entries
  BY DEF TypeOK, Entries
<1>3. \/ e \in Users /\ Write(m, e, Decision(m, e), [box[m] EXCEPT !.set = @ \ {e}])
      \/ Write(m, e, Decision(m, e), [box[m] EXCEPT !.remove = @ \ {e}])
  <2>1. e \in Users => Decision(m, e) = DesiredFor(m, e)
    BY DovecotNames DEF DovecotNames, Decision
  <2>2. ApplyRemove(m, e) => Decision(m, e) = None
    BY DEF ApplyRemove, Written
  <2> QED BY <2>1, <2>2 DEF ApplySet, ApplyRemove
<1>4. PICK rest \in {[box[m] EXCEPT !.set = @ \ {e}], [box[m] EXCEPT !.remove = @ \ {e}]} :
        Write(m, e, Decision(m, e), rest)
  BY <1>3
<1>5. /\ rest.at = "apply" /\ rest.failed = box[m].failed
      /\ (box[m].set \cup box[m].remove) \ {e} \subseteq rest.set \cup rest.remove
  BY <1>1, <1>2 DEF Box
<1>6. rest \in Box
  BY <1>2 DEF Box
<1>7. /\ box'[m].at = "apply" /\ box[m].failed \subseteq box'[m].failed
      /\ box'[m].set = rest.set /\ box'[m].remove = rest.remove
      /\ \A x \in Entries \ {e} : acl'[m][x] = acl[m][x]
      /\ config.dryRun \/ e \in box'[m].failed \/ acl'[m][e] = Decision(m, e)
  <2>1. CASE /\ acl' = IF config.dryRun THEN acl ELSE [acl EXCEPT ![m][e] = Decision(m, e)]
             /\ box' = [box EXCEPT ![m] = rest]
    BY <1>2, <1>5, <2>1 DEF TypeOK
  <2>2. CASE /\ box' = [box EXCEPT ![m] = [rest EXCEPT !.failed = @ \cup {e}]]
             /\ acl' \in {acl, [acl EXCEPT ![m][e] = Decision(m, e)]}
    <3>1. box'[m] = [rest EXCEPT !.failed = @ \cup {e}]
      BY <2>2 DEF TypeOK
    <3>2. /\ box'[m].at = rest.at /\ box'[m].failed = rest.failed \cup {e}
          /\ box'[m].set = rest.set /\ box'[m].remove = rest.remove
      BY <1>6, <3>1 DEF Box
    <3>3. \A x \in Entries \ {e} : acl'[m][x] = acl[m][x]
      BY <1>2, <2>2 DEF TypeOK
    <3> QED BY <1>5, <3>2, <3>3
  <2> QED BY <1>4, <2>1, <2>2 DEF Write
<1>8. ASSUME NEW u \in Users, Met(m, u), u # e PROVE Met(m, u)'
  <2>1. acl'[m][u] = acl[m][u] /\ UNCHANGED <<config, desired, disabledUsers>>
    BY <1>1, <1>2, <1>7, <1>8 DEF Turned, input, shared
  <2>2. e = Anyone => config.removeAnyone
    <3>1. e = Anyone => Anyone \in box[m].remove
      BY DovecotNames DEF DovecotNames, ApplyRemove
    <3> QED BY <1>1, <3>1 DEF Wanted
  <2>3. e # Anyone => acl'[m][Anyone] = acl[m][Anyone]
    BY <1>7 DEF Entries
  <2>4. Effective(m, u)' = Effective(m, u)
    BY <2>1, <2>2, <2>3 DEF Effective
  <2> QED BY <1>8, <2>1, <2>4 DEF Met, DesiredFor
<1>9. ASSUME NEW u \in Users, u = e, acl'[m][e] = Decision(m, e) PROVE Met(m, u)'
  <2>1. Decision(m, e) = DesiredFor(m, e) /\ DesiredFor(m, e)' = DesiredFor(m, e)
    BY <1>1, <1>9, DovecotNames DEF DovecotNames, Decision, Turned, shared, DesiredFor
  <2> QED BY <1>9, <2>1 DEF Met, RightsOf
<1>10. ASSUME m \notin unread, ~cancelled, ~config.dryRun,
              Anyone \notin box'[m].set \cup box'[m].remove \cup box'[m].failed
       PROVE  Closed(m)'
  <2>1. CASE e = Anyone
    <3>1. Decision(m, e) = None
      BY <2>1, DovecotNames DEF DovecotNames, Decision
    <3> QED BY <1>7, <1>10, <2>1, <3>1 DEF Closed, RightsOf
  <2>2. CASE e # Anyone
    <3>1. Anyone \notin box[m].set \cup box[m].remove \cup box[m].failed
      BY <1>5, <1>7, <1>10, <2>2
    <3>2. Closed(m)
      BY <1>1, <1>10, <3>1 DEF SettleInv, Left
    <3>3. acl'[m][Anyone] = acl[m][Anyone] /\ config' = config
      BY <1>1, <1>7, <2>2 DEF Entries, Turned, input
    <3> QED BY <3>2, <3>3 DEF Closed
  <2> QED BY <2>1, <2>2
<1>11. Left(m)'
  <2> SUFFICES ASSUME m \notin unread, ~cancelled, ~config.dryRun, NEW u \in Users,
                      u \notin box'[m].set \cup box'[m].remove \cup box'[m].failed
               PROVE  Met(m, u)'
    BY <1>1, <1>7, <1>10 DEF Turned, input, Left
  <2>1. CASE u = e
    BY <1>7, <1>9, <2>1
  <2>2. CASE u # e
    <3>1. u \notin box[m].set \cup box[m].remove \cup box[m].failed
      BY <1>5, <1>7, <2>2
    <3> QED BY <1>1, <1>8, <2>2, <3>1 DEF SettleInv, Left
  <2> QED BY <2>1, <2>2
<1> QED BY <1>1, <1>7, <1>11, TurnedSettles

\* The goroutine ends when nothing is left to write; what failed becomes an error.
LEMMA EndMailboxSettles ==
  ASSUME IInv, SettleInv, NEW m \in Mailboxes, EndMailbox(m)
  PROVE  SettleInv'
<1> USE DEF IInv
<1>1. Turned(m) /\ unread' = unread /\ acl' = acl /\ box[m].at = "apply"
  BY EndMailboxTurns DEF EndMailbox
<1>2. /\ box'[m].at = "done" /\ box'[m].failed = box[m].failed
      /\ box'[m].set = {} /\ box[m].set = {} /\ box'[m].remove = {} /\ box[m].remove = {}
      /\ box[m].failed \subseteq errors'
  BY DEF EndMailbox, TypeOK, Box
<1>3. Closed(m)' = Closed(m) /\ \A u \in Users : Met(m, u)' = Met(m, u)
  BY <1>1 DEF Turned, input, shared, Met, Closed, DesiredFor, Effective
<1>4. Left(m)'
  BY <1>1, <1>2, <1>3 DEF Turned, input, SettleInv, Left
<1> QED BY <1>1, <1>2, <1>4, TurnedSettles

\* Sync returns, or is cancelled, or nothing happens.
LEMMA RestSettles ==
  ASSUME IInv, SettleInv, Finish \/ Cancel \/ UNCHANGED vars
  PROVE  SettleInv'
<1> USE DEF IInv
<1>1. /\ UNCHANGED <<input, acl, user, shared, box, audit>> /\ (cancelled => cancelled')
      /\ cancelled' => phase' # "apply" \/ phase = "apply"
  BY DEF Finish, Cancel, vars
<1>2. Listed'
  <2>1. \/ cancelled' /\ phase' # "apply"
        \/ (phase = "apply" /\ ~cancelled) \/ phase' = "apply"
        \/ UNCHANGED <<phase, cancelled>>
    BY DEF Finish, Cancel, vars
  <2> QED BY <1>1, <2>1 DEF SettleInv, Listed, Finish, Cancel, vars, input, shared, audit
<1>3. Reached'
  BY <1>1 DEF SettleInv, Reached, Finish, Cancel, vars, shared, PhaseFits
<1>4. ReturnedOk'
  BY <1>1 DEF SettleInv, ReturnedOk, Finish, Cancel, vars, PhaseFits, Prepared
<1>5. ASSUME NEW m \in Mailboxes PROVE Left(m)'
  <2>1. Closed(m)' = Closed(m) /\ \A u \in Users : Met(m, u)' = Met(m, u)
    BY <1>1 DEF input, shared, Met, Closed, DesiredFor, Effective
  <2> QED BY <1>1, <2>1 DEF SettleInv, Left, input, audit
<1> QED BY <1>2, <1>3, <1>4, <1>5 DEF SettleInv

LEMMA StepSettles == IInv /\ SettleInv /\ [Next]_vars => SettleInv'
<1> SUFFICES ASSUME IInv, SettleInv, [Next]_vars PROVE SettleInv'
  OBVIOUS
<1>1. CASE Finish \/ Cancel \/ UNCHANGED vars
  BY <1>1, RestSettles
<1>2. CASE \E u \in Users : ProcessACLs(u) \/ ListMailboxes(u) \/ AbandonIdentity(u)
  BY <1>2, IdentitySettles
<1>3. CASE EndIdentities
  BY <1>3, EndIdentitiesSettles
<1>4. CASE \E m \in Mailboxes : ReadACL(m) \/ AbandonMailbox(m) \/ EndMailbox(m)
  BY <1>4, ReadACLSettles, EndMailboxSettles
<1>5. CASE \E m \in Mailboxes, u \in Users : ApplySet(m, u)
  BY <1>5, ApplySettles DEF Entries
<1>6. CASE \E m \in Mailboxes, e \in Entries : ApplyRemove(m, e)
  BY <1>6, ApplySettles
<1> QED BY <1>1, <1>2, <1>3, <1>4, <1>5, <1>6 DEF Next, Work

LEMMA InitSettles == ASSUME Init PROVE SettleInv
<1>1. Listed
  BY DEF Init, Listed
<1>2. Reached /\ ReturnedOk
  BY DEF Init, Reached, ReturnedOk
<1>3. \A m \in Mailboxes : Left(m)
  BY DEF Init, Idle, Left
<1> QED BY <1>1, <1>2, <1>3 DEF SettleInv

\* After a clean Sync what an identity was due is what was decided, and it was brought about
\* on every mailbox that has a goroutine; nothing was due, or to be seen, on the others.
LEMMA CleanSettles == ASSUME IInv, SettleInv PROVE Settled
<1> USE DEF IInv
<1> SUFFICES ASSUME Clean, NEW m \in Mailboxes, NEW u \in identities
             PROVE  IF Due(u, m) = None
                      THEN acl[m][u] = None \/ Lookup \notin acl[m][u]
                      ELSE \/ Has(u, m) = Due(u, m)
                           \/ Overridden(u, m) /\ Effective(m, u) = Due(u, m)
  BY DEF Settled
<1>1. /\ phase = "done" /\ ~cancelled /\ u \in Users /\ user[u] = "done" /\ u \notin errors
      /\ u \notin lost /\ m \notin unread /\ ~config.dryRun /\ outcome = "ok"
  BY DEF Clean, SettleInv, ReturnedOk, PhaseFits, TypeOK
<1>2. DesiredFor(m, u) = Due(u, m)
  <2>1. desired[m][u] = Asked(u, m)
    BY <1>1 DEF Prepared
  <2>2. CASE u \notin disabled
    BY <2>1, <2>2 DEF Prepared, DesiredFor, Due, Asked, Wishes
  <2>3. CASE u \in disabled
    <3>1. KeysOf(<<>>) = {}
      BY DEF KeysOf
    <3>2. Asked(u, m) = None
      BY <2>3, <3>1, NotReached DEF Asked, Wishes
    <3> QED BY <2>1, <2>3, <3>2 DEF DesiredFor, Due
  <2> QED BY <2>2, <2>3
<1>3. CASE m \notin allMailboxes
  <2>1. Due(u, m) = None
    BY <1>1, <1>2, <1>3 DEF SettleInv, Reached, DesiredFor
  <2> QED BY <1>1, <1>3, <2>1 DEF SettleInv, Listed
<1>4. CASE m \in allMailboxes
  <2>1. box[m].at = "done"
    BY <1>1, <1>4 DEF SettleInv, Reached, PhaseFits, MailboxesDone
  <2>2. u \notin box[m].set \cup box[m].remove \cup box[m].failed
    BY <1>1, <2>1 DEF SettleInv, Left
  <2>3. Met(m, u)
    BY <1>1, <2>1, <2>2 DEF SettleInv, Left
  <2>4. Closed(m)
    <3>1. Anyone \notin Users /\ Anyone \notin box[m].set \cup box[m].remove \cup box[m].failed
      BY <1>1, <2>1, DovecotNames DEF DovecotNames, SettleInv, Left, Clean
    <3> QED BY <1>1, <2>1, <3>1 DEF SettleInv, Left
  <2>5. CASE Due(u, m) = None
    BY <1>2, <2>3, <2>5 DEF Met
  <2>6. CASE Due(u, m) # None /\ acl[m][u] = Due(u, m)
    BY <2>6 DEF Has, RightsOf
  <2>7. CASE Due(u, m) # None /\ Effective(m, u) = Due(u, m)
    <3>1. CASE acl[m][u] = None
      BY <2>4, <2>7, <3>1 DEF Has, Closed, Effective, RightsOf
    <3>2. CASE acl[m][u] # None
      BY <2>7, <3>2 DEF Has, Overridden, Effective, RightsOf
    <3> QED BY <3>1, <3>2
  <2> QED BY <1>2, <2>3, <2>5, <2>6, <2>7 DEF Met
<1> QED BY <1>3, <1>4

-----------------------------------------------------------------------------
\* The invariant holds in every state of a Sync.
THEOREM Invariance == Spec => []IInv
BY InitFacts, StepFacts, PTL DEF Spec

\* The types of syncContext, and never more goroutines of a phase at work than
\* "concurrency" allows (operator.go, sync.go: submit).
THEOREM TypeCorrect == Spec => []TypeOK
<1>1. IInv => TypeOK
  BY DEF IInv
<1> QED BY <1>1, Invariance, PTL

\* No step takes from a user a right that is due and that it has, whatever fails but for
\* the two failures named (helpers.go:24-30, operator.go:97-100).
THEOREM AccessKept == Spec => KeepsAccess
<1>1. IInv /\ [Next]_vars => [\A u \in Users, m \in Mailboxes : Kept(u, m)]_vars
  BY StepKept
<1>2. Spec => [][\A u \in Users, m \in Mailboxes : Kept(u, m)]_vars
  BY <1>1, Invariance, PTL DEF Spec
<1> QED BY <1>2 DEF KeepsAccess, Kept

\* A change that the audit shows was made, whatever fails and whenever the call is
\* cancelled (sync.go: applyACLChanges).
THEOREM ChangesWereMade == Spec => []AuditTruthful
<1>1. IInv => AuditTruthful
  BY DEF IInv
<1> QED BY <1>1, Invariance, PTL

\* A Sync that returned no error, recorded none and logged none has brought the server to
\* what the identities ask for: an identity has exactly the rights it is due, but where its
\* entry overrides one of anyone that stays, and an identity that is due nothing on
\* a mailbox no longer looks it up by an entry of its own (sync.go: Sync).
THEOREM SyncSettles == Spec => []Settled
<1>1. IInv /\ SettleInv => Settled
  BY CleanSettles
<1>2. Init => SettleInv
  BY InitSettles
<1>3. Spec => []SettleInv
  BY <1>2, StepSettles, Invariance, PTL DEF Spec
<1> QED BY <1>1, <1>3, Invariance, PTL

\* The Dovecot operator keeps the contract of operator/interface.go.
THEOREM ContractImplemented == Spec => ImplementsContract
BY InitFacts, StepFacts, Invariance, PTL DEF Spec, ImplementsContract, Contract!Spec
================================================================================
