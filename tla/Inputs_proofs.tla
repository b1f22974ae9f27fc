----------------------------- MODULE Inputs_proofs -----------------------------
(***************************************************************************)
(* Proofs about Inputs, for any files, sources, targets and manifests, any *)
(* ids, pages and directories, any edits, failures and restarts.           *)
(*                                                                         *)
(* Store: the invariant follows the ticker through the directory; a        *)
(* manifest in a file that was there all the time is in what is left of    *)
(* the entries or has been found (Seen), so a reload does not drop it.     *)
(*                                                                         *)
(* Authentik: an id that is due is on a page that is to come (UsersDue,    *)
(* GroupsDue), since what is created moves an id back, and only what is    *)
(* removed before it moves it up; and after a page that is not the last    *)
(* there is a page, since the ids of a list have no gaps between them.     *)
(*                                                                         *)
(* LDAP: the groups that were returned are the groups of the directory     *)
(* with the parents that one choice of nameToKey resolves.                 *)
(***************************************************************************)
EXTENDS Inputs, FiniteSetTheorems, SequenceTheorems, WellFoundedInduction, TLAPS

\* What the files that were there all the time declare is not lost by the ticker.
Seen ==
  pc["ticker"] = "reading" =>
    \A f \in steady : dir[f] \in Manifests =>
      f \in entries["ticker"] \/ \E i \in DOMAIN found["ticker"] : found["ticker"][i] = dir[f]

StoreInv ==
  /\ phase \in {"init", "up", "down"}
  /\ pc \in [Readers -> {"idle", "reading"}]
  /\ entries \in [Readers -> SUBSET Files]
  /\ found \in [Readers -> Seq(Manifests)]
  /\ phase = "init" => steady = {} /\ pc["ticker"] = "idle"
  /\ Seen

\* Whom a fetch from Authentik must not overlook, and has not found yet.
Overdue(u) == users[u] # None /\ u \notin usersGone \cup usersNew /\ identities[u] = None

\* Such a user is on a page that is to come, or still to be retrieved, or excused.
UsersDue ==
  \A u \in Users : Overdue(u) =>
    IF partial
    THEN u \in uids => <<"user", u>> \in logged \/ (phase = "users" /\ u \in todo)
    ELSE \/ outcome = "error" \/ \E v \in usersGone : v < u
         \/ phase = "users" /\ (page - 1) * PageSize <= Before(Present, u)

\* The same for a group of an identity.
GroupsDue ==
  \A u \in Users : identities[u] # None =>
    \A g \in identities[u] \ groups :
      IF partial
      THEN \/ phase \in {"users", "groups"} \/ <<"group", g>> \in logged \/ g \in groupsGone
           \/ phase = "extra" /\ g \in todo
      ELSE \/ outcome = "error" \/ phase = "users" \/ \E h \in groupsGone : h <= g
           \/ phase = "groups" /\ g \in grps /\ (page - 1) * PageSize <= Before(grps, g)

AKInv ==
  /\ AKTypeOK /\ (outcome = "none" <=> phase # "done")
  /\ \A u \in Users : users[u] = None \/ users[u] \subseteq grps
  /\ \A u \in Users : identities[u] = None \/ identities[u] \subseteq grps \cup groupsGone
  /\ UsersDue /\ GroupsDue

LDInv == LDTypeOK /\ (outcome = "ok" => groups \in Resolved(GroupsFound))

STInv == STTypeOK /\ StoreInv

IInv == AKInv \/ LDInv \/ STInv

\* The step of KeepsDeclared.
Keeps ==
  phase' = "up" =>
    \A f \in steady : dir[f] \in Manifests =>
      LET m == dir[f] IN
      /\ m.kind = "source" /\ m.name \in activeSources => m.name \in activeSources'
      /\ m.kind = "target" /\ activeOperators[m.name] # None => activeOperators'[m.name] # None

-----------------------------------------------------------------------------
\* Min and Max of places in a sequence are places.
LEMMA MinIn ==
  ASSUME NEW S \in SUBSET Nat, S # {}
  PROVE  Min(S) \in S /\ \A y \in S : Min(S) <= y
<1> DEFINE R == {ss \in Nat \X Nat : ss[1] < ss[2]}
<1>1. OpToRel(<, Nat) = R
  BY Zenon DEF OpToRel
<1>2. IsWellFoundedOn(R, Nat)
  BY <1>1, NatLessThanWellFounded, Zenon
<1>3. PICK x \in S : \A y \in S : ~(<<y, x>> \in R)
  <2> HIDE DEF R
  <2> QED BY <1>2, WFMin
<1>4. ASSUME NEW y \in S PROVE x <= y
  <2>1. x \in Nat /\ y \in Nat
    OBVIOUS
  <2>2. y < x => <<y, x>> \in R
    BY <2>1
  <2> HIDE DEF R
  <2> QED BY <1>3, <2>1, <2>2
<1> QED BY <1>4 DEF Min

LEMMA MaxIn ==
  ASSUME NEW n \in Nat, NEW S \in SUBSET (1..n), S # {}
  PROVE  Max(S) \in S /\ \A y \in S : y <= Max(S)
<1> DEFINE T == {n - x : x \in S}
<1>1. T \subseteq Nat
  <2>1. \A x \in S : n - x \in Nat
    OBVIOUS
  <2> QED BY <2>1
<1>2. T # {}
  <2>1. PICK x \in S : TRUE
    OBVIOUS
  <2>2. n - x \in T
    OBVIOUS
  <2> QED BY <2>2
<1>3. Min(T) \in T /\ \A y \in T : Min(T) <= y
  <2> HIDE DEF T
  <2> QED BY <1>1, <1>2, MinIn
<1>4. PICK x \in S : n - x = Min(T)
  BY <1>3
<1>5. ASSUME NEW y \in S PROVE x >= y
  <2>1. n - y \in T /\ x \in 1..n /\ y \in 1..n
    OBVIOUS
  <2>2. n - x <= n - y
    <3> HIDE DEF T
    <3> QED BY <1>3, <1>4, <2>1
  <2> QED BY <2>1, <2>2
<1> QED BY <1>5 DEF Max

-----------------------------------------------------------------------------
\* Pages of a list.  What is before an id is counted; the counts of the ids of a list have
\* no gaps, so a page that is not the last is followed by one that is not empty.
LEMMA BeforeNat ==
  ASSUME NEW n \in Nat, NEW S \in SUBSET (1..n), NEW i \in 1..n
  PROVE  /\ IsFiniteSet({j \in S : j < i})
         /\ Before(S, i) \in Nat /\ Before(S, i) < i
<1> DEFINE B == {j \in S : j < i}
<1>1. B \subseteq 1..(i - 1) /\ i - 1 \in Nat
  <2>1. ASSUME NEW j \in B PROVE j \in 1..(i - 1)
    <3>1. j \in 1..n /\ j < i
      OBVIOUS
    <3> QED BY <3>1
  <2>2. i - 1 \in Nat
    OBVIOUS
  <2> HIDE DEF B
  <2> QED BY <2>1, <2>2
<1>2. IsFiniteSet(1..(i - 1)) /\ Cardinality(1..(i - 1)) = i - 1
  <2>1. Cardinality(1..(i - 1)) = IF 1 > i - 1 THEN 0 ELSE (i - 1) - 1 + 1
    BY <1>1, FS_Interval
  <2>2. IsFiniteSet(1..(i - 1))
    BY <1>1, FS_Interval
  <2> QED BY <1>1, <2>1, <2>2
<1> HIDE DEF B
<1>3. IsFiniteSet(B) /\ Cardinality(B) <= i - 1
  BY <1>1, <1>2, FS_Subset
<1>4. Cardinality(B) \in Nat
  BY <1>3, FS_CardinalityType
<1> QED BY <1>1, <1>3, <1>4 DEF B, Before

\* An id that is added before others, or removed behind them, leaves no fewer before them.
LEMMA BeforeGrows ==
  ASSUME NEW n \in Nat, NEW S \in SUBSET (1..n), NEW T \in SUBSET (1..n), NEW i \in 1..n,
         \A j \in S : j < i => j \in T
  PROVE  Before(S, i) <= Before(T, i)
<1>1. {j \in S : j < i} \subseteq {j \in T : j < i}
  OBVIOUS
<1>2. IsFiniteSet({j \in T : j < i})
  BY BeforeNat
<1> QED BY <1>1, <1>2, FS_Subset DEF Before

\* The id with k others before it, if one has k or more.
LEMMA NoGaps ==
  ASSUME NEW n \in Nat, NEW S \in SUBSET (1..n), NEW i \in S, NEW k \in Nat, k <= Before(S, i)
  PROVE  \E v \in S : Before(S, v) = k
<1> DEFINE R == {x \in S : k <= Before(S, x)}
           v == Min(R)
           B == {j \in S : j < v}
<1>1. R \in SUBSET Nat /\ R # {}
  <2>1. S \subseteq Nat /\ i \in R
    OBVIOUS
  <2> QED BY <2>1
<1>2. v \in R /\ \A y \in R : v <= y
  <2> HIDE DEF R
  <2> QED BY <1>1, MinIn
<1>3. v \in S /\ v \in 1..n /\ k <= Before(S, v) /\ Before(S, v) \in Nat
  BY <1>2, BeforeNat
<1> HIDE DEF v
<1>4. CASE B = {}
  BY <1>3, <1>4, FS_EmptySet DEF Before
<1>5. CASE B # {}
  <2> DEFINE w == Max(B)
             C == {j \in S : j < w}
  <2>1. B \in SUBSET (1..n)
    OBVIOUS
  <2>2. w \in B /\ \A j \in B : j <= w
    <3> HIDE DEF B
    <3> QED BY <1>5, <2>1, MaxIn
  <2>3. w \in S /\ w \in 1..n /\ w < v
    BY <2>2
  <2>4. IsFiniteSet(C) /\ Cardinality(C) = Before(S, w) /\ Before(S, w) \in Nat
    <3> HIDE DEF w
    <3> QED BY <2>3, BeforeNat DEF Before
  <2>5. B = C \cup {w} /\ w \notin C
    <3> HIDE DEF w
    <3>1. ASSUME NEW j \in S PROVE j \in B <=> j \in C \/ j = w
      BY <1>3, <2>2, <2>3
    <3>2. B \subseteq S /\ C \subseteq S /\ w \notin C
      BY <2>3
    <3> HIDE DEF B, C
    <3> QED BY <2>3, <3>1, <3>2
  <2>6. Cardinality(B) = Cardinality(C) + 1
    <3> HIDE DEF w, B, C
    <3> QED BY <2>4, <2>5, FS_AddElement
  <2>7. Before(S, v) = Before(S, w) + 1
    BY <2>4, <2>6 DEF Before
  <2>8. ~(k <= Before(S, w))
    <3> HIDE DEF w
    <3> QED BY <1>2, <1>3, <2>3
  <2> QED BY <1>3, <2>4, <2>7, <2>8
<1> QED BY <1>4, <1>5

\* Who is on no page up to p is on a later one, and the next page is not empty; pages are
\* no more than ids.
LEMMA PageTurn ==
  ASSUME NEW n \in Nat, NEW S \in SUBSET (1..n), NEW p \in Nat \ {0}, NEW i \in S,
         (p - 1) * PageSize <= Before(S, i), i \notin OnPage(S, p)
  PROVE  p * PageSize <= Before(S, i) /\ OnPage(S, p + 1) # {}
<1>1. Before(S, i) \in Nat /\ p * PageSize \in Nat /\ PageSize \in Nat \ {0}
  <2>1. i \in 1..n
    OBVIOUS
  <2>2. PageSize \in Nat \ {0}
    BY SourceBounds DEF SourceBounds
  <2>3. p * PageSize \in Nat
    BY <2>2
  <2> QED BY <2>1, <2>2, <2>3, BeforeNat
<1>2. p * PageSize <= Before(S, i)
  BY <1>1 DEF OnPage
<1>3. PICK v \in S : Before(S, v) = p * PageSize
  BY <1>1, <1>2, NoGaps
<1>4. ((p + 1) - 1) * PageSize = p * PageSize /\ (p + 1) * PageSize = p * PageSize + PageSize
  BY <1>1
<1>5. v \in OnPage(S, p + 1)
  BY <1>1, <1>3, <1>4 DEF OnPage
<1> QED BY <1>2, <1>5

LEMMA PagesEnd ==
  ASSUME NEW n \in Nat, NEW S \in SUBSET (1..n), NEW p \in Nat \ {0}, OnPage(S, p + 1) # {}
  PROVE  p + 1 \in 1..n
<1>1. PICK v \in S : ((p + 1) - 1) * PageSize <= Before(S, v)
  BY DEF OnPage
<1>2. PageSize \in Nat \ {0} /\ ((p + 1) - 1) * PageSize = p * PageSize
  BY SourceBounds DEF SourceBounds
<1>3. p <= p * PageSize /\ p * PageSize \in Nat
  BY <1>2
<1>4. Before(S, v) \in Nat /\ Before(S, v) < v /\ v \in 1..n
  BY BeforeNat
<1> QED BY <1>1, <1>2, <1>3, <1>4

\* The first and the last manifest of a name are manifests.
LEMMA FoundManifests ==
  ASSUME StoreInv, NEW t \in Targets, Of("worker", t) # {}
  PROVE  One(t) \in Manifests /\ Last(t) \in Manifests
<1> DEFINE S == Of("worker", t)
<1>1. found["worker"] \in Seq(Manifests)
  BY DEF StoreInv, Readers
<1>2. S \subseteq 1..Len(found["worker"]) /\ Len(found["worker"]) \in Nat
  BY <1>1 DEF Of
<1>3. S \in SUBSET Nat /\ S # {}
  BY <1>2
<1>4. Min(S) \in S /\ Max(S) \in S
  <2> HIDE DEF S
  <2> QED BY <1>2, <1>3, MinIn, MaxIn
<1>5. Min(S) \in 1..Len(found["worker"]) /\ Max(S) \in 1..Len(found["worker"])
  <2> HIDE DEF S
  <2> QED BY <1>2, <1>4
<1> QED BY <1>1, <1>5, ElementOfSeq DEF One, Last

\* What a manifest names.
LEMMA ManifestTyped ==
  ASSUME NEW m \in Manifests
  PROVE  /\ m.kind = "source" => m.name \in Sources
         /\ m.kind = "target" => m.name \in Targets
         /\ m # None
BY StoreInput DEF StoreInput

-----------------------------------------------------------------------------
\* A step that leaves the registry alone keeps what is declared.
LEMMA RegistryStays == ASSUME UNCHANGED registry PROVE Keeps
BY DEF Keeps, registry

\* A reader opens a file: what it leaves behind has been found, if it parses.
LEMMA ReadFileFacts ==
  ASSUME StoreInv, NEW r \in Readers, ReadFile(r)
  PROVE  StoreInv' /\ Keeps
<1> USE DEF StoreInv
<1>1. PICK f : /\ \/ /\ found' = [found EXCEPT ![r] =
                          IF dir[f] \in Manifests THEN Append(@, dir[f]) ELSE @]
                     /\ steady' = steady
                  \/ /\ steady' = IF r = "ticker" THEN steady \ {f} ELSE steady
                     /\ UNCHANGED found
               /\ entries' = [entries EXCEPT ![r] = @ \ {f}]
  BY DEF ReadFile, Rest
<1>2. /\ phase = "up" /\ UNCHANGED <<phase, pc, dir, registry>>
      /\ steady' \subseteq steady
  BY <1>1 DEF ReadFile, files
<1>3. entries' \in [Readers -> SUBSET Files]
  BY <1>1
<1>4. found' \in [Readers -> Seq(Manifests)]
  <2>1. dir[f] \in Manifests => Append(found[r], dir[f]) \in Seq(Manifests)
    BY AppendProperties
  <2> QED BY <1>1, <2>1
<1>5. Seen'
  <2> SUFFICES ASSUME pc["ticker"] = "reading", NEW g \in steady', dir[g] \in Manifests
               PROVE  g \in entries'["ticker"]
                        \/ \E i \in DOMAIN found'["ticker"] : found'["ticker"][i] = dir[g]
    BY <1>2 DEF Seen
  <2>1. g \in entries["ticker"] \/ \E i \in DOMAIN found["ticker"] : found["ticker"][i] = dir[g]
    BY <1>2 DEF Seen
  <2>2. CASE r # "ticker"
    <3>1. entries'["ticker"] = entries["ticker"] /\ found'["ticker"] = found["ticker"]
      BY <1>1, <2>2 DEF Readers
    <3> QED BY <2>1, <3>1
  <2>3. CASE r = "ticker"
    <3>1. entries'["ticker"] = entries["ticker"] \ {f} /\ found["ticker"] \in Seq(Manifests)
      BY <1>1, <2>3
    <3>2. CASE found' = found
      BY <1>1, <2>1, <2>3, <3>1, <3>2
    <3>3. CASE found' # found
      <4>1. found'["ticker"] = IF dir[f] \in Manifests THEN Append(found["ticker"], dir[f])
                               ELSE found["ticker"]
        BY <1>1, <2>3, <3>3
      <4>2. CASE dir[f] \in Manifests
        <5>1. /\ DOMAIN found["ticker"] \subseteq DOMAIN found'["ticker"]
              /\ \A i \in DOMAIN found["ticker"] : found'["ticker"][i] = found["ticker"][i]
              /\ \E i \in DOMAIN found'["ticker"] : found'["ticker"][i] = dir[f]
          <6>1. /\ Len(found'["ticker"]) = Len(found["ticker"]) + 1
                /\ \A i \in 1..Len(found["ticker"]) : found'["ticker"][i] = found["ticker"][i]
                /\ found'["ticker"][Len(found["ticker"]) + 1] = dir[f]
                /\ DOMAIN found'["ticker"] = 1..(Len(found["ticker"]) + 1)
            BY <3>1, <4>1, <4>2, AppendProperties
          <6>2. DOMAIN found["ticker"] = 1..Len(found["ticker"]) /\ Len(found["ticker"]) \in Nat
            BY <3>1
          <6>3. Len(found["ticker"]) + 1 \in DOMAIN found'["ticker"]
            BY <6>1, <6>2
          <6>4. DOMAIN found["ticker"] \subseteq DOMAIN found'["ticker"]
            BY <6>1, <6>2
          <6> QED BY <6>1, <6>2, <6>3, <6>4
        <5> QED BY <2>1, <3>1, <5>1
      <4>3. CASE dir[f] \notin Manifests
        BY <2>1, <3>1, <4>1, <4>3
      <4> QED BY <4>2, <4>3
    <3> QED BY <3>2, <3>3
  <2> QED BY <2>2, <2>3
<1> QED BY <1>2, <1>3, <1>4, <1>5, RegistryStays

\* A reader begins; the ticker starts from all the files that there are.
LEMMA BeginTyped ==
  ASSUME StoreInv, NEW r \in Readers, Begin(r)
  PROVE  /\ pc' \in [Readers -> {"idle", "reading"}]
         /\ entries' \in [Readers -> SUBSET Files]
         /\ found' \in [Readers -> Seq(Manifests)]
         /\ entries'[r] = {f \in Files : dir[f] # None}
         /\ \A q \in Readers \ {r} : pc'[q] = pc[q] /\ entries'[q] = entries[q] /\ found'[q] = found[q]
<1>1. {f \in Files : dir[f] # None} \subseteq Files /\ << >> \in Seq(Manifests)
  OBVIOUS
<1> QED BY <1>1 DEF StoreInv, Begin

LEMMA EndsTyped ==
  ASSUME StoreInv, NEW r \in Readers, Ends(r)
  PROVE  /\ pc' \in [Readers -> {"idle", "reading"}] /\ pc'[r] = "idle"
         /\ entries' \in [Readers -> SUBSET Files]
         /\ found' \in [Readers -> Seq(Manifests)]
         /\ \A q \in Readers \ {r} : pc'[q] = pc[q] /\ entries'[q] = entries[q] /\ found'[q] = found[q]
<1>1. << >> \in Seq(Manifests)
  OBVIOUS
<1> QED BY <1>1 DEF StoreInv, Ends

LEMMA ListFacts == ASSUME StoreInv, List PROVE StoreInv' /\ Keeps
<1>1. phase = "up" /\ phase' = phase /\ dir' = dir /\ UNCHANGED registry
  BY DEF List, files
<1>2. CASE Begin("ticker") /\ steady' = {f \in Files : dir[f] # None}
  <2>1. "ticker" \in Readers
    BY DEF Readers
  <2> QED BY <1>1, <1>2, <2>1, BeginTyped, RegistryStays DEF StoreInv, Seen
<1>3. CASE UNCHANGED <<reads, steady>>
  BY <1>1, <1>3, RegistryStays DEF StoreInv, Seen, reads
<1> QED BY <1>2, <1>3 DEF List

LEMMA RefreshFacts == ASSUME StoreInv, Refresh PROVE StoreInv' /\ Keeps
<1>1. phase = "up" /\ phase' = phase /\ dir' = dir /\ steady' = steady /\ UNCHANGED registry
  BY DEF Refresh, files
<1>2. "worker" \in Readers /\ "ticker" \in Readers \ {"worker"}
  BY DEF Readers
<1> QED BY <1>1, <1>2, BeginTyped, RegistryStays DEF StoreInv, Seen, Refresh

\* The reload, when the ticker has read every file: what is declared in a file that was
\* there all the time has been found.
LEMMA ReloadFacts ==
  ASSUME StoreInv, ReloadSources \/ ReloadTargets
  PROVE  StoreInv' /\ Keeps
<1>1. /\ Loaded("ticker") /\ Ends("ticker") /\ "ticker" \in Readers
      /\ phase' = phase /\ dir' = dir /\ steady' = steady
  BY DEF ReloadSources, ReloadTargets, files, Readers
<1>2. StoreInv'
  BY <1>1, EndsTyped DEF StoreInv, Seen, Loaded
<1>3. ASSUME NEW f \in steady, dir[f] \in Manifests PROVE Of("ticker", dir[f].name) # {}
  BY <1>1, <1>3 DEF StoreInv, Seen, Loaded, Of
<1>4. CASE ReloadSources
  <2>1. activeOperators' = activeOperators
    BY <1>4 DEF ReloadSources
  <2>2. ASSUME NEW s \in Sources, Of("ticker", s) # {}, s \in activeSources
        PROVE  s \in activeSources'
    BY <1>4, <2>2 DEF ReloadSources
  <2> QED BY <1>2, <1>3, <2>1, <2>2, ManifestTyped DEF Keeps
<1>5. CASE ReloadTargets
  <2>1. activeSources' = activeSources
    BY <1>5 DEF ReloadTargets
  <2>2. ASSUME NEW t \in Targets, Of("ticker", t) # {}, activeOperators[t] # None
        PROVE  activeOperators'[t] # None
    BY <1>5, <2>2 DEF ReloadTargets, Kept
  <2> QED BY <1>2, <1>3, <2>1, <2>2, ManifestTyped DEF Keeps
<1> QED BY <1>4, <1>5

\* A refresh publishes manifests in the place of others, and adds and removes nothing.
LEMMA PublishFacts == ASSUME StoreInv, Publish PROVE StoreInv' /\ Keeps
<1>1. /\ phase = "up" /\ phase' = phase /\ dir' = dir /\ steady' = steady
      /\ activeSources' = activeSources /\ Ends("worker")
      /\ "worker" \in Readers /\ "ticker" \in Readers \ {"worker"}
  BY DEF Publish, Loaded, files, Readers
<1>2. StoreInv'
  BY <1>1, EndsTyped DEF StoreInv, Seen
<1>3. ASSUME NEW t \in Targets, activeOperators[t] # None
      PROVE  activeOperators'[t] # None
  <2>1. Of("worker", t) # {} => One(t) # None /\ Last(t) # None
    BY FoundManifests, ManifestTyped
  <2> QED BY <1>3, <2>1 DEF Publish
<1> QED BY <1>1, <1>2, <1>3, ManifestTyped DEF Keeps

\* The process starts, and whoever edits the files edits them: steady knows.
LEMMA OtherFacts ==
  ASSUME StoreInv, STEdit \/ InitStore \/ Restart \/ Tick
  PROVE  StoreInv' /\ Keeps
<1> USE DEF StoreInv
<1>1. CASE STEdit
  <2>1. UNCHANGED <<phase, pc, entries, found, registry>>
    BY <1>1 DEF STEdit, reads
  <2>2. steady' \subseteq steady /\ \A f \in steady' : dir'[f] = dir[f]
    BY <1>1 DEF STEdit
  <2> QED BY <2>1, <2>2, RegistryStays DEF Seen
<1>2. CASE InitStore
  <2>1. /\ phase = "init" /\ phase' \in {"up", "down"}
        /\ UNCHANGED <<pc, entries, found, registry, steady>>
    BY <1>2 DEF InitStore, reads
  <2> QED BY <2>1, RegistryStays DEF Seen
<1>3. CASE Restart
  <2>1. /\ phase' = "init" /\ steady' = {} /\ pc' = [r \in Readers |-> "idle"]
        /\ entries' = [r \in Readers |-> {}] /\ found' = [r \in Readers |-> << >>]
        /\ "ticker" \in Readers /\ << >> \in Seq(Manifests)
    BY <1>3 DEF Restart, Readers
  <2> QED BY <2>1 DEF Seen, Keeps
<1>4. CASE Tick
  <2>1. UNCHANGED <<phase, dir, pc, entries, found, registry, steady>>
    BY <1>4 DEF Tick, files, reads
  <2> QED BY <2>1, RegistryStays DEF Seen
<1> QED BY <1>1, <1>2, <1>3, <1>4

LEMMA StoreStep == ASSUME StoreInv, STNext PROVE StoreInv' /\ Keeps
BY ReadFileFacts, ListFacts, RefreshFacts, ReloadFacts, PublishFacts, OtherFacts
   DEF STNext, Ticker, Worker, Readers

-----------------------------------------------------------------------------
\* A fetch from Authentik.
LEMMA ListsTyped ==
  ASSUME AKTypeOK
  PROVE  /\ Present \in SUBSET (1..MaxUser) /\ grps \in SUBSET (1..MaxGroup)
         /\ MaxUser \in Nat /\ MaxGroup \in Nat /\ page \in Nat \ {0}
<1>1. MaxUser \in Nat /\ MaxGroup \in Nat
  BY SourceBounds DEF SourceBounds
<1> QED BY <1>1 DEF AKTypeOK, Present, Users, Groups

\* An edit: whoever is there no more is remembered, and whoever was not there before.
LEMMA EditKeeps ==
  ASSUME AKInv, UNCHANGED <<call, phase, page, todo, result, outcome, faults, logged>>,
         edits' \in 0..MaxEdits,
         users' \in [Users -> {None} \cup SUBSET Groups], grps' \subseteq Groups,
         usersGone' \subseteq Users, groupsGone' \subseteq Groups, usersNew' \subseteq Users,
         usersGone \subseteq usersGone', groupsGone \subseteq groupsGone',
         usersNew \subseteq usersNew',
         \A u \in Users : users'[u] = None \/ users'[u] \subseteq grps',
         \A u \in Users : users'[u] # None /\ u \notin usersNew' => users[u] # None,
         Present \subseteq Present' \cup usersGone',
         grps \subseteq grps' \cup groupsGone'
  PROVE  AKInv'
<1> USE DEF AKInv
<1>1. AKTypeOK'
  BY DEF AKTypeOK, call, result
<1>2. UNCHANGED <<partial, uids, phase, page, todo, identities, groups, outcome, logged>>
  BY DEF call, result
<1>3. \A u \in Users : identities'[u] = None \/ identities'[u] \subseteq grps' \cup groupsGone'
  BY <1>2
<1>4. UsersDue'
  <2> SUFFICES ASSUME NEW u \in Users, Overdue(u)'
               PROVE  IF partial
                      THEN u \in uids =>
                             <<"user", u>> \in logged \/ (phase = "users" /\ u \in todo)
                      ELSE \/ outcome = "error" \/ \E v \in usersGone' : v < u
                           \/ phase = "users" /\ (page - 1) * PageSize <= Before(Present', u)
    BY <1>2 DEF UsersDue, Before
  <2>1. Overdue(u)
    BY <1>2 DEF Overdue
  <2>2. CASE ~partial /\ phase = "users" /\ (page - 1) * PageSize <= Before(Present, u)
    <3>1. u \in 1..MaxUser /\ (page - 1) * PageSize \in Int
      BY ListsTyped, SourceBounds DEF SourceBounds, Users
    <3>2. CASE \A v \in Present : v < u => v \in Present'
      <4>1. Present' \in SUBSET (1..MaxUser)
        BY <1>1 DEF AKTypeOK, Present, Users
      <4>2. Before(Present, u) <= Before(Present', u)
        BY <3>1, <3>2, <4>1, ListsTyped, BeforeGrows
      <4>3. Before(Present, u) \in Nat /\ Before(Present', u) \in Nat
        BY <3>1, <4>1, ListsTyped, BeforeNat
      <4> QED BY <2>2, <3>1, <4>2, <4>3
    <3> QED BY <2>2, <3>2
  <2> QED BY <2>1, <2>2 DEF UsersDue
<1>5. GroupsDue'
  <2> SUFFICES ASSUME NEW u \in Users, identities[u] # None, NEW g \in identities[u] \ groups
               PROVE  IF partial
                      THEN \/ phase \in {"users", "groups"} \/ <<"group", g>> \in logged
                           \/ g \in groupsGone'
                           \/ phase = "extra" /\ g \in todo
                      ELSE \/ outcome = "error" \/ phase = "users" \/ \E h \in groupsGone' : h <= g
                           \/ /\ phase = "groups" /\ g \in grps'
                              /\ (page - 1) * PageSize <= Before(grps', g)
    BY <1>2 DEF GroupsDue, Before
  <2>1. CASE ~partial /\ phase = "groups" /\ g \in grps /\ (page - 1) * PageSize <= Before(grps, g)
    <3>1. g \in 1..MaxGroup /\ (page - 1) * PageSize \in Int
      BY <2>1, ListsTyped, SourceBounds DEF SourceBounds
    <3>2. CASE (\A h \in grps : h < g => h \in grps') /\ g \in grps'
      <4>1. grps' \in SUBSET (1..MaxGroup)
        BY DEF Groups
      <4>2. Before(grps, g) <= Before(grps', g)
        BY <3>1, <3>2, <4>1, ListsTyped, BeforeGrows
      <4>3. Before(grps, g) \in Nat /\ Before(grps', g) \in Nat
        BY <3>1, <4>1, ListsTyped, BeforeNat
      <4> QED BY <2>1, <3>1, <3>2, <4>2, <4>3
    <3>3. CASE \E h \in groupsGone' : h <= g
      BY <2>1, <3>3
    <3> QED BY <3>1, <3>2, <3>3, ListsTyped
  <2>2. IF partial
        THEN \/ phase \in {"users", "groups"} \/ <<"group", g>> \in logged
             \/ g \in groupsGone
             \/ phase = "extra" /\ g \in todo
        ELSE \/ outcome = "error" \/ phase = "users" \/ \E h \in groupsGone : h <= g
             \/ phase = "groups" /\ g \in grps /\ (page - 1) * PageSize <= Before(grps, g)
    BY DEF GroupsDue
  <2> QED BY <2>1, <2>2
<1> QED BY <1>1, <1>2, <1>3, <1>4, <1>5

LEMMA AKEditKeeps == ASSUME AKInv, AKEdit PROVE AKInv'
<1> USE DEF AKInv
<1>1. /\ UNCHANGED <<call, phase, page, todo, result, outcome, faults, logged>>
      /\ edits' \in 0..MaxEdits
  <2>1. edits < MaxEdits /\ edits' = edits + 1
    BY DEF AKEdit, SaveUser, RemoveUser, CreateGroup, RemoveGroup
  <2>2. edits' \in 0..MaxEdits
    BY <2>1, SourceBounds DEF SourceBounds, AKTypeOK
  <2> QED BY <2>2 DEF AKEdit, SaveUser, RemoveUser, CreateGroup, RemoveGroup
<1>2. CASE SaveUser
  <2>1. PICK u \in Users, G \in SUBSET grps :
          /\ users' = [users EXCEPT ![u] = G]
          /\ usersNew' = IF users[u] = None THEN usersNew \cup {u} ELSE usersNew
    BY <1>2 DEF SaveUser
  <2>2. UNCHANGED <<grps, usersGone, groupsGone>>
    BY <1>2 DEF SaveUser
  <2>3. G # None /\ G \subseteq Groups
    BY SourceNames DEF SourceNames, AKTypeOK, Groups
  <2>4. users' \in [Users -> {None} \cup SUBSET Groups]
    BY <2>1, <2>3 DEF AKTypeOK
  <2>5. \A v \in Users : users'[v] = IF v = u THEN G ELSE users[v]
    BY <2>1 DEF AKTypeOK
  <2>6. usersNew' \subseteq Users /\ usersNew \subseteq usersNew'
    BY <2>1 DEF AKTypeOK
  <2> QED BY <1>1, <2>1, <2>2, <2>3, <2>4, <2>5, <2>6, EditKeeps DEF AKTypeOK, Present
<1>3. CASE RemoveUser
  <2>1. PICK u \in Present :
          users' = [users EXCEPT ![u] = None] /\ usersGone' = usersGone \cup {u}
    BY <1>3 DEF RemoveUser
  <2>2. UNCHANGED <<grps, usersNew, groupsGone>>
    BY <1>3 DEF RemoveUser
  <2>3. users' \in [Users -> {None} \cup SUBSET Groups]
    BY <2>1 DEF AKTypeOK
  <2>4. \A v \in Users : users'[v] = IF v = u THEN None ELSE users[v]
    BY <2>1 DEF AKTypeOK
  <2> QED BY <1>1, <2>1, <2>2, <2>3, <2>4, EditKeeps DEF AKTypeOK, Present
<1>4. CASE CreateGroup
  <2>1. UNCHANGED <<users, usersGone, usersNew, groupsGone>>
    BY <1>4 DEF CreateGroup
  <2>2. grps \subseteq grps' /\ grps' \subseteq Groups
    BY <1>4 DEF CreateGroup, AKTypeOK
  <2> QED BY <1>1, <2>1, <2>2, EditKeeps DEF AKTypeOK, Present
<1>5. CASE RemoveGroup
  <2>1. PICK g \in grps :
          /\ grps' = grps \ {g}
          /\ users' = [u \in Users |-> IF users[u] = None THEN None ELSE users[u] \ {g}]
          /\ groupsGone' = groupsGone \cup {g}
    BY <1>5 DEF RemoveGroup
  <2>2. UNCHANGED <<usersGone, usersNew>>
    BY <1>5 DEF RemoveGroup
  <2>3. \A u \in Users : users[u] # None => users[u] \ {g} \in SUBSET Groups
    BY DEF AKTypeOK
  <2>4. \A u \in Users : users'[u] = IF users[u] = None THEN None ELSE users[u] \ {g}
    BY <2>1
  <2>5. users' \in [Users -> {None} \cup SUBSET Groups]
    BY <2>1, <2>3
  <2>6. \A u \in Users : users[u] # None => users'[u] # None
    BY <2>3, <2>4, SourceNames DEF SourceNames, Groups
  <2>7. \A u \in Users : users'[u] = None \/ users'[u] \subseteq grps'
    BY <2>1, <2>4
  <2> QED BY <1>1, <2>1, <2>2, <2>4, <2>5, <2>6, <2>7, EditKeeps DEF AKTypeOK, Present
<1> QED BY <1>2, <1>3, <1>4, <1>5 DEF AKEdit

\* A page of users: it holds the next of those that are due, or they are on a later one.
LEMMA ListUsersKeeps == ASSUME AKInv, ListUsers PROVE AKInv'
<1> USE DEF AKInv
<1>1. /\ ~partial /\ phase = "users" /\ outcome = "none"
      /\ UNCHANGED <<service, call, todo, groups, logged>>
  BY DEF ListUsers, AKTypeOK
<1>2. UNCHANGED <<users, grps, usersGone, groupsGone, usersNew, partial, uids>>
  BY <1>1 DEF service, call
<1>3. CASE /\ IsPage(Present, page) /\ UNCHANGED <<faults, outcome>>
           /\ identities' = [u \in Users |->
                IF u \in OnPage(Present, page) THEN users[u] ELSE identities[u]]
           /\ IF NextPage(Present, page) > 0
              THEN page' = NextPage(Present, page) /\ UNCHANGED phase
              ELSE page' = 1 /\ phase' = "groups"
  <2>1. \A u \in OnPage(Present, page) : users[u] # None /\ u \in Users
    BY DEF OnPage, Present
  <2>2. /\ identities' \in [Users -> {None} \cup SUBSET Groups]
        /\ \A u \in Users : identities'[u] =
             IF u \in OnPage(Present, page) THEN users[u] ELSE identities[u]
    BY <1>3 DEF AKTypeOK
  <2>3. \/ /\ OnPage(Present, page + 1) # {} /\ page' = page + 1 /\ phase' = phase
        \/ OnPage(Present, page + 1) = {} /\ page' = 1 /\ phase' = "groups"
    BY <1>3, ListsTyped DEF NextPage
  <2>4. page' \in 1..MaxUser \cup 1..MaxGroup \cup {1} /\ phase' \in {"users", "groups"}
    BY <1>1, <2>3, ListsTyped, PagesEnd
  <2>5. AKTypeOK'
    BY <1>1, <1>3, <2>2, <2>4 DEF AKTypeOK, service, call
  <2>6. UsersDue'
    <3> SUFFICES ASSUME NEW u \in Users, Overdue(u)', ~\E v \in usersGone : v < u
                 PROVE  phase' = "users" /\ (page' - 1) * PageSize <= Before(Present', u)
      BY <1>1, <1>2 DEF UsersDue
    <3>1. users[u] # None /\ u \notin usersGone \cup usersNew /\ u \in Present
      BY <1>2 DEF Overdue, Present
    <3>2. identities[u] = None /\ u \notin OnPage(Present, page)
      BY <2>1, <2>2 DEF Overdue
    <3>3. (page - 1) * PageSize <= Before(Present, u)
      BY <1>1, <3>1, <3>2 DEF UsersDue, Overdue
    <3>4. page * PageSize <= Before(Present, u) /\ OnPage(Present, page + 1) # {}
      BY <3>1, <3>2, <3>3, ListsTyped, PageTurn
    <3>5. page' = page + 1 /\ phase' = "users" /\ (page + 1) - 1 = page /\ Present' = Present
      BY <1>1, <1>2, <2>3, <3>4, ListsTyped DEF Present
    <3> QED BY <3>4, <3>5 DEF Before
  <2>7. \A u \in Users : identities'[u] = None \/ identities'[u] \subseteq grps' \cup groupsGone'
    BY <1>2, <2>2
  <2>8. GroupsDue'
    <3> SUFFICES ASSUME NEW u \in Users, identities'[u] # None, NEW g \in identities'[u],
                        phase' = "groups", ~\E h \in groupsGone : h <= g
                 PROVE  g \in grps /\ (page' - 1) * PageSize <= Before(grps', g)
      BY <1>1, <1>2, <2>4 DEF GroupsDue
    <3>1. g \in Groups
      BY <2>5 DEF AKTypeOK
    <3>2. g \in grps
      BY <1>2, <2>7, <3>1, ListsTyped DEF Groups
    <3>3. page' = 1
      BY <1>1, <2>3
    <3>4. Before(grps, g) \in Nat
      BY <3>2, ListsTyped, BeforeNat
    <3>5. (1 - 1) * PageSize = 0
      BY SourceBounds DEF SourceBounds
    <3> QED BY <1>2, <3>2, <3>3, <3>4, <3>5
  <2> QED BY <1>1, <1>2, <1>3, <2>4, <2>5, <2>6, <2>7, <2>8
<1>4. CASE /\ Fault \/ (~IsPage(Present, page) /\ UNCHANGED faults)
           /\ Fail /\ UNCHANGED <<page, identities>>
  <2>1. AKTypeOK'
    <3>1. faults' \in 0..MaxFaults
      BY <1>4, InputBounds DEF InputBounds, Fault, AKTypeOK
    <3> QED BY <1>1, <1>4, <3>1 DEF AKTypeOK, service, call, Fail
  <2> QED BY <1>1, <1>2, <1>4, <2>1 DEF Fail, UsersDue, GroupsDue
<1> QED BY <1>3, <1>4 DEF ListUsers

LEMMA ListGroupsKeeps == ASSUME AKInv, ListGroups PROVE AKInv'
<1> USE DEF AKInv
<1>1. /\ ~partial /\ phase = "groups" /\ outcome = "none"
      /\ UNCHANGED <<service, call, todo, identities, logged>>
  BY DEF ListGroups, AKTypeOK
<1>2. UNCHANGED <<users, grps, usersGone, groupsGone, usersNew, partial, uids, identities>>
  BY <1>1 DEF service, call
<1>3. UsersDue'
  BY <1>1, <1>2 DEF UsersDue, Overdue
<1>4. CASE /\ IsPage(grps, page) /\ UNCHANGED faults
           /\ groups' = groups \cup OnPage(grps, page)
           /\ IF NextPage(grps, page) > 0
              THEN page' = NextPage(grps, page) /\ UNCHANGED <<phase, outcome>>
              ELSE phase' = "done" /\ outcome' = "ok" /\ UNCHANGED page
  <2>1. OnPage(grps, page) \subseteq grps
    BY DEF OnPage
  <2>2. \/ /\ OnPage(grps, page + 1) # {} /\ page' = page + 1 /\ UNCHANGED <<phase, outcome>>
        \/ OnPage(grps, page + 1) = {} /\ page' = page /\ phase' = "done" /\ outcome' = "ok"
    BY <1>4, ListsTyped DEF NextPage
  <2>3. page' \in 1..MaxUser \cup 1..MaxGroup \cup {1}
    <3>1. page \in 1..MaxUser \cup 1..MaxGroup \cup {1}
      BY DEF AKTypeOK
    <3> QED BY <2>2, <3>1, ListsTyped, PagesEnd
  <2>4. AKTypeOK'
    BY <1>1, <1>4, <2>1, <2>2, <2>3 DEF AKTypeOK, service, call
  <2>5. GroupsDue'
    <3> SUFFICES ASSUME NEW u \in Users, identities[u] # None, NEW g \in identities[u] \ groups',
                        ~\E h \in groupsGone : h <= g
                 PROVE  /\ phase' = "groups" /\ g \in grps
                        /\ (page' - 1) * PageSize <= Before(grps', g)
      BY <1>1, <1>2 DEF GroupsDue
    <3>1. /\ g \notin groups /\ g \notin OnPage(grps, page)
          /\ g \in grps /\ (page - 1) * PageSize <= Before(grps, g)
      BY <1>1, <1>4 DEF GroupsDue
    <3>2. page * PageSize <= Before(grps, g) /\ OnPage(grps, page + 1) # {}
      BY <3>1, ListsTyped, PageTurn
    <3>3. page' = page + 1 /\ phase' = "groups" /\ (page + 1) - 1 = page
      BY <1>1, <2>2, <3>2, ListsTyped
    <3> QED BY <1>2, <3>1, <3>2, <3>3
  <2> QED BY <1>1, <1>2, <1>3, <2>2, <2>4, <2>5
<1>5. CASE /\ Fault \/ (~IsPage(grps, page) /\ UNCHANGED faults)
           /\ Fail /\ UNCHANGED <<page, groups>>
  <2>1. AKTypeOK'
    <3>1. faults' \in 0..MaxFaults
      BY <1>5, InputBounds DEF InputBounds, Fault, AKTypeOK
    <3> QED BY <1>1, <1>5, <3>1 DEF AKTypeOK, service, call, Fail
  <2> QED BY <1>1, <1>2, <1>3, <1>5, <2>1 DEF Fail, GroupsDue
<1> QED BY <1>4, <1>5 DEF ListGroups

\* What is retrieved is found or logged, or it was not there.
LEMMA RetrieveUserKeeps ==
  ASSUME AKInv, NEW u \in Users \cup {NoUid}, RetrieveUser(u) PROVE AKInv'
<1> USE DEF AKInv
<1>1. /\ partial /\ phase = "users" /\ outcome = "none" /\ todo' = todo \ {u}
      /\ UNCHANGED <<service, call, phase, page, groups, outcome>>
  BY DEF RetrieveUser, AKTypeOK, Left
<1>2. UNCHANGED <<users, grps, usersGone, groupsGone, usersNew, partial, uids>>
  BY <1>1 DEF service, call
<1>3. \/ /\ u \in Present /\ identities' = [identities EXCEPT ![u] = users[u]]
         /\ UNCHANGED <<faults, logged>>
      \/ u \notin Present /\ UNCHANGED <<faults, logged, identities>>
      \/ u \in Users /\ Fault /\ logged' = logged \cup {<<"user", u>>} /\ identities' = identities
  BY DEF RetrieveUser
<1>4. /\ identities' \in [Users -> {None} \cup SUBSET Groups]
      /\ \A v \in Users : identities'[v] \in {identities[v], users[v]}
      /\ \A v \in Users : identities[v] # None => identities'[v] # None
      /\ u \in Present => identities'[u] # None \/ <<"user", u>> \in logged'
      /\ logged \subseteq logged' /\ logged' \subseteq ({"user"} \X Users) \cup ({"group"} \X Groups)
  <2>1. identities \in [Users -> {None} \cup SUBSET Groups]
    BY DEF AKTypeOK
  <2>2. CASE identities' = identities
    <3>1. logged' \subseteq logged \cup {<<"user", u>>} /\ (logged' = logged \/ u \in Users)
      BY <1>3, <2>2
    <3>2. logged' \subseteq ({"user"} \X Users) \cup ({"group"} \X Groups)
      BY <3>1 DEF AKTypeOK
    <3>3. u \in Present => identities'[u] # None \/ <<"user", u>> \in logged'
      BY <1>3, <2>1, <2>2 DEF Present
    <3> QED BY <1>3, <2>1, <2>2, <3>2, <3>3
  <2>3. CASE u \in Present /\ identities' = [identities EXCEPT ![u] = users[u]] /\ logged' = logged
    BY <2>1, <2>3 DEF AKTypeOK, Present
  <2> QED BY <1>3, <2>2, <2>3
<1>5. AKTypeOK'
  <2>1. faults' \in 0..MaxFaults
    BY <1>3, InputBounds DEF InputBounds, Fault, AKTypeOK
  <2> QED BY <1>1, <1>4, <2>1 DEF AKTypeOK, service, call
<1>6. \A v \in Users : identities'[v] = None \/ identities'[v] \subseteq grps' \cup groupsGone'
  BY <1>2, <1>4
<1>7. UsersDue'
  <2> SUFFICES ASSUME NEW v \in Users, Overdue(v)', v \in uids, <<"user", v>> \notin logged'
               PROVE  v \in todo'
    BY <1>1, <1>2 DEF UsersDue
  <2>1. Overdue(v) /\ <<"user", v>> \notin logged
    BY <1>2, <1>4 DEF Overdue
  <2>2. v \in todo
    BY <1>1, <2>1 DEF UsersDue
  <2>3. v # u
    BY <1>2, <1>4 DEF Overdue, Present
  <2> QED BY <1>1, <2>2, <2>3
<1> QED BY <1>1, <1>2, <1>5, <1>6, <1>7 DEF GroupsDue

LEMMA RetrieveGroupKeeps ==
  ASSUME AKInv, NEW g \in Groups, RetrieveGroup(g) PROVE AKInv'
<1> USE DEF AKInv
<1>1. /\ partial /\ phase \in {"groups", "extra"} /\ outcome = "none" /\ todo' = todo \ {g}
      /\ UNCHANGED <<service, call, phase, page, identities, outcome>>
  BY DEF RetrieveGroup, AKTypeOK, Left
<1>2. UNCHANGED <<users, grps, usersGone, groupsGone, usersNew, partial, uids, identities>>
  BY <1>1 DEF service, call
<1>3. /\ groups \subseteq groups' /\ groups' \subseteq groups \cup {g} /\ logged \subseteq logged'
      /\ logged' \subseteq logged \cup {<<"group", g>>} /\ (Fault \/ faults' = faults)
      /\ g \in groups' \/ g \notin grps \/ <<"group", g>> \in logged'
  BY DEF RetrieveGroup
<1>4. AKTypeOK'
  <2>1. faults' \in 0..MaxFaults
    BY <1>3, InputBounds DEF InputBounds, Fault, AKTypeOK
  <2>2. groups' \subseteq Groups /\ logged' \subseteq ({"user"} \X Users) \cup ({"group"} \X Groups)
    BY <1>3 DEF AKTypeOK
  <2> QED BY <1>1, <2>1, <2>2 DEF AKTypeOK, service, call
<1>5. UsersDue'
  BY <1>1, <1>2, <1>3 DEF UsersDue, Overdue
<1>6. GroupsDue'
  <2> SUFFICES ASSUME NEW u \in Users, identities[u] # None, NEW h \in identities[u] \ groups',
                      phase = "extra", <<"group", h>> \notin logged', h \notin groupsGone
               PROVE  h \in todo'
    BY <1>1, <1>2 DEF GroupsDue
  <2>1. h \in todo /\ h \in grps
    BY <1>1, <1>3 DEF GroupsDue
  <2> QED BY <1>1, <1>3, <2>1
<1> QED BY <1>1, <1>2, <1>4, <1>5, <1>6

\* Nothing is left of one loop, and the next begins.
LEMMA LoopEndsKeeps == ASSUME AKInv, LoopEnds PROVE AKInv'
<1> USE DEF AKInv
<1>1. /\ partial /\ phase # "done" /\ todo = {} /\ outcome = "none"
      /\ UNCHANGED <<service, call, page, result, faults, logged>>
  BY DEF LoopEnds
<1>2. UNCHANGED <<users, grps, usersGone, groupsGone, usersNew, partial, uids, gids, identities,
                  groups>>
  BY <1>1 DEF service, call, result
<1>3. \/ phase = "users" /\ phase' = "groups" /\ todo' = gids /\ outcome' = outcome
      \/ phase = "groups" /\ phase' = "extra" /\ todo' = Additional /\ outcome' = outcome
      \/ phase = "extra" /\ phase' = "done" /\ outcome' = "ok" /\ todo' = todo
  BY DEF LoopEnds
<1>4. \A u \in Users : identities[u] # None => \A g \in identities[u] \ groups : g \in Additional
  BY DEF Additional, Fetched
<1>5. AKTypeOK'
  <2>1. Additional \subseteq Groups
    BY DEF Additional, Fetched, AKTypeOK
  <2> QED BY <1>1, <1>2, <1>3, <2>1 DEF AKTypeOK, service, call, result
<1>6. UsersDue'
  BY <1>1, <1>2, <1>3 DEF UsersDue, Overdue
<1>7. GroupsDue'
  BY <1>1, <1>2, <1>3, <1>4 DEF GroupsDue
<1> QED BY <1>1, <1>2, <1>3, <1>5, <1>6, <1>7

LEMMA AKStep == ASSUME AKInv, AKNext PROVE AKInv'
BY AKEditKeeps, ListUsersKeeps, ListGroupsKeeps, RetrieveUserKeeps, RetrieveGroupKeeps,
   LoopEndsKeeps DEF AKNext, AKFetch

LEMMA AKStart == ASSUME AKInit PROVE AKInv
<1> USE DEF AKInit
<1>1. PICK s \in Services : users = s.users /\ grps = s.grps
  OBVIOUS
<1>2. /\ users \in [Users -> {None} \cup SUBSET Groups] /\ grps \subseteq Groups
      /\ \A u \in Users : users[u] = None \/ users[u] \subseteq grps
  BY <1>1, SourceInput DEF SourceInput
<1>3. partial \in BOOLEAN /\ uids \subseteq Users \cup {NoUid} /\ gids \subseteq Groups
  BY SourceInput DEF SourceInput
<1>4. AKTypeOK
  BY <1>2, <1>3, SourceBounds, InputBounds DEF SourceBounds, InputBounds, AKTypeOK
<1>5. UsersDue
  <2> SUFFICES ASSUME NEW u \in Users, ~partial, users[u] # None
               PROVE  (page - 1) * PageSize <= Before(Present, u)
    BY DEF UsersDue, Overdue
  <2>1. Before(Present, u) \in Nat
    BY <1>4, ListsTyped, BeforeNat DEF Users
  <2>2. (1 - 1) * PageSize = 0
    BY SourceBounds DEF SourceBounds
  <2> QED BY <2>1, <2>2
<1> QED BY <1>2, <1>4, <1>5 DEF AKInv, GroupsDue

-----------------------------------------------------------------------------
\* The LDAP source.  A map that is filled from a response has the keys of its entries, and
\* under each of them an entry with that key.
LEMMA ByKeyFacts ==
  ASSUME NEW T, NEW entrs \in Seq(T), NEW keys, NEW k \in {keys[i] : i \in DOMAIN entrs}
  PROVE  \E i \in DOMAIN entrs : keys[i] = k /\ ByKey(entrs, keys)[k] = entrs[i]
<1> DEFINE S == {i \in DOMAIN entrs : keys[i] = k}
<1>1. Len(entrs) \in Nat /\ S \in SUBSET (1..Len(entrs)) /\ S # {}
  OBVIOUS
<1>2. Max(S) \in S
  <2> HIDE DEF S
  <2> QED BY <1>1, MaxIn
<1>3. ByKey(entrs, keys)[k] = entrs[Max(S)]
  BY DEF ByKey
<1>4. Max(S) \in DOMAIN entrs /\ keys[Max(S)] = k
  BY <1>2
<1> QED BY <1>3, <1>4

LEMMA PeopleTyped ==
  ASSUME LDTypeOK
  PROVE  /\ DOMAIN PeopleFound \subseteq {None} \cup Texts
         /\ \A k \in DOMAIN PeopleFound : PeopleFound[k] \in Person
<1> DEFINE E == directory.people
           keys == [i \in DOMAIN E |-> PersonKey(E[i])]
<1>1. E \in Seq(Person)
  BY LDAPInput DEF LDAPInput, LDTypeOK
<1>2. PeopleFound = ByKey(E, keys)
  BY DEF PeopleFound
<1>3. \A i \in DOMAIN E : E[i] \in Person /\ keys[i] = PersonKey(E[i])
  BY <1>1, ElementOfSeq
<1>4. \A p \in Person : PersonKey(p) \in {None} \cup Texts
  BY DEF Person, PersonKey
<1> HIDE DEF E, keys
<1>5. DOMAIN PeopleFound = {keys[i] : i \in DOMAIN E}
  BY <1>2 DEF ByKey
<1>6. ASSUME NEW k \in DOMAIN PeopleFound
      PROVE  k \in {None} \cup Texts /\ PeopleFound[k] \in Person
  <2>1. PICK i \in DOMAIN E : keys[i] = k /\ PeopleFound[k] = E[i]
    BY <1>1, <1>2, <1>5, <1>6, ByKeyFacts
  <2> QED BY <1>3, <1>4, <2>1
<1> QED BY <1>6

LEMMA GroupsTyped ==
  ASSUME LDTypeOK
  PROVE  /\ DOMAIN GroupsFound \subseteq Texts
         /\ \A k \in DOMAIN GroupsFound : GroupsFound[k] \in GroupData
<1> DEFINE E == directory.grps
           keys == [i \in DOMAIN E |-> GroupKey(E[i])]
<1>1. E \in Seq(GroupData)
  BY LDAPInput DEF LDAPInput, LDTypeOK
<1>2. GroupsFound = ByKey(E, keys)
  BY DEF GroupsFound
<1>3. \A i \in DOMAIN E : E[i] \in GroupData /\ keys[i] = GroupKey(E[i])
  BY <1>1, ElementOfSeq
<1>4. \A g \in GroupData : GroupKey(g) \in Texts
  BY DEF GroupData, GroupKey
<1> HIDE DEF E, keys
<1>5. DOMAIN GroupsFound = {keys[i] : i \in DOMAIN E}
  BY <1>2 DEF ByKey
<1>6. ASSUME NEW k \in DOMAIN GroupsFound
      PROVE  k \in Texts /\ GroupsFound[k] \in GroupData
  <2>1. PICK i \in DOMAIN E : keys[i] = k /\ GroupsFound[k] = E[i]
    BY <1>1, <1>2, <1>5, <1>6, ByKeyFacts
  <2> QED BY <1>3, <1>4, <2>1
<1> QED BY <1>6

\* What resolveParents makes of the groups: some choice of a key for each name.
ParentsOf(G, nameToKey, k) ==
  {G[p].name : p \in {q \in DOMAIN G : Child(G, q) = G[k].name /\ nameToKey[G[k].name] = k}}

LEMMA ResolvedFacts ==
  ASSUME NEW G, \A k \in DOMAIN G : G[k] \in GroupData, NEW R \in Resolved(G)
  PROVE  /\ DOMAIN R = DOMAIN G
         /\ \A k \in DOMAIN G : R[k] \in GroupData
         /\ \E f : /\ \A n \in GroupNames(G) : f[n] \in DOMAIN G /\ G[f[n]].name = n
                   /\ \A k \in DOMAIN G : R[k].parents = G[k].parents \cup ParentsOf(G, f, k)
<1>1. PICK f \in [GroupNames(G) -> DOMAIN G] :
        /\ \A n \in GroupNames(G) : G[f[n]].name = n
        /\ R = [k \in DOMAIN G |-> [G[k] EXCEPT !.parents = @ \cup ParentsOf(G, f, k)]]
  BY DEF Resolved, ParentsOf
<1>2. \A k \in DOMAIN G : ParentsOf(G, f, k) \subseteq Texts
  BY DEF ParentsOf, GroupData
<1>3. ASSUME NEW k \in DOMAIN G
      PROVE  R[k] \in GroupData /\ R[k].parents = G[k].parents \cup ParentsOf(G, f, k)
  <2>1. R[k] = [G[k] EXCEPT !.parents = @ \cup ParentsOf(G, f, k)]
    BY <1>1
  <2>2. G[k] \in GroupData /\ ParentsOf(G, f, k) \subseteq Texts
    BY <1>2
  <2> QED BY <2>1, <2>2 DEF GroupData
<1>4. \A n \in GroupNames(G) : f[n] \in DOMAIN G
  OBVIOUS
<1>5. DOMAIN R = DOMAIN G
  BY <1>1
<1> QED BY <1>1, <1>3, <1>4, <1>5

\* The group below: one of the members, if a member is a group.
LEMMA ChildFacts ==
  ASSUME NEW G, NEW q \in DOMAIN G, G[q] \in GroupData,
         NEW i \in DOMAIN G[q].members, G[q].members[i] \in GroupNames(G)
  PROVE  /\ Child(G, q) \in GroupNames(G)
         /\ \E j \in DOMAIN G[q].members : G[q].members[j] = Child(G, q)
<1> DEFINE nested == {j \in DOMAIN G[q].members : G[q].members[j] \in GroupNames(G)}
<1>1. G[q].members \in Seq(Texts)
  BY DEF GroupData
<1>2. nested \in SUBSET Nat /\ nested # {}
  <2>1. DOMAIN G[q].members \subseteq Nat
    BY <1>1
  <2> QED BY <2>1
<1>3. Min(nested) \in nested
  <2> HIDE DEF nested
  <2> QED BY <1>2, MinIn
<1>4. Child(G, q) = G[q].members[Min(nested)]
  BY <1>2 DEF Child
<1> QED BY <1>3, <1>4

LEMMA NoChild ==
  ASSUME NEW G, NEW q \in DOMAIN G,
         \A i \in DOMAIN G[q].members : G[q].members[i] \notin GroupNames(G)
  PROVE  Child(G, q) = None
<1>1. {i \in DOMAIN G[q].members : G[q].members[i] \in GroupNames(G)} = {}
  OBVIOUS
<1> QED BY <1>1 DEF Child

LEMMA LDNested == ASSUME LDInv PROVE NestedGroups
<1> SUFFICES ASSUME outcome = "ok" PROVE NestedGroups
  BY DEF NestedGroups
<1> DEFINE G == GroupsFound
<1>1. \A k \in DOMAIN G : G[k] \in GroupData /\ G[k].name # None
  <2>1. \A k \in DOMAIN G : G[k] \in GroupData
    BY GroupsTyped DEF LDInv
  <2> QED BY <2>1, LDAPInput DEF LDAPInput, GroupData
<1>2. groups \in Resolved(G)
  BY DEF LDInv
<1> HIDE DEF G
<1>3. PICK f : /\ DOMAIN groups = DOMAIN G
               /\ \A n \in GroupNames(G) : f[n] \in DOMAIN G /\ G[f[n]].name = n
               /\ \A k \in DOMAIN G : groups[k].parents = G[k].parents \cup ParentsOf(G, f, k)
  BY <1>1, <1>2, ResolvedFacts
<1>4. ASSUME NEW c \in DOMAIN G, NEW p \in groups[c].parents \ G[c].parents
      PROVE  \E q \in DOMAIN G : /\ G[q].name = p
                                 /\ \E i \in DOMAIN G[q].members : G[q].members[i] = G[c].name
  <2>1. PICK q \in DOMAIN G : G[q].name = p /\ Child(G, q) = G[c].name
    BY <1>3, <1>4 DEF ParentsOf
  <2>2. PICK i \in DOMAIN G[q].members : G[q].members[i] \in GroupNames(G)
    BY <1>1, <2>1, NoChild
  <2> QED BY <1>1, <2>1, <2>2, ChildFacts
<1>5. ASSUME NEW q \in DOMAIN G, NEW i \in DOMAIN G[q].members, G[q].members[i] \in GroupNames(G)
      PROVE  \E c \in DOMAIN G : G[q].name \in groups[c].parents
  <2>1. Child(G, q) \in GroupNames(G)
    BY <1>1, <1>5, ChildFacts
  <2>2. f[Child(G, q)] \in DOMAIN G /\ G[f[Child(G, q)]].name = Child(G, q)
    BY <1>3, <2>1
  <2>3. G[q].name \in ParentsOf(G, f, f[Child(G, q)])
    BY <2>2 DEF ParentsOf
  <2> QED BY <1>3, <2>2, <2>3
<1> QED BY <1>3, <1>4, <1>5 DEF NestedGroups, G

LEMMA LDStep == ASSUME LDInv, LDNext PROVE LDInv'
<1> USE DEF LDInv
<1>1. part' = part /\ edits' = edits /\ directory' = directory
  BY DEF LDNext, LDFetch, Connect, GetIdentities, GetGroups, FetchAgain, Fails, Lose, still
<1>2. GroupsFound' = GroupsFound
  BY <1>1 DEF GroupsFound
<1>3. faults' \in 0..MaxFaults
  BY InputBounds DEF InputBounds, LDNext, LDFetch, Connect, GetIdentities, GetGroups, FetchAgain,
                     Fails, Lose, Fault, LDTypeOK
<1>4. CASE Connect \/ Lose
  BY <1>1, <1>2, <1>3, <1>4 DEF Connect, Lose, still, LDTypeOK
<1>5. CASE phase \in {"identities", "groups"} /\ Fails
  BY <1>1, <1>2, <1>3, <1>5 DEF Fails, still, LDTypeOK
<1>6. CASE /\ phase = "identities" /\ identities' = PeopleFound /\ phase' = "groups"
           /\ UNCHANGED <<still, conn, groups, outcome, faults>>
  BY <1>1, <1>2, <1>3, <1>6, PeopleTyped DEF still, LDTypeOK
<1>7. CASE /\ phase = "groups" /\ groups' \in Resolved(GroupsFound) /\ phase' = "over"
           /\ outcome' = "ok" /\ UNCHANGED <<still, conn, identities, faults>>
  <2>1. /\ DOMAIN groups' \subseteq Texts
        /\ \A k \in DOMAIN groups' : groups'[k] \in GroupData
    BY <1>7, GroupsTyped, ResolvedFacts
  <2> QED BY <1>1, <1>2, <1>3, <1>7, <2>1 DEF still, LDTypeOK
<1>8. CASE FetchAgain
  BY <1>1, <1>2, <1>3, <1>8 DEF FetchAgain, still, LDTypeOK
<1> QED BY <1>4, <1>5, <1>6, <1>7, <1>8 DEF LDNext, LDFetch, GetIdentities, GetGroups

LEMMA LDStart == ASSUME LDInit PROVE LDInv
BY LDAPInput, InputBounds DEF LDAPInput, InputBounds, LDInit, LDInv, LDTypeOK

-----------------------------------------------------------------------------
\* Types of the store.  A manifest of a target name is one of a target.
LEMMA TargetTyped ==
  ASSUME NEW t \in Targets, NEW m \in Manifests, m.name = t
  PROVE  m \in {n \in Manifests : n.kind = "target"}
BY StoreInput DEF StoreInput

LEMMA FoundTarget ==
  ASSUME StoreInv, NEW r \in Readers, NEW t \in Targets, NEW S \in SUBSET Of(r, t), S # {}
  PROVE  /\ Min(S) \in Of(r, t) /\ Max(S) \in Of(r, t)
         /\ \A i \in Of(r, t) : /\ found[r][i] \in {n \in Manifests : n.kind = "target"}
                                /\ found[r][i].name = t
<1>1. found[r] \in Seq(Manifests)
  BY DEF StoreInv
<1>2. Len(found[r]) \in Nat /\ Of(r, t) \subseteq 1..Len(found[r])
  BY <1>1 DEF Of
<1>3. S \in SUBSET Nat /\ S \in SUBSET (1..Len(found[r]))
  BY <1>2
<1>4. Min(S) \in S /\ Max(S) \in S
  BY <1>2, <1>3, MinIn, MaxIn
<1>5. ASSUME NEW i \in Of(r, t)
      PROVE  /\ found[r][i] \in {n \in Manifests : n.kind = "target"}
             /\ found[r][i].name = t
  <2>1. i \in 1..Len(found[r]) /\ found[r][i].name = t
    BY <1>2, <1>5 DEF Of
  <2>2. found[r][i] \in Manifests
    BY <1>1, <2>1, ElementOfSeq
  <2> QED BY <2>1, <2>2, TargetTyped
<1> QED BY <1>4, <1>5

\* What a reader lists is no more than there are files.
LEMMA FilesCounted ==
  ASSUME NEW S \in SUBSET Files
  PROVE  IsFiniteSet(S) /\ Cardinality(S) \in Nat /\ Cardinality(S) <= MaxFile
<1>1. MaxFile \in Nat
  BY StoreInput DEF StoreInput
<1>2. IsFiniteSet(Files) /\ Cardinality(Files) = IF 1 > MaxFile THEN 0 ELSE MaxFile - 1 + 1
  BY <1>1, FS_Interval DEF Files
<1>3. Cardinality(Files) = MaxFile
  BY <1>1, <1>2
<1>4. IsFiniteSet(S) /\ Cardinality(S) <= MaxFile
  BY <1>2, <1>3, FS_Subset
<1> QED BY <1>4, FS_CardinalityType

\* A reader that begins, opens a file or ends holds no more manifests than it opened files.
Counted(r) == Len(found[r]) + Cardinality(entries[r]) <= MaxFile

LEMMA CountBegins ==
  ASSUME StoreInv, NEW r \in Readers, \A q \in Readers : Counted(q), Begin(r)
  PROVE  \A q \in Readers : found'[q] \in Seq(Manifests) /\ Counted(q)'
<1>1. /\ found' \in [Readers -> Seq(Manifests)] /\ entries' \in [Readers -> SUBSET Files]
      /\ \A q \in Readers \ {r} : entries'[q] = entries[q] /\ found'[q] = found[q]
  BY BeginTyped
<1>2. found'[r] = << >> /\ Len(<< >>) = 0
  BY DEF Begin, StoreInv
<1>3. entries'[r] \in SUBSET Files
  BY <1>1
<1>4. Cardinality(entries'[r]) \in Nat /\ Cardinality(entries'[r]) <= MaxFile
  BY <1>3, FilesCounted
<1>5. Counted(r)'
  BY <1>2, <1>4 DEF Counted
<1>6. ASSUME NEW q \in Readers \ {r} PROVE Counted(q)'
  <2>1. entries'[q] = entries[q] /\ found'[q] = found[q]
    BY <1>1
  <2> QED BY <2>1 DEF Counted
<1> QED BY <1>1, <1>5, <1>6

LEMMA CountEnds ==
  ASSUME StoreInv, NEW r \in Readers, \A q \in Readers : Counted(q), Ends(r)
  PROVE  \A q \in Readers : found'[q] \in Seq(Manifests) /\ Counted(q)'
<1>1. /\ found' \in [Readers -> Seq(Manifests)] /\ entries' = entries
      /\ \A q \in Readers \ {r} : found'[q] = found[q]
  BY EndsTyped DEF Ends
<1>2. found'[r] = << >> /\ Len(<< >>) = 0
  BY DEF Ends, StoreInv
<1>3. entries[r] \in SUBSET Files
  BY DEF StoreInv
<1>4. Cardinality(entries[r]) \in Nat /\ Cardinality(entries[r]) <= MaxFile
  BY <1>3, FilesCounted
<1>5. Counted(r)'
  BY <1>1, <1>2, <1>4 DEF Counted
<1>6. ASSUME NEW q \in Readers \ {r} PROVE Counted(q)'
  <2>1. entries'[q] = entries[q] /\ found'[q] = found[q]
    BY <1>1
  <2> QED BY <2>1 DEF Counted
<1> QED BY <1>1, <1>5, <1>6

LEMMA CountReads ==
  ASSUME StoreInv, NEW r \in Readers, \A q \in Readers : Counted(q), ReadFile(r)
  PROVE  \A q \in Readers : found'[q] \in Seq(Manifests) /\ Counted(q)'
<1> DEFINE f == Min(entries[r])
<1>1. /\ entries' = [entries EXCEPT ![r] = @ \ {f}] /\ entries[r] # {}
      /\ \/ found' = [found EXCEPT ![r] = IF dir[f] \in Manifests THEN Append(@, dir[f]) ELSE @]
         \/ found' = found
  BY DEF ReadFile, Rest
<1>2. entries \in [Readers -> SUBSET Files] /\ found \in [Readers -> Seq(Manifests)]
  BY DEF StoreInv
<1>3. found' \in [Readers -> Seq(Manifests)]
  BY ReadFileFacts DEF StoreInv
<1>4. entries[r] \in SUBSET Files /\ entries[r] \in SUBSET Nat
  BY <1>2 DEF Files
<1>5. f \in entries[r]
  BY <1>1, <1>4, MinIn
<1> HIDE DEF f
<1>6. IsFiniteSet(entries[r]) /\ Cardinality(entries[r]) \in Nat
  BY <1>4, FilesCounted
<1>7. Cardinality(entries[r] \ {f}) = Cardinality(entries[r]) - 1
  BY <1>5, <1>6, FS_RemoveElement
<1>8. found[r] \in Seq(Manifests) /\ Len(found[r]) \in Nat
  BY <1>2
<1>9. Len(found'[r]) \in {Len(found[r]), Len(found[r]) + 1}
  <2>1. CASE found' = found
    BY <2>1
  <2>2. CASE found' = [found EXCEPT ![r] = IF dir[f] \in Manifests THEN Append(@, dir[f]) ELSE @]
    <3>1. dir[f] \in Manifests => Len(Append(found[r], dir[f])) = Len(found[r]) + 1
      BY <1>8, AppendProperties
    <3>2. found'[r] = IF dir[f] \in Manifests THEN Append(found[r], dir[f]) ELSE found[r]
      BY <1>2, <2>2
    <3> QED BY <3>1, <3>2
  <2> QED BY <1>1, <2>1, <2>2
<1>10. Counted(r)'
  <2>1. entries'[r] = entries[r] \ {f}
    BY <1>1, <1>2
  <2>2. Len(found[r]) + Cardinality(entries[r]) <= MaxFile /\ MaxFile \in Nat
    BY StoreInput DEF Counted, StoreInput
  <2>3. Len(found'[r]) + (Cardinality(entries[r]) - 1) <= MaxFile
    BY <1>6, <1>8, <1>9, <2>2
  <2> QED BY <1>7, <2>1, <2>3 DEF Counted
<1>11. ASSUME NEW q \in Readers \ {r} PROVE Counted(q)'
  <2>1. entries'[q] = entries[q] /\ found'[q] = found[q]
    BY <1>1, <1>2
  <2> QED BY <2>1 DEF Counted
<1> QED BY <1>3, <1>10, <1>11

\* What is edited holds what a file may hold.
LEMMA EditedTyped ==
  ASSUME NEW old \in [Files -> Content], NEW new \in Edited(old)
  PROVE  new \in [Files -> Content]
<1>1. CASE new \in {[old EXCEPT ![f] = c] : f \in Files, c \in Content}
  BY <1>1
<1>2. CASE new \in {[old EXCEPT ![f] = None, ![g] = old[f]] : f \in Files, g \in Files}
  <2>1. PICK f \in Files, g \in Files : new = [old EXCEPT ![f] = None, ![g] = old[f]]
    BY <1>2
  <2>2. None \in Content /\ old[f] \in Content
    BY DEF Content
  <2> QED BY <2>1, <2>2
<1> QED BY <1>1, <1>2 DEF Edited

-----------------------------------------------------------------------------
\* Every step of the store keeps its types.
LEMMA FaultCounted == ASSUME faults \in 0..MaxFaults, Fault \/ UNCHANGED faults
                      PROVE  faults' \in 0..MaxFaults
BY InputBounds DEF InputBounds, Fault

LEMMA STEditKeeps == ASSUME STInv, STEdit PROVE STTypeOK'
<1>1. edits' \in 0..MaxFileEdits
  BY StoreInput DEF StoreInput, STEdit, STInv, STTypeOK
<1>2. remote' \in [Files -> Content] /\ dir' \in [Files -> Content] /\ steady' \subseteq Files
  <2>1. CASE mode = "file"
    <3>1. dir' \in Edited(dir) /\ remote' = remote /\ steady' \subseteq steady
      BY <2>1 DEF STEdit
    <3> QED BY <3>1, EditedTyped DEF STInv, STTypeOK
  <2>2. CASE mode # "file"
    <3>1. remote' \in Edited(remote) /\ dir' = dir /\ steady' = steady
      BY <2>2 DEF STEdit
    <3> QED BY <3>1, EditedTyped DEF STInv, STTypeOK
  <2> QED BY <2>1, <2>2
<1>3. UNCHANGED <<fixed, phase, reload, target, reads, registry, faults, restarts>>
  BY DEF STEdit
<1> QED BY <1>1, <1>2, <1>3 DEF STInv, STTypeOK, fixed, fetched, reads, registry

LEMMA InitStoreKeeps == ASSUME STInv, InitStore PROVE STTypeOK'
<1>1. faults' \in 0..MaxFaults
  BY FaultCounted DEF InitStore, STInv, STTypeOK
<1>2. phase' \in {"init", "up", "down"} /\ dir' \in [Files -> Content]
  BY DEF InitStore, STInv, STTypeOK
<1>3. UNCHANGED <<fixed, remote, reload, target, reads, registry, edits, restarts, steady>>
  BY DEF InitStore
<1> QED BY <1>1, <1>2, <1>3 DEF STInv, STTypeOK, fixed, fetched, reads, registry

LEMMA RestartKeeps == ASSUME STInv, Restart PROVE STTypeOK'
<1>1. restarts' \in 0..MaxRestarts
  BY StoreInput DEF StoreInput, Restart, STInv, STTypeOK
<1>2. \A r \in Readers :
        found'[r] \in Seq(Manifests) /\ Len(found'[r]) + Cardinality(entries'[r]) <= MaxFile
  <2>1. ASSUME NEW r \in Readers PROVE found'[r] = << >> /\ entries'[r] = {}
    BY DEF Restart
  <2>2. Cardinality({}) = 0 /\ MaxFile \in Nat
    BY StoreInput, FS_EmptySet DEF StoreInput
  <2>3. << >> \in Seq(Manifests) /\ Len(<< >>) = 0
    OBVIOUS
  <2>4. ASSUME NEW r \in Readers
        PROVE  Len(found'[r]) = 0 /\ Cardinality(entries'[r]) = 0 /\ found'[r] \in Seq(Manifests)
    BY <2>1, <2>2, <2>3
  <2>5. 0 + 0 <= MaxFile
    BY <2>2
  <2> QED BY <2>4, <2>5
<1>3. /\ phase' = "init" /\ reload' = "wait" /\ target' = None
      /\ pc' \in [Readers -> {"idle", "reading"}] /\ entries' \in [Readers -> SUBSET Files]
      /\ activeSources' = {} /\ activeOperators' = [t \in Targets |-> None] /\ steady' = {}
  BY DEF Restart
<1>4. UNCHANGED <<fixed, remote, dir, edits, faults>>
  BY DEF Restart, files
<1> QED BY <1>1, <1>2, <1>3, <1>4 DEF STInv, STTypeOK, fixed, fetched

LEMMA TickKeeps == ASSUME STInv, Tick PROVE STTypeOK'
<1>1. /\ UNCHANGED <<fixed, remote, dir, phase, target, reads, registry, edits, faults, restarts, steady>>
      /\ reload' \in {"wait", "sources", "targets"}
  BY DEF Tick, files, bounds
<1> QED BY <1>1 DEF STInv, STTypeOK, fixed, fetched, reads, registry

LEMMA CountedNow == ASSUME STInv PROVE \A q \in Readers : Counted(q)
BY DEF STInv, STTypeOK, Counted

LEMMA ListKeeps == ASSUME STInv, List PROVE STTypeOK'
<1> USE DEF STInv
<1>1. /\ UNCHANGED <<fixed, remote, dir, phase, target, registry, edits, restarts>>
      /\ "ticker" \in Readers
  BY DEF List, files, Readers
<1>2. faults' \in 0..MaxFaults
  BY FaultCounted DEF List, STTypeOK
<1>3. reload' \in {"wait", "sources", "targets"}
  BY DEF List, STTypeOK
<1>4. CASE Begin("ticker") /\ steady' = {f \in Files : dir[f] # None}
  <2>1. /\ pc' \in [Readers -> {"idle", "reading"}] /\ entries' \in [Readers -> SUBSET Files]
        /\ \A r \in Readers :
             found'[r] \in Seq(Manifests) /\ Len(found'[r]) + Cardinality(entries'[r]) <= MaxFile
    BY <1>1, <1>4, BeginTyped, CountBegins, CountedNow DEF Counted
  <2>2. steady' \subseteq Files
    BY <1>4
  <2> QED BY <1>1, <1>2, <1>3, <2>1, <2>2 DEF STTypeOK, fixed, fetched, registry
<1>5. CASE UNCHANGED <<reads, steady>>
  BY <1>1, <1>2, <1>3, <1>5 DEF STTypeOK, fixed, fetched, registry, reads
<1> QED BY <1>4, <1>5 DEF List

LEMMA RefreshKeeps == ASSUME STInv, Refresh PROVE STTypeOK'
<1> USE DEF STInv
<1>1. /\ UNCHANGED <<fixed, remote, dir, phase, reload, registry, edits, faults, restarts, steady>>
      /\ "worker" \in Readers /\ target' \in Targets \cup {"all", None} /\ Begin("worker")
  BY DEF Refresh, files, bounds, Readers
<1>2. /\ pc' \in [Readers -> {"idle", "reading"}] /\ entries' \in [Readers -> SUBSET Files]
      /\ \A r \in Readers :
           found'[r] \in Seq(Manifests) /\ Len(found'[r]) + Cardinality(entries'[r]) <= MaxFile
  BY <1>1, BeginTyped, CountBegins, CountedNow DEF Counted
<1> QED BY <1>1, <1>2 DEF STTypeOK, fixed, fetched, registry

LEMMA ReadFileKeeps == ASSUME STInv, NEW r \in Readers, ReadFile(r) PROVE STTypeOK'
<1> USE DEF STInv
<1>1. UNCHANGED <<fixed, remote, dir, phase, reload, target, pc, registry, edits, restarts>>
  BY DEF ReadFile, files
<1>2. faults' \in 0..MaxFaults
  BY FaultCounted DEF ReadFile, STTypeOK
<1>3. steady' \subseteq Files
  BY DEF ReadFile, STTypeOK
<1>4. entries' \in [Readers -> SUBSET Files]
  BY ReadFileFacts DEF StoreInv
<1>5. \A q \in Readers :
        found'[q] \in Seq(Manifests) /\ Len(found'[q]) + Cardinality(entries'[q]) <= MaxFile
  BY CountReads, CountedNow DEF Counted
<1> QED BY <1>1, <1>2, <1>3, <1>4, <1>5 DEF STTypeOK, fixed, fetched, registry

LEMMA ReloadKeeps == ASSUME STInv, ReloadSources \/ ReloadTargets PROVE STTypeOK'
<1> USE DEF STInv
<1>1. /\ UNCHANGED <<fixed, remote, dir, phase, edits, restarts, steady>>
      /\ "ticker" \in Readers /\ Ends("ticker")
      /\ reload' \in {"wait", "sources", "targets"}
  BY DEF ReloadSources, ReloadTargets, files, Readers
<1>2. /\ pc' \in [Readers -> {"idle", "reading"}] /\ entries' \in [Readers -> SUBSET Files]
      /\ \A r \in Readers :
           found'[r] \in Seq(Manifests) /\ Len(found'[r]) + Cardinality(entries'[r]) <= MaxFile
  BY <1>1, EndsTyped, CountEnds, CountedNow DEF Counted
<1>3. faults' \in 0..MaxFaults
  BY FaultCounted DEF ReloadSources, ReloadTargets, STTypeOK
<1>4. CASE ReloadSources
  <2>1. activeSources' \subseteq Sources /\ UNCHANGED <<target, activeOperators>>
    BY <1>4 DEF ReloadSources
  <2> QED BY <1>1, <1>2, <1>3, <2>1 DEF STTypeOK, fixed, fetched
<1>5. CASE ReloadTargets
  <2>1. target' \in Targets \cup {"all", None} /\ activeSources' = activeSources
    BY <1>5 DEF ReloadTargets, STTypeOK
  <2>2. PICK failing \in {{}} \cup {{i} : i \in DOMAIN found["ticker"]} :
          activeOperators' = [t \in Targets |->
            IF activeOperators[t] = None THEN Added(t, failing) ELSE Kept(t)]
    BY <1>5 DEF ReloadTargets
  <2>3. ASSUME NEW t \in Targets
        PROVE  \/ activeOperators'[t] = None
               \/ /\ activeOperators'[t] \in {m \in Manifests : m.kind = "target"}
                  /\ activeOperators'[t].name = t
    <3>1. CASE activeOperators[t] = None
      <4> DEFINE able == {i \in Of("ticker", t) \ failing : found["ticker"][i].src \in activeSources}
      <4>1. activeOperators'[t] = IF able = {} THEN None ELSE found["ticker"][Min(able)]
        BY <2>2, <3>1 DEF Added
      <4>2. able \in SUBSET Of("ticker", t)
        OBVIOUS
      <4> HIDE DEF able
      <4>3. able # {} => Min(able) \in Of("ticker", t)
        BY <1>1, <4>2, FoundTarget
      <4>4. ASSUME able # {}
            PROVE  /\ found["ticker"][Min(able)] \in {m \in Manifests : m.kind = "target"}
                   /\ found["ticker"][Min(able)].name = t
        BY <1>1, <4>2, <4>3, <4>4, FoundTarget
      <4> QED BY <4>1, <4>4
    <3>2. CASE activeOperators[t] # None
      <4>1. activeOperators'[t] = Kept(t)
        BY <2>2, <3>2
      <4> QED BY <3>2, <4>1 DEF Kept, STTypeOK
    <3> QED BY <3>1, <3>2
  <2>4. /\ activeOperators' \in [Targets -> {m \in Manifests : m.kind = "target"} \cup {None}]
        /\ \A t \in Targets : activeOperators'[t] # None => activeOperators'[t].name = t
    BY <2>2, <2>3
  <2> QED BY <1>1, <1>2, <1>3, <2>1, <2>4 DEF STTypeOK, fixed, fetched
<1> QED BY <1>4, <1>5

LEMMA PublishKeeps == ASSUME STInv, Publish PROVE STTypeOK'
<1> USE DEF STInv
<1>1. /\ UNCHANGED <<fixed, remote, dir, phase, reload, activeSources, edits, faults, restarts, steady>>
      /\ "worker" \in Readers /\ target' = None /\ Ends("worker")
  BY DEF Publish, files, bounds, Readers
<1>2. /\ pc' \in [Readers -> {"idle", "reading"}] /\ entries' \in [Readers -> SUBSET Files]
      /\ \A r \in Readers :
           found'[r] \in Seq(Manifests) /\ Len(found'[r]) + Cardinality(entries'[r]) <= MaxFile
  BY <1>1, EndsTyped, CountEnds, CountedNow DEF Counted
<1>3. activeOperators' = [t \in Targets |->
        IF activeOperators[t] = None \/ Of("worker", t) = {} THEN activeOperators[t]
        ELSE IF target = "all" THEN Last(t)
        ELSE IF target = t THEN One(t) ELSE activeOperators[t]]
  BY DEF Publish
<1>4. ASSUME NEW t \in Targets
      PROVE  \/ activeOperators'[t] = None
             \/ /\ activeOperators'[t] \in {m \in Manifests : m.kind = "target"}
                /\ activeOperators'[t].name = t
  <2>1. ASSUME Of("worker", t) # {}
        PROVE  /\ One(t) \in {m \in Manifests : m.kind = "target"} /\ One(t).name = t
               /\ Last(t) \in {m \in Manifests : m.kind = "target"} /\ Last(t).name = t
    <3>1. Of("worker", t) \in SUBSET Of("worker", t)
      OBVIOUS
    <3>2. /\ Min(Of("worker", t)) \in Of("worker", t) /\ Max(Of("worker", t)) \in Of("worker", t)
          /\ \A i \in Of("worker", t) :
               /\ found["worker"][i] \in {m \in Manifests : m.kind = "target"}
               /\ found["worker"][i].name = t
      BY <1>1, <2>1, <3>1, FoundTarget
    <3> QED BY <3>2 DEF One, Last
  <2>2. activeOperators'[t] \in {activeOperators[t], One(t), Last(t)}
        /\ (activeOperators'[t] # activeOperators[t] => Of("worker", t) # {})
    BY <1>3
  <2>3. activeOperators[t] = None
          \/ /\ activeOperators[t] \in {m \in Manifests : m.kind = "target"}
             /\ activeOperators[t].name = t
    BY DEF STTypeOK
  <2> QED BY <2>1, <2>2, <2>3
<1>5. /\ activeOperators' \in [Targets -> {m \in Manifests : m.kind = "target"} \cup {None}]
      /\ \A t \in Targets : activeOperators'[t] # None => activeOperators'[t].name = t
  BY <1>3, <1>4
<1> QED BY <1>1, <1>2, <1>5 DEF STTypeOK, fixed, fetched

LEMMA STStep == ASSUME STInv, STNext PROVE STInv' /\ Keeps
<1>1. STTypeOK'
  BY STEditKeeps, InitStoreKeeps, RestartKeeps, TickKeeps, ListKeeps, RefreshKeeps, ReadFileKeeps,
     ReloadKeeps, PublishKeeps DEF STNext, Ticker, Worker, Readers
<1>2. StoreInv' /\ Keeps
  BY StoreStep DEF STInv
<1> QED BY <1>1, <1>2 DEF STInv

LEMMA STStart == ASSUME STInit PROVE STInv
<1>1. << >> \in Seq(Manifests) /\ Len(<< >>) = 0 /\ Cardinality({}) = 0 /\ "ticker" \in Readers
  BY FS_EmptySet DEF Readers
<1>2. /\ MaxFile \in Nat /\ MaxFileEdits \in Nat /\ MaxRestarts \in Nat /\ MaxFaults \in Nat
      /\ Starts \subseteq [Files -> Content] /\ None \in Content
  BY StoreInput, InputBounds DEF StoreInput, InputBounds, Content, Broken
<1>3. STTypeOK
  <2>1. remote \in [Files -> Content] /\ dir \in [Files -> Content]
    BY <1>2 DEF STInit
  <2>2. ASSUME NEW r \in Readers
        PROVE  found[r] \in Seq(Manifests) /\ Len(found[r]) + Cardinality(entries[r]) <= MaxFile
    <3>1. found[r] = << >> /\ entries[r] = {}
      BY DEF STInit
    <3> QED BY <1>1, <1>2, <3>1
  <2>3. /\ pc \in [Readers -> {"idle", "reading"}] /\ entries \in [Readers -> SUBSET Files]
    BY DEF STInit
  <2> QED BY <1>2, <2>1, <2>2, <2>3 DEF STInit, STTypeOK
<1>4. StoreInv
  BY <1>1 DEF STInit, StoreInv, Seen
<1> QED BY <1>3, <1>4 DEF STInv

-----------------------------------------------------------------------------
\* A behaviour is about one part, and nothing of another part is one of its steps.
LEMMA Parts ==
  /\ AKInv => part = "authentik" /\ phase \in {"users", "groups", "extra", "done"}
  /\ LDInv => part = "ldap" /\ phase \in {"connect", "identities", "groups", "over"}
  /\ STInv => part = "store"
BY DEF AKInv, AKTypeOK, LDInv, LDTypeOK, STInv, STTypeOK

\* Nothing happens.
LEMMA Stutter == ASSUME IInv, UNCHANGED vars PROVE IInv' /\ UNCHANGED STvars
<1>1. /\ UNCHANGED <<part, phase, identities, groups, outcome, edits, faults>>
      /\ UNCHANGED <<mode, remote, dir, reload, target, pc, entries, found,
                     activeSources, activeOperators, restarts, steady>>
      /\ UNCHANGED <<users, grps, usersGone, groupsGone, usersNew, partial, uids, gids, page,
                     todo, logged>>
      /\ UNCHANGED <<directory, conn>>
  BY DEF vars, fetched, storeOwn, reads, registry, authentikOwn, ldapOwn
<1>2. UNCHANGED STvars
  BY <1>1 DEF STvars, files, fixed, fetched, reads, registry, bounds
<1>3. CASE AKInv
  <2>1. AKInv'
    BY <1>1, <1>3 DEF AKInv, AKTypeOK, UsersDue, GroupsDue, Overdue, Present, Before
  <2> QED BY <1>2, <2>1 DEF IInv
<1>4. CASE LDInv
  <2>1. GroupsFound' = GroupsFound
    BY <1>1 DEF GroupsFound
  <2>2. LDInv'
    BY <1>1, <1>4, <2>1 DEF LDInv, LDTypeOK
  <2> QED BY <1>2, <2>2 DEF IInv
<1>5. CASE STInv
  <2>1. STInv'
    BY <1>1, <1>5 DEF STInv, STTypeOK, StoreInv, Seen
  <2> QED BY <1>2, <2>1 DEF IInv
<1> QED BY <1>3, <1>4, <1>5 DEF IInv

LEMMA StepFacts == IInv /\ [Next]_vars => IInv' /\ [Keeps]_STvars
<1> SUFFICES ASSUME IInv, [Next]_vars PROVE IInv' /\ [Keeps]_STvars
  OBVIOUS
<1>1. CASE OfStore(STNext)
  BY <1>1, Parts, STStep DEF IInv, OfStore
<1>2. CASE OfAuthentik(AKNext)
  <2>1. AKInv' /\ phase' # "up"
    <3>1. AKInv
      BY <1>2, Parts DEF IInv, OfAuthentik
    <3>2. AKInv'
      BY <1>2, <3>1, AKStep DEF OfAuthentik
    <3> QED BY <3>2 DEF AKInv, AKTypeOK
  <2> QED BY <2>1 DEF IInv, Keeps
<1>3. CASE OfLDAP(LDNext)
  <2>1. LDInv' /\ phase' # "up"
    <3>1. LDInv
      BY <1>3, Parts DEF IInv, OfLDAP
    <3>2. LDInv'
      BY <1>3, <3>1, LDStep DEF OfLDAP
    <3> QED BY <3>2 DEF LDInv, LDTypeOK
  <2> QED BY <2>1 DEF IInv, Keeps
<1>4. CASE UNCHANGED vars
  BY <1>4, Stutter
<1> QED BY <1>1, <1>2, <1>3, <1>4 DEF Next

LEMMA InitFacts == Init => IInv
BY STStart, AKStart, LDStart DEF Init, IInv

LEMMA Invariant == Spec => []IInv
BY InitFacts, StepFacts, PTL DEF Spec

-----------------------------------------------------------------------------
\* Every variable keeps its type, and no manifest is read twice from one file: a reader
\* that has opened a file does not come back to it.
THEOREM TypeCorrect == Spec => []TypeOK
<1>1. IInv => TypeOK
  BY DEF IInv, AKInv, LDInv, STInv, TypeOK
<1> QED BY <1>1, Invariant, PTL

\* A reload of the Manager does not remove a source or a target whose manifest lay in
\* one file all the time, whatever is edited, broken, renamed or fails meanwhile
\* (manager.go: reloadFromStore; file.go: load).
THEOREM DeclaredKept == Spec => KeepsDeclared
<1>1. Spec => [][Keeps]_STvars
  BY Invariant, StepFacts, PTL DEF Spec
<1> QED BY <1>1 DEF KeepsDeclared, Keeps

\* A fetch from Authentik that returns without an error leaves out nobody who was there
\* from its beginning to its end, unless another user was removed from an earlier page
\* or, in a partial fetch, the request for this one failed, for pages of any size and any
\* edits between two requests (authentik/client.go: GetIdentities; partial.go: GetIdentitiesByUIDs).
THEOREM NobodyIsOverlooked == Spec => []NobodyOverlooked
<1>1. IInv => NobodyOverlooked
  <2> SUFFICES ASSUME IInv, part = "authentik", outcome = "ok",
                      NEW u \in (IF partial THEN uids \cap Users ELSE Users),
                      users[u] # None, u \notin usersGone \cup usersNew, identities[u] = None
               PROVE  IF partial THEN <<"user", u>> \in logged ELSE \E v \in usersGone : v < u
    BY DEF NobodyOverlooked
  <2>1. AKInv
    BY Parts DEF IInv
  <2>2. phase = "done" /\ u \in Users /\ Overdue(u) /\ (partial => u \in uids)
    BY <2>1 DEF AKInv, AKTypeOK, Overdue
  <2> QED BY <2>1, <2>2 DEF AKInv, UsersDue
<1> QED BY <1>1, Invariant, PTL

\* Such a fetch brings the groups of every identity that it brings, but for those that were
\* removed while it ran or, in a partial fetch, could not be retrieved
\* (client.go: GetGroups; partial.go: GetGroupsByGIDs; reconciler.go: additionalGIDs).
THEOREM GroupsAreFetched == Spec => []GroupsFollow
<1>1. IInv => GroupsFollow
  <2> SUFFICES ASSUME IInv, part = "authentik", outcome = "ok",
                      NEW u \in Users, identities[u] # None, NEW g \in identities[u] \ groups
               PROVE  IF partial THEN <<"group", g>> \in logged \/ g \in groupsGone
                      ELSE \E h \in groupsGone : h <= g
    BY DEF GroupsFollow
  <2>1. AKInv
    BY Parts DEF IInv
  <2>2. phase = "done"
    BY <2>1 DEF AKInv
  <2> QED BY <2>1, <2>2 DEF AKInv, GroupsDue
<1> QED BY <1>1, Invariant, PTL

\* The parents that GetGroups of an LDAP source adds come from the members of a group, and a
\* group with groups among its members is a parent of one of them, for any directory and any
\* order of entries and maps (ldap/client.go: resolveParents).
THEOREM NestingResolved == Spec => []NestedGroups
<1>1. IInv => NestedGroups
  <2>1. AKInv \/ STInv => NestedGroups
    BY Parts DEF NestedGroups
  <2>2. LDInv => NestedGroups
    BY LDNested DEF NestedGroups
  <2> QED BY <2>1, <2>2 DEF IInv
<1> QED BY <1>1, Invariant, PTL
================================================================================
