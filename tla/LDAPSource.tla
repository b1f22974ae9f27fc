------------------------------- MODULE LDAPSource -------------------------------
(***************************************************************************)
(* The LDAP source (source/ldap) over many fetches: its one connection,    *)
(* the keys of what it found, and the nesting of groups.  A search returns *)
(* its entries in an order of the server, with the attributes that the     *)
(* configuration asks for: without "member" in groupAttributes, which is   *)
(* not added to it (config.go:24-31), no group has members.  The directory *)
(* stays as it is.                                                         *)
(*                                                                         *)
(* The interface Source has Connect besides Initialize.  The Manager calls *)
(* Initialize when it adds a source and Connect never (manager.go:240-292),*)
(* nor does any other code: run by the Manager, every fetch of this source *)
(* fails.  Connects says whether the user of the source calls it, once; it *)
(* is there so that the searches and the nesting can be looked at.         *)
(***************************************************************************)
EXTENDS InputBase, Sequences, FiniteSetsExt

CONSTANTS
  Connects,      \* FALSE for the Manager
  Texts,         \* what uid, cn, mail and gidNumber may be
  Directories    \* bound: the directories considered

Person    == [uid : {None} \cup Texts, cn : {None} \cup Texts, mail : {None} \cup Texts]
\* Members and parents are the names that extractCNFromDN takes out of a DN.
GroupData == [gid : {None} \cup Texts, name : Texts, members : Seq(Texts), parents : SUBSET Texts]

ASSUME LDAPInput ==
  /\ Connects \in BOOLEAN /\ None \notin Texts
  /\ \A d \in Directories : d.people \in Seq(Person) /\ d.grps \in Seq(GroupData)

VARIABLES
  directory,             \* the service
  conn                   \* "nil", "open" or "lost"

\* phase is "connect", "identities" or "groups", the call that is next, or "over"; what
\* was fetched is by key.
still  == <<part, edits, directory>>
LDvars == <<still, conn, phase, fetched, faults>>

\* Every variable keeps its type; keys are texts, or None for an entry without any.
LDTypeOK ==
  /\ part = "ldap" /\ edits = 0 /\ directory \in Directories
  /\ conn \in {"nil", "open", "lost"} /\ phase \in {"connect", "identities", "groups", "over"}
  /\ DOMAIN identities \subseteq {None} \cup Texts
  /\ \A k \in DOMAIN identities : identities[k] \in Person
  /\ DOMAIN groups \subseteq Texts /\ \A k \in DOMAIN groups : groups[k] \in GroupData
  /\ outcome \in {"none", "ok", "error"} /\ faults \in 0..MaxFaults
  /\ outcome # "none" <=> phase = "over"

LDInit ==
  /\ part = "ldap" /\ edits = 0 /\ directory \in Directories
  /\ conn = "nil" /\ phase = IF Connects THEN "connect" ELSE "identities"
  /\ identities = << >> /\ groups = << >> /\ outcome = "none" /\ faults = 0

-----------------------------------------------------------------------------
\* identityKey and groupKey
PersonKey(p) == IF p.uid # None THEN p.uid ELSE IF p.cn # None THEN p.cn ELSE p.mail
GroupKey(g) == IF g.gid # None THEN g.gid ELSE g.name

\* A map filled in the order of the response, from the keys of its entries: the last
\* entry of a key stays.
ByKey(entries, keys) ==
  [k \in {keys[i] : i \in DOMAIN entries} |->
     entries[Max({i \in DOMAIN entries : keys[i] = k})]]
PeopleFound ==
  LET E == directory.people IN ByKey(E, [i \in DOMAIN E |-> PersonKey(E[i])])
GroupsFound ==
  LET E == directory.grps IN ByKey(E, [i \in DOMAIN E |-> GroupKey(E[i])])

\* resolveParents: a group becomes a parent of the first group among its members.  The
\* others are passed over, since "seen" holds the key of the parent (client.go:190).
GroupNames(G) == {G[k].name : k \in DOMAIN G}
Child_FirstMember(G, k) == IF G[k].members = << >> THEN None ELSE G[k].members[1]
Child(G, k) ==
  LET nested == {i \in DOMAIN G[k].members : G[k].members[i] \in GroupNames(G)}
  IN IF nested = {} THEN None ELSE G[k].members[Min(nested)]

\* nameToKey: of two groups with one name the range over the map picks any.
Resolved(G) ==
  {[k \in DOMAIN G |->
      [G[k] EXCEPT !.parents = @ \cup
         {G[p].name : p \in {q \in DOMAIN G : Child(G, q) = G[k].name /\ nameToKey[G[k].name] = k}}]] :
     nameToKey \in {f \in [GroupNames(G) -> DOMAIN G] : \A n \in GroupNames(G) : G[f[n]].name = n}}

-----------------------------------------------------------------------------
Connect ==
  /\ phase = "connect"
  /\ \/ conn' = "open" /\ phase' = "identities" /\ UNCHANGED <<outcome, faults>>
     \/ Fault /\ phase' = "over" /\ outcome' = "error" /\ UNCHANGED conn
  /\ UNCHANGED <<still, identities, groups>>

Fails ==
  /\ Fault \/ (conn # "open" /\ UNCHANGED faults)
  /\ phase' = "over" /\ outcome' = "error"
  /\ UNCHANGED <<still, conn, identities, groups>>

GetIdentities ==
  /\ phase = "identities"
  /\ \/ /\ conn = "open"
        /\ identities' = PeopleFound
        /\ phase' = "groups"
        /\ UNCHANGED <<still, conn, groups, outcome, faults>>
     \/ Fails

GetGroups ==
  /\ phase = "groups"
  /\ \/ /\ conn = "open"
        /\ groups' \in Resolved(GroupsFound)
        /\ phase' = "over" /\ outcome' = "ok"
        /\ UNCHANGED <<still, conn, identities, faults>>
     \/ Fails

\* The server or the network ends the connection; nobody makes another one.
Lose ==
  /\ conn = "open" /\ conn' = "lost"
  /\ UNCHANGED <<still, phase, identities, groups, outcome, faults>>

\* The next fetch, a tick later.
FetchAgain ==
  /\ phase = "over"
  /\ phase' = "identities" /\ outcome' = "none" /\ identities' = << >> /\ groups' = << >>
  /\ UNCHANGED <<still, conn, faults>>

LDFetch == Connect \/ GetIdentities \/ GetGroups \/ FetchAgain
LDNext == LDFetch \/ Lose

-----------------------------------------------------------------------------
\* The parents that GetGroups adds: whatever the order of the maps and of the entries,
\* a group is a parent of a group that it has as a member, and one with groups among
\* its members is a parent of at least one group of that name.  Members are those that
\* the search returned.
NestedGroups ==
  part = "ldap" /\ outcome = "ok" =>
    LET G == GroupsFound IN
    /\ DOMAIN groups = DOMAIN G
    /\ \A c \in DOMAIN G : \A p \in groups[c].parents \ G[c].parents :
         \E q \in DOMAIN G : G[q].name = p /\ \E i \in DOMAIN G[q].members : G[q].members[i] = G[c].name
    /\ \A q \in DOMAIN G : (\E i \in DOMAIN G[q].members : G[q].members[i] \in GroupNames(G)) =>
         \E c \in DOMAIN G : G[q].name \in groups[c].parents
===============================================================================
