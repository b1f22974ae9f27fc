---------------------------- MODULE AuthentikSource ----------------------------
(***************************************************************************)
(* One call of getIdentitiesAndGroups for an Authentik source: the whole   *)
(* data, page by page, or what a webhook named, one by one.  The service   *)
(* goes on being edited between two requests.                              *)
(*                                                                         *)
(* Ids are numbers, and the service is assumed to list them in their order *)
(* (the requests ask for none, client.go:102,139): page p of a list holds  *)
(* the ids that have (p - 1) * PageSize to p * PageSize - 1 others before  *)
(* them.  With a listing by name a rename would move an entry between two  *)
(* pages as a removal does.  A user is the set of its groups.              *)
(***************************************************************************)
EXTENDS InputBase, FiniteSets

CONSTANTS
  MaxUser, MaxGroup,     \* bounds: the largest ids
  Services, Requests,    \* bounds: the data to start from, the partial fetches
  MaxEdits,              \* bound: edits of the service during a fetch
  PageSize,
  NoUid                  \* what a webhook without a primary key names

ASSUME SourceBounds == MaxUser \in Nat /\ MaxGroup \in Nat /\ MaxEdits \in Nat /\ PageSize \in Nat \ {0}
ASSUME SourceNames ==
  /\ \A G \in SUBSET (1..MaxGroup) : G # None
  /\ NoUid \notin Nat

Users  == 1..MaxUser
Groups == 1..MaxGroup

\* A user is in groups that there are.
ASSUME SourceInput ==
  /\ \A s \in Services :
       /\ s.users \in [Users -> {None} \cup SUBSET Groups] /\ s.grps \subseteq Groups
       /\ \A u \in Users : s.users[u] = None \/ s.users[u] \subseteq s.grps
  /\ \A r \in Requests : r.uids \subseteq Users \cup {NoUid} /\ r.gids \subseteq Groups

VARIABLES
  users, grps,                \* the service: the groups of each user, the groups there are
  partial, uids, gids,        \* the call: partialFetchOpts
  page,                       \* of the list that is being fetched
  todo,                       \* ids still to retrieve in a partial fetch
  usersGone, groupsGone,      \* history: removed since the call began,
  usersNew,                   \* created since then,
  logged                      \* and ids whose failed request is only in the log

\* What is in phase: "users", "groups" and "extra" are the loops, "done" is the end.
service == <<users, grps, edits, usersGone, groupsGone, usersNew>>
call    == <<part, partial, uids, gids>>
result  == <<identities, groups>>
AKvars  == <<service, call, phase, page, todo, result, outcome, faults, logged>>

Present == {u \in Users : users[u] # None}

\* Every variable keeps its type, and no page is asked for that the ids could not fill.
AKTypeOK ==
  /\ part = "authentik"
  /\ users \in [Users -> {None} \cup SUBSET Groups] /\ grps \subseteq Groups
  /\ partial \in BOOLEAN /\ uids \subseteq Users \cup {NoUid} /\ gids \subseteq Groups
  /\ phase \in {"users", "groups", "extra", "done"}
  /\ page \in 1..MaxUser \cup 1..MaxGroup \cup {1}
  /\ todo \subseteq Users \cup {NoUid} \cup Groups
  /\ identities \in [Users -> {None} \cup SUBSET Groups] /\ groups \subseteq Groups
  /\ outcome \in {"none", "ok", "error"}
  /\ edits \in 0..MaxEdits /\ faults \in 0..MaxFaults
  /\ usersGone \subseteq Users /\ groupsGone \subseteq Groups /\ usersNew \subseteq Users
  /\ logged \subseteq ({"user"} \X Users) \cup ({"group"} \X Groups)

AKInit ==
  /\ part = "authentik"
  /\ \E s \in Services : users = s.users /\ grps = s.grps
  /\ \/ partial = FALSE /\ uids = {} /\ gids = {}
     \/ partial = TRUE /\ \E r \in Requests : uids = r.uids /\ gids = r.gids
  /\ phase = "users" /\ page = 1 /\ todo = uids
  /\ identities = [u \in Users |-> None] /\ groups = {}
  /\ outcome = "none" /\ edits = 0 /\ faults = 0
  /\ usersGone = {} /\ groupsGone = {} /\ usersNew = {} /\ logged = {}

-----------------------------------------------------------------------------
\* The service is edited: a user is created or removed, a group is, or the groups of
\* a user change.
SaveUser ==
  /\ phase # "done" /\ edits < MaxEdits /\ edits' = edits + 1
  /\ \E u \in Users, G \in SUBSET grps :
       /\ users' = [users EXCEPT ![u] = G]
       /\ usersNew' = IF users[u] = None THEN usersNew \cup {u} ELSE usersNew
  /\ UNCHANGED <<grps, usersGone, groupsGone, call, phase, page, todo, result, outcome, faults,
                 logged>>

RemoveUser ==
  /\ phase # "done" /\ edits < MaxEdits /\ edits' = edits + 1
  /\ \E u \in Present :
       /\ users' = [users EXCEPT ![u] = None]
       /\ usersGone' = usersGone \cup {u}
  /\ UNCHANGED <<grps, usersNew, groupsGone, call, phase, page, todo, result, outcome, faults,
                 logged>>

CreateGroup ==
  /\ phase # "done" /\ edits < MaxEdits /\ edits' = edits + 1
  /\ \E g \in Groups \ grps : grps' = grps \cup {g}
  /\ UNCHANGED <<users, usersGone, usersNew, groupsGone, call, phase, page, todo, result, outcome,
                 faults, logged>>

RemoveGroup ==
  /\ phase # "done" /\ edits < MaxEdits /\ edits' = edits + 1
  /\ \E g \in grps :
       /\ grps' = grps \ {g}
       /\ users' = [u \in Users |-> IF users[u] = None THEN None ELSE users[u] \ {g}]
       /\ groupsGone' = groupsGone \cup {g}
  /\ UNCHANGED <<usersGone, usersNew, call, phase, page, todo, result, outcome, faults, logged>>

-----------------------------------------------------------------------------
\* The pages of a list of ids; there is always a first one.
Before(S, i) == Cardinality({j \in S : j < i})
OnPage(S, p) == {i \in S : (p - 1) * PageSize <= Before(S, i) /\ Before(S, i) < p * PageSize}
IsPage(S, p) == p = 1 \/ OnPage(S, p) # {}
NextPage(S, p) == IF OnPage(S, p + 1) # {} THEN p + 1 ELSE 0   \* Pagination.Next

Fail == phase' = "done" /\ outcome' = "error"

\* GetIdentities: the next page of users; a request that fails, or one for a page
\* that is there no more, ends the call.
ListUsers ==
  /\ ~partial /\ phase = "users"
  /\ \/ /\ IsPage(Present, page) /\ UNCHANGED <<faults, outcome>>
        /\ identities' = [u \in Users |->
             IF u \in OnPage(Present, page) THEN users[u] ELSE identities[u]]
        /\ IF NextPage(Present, page) > 0
           THEN page' = NextPage(Present, page) /\ UNCHANGED phase
           ELSE page' = 1 /\ phase' = "groups"
     \/ /\ Fault \/ (~IsPage(Present, page) /\ UNCHANGED faults)
        /\ Fail /\ UNCHANGED <<page, identities>>
  /\ UNCHANGED <<service, call, todo, groups, logged>>

\* GetGroups, the same for groups.
ListGroups ==
  /\ ~partial /\ phase = "groups"
  /\ \/ /\ IsPage(grps, page) /\ UNCHANGED faults
        /\ groups' = groups \cup OnPage(grps, page)
        /\ IF NextPage(grps, page) > 0
           THEN page' = NextPage(grps, page) /\ UNCHANGED <<phase, outcome>>
           ELSE phase' = "done" /\ outcome' = "ok" /\ UNCHANGED page
     \/ /\ Fault \/ (~IsPage(grps, page) /\ UNCHANGED faults)
        /\ Fail /\ UNCHANGED <<page, groups>>
  /\ UNCHANGED <<service, call, todo, identities, logged>>

\* The ids that follow: an id that is no number is passed over.
Left_Abandoned(i) == IF i = NoUid THEN {} ELSE todo \ {i}
Left(i) == todo \ {i}

\* GetIdentitiesByUIDs: an id that is no number, a user that is not there and a request
\* that fails are all left out with a line in the log.
RetrieveUser(u) ==
  /\ partial /\ phase = "users" /\ u \in todo
  /\ \/ /\ u \in Present
        /\ identities' = [identities EXCEPT ![u] = users[u]] /\ UNCHANGED <<faults, logged>>
     \/ /\ u \notin Present /\ UNCHANGED <<faults, logged, identities>>
     \/ /\ u # NoUid /\ Fault
        /\ logged' = logged \cup {<<"user", u>>} /\ UNCHANGED identities
  /\ todo' = Left(u)
  /\ UNCHANGED <<service, call, phase, page, groups, outcome>>

\* GetGroupsByGIDs, first for the groups that were asked for and then for those of the
\* identities that were not.
RetrieveGroup(g) ==
  /\ partial /\ phase \in {"groups", "extra"} /\ g \in todo
  /\ \/ /\ g \in grps
        /\ groups' = groups \cup {g} /\ UNCHANGED <<faults, logged>>
     \/ /\ g \notin grps /\ UNCHANGED <<faults, logged, groups>>
     \/ /\ Fault
        /\ logged' = logged \cup {<<"group", g>>} /\ UNCHANGED groups
  /\ todo' = Left(g)
  /\ UNCHANGED <<service, call, phase, page, identities, outcome>>

\* additionalGIDs
Fetched == {u \in Users : identities[u] # None}
Additional_Requested == (UNION {identities[u] : u \in Fetched}) \cap gids
Additional == (UNION {identities[u] : u \in Fetched}) \ groups

\* One of the three loops of a partial fetch has ended; the last never fails.
LoopEnds ==
  /\ partial /\ phase # "done" /\ todo = {}
  /\ \/ phase = "users" /\ phase' = "groups" /\ todo' = gids /\ UNCHANGED outcome
     \/ phase = "groups" /\ phase' = "extra" /\ todo' = Additional /\ UNCHANGED outcome
     \/ phase = "extra" /\ phase' = "done" /\ outcome' = "ok" /\ UNCHANGED todo
  /\ UNCHANGED <<service, call, page, result, faults, logged>>

AKFetch ==
  \/ ListUsers \/ ListGroups \/ LoopEnds
  \/ \E u \in Users \cup {NoUid} : RetrieveUser(u)
  \/ \E g \in Groups : RetrieveGroup(g)
AKEdit == SaveUser \/ RemoveUser \/ CreateGroup \/ RemoveGroup

AKNext == AKFetch \/ AKEdit

-----------------------------------------------------------------------------
\* A user that was there from the beginning to the end of the fetch is not left out,
\* or an operator would take its rights away.  The exceptions are the code's: a
\* user removed from an earlier page moves the others up by one, past the page
\* that was to come, and a partial fetch drops whatever it fails to retrieve.
NobodyOverlooked ==
  part = "authentik" /\ outcome = "ok" =>
    \A u \in (IF partial THEN uids \cap Users ELSE Users) :
      users[u] # None /\ u \notin usersGone \cup usersNew /\ identities[u] = None =>
        IF partial THEN <<"user", u>> \in logged ELSE \E v \in usersGone : v < u

\* The groups of the identities are fetched with them, unless they were removed or, in a
\* partial fetch, could not be retrieved: the transformers look them up.
GroupsFollow ==
  part = "authentik" /\ outcome = "ok" =>
    \A u \in Users : identities[u] # None =>
      \A g \in identities[u] \ groups :
        IF partial THEN <<"group", g>> \in logged \/ g \in groupsGone ELSE \E h \in groupsGone : h <= g
===============================================================================
