--------------------------------- MODULE Inputs ---------------------------------
(***************************************************************************)
(* What the core is fed with: manifests from their files, and identities   *)
(* from a source, Authentik or LDAP, behind the interface Source.  They    *)
(* share no state, so a behaviour is about one of them.                    *)
(***************************************************************************)
EXTENDS Store, AuthentikSource, LDAPSource

storeOwn == <<mode, remote, dir, reload, target, reads, registry, restarts, steady>>
authentikOwn == <<users, grps, usersGone, groupsGone, usersNew, partial, uids, gids, page, todo, logged>>
ldapOwn == <<directory, conn>>

vars == <<part, phase, fetched, edits, faults, storeOwn, authentikOwn, ldapOwn>>

\* The variables of the parts that a behaviour is not about.
NoStore ==
  /\ mode = None /\ remote = None /\ dir = None /\ reload = None /\ target = None /\ pc = None
  /\ entries = None /\ found = None /\ activeSources = None /\ activeOperators = None
  /\ restarts = 0 /\ steady = None
NoAuthentik ==
  /\ users = None /\ grps = None /\ usersGone = None /\ groupsGone = None /\ usersNew = None
  /\ partial = None /\ uids = None /\ gids = None /\ page = None /\ todo = None /\ logged = None
NoLDAP == directory = None /\ conn = None

Init ==
  \/ STInit /\ NoAuthentik /\ NoLDAP
  \/ AKInit /\ NoStore /\ NoLDAP
  \/ LDInit /\ NoStore /\ NoAuthentik

OfStore(A) == part = "store" /\ A /\ UNCHANGED <<authentikOwn, ldapOwn>>
OfAuthentik(A) == part = "authentik" /\ A /\ UNCHANGED <<storeOwn, ldapOwn>>
OfLDAP(A) == part = "ldap" /\ A /\ UNCHANGED <<storeOwn, authentikOwn>>

Next == OfStore(STNext) \/ OfAuthentik(AKNext) \/ OfLDAP(LDNext)
Spec == Init /\ [][Next]_vars

\* The process starts, its ticker ticks, and among the tasks of the worker there is a batch
\* again and again: one is queued every sync period.  Nothing is assumed of the sources,
\* whose clients have no timeout.
FairSpec ==
  /\ Spec
  /\ WF_vars(OfStore(InitStore)) /\ WF_vars(OfStore(Ticker)) /\ WF_vars(OfStore(Worker))
  /\ SF_vars(OfStore(Refresh /\ target' = "all"))

-----------------------------------------------------------------------------
\* Every variable of the part that a behaviour is about keeps its type.
TypeOK == AKTypeOK \/ LDTypeOK \/ STTypeOK
=================================================================================
