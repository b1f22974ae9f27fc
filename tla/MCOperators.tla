----------------------------- MODULE MCOperators -------------------------------
(***************************************************************************)
(* A small instance of Operators: the first identity meets every case of   *)
(* its driver, the second is there to interleave, and to share its name.   *)
(***************************************************************************)
EXTENDS Operators

CONSTANTS u1, u2, n1, n2, v1, v2, g1, g2, h1, h2

Plain == [off |-> "no", value |-> v1, groups |-> {g1}, home |-> h1, email |-> TRUE, status |-> "none"]
OffByAttribute == [Plain EXCEPT !.off = "attribute"]
OffByIdentity  == [Plain EXCEPT !.off = "identity"]
Unset   == [Plain EXCEPT !.value = None, !.groups = None]
ADWants == {OffByAttribute, Unset, [Plain EXCEPT !.home = h2], [Plain EXCEPT !.home = None]}
IRWants == {OffByAttribute, Unset, [Plain EXCEPT !.email = FALSE],
            [Plain EXCEPT !.status = "false"], [Plain EXCEPT !.status = "true", !.groups = {g2}]}
LDWants == {Unset}
SmallWants == {Plain, OffByIdentity} \cup ADWants \cup IRWants \cup LDWants

Settled == [active |-> TRUE, value |-> v1, groups |-> {g1}, home |-> h1]
Other   == [active |-> FALSE, value |-> v2, groups |-> {g2}, home |-> h1]
SmallStarts == {Missing, Settled, Other, [Settled EXCEPT !.groups = {g1, g2}]}

\* The two calls of the Active Directory and LDAP operators are the same.
SmallInit ==
  /\ OpInit
  /\ partial => driver = "iredadmin"
  /\ dryRun => driver = "ldap" \/ concurrency = MaxConcurrency
  /\ want[u1] \in {Plain, OffByIdentity} \cup
       CASE driver = "ad" -> ADWants [] driver = "iredadmin" -> IRWants [] driver = "ldap" -> LDWants
  /\ want[u2] \in {Plain, OffByIdentity}
  /\ name[u1] = n1
  /\ accounts[n2] \in IF name[u2] = n1 THEN {Missing} ELSE {Settled, Other}

SmallSpec == SmallInit /\ [][OpNext]_vars /\ WF_vars(driver = "iredadmin" /\ IRNext)
===============================================================================
