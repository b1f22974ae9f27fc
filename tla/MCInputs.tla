-------------------------------- MODULE MCInputs --------------------------------
(***************************************************************************)
(* Small inputs.  Store: three files for two sources and one target, which *)
(* may move from one source to the other, be in two files at once or in    *)
(* none.  Authentik: up to three users on pages of one, two groups.  LDAP: *)
(* two people and three groups in every nesting, with cycles, two groups   *)
(* of one name, and members that are not groups.                           *)
(***************************************************************************)
EXTENDS Inputs

CONSTANTS s1, s2, t1, a, b, c

Of1 == [kind |-> "target", name |-> t1, src |-> s1, ver |-> 0]
Of2 == [kind |-> "target", name |-> t1, src |-> s2, ver |-> 1]
Source(s) == [kind |-> "source", name |-> s]

SmallManifests == {Source(s1), Source(s2), Of1, Of2}
SmallFiles == {<<Source(s1), Of1, r>> : r \in {Source(s2), Of2}}

SmallServices ==
  {[users |-> us, grps |-> {1, 2}] :
     us \in {<<{1}, {2}, {1, 2}>>, <<{1, 2}, None, {2}>>, <<None, {1}, None>>, <<{}, {2}, None>>}}
  \cup {[users |-> <<{2}, {2}, {}>>, grps |-> {2}], [users |-> <<None, None, None>>, grps |-> {}]}
SmallRequests ==
  {[uids |-> {1, 3}, gids |-> {}], [uids |-> {2, NoUid}, gids |-> {1}], [uids |-> {}, gids |-> {1, 2}],
   [uids |-> {1}, gids |-> {2}]}

\* A uid may be the name of somebody else.
People == {<<p, q>> :
  p \in {[uid |-> a, cn |-> b, mail |-> c], [uid |-> None, cn |-> a, mail |-> c]},
  q \in {[uid |-> b, cn |-> b, mail |-> c], [uid |-> None, cn |-> None, mail |-> a],
         [uid |-> None, cn |-> None, mail |-> None]}}

Lists == {<< >>, <<a>>, <<b>>, <<a, b>>, <<b, a>>, <<c, a>>, <<c>>}
Nested ==
  {<<[gid |-> g, name |-> a, members |-> l1, parents |-> {}],
     [gid |-> h, name |-> n, members |-> l2, parents |-> P]>> :
     g \in {None, b}, h \in {None, c}, n \in {a, b}, l1 \in Lists, l2 \in Lists, P \in {{}, {a}}}

SmallDirectories ==
  {[people |-> p, grps |-> << >>] : p \in People}
  \cup {[people |-> <<[uid |-> a, cn |-> b, mail |-> c]>>, grps |-> g] : g \in Nested}
  \cup {[people |-> << >>,
         grps |-> <<[gid |-> None, name |-> a, members |-> <<b, c>>, parents |-> {}],
                    [gid |-> None, name |-> b, members |-> <<c, a>>, parents |-> {c}],
                    [gid |-> None, name |-> c, members |-> l, parents |-> {}]>>] : l \in Lists}
=================================================================================
