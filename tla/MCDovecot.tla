------------------------------- MODULE MCDovecot -------------------------------
(***************************************************************************)
(* A small instance of Dovecot: two users, a mailbox named by its key and  *)
(* one that only a pattern reaches.                                        *)
(***************************************************************************)
EXTENDS Dovecot, TLC

CONSTANTS alice, bob, inbox, sent, pattern, lookup, post

Item(k, r) == [key |-> k, rights |-> r]

SmallMatches == (pattern :> {inbox, sent})

\* No items; rights merged from an item and a pattern; default rights.
SmallAttributes ==
  { <<>>,
    <<Item(pattern, {})>>,
    <<Item(inbox, {post}), Item(pattern, {lookup})>> }

\* Nobody has an entry on "sent"; on "inbox" a user may have too much, too little
\* or what is due, and anyone may be let in.
SmallACLs ==
  LET Grant(a, b, any) == (alice :> a) @@ (bob :> b) @@ (Anyone :> any)
  IN { (inbox :> Grant(a, b, any)) @@ (sent :> Grant(None, None, None)) :
         a \in {None, {post}, {lookup, post}}, b \in {None, {lookup}},
         any \in {None, {lookup}} }

Config(r, d, n) == [removeAnyone |-> r, dryRun |-> d, concurrency |-> n]
SmallConfigs ==
  {Config(TRUE, FALSE, 1), Config(TRUE, FALSE, 2), Config(FALSE, FALSE, 1), Config(TRUE, TRUE, 1)}
=============================================================================
