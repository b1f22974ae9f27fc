------------------------------- MODULE MCWebhook ------------------------------
(***************************************************************************)
(* Small instances of Webhook for TLC.                                     *)
(***************************************************************************)
EXTENDS Webhook, TLC

CONSTANTS s1, s2, t1, t2, t3

\* A source that feeds two targets, alone or beside one with its own target.
Fanout     == s1 :> {t1, t2}
TwoSources == (s1 :> {t1, t2}) @@ (s2 :> {t3})
===============================================================================
