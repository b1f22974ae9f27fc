----------------------------- MODULE SyncContract -----------------------------
(***************************************************************************)
(* What reconcileTarget counts on when it calls Sync or PartialSync of an  *)
(* operator (operator/interface.go): until the call returns it may change  *)
(* the downstream, unless it is a dry run, and only adds to the audit;     *)
(* once it has returned, and the target's lock is about to be released,    *)
(* nothing of it is still at work.                                         *)
(***************************************************************************)
VARIABLES
  dryRun,
  downstream,   \* whatever the operator manages
  recorded,     \* the set of what the audit shows
  outcome       \* what the call returned: "none", "ok" or "error"

vars == <<dryRun, downstream, recorded, outcome>>

Init ==
  /\ recorded = {}
  /\ outcome = "none"

\* The call is at work: calls of the service, entries of the audit.
Work ==
  /\ outcome = "none"
  /\ dryRun => UNCHANGED downstream
  /\ recorded \subseteq recorded'
  /\ UNCHANGED <<dryRun, outcome>>

\* The call returns; what it failed to do is in the audit by now.
Return ==
  /\ outcome = "none"
  /\ outcome' \in {"ok", "error"}
  /\ recorded \subseteq recorded'
  /\ UNCHANGED <<dryRun, downstream>>

Next == Work \/ Return

Spec == Init /\ [][Next]_vars
===============================================================================
