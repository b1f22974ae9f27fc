------------------------------- MODULE InputBase -------------------------------
(***************************************************************************)
(* What the models of the inputs of the core share: the files of manifests *)
(* (Store) and the sources of identities (AuthentikSource, LDAPSource).    *)
(* They have no state in common in the code; "part" says which of them a   *)
(* behaviour of Inputs is about.                                           *)
(***************************************************************************)
EXTENDS Naturals

CONSTANTS
  None,        \* what is not there: a manifest, a user, an attribute
  MaxFaults    \* bound: calls that fail

ASSUME InputBounds == MaxFaults \in Nat

VARIABLES
  part,        \* "store", "authentik" or "ldap"
  phase,       \* of the process (store) or of the fetch
  identities, groups, outcome,   \* what a fetch returned: outcome is "none", "ok" or "error"
  edits, faults

fetched == <<identities, groups, outcome>>

Fault == faults < MaxFaults /\ faults' = faults + 1
================================================================================
