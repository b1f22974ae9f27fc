----------------------------- MODULE MCReconciler -----------------------------
(***************************************************************************)
(* Small instances of Reconciler for TLC.                                  *)
(***************************************************************************)
EXTENDS Reconciler, TLC

CONSTANTS s1, s2, t1, t2, w1, w2

OneSource  == {s1}
TwoSources == {s1, s2}
OneTarget  == {t1}
TwoTargets == {t1, t2}
OneWorker  == {w1}
TwoWorkers == {w1, w2}
Nothing    == {}

\* The calls whose failure leaves the hash and what it stands for as they are.
Unaffected == Calls \ {"hash", "pipeline", "sync"}

\* Workers are interchangeable, and so are sources or targets alike in what they can.
LockSymmetry   == Permutations(Workers) \cup Permutations(Targets)
SourceSymmetry == Permutations(Sources)
===============================================================================
