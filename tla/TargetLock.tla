------------------------------ MODULE TargetLock ------------------------------
(***************************************************************************)
(* What the controller promises of every sync target: one holder at a      *)
(* time, the holder stays the same while Sync is running, and the target   *)
(* is free again only after Sync has returned.  Reconciler implements this *)
(* with the map reconcilingTargets and the goroutines that own its keys.   *)
(***************************************************************************)
CONSTANTS Agents, Targets, None

VARIABLES
  holder,   \* the agent reconciling each target, or None
  calling   \* targets whose Sync is running

lockVars == <<holder, calling>>

Init ==
  /\ holder = [t \in Targets |-> None]
  /\ calling = {}

Acquire(a, t) ==
  /\ holder[t] = None
  /\ holder' = [holder EXCEPT ![t] = a]
  /\ UNCHANGED calling

Call(t) ==
  /\ holder[t] # None /\ t \notin calling
  /\ calling' = calling \cup {t}
  /\ UNCHANGED holder

Return(t) ==
  /\ t \in calling
  /\ calling' = calling \ {t}
  /\ UNCHANGED holder

Release(t) ==
  /\ holder[t] # None /\ t \notin calling
  /\ holder' = [holder EXCEPT ![t] = None]
  /\ UNCHANGED calling

Next == \E t \in Targets :
  \/ \E a \in Agents : Acquire(a, t)
  \/ Call(t) \/ Return(t) \/ Release(t)

Spec == Init /\ [][Next]_lockVars
===============================================================================
