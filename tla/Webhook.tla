------------------------------- MODULE Webhook --------------------------------
(***************************************************************************)
(* The webhook debouncer of the controller (webhook.go).  HTTP handlers    *)
(* put events on webhookQueue; webhookProcessor adds them to the pending   *)
(* update of their source and re-arms its timer; a timer that fires runs   *)
(* flushWebhookUpdates in a goroutine of its own, which takes the pending  *)
(* update out of the map, copies it and sends one partial task per target. *)
(*                                                                         *)
(* The map, the mutex of a pending update and the two channels are the     *)
(* only synchronisation; a step ends at each use of one of them.           *)
(***************************************************************************)
EXTENDS Naturals, Sequences, FiniteSets

CONSTANTS
  Sources,           \* sources that are WebhookCapable
  Targets,           \* active targets
  TargetsOf,         \* the targets whose manifest names each source
  Items,             \* UIDs and GIDs that events carry, each posted once
  WebhookQueueSize,  \* capacity of webhookQueue
  QueueSize,         \* capacity of the task queue
  Objects,           \* bound: *pendingUpdate objects ever allocated
  None,
  Flushers           \* bound: flush goroutines alive at once

ASSUME WebhookSizes == WebhookQueueSize \in Nat /\ QueueSize \in Nat
ASSUME WebhookTargets == TargetsOf \in [Sources -> SUBSET Targets]
ASSUME WebhookNone == None \notin Sources /\ None \notin Objects

VARIABLES
  posted,          \* items handlers tried to post
  accepted,        \* events whose handler answered "accepted"
  webhookQueue,
  pendingUpdates,  \* pendingWebhookUpdates: source -> object or None
  allocated,       \* objects in use, with their source
  items,           \* identities and groups of each object
  armed,           \* objects whose timer is running
  hand,            \* webhookProcessor: the event and the object it loaded
  flusher,         \* flush goroutines
  queue,           \* task queue: one partial task per target
  delivered,       \* history: items sent to each target
  dropped,         \* history: items a warning tells a target does not get, the queue being full
  copied,          \* history: objects whose sets a flush has copied
  late             \* history: events added to an object after that

historyVars == <<delivered, dropped, copied, late>>
vars == <<posted, accepted, webhookQueue, pendingUpdates, allocated, items, armed, hand,
          flusher, queue, historyVars>>

Event   == [source : Sources, item : Items]
NoEvent == [event |-> None, object |-> None]
FlushAt(step, s, o, uids, left) ==
  [at |-> step, source |-> s, object |-> o, uids |-> uids, left |-> left]
Idle    == FlushAt("idle", None, None, {}, {})
Flush   == [at : {"delete"}, source : Sources, object : {None}, uids : {{}}, left : {{}}]
             \cup [at : {"copy", "send"}, source : Sources, object : Objects,
                   uids : SUBSET Items, left : SUBSET Targets]

\* Every variable keeps its type and no channel exceeds its capacity.
TypeOK ==
  /\ posted \subseteq Items /\ accepted \subseteq Event
  /\ webhookQueue \in Seq(Event)
  /\ pendingUpdates \in [Sources -> Objects \cup {None}]
  /\ allocated \in [Objects -> Sources \cup {None}]
  /\ items \in [Objects -> SUBSET Items]
  /\ armed \subseteq Objects
  /\ hand \in [event : Event, object : Objects] \cup {NoEvent}
  /\ flusher \in [Flushers -> Flush \cup {Idle}]
  /\ queue \in Seq([target : Targets, uids : SUBSET Items])
  /\ Len(webhookQueue) <= WebhookQueueSize /\ Len(queue) <= QueueSize
  /\ delivered \in [Targets -> SUBSET Items] /\ dropped \in [Targets -> SUBSET Items]
  /\ copied \subseteq Objects /\ late \subseteq Event

Init ==
  /\ posted = {} /\ accepted = {}
  /\ webhookQueue = <<>>
  /\ pendingUpdates = [s \in Sources |-> None]
  /\ allocated = [o \in Objects |-> None]
  /\ items = [o \in Objects |-> {}]
  /\ armed = {}
  /\ hand = NoEvent
  /\ flusher = [f \in Flushers |-> Idle]
  /\ queue = <<>>
  /\ delivered = [t \in Targets |-> {}] /\ dropped = [t \in Targets |-> {}]
  /\ copied = {} /\ late = {}

-----------------------------------------------------------------------------
\* ProcessWebhook: a non-blocking send; the handler answers "accepted" or 500.
ProcessWebhook(s, i) ==
  /\ i \notin posted
  /\ posted' = posted \cup {i}
  /\ \/ /\ Len(webhookQueue) < WebhookQueueSize
        /\ webhookQueue' = Append(webhookQueue, [source |-> s, item |-> i])
        /\ accepted' = accepted \cup {[source |-> s, item |-> i]}
     \/ /\ Len(webhookQueue) >= WebhookQueueSize
        /\ UNCHANGED <<webhookQueue, accepted>>
  /\ UNCHANGED <<pendingUpdates, allocated, items, armed, hand, flusher, queue, historyVars>>

\* webhookProcessor receives an event; LoadOrCompute returns the pending update
\* of the source or allocates one.
Receive ==
  /\ hand = NoEvent /\ webhookQueue # <<>>
  /\ LET e == Head(webhookQueue)
         s == e.source
     IN /\ webhookQueue' = Tail(webhookQueue)
        /\ IF pendingUpdates[s] # None
             THEN /\ hand' = [event |-> e, object |-> pendingUpdates[s]]
                  /\ UNCHANGED <<pendingUpdates, allocated>>
             ELSE \E o \in Objects :
                    /\ allocated[o] = None
                    /\ allocated' = [allocated EXCEPT ![o] = s]
                    /\ pendingUpdates' = [pendingUpdates EXCEPT ![s] = o]
                    /\ hand' = [event |-> e, object |-> o]
  /\ UNCHANGED <<posted, accepted, items, armed, flusher, queue, historyVars>>

\* Under the mutex: the item is added and the timer is replaced.  Stop does
\* nothing to a timer that has fired already.
Rearm_StopOnly ==
  armed' = IF items[hand.object] = {} THEN armed \cup {hand.object} ELSE armed \ {hand.object}
Rearm == armed' = armed \cup {hand.object}

Accumulate ==
  /\ hand # NoEvent
  /\ items' = [items EXCEPT ![hand.object] = @ \cup {hand.event.item}]
  /\ Rearm
  /\ late' = IF hand.object \in copied THEN late \cup {hand.event} ELSE late
  /\ hand' = NoEvent
  /\ UNCHANGED <<posted, accepted, webhookQueue, pendingUpdates, allocated, flusher, queue,
                 delivered, dropped, copied>>

\* The debounce window of an object ends: AfterFunc runs a flush goroutine.
Fire(o, f) ==
  /\ o \in armed /\ flusher[f] = Idle
  /\ armed' = armed \ {o}
  /\ flusher' = [flusher EXCEPT ![f] = FlushAt("delete", allocated[o], None, {}, {})]
  /\ UNCHANGED <<posted, accepted, webhookQueue, pendingUpdates, allocated, items, hand, queue,
                 historyVars>>

\* pendingWebhookUpdates.LoadAndDelete(source)
Remove_Kept(s) == UNCHANGED pendingUpdates
Remove(s) == pendingUpdates' = [pendingUpdates EXCEPT ![s] = None]

Take(f) ==
  LET s == flusher[f].source
  IN /\ flusher[f].at = "delete"
     /\ Remove(s)
     /\ flusher' = [flusher EXCEPT ![f] =
          IF pendingUpdates[s] = None THEN Idle
          ELSE FlushAt("copy", s, pendingUpdates[s], {}, {})]
     /\ UNCHANGED <<posted, accepted, webhookQueue, allocated, items, armed, hand, queue,
                    historyVars>>

\* Under the mutex: the sets are copied.  An empty update sends nothing.
Copy(f) ==
  LET s == flusher[f].source
      uids == items[flusher[f].object]
  IN /\ flusher[f].at = "copy"
     /\ flusher' = [flusher EXCEPT ![f] =
          IF uids = {} THEN Idle
          ELSE FlushAt("send", s, flusher[f].object, uids, TargetsOf[s])]
     /\ copied' = copied \cup {flusher[f].object}
     /\ UNCHANGED <<posted, accepted, webhookQueue, pendingUpdates, allocated, items, armed,
                    hand, queue, delivered, dropped, late>>

\* One partial task per target; a full queue drops it with a warning and the loop goes
\* on with the other targets.
TaskRoom == Len(queue) < QueueSize
TargetsLeft_ReturnWhenFull(f, t) == IF TaskRoom THEN flusher[f].left \ {t} ELSE {}
TargetsLeft(f, t) == flusher[f].left \ {t}

Send(f, t) ==
  LET uids == flusher[f].uids
  IN /\ flusher[f].at = "send" /\ t \in flusher[f].left
     /\ \/ /\ TaskRoom
           /\ queue' = Append(queue, [target |-> t, uids |-> uids])
           /\ delivered' = [delivered EXCEPT ![t] = @ \cup uids]
           /\ UNCHANGED dropped
        \/ /\ ~TaskRoom
           /\ dropped' = [dropped EXCEPT ![t] = @ \cup uids]
           /\ UNCHANGED <<queue, delivered>>
     /\ flusher' = [flusher EXCEPT ![f].left = TargetsLeft(f, t)]
     /\ UNCHANGED <<posted, accepted, webhookQueue, pendingUpdates, allocated, items, armed,
                    hand, copied, late>>

EndFlush(f) ==
  /\ flusher[f].at = "send" /\ flusher[f].left = {}
  /\ flusher' = [flusher EXCEPT ![f] = Idle]
  /\ UNCHANGED <<posted, accepted, webhookQueue, pendingUpdates, allocated, items, armed, hand,
                 queue, historyVars>>

\* A worker takes a task; what it does with it is Reconciler's subject.
Consume ==
  /\ queue # <<>>
  /\ queue' = Tail(queue)
  /\ UNCHANGED <<posted, accepted, webhookQueue, pendingUpdates, allocated, items, armed, hand,
                 flusher, historyVars>>

FlushStep(f) == Take(f) \/ Copy(f) \/ (\E t \in Targets : Send(f, t)) \/ EndFlush(f)

Next ==
  \/ \E s \in Sources, i \in Items : ProcessWebhook(s, i)
  \/ Receive \/ Accumulate \/ Consume
  \/ \E f \in Flushers : FlushStep(f) \/ \E o \in Objects : Fire(o, f)

Spec == Init /\ [][Next]_vars

\* Goroutines run and timers fire; handlers and workers are not obliged to act.
Fairness ==
  /\ WF_vars(Receive \/ Accumulate)
  /\ \A f \in Flushers : WF_vars(FlushStep(f))
  /\ \A o \in Objects : WF_vars(\E f \in Flushers : Fire(o, f))

FairSpec == Spec /\ Fairness

-----------------------------------------------------------------------------
(***************************************************************************)
(* Properties.                                                             *)
(***************************************************************************)

\* Where an accepted event still is: on webhookQueue, in the hand of the
\* processor, in the registered pending update, or in a running flush.
Queued(e)   == \E k \in 1..Len(webhookQueue) : webhookQueue[k] = e
InHand(e)   == hand.event = e
Pending(e)  == pendingUpdates[e.source] # None /\ e.item \in items[pendingUpdates[e.source]]
Flushing(e) == \E f \in Flushers :
  \/ flusher[f].at = "copy" /\ e.item \in items[flusher[f].object]
  \/ flusher[f].at = "send" /\ e.item \in flusher[f].uids
Handled(e)  == \A t \in TargetsOf[e.source] : e.item \in delivered[t] \cup dropped[t]

\* An event the handler answered with "accepted" (api/handlers.go, line 149) is
\* never forgotten: until its tasks are sent some goroutine will still send them.
NoUpdateForgotten ==
  \A e \in accepted : Queued(e) \/ InHand(e) \/ Pending(e) \/ Flushing(e) \/ Handled(e)

\* A registered pending update always has a way out: its timer runs, the
\* processor is about to arm it, or a flush of its source is about to take it.
PendingIsFlushed ==
  \A s \in Sources : pendingUpdates[s] # None =>
    \/ pendingUpdates[s] \in armed
    \/ hand.object = pendingUpdates[s]
    \/ \E f \in Flushers : flusher[f].at = "delete" /\ flusher[f].source = s

\* LoadAndDelete gives each pending update to one flush: two timers that fire
\* together never send the same update twice.
FlushedOnce ==
  \A f, g \in Flushers :
    f # g /\ flusher[f].object # None => flusher[f].object # flusher[g].object

\* What both rest on: a registered update is the one its source allocated, a flush
\* holds an update that is registered no more, and only allocated updates are armed.
OneOwner ==
  /\ \A s \in Sources : pendingUpdates[s] # None => allocated[pendingUpdates[s]] = s
  /\ \A f \in Flushers : flusher[f].object # None =>
       /\ allocated[flusher[f].object] # None
       /\ \A s \in Sources : pendingUpdates[s] # flusher[f].object
  /\ hand.object # None => allocated[hand.object] # None
  /\ \A o \in armed : allocated[o] # None

IInv == TypeOK /\ OneOwner /\ PendingIsFlushed /\ FlushedOnce

\* Every event the handler answered with "accepted" is sent to each target of its source,
\* or a warning tells that the full queue dropped it, unless the processor added it to an
\* update that a flush had already copied: no step of a flush loses an event of its own.
AcceptedIsHandled == \A e \in Event : e \in accepted ~> Handled(e) \/ e \in late
===============================================================================
