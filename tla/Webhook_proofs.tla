---------------------------- MODULE Webhook_proofs ----------------------------
(***************************************************************************)
(* Proofs about Webhook, for every number of sources, targets, events and  *)
(* flush goroutines: each pending update is flushed by one timer only, and *)
(* none is left registered without a timer.                                *)
(***************************************************************************)
EXTENDS Webhook, TLAPS

USE WebhookSizes, WebhookTargets, WebhookNone DEF historyVars

\* Initially no update is registered, held or armed.
LEMMA InitIInv == Init => IInv
BY DEF Init, IInv, TypeOK, OneOwner, PendingIsFlushed, FlushedOnce, NoEvent, Idle, FlushAt

\* Actions that touch neither the updates nor who holds them.
LEMMA ElsewhereIInv ==
  ASSUME IInv, TypeOK', UNCHANGED <<pendingUpdates, allocated, items, armed, hand>>,
         \A f \in Flushers : /\ flusher'[f].object \in {flusher[f].object, None}
                             /\ flusher[f].at = "delete" => flusher'[f] = flusher[f]
  PROVE  IInv'
<1>1. OneOwner'
  BY DEF IInv, OneOwner
<1>2. PendingIsFlushed'
  BY DEF IInv, PendingIsFlushed
<1>3. FlushedOnce'
  BY DEF IInv, FlushedOnce
<1> QED
  BY <1>1, <1>2, <1>3 DEF IInv

\* A handler only adds to the webhook queue.
LEMMA ProcessWebhookIInv ==
  ASSUME IInv, NEW s \in Sources, NEW i \in Items, ProcessWebhook(s, i) PROVE IInv'
<1>1. [source |-> s, item |-> i] \in Event
  BY DEF Event
<1> DEFINE e == [source |-> s, item |-> i]
<1>2. webhookQueue' \in Seq(Event) /\ Len(webhookQueue') <= WebhookQueueSize
  <2>1. webhookQueue \in Seq(Event) /\ Len(webhookQueue) <= WebhookQueueSize /\ e \in Event
    BY <1>1 DEF IInv, TypeOK
  <2>2. \/ webhookQueue' = webhookQueue
        \/ Len(webhookQueue) < WebhookQueueSize /\ webhookQueue' = Append(webhookQueue, e)
    BY DEF ProcessWebhook
  <2> HIDE DEF e
  <2> QED
    BY <2>1, <2>2
<1>3. TypeOK'
  BY <1>1, <1>2 DEF IInv, TypeOK, ProcessWebhook
<1> QED
  BY <1>3, ElsewhereIInv DEF ProcessWebhook

\* A worker only takes from the task queue.
LEMMA ConsumeIInv == ASSUME IInv, Consume PROVE IInv'
<1>1. TypeOK'
  BY DEF IInv, TypeOK, Consume
<1> QED
  BY <1>1, ElsewhereIInv DEF Consume

\* The processor holds the update registered for the source of its event.
LEMMA ReceiveIInv == ASSUME IInv, Receive PROVE IInv'
<1> DEFINE e == Head(webhookQueue)
           s == e.source
<1>1. e \in Event /\ s \in Sources /\ hand.object = None /\ hand = NoEvent
  <2>1. webhookQueue \in Seq(Event) /\ webhookQueue # <<>> /\ hand = NoEvent
    BY DEF IInv, TypeOK, Receive
  <2>2. e \in Event
    BY <2>1
  <2> QED
    BY <2>1, <2>2 DEF Event, NoEvent
<1>2. CASE pendingUpdates[s] # None
  <2>1. /\ hand' = [event |-> e, object |-> pendingUpdates[s]]
        /\ webhookQueue' = Tail(webhookQueue) /\ webhookQueue # <<>>
        /\ UNCHANGED <<pendingUpdates, allocated>>
        /\ UNCHANGED <<posted, accepted, items, armed, flusher, queue, historyVars>>
    BY <1>2 DEF Receive
  <2>2. hand'.object = pendingUpdates[s] /\ hand'.object \in Objects
    BY <1>1, <1>2, <2>1 DEF IInv, TypeOK
  <2>3. TypeOK'
    BY <1>1, <2>1, <2>2 DEF IInv, TypeOK
  <2>4. OneOwner'
    BY <1>1, <2>1, <2>2 DEF IInv, OneOwner
  <2>5. PendingIsFlushed' /\ FlushedOnce'
    BY <1>1, <2>1, <2>2 DEF IInv, PendingIsFlushed, FlushedOnce
  <2> QED
    BY <2>3, <2>4, <2>5 DEF IInv
<1>3. CASE pendingUpdates[s] = None
  <2>1. PICK o \in Objects :
          /\ allocated[o] = None
          /\ allocated' = [allocated EXCEPT ![o] = s]
          /\ pendingUpdates' = [pendingUpdates EXCEPT ![s] = o]
          /\ hand' = [event |-> e, object |-> o]
          /\ webhookQueue' = Tail(webhookQueue) /\ webhookQueue # <<>>
          /\ UNCHANGED <<posted, accepted, items, armed, flusher, queue, historyVars>>
    BY <1>3 DEF Receive
  <2>2. TypeOK'
    BY <1>1, <2>1 DEF IInv, TypeOK
  <2>3. /\ pendingUpdates'[s] = o /\ \A r \in Sources : r # s => pendingUpdates'[r] = pendingUpdates[r]
        /\ allocated'[o] = s /\ \A p \in Objects : p # o => allocated'[p] = allocated[p]
        /\ hand'.object = o
    BY <1>1, <2>1 DEF IInv, TypeOK
  <2>4. OneOwner'
    BY <1>1, <2>1, <2>2, <2>3 DEF IInv, OneOwner, TypeOK
  <2>5. PendingIsFlushed' /\ FlushedOnce'
    BY <1>1, <2>1, <2>3 DEF IInv, PendingIsFlushed, FlushedOnce
  <2> QED
    BY <2>2, <2>4, <2>5 DEF IInv
<1> QED
  BY <1>2, <1>3

\* The processor arms the update it holds.
LEMMA AccumulateIInv == ASSUME IInv, Accumulate PROVE IInv'
<1> USE DEF Accumulate, Rearm
<1>1. hand.object \in Objects /\ hand.event \in Event /\ hand.event.item \in Items
  BY DEF IInv, TypeOK, Event
<1>2. TypeOK'
  BY <1>1 DEF IInv, TypeOK
<1>3. hand'.object = None
  BY DEF NoEvent
<1>4. OneOwner' /\ PendingIsFlushed' /\ FlushedOnce'
  BY <1>1, <1>3 DEF IInv, OneOwner, PendingIsFlushed, FlushedOnce
<1> QED
  BY <1>2, <1>4 DEF IInv

\* A timer that fires leaves a flush of its source.
LEMMA FireIInv ==
  ASSUME IInv, NEW f \in Flushers, NEW o \in Objects, Fire(o, f) PROVE IInv'
<1> DEFINE r == FlushAt("delete", allocated[o], None, {}, {})
<1>1. allocated[o] \in Sources
  BY DEF IInv, TypeOK, OneOwner, Fire
<1>2. r.at = "delete" /\ r.source = allocated[o] /\ r.object = None
  BY DEF FlushAt
<1>3. r \in Flush
  BY <1>1 DEF Flush, FlushAt
<1>4. /\ flusher'[f] = r /\ \A g \in Flushers : g # f => flusher'[g] = flusher[g]
      /\ flusher[f].object = None /\ flusher[f].at = "idle"
  BY DEF IInv, TypeOK, Fire, Idle, FlushAt
<1>5. TypeOK'
  BY <1>3 DEF IInv, TypeOK, Fire
<1>6. OneOwner'
  BY <1>2, <1>4 DEF IInv, OneOwner, Fire
<1>7. PendingIsFlushed'
  BY <1>2, <1>4 DEF IInv, OneOwner, PendingIsFlushed, Fire
<1>8. FlushedOnce'
  BY <1>2, <1>4 DEF IInv, FlushedOnce, Fire
<1> QED
  BY <1>5, <1>6, <1>7, <1>8 DEF IInv

\* A flush takes the update out of the map, and no other can.
LEMMA TakeIInv == ASSUME IInv, NEW f \in Flushers, Take(f) PROVE IInv'
<1> DEFINE s == flusher[f].source
           p == pendingUpdates[s]
           r == FlushAt("copy", s, p, {}, {})
<1>1. /\ flusher[f] \in Flush /\ flusher[f].at = "delete" /\ s \in Sources
  BY DEF IInv, TypeOK, Take, Idle, FlushAt, Flush
<1>2. /\ pendingUpdates' = [pendingUpdates EXCEPT ![s] = None]
      /\ flusher' = [flusher EXCEPT ![f] = IF p = None THEN Idle ELSE r]
      /\ UNCHANGED <<posted, accepted, webhookQueue, allocated, items, armed, hand, queue,
                     historyVars>>
  BY DEF Take, Remove
<1>3. p # None => r \in Flush
  BY <1>1 DEF IInv, TypeOK, Flush, FlushAt
<1>4. TypeOK'
  BY <1>1, <1>2, <1>3 DEF IInv, TypeOK
<1>5. /\ flusher'[f].object = p /\ flusher'[f].at \in {"idle", "copy"}
      /\ \A g \in Flushers : g # f => flusher'[g] = flusher[g]
      /\ pendingUpdates'[s] = None
      /\ \A q \in Sources : q # s => pendingUpdates'[q] = pendingUpdates[q]
  BY <1>1, <1>2 DEF IInv, TypeOK, Idle, FlushAt
<1>6. OneOwner'
  BY <1>1, <1>2, <1>5 DEF IInv, OneOwner, TypeOK
<1>7. PendingIsFlushed'
  BY <1>1, <1>2, <1>5 DEF IInv, PendingIsFlushed
<1>8. FlushedOnce'
  BY <1>1, <1>2, <1>5 DEF IInv, FlushedOnce, OneOwner
<1> QED
  BY <1>4, <1>6, <1>7, <1>8 DEF IInv

\* The rest of a flush only forgets the update it holds.
LEMMA CopyIInv == ASSUME IInv, NEW f \in Flushers, Copy(f) PROVE IInv'
<1> DEFINE uids == items[flusher[f].object]
           r == FlushAt("send", flusher[f].source, flusher[f].object, uids,
                        TargetsOf[flusher[f].source])
<1>1. /\ flusher[f] \in Flush /\ flusher[f].at = "copy" /\ flusher[f].source \in Sources
      /\ flusher[f].object \in Objects
  BY DEF IInv, TypeOK, Copy, Idle, FlushAt, Flush
<1>2. r \in Flush /\ r.object = flusher[f].object
  BY <1>1 DEF IInv, TypeOK, Flush, FlushAt
<1>3. flusher' = [flusher EXCEPT ![f] = IF uids = {} THEN Idle ELSE r]
  BY DEF Copy
<1>4. flusher' \in [Flushers -> Flush \cup {Idle}]
  BY <1>2, <1>3 DEF IInv, TypeOK
<1>5. TypeOK'
  BY <1>1, <1>4 DEF IInv, TypeOK, Copy
<1>6. \A g \in Flushers : /\ flusher'[g].object \in {flusher[g].object, None}
                          /\ flusher[g].at = "delete" => flusher'[g] = flusher[g]
  BY <1>1, <1>2, <1>3 DEF IInv, TypeOK, Idle, FlushAt
<1> QED
  BY <1>5, <1>6, ElsewhereIInv DEF Copy

\* Sending a task moves no update.
LEMMA SendIInv ==
  ASSUME IInv, NEW f \in Flushers, NEW t \in Targets, Send(f, t) PROVE IInv'
<1> DEFINE r == [flusher[f] EXCEPT !.left = @ \ {t}]
<1>1. /\ flusher[f] \in Flush /\ flusher[f].at = "send" /\ flusher[f].uids \subseteq Items
      /\ flusher[f].left \subseteq Targets
  BY DEF IInv, TypeOK, Send, Idle, FlushAt, Flush
<1>2. r \in Flush /\ r.object = flusher[f].object
  BY <1>1 DEF Flush
<1>3. flusher' = [flusher EXCEPT ![f] = r]
  BY <1>1 DEF Send, TargetsLeft, Flush
<1>4. flusher' \in [Flushers -> Flush \cup {Idle}]
  BY <1>2, <1>3 DEF IInv, TypeOK
<1>5. [target |-> t, uids |-> flusher[f].uids] \in [target : Targets, uids : SUBSET Items]
  BY <1>1
<1>6. queue' \in Seq([target : Targets, uids : SUBSET Items]) /\ Len(queue') <= QueueSize
  <2> DEFINE Sent == [target : Targets, uids : SUBSET Items]
             task == [target |-> t, uids |-> flusher[f].uids]
  <2>1. queue \in Seq(Sent) /\ Len(queue) <= QueueSize /\ task \in Sent
    BY <1>5 DEF IInv, TypeOK
  <2>2. \/ queue' = queue
        \/ Len(queue) < QueueSize /\ queue' = Append(queue, task)
    BY DEF Send, TaskRoom
  <2> HIDE DEF Sent, task
  <2>3. queue' \in Seq(Sent) /\ Len(queue') <= QueueSize
    BY <2>1, <2>2
  <2> QED
    BY <2>3 DEF Sent
<1>7. TypeOK'
  BY <1>1, <1>4, <1>6 DEF IInv, TypeOK, Send
<1>8. \A g \in Flushers : /\ flusher'[g].object \in {flusher[g].object, None}
                          /\ flusher[g].at = "delete" => flusher'[g] = flusher[g]
  BY <1>1, <1>2, <1>3 DEF IInv, TypeOK
<1> QED
  BY <1>7, <1>8, ElsewhereIInv DEF Send

\* A flush that ends forgets the update it held.
LEMMA EndFlushIInv == ASSUME IInv, NEW f \in Flushers, EndFlush(f) PROVE IInv'
<1>1. TypeOK'
  BY DEF IInv, TypeOK, EndFlush
<1>2. \A g \in Flushers : /\ flusher'[g].object \in {flusher[g].object, None}
                          /\ flusher[g].at = "delete" => flusher'[g] = flusher[g]
  BY DEF IInv, TypeOK, EndFlush, Idle, FlushAt
<1> QED
  BY <1>1, <1>2, ElsewhereIInv DEF EndFlush

\* IInv is inductive.
LEMMA NextIInv == IInv /\ [Next]_vars => IInv'
<1> SUFFICES ASSUME IInv, [Next]_vars PROVE IInv'
  OBVIOUS
<1>1. CASE UNCHANGED vars
  BY <1>1 DEF vars, IInv, TypeOK, OneOwner, PendingIsFlushed, FlushedOnce
<1> QED
  BY <1>1, ProcessWebhookIInv, ReceiveIInv, AccumulateIInv, ConsumeIInv, FireIInv, TakeIInv,
     CopyIInv, SendIInv, EndFlushIInv DEF Next, FlushStep

\* Every reachable state satisfies IInv.
THEOREM Invariance == Spec => []IInv
BY InitIInv, NextIInv, PTL DEF Spec

\* No pending update is sent by two flushes, however many timers fire at once.
THEOREM FlushedByOne == Spec => []FlushedOnce
<1>1. IInv => FlushedOnce
  BY DEF IInv
<1> QED
  BY <1>1, Invariance, PTL

\* No pending update stays registered without something that will flush it.
THEOREM PendingHasTimer == Spec => []PendingIsFlushed
<1>1. IInv => PendingIsFlushed
  BY DEF IInv
<1> QED
  BY <1>1, Invariance, PTL
===============================================================================
