------------------------------ MODULE Lifecycle ------------------------------
(***************************************************************************)
(* Start and shutdown of the controller process: main, the HTTP handlers,  *)
(* Manager.Start with the goroutines its WaitGroup counts (workers, global *)
(* ticker, webhook processor), and the flush timers it does not count.     *)
(*                                                                         *)
(* All senders of the task queue use the same select: send, or leave when  *)
(* shutdownCtx is done, or give up by default.  Go chooses at random among *)
(* the ready cases, a send on a closed channel is ready, and choosing it   *)
(* panics.  What a task does is Reconciler's subject.                      *)
(***************************************************************************)
EXTENDS Naturals

CONSTANTS
  Workers,    \* worker goroutines
  Handlers,   \* HTTP requests served at once
  Timers,     \* debounce timers and the flush goroutines they start
  QueueSize,  \* capacity of the task queue
  MaxDue,     \* bound: batches one tick schedules
  MaxTicks,   \* bound: ticks
  MaxEvents   \* bound: webhook events that arm a timer

ASSUME LifecycleBounds ==
  QueueSize \in Nat /\ MaxDue \in Nat /\ MaxTicks \in Nat /\ MaxEvents \in Nat

VARIABLES
  process,    \* "running", "crashed" (panic), "failed" (logger.Fatal) or "exited"
  main,       \* "waiting" for the signal, "draining" in srv.Shutdown, "returned"
  cancelled,  \* the signal came: ctx and shutdownCtx are done
  start,      \* Manager.Start: "launching", "running", "closing", "waiting", "stopped"
  closed,     \* close(m.queue) was called
  queue,      \* number of tasks in the channel
  worker,     \* "new", "select", "executing" or "exited"
  ticker,     \* "new", "reload", "schedule", "select" or "exited"
  due,        \* batches the tick still has to send
  processor,  \* "select" or "exited"
  timer,      \* "off", "armed" or "flushing"
  handler,    \* "idle" or "serving"
  events, ticks

managerVars == <<start, closed, worker, ticker, due, processor, timer, events, ticks>>
vars == <<process, main, cancelled, queue, handler, managerVars>>

\* Every variable keeps its type and the task queue its capacity.
TypeOK ==
  /\ process \in {"running", "crashed", "failed", "exited"}
  /\ main \in {"waiting", "draining", "returned"}
  /\ cancelled \in BOOLEAN /\ closed \in BOOLEAN
  /\ start \in {"launching", "running", "closing", "waiting", "stopped"}
  /\ queue \in 0..QueueSize
  /\ worker \in [Workers -> {"new", "select", "executing", "exited"}]
  /\ ticker \in {"new", "reload", "schedule", "select", "exited"}
  /\ due \in 0..MaxDue
  /\ processor \in {"select", "exited"}
  /\ timer \in [Timers -> {"off", "armed", "flushing"}]
  /\ handler \in [Handlers -> {"idle", "serving"}]
  /\ events \in 0..MaxEvents /\ ticks \in 0..MaxTicks

\* NewManager has started the webhook processor; main has called go mgr.Start.
Init ==
  /\ process = "running" /\ main = "waiting" /\ cancelled = FALSE
  /\ start = "launching" /\ closed = FALSE /\ queue = 0
  /\ worker = [w \in Workers |-> "new"]
  /\ ticker = "new" /\ due = 0
  /\ processor = "select"
  /\ timer = [f \in Timers |-> "off"]
  /\ handler = [h \in Handlers |-> "idle"]
  /\ events = 0 /\ ticks = 0

-----------------------------------------------------------------------------
\* The select of the three senders.  A panic ends the process, except in an
\* HTTP handler, where net/http recovers it.
SendTask_Unbounded == ~closed /\ queue' = queue + 1
SendTask   == ~closed /\ queue < QueueSize /\ queue' = queue + 1
SendPanics == closed /\ UNCHANGED queue
SeesDone   == cancelled /\ UNCHANGED queue
GivesUp    == ~closed /\ queue >= QueueSize /\ ~cancelled /\ UNCHANGED queue

-----------------------------------------------------------------------------
\* main
Signal ==
  /\ ~cancelled /\ cancelled' = TRUE
  /\ UNCHANGED <<process, main, queue, handler, managerVars>>

BeginShutdown ==
  /\ main = "waiting" /\ cancelled
  /\ main' = "draining"
  /\ UNCHANGED <<process, cancelled, queue, handler, managerVars>>

\* srv.Shutdown returns when no request is served, or after 15 seconds; main
\* returns and the process ends with it.
Exit ==
  /\ main = "draining"
  /\ main' = "returned" /\ process' = "exited"
  /\ UNCHANGED <<cancelled, queue, handler, managerVars>>

\* ListenAndServe fails: logger.Fatal.
ServerFails ==
  /\ main = "waiting"
  /\ process' = "failed"
  /\ UNCHANGED <<main, cancelled, queue, handler, managerVars>>

\* HTTP handlers: a request may call TriggerReconciliation.
Accept(h) ==
  /\ main = "waiting" /\ handler[h] = "idle"
  /\ handler' = [handler EXCEPT ![h] = "serving"]
  /\ UNCHANGED <<process, main, cancelled, queue, managerVars>>

Answer(h) ==
  /\ handler[h] = "serving"
  /\ SendTask \/ SendPanics \/ SeesDone \/ GivesUp \/ UNCHANGED queue
  /\ handler' = [handler EXCEPT ![h] = "idle"]
  /\ UNCHANGED <<process, main, cancelled, managerVars>>

-----------------------------------------------------------------------------
\* Manager.Start
Launch ==
  /\ start = "launching"
  /\ start' = "running"
  /\ worker' = [w \in Workers |-> "select"]
  /\ ticker' = "reload"
  /\ UNCHANGED <<process, main, cancelled, queue, handler, closed, due, processor, timer,
                 events, ticks>>

SeeCancelled ==
  /\ start = "running" /\ cancelled
  /\ start' = "closing"
  /\ UNCHANGED <<process, main, cancelled, queue, handler, closed, worker, ticker, due,
                 processor, timer, events, ticks>>

CloseQueue_Never == UNCHANGED closed
CloseQueue == closed' = TRUE

Close ==
  /\ start = "closing"
  /\ CloseQueue
  /\ start' = "waiting"
  /\ UNCHANGED <<process, main, cancelled, queue, handler, worker, ticker, due, processor,
                 timer, events, ticks>>

\* wg.Wait: every goroutine added to the WaitGroup has called Done.
WaitGroupDone ==
  /\ ticker = "exited" /\ processor = "exited"
  /\ \A w \in Workers : worker[w] = "exited"

Stop ==
  /\ start = "waiting" /\ WaitGroupDone
  /\ start' = "stopped"
  /\ UNCHANGED <<process, main, cancelled, queue, handler, closed, worker, ticker, due,
                 processor, timer, events, ticks>>

-----------------------------------------------------------------------------
\* Workers: ctx.Done, a task, or a closed and empty queue.
SetWorker(w, at) ==
  /\ worker' = [worker EXCEPT ![w] = at]
  /\ UNCHANGED <<process, main, cancelled, handler, start, closed, ticker, due, processor,
                 timer, events, ticks>>

TakeTask(w) ==
  /\ worker[w] = "select" /\ queue > 0
  /\ queue' = queue - 1
  /\ SetWorker(w, "executing")

FinishTask(w) ==
  /\ worker[w] = "executing"
  /\ SetWorker(w, "select")
  /\ UNCHANGED queue

ExitWorker(w) ==
  /\ worker[w] = "select"
  /\ cancelled \/ (closed /\ queue = 0)
  /\ SetWorker(w, "exited")
  /\ UNCHANGED queue

-----------------------------------------------------------------------------
\* globalTicker
SetTicker(at) ==
  /\ ticker' = at
  /\ UNCHANGED <<main, cancelled, handler, start, closed, worker, processor, timer, events>>

Reload ==
  /\ ticker = "reload"
  /\ SetTicker("schedule")
  /\ due' \in 0..MaxDue
  /\ UNCHANGED <<process, queue, ticks>>

ScheduleOne ==
  /\ ticker = "schedule" /\ due > 0
  /\ \/ (SendTask \/ GivesUp) /\ due' = due - 1 /\ SetTicker("schedule") /\ UNCHANGED process
     \/ SeesDone /\ due' = 0 /\ SetTicker("schedule") /\ UNCHANGED process
     \/ SendPanics /\ process' = "crashed" /\ SetTicker("schedule") /\ UNCHANGED due
  /\ UNCHANGED ticks

EndSchedule ==
  /\ ticker = "schedule" /\ due = 0
  /\ SetTicker("select")
  /\ UNCHANGED <<process, queue, due, ticks>>

TickAgain ==
  /\ ticker = "select" /\ ticks < MaxTicks
  /\ ticks' = ticks + 1
  /\ SetTicker("reload")
  /\ UNCHANGED <<process, queue, due>>

ExitTicker ==
  /\ ticker = "select" /\ cancelled
  /\ SetTicker("exited")
  /\ UNCHANGED <<process, queue, due, ticks>>

-----------------------------------------------------------------------------
\* webhookProcessor and the timers it arms
ArmTimer(f) ==
  /\ processor = "select" /\ timer[f] = "off" /\ events < MaxEvents
  /\ events' = events + 1
  /\ timer' = [timer EXCEPT ![f] = "armed"]
  /\ UNCHANGED <<process, main, cancelled, queue, handler, start, closed, worker, ticker, due,
                 processor, ticks>>

ExitProcessor ==
  /\ processor = "select" /\ cancelled
  /\ processor' = "exited"
  /\ UNCHANGED <<process, main, cancelled, queue, handler, start, closed, worker, ticker, due,
                 timer, events, ticks>>

SetTimer(f, at) ==
  /\ timer' = [timer EXCEPT ![f] = at]
  /\ UNCHANGED <<main, cancelled, handler, start, closed, worker, ticker, due, processor,
                 events, ticks>>

Fire(f) ==
  /\ timer[f] = "armed"
  /\ SetTimer(f, "flushing")
  /\ UNCHANGED <<process, queue>>

\* One target of the loop of flushWebhookUpdates.
FlushOne(f) ==
  /\ timer[f] = "flushing"
  /\ \/ (SendTask \/ GivesUp) /\ SetTimer(f, "flushing") /\ UNCHANGED process
     \/ SeesDone /\ SetTimer(f, "off") /\ UNCHANGED process
     \/ SendPanics /\ process' = "crashed" /\ SetTimer(f, "flushing")

EndFlush(f) ==
  /\ timer[f] = "flushing"
  /\ SetTimer(f, "off")
  /\ UNCHANGED <<process, queue>>

-----------------------------------------------------------------------------
MainStep == BeginShutdown \/ Exit
StartStep == Launch \/ SeeCancelled \/ Close \/ Stop
WorkerStep(w) == TakeTask(w) \/ FinishTask(w) \/ ExitWorker(w)
TickerStep == Reload \/ ScheduleOne \/ EndSchedule \/ TickAgain \/ ExitTicker
TimerStep(f) == Fire(f) \/ FlushOne(f) \/ EndFlush(f)
ManagerStep == \/ StartStep \/ TickerStep \/ ExitProcessor
               \/ \E w \in Workers : WorkerStep(w)
               \/ \E f \in Timers : ArmTimer(f) \/ TimerStep(f)

Next ==
  /\ process = "running"
  /\ \/ MainStep \/ Signal \/ ServerFails \/ ManagerStep
     \/ \E h \in Handlers : Accept(h) \/ Answer(h)

Spec == Init /\ [][Next]_vars

Running(A) == process = "running" /\ A

\* Each goroutine of the WaitGroup is scheduled, and every task and reload ends.
\* Nothing is assumed of main, of signals, of requests and of timers.
ManagerFairness ==
  /\ WF_vars(Running(StartStep)) /\ WF_vars(Running(TickerStep))
  /\ WF_vars(Running(ExitProcessor))
  /\ \A w \in Workers : WF_vars(Running(WorkerStep(w)))

FairSpec == Spec /\ ManagerFairness

-----------------------------------------------------------------------------
(***************************************************************************)
(* Properties.                                                             *)
(***************************************************************************)

\* Shutdown never hangs in wg.Wait: whatever is queued and whoever still sends,
\* Start returns unless the process ends first.
ManagerStops == cancelled ~> start = "stopped" \/ process # "running"

\* manager.go, line 543: a sender that meets the shutdown is told "manager is
\* shutting down" by its select, so none panics on the closed queue.
NoSendOnClosedQueue == process # "crashed"
===============================================================================
