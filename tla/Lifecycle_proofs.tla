--------------------------- MODULE Lifecycle_proofs ----------------------------
(***************************************************************************)
(* Proofs about Lifecycle, for any number of workers, handlers and timers, *)
(* any capacity of the queue and any bounds: types, and that the queue is  *)
(* closed only after the signal.  The invariant says how far Start is.     *)
(***************************************************************************)
EXTENDS Lifecycle, TLAPS

USE LifecycleBounds DEF LifecycleBounds

\* Where Start is tells what has been launched, cancelled and closed.
StartFits ==
  /\ start = "launching" => ticker = "new" /\ ~closed
  /\ start \in {"closing", "waiting", "stopped"} => cancelled
  /\ closed <=> start \in {"waiting", "stopped"}

IInv == TypeOK /\ StartFits

\* A select of a sender leaves the queue within its capacity.
LEMMA SelectKeepsQueue ==
  ASSUME TypeOK, SendTask \/ SendPanics \/ SeesDone \/ GivesUp
  PROVE  queue' \in 0..QueueSize
BY DEF TypeOK, SendTask, SendPanics, SeesDone, GivesUp

LEMMA InitIInv == Init => IInv
<1> SUFFICES ASSUME Init PROVE IInv
  OBVIOUS
<1>1. TypeOK
  <2>1. worker \in [Workers -> {"new", "select", "executing", "exited"}]
    BY DEF Init
  <2>2. timer \in [Timers -> {"off", "armed", "flushing"}]
    BY DEF Init
  <2>3. handler \in [Handlers -> {"idle", "serving"}]
    BY DEF Init
  <2>4. cancelled \in BOOLEAN /\ closed \in BOOLEAN
    BY DEF Init
  <2>5. queue \in 0..QueueSize /\ due \in 0..MaxDue /\ events \in 0..MaxEvents /\ ticks \in 0..MaxTicks
    BY DEF Init
  <2>6. QED BY <2>1, <2>2, <2>3, <2>4, <2>5 DEF Init, TypeOK
<1>2. start = "launching" /\ ticker = "new" /\ ~closed
  BY DEF Init
<1>3. StartFits
  BY <1>2 DEF StartFits
<1>4. QED BY <1>1, <1>3 DEF IInv

\* main and the handlers do not touch how far Start is.
LEMMA MainKeeps ==
  ASSUME IInv, Signal \/ BeginShutdown \/ Exit \/ ServerFails
  PROVE  IInv'
<1>1. CASE Signal
  BY <1>1 DEF IInv, TypeOK, StartFits, managerVars, Signal
<1>2. CASE BeginShutdown \/ Exit \/ ServerFails
  BY <1>2 DEF IInv, TypeOK, StartFits, managerVars, BeginShutdown, Exit,
              ServerFails
<1>3. QED BY <1>1, <1>2

LEMMA HandlersKeep ==
  ASSUME IInv, NEW h \in Handlers, Accept(h) \/ Answer(h)
  PROVE  IInv'
<1>1. CASE Accept(h)
  BY <1>1 DEF IInv, TypeOK, StartFits, managerVars, Accept
<1>2. CASE Answer(h)
  <2>1. queue' \in 0..QueueSize
    BY <1>2, SelectKeepsQueue DEF IInv, TypeOK, Answer
  <2>2. QED
    BY <1>2, <2>1 DEF IInv, TypeOK, StartFits, managerVars, Answer
<1>3. QED BY <1>1, <1>2

LEMMA StartKeeps ==
  ASSUME IInv, StartStep
  PROVE  IInv'
<1>1. CASE Launch
  BY <1>1 DEF IInv, TypeOK, StartFits, Launch
<1>2. CASE SeeCancelled
  BY <1>2 DEF IInv, TypeOK, StartFits, SeeCancelled
<1>3. CASE Close
  BY <1>3 DEF IInv, TypeOK, StartFits, Close, CloseQueue
<1>4. CASE Stop
  BY <1>4 DEF IInv, TypeOK, StartFits, Stop, WaitGroupDone
<1>5. QED BY <1>1, <1>2, <1>3, <1>4 DEF StartStep

\* The workers take tasks out of the queue.
LEMMA WorkersKeep ==
  ASSUME IInv, NEW w \in Workers, WorkerStep(w)
  PROVE  IInv'
<1>1. CASE TakeTask(w)
  BY <1>1 DEF IInv, TypeOK, StartFits, TakeTask, SetWorker
<1>2. CASE FinishTask(w)
  BY <1>2 DEF IInv, TypeOK, StartFits, FinishTask, SetWorker
<1>3. CASE ExitWorker(w)
  BY <1>3 DEF IInv, TypeOK, StartFits, ExitWorker, SetWorker
<1>4. QED BY <1>1, <1>2, <1>3 DEF WorkerStep

LEMMA TickerKeeps ==
  ASSUME IInv, process = "running", TickerStep
  PROVE  IInv'
<1>1. CASE Reload
  BY <1>1 DEF IInv, TypeOK, StartFits, Reload, SetTicker
<1>2. CASE ScheduleOne
  <2>1. queue' \in 0..QueueSize
    BY <1>2, SelectKeepsQueue DEF IInv, ScheduleOne
  <2>2. /\ process' \in {"running", "crashed"} /\ due' \in 0..MaxDue
        /\ ticker = "schedule" /\ SetTicker("schedule") /\ UNCHANGED ticks
    BY <1>2 DEF IInv, TypeOK, ScheduleOne
  <2>3. QED
    BY <2>1, <2>2 DEF IInv, TypeOK, StartFits, SetTicker
<1>3. CASE EndSchedule
  BY <1>3 DEF IInv, TypeOK, StartFits, EndSchedule, SetTicker
<1>4. CASE TickAgain
  BY <1>4 DEF IInv, TypeOK, StartFits, TickAgain, SetTicker
<1>5. CASE ExitTicker
  BY <1>5 DEF IInv, TypeOK, StartFits, ExitTicker, SetTicker
<1>6. QED BY <1>1, <1>2, <1>3, <1>4, <1>5 DEF TickerStep

\* The processor, and the timers that the WaitGroup does not count.
LEMMA WebhooksKeep ==
  ASSUME IInv, process = "running", ExitProcessor \/ \E f \in Timers : ArmTimer(f) \/ TimerStep(f)
  PROVE  IInv'
<1>1. CASE ExitProcessor
  BY <1>1 DEF IInv, TypeOK, StartFits, ExitProcessor
<1>2. ASSUME NEW f \in Timers, ArmTimer(f) PROVE IInv'
  BY <1>2 DEF IInv, TypeOK, StartFits, ArmTimer
<1>3. ASSUME NEW f \in Timers, TimerStep(f) PROVE IInv'
  <2>1. queue' \in 0..QueueSize
    BY <1>3, SelectKeepsQueue DEF IInv, TypeOK, TimerStep, Fire, FlushOne, EndFlush
  <2>2. /\ process' \in {"running", "crashed"}
        /\ \E at \in {"off", "flushing"} : SetTimer(f, at)
    BY <1>3 DEF TimerStep, Fire, FlushOne, EndFlush
  <2>3. QED
    BY <2>1, <2>2 DEF IInv, TypeOK, StartFits, SetTimer
<1>4. QED BY <1>1, <1>2, <1>3

LEMMA NextIInv == IInv /\ [Next]_vars => IInv'
<1> SUFFICES ASSUME IInv, [Next]_vars PROVE IInv'
  OBVIOUS
<1>1. CASE UNCHANGED vars
  BY <1>1 DEF vars, managerVars, IInv, TypeOK, StartFits
<1>2. CASE Next
  BY <1>2, MainKeeps, HandlersKeep, StartKeeps, WorkersKeep, TickerKeeps, WebhooksKeep
     DEF Next, MainStep, ManagerStep
<1>3. QED BY <1>1, <1>2

\* The inductive invariant holds in every reachable state.
THEOREM Invariance == Spec => []IInv
BY InitIInv, NextIInv, PTL DEF Spec

\* Every variable keeps its type, and the task queue its capacity, whoever sends.
THEOREM TypeCorrect == Spec => []TypeOK
<1>1. IInv => TypeOK BY DEF IInv
<1>2. QED BY <1>1, Invariance, PTL

\* The queue is closed only after the signal, so a sender that panics on it had
\* the other case of its select, shutdownCtx, ready as well.
THEOREM ClosedAfterSignal == Spec => [](closed => cancelled)
<1>1. IInv => (closed => cancelled) BY DEF IInv, StartFits
<1>2. QED BY <1>1, Invariance, PTL
================================================================================
