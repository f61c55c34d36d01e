------------------------------ MODULE Lifecycle ------------------------------
(***************************************************************************)
(* The goroutines around a core: callers of Start, Stop and RecvMsg, the   *)
(* receiveRoutine and the ticker's timeoutRoutine, with the channels that  *)
(* connect them.  What a message does to the round state is Core's; here   *)
(* a handler is the number of timeouts it schedules, and whether it ends   *)
(* in the application's Commit, from which the application may call Stop.  *)
(***************************************************************************)
EXTENDS Naturals

CONSTANTS
  Callers,       \* goroutines of the application
  Routine,       \* the receiveRoutine, when it calls Stop from Commit
  msgQueueSize,  \* the capacity of msgQueue
  tickTockBufferSize,  \* the capacity of tickChan
  MaxTicks,      \* how many timeouts a handler schedules at most
  MaxTocks,      \* bound: how many tocks are under way at once
  StopInCommit   \* whether the application calls Stop from Commit

ASSUME LifecycleAssumption ==
  /\ Routine \notin Callers
  /\ msgQueueSize \in Nat /\ tickTockBufferSize \in Nat \ {0}
  /\ MaxTicks \in Nat /\ MaxTocks \in Nat /\ StopInCommit \in BOOLEAN

VARIABLES
  inStartOrStop,  \* the flag both compare and swap
  started,
  pc,             \* where each goroutine is in Start or Stop; "idle": in neither
  done,           \* the done channel: "none", "open" or "closed"
  routine,        \* the receiveRoutine: "none", "select", "handle" or "commit"
  toSchedule,     \* timeouts its handler has still to schedule
  msgQueue,       \* how many messages wait
  ticks,          \* how many ticks wait in tickChan
  armed,          \* whether the ticker's timer runs
  tocks,          \* timeouts fired and not received, in tockChan or waiting for it
  stopCh,         \* whether the ticker was told to stop
  timeoutRoutine, \* whether the ticker's goroutine runs
  closedTwice     \* the process died closing a closed channel

vars == <<inStartOrStop, started, pc, done, routine, toSchedule, msgQueue,
          ticks, armed, tocks, stopCh, timeoutRoutine, closedTwice>>

timer == <<armed, tocks>>

channels == <<routine, toSchedule, msgQueue, ticks, timer, stopCh,
              timeoutRoutine>>

Goto(k, label) == pc' = [pc EXCEPT ![k] = label]

\* The deferred store: the call returns and lets others in.
Return(k) == inStartOrStop' = FALSE /\ Goto(k, "idle")

-----------------------------------------------------------------------------
\* Mutant: calls do not exclude each other.
Begin_NoSwap(k, call) ==
  /\ pc[k] = "idle"
  /\ inStartOrStop' = TRUE
  /\ Goto(k, call)
  /\ UNCHANGED <<started, done, channels, closedTwice>>

\* Start and Stop begin alike; a call that finds another one under way returns
\* an error at once, which changes nothing.
Begin(k, call) ==
  /\ pc[k] = "idle"
  /\ ~inStartOrStop
  /\ inStartOrStop' = TRUE
  /\ Goto(k, call)
  /\ UNCHANGED <<started, done, channels, closedTwice>>

\* "gobft already started", "gobft already stopped"
RefusedStart(k) ==
  /\ pc[k] = "start" /\ started
  /\ Return(k)
  /\ UNCHANGED <<started, done, channels, closedTwice>>

RefusedStop(k) ==
  /\ pc[k] = "stop" /\ ~started
  /\ Return(k)
  /\ UNCHANGED <<started, done, channels, closedTwice>>

\* A new done channel, a new ticker whose goroutine runs, then receiveRoutine.
\* (A goroutine of the last ticker that has not noticed its stop yet has
\* channels of its own.)
Spawn(k) ==
  /\ pc[k] = "start" /\ ~started
  /\ done' = "open"
  /\ ticks' = 0 /\ armed' = FALSE /\ tocks' = 0
  /\ stopCh' = FALSE /\ timeoutRoutine' = TRUE
  /\ routine' = "select"
  /\ Goto(k, "scheduleRound0")
  /\ UNCHANGED <<inStartOrStop, started, toSchedule, msgQueue, closedTwice>>

ScheduleRound0(k) ==
  /\ pc[k] = "scheduleRound0"
  /\ ticks < tickTockBufferSize
  /\ ticks' = ticks + 1
  /\ Goto(k, "started")
  /\ UNCHANGED <<inStartOrStop, started, done, routine, toSchedule, msgQueue,
                 timer, stopCh, timeoutRoutine, closedTwice>>

Started(k) ==
  /\ pc[k] = "started"
  /\ started' = TRUE
  /\ Return(k)
  /\ UNCHANGED <<done, channels, closedTwice>>

\* timeoutTicker.Stop: the timer, then its goroutine.
StopTicker(k) ==
  /\ pc[k] = "stop" /\ started
  /\ armed' = FALSE
  /\ closedTwice' = stopCh
  /\ stopCh' = TRUE
  /\ Goto(k, "close")
  /\ UNCHANGED <<inStartOrStop, started, done, routine, toSchedule, msgQueue,
                 ticks, tocks, timeoutRoutine>>

\* Mutant: done is not closed.
CloseDone_Forgets(k) ==
  /\ pc[k] = "close"
  /\ Goto(k, "wait")
  /\ UNCHANGED <<inStartOrStop, started, done, channels, closedTwice>>

CloseDone(k) ==
  /\ pc[k] = "close"
  /\ closedTwice' = (done = "closed")
  /\ done' = "closed"
  /\ Goto(k, "wait")
  /\ UNCHANGED <<inStartOrStop, started, channels>>

\* Mutant: Stop does not wait.
Stopped_NoWait(k) ==
  /\ pc[k] = "wait"
  /\ started' = FALSE
  /\ Return(k)
  /\ UNCHANGED <<done, channels, closedTwice>>

\* Wait returns when receiveRoutine has returned.
Stopped(k) ==
  /\ pc[k] = "wait"
  /\ routine = "none"
  /\ started' = FALSE
  /\ Return(k)
  /\ UNCHANGED <<done, channels, closedTwice>>

-----------------------------------------------------------------------------
\* RecvMsg: refused while stopped, dropped while the queue is full.
RecvMsg ==
  /\ started
  /\ msgQueue < msgQueueSize
  /\ msgQueue' = msgQueue + 1
  /\ UNCHANGED <<inStartOrStop, started, pc, done, routine, toSchedule, ticks,
                 timer, stopCh, timeoutRoutine, closedTwice>>

\* The receiveRoutine's select takes any channel that is ready: done, ...
TakeDone ==
  /\ routine = "select"
  /\ done = "closed"
  /\ routine' = "none"
  /\ UNCHANGED <<inStartOrStop, started, pc, done, toSchedule, msgQueue, ticks,
                 timer, stopCh, timeoutRoutine, closedTwice>>

\* ... a message, or a tock; the handler will schedule n timeouts.
TakeMsg(n) ==
  /\ routine = "select"
  /\ msgQueue > 0
  /\ msgQueue' = msgQueue - 1
  /\ routine' = "handle"
  /\ toSchedule' = n
  /\ UNCHANGED <<inStartOrStop, started, pc, done, ticks, timer, stopCh,
                 timeoutRoutine, closedTwice>>

TakeTock(n) ==
  /\ routine = "select"
  /\ tocks > 0
  /\ tocks' = tocks - 1
  /\ routine' = "handle"
  /\ toSchedule' = n
  /\ UNCHANGED <<inStartOrStop, started, pc, done, msgQueue, ticks, armed,
                 stopCh, timeoutRoutine, closedTwice>>

\* ScheduleTimeout: a send on tickChan, which waits for room.
ScheduleTick ==
  /\ routine = "handle"
  /\ toSchedule > 0
  /\ ticks < tickTockBufferSize
  /\ ticks' = ticks + 1
  /\ toSchedule' = toSchedule - 1
  /\ UNCHANGED <<inStartOrStop, started, pc, done, routine, msgQueue, timer,
                 stopCh, timeoutRoutine, closedTwice>>

\* The handler ends.  (A Stop called from Commit while a Start or a Stop is
\* under way fails at once, which is this action too.)
Handled ==
  /\ routine = "handle"
  /\ toSchedule = 0
  /\ routine' = "select"
  /\ UNCHANGED <<inStartOrStop, started, pc, done, toSchedule, msgQueue, ticks,
                 timer, stopCh, timeoutRoutine, closedTwice>>

\* The handler commits, and the application calls Stop before Commit returns:
\* the routine goes on in Stop.
CommitCallsStop ==
  /\ StopInCommit
  /\ routine = "handle"
  /\ toSchedule = 0
  /\ ~inStartOrStop
  /\ inStartOrStop' = TRUE
  /\ Goto(Routine, "stop")
  /\ routine' = "commit"
  /\ UNCHANGED <<started, done, toSchedule, msgQueue, ticks, timer, stopCh,
                 timeoutRoutine, closedTwice>>

\* Mutant: timeoutRoutine sends its tocks itself, and is stuck when tockChan is
\* full.
TakeTick_Synchronous ==
  /\ timeoutRoutine
  /\ ticks > 0
  /\ tocks < tickTockBufferSize
  /\ ticks' = ticks - 1
  /\ armed' \in {armed, TRUE}
  /\ UNCHANGED <<inStartOrStop, started, pc, done, routine, toSchedule, msgQueue,
                 tocks, stopCh, timeoutRoutine, closedTwice>>

\* timeoutRoutine takes a tick and resets its timer or ignores the tick, ...
TakeTick ==
  /\ timeoutRoutine
  /\ ticks > 0
  /\ ticks' = ticks - 1
  /\ armed' \in {armed, TRUE}
  /\ UNCHANGED <<inStartOrStop, started, pc, done, routine, toSchedule, msgQueue,
                 tocks, stopCh, timeoutRoutine, closedTwice>>

\* ... sees the timer fire and leaves the tock to a goroutine of its own, ...
TimerFires ==
  /\ timeoutRoutine
  /\ armed
  /\ tocks < MaxTocks
  /\ armed' = FALSE
  /\ tocks' = tocks + 1
  /\ UNCHANGED <<inStartOrStop, started, pc, done, routine, toSchedule, msgQueue,
                 ticks, stopCh, timeoutRoutine, closedTwice>>

\* ... or learns that it should stop.
TakeStop ==
  /\ timeoutRoutine
  /\ stopCh
  /\ timeoutRoutine' = FALSE
  /\ UNCHANGED <<inStartOrStop, started, pc, done, routine, toSchedule, msgQueue,
                 ticks, timer, stopCh, closedTwice>>

-----------------------------------------------------------------------------
Init ==
  /\ inStartOrStop = FALSE /\ started = FALSE
  /\ pc = [k \in Callers \cup {Routine} |-> "idle"]
  /\ done = "none" /\ routine = "none" /\ toSchedule = 0
  /\ msgQueue = 0 /\ ticks = 0 /\ stopCh = FALSE /\ timeoutRoutine = FALSE
  /\ armed = FALSE /\ tocks = 0 /\ closedTwice = FALSE

StartStep(k) ==
  RefusedStart(k) \/ Spawn(k) \/ ScheduleRound0(k) \/ Started(k)

StopStep(k) ==
  RefusedStop(k) \/ StopTicker(k) \/ CloseDone(k) \/ Stopped(k)

RoutineStep ==
  \/ TakeDone
  \/ \E n \in 0..MaxTicks : TakeMsg(n)
  \/ \E n \in 0..MaxTicks : TakeTock(n)
  \/ ScheduleTick
  \/ Handled
  \/ CommitCallsStop

TickerStep == TakeTick \/ TimerFires \/ TakeStop

Next ==
  \/ \E k \in Callers : Begin(k, "start")
  \/ \E k \in Callers : Begin(k, "stop")
  \/ \E k \in Callers : StartStep(k)
  \/ \E k \in Callers \cup {Routine} : StopStep(k)
  \/ RecvMsg
  \/ RoutineStep
  \/ TickerStep

Spec == Init /\ [][Next]_vars

\* A goroutine that can run does; goroutines that wait to send on a channel are
\* served in turn; a select takes a channel that is ready again and again (it
\* chooses at random).
Fairness ==
  /\ \A k \in Callers : WF_vars(StartStep(k)) /\ SF_vars(ScheduleRound0(k))
  /\ \A k \in Callers \cup {Routine} : WF_vars(StopStep(k))
  /\ SF_vars(ScheduleTick) /\ WF_vars(Handled) /\ SF_vars(TakeDone)
  /\ SF_vars(TakeTick) /\ WF_vars(TakeStop)

FairSpec == Spec /\ Fairness

-----------------------------------------------------------------------------
Labels == {"idle", "start", "scheduleRound0", "started", "stop", "close", "wait"}

FlagsOK ==
  /\ inStartOrStop \in BOOLEAN /\ started \in BOOLEAN /\ armed \in BOOLEAN
  /\ stopCh \in BOOLEAN /\ timeoutRoutine \in BOOLEAN /\ closedTwice \in BOOLEAN

ModesOK ==
  /\ pc \in [Callers \cup {Routine} -> Labels]
  /\ done \in {"none", "open", "closed"}
  /\ routine \in {"none", "select", "handle", "commit"}

CountersOK ==
  /\ toSchedule \in 0..MaxTicks
  /\ msgQueue \in 0..msgQueueSize
  /\ ticks \in 0..tickTockBufferSize
  /\ tocks \in 0..MaxTocks

TypeOK == FlagsOK /\ ModesOK /\ CountersOK

\* Start and Stop exclude each other, so no channel is closed twice (which would
\* panic) ...
ClosesOnce == ~closedTwice

\* ... and no Start ever spawns a second receiveRoutine beside a living one, or
\* swaps the channels under it: the round state has one writer.
OneReceiveRoutine ==
  [][ \A k \in Callers : pc[k] = "start" /\ pc'[k] = "scheduleRound0"
        => routine = "none" ]_vars

Running == routine # "none" /\ done = "open" /\ timeoutRoutine /\ ~stopCh

Steady == IF started THEN Running ELSE routine = "none"

\* Between calls, started tells the truth: the routine runs on an open channel
\* with a running ticker, or there is none.
StartedIsTrue == ~inStartOrStop => Steady

\* At most one goroutine is inside Start or Stop, and the flag says whether one is.
Exclusive ==
  /\ \A k, l \in Callers \cup {Routine} :
       pc[k] # "idle" /\ pc[l] # "idle" => k = l
  /\ \A k \in Callers \cup {Routine} : pc[k] # "idle" => inStartOrStop

\* What that goroutine can rely on where it is.
Phase(k) ==
  /\ pc[k] \in {"start", "stop"} => Steady
  /\ pc[k] \in {"scheduleRound0", "started"} => ~started /\ Running
  /\ pc[k] = "close" => started /\ routine # "none" /\ done = "open"
  /\ pc[k] = "wait" => started /\ done = "closed"

\* The inductive invariant behind ClosesOnce, StartedIsTrue and OneReceiveRoutine:
\* calls of Start and Stop exclude each other, and each finds at every point what
\* the ones before have left.
Inv ==
  /\ TypeOK
  /\ ClosesOnce
  /\ Exclusive
  /\ StartedIsTrue
  /\ \A k \in Callers \cup {Routine} : Phase(k)

\* While the ticker runs no handler waits for ever on tickChan: timeoutRoutine
\* itself never waits for receiveRoutine to take a tock.
HandlersEnd ==
  routine = "handle" /\ ~stopCh ~> routine # "handle" \/ stopCh

\* Every call of Start and of Stop returns, unless the handler it waits for is
\* blocked on a full tickChan, whose reader has been told to end, or has called
\* Stop itself: there is no third way to get stuck.
Stuck ==
  \/ /\ routine = "handle" /\ toSchedule > 0
     /\ ticks = tickTockBufferSize /\ stopCh
  \/ routine = "commit"

CallsReturnUnlessStuck ==
  \A k \in Callers : pc[k] # "idle" ~> pc[k] = "idle" \/ Stuck

-----------------------------------------------------------------------------
\* ticker.go, ScheduleTimeout: "The timeoutRoutine is always available to read
\* from tickChan, so this won't block."
ScheduleTimeoutWontBlock ==
  routine = "handle" /\ toSchedule > 0 /\ ticks = tickTockBufferSize
    => timeoutRoutine

\* The application's Commit may call Stop (bft_test.go does): every call of Start
\* and of Stop returns.
CallsReturn ==
  \A k \in Callers \cup {Routine} : pc[k] # "idle" ~> pc[k] = "idle"
=============================================================================
