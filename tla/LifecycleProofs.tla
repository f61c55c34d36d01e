--------------------------- MODULE LifecycleProofs ---------------------------
(***************************************************************************)
(* Start and Stop are safe for any number of calling goroutines and any    *)
(* capacity of the channels.                                               *)
(***************************************************************************)
EXTENDS Lifecycle, TLAPS

\* A new core satisfies the invariant.
LEMMA InitInv == Init => Inv
<1> SUFFICES ASSUME Init PROVE Inv
  OBVIOUS
<1>1. FlagsOK
  BY Zenon DEF Init, FlagsOK
<1>2. ModesOK
  BY DEF Init, ModesOK, Labels
<1>3. CountersOK
  BY LifecycleAssumption DEF Init, CountersOK
<1>4. ClosesOnce /\ StartedIsTrue
  BY DEF Init, ClosesOnce, StartedIsTrue, Steady
<1>5. Exclusive /\ \A k \in Callers \cup {Routine} : Phase(k)
  BY DEF Init, Exclusive, Phase
<1> QED
  BY <1>1, <1>2, <1>3, <1>4, <1>5 DEF Inv, TypeOK

-----------------------------------------------------------------------------
\* Flags stay Boolean.
LEMMA FlagsStep == FlagsOK /\ [Next]_vars => FlagsOK'
<1> SUFFICES ASSUME FlagsOK, [Next]_vars PROVE FlagsOK'
  OBVIOUS
<1> USE Zenon DEF FlagsOK, Return, channels, timer
<1>1. ASSUME NEW k \in Callers, NEW call \in {"start", "stop"}, Begin(k, call)
      PROVE FlagsOK'
  BY <1>1 DEF Begin
<1>2. ASSUME NEW k \in Callers, StartStep(k) PROVE FlagsOK'
  <2>1. CASE RefusedStart(k)
    BY <2>1 DEF RefusedStart
  <2>2. CASE Spawn(k)
    BY <2>2 DEF Spawn
  <2>3. CASE ScheduleRound0(k)
    BY <2>3 DEF ScheduleRound0
  <2>4. CASE Started(k)
    BY <2>4 DEF Started
  <2> QED
    BY <1>2, <2>1, <2>2, <2>3, <2>4 DEF StartStep
<1>3. ASSUME NEW k \in Callers \cup {Routine}, StopStep(k) PROVE FlagsOK'
  <2>1. CASE RefusedStop(k)
    BY <2>1 DEF RefusedStop
  <2>2. CASE StopTicker(k)
    BY <2>2 DEF StopTicker
  <2>3. CASE CloseDone(k)
    BY <2>3 DEF CloseDone
  <2>4. CASE Stopped(k)
    BY <2>4 DEF Stopped
  <2> QED
    BY <1>3, <2>1, <2>2, <2>3, <2>4 DEF StopStep
<1>4. CASE RecvMsg
  BY <1>4 DEF RecvMsg
<1>5. CASE RoutineStep
  BY <1>5 DEF RoutineStep, TakeDone, TakeMsg, TakeTock, ScheduleTick, Handled,
              CommitCallsStop
<1>6. CASE TickerStep
  <2>1. CASE TakeTick
    BY <2>1 DEF TakeTick
  <2>2. CASE TimerFires
    BY <2>2 DEF TimerFires
  <2>3. CASE TakeStop
    BY <2>3 DEF TakeStop
  <2> QED
    BY <1>6, <2>1, <2>2, <2>3 DEF TickerStep
<1>7. CASE UNCHANGED vars
  BY <1>7 DEF vars
<1> QED
  BY <1>1, <1>2, <1>3, <1>4, <1>5, <1>6, <1>7 DEF Next

\* Goroutines stay at labels of their code.
LEMMA ModesStep == ModesOK /\ [Next]_vars => ModesOK'
<1> SUFFICES ASSUME ModesOK, [Next]_vars PROVE ModesOK'
  OBVIOUS
<1> USE DEF ModesOK, Labels, Goto, Return, channels
<1>1. ASSUME NEW k \in Callers, NEW call \in {"start", "stop"}, Begin(k, call)
      PROVE ModesOK'
  BY <1>1 DEF Begin
<1>2. ASSUME NEW k \in Callers, StartStep(k) PROVE ModesOK'
  BY <1>2 DEF StartStep, RefusedStart, Spawn, ScheduleRound0, Started
<1>3. ASSUME NEW k \in Callers \cup {Routine}, StopStep(k) PROVE ModesOK'
  BY <1>3 DEF StopStep, RefusedStop, StopTicker, CloseDone, Stopped
<1>4. CASE RecvMsg
  BY <1>4 DEF RecvMsg
<1>5. CASE RoutineStep
  BY <1>5 DEF RoutineStep, TakeDone, TakeMsg, TakeTock, ScheduleTick, Handled,
              CommitCallsStop
<1>6. CASE TickerStep
  BY <1>6 DEF TickerStep, TakeTick, TimerFires, TakeStop
<1>7. CASE UNCHANGED vars
  BY <1>7 DEF vars
<1> QED
  BY <1>1, <1>2, <1>3, <1>4, <1>5, <1>6, <1>7 DEF Next

\* Queues stay within their capacity.
LEMMA CountersStep == CountersOK /\ [Next]_vars => CountersOK'
<1> SUFFICES ASSUME CountersOK, [Next]_vars PROVE CountersOK'
  OBVIOUS
<1> USE LifecycleAssumption DEF CountersOK, channels, timer
<1>1. ASSUME NEW k \in Callers, NEW call \in {"start", "stop"}, Begin(k, call)
      PROVE CountersOK'
  BY <1>1 DEF Begin
<1>2. ASSUME NEW k \in Callers, StartStep(k) PROVE CountersOK'
  BY <1>2 DEF StartStep, RefusedStart, Spawn, ScheduleRound0, Started
<1>3. ASSUME NEW k \in Callers \cup {Routine}, StopStep(k) PROVE CountersOK'
  BY <1>3 DEF StopStep, RefusedStop, StopTicker, CloseDone, Stopped
<1>4. CASE RecvMsg
  BY <1>4 DEF RecvMsg
<1>5. CASE RoutineStep
  <2>1. CASE TakeDone \/ Handled \/ CommitCallsStop
    BY <2>1 DEF TakeDone, Handled, CommitCallsStop
  <2>2. ASSUME NEW n \in 0..MaxTicks, TakeMsg(n) PROVE CountersOK'
    BY <2>2 DEF TakeMsg
  <2>3. ASSUME NEW n \in 0..MaxTicks, TakeTock(n) PROVE CountersOK'
    BY <2>3 DEF TakeTock
  <2>4. CASE ScheduleTick
    BY <2>4 DEF ScheduleTick
  <2> QED
    BY <1>5, <2>1, <2>2, <2>3, <2>4 DEF RoutineStep
<1>6. CASE TickerStep
  <2>1. CASE TakeTick
    <3>1. /\ ticks > 0 /\ ticks' = ticks - 1
          /\ UNCHANGED <<toSchedule, msgQueue, tocks>>
      BY <2>1, Zenon DEF TakeTick
    <3> QED
      BY <3>1
  <2>2. CASE TimerFires \/ TakeStop
    BY <2>2 DEF TimerFires, TakeStop
  <2> QED
    BY <1>6, <2>1, <2>2 DEF TickerStep
<1>7. CASE UNCHANGED vars
  BY <1>7 DEF vars
<1> QED
  BY <1>1, <1>2, <1>3, <1>4, <1>5, <1>6, <1>7 DEF Next
-----------------------------------------------------------------------------
\* The variables that Start and Stop are about.
control == <<inStartOrStop, started, pc, done, routine, stopCh, timeoutRoutine,
             closedTwice>>

\* Steps that only move messages, ticks and tocks.
LEMMA DataSteps ==
  RecvMsg \/ ScheduleTick \/ TakeTick \/ TimerFires \/ UNCHANGED vars
    => UNCHANGED control
BY Zenon DEF RecvMsg, ScheduleTick, TakeTick, TimerFires, vars, control

\* A step of Next is one of those or one of these.
LEMMA Steps ==
  ASSUME [Next]_vars
  PROVE  \/ UNCHANGED control
         \/ \E k \in Callers : Begin(k, "start") \/ Begin(k, "stop")
         \/ \E k \in Callers : StartStep(k)
         \/ \E k \in Callers \cup {Routine} : StopStep(k)
         \/ TakeDone
         \/ \E n \in 0..MaxTicks : TakeMsg(n) \/ TakeTock(n)
         \/ Handled
         \/ CommitCallsStop
         \/ TakeStop
BY DataSteps, Zenon DEF Next, RoutineStep, TickerStep

\* The mutual exclusion of Start and Stop.
LEMMA ExclusiveStep == ModesOK /\ Exclusive /\ [Next]_vars => Exclusive'
<1> SUFFICES ASSUME ModesOK, Exclusive, [Next]_vars PROVE Exclusive'
  OBVIOUS
<1> USE DEF ModesOK, Exclusive, Goto, Return, channels
<1>1. ASSUME NEW k \in Callers, NEW call \in {"start", "stop"}, Begin(k, call)
      PROVE Exclusive'
  BY <1>1 DEF Begin
<1>2. ASSUME NEW k \in Callers, StartStep(k) PROVE Exclusive'
  BY <1>2 DEF StartStep, RefusedStart, Spawn, ScheduleRound0, Started
<1>3. ASSUME NEW k \in Callers \cup {Routine}, StopStep(k) PROVE Exclusive'
  BY <1>3 DEF StopStep, RefusedStop, StopTicker, CloseDone, Stopped
<1>4. CASE CommitCallsStop
  BY <1>4 DEF CommitCallsStop
<1>5. CASE TakeDone \/ Handled \/ TakeStop
  BY <1>5 DEF TakeDone, Handled, TakeStop
<1>6. ASSUME NEW n \in 0..MaxTicks, TakeMsg(n) \/ TakeTock(n) PROVE Exclusive'
  BY <1>6 DEF TakeMsg, TakeTock
<1>7. CASE UNCHANGED control
  BY <1>7 DEF control
<1> QED
  BY <1>1, <1>2, <1>3, <1>4, <1>5, <1>6, <1>7, Steps, Zenon

\* What holds between calls and at each point of a call, and that no channel is
\* closed twice.
Calls ==
  /\ ClosesOnce
  /\ StartedIsTrue
  /\ \A k \in Callers \cup {Routine} : Phase(k)

\* Every step of a call leaves what the calls promise: no channel is closed
\* twice, and the started flag is right between calls.
LEMMA CallsStep == ModesOK /\ Exclusive /\ Calls /\ [Next]_vars => Calls'
<1> SUFFICES ASSUME ModesOK, Exclusive, Calls, [Next]_vars PROVE Calls'
  OBVIOUS
<1> USE DEF ModesOK, Exclusive, Calls, Goto, Return, channels, ClosesOnce,
            StartedIsTrue, Phase, Steady, Running
<1>1. ASSUME NEW k \in Callers, NEW call \in {"start", "stop"}, Begin(k, call)
      PROVE Calls'
  BY <1>1 DEF Begin
<1>2. ASSUME NEW k \in Callers, StartStep(k) PROVE Calls'
  <2>1. CASE RefusedStart(k)
    BY <2>1 DEF RefusedStart
  <2>2. CASE Spawn(k)
    BY <2>2 DEF Spawn
  <2>3. CASE ScheduleRound0(k)
    BY <2>3 DEF ScheduleRound0
  <2>4. CASE Started(k)
    BY <2>4 DEF Started
  <2> QED
    BY <1>2, <2>1, <2>2, <2>3, <2>4, Zenon DEF StartStep
<1>3. ASSUME NEW k \in Callers \cup {Routine}, StopStep(k) PROVE Calls'
  <2>1. CASE RefusedStop(k)
    BY <2>1 DEF RefusedStop
  <2>2. CASE StopTicker(k)
    BY <2>2 DEF StopTicker
  <2>3. CASE CloseDone(k)
    BY <2>3 DEF CloseDone
  <2>4. CASE Stopped(k)
    BY <2>4 DEF Stopped
  <2> QED
    BY <1>3, <2>1, <2>2, <2>3, <2>4, Zenon DEF StopStep
<1>4. CASE CommitCallsStop
  BY <1>4 DEF CommitCallsStop
<1>5. CASE TakeDone
  BY <1>5 DEF TakeDone
<1>6. CASE Handled
  BY <1>6 DEF Handled
<1>7. CASE TakeStop
  BY <1>7 DEF TakeStop
<1>8. ASSUME NEW n \in 0..MaxTicks, TakeMsg(n) \/ TakeTock(n) PROVE Calls'
  BY <1>8 DEF TakeMsg, TakeTock
<1>9. CASE UNCHANGED control
  BY <1>9 DEF control
<1> QED
  BY <1>1, <1>2, <1>3, <1>4, <1>5, <1>6, <1>7, <1>8, <1>9, Steps, Zenon

-----------------------------------------------------------------------------
\* Inv holds in every state, for any number of goroutines that call Start, Stop
\* and RecvMsg and for any capacity of the channels.
THEOREM Invariance == Spec => []Inv
<1>1. Inv /\ [Next]_vars => Inv'
  BY FlagsStep, ModesStep, CountersStep, ExclusiveStep, CallsStep, Zenon
  DEF Inv, TypeOK, Calls
<1> QED
  BY InitInv, <1>1, PTL DEF Spec

\* No channel is closed twice, and between calls the started flag tells the truth.
THEOREM CallsAreSafe == Spec => [](ClosesOnce /\ StartedIsTrue)
<1>1. Inv => ClosesOnce /\ StartedIsTrue
  BY DEF Inv
<1> QED
  BY Invariance, <1>1, PTL

\* Start spawns a receiveRoutine only when there is none.
THEOREM SingleRoutine == Spec => OneReceiveRoutine
<1>1. ASSUME Inv, [Next]_vars, NEW k \in Callers,
             pc[k] = "start", pc'[k] = "scheduleRound0"
      PROVE routine = "none"
  <2> USE DEF Inv, TypeOK, ModesOK, Labels, Goto, Return
  <2>1. Steady
    BY <1>1 DEF Phase
  <2>2. CASE Spawn(k)
    BY <2>1, <2>2 DEF Spawn, Steady
  <2>3. ASSUME NEW l \in Callers, Begin(l, "start") \/ Begin(l, "stop")
        PROVE FALSE
    BY <1>1, <2>3 DEF Begin
  <2>4. ASSUME NEW l \in Callers, StartStep(l) PROVE Spawn(k)
    BY <1>1, <2>4 DEF StartStep, RefusedStart, ScheduleRound0, Started, Spawn
  <2>5. ASSUME NEW l \in Callers \cup {Routine}, StopStep(l) PROVE FALSE
    BY <1>1, <2>5 DEF StopStep, RefusedStop, StopTicker, CloseDone, Stopped
  <2>6. CASE CommitCallsStop
    BY <1>1, <2>6 DEF CommitCallsStop
  <2>7. CASE TakeDone \/ Handled \/ TakeStop
    BY <1>1, <2>7 DEF TakeDone, Handled, TakeStop
  <2>8. ASSUME NEW n \in 0..MaxTicks, TakeMsg(n) \/ TakeTock(n) PROVE FALSE
    BY <1>1, <2>8 DEF TakeMsg, TakeTock
  <2>9. CASE UNCHANGED control
    BY <1>1, <2>9 DEF control
  <2> QED
    BY <1>1, <2>2, <2>3, <2>4, <2>5, <2>6, <2>7, <2>8, <2>9, Steps, Zenon
<1>2. Inv /\ [Next]_vars =>
        [\A k \in Callers : pc[k] = "start" /\ pc'[k] = "scheduleRound0"
           => routine = "none"]_vars
  BY <1>1
<1> QED
  BY Invariance, <1>2, PTL DEF Spec, OneReceiveRoutine
=============================================================================
