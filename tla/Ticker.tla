------------------------------- MODULE Ticker --------------------------------
(***************************************************************************)
(* ticker.go seen from the core: a timer that keeps the last accepted      *)
(* timeoutInfo (ti), whether it is still running (armed), and the timeouts *)
(* that fired and were not received yet (tocks).  Each tock is sent by a   *)
(* goroutine of its own, so tocks are received in any order.  Durations    *)
(* are abstracted: an armed timer may fire at any moment.                  *)
(***************************************************************************)
EXTENDS Integers

RoundStepNewHeight      == 1
RoundStepNewRound       == 2
RoundStepPropose        == 3
RoundStepPrevote        == 4
RoundStepPrevoteFetch   == 5
RoundStepPrevoteWait    == 6
RoundStepPrecommit      == 7
RoundStepPrecommitFetch == 8
RoundStepPrecommitWait  == 9
RoundStepCommit         == 10

timeoutInfo == [Height : Nat, Round : Nat, Step : 0..RoundStepCommit]

TimeoutTickers == [ti : timeoutInfo, armed : BOOLEAN, tocks : SUBSET timeoutInfo]

NewTimeoutTicker ==
  [ti |-> [Height |-> 0, Round |-> 0, Step |-> 0],
   armed |-> FALSE, tocks |-> {}]

\* Mutant: no step is scheduled twice.
ignoresTick_Fetch(ti, newti) ==
  \/ newti.Height < ti.Height
  \/ /\ newti.Height = ti.Height
     /\ \/ newti.Round < ti.Round
        \/ newti.Round = ti.Round /\ ti.Step > 0 /\ newti.Step <= ti.Step

\* Mutant: a tick for an earlier step of the round replaces the timer.
ignoresTick_AnyStep(ti, newti) ==
  \/ newti.Height < ti.Height
  \/ newti.Height = ti.Height /\ newti.Round < ti.Round

\* timeoutRoutine ignores a tick for an old height, round or step; only a
\* fetch step may be scheduled again.
ignoresTick(ti, newti) ==
  \/ newti.Height < ti.Height
  \/ /\ newti.Height = ti.Height
     /\ \/ newti.Round < ti.Round
        \/ /\ newti.Round = ti.Round
           /\ ti.Step > 0
           /\ \/ newti.Step < ti.Step
              \/ /\ newti.Step = ti.Step
                 /\ newti.Step \notin {RoundStepPrevoteFetch,
                                       RoundStepPrecommitFetch}

ScheduleTimeout(t, newti) ==
  IF ignoresTick(t.ti, newti) THEN t
  ELSE [t EXCEPT !.ti = newti, !.armed = TRUE]

\* The timer fires: ti stays as the last accepted timeout.
TimeOut(t) == [t EXCEPT !.armed = FALSE, !.tocks = @ \cup {t.ti}]
=============================================================================
