---------------------------- MODULE TimerProofs ----------------------------
(***************************************************************************)
(* What the processing timer measures, for a clock without bound.          *)
(***************************************************************************)
EXTENDS Timer, TLAPS

\* MeasuresUptime with the types of the variables it speaks of.
Inv ==
    /\ now \in Nat
    /\ timer \in [startTime : Int, elapsedTime : Int, timerPaused : BOOLEAN]
    /\ MeasuresUptime

\* No handler ever lets the timer start from the moment it ran.
THEOREM TimerNeverStarts == Spec => []MeasuresUptime
<1>1. Init => Inv
  BY DEF Init, Globals, Inv, MeasuresUptime
<1>2. Inv /\ [Next]_vars => Inv'
  <2> SUFFICES ASSUME Inv, [Next]_vars PROVE Inv'
    OBVIOUS
  <2>1. CASE process_group_request
    <3>1. resetTimer(timer) = Globals(0, 0, FALSE)
      BY DEF resetTimer, Inv, MeasuresUptime
    <3>2. timer' = Globals(0, 0, FALSE) /\ now' = now
      BY <2>1, <3>1 DEF process_group_request, startTimer, Globals
    <3> QED BY <3>2 DEF Inv, MeasuresUptime, Globals
  <2>2. CASE preprepare_handler
    <3>1. CASE timer.timerPaused
      BY <2>2, <3>1 DEF preprepare_handler, pauseTimer, Inv, MeasuresUptime
    <3>2. CASE ~timer.timerPaused
      BY <2>2, <3>2 DEF preprepare_handler, pauseTimer, Globals, Inv, MeasuresUptime
    <3> QED BY <3>1, <3>2
  <2>3. CASE Tick
    BY <2>3 DEF Tick, Inv, MeasuresUptime
  <2>4. CASE UNCHANGED vars
    BY <2>4 DEF vars, Inv, MeasuresUptime
  <2> QED BY <2>1, <2>2, <2>3, <2>4 DEF Next
<1>3. Inv => MeasuresUptime
  BY DEF Inv
<1> QED BY <1>1, <1>2, <1>3, PTL DEF Spec
=============================================================================
