------------------------------- MODULE Timer -------------------------------
(***************************************************************************)
(* The processing timer of server/node.cpp: three globals at file scope,   *)
(* so all nodes of the process share one timer.  A node that starts on a   *)
(* request resets and starts it (process_group_request), a node that gets  *)
(* a pre-prepare pauses it (preprepare_handler).  No handler reads the     *)
(* time: request_viewchange_handler would pause the timer, but it is never *)
(* registered, and TPBFT therefore leaves the timer out.                   *)
(***************************************************************************)
EXTENDS Integers

CONSTANT MaxTime    \* bound on the clock, for TLC

ASSUME ClockAssumption == MaxTime \in Nat

VARIABLES
    now,            \* std::chrono::steady_clock::now(), counted from its epoch
    timer,          \* the globals startTime, elapsedTime and timerPaused
    working         \* a request was started on: there may be pre-prepares

vars == <<now, timer, working>>

Globals(start, elapsed, paused) ==
    [startTime |-> start, elapsedTime |-> elapsed, timerPaused |-> paused]

Init ==
    /\ now = 0
    /\ timer = Globals(0, 0, FALSE)
    /\ working = FALSE

startTimer(t) == IF t.timerPaused THEN Globals(now, t.elapsedTime, FALSE) ELSE t

pauseTimer_mut(t) == Globals(t.startTime, t.elapsedTime + (now - t.startTime), TRUE)
pauseTimer(t) ==
    IF t.timerPaused THEN t
    ELSE Globals(t.startTime, t.elapsedTime + (now - t.startTime), TRUE)

resetTimer(t) == Globals(t.startTime, 0, FALSE)

process_group_request ==
    /\ timer' = startTimer(resetTimer(timer))
    /\ working' = TRUE
    /\ UNCHANGED now

preprepare_handler ==
    /\ working
    /\ timer' = pauseTimer(timer)
    /\ UNCHANGED <<now, working>>

Tick ==
    /\ now < MaxTime
    /\ now' = now + 1
    /\ UNCHANGED <<timer, working>>

Next == process_group_request \/ preprepare_handler \/ Tick

Spec == Init /\ [][Next]_vars

----------------------------------------------------------------------------

\* The timer never starts: resetTimer clears the flag that startTimer waits
\* for, so startTime keeps the epoch of the clock for ever and a pause adds
\* the uptime of the machine where the time spent on the request is meant.
\* However often it is paused and reset, the timer never shows more than one
\* such interval.
MeasuresUptime ==
    /\ timer.startTime = 0
    /\ timer.elapsedTime \in 0..now
    /\ ~timer.timerPaused => timer.elapsedTime = 0

\* node.h: "Function to reset and reinitialize the timer", "Function to start
\* the timer".  A request that is started on has its time measured from then.
StartsOnRequest == [][process_group_request => timer'.startTime = now]_vars
============================================================================
