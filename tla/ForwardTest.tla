----------------------------- MODULE ForwardTest -----------------------------
(***************************************************************************)
(* The node of src/hailo_robot_control/src/practice.cpp: forward for three *)
(* seconds, then one StopMove.  There is no state but stopped_: every tick *)
(* decides by the clock what it asks for, and start_time_ is set once.     *)
(***************************************************************************)
EXTENDS WallTimer

CONSTANT ForwardLimit     \* 3.0 s, Measurable in the sense of WallTimer

VARIABLES
  stopped,    \* stopped_
  request     \* the last request given to sport_client_

vars == <<stopped, request, time, due, timer_active>>

Init ==
  /\ stopped = FALSE
  /\ request = "none"
  /\ TimerCreated

\* Wrong variant: driving on at the limit itself.
DrivingLate == elapsed <= ForwardLimit

Driving == elapsed < ForwardLimit

\* Wrong variant: start_time_ is set anew on every tick.
MoveForwardRestarting ==
  /\ Driving
  /\ request' = "forward"
  /\ RestartClock
  /\ UNCHANGED <<stopped, timer_active>>

MoveForward ==
  /\ Driving
  /\ request' = "forward"
  /\ UNCHANGED <<stopped, timer_active, time>>

\* Wrong variant: stopped_ alone is to keep the node quiet.
StopUncancelled ==
  /\ ~Driving /\ ~stopped
  /\ request' = "stop"
  /\ stopped' = TRUE
  /\ UNCHANGED <<timer_active, time>>

Stop ==
  /\ ~Driving /\ ~stopped
  /\ request' = "stop"
  /\ stopped' = TRUE
  /\ timer_active' = FALSE
  /\ UNCHANGED time

\* The chain has no third way in practice: with the time over and stopped_ set,
\* the timer is cancelled and there is no tick.
TimerCallback == TimerFires /\ (MoveForward \/ Stop)

Advance == PeriodPasses /\ UNCHANGED <<stopped, request>>

StepClock(step) == ClockSet(step) /\ UNCHANGED <<stopped, request>>

Next ==
  \/ TimerCallback
  \/ Advance
  \/ \E step \in ClockSteps : StepClock(step)

Spec == Init /\ [][Next]_vars

\* The timer keeps being served and time keeps passing.
FairSpec == Spec /\ WF_vars(TimerCallback) /\ WF_vars(Advance)

-----------------------------------------------------------------------------
\* Every variable keeps its type, and the timer is cancelled by the StopMove and
\* by nothing else.
TypeOK ==
  /\ stopped \in BOOLEAN
  /\ request \in {"none", "forward", "stop"}
  /\ TimerOK
  /\ timer_active = ~stopped

\* The Move is in force for at most three seconds, the delay of the executor
\* and the time the system clock was set back meanwhile.
MotionBounded ==
  request = "forward" => driven < ForwardLimit + MaxDelay + slew

Plan == INSTANCE DrivePlan WITH
  Route <- <<"forward">>, Exits <- {1},
  leg <- IF stopped THEN 0 ELSE 1, motion <- request, still <- TRUE

\* The StopMove is the last request.  This rests on cancelling the timer: the
\* clock may be set back below three seconds once more, and stopped_ does not
\* keep a tick from moving then.
FollowsPlan == Plan!Spec

\* The robot is told to stop.
Stops == <>stopped

=============================================================================
