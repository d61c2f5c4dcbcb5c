--------------------------- MODULE OpenLoopMission ---------------------------
(***************************************************************************)
(* The node of src/hailo_robot_control/src/state_machine_test.cpp: forward,*)
(* stop, turn, stop, forward, each for a fixed time, then StopMove and     *)
(* Damp in one and the same tick.  Nothing is read from the robot.         *)
(***************************************************************************)
EXTENDS WallTimer, Sequences

CONSTANTS
  ForwardLimit,     \* 3.0 s: FORWARD1 and FORWARD2
  TurnLimit,        \* 4.3 s: TURN_LEFT
  StopLimit         \* 1.0 s: STOP1 and STOP2

ASSUME TimesAssumption ==
  \A limit \in {ForwardLimit, TurnLimit, StopLimit} : Measurable(limit)

VARIABLES
  current_state,    \* current_state_
  sent              \* what the last tick gave to sport_client_, in order

vars == <<current_state, sent, time, due, timer_active>>

RobotState == {"FORWARD1", "STOP1", "TURN_LEFT", "STOP2", "FORWARD2", "DONE"}

Motions == {"forward", "turn"}

Limit(s) ==
  CASE s \in {"FORWARD1", "FORWARD2"} -> ForwardLimit
    [] s = "TURN_LEFT"                -> TurnLimit
    [] OTHER                          -> StopLimit

\* The state the else-if chain goes to when the time of s is over.
After(s) ==
  CASE s = "FORWARD1"  -> "STOP1"
    [] s = "STOP1"     -> "TURN_LEFT"
    [] s = "TURN_LEFT" -> "STOP2"
    [] s = "STOP2"     -> "FORWARD2"
    [] OTHER           -> "DONE"

\* Wrong variant: the mission ends without its StopMove.
CommandsOnlyDamp(s) ==
  CASE s \in {"FORWARD1", "FORWARD2"} -> <<"forward">>
    [] s = "TURN_LEFT"                -> <<"turn">>
    [] s = "DONE"                     -> <<"damp">>
    [] OTHER                          -> <<"stop">>

Commands(s) ==
  CASE s \in {"FORWARD1", "FORWARD2"} -> <<"forward">>  \* Move(0.3, 0, 0)
    [] s = "TURN_LEFT"                -> <<"turn">>     \* Move(0, 0, 0.8)
    [] s = "DONE"                     -> <<"stop", "damp">>
    [] OTHER                          -> <<"stop">>

-----------------------------------------------------------------------------
Init ==
  /\ current_state = "FORWARD1"
  /\ sent = << >>
  /\ TimerCreated

\* Wrong variant: the timer outlives the mission.
KeepsTimerAlways(s) == s \in RobotState

KeepsTimer(s) == s # "DONE"

Act(s) ==
  /\ current_state' = s
  /\ sent' = Commands(s)
  /\ timer_active' = KeepsTimer(s)

\* Wrong variant: a strict comparison with the limit.
ExpiredLate == current_state # "DONE" /\ elapsed > Limit(current_state)

Expired == current_state # "DONE" /\ elapsed >= Limit(current_state)

\* Wrong variant: the new state does not restart its clock.
AdvanceOnOldClock ==
  /\ Expired
  /\ elapsed' = elapsed /\ driven' = 0 /\ slew' = 0
  /\ Act(After(current_state))

AdvanceState == Expired /\ RestartClock /\ Act(After(current_state))

Remain == ~Expired /\ UNCHANGED time /\ Act(current_state)

TimerCallback == TimerFires /\ (AdvanceState \/ Remain)

Advance == PeriodPasses /\ UNCHANGED <<current_state, sent>>

StepClock(step) == ClockSet(step) /\ UNCHANGED <<current_state, sent>>

Next ==
  \/ TimerCallback
  \/ Advance
  \/ \E step \in ClockSteps : StepClock(step)

Spec == Init /\ [][Next]_vars

\* The timer keeps being served and time keeps passing.
FairSpec == Spec /\ WF_vars(TimerCallback) /\ WF_vars(Advance)

-----------------------------------------------------------------------------
\* Every variable keeps its type; the timer is cancelled in DONE and only there.
TypeOK ==
  /\ current_state \in RobotState
  /\ sent \in {<< >>} \cup {Commands(s) : s \in RobotState}
  /\ TimerOK
  /\ timer_active = (current_state # "DONE")

\* What the robot was last asked for, Damp being asked of a robot that has been
\* told to stop.
Motion ==
  CASE sent = << >>              -> "none"
    [] sent = <<"stop", "damp">> -> "stop"
    [] OTHER                     -> sent[1]

\* A Move is in force for at most the time of its leg, the delay of the
\* executor and the time the system clock was set back meanwhile.
MotionBounded ==
  Motion \in Motions => driven < Limit(current_state) + MaxDelay + slew

\* No leg is cut short: as long as the clock is not set ahead, a state is left no
\* earlier than its time, however irregularly the timer is served.
LegsInFull ==
  [][ current_state' # current_state => driven >= Limit(current_state) ]_vars

Leg ==
  CASE current_state \in {"FORWARD1", "STOP1"}  -> 1
    [] current_state \in {"TURN_LEFT", "STOP2"} -> 2
    [] current_state = "FORWARD2"               -> 3
    [] OTHER                                    -> 0

\* Without odometry the node takes it that its StopMoves have been obeyed.
Plan == INSTANCE DrivePlan WITH
  Route <- <<"forward", "turn", "forward">>, Exits <- {3},
  leg <- Leg, motion <- Motion, still <- TRUE

\* The node drives its route as DrivePlan promises: no leg is skipped when a
\* tick comes late, a stop comes between any two motions, StopMove comes before
\* Damp, and nothing is asked afterwards.
FollowsPlan == Plan!Spec

\* The mission ends by itself, also when the clock is set back a few times.
MissionCompletes == <>[](~timer_active)

=============================================================================
