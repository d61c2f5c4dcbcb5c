--------------------------- MODULE FeedbackMission ---------------------------
(***************************************************************************)
(* The node of src/hailo_robot_control/src/feedback_based.cpp: a patrol    *)
(* of the Go2 robot (forward, stop, turn, stop, forward, and an evasive    *)
(* turn when an obstacle shows up on the second leg) driven by the robot's *)
(* own odometry.                                                           *)
(*                                                                         *)
(* One executor thread runs three handlers: the 100 ms wall timer          *)
(* (timer_callback) and the subscriptions to lf/sportmodestate and         *)
(* /obstacle_detected.  The subscriptions deliver any message at any time  *)
(* here; ClosedLoop and ObstaclePath put their publishers around the node.  *)
(*                                                                         *)
(* WallTimer has the timer and the clock of the timeouts.                  *)
(***************************************************************************)
EXTENDS WallTimer

CONSTANTS
  Readings,         \* the SportModeState messages the robot may report
  ForwardTarget,    \* 1.0 m: length of a forward leg
  TurnTarget,       \* 2.6 rad: yaw that ends TURN_LEFT
  AvoidTarget,      \* 0.8 rad: yaw that ends AVOID_TURN
  HalfCircle,       \* pi, in the same unit as the two targets
  ForwardLimit,     \* 6.0 s: timeout of FORWARD1 and FORWARD2
  TurnLimit,        \* 6.0 s: timeout of TURN_LEFT
  AvoidTurnLimit,   \* 3.0 s: timeout of AVOID_TURN
  StopDwell         \* 0.5 s: least stay in a stop state

Position == [x : Int, y : Int]

ASSUME ReadingsAssumption ==
  Readings \subseteq [pos : Position, yaw : Int, moving : BOOLEAN]

ASSUME TargetsAssumption ==
  /\ {ForwardTarget, TurnTarget, AvoidTarget, HalfCircle} \subseteq Nat \ {0}

ASSUME TimesAssumption ==
  \A limit \in {ForwardLimit, TurnLimit, AvoidTurnLimit, StopDwell} :
    Measurable(limit)

VARIABLES
  current_state,        \* current_state_
  latest,               \* latest_state_, as much of it as the node reads
  state_received,       \* state_received_
  obstacle_detected,    \* obstacle_detected_
  turn_start_yaw,       \* turn_start_yaw_
  turn_initialized,     \* turn_initialized_
  forward1_start,       \* forward1_start_x_, forward1_start_y_
  forward1_initialized, \* forward1_initialized_
  forward2_start,       \* forward2_start_x_, forward2_start_y_
  forward2_initialized, \* forward2_initialized_
  request               \* the last request given to sport_client_

inputs   == <<latest, state_received, obstacle_detected>>
turn     == <<turn_start_yaw, turn_initialized>>
forward1 == <<forward1_start, forward1_initialized>>
forward2 == <<forward2_start, forward2_initialized>>
vars     == <<current_state, inputs, turn, forward1, forward2, time, due,
              timer_active, request>>

-----------------------------------------------------------------------------
(***************************************************************************)
(* The states of the mission and what the handler publishes in each.       *)
(***************************************************************************)
RobotState == {"FORWARD1", "STOP1", "TURN_LEFT", "STOP2", "FORWARD2",
               "AVOID_STOP", "AVOID_TURN", "DONE"}

Turning  == {"TURN_LEFT", "AVOID_TURN"}
Forward  == {"FORWARD1", "FORWARD2"}
Stopping == {"STOP1", "STOP2", "AVOID_STOP", "DONE"}

Motions  == {"forward", "turn", "avoid_turn"}

Command(s) ==
  CASE s \in Forward      -> "forward"      \* Move(req, 0.3, 0, 0)
    [] s = "TURN_LEFT"    -> "turn"         \* Move(req, 0, 0, 0.6)
    [] s = "AVOID_TURN"   -> "avoid_turn"   \* Move(req, 0, 0, 0.5)
    [] OTHER              -> "stop"         \* StopMove(req)

Limit(s) ==
  CASE s \in Forward      -> ForwardLimit
    [] s = "TURN_LEFT"    -> TurnLimit
    [] OTHER              -> AvoidTurnLimit

-----------------------------------------------------------------------------
(***************************************************************************)
(* What the handler computes from the latest reading.  A yaw is an angle   *)
(* in -pi..pi, so the difference of two needs at most one turn of either   *)
(* loop of normalize_angle.                                                *)
(***************************************************************************)
NormalizeAngle(angle) ==
  IF angle > HalfCircle THEN angle - 2 * HalfCircle
  ELSE IF angle < -HalfCircle THEN angle + 2 * HalfCircle
  ELSE angle

YawDelta == NormalizeAngle(latest.yaw - turn_start_yaw)

Distance2(p, q) == (p.x - q.x) * (p.x - q.x) + (p.y - q.y) * (p.y - q.y)

Arrived(start, initialized) ==
  initialized /\ Distance2(latest.pos, start) >= ForwardTarget * ForwardTarget

Turned(target) == turn_initialized /\ YawDelta >= target

\* Wrong variant: a strict comparison with the timeout.
ExpiredLate == elapsed > Limit(current_state)

Expired == elapsed >= Limit(current_state)

\* Wrong variant: the dwell alone, without is_robot_stopped.
SettledByTime == elapsed >= StopDwell

\* Wrong variant: is_robot_stopped alone, without the dwell.
SettledByReading == ~latest.moving

Settled == elapsed >= StopDwell /\ ~latest.moving

-----------------------------------------------------------------------------
Origin == [x |-> 0, y |-> 0]

\* The node as constructed: nothing received, the clock of FORWARD1 running.
Init ==
  /\ current_state = "FORWARD1"
  /\ latest = [pos |-> Origin, yaw |-> 0, moving |-> FALSE]
  /\ state_received = FALSE
  /\ obstacle_detected = FALSE
  /\ turn_start_yaw = 0 /\ turn_initialized = FALSE
  /\ forward1_start = Origin /\ forward1_initialized = FALSE
  /\ forward2_start = Origin /\ forward2_initialized = FALSE
  /\ TimerCreated
  /\ request = "none"

-----------------------------------------------------------------------------
(***************************************************************************)
(* The second half of timer_callback: the start of a leg is latched on     *)
(* the tick that enters it, then the request of the state is published,    *)
(* and DONE cancels the timer.                                             *)
(***************************************************************************)
LatchYaw(s, initialized) ==
  IF s \in Turning /\ ~initialized
  THEN turn_start_yaw' = latest.yaw /\ turn_initialized' = TRUE
  ELSE turn_start_yaw' = turn_start_yaw /\ turn_initialized' = initialized

LatchForward1(s) ==
  IF s = "FORWARD1" /\ ~forward1_initialized
  THEN forward1_start' = latest.pos /\ forward1_initialized' = TRUE
  ELSE UNCHANGED forward1

\* Wrong variant: the latch tests its flag the wrong way round.
LatchForward2Inverted(s, initialized) ==
  IF s = "FORWARD2" /\ initialized
  THEN forward2_start' = latest.pos /\ forward2_initialized' = TRUE
  ELSE forward2_start' = forward2_start /\ forward2_initialized' = initialized

LatchForward2(s, initialized) ==
  IF s = "FORWARD2" /\ ~initialized
  THEN forward2_start' = latest.pos /\ forward2_initialized' = TRUE
  ELSE forward2_start' = forward2_start /\ forward2_initialized' = initialized

\* Wrong variant: the timer outlives the mission.
KeepsTimerAlways(s) == s \in RobotState

KeepsTimer(s) == s # "DONE"

Act(s, turnInitialized, forward2Initialized) ==
  /\ LatchYaw(s, turnInitialized)
  /\ LatchForward1(s)
  /\ LatchForward2(s, forward2Initialized)
  /\ current_state' = s
  /\ request' = Command(s)
  /\ timer_active' = KeepsTimer(s)

\* A transition that leaves the latches alone.
GoTo(s) == RestartClock /\ Act(s, turn_initialized, forward2_initialized)

(***************************************************************************)
(* The transitions, the first half of timer_callback: an else-if chain     *)
(* that takes at most one of them per tick, the obstacle before arrival.   *)
(***************************************************************************)
\* Wrong variant: a turn ends by its yaw alone.
LegOverUntimedTurn ==
  CASE current_state = "FORWARD1"   ->
         Arrived(forward1_start, forward1_initialized) \/ Expired
    [] current_state = "TURN_LEFT"  -> Turned(TurnTarget)
    [] current_state = "FORWARD2"   ->
         Arrived(forward2_start, forward2_initialized) \/ Expired
    [] current_state = "AVOID_TURN" -> Turned(AvoidTarget) \/ Expired
    [] current_state = "DONE"       -> FALSE
    [] OTHER                        -> Settled

LegOver ==
  CASE current_state = "FORWARD1"   ->
         Arrived(forward1_start, forward1_initialized) \/ Expired
    [] current_state = "TURN_LEFT"  -> Turned(TurnTarget) \/ Expired
    [] current_state = "FORWARD2"   ->
         Arrived(forward2_start, forward2_initialized) \/ Expired
    [] current_state = "AVOID_TURN" -> Turned(AvoidTarget) \/ Expired
    [] current_state = "DONE"       -> FALSE
    [] OTHER                        -> Settled

\* Wrong variant: arrival is tested before the obstacle.
BlockedAfterArrival ==
  current_state = "FORWARD2" /\ obstacle_detected /\ ~LegOver

Blocked == current_state = "FORWARD2" /\ obstacle_detected

LeaveForward1 ==
  /\ current_state = "FORWARD1" /\ LegOver
  /\ GoTo("STOP1")

LeaveStop1 ==
  /\ current_state = "STOP1" /\ LegOver
  /\ RestartClock /\ Act("TURN_LEFT", FALSE, forward2_initialized)

LeaveTurnLeft ==
  /\ current_state = "TURN_LEFT" /\ LegOver
  /\ GoTo("STOP2")

LeaveStop2 ==
  /\ current_state = "STOP2" /\ LegOver
  /\ RestartClock /\ Act("FORWARD2", turn_initialized, FALSE)

Evade ==
  /\ Blocked
  /\ GoTo("AVOID_STOP")

LeaveForward2 ==
  /\ current_state = "FORWARD2" /\ ~Blocked /\ LegOver
  /\ GoTo("DONE")

\* Wrong variant: the latch of the first turn is not taken back.
LeaveAvoidStopLatched ==
  /\ current_state = "AVOID_STOP" /\ LegOver
  /\ GoTo("AVOID_TURN")

LeaveAvoidStop ==
  /\ current_state = "AVOID_STOP" /\ LegOver
  /\ RestartClock /\ Act("AVOID_TURN", FALSE, forward2_initialized)

LeaveAvoidTurn ==
  /\ current_state = "AVOID_TURN" /\ LegOver
  /\ GoTo("DONE")

Remain ==
  /\ ~Blocked /\ ~LegOver
  /\ Act(current_state, turn_initialized, forward2_initialized)
  /\ UNCHANGED time

MissionTick ==
  \/ LeaveForward1 \/ LeaveStop1 \/ LeaveTurnLeft \/ LeaveStop2
  \/ Evade \/ LeaveForward2 \/ LeaveAvoidStop \/ LeaveAvoidTurn
  \/ Remain

\* The early return: no odometry yet, nothing is published.
AwaitFeedback ==
  /\ ~state_received
  /\ UNCHANGED <<current_state, turn, forward1, forward2, time, timer_active,
                 request>>

TimerCallback ==
  /\ TimerFires
  /\ AwaitFeedback \/ (state_received /\ MissionTick)
  /\ UNCHANGED inputs

-----------------------------------------------------------------------------
(***************************************************************************)
(* The two subscriptions.                                                  *)
(***************************************************************************)
StateCallback(msg) ==
  /\ latest' = msg
  /\ state_received' = TRUE
  /\ UNCHANGED <<current_state, obstacle_detected, turn, forward1, forward2,
                 time, due, timer_active, request>>

ObstacleCallback(data) ==
  /\ obstacle_detected' = data
  /\ UNCHANGED <<current_state, latest, state_received, turn, forward1,
                 forward2, time, due, timer_active, request>>

-----------------------------------------------------------------------------
Advance ==
  /\ PeriodPasses
  /\ UNCHANGED <<current_state, inputs, turn, forward1, forward2, request>>

StepClock(step) ==
  /\ ClockSet(step)
  /\ UNCHANGED <<current_state, inputs, turn, forward1, forward2, request>>

Next ==
  \/ TimerCallback
  \/ \E msg \in Readings : StateCallback(msg)
  \/ \E data \in BOOLEAN : ObstacleCallback(data)
  \/ Advance
  \/ \E step \in ClockSteps : StepClock(step)

Spec == Init /\ [][Next]_vars

\* The timer keeps being served and time keeps passing; nothing is assumed
\* of the robot or of the camera.
FairSpec == Spec /\ WF_vars(TimerCallback) /\ WF_vars(Advance)

-----------------------------------------------------------------------------
(***************************************************************************)
(* Properties.                                                             *)
(***************************************************************************)

\* Every variable keeps its type; in particular the timer is cancelled in DONE
\* and only there.
TypeOK ==
  /\ current_state \in RobotState
  /\ latest \in [pos : Position, yaw : Int, moving : BOOLEAN]
  /\ state_received \in BOOLEAN /\ obstacle_detected \in BOOLEAN
  /\ turn_start_yaw \in Int /\ turn_initialized \in BOOLEAN
  /\ forward1_start \in Position /\ forward1_initialized \in BOOLEAN
  /\ forward2_start \in Position /\ forward2_initialized \in BOOLEAN
  /\ TimerOK
  /\ timer_active = (current_state # "DONE")
  /\ request \in Motions \cup {"none", "stop"}

\* While the robot has been told to turn or to drive, the start of that leg is
\* latched: the distance and the yaw the guards of timer_callback compare with
\* their targets are never taken from a default or a disabled anchor.
LegsAnchored ==
  /\ current_state \in Turning => turn_initialized
  /\ current_state = "FORWARD2" => forward2_initialized
  /\ current_state = "FORWARD1" /\ request # "none" => forward1_initialized

\* The anchor belongs to its leg: the tick that enters a leg latches the very
\* reading that tick sees, never the start of an earlier turn that used the
\* same variables, and the anchor does not drift while the leg lasts.
AnchorOfItsLeg ==
  [][ /\ current_state' \in Turning =>
           turn_start_yaw' = IF current_state' = current_state
                             THEN turn_start_yaw ELSE latest.yaw
      /\ current_state' = "FORWARD2" =>
           forward2_start' = IF current_state' = current_state
                             THEN forward2_start ELSE latest.pos
    ]_vars

\* No sensor can keep the robot moving: a Move is in force for at most the
\* timeout of its state, the delay of the executor and the time the system
\* clock was set back meanwhile, all in steady time.
MotionBounded ==
  request \in Motions => driven < Limit(current_state) + MaxDelay + slew

\* Where the node is in the route, for the mission that DrivePlan describes.
Leg ==
  CASE current_state \in {"FORWARD1", "STOP1"}      -> 1
    [] current_state \in {"TURN_LEFT", "STOP2"}     -> 2
    [] current_state \in {"FORWARD2", "AVOID_STOP"} -> 3
    [] current_state = "AVOID_TURN"                 -> 4
    [] OTHER                                        -> 0

Plan == INSTANCE DrivePlan WITH
  Route <- <<"forward", "turn", "forward", "avoid_turn">>,
  Exits <- {3, 4},
  leg <- Leg, motion <- request, still <- ~latest.moving

\* The node drives its route as DrivePlan promises: never from one motion into
\* another, the next leg only after a report that the robot stands still, and
\* a StopMove as the last thing it ever asks.
FollowsPlan == Plan!Spec

\* Once the node drives the second leg, an obstacle message is answered by the
\* very next request, whatever the odometry says by then: no tick that sees
\* the flag lets the robot drive on, and none takes arrival or the timeout for
\* the end of the mission instead of evading.
ObstacleFirst ==
  [][ current_state = "FORWARD2" /\ obstacle_detected /\ due' < due =>
        request' = "stop" /\ current_state' = "AVOID_STOP" ]_vars

\* A moving state never lasts for ever once odometry has arrived, even if it
\* never arrives again or never shows progress: the timeouts written for a
\* sensor fault do their work.
MovingStatesEnd ==
  \A s \in Forward \cup Turning :
    (current_state = s /\ state_received) ~> (current_state # s)

\* If the robot ends up reporting that it stands still, the mission completes
\* and the timer is cancelled; this premise is needed because a stop state has
\* no timeout.
MissionCompletes ==
  <>[](state_received /\ ~latest.moving) => <>[](~timer_active)

-----------------------------------------------------------------------------
(***************************************************************************)
(* What comments of the source say and the code does not do.               *)
(***************************************************************************)

\* Line 120: TURN_LEFT has turned "180 degrees or more" when it ends because of
\* its yaw.
TurnsHalfCircle ==
  [][ current_state = "TURN_LEFT" /\ current_state' = "STOP2" /\ ~Expired =>
        YawDelta >= HalfCircle ]_vars

\* Line 215: the start position is initialized when FORWARD1 is entered, so it
\* is known by the time the leg is over.
Forward1HasStart ==
  current_state # "FORWARD1" => forward1_initialized

=============================================================================
