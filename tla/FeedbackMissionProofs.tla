------------------------ MODULE FeedbackMissionProofs ------------------------
(***************************************************************************)
(* Proofs about FeedbackMission, for every set of readings, every target,  *)
(* every timeout, every delay of the executor and every step of the clock, *)
(* and about ClosedLoop, for every latency of its topics.                  *)
(*                                                                         *)
(* The argument is layered: TypeOK is inductive on its own; SafeInv adds   *)
(* what the node has asked for and which starts it has recorded; MotionInv *)
(* adds what the clocks allow.  The refinement of DrivePlan and the action *)
(* properties then follow step by step.  LoopInv adds to SafeInv what the  *)
(* topics carry.                                                           *)
(***************************************************************************)
EXTENDS ClosedLoop, WallTimerProofs

USE DEF RobotState, Turning, Forward, Motions

-----------------------------------------------------------------------------
(***************************************************************************)
(* Type correctness.                                                       *)
(***************************************************************************)

\* What a tick that moves to state s, or stays in it, leaves behind.
LEMMA ActType ==
  ASSUME TypeOK, NEW s \in RobotState, NEW ti \in BOOLEAN, NEW fi \in BOOLEAN,
         Act(s, ti, fi)
  PROVE  /\ current_state' = s
         /\ turn_start_yaw' \in Int /\ turn_initialized' \in BOOLEAN
         /\ forward1_start' \in Position /\ forward1_initialized' \in BOOLEAN
         /\ forward2_start' \in Position /\ forward2_initialized' \in BOOLEAN
         /\ timer_active' = (s # "DONE")
         /\ request' = Command(s)
         /\ request' \in Motions \cup {"stop"}
<1>1. latest.pos \in Position /\ latest.yaw \in Int
  BY DEF TypeOK
<1>2. turn_start_yaw' \in Int /\ turn_initialized' \in BOOLEAN
  BY <1>1 DEF TypeOK, Act, LatchYaw
<1>3. forward1_start' \in Position /\ forward1_initialized' \in BOOLEAN
  BY <1>1 DEF TypeOK, Act, LatchForward1, forward1
<1>4. forward2_start' \in Position /\ forward2_initialized' \in BOOLEAN
  BY <1>1 DEF TypeOK, Act, LatchForward2
<1>5. /\ current_state' = s
      /\ timer_active' = (s # "DONE")
      /\ request' = Command(s)
      /\ request' \in Motions \cup {"stop"}
  BY DEF Act, KeepsTimer, Command
<1> QED BY <1>2, <1>3, <1>4, <1>5

\* Every branch of the else-if chain ends in Act with some arguments, and it
\* restarts the clock unless the node stays where it is.
LEMMA TickForm ==
  ASSUME TypeOK, MissionTick
  PROVE  \E s \in RobotState, ti \in BOOLEAN, fi \in BOOLEAN :
           /\ Act(s, ti, fi)
           /\ \/ RestartClock
              \/ s = current_state /\ ~LegOver /\ UNCHANGED time
<1>1. turn_initialized \in BOOLEAN /\ forward2_initialized \in BOOLEAN
      /\ current_state \in RobotState
  BY DEF TypeOK
<1>2. CASE Remain
  BY <1>1, <1>2 DEF Remain
<1>3. CASE LeaveStop1
  BY <1>1, <1>3 DEF LeaveStop1
<1>4. CASE LeaveStop2
  BY <1>1, <1>4 DEF LeaveStop2
<1>5. CASE LeaveAvoidStop
  BY <1>1, <1>5 DEF LeaveAvoidStop
<1>6. CASE \/ LeaveForward1 \/ LeaveTurnLeft \/ Evade
           \/ LeaveForward2 \/ LeaveAvoidTurn
  <2>1. PICK s \in RobotState : GoTo(s)
    BY <1>6 DEF LeaveForward1, LeaveTurnLeft, Evade, LeaveForward2,
                LeaveAvoidTurn
  <2> QED BY <1>1, <2>1 DEF GoTo
<1> QED BY <1>2, <1>3, <1>4, <1>5, <1>6 DEF MissionTick

LEMMA TypeInit == Init => TypeOK
<1> SUFFICES ASSUME Init PROVE TypeOK
  OBVIOUS
<1>1. Origin \in Position
  BY DEF Origin, Position
<1>2. latest \in [pos : Position, yaw : Int, moving : BOOLEAN]
  BY <1>1 DEF Init
<1>3. TimerOK /\ timer_active = TRUE
  BY CreatedOK DEF Init, TimerCreated
<1> QED BY <1>1, <1>2, <1>3 DEF Init, TypeOK

LEMMA TypeStep == TypeOK /\ [Next]_vars => TypeOK'
<1> SUFFICES ASSUME TypeOK, [Next]_vars PROVE TypeOK'
  OBVIOUS
<1>1. CASE TimerCallback
  <2>1. TimerFires /\ UNCHANGED <<latest, state_received, obstacle_detected>>
    BY <1>1 DEF TimerCallback, inputs
  <2>2. TimerOK
    BY DEF TypeOK
  <2>3. CASE AwaitFeedback
    <3>1. TimerOK'
      BY <2>1, <2>2, <2>3, FiredOK DEF AwaitFeedback, TimerOK
    <3> QED BY <2>1, <2>3, <3>1 DEF AwaitFeedback, TypeOK, turn, forward1,
                                    forward2
  <2>4. CASE MissionTick
    <3>1. PICK s \in RobotState, ti \in BOOLEAN, fi \in BOOLEAN :
            Act(s, ti, fi) /\ (RestartClock \/ UNCHANGED time)
      BY <2>4, TickForm
    <3>2. timer_active' = (s # "DONE")
      BY <3>1, ActType
    <3>3. TimerOK'
      BY <2>1, <2>2, <3>1, <3>2, FiredOK
    <3> QED BY <2>1, <3>1, <3>3, ActType DEF TypeOK
  <2> QED BY <1>1, <2>3, <2>4 DEF TimerCallback
<1>2. ASSUME NEW msg \in Readings, StateCallback(msg) PROVE TypeOK'
  BY <1>2, ReadingsAssumption DEF StateCallback, TypeOK, TimerOK, turn,
                                  forward1, forward2, time
<1>3. ASSUME NEW data \in BOOLEAN, ObstacleCallback(data) PROVE TypeOK'
  BY <1>3 DEF ObstacleCallback, TypeOK, TimerOK, turn, forward1, forward2, time
<1>4. CASE Advance \/ \E step \in ClockSteps : StepClock(step)
  <2>1. TimerOK'
    BY <1>4, PeriodOK, ClockSetOK, StepsAreInt DEF Advance, StepClock, TypeOK
  <2>2. UNCHANGED <<current_state, latest, state_received, obstacle_detected,
                    turn, forward1, forward2, timer_active, request>>
    BY <1>4 DEF Advance, StepClock, PeriodPasses, ClockSet, inputs
  <2> QED BY <2>1, <2>2 DEF TypeOK, turn, forward1, forward2
<1>5. CASE UNCHANGED vars
  BY <1>5 DEF TypeOK, TimerOK, vars, inputs, turn, forward1, forward2, time
<1> QED BY <1>1, <1>2, <1>3, <1>4, <1>5 DEF Next

\* TypeOK holds in every behaviour, whatever the constants.
THEOREM TypeCorrect == Spec => []TypeOK
<1> QED BY TypeInit, TypeStep, PTL DEF Spec

-----------------------------------------------------------------------------
(***************************************************************************)
(* What the node has asked of the robot, and what it knew when it did.     *)
(***************************************************************************)

\* Nothing is asked, and no state is left, before odometry has arrived; and
\* from then on the last request is the one of the current state.
RequestOfState ==
  /\ request # "none" \/ current_state # "FORWARD1" => state_received
  /\ \/ request = Command(current_state)
     \/ current_state = "FORWARD1" /\ request = "none"

SafeInv == TypeOK /\ RequestOfState /\ LegsAnchored

LEMMA SafeInit == Init => SafeInv
BY TypeInit DEF SafeInv, Init, RequestOfState, LegsAnchored

LEMMA SafeStep == SafeInv /\ [Next]_vars => SafeInv'
<1> SUFFICES ASSUME SafeInv, [Next]_vars PROVE SafeInv'
  OBVIOUS
<1>0. TypeOK /\ TypeOK'
  BY TypeStep DEF SafeInv
<1>1. CASE TimerCallback
  <2>1. CASE AwaitFeedback
    BY <1>0, <1>1, <2>1
    DEF TimerCallback, AwaitFeedback, SafeInv, RequestOfState, LegsAnchored,
        Command, inputs, turn, forward1, forward2
  <2>2. CASE state_received /\ MissionTick
    <3>1. PICK s \in RobotState, ti \in BOOLEAN, fi \in BOOLEAN :
            Act(s, ti, fi)
      BY <1>0, <2>2, TickForm
    <3>2. state_received'
      BY <1>1, <2>2 DEF TimerCallback, inputs
    <3>3. current_state' = s /\ request' = Command(s)
      BY <3>1 DEF Act
    <3>4. RequestOfState'
      BY <3>2, <3>3 DEF RequestOfState, Command
    <3>5. s \in Turning => turn_initialized'
      BY <3>1 DEF Act, LatchYaw
    <3>6. s = "FORWARD2" => forward2_initialized'
      BY <3>1 DEF Act, LatchForward2
    <3>7. s = "FORWARD1" => forward1_initialized'
      BY <1>0, <3>1 DEF Act, LatchForward1, forward1, TypeOK
    <3> QED BY <1>0, <3>3, <3>4, <3>5, <3>6, <3>7 DEF SafeInv, LegsAnchored
  <2> QED BY <1>1, <2>1, <2>2 DEF TimerCallback
<1>2. ASSUME NEW msg \in Readings, StateCallback(msg) PROVE SafeInv'
  BY <1>0, <1>2 DEF StateCallback, SafeInv, RequestOfState, LegsAnchored,
                    Command, turn, forward1, forward2
<1>3. CASE \/ \E data \in BOOLEAN : ObstacleCallback(data)
           \/ Advance
           \/ \E step \in ClockSteps : StepClock(step)
           \/ UNCHANGED vars
  <2>1. UNCHANGED <<current_state, state_received, request, turn, forward1,
                    forward2>>
    BY <1>3 DEF ObstacleCallback, Advance, StepClock, vars, inputs
  <2> QED BY <1>0, <2>1 DEF SafeInv, RequestOfState, LegsAnchored, Command,
                            turn, forward1, forward2
<1> QED BY <1>1, <1>2, <1>3 DEF Next

\* The distance and yaw of a leg are always measured from a latched start.
THEOREM LegsAreAnchored == Spec => []LegsAnchored
<1>1. SafeInv => LegsAnchored
  BY DEF SafeInv
<1> QED BY <1>1, SafeInit, SafeStep, PTL DEF Spec

-----------------------------------------------------------------------------
(***************************************************************************)
(* The bound on a Move.  The timeout is read off a clock that may have     *)
(* been set back, and a tick that comes late sees it late; hence the two   *)
(* bounds below: Timely is about the clocks, and Within is what the last   *)
(* tick established, aged by the periods since.                            *)
(***************************************************************************)
DriveInv == Timely /\ (request \in Motions => Within(Limit(current_state)))

MotionInv == SafeInv /\ DriveInv

LEMMA LimitType ==
  ASSUME NEW s PROVE Limit(s) \in Nat \ {0}
BY TimesAssumption DEF Measurable, Limit

LEMMA MotionInit == Init => MotionInv
BY SafeInit, CreatedOK DEF MotionInv, DriveInv, Init, Motions

LEMMA MotionStep == MotionInv /\ [Next]_vars => MotionInv'
<1> SUFFICES ASSUME MotionInv, [Next]_vars PROVE DriveInv'
  BY SafeStep DEF MotionInv
<1>0. /\ SafeInv /\ TypeOK /\ TimerOK /\ Timely
      /\ request \in Motions => Within(Limit(current_state))
      /\ Limit(current_state) \in Nat \ {0}
      /\ Limit(current_state') \in Nat \ {0}
  BY LimitType DEF MotionInv, DriveInv, SafeInv, TypeOK
<1>1. CASE TimerCallback
  <2>0. TimerFires
    BY <1>1 DEF TimerCallback
  <2>1. CASE AwaitFeedback
    <3>1. UNCHANGED <<elapsed, driven, slew, request>> /\ ~state_received
      BY <2>1 DEF AwaitFeedback, time
    <3>2. request \notin Motions
      BY <1>0, <3>1 DEF SafeInv, RequestOfState
    <3> QED BY <1>0, <3>1, <3>2 DEF DriveInv, Timely
  <2>2. CASE state_received /\ MissionTick
    <3>1. PICK s \in RobotState, ti \in BOOLEAN, fi \in BOOLEAN :
            /\ Act(s, ti, fi)
            /\ \/ RestartClock
               \/ s = current_state /\ ~LegOver /\ UNCHANGED time
      BY <1>0, <2>2, TickForm
    <3>2. current_state' = s /\ request' = Command(s)
      BY <3>1 DEF Act
    <3>3. Timely'
      BY <1>0, <3>1, FiredTimely
    <3>4. ASSUME request' \in Motions
          PROVE  driven' <= Limit(current_state') - 1 + due' + slew'
      <4>1. CASE RestartClock
        BY <1>0, <2>0, <4>1 DEF RestartClock, TimerFires
      <4>2. CASE s = current_state /\ ~LegOver /\ UNCHANGED time
        <5>1. s \in Forward \cup Turning
          BY <3>2, <3>4 DEF Command
        <5>2. ~Expired
          BY <4>2, <5>1 DEF LegOver
        <5>3. elapsed < Limit(current_state)
          BY <1>0, <5>2 DEF Expired, TimerOK
        <5>4. Limit(current_state') = Limit(current_state)
          BY <3>2, <4>2
        <5>5. due' = 0 /\ driven' = driven /\ slew' = slew
          BY <2>0, <4>2 DEF TimerFires, time
        <5> QED BY <1>0, <5>3, <5>4, <5>5 DEF Timely, TimerOK
      <4> QED BY <3>1, <4>1, <4>2
    <3> QED BY <3>3, <3>4 DEF DriveInv, Within
  <2> QED BY <1>1, <2>1, <2>2 DEF TimerCallback
<1>2. CASE Advance
  <2>1. PeriodPasses /\ UNCHANGED <<request, current_state>>
    BY <1>2 DEF Advance
  <2>2. Timely'
    BY <1>0, <2>1, PeriodTimely
  <2>3. request \in Motions =>
          driven' <= Limit(current_state) - 1 + due' + slew'
    BY <1>0, <2>1, PeriodWithin
  <2> QED BY <2>1, <2>2, <2>3 DEF DriveInv, Within
<1>3. ASSUME NEW step \in ClockSteps, StepClock(step) PROVE DriveInv'
  <2>1. ClockSet(step) /\ UNCHANGED <<request, current_state>>
    BY <1>3 DEF StepClock
  <2>2. Timely'
    BY <1>0, <2>1, StepsAreInt, ClockSetTimely
  <2>3. request \in Motions =>
          driven' <= Limit(current_state) - 1 + due' + slew'
    BY <1>0, <2>1, StepsAreInt, ClockSetWithin
  <2> QED BY <2>1, <2>2, <2>3 DEF DriveInv, Within
<1>4. CASE \/ \E msg \in Readings : StateCallback(msg)
           \/ \E data \in BOOLEAN : ObstacleCallback(data)
           \/ UNCHANGED vars
  <2>1. UNCHANGED <<time, due, request, current_state>>
    BY <1>4 DEF StateCallback, ObstacleCallback, vars
  <2> QED BY <1>0, <2>1 DEF DriveInv, Timely, Within, time
<1> QED BY <1>1, <1>2, <1>3, <1>4 DEF Next

\* Whatever the sensors report and however the clock is set, no Move is in
\* force for longer than its timeout, the delay of the executor and the slew.
THEOREM MotionIsBounded == Spec => []MotionBounded
<1>1. MotionInv => MotionBounded
  <2> SUFFICES ASSUME MotionInv, request \in Motions
               PROVE  driven < Limit(current_state) + MaxDelay + slew
    BY DEF MotionBounded
  <2>1. driven <= Limit(current_state) - 1 + due + slew
    BY DEF MotionInv, DriveInv, Within
  <2>2. TimerOK /\ Limit(current_state) \in Nat /\ MaxDelay \in Nat
    BY LimitType, ClockAssumption
    DEF ClockAssumption, MotionInv, SafeInv, TypeOK
  <2> QED BY <2>1, <2>2 DEF TimerOK
<1> QED BY <1>1, MotionInit, MotionStep, PTL DEF Spec

-----------------------------------------------------------------------------
(***************************************************************************)
(* The action properties, and the refinement of DrivePlan.                 *)
(***************************************************************************)

\* A tick is the only step that changes the state, the anchors, the request.
LEMMA OtherSteps ==
  ASSUME [Next]_vars, ~TimerCallback
  PROVE  /\ UNCHANGED <<current_state, turn, forward1, forward2, request>>
         /\ due' >= due \/ due \notin Int
<1>1. CASE Advance
  BY <1>1 DEF Advance, PeriodPasses
<1>2. CASE ~Advance
  BY <1>2 DEF Next, StateCallback, ObstacleCallback, StepClock, ClockSet, vars
<1> QED BY <1>1, <1>2

\* The tick that enters a leg latches its own reading, and the anchor of a leg
\* stays put until the leg is over.
THEOREM AnchorsBelong == Spec => AnchorOfItsLeg
<1>1. ASSUME SafeInv, [Next]_vars
      PROVE  /\ current_state' \in Turning =>
                  turn_start_yaw' = IF current_state' = current_state
                                    THEN turn_start_yaw ELSE latest.yaw
             /\ current_state' = "FORWARD2" =>
                  forward2_start' = IF current_state' = current_state
                                    THEN forward2_start ELSE latest.pos
  <2>1. CASE ~TimerCallback
    BY <1>1, <2>1, OtherSteps DEF turn, forward2
  <2>2. CASE AwaitFeedback
    BY <2>2 DEF AwaitFeedback, turn, forward2
  <2>3. CASE Remain
    BY <1>1, <2>3 DEF Remain, Act, LatchYaw, LatchForward2, SafeInv,
                      LegsAnchored
  <2>4. CASE \/ LeaveForward1 \/ LeaveTurnLeft \/ Evade
             \/ LeaveForward2 \/ LeaveAvoidTurn
    <3>1. PICK s \in {"STOP1", "STOP2", "AVOID_STOP", "DONE"} : GoTo(s)
      BY <2>4 DEF LeaveForward1, LeaveTurnLeft, Evade, LeaveForward2,
                  LeaveAvoidTurn
    <3> QED BY <3>1 DEF GoTo, Act
  <2>5. CASE LeaveStop1 \/ LeaveAvoidStop
    BY <2>5 DEF LeaveStop1, LeaveAvoidStop, Act, LatchYaw
  <2>6. CASE LeaveStop2
    BY <2>6 DEF LeaveStop2, Act, LatchForward2
  <2> QED BY <2>1, <2>2, <2>3, <2>4, <2>5, <2>6 DEF TimerCallback, MissionTick
<1> QED BY <1>1, SafeInit, SafeStep, PTL DEF Spec, AnchorOfItsLeg

\* An obstacle known on the second leg is answered by the next tick, ahead of
\* arrival and of the timeout.
THEOREM ObstacleComesFirst == Spec => ObstacleFirst
<1>1. ASSUME SafeInv, [Next]_vars, current_state = "FORWARD2",
             obstacle_detected, due' < due
      PROVE  request' = "stop" /\ current_state' = "AVOID_STOP"
  <2>1. due \in Nat /\ due' \in Int
    BY <1>1, TypeStep DEF SafeInv, TypeOK, TimerOK
  <2>2. TimerCallback
    BY <1>1, <2>1, OtherSteps
  <2>3. state_received
    BY <1>1 DEF SafeInv, RequestOfState
  <2>4. Evade
    BY <1>1, <2>2, <2>3
    DEF TimerCallback, AwaitFeedback, MissionTick, Blocked, LeaveForward1,
        LeaveStop1, LeaveTurnLeft, LeaveStop2, LeaveForward2, LeaveAvoidStop,
        LeaveAvoidTurn, Remain
  <2> QED BY <2>4 DEF Evade, GoTo, Act, Command
<1> QED BY <1>1, SafeInit, SafeStep, PTL DEF Spec, ObstacleFirst

\* The node implements DrivePlan: its initial states are initial states of the
\* plan, and each of its steps is a step of the plan or a stutter.
THEOREM ImplementsPlan == Spec => FollowsPlan
<1>1. Init => Plan!Init
  BY DEF Init, Plan!Init, Leg, Origin
<1>2. ASSUME SafeInv, SafeInv', [Next]_vars
      PROVE  Plan!Next \/ UNCHANGED <<Leg, request, ~latest.moving>>
  <2>0. \/ request = Command(current_state)
        \/ current_state = "FORWARD1" /\ request = "none"
    BY <1>2 DEF SafeInv, RequestOfState
  <2>1. CASE TimerCallback
    <3>0. latest' = latest
      BY <2>1 DEF TimerCallback, inputs
    <3>1. CASE AwaitFeedback
      BY <3>0, <3>1 DEF AwaitFeedback, Leg
    <3>2. CASE Remain
      <4>1. current_state' = current_state /\ request' = Command(current_state)
        BY <3>2 DEF Remain, Act
      <4>2. Leg' = Leg
        BY <4>1 DEF Leg
      <4>3. CASE current_state = "FORWARD1" /\ request = "none"
        BY <3>0, <4>1, <4>2, <4>3 DEF Plan!Next, Plan!Start, Leg, Command
      <4>4. CASE request = Command(current_state)
        BY <3>0, <4>1, <4>2, <4>4
      <4> QED BY <2>0, <4>3, <4>4
    <3>3. CASE LeaveForward1 \/ LeaveTurnLeft \/ Evade
      <4>1. /\ Leg # 0 /\ Leg' = Leg
            /\ request # "stop" /\ request' = "stop"
        BY <2>0, <3>3 DEF LeaveForward1, LeaveTurnLeft, Evade, Blocked, GoTo,
                          Act, Leg, Command
      <4> QED BY <3>0, <4>1 DEF Plan!Next, Plan!Brake, Plan!Over
    <3>4. CASE LeaveForward2 \/ LeaveAvoidTurn
      <4>1. /\ Leg \in {3, 4} /\ Leg' = 0
            /\ request # "stop" /\ request' = "stop"
        BY <2>0, <3>4 DEF LeaveForward2, LeaveAvoidTurn, GoTo, Act, Leg,
                          Command
      <4> QED BY <3>0, <4>1 DEF Plan!Next, Plan!Finish, Plan!Over
    <3>5. CASE LeaveStop1 \/ LeaveStop2 \/ LeaveAvoidStop
      <4>1. request = "stop" /\ ~latest.moving
        BY <2>0, <3>5 DEF LeaveStop1, LeaveStop2, LeaveAvoidStop, LegOver,
                          Settled, Command
      <4>2. \/ Leg = 1 /\ Leg' = 2 /\ request' = "turn"
            \/ Leg = 2 /\ Leg' = 3 /\ request' = "forward"
            \/ Leg = 3 /\ Leg' = 4 /\ request' = "avoid_turn"
        BY <3>5 DEF LeaveStop1, LeaveStop2, LeaveAvoidStop, Act, Leg, Command
      <4> QED BY <3>0, <4>1, <4>2 DEF Plan!Next, Plan!Depart
    <3> QED BY <2>1, <3>1, <3>2, <3>3, <3>4, <3>5
            DEF TimerCallback, MissionTick
  <2>2. CASE ~TimerCallback
    <3>1. UNCHANGED <<current_state, request>>
      BY <1>2, <2>2, OtherSteps
    <3>2. Leg' = Leg
      BY <3>1 DEF Leg
    <3>3. latest.moving \in BOOLEAN /\ latest'.moving \in BOOLEAN
      BY <1>2 DEF SafeInv, TypeOK
    <3>4. CASE latest'.moving = latest.moving
      BY <3>1, <3>2, <3>4
    <3>5. CASE latest'.moving # latest.moving
      BY <3>1, <3>2, <3>3, <3>5 DEF Plan!Next, Plan!Sense
    <3> QED BY <3>4, <3>5
  <2> QED BY <2>1, <2>2
<1> QED BY <1>1, <1>2, SafeInit, SafeStep, PTL DEF Spec, FollowsPlan, Plan!Spec

-----------------------------------------------------------------------------
(***************************************************************************)
(* ClosedLoop: the robot never goes from one motion into another.          *)
(*                                                                         *)
(* What has been asked and not obeyed is one run of the same Move with     *)
(* StopMoves around it.  While the node stays in a stop state the requests *)
(* of before grow as old as the steady time it has been there, so that     *)
(* they have been obeyed after more than RequestLatency; from then on a    *)
(* robot that still moves says so in every report, and the reports come    *)
(* one a period.  The dwell is long enough for one of these to be the      *)
(* node's latest, unless the clock it is read off has run further ahead of *)
(* steady time than the dwell has to spare: all of this is said of         *)
(* behaviours in which no stop state was cut short.                        *)
(***************************************************************************)

\* What the robot obeys, and after it what is under way.
Asked(i) == IF i = 0 THEN doing ELSE requests[i].what

OneMotion ==
  \A i, j, k \in 0 .. Len(requests) :
    i <= j /\ j <= k /\ Asked(i) \in Motions /\ Asked(k) \in Motions =>
      Asked(j) = Asked(k)

LastAsked == Asked(Len(requests)) = request

\* A Move that is to be obeyed next finds the robot at rest.
AwaitsAtRest ==
  moving /\ doing \notin Motions =>
    /\ doing = "stop"
    /\ \A i \in 1 .. Len(requests) : requests[i].what \notin Motions

\* Whatever comes after a Move is as old as the stop state.
StopOnItsWay ==
  request = "stop" =>
    \A i \in 1 .. Len(requests) :
      Asked(i - 1) # "stop" => requests[i].age >= driven

\* The periods since report i was made; report 0 is the node's latest.
ReportAge(i) == quiet + Len(reports) - i

ReportAges == \A i \in 1 .. Len(reports) : reports[i].age = ReportAge(i)

Told(i) == IF i = 0 THEN latest.moving ELSE reports[i].moving

MotionTold ==
  request = "stop" /\ moving =>
    \A i \in 0 .. Len(reports) :
      driven - ReportAge(i) > RequestLatency => Told(i) = TRUE

RequestInv == OneMotion /\ LastAsked /\ AwaitsAtRest /\ StopOnItsWay

ReportInv == ReportAges /\ MotionTold

LoopInv == SafeInv /\ LoopTypeOK /\ (~leapt => RequestInv /\ ReportInv)

RequestMsg == [what : Motions \cup {"stop"}, age : 0 .. RequestLatency]
ReportMsg == [moving : BOOLEAN, age : 0 .. ReportLatency]

-----------------------------------------------------------------------------
\* The node in the loop is the node by itself.
LEMMA LoopStepIsStep == [LoopNext]_loopVars => [Next]_vars
BY DEF LoopNext, Tick, Obey, Shift, Halt, Report, Receive, See, Pass, Set, loopVars, Next

LEMMA LoopIsMission == LoopSpec => Spec
BY LoopStepIsStep, PTL DEF LoopSpec, LoopInit, Spec

LEMMA LoopStart == LoopInit => LoopInv
<1> SUFFICES ASSUME LoopInit PROVE LoopInv
  OBVIOUS
<1>1. SafeInv /\ latest.moving = FALSE /\ request = "none"
  BY SafeInit DEF LoopInit, Init
<1>2. /\ requests = << >> /\ reports = << >> /\ quiet = 0 /\ doing = "none"
      /\ moving = FALSE /\ Len(requests) = 0 /\ Len(reports) = 0
  BY DEF LoopInit
<1>3. requests \in Seq(RequestMsg) /\ reports \in Seq(ReportMsg)
  BY <1>2
<1>4. LoopTypeOK
  <2>1. quiet \in 0 .. 1 /\ doing \in Motions \cup {"none", "stop"}
    BY <1>2
  <2>2. moving \in BOOLEAN /\ leapt \in BOOLEAN
    BY <1>2, Zenon DEF LoopInit
  <2> QED BY <1>3, <2>1, <2>2, Zenon DEF LoopTypeOK, RequestMsg, ReportMsg
<1>5. RequestInv
  BY <1>1, <1>2 DEF RequestInv, OneMotion, LastAsked, AwaitsAtRest, StopOnItsWay, Asked
<1>6. ReportInv
  BY <1>1, <1>2 DEF ReportInv, ReportAges, MotionTold
<1> QED BY <1>1, <1>4, <1>5, <1>6 DEF LoopInv

\* The types, in the form the steps use them.
LEMMA LoopTypes ==
  ASSUME LoopInv
  PROVE  /\ requests \in Seq(RequestMsg) /\ Len(requests) \in Nat
         /\ reports \in Seq(ReportMsg) /\ Len(reports) \in Nat
         /\ quiet \in 0 .. 1 /\ doing \in {"forward", "turn", "avoid_turn", "none", "stop"}
         /\ moving \in BOOLEAN /\ driven \in Int
         /\ RequestLatency \in Nat /\ ReportLatency \in Nat
         /\ \A i \in 1 .. Len(requests) :
              /\ requests[i].what \in {"forward", "turn", "avoid_turn", "stop"}
              /\ requests[i].age \in 0 .. RequestLatency
         /\ \A i \in 1 .. Len(reports) :
              reports[i].moving \in BOOLEAN /\ reports[i].age \in 0 .. ReportLatency
<1>1. /\ requests \in Seq(RequestMsg) /\ reports \in Seq(ReportMsg)
      /\ quiet \in 0 .. 1 /\ doing \in {"forward", "turn", "avoid_turn", "none", "stop"}
      /\ moving \in BOOLEAN
  BY DEF LoopInv, LoopTypeOK, RequestMsg, ReportMsg
<1>2. driven \in Int
  BY ClockAssumption DEF ClockAssumption, LoopInv, SafeInv, TypeOK, TimerOK
<1>3. \A i \in 1 .. Len(requests) : requests[i] \in RequestMsg
  BY <1>1
<1>4. \A i \in 1 .. Len(reports) : reports[i] \in ReportMsg
  BY <1>1
<1> QED BY <1>1, <1>2, <1>3, <1>4, LatencyAssumption DEF LatencyAssumption, RequestMsg, ReportMsg

\* When the node has been in a stop state for longer than the latency of a
\* request, the robot has been stopped and nothing else is under way.
LEMMA StopObeyed ==
  ASSUME LoopInv, ~leapt, request = "stop", driven > RequestLatency
  PROVE  \A i \in 0 .. Len(requests) : Asked(i) = "stop"
<1>1. \A i \in 1 .. Len(requests) : Asked(i - 1) = "stop"
  <2> TAKE i \in 1 .. Len(requests)
  <2>1. requests[i].age <= RequestLatency /\ requests[i].age \in Int
    BY LoopTypes
  <2> QED BY <2>1, LoopTypes DEF LoopInv, RequestInv, StopOnItsWay
<1>2. Asked(Len(requests)) = "stop"
  BY DEF LoopInv, RequestInv, LastAsked
<1>3. \A i \in 0 .. Len(requests) : i = Len(requests) \/ (i + 1 \in 1 .. Len(requests) /\ i = (i + 1) - 1)
  BY LoopTypes
<1> QED BY <1>1, <1>2, <1>3

\* No report is older than the latest one the node has can be.
LEMMA ReportsFresh ==
  ASSUME LoopInv, ~leapt
  PROVE  /\ quiet + Len(reports) <= ReportLatency + 1
         /\ \A i \in 0 .. Len(reports) : ReportAge(i) \in Nat
<1>1. CASE Len(reports) = 0
  BY <1>1, LoopTypes DEF ReportAge
<1>2. CASE Len(reports) > 0
  <2>1. 1 \in 1 .. Len(reports) /\ reports[1].age <= ReportLatency
        /\ reports[1].age = quiet + Len(reports) - 1
    BY <1>2, LoopTypes DEF LoopInv, ReportInv, ReportAges, ReportAge
  <2> QED BY <2>1, LoopTypes DEF ReportAge
<1> QED BY <1>1, <1>2, LoopTypes

\* A node whose dwell is over by a clock that is not too far ahead, and whose
\* latest report says so, has a robot at rest.
LEMMA SettledAtRest ==
  ASSUME LoopInv, ~leapt, request = "stop", Settled, elapsed <= driven + Spare
  PROVE  moving = FALSE /\ \A i \in 0 .. Len(requests) : Asked(i) = "stop"
<1>1. driven >= RequestLatency + ReportLatency + 2
  <2>1. StopDwell \in Nat /\ elapsed >= StopDwell
    BY TimesAssumption DEF Settled, Measurable
  <2>2. elapsed \in Int
    BY ClockAssumption DEF ClockAssumption, LoopInv, SafeInv, TypeOK, TimerOK
  <2> QED BY <2>1, <2>2, LoopTypes DEF Spare
<1>2. driven > RequestLatency /\ driven - ReportAge(0) > RequestLatency
  BY <1>1, ReportsFresh, LoopTypes DEF ReportAge
<1>3. moving = FALSE
  <2>1. 0 \in 0 .. Len(reports) /\ ~ (Told(0) = TRUE)
    BY LoopTypes DEF Settled, Told
  <2> QED BY <1>2, <2>1, LoopTypes DEF LoopInv, ReportInv, MotionTold
<1> QED BY <1>2, <1>3, StopObeyed

-----------------------------------------------------------------------------
\* What a tick past the early return asks for, and when.
LEMMA TickAsks ==
  ASSUME SafeInv, MissionTick
  PROVE  /\ request' \in {"forward", "turn", "avoid_turn", "stop"}
         /\ \/ request' = request /\ driven' = driven
            \/ request = "none" /\ request' = "forward" /\ driven' = driven
            \/ request # "stop" /\ request' = "stop" /\ driven' = 0
            \/ /\ request = "stop" /\ request' # "stop" /\ Settled
               /\ current_state \in Stopping /\ current_state' # current_state
<1>0. \/ request = Command(current_state)
      \/ current_state = "FORWARD1" /\ request = "none"
  BY DEF SafeInv, RequestOfState
<1>1. CASE Remain
  BY <1>0, <1>1 DEF Remain, Act, Command, time, SafeInv, TypeOK
<1>2. CASE LeaveForward1 \/ LeaveTurnLeft \/ Evade \/ LeaveForward2 \/ LeaveAvoidTurn
  BY <1>0, <1>2 DEF LeaveForward1, LeaveTurnLeft, Evade, Blocked, LeaveForward2,
                    LeaveAvoidTurn, GoTo, RestartClock, Act, Command
<1>3. CASE LeaveStop1 \/ LeaveStop2 \/ LeaveAvoidStop
  BY <1>0, <1>3 DEF LeaveStop1, LeaveStop2, LeaveAvoidStop, LegOver, Act, Command,
                    Stopping
<1> QED BY <1>1, <1>2, <1>3 DEF MissionTick

\* A tick appends what it asks for to the topic.
LEMMA TickLoops ==
  ASSUME LoopInv, Tick
  PROVE  LoopTypeOK' /\ (~leapt' => RequestInv' /\ ReportInv')
<1>0. /\ UNCHANGED <<reports, quiet, doing, moving, latest>>
      /\ TimerCallback /\ LoopTypeOK
      /\ ~leapt' => ~leapt /\ ~CutShort
  BY DEF Tick, TimerCallback, robot, inputs, LoopInv
<1>3. leapt' \in BOOLEAN
  BY Zenon DEF Tick
<1>1. CASE ~ state_received
  <2>1. UNCHANGED <<requests, request, driven>>
    BY <1>0, <1>1 DEF Tick, TimerCallback, AwaitFeedback, time
  <2>2. LoopTypeOK'
    BY <1>0, <1>3, <2>1 DEF LoopTypeOK
  <2> SUFFICES ASSUME ~leapt' PROVE RequestInv' /\ ReportInv'
    BY <2>2
  <2>3. RequestInv'
    BY <1>0, <2>1 DEF LoopInv, RequestInv, OneMotion, LastAsked, AwaitsAtRest,
                      StopOnItsWay, Asked
  <2>4. ReportInv'
    BY <1>0, <2>1 DEF LoopInv, ReportInv, ReportAges, ReportAge, MotionTold, Told
  <2> QED BY <2>2, <2>3, <2>4
<1>2. CASE state_received
  <2> DEFINE r == [what |-> request', age |-> 0]
             n == Len(requests)
  <2>1. requests' = Append(requests, r) /\ MissionTick
    BY <1>0, <1>2 DEF Tick, TimerCallback, AwaitFeedback
  <2>2. /\ request' \in {"forward", "turn", "avoid_turn", "stop"}
        /\ \/ request' = request /\ driven' = driven
           \/ request = "none" /\ request' = "forward" /\ driven' = driven
           \/ request # "stop" /\ request' = "stop" /\ driven' = 0
           \/ /\ request = "stop" /\ request' # "stop" /\ Settled
              /\ current_state \in Stopping /\ current_state' # current_state
    BY <2>1, TickAsks DEF LoopInv
  <2>3. r \in RequestMsg /\ r.what = request' /\ r.age = 0
    BY <2>2, LoopTypes DEF RequestMsg
  <2>4. n \in Nat /\ requests \in Seq(RequestMsg)
    BY LoopTypes
  <2> HIDE DEF r
  <2>5. /\ requests' \in Seq(RequestMsg) /\ Len(requests') = n + 1
        /\ requests'[n + 1] = r
        /\ \A i \in 1 .. n : requests'[i] = requests[i]
    BY <2>1, <2>3, <2>4
  <2>6. LoopTypeOK'
    BY <1>0, <1>3, <2>5 DEF LoopTypeOK, RequestMsg
  <2> SUFFICES ASSUME ~leapt' PROVE RequestInv' /\ ReportInv'
    BY <2>6
  <2>16. ~leapt /\ ~CutShort
    BY <1>0
  <2> USE <2>16
  <2> HIDE DEF n
  <2>7. \A i \in 0 .. n : Asked(i)' = Asked(i)
    BY <1>0, <2>4, <2>5 DEF Asked
  <2>8. Asked(n) = request /\ (n > 0 => Asked(n) = requests[n].what)
    BY <2>4 DEF LoopInv, RequestInv, LastAsked, Asked, n
  <2>9. PICK m \in Nat : m = n + 1
    BY <2>4
  <2>10. Len(requests') = m /\ Asked(m)' = request' /\ requests'[m].what = request'
         /\ requests'[m].age = 0
    BY <2>3, <2>4, <2>5, <2>9 DEF Asked
  <2>11. LastAsked'
    BY <2>4, <2>9, <2>10 DEF LastAsked, Asked
  <2>12. CASE request' = request /\ driven' = driven
    <3>1. OneMotion'
      <4> SUFFICES ASSUME NEW i \in 0 .. m, NEW j \in 0 .. m, NEW k \in 0 .. m,
                          i <= j, j <= k, Asked(i)' \in Motions, Asked(k)' \in Motions
                   PROVE  Asked(j)' = Asked(k)'
        BY <2>10 DEF OneMotion
      <4>1. CASE k <= n
        BY <2>4, <2>7, <2>9, <4>1 DEF LoopInv, RequestInv, OneMotion, n
      <4>2. CASE k = m /\ j <= n
        BY <2>4, <2>7, <2>8, <2>9, <2>10, <2>12, <4>2 DEF LoopInv, RequestInv, OneMotion, n
      <4>3. CASE j = m
        BY <2>9, <4>3
      <4> QED BY <2>4, <2>9, <4>1, <4>2, <4>3
    <3>2. AwaitsAtRest'
      <4> SUFFICES ASSUME moving, doing \notin Motions
                   PROVE  doing = "stop" /\ \A i \in 1 .. m : requests'[i].what \notin Motions
        BY <1>0, <2>10 DEF AwaitsAtRest
      <4>1. doing = "stop" /\ \A i \in 1 .. n : requests[i].what \notin Motions
        BY DEF LoopInv, RequestInv, AwaitsAtRest, n
      <4>2. request \notin Motions
        BY <2>4, <2>8, <4>1 DEF Asked
      <4> QED BY <2>4, <2>5, <2>9, <2>10, <2>12, <4>1, <4>2
    <3>3. StopOnItsWay'
      <4> SUFFICES ASSUME request = "stop", NEW i \in 1 .. m, Asked(i - 1)' # "stop"
                   PROVE  requests'[i].age >= driven
        BY <2>10, <2>12 DEF StopOnItsWay
      <4>1. i \in 1 .. n /\ Asked(i - 1) # "stop"
        BY <2>4, <2>7, <2>8, <2>9
      <4> QED BY <2>5, <4>1 DEF LoopInv, RequestInv, StopOnItsWay, n
    <3>4. ReportInv'
      BY <1>0, <2>12 DEF LoopInv, ReportInv, ReportAges, ReportAge, MotionTold, Told
    <3> QED BY <2>6, <2>11, <3>1, <3>2, <3>3, <3>4 DEF RequestInv
  <2>13. CASE request = "none" /\ request' = "forward" /\ driven' = driven
    <3>1. n = 0 /\ doing = "none" /\ m = 1
      BY <2>4, <2>8, <2>9, <2>13, LoopTypes DEF Asked, n
    <3>2. ~ moving
      BY <3>1, LoopTypes DEF LoopInv, RequestInv, AwaitsAtRest
    <3>3. Asked(0)' = "none" /\ Asked(1)' = "forward"
      BY <2>4, <2>7, <2>10, <2>13, <3>1 DEF Asked
    <3>4. OneMotion'
      <4> SUFFICES ASSUME NEW i \in 0 .. 1, NEW j \in 0 .. 1, NEW k \in 0 .. 1,
                          i <= j, j <= k, Asked(i)' \in Motions, Asked(k)' \in Motions
                   PROVE  Asked(j)' = Asked(k)'
        BY <2>10, <3>1 DEF OneMotion
      <4>1. i = 1
        BY <3>3
      <4> QED BY <4>1
    <3>5. AwaitsAtRest' /\ StopOnItsWay' /\ ReportInv'
      BY <1>0, <2>13, <3>2 DEF AwaitsAtRest, StopOnItsWay, ReportInv, ReportAges,
                               ReportAge, MotionTold, LoopInv
    <3> QED BY <2>6, <2>11, <3>4, <3>5 DEF RequestInv
  <2>14. CASE request # "stop" /\ request' = "stop" /\ driven' = 0
    <3>1. OneMotion'
      <4> SUFFICES ASSUME NEW i \in 0 .. m, NEW j \in 0 .. m, NEW k \in 0 .. m,
                          i <= j, j <= k, Asked(i)' \in Motions, Asked(k)' \in Motions
                   PROVE  Asked(j)' = Asked(k)'
        BY <2>10 DEF OneMotion
      <4>1. k # m
        BY <2>10, <2>14
      <4> QED BY <2>4, <2>7, <2>9, <4>1 DEF LoopInv, RequestInv, OneMotion, n
    <3>2. AwaitsAtRest'
      <4> SUFFICES ASSUME moving, doing \notin Motions
                   PROVE  doing = "stop" /\ \A i \in 1 .. m : requests'[i].what \notin Motions
        BY <1>0, <2>10 DEF AwaitsAtRest
      <4>1. doing = "stop" /\ \A i \in 1 .. n : requests[i].what \notin Motions
        BY DEF LoopInv, RequestInv, AwaitsAtRest, n
      <4> QED BY <2>4, <2>5, <2>9, <2>10, <2>14, <4>1
    <3>3. StopOnItsWay'
      <4>1. \A i \in 1 .. m : requests'[i].age \in Nat
        BY <2>5, <2>10, <2>9, <2>4, LoopTypes DEF n
      <4> QED BY <2>10, <2>14, <4>1 DEF StopOnItsWay
    <3>4. ReportInv'
      <4>1. \A i \in 0 .. Len(reports) : ReportAge(i)' = ReportAge(i) /\ ReportAge(i) \in Nat
        BY <1>0, ReportsFresh DEF ReportAge
      <4>2. \A i \in 0 .. Len(reports) : ~ (driven' - ReportAge(i)' > RequestLatency)
        BY <2>14, <4>1, LoopTypes
      <4>3. MotionTold'
        BY <1>0, <4>2 DEF MotionTold
      <4> QED BY <1>0, <4>3 DEF LoopInv, ReportInv, ReportAges, ReportAge
    <3> QED BY <2>6, <2>11, <3>1, <3>2, <3>3, <3>4 DEF RequestInv
  <2>15. CASE /\ request = "stop" /\ request' # "stop" /\ Settled
              /\ current_state \in Stopping /\ current_state' # current_state
    <3>1. moving = FALSE /\ \A i \in 0 .. n : Asked(i) = "stop"
      <4>1. elapsed <= driven + Spare
        <5>1. elapsed \in Int /\ driven \in Int /\ Spare \in Int
          BY ClockAssumption, TimesAssumption, LatencyAssumption
          DEF ClockAssumption, Measurable, LatencyAssumption, LoopInv, SafeInv,
              TypeOK, TimerOK, Spare
        <5> HIDE DEF Spare
        <5> QED BY <2>15, <5>1 DEF CutShort
      <4> QED BY <2>15, <4>1, SettledAtRest DEF n
    <3>2. OneMotion'
      <4> SUFFICES ASSUME NEW i \in 0 .. m, NEW j \in 0 .. m, NEW k \in 0 .. m,
                          i <= j, j <= k, Asked(i)' \in Motions, Asked(k)' \in Motions
                   PROVE  Asked(j)' = Asked(k)'
        BY <2>10 DEF OneMotion
      <4>1. i = m
        BY <2>4, <2>7, <2>9, <3>1
      <4> QED BY <4>1
    <3>3. AwaitsAtRest' /\ StopOnItsWay'
      BY <1>0, <2>15, <3>1 DEF AwaitsAtRest, StopOnItsWay
    <3>4. ReportInv'
      BY <1>0, <3>1 DEF LoopInv, ReportInv, ReportAges, ReportAge, MotionTold
    <3> QED BY <2>6, <2>11, <3>2, <3>3, <3>4 DEF RequestInv
  <2> QED BY <2>2, <2>12, <2>13, <2>14, <2>15
<1> QED BY <1>1, <1>2


\* The robot takes the next request.
LEMMA ObeyLoops ==
  ASSUME LoopInv, Obey
  PROVE  /\ LoopTypeOK'
         /\ ~leapt' => RequestInv' /\ ReportInv'
         /\ doing' \in Motions /\ doing' # doing => moving = FALSE \/ leapt
<1> DEFINE n == Len(requests)
<1>0. /\ UNCHANGED <<reports, quiet, moving, latest, request, driven, leapt>>
      /\ requests # << >> /\ requests' = Tail(requests)
      /\ doing' = Head(requests).what /\ LoopTypeOK
  BY DEF Obey, vars, inputs, time, LoopInv
<1>1. n \in Nat /\ requests \in Seq(RequestMsg)
  BY LoopTypes
<1>2. /\ n >= 1 /\ requests' \in Seq(RequestMsg) /\ Len(requests') = n - 1
      /\ Head(requests) = requests[1]
      /\ \A i \in 1 .. n - 1 : requests'[i] = requests[i + 1]
  BY <1>0, <1>1
<1>3. LoopTypeOK'
  <2>1. doing' \in Motions \cup {"none", "stop"}
    BY <1>0, <1>2, LoopTypes
  <2> QED BY <1>0, <1>2, <2>1 DEF LoopTypeOK, RequestMsg
<1> SUFFICES ASSUME ~leapt
             PROVE  /\ RequestInv' /\ ReportInv'
                    /\ doing' \in Motions /\ doing' # doing => moving = FALSE
  BY <1>0, <1>3
<1> HIDE DEF n
<1>4. \A i \in 0 .. n - 1 : Asked(i)' = Asked(i + 1)
  BY <1>0, <1>1, <1>2 DEF Asked
<1>5. PICK m \in Nat : m = n - 1
  BY <1>1, <1>2
<1>6. Len(requests') = m /\ Asked(1) = doing' /\ Asked(0) = doing /\ Asked(1) = requests[1].what
  BY <1>0, <1>2, <1>5 DEF Asked
<1>7. OneMotion'
  <2> SUFFICES ASSUME NEW i \in 0 .. m, NEW j \in 0 .. m, NEW k \in 0 .. m,
                      i <= j, j <= k, Asked(i)' \in Motions, Asked(k)' \in Motions
               PROVE  Asked(j)' = Asked(k)'
    BY <1>6 DEF OneMotion
  <2>1. /\ i + 1 \in 0 .. n /\ j + 1 \in 0 .. n /\ k + 1 \in 0 .. n
        /\ i + 1 <= j + 1 /\ j + 1 <= k + 1
    BY <1>1, <1>5
  <2> QED BY <1>4, <1>5, <2>1 DEF LoopInv, RequestInv, OneMotion, n
<1>8. LastAsked'
  <2>1. Asked(m)' = request
    <3>1. Asked(m)' = Asked(n)
      BY <1>1, <1>4, <1>5
    <3> QED BY <3>1 DEF LoopInv, RequestInv, LastAsked, n
  <2> QED BY <1>0, <1>6, <2>1 DEF LastAsked, Asked
<1>9. doing \in Motions =>
        \A i \in 1 .. n : requests[i].what \in Motions =>
          requests[i].what = doing' /\ requests[i].what = doing
  <2> SUFFICES ASSUME doing \in Motions, NEW i \in 1 .. n, requests[i].what \in Motions
               PROVE  requests[i].what = doing' /\ requests[i].what = doing
    OBVIOUS
  <2>1. Asked(i) = requests[i].what /\ 0 \in 0 .. n /\ 1 \in 0 .. n /\ i \in 0 .. n
        /\ 0 <= 0 /\ 0 <= 1 /\ 0 <= i /\ 1 <= i
    BY <1>1, <1>2 DEF Asked
  <2> QED BY <1>6, <2>1, Zenon DEF LoopInv, RequestInv, OneMotion, n
<1>10. AwaitsAtRest'
  <2> SUFFICES ASSUME moving, doing' \notin Motions
               PROVE  doing' = "stop" /\ \A i \in 1 .. m : requests'[i].what \notin Motions
    BY <1>0, <1>6 DEF AwaitsAtRest
  <2>1. doing' = "stop"
    BY <1>2, <1>6, <1>1, LoopTypes DEF n
  <2>2. \A i \in 1 .. n : requests[i].what \notin Motions
    <3>1. CASE doing \in Motions
      BY <1>9, <2>1, <3>1
    <3>2. CASE doing \notin Motions
      <4>1. AwaitsAtRest
        BY DEF LoopInv, RequestInv
      <4> QED BY <3>2, <4>1 DEF AwaitsAtRest, n
    <3> QED BY <3>1, <3>2
  <2>3. \A i \in 1 .. m : i + 1 \in 1 .. n /\ requests'[i] = requests[i + 1]
    BY <1>1, <1>2, <1>5
  <2> QED BY <2>1, <2>2, <2>3, Zenon
<1>11. StopOnItsWay'
  <2> SUFFICES ASSUME request = "stop", NEW i \in 1 .. m, Asked(i - 1)' # "stop"
               PROVE  requests'[i].age >= driven
    BY <1>0, <1>6 DEF StopOnItsWay
  <2>1. /\ i + 1 \in 1 .. n /\ Asked((i + 1) - 1) # "stop"
        /\ requests'[i] = requests[i + 1]
    BY <1>1, <1>2, <1>4, <1>5
  <2> QED BY <2>1 DEF LoopInv, RequestInv, StopOnItsWay, n
<1>12. ReportInv'
  BY <1>0 DEF LoopInv, ReportInv, ReportAges, ReportAge, MotionTold, Told
<1>13. ASSUME doing' \in Motions, doing' # doing PROVE moving = FALSE
  <2>1. 1 \in 1 .. n /\ doing \notin Motions
    BY <1>1, <1>2, <1>6, <1>9, <1>13
  <2> QED BY <1>6, <1>13, <2>1, LoopTypes DEF LoopInv, RequestInv, AwaitsAtRest, n
<1> QED BY <1>3, <1>7, <1>8, <1>10, <1>11, <1>12, <1>13 DEF RequestInv

\* What the robot does of itself: only one that obeys a Move begins to move.
LEMMA RobotLoops ==
  ASSUME LoopInv, Shift \/ Halt
  PROVE  LoopTypeOK' /\ (~leapt' => RequestInv' /\ ReportInv')
<1>0. /\ UNCHANGED <<requests, reports, quiet, latest, request, driven, doing, leapt>>
      /\ moving' \in BOOLEAN /\ LoopTypeOK
      /\ moving' = FALSE \/ doing \in Motions
  BY DEF Shift, Halt, vars, inputs, time, topics, LoopInv
<1>1. LoopTypeOK'
  BY <1>0 DEF LoopTypeOK
<1> SUFFICES ASSUME ~leapt PROVE RequestInv' /\ ReportInv'
  BY <1>0, <1>1
<1>2. RequestInv'
  BY <1>0 DEF LoopInv, RequestInv, OneMotion, LastAsked, AwaitsAtRest, StopOnItsWay, Asked
<1>3. MotionTold'
  <2>1. CASE moving' = FALSE
    BY <2>1 DEF MotionTold
  <2>2. CASE doing \in Motions /\ request = "stop"
    <3>1. ~ (driven > RequestLatency)
      BY <2>2, StopObeyed, LoopTypes DEF Asked
    <3>2. \A i \in 0 .. Len(reports) : ~ (driven - ReportAge(i) > RequestLatency)
      BY <3>1, ReportsFresh, LoopTypes
    <3> QED BY <1>0, <3>2 DEF MotionTold, ReportAge
  <2> QED BY <1>0, <2>1, <2>2 DEF MotionTold
<1>4. ReportAges'
  BY <1>0 DEF LoopInv, ReportInv, ReportAges, ReportAge
<1> QED BY <1>1, <1>2, <1>3, <1>4 DEF ReportInv

\* A report joins the others.
LEMMA ReportLoops ==
  ASSUME LoopInv, Report
  PROVE  LoopTypeOK' /\ (~leapt' => RequestInv' /\ ReportInv')
<1> DEFINE n == Len(reports)
           r == [moving |-> moving, age |-> 0]
<1>0. /\ UNCHANGED <<requests, moving, latest, request, driven, doing, leapt>>
      /\ quiet = 1 /\ quiet' = 0 /\ reports' = Append(reports, r) /\ LoopTypeOK
  BY LoopTypes DEF Report, vars, inputs, time, robot, LoopInv
<1>1. n \in Nat /\ reports \in Seq(ReportMsg) /\ r \in ReportMsg
      /\ r.moving = moving /\ r.age = 0
  BY LoopTypes DEF ReportMsg
<1> HIDE DEF r
<1>2. /\ reports' \in Seq(ReportMsg) /\ Len(reports') = n + 1
      /\ reports'[n + 1] = r
      /\ \A i \in 1 .. n : reports'[i] = reports[i]
  BY <1>0, <1>1
<1>3. LoopTypeOK'
  BY <1>0, <1>2 DEF LoopTypeOK, ReportMsg
<1> SUFFICES ASSUME ~leapt PROVE RequestInv' /\ ReportInv'
  BY <1>0, <1>3
<1> HIDE DEF n
<1>4. RequestInv'
  BY <1>0 DEF LoopInv, RequestInv, OneMotion, LastAsked, AwaitsAtRest, StopOnItsWay, Asked
<1>5. /\ \A i \in 0 .. n : ReportAge(i)' = ReportAge(i) /\ Told(i)' = Told(i)
      /\ \A i \in 0 .. n + 1 : ReportAge(i)' = n + 1 - i
  BY <1>0, <1>1, <1>2 DEF ReportAge, Told, n
<1>6. ReportAges'
  <2> SUFFICES ASSUME NEW i \in 1 .. n + 1 PROVE reports'[i].age = ReportAge(i)'
    BY <1>2 DEF ReportAges
  <2>1. CASE i = n + 1
    <3>1. n \in Nat /\ n + 1 \in 0 .. n + 1
      BY <1>1
    <3>2. ReportAge(i)' = 0
      BY <1>5, <2>1, <3>1
    <3> QED BY <1>1, <1>2, <2>1, <3>2
  <2>2. CASE i \in 1 .. n
    <3>1. ReportAges
      BY DEF LoopInv, ReportInv
    <3> QED BY <1>1, <1>2, <1>5, <2>2, <3>1 DEF ReportAges, n
  <2> QED BY <1>1, <2>1, <2>2
<1>7. MotionTold'
  <2> SUFFICES ASSUME request = "stop", moving = TRUE, NEW i \in 0 .. n + 1,
                      driven - ReportAge(i)' > RequestLatency
               PROVE  Told(i)' = TRUE
    BY <1>0, <1>2, LoopTypes DEF MotionTold
  <2>1. CASE i = n + 1
    <3>1. reports'[i].moving = TRUE
      BY <1>1, <1>2, <2>1
    <3>2. i # 0
      BY <1>1, <2>1
    <3> QED BY <3>1, <3>2, Zenon DEF Told
  <2>2. CASE i \in 0 .. n
    BY <1>1, <1>5, <2>2 DEF LoopInv, ReportInv, MotionTold, n
  <2>3. i = n + 1 \/ i \in 0 .. n
    BY <1>1
  <2> QED BY <2>1, <2>2, <2>3, Zenon
<1> QED BY <1>3, <1>4, <1>6, <1>7 DEF ReportInv

\* The oldest report becomes the latest reading.
LEMMA ReceiveLoops ==
  ASSUME LoopInv, Receive
  PROVE  LoopTypeOK' /\ (~leapt' => RequestInv' /\ ReportInv')
<1> DEFINE n == Len(reports)
<1>0. /\ UNCHANGED <<requests, moving, quiet, request, driven, doing, leapt>>
      /\ reports # << >> /\ reports' = Tail(reports)
      /\ latest'.moving = Head(reports).moving /\ LoopTypeOK
  BY DEF Receive, StateCallback, time, robot, LoopInv
<1>1. n \in Nat /\ reports \in Seq(ReportMsg) /\ quiet \in Int
  BY LoopTypes
<1>2. /\ n >= 1 /\ reports' \in Seq(ReportMsg) /\ Len(reports') = n - 1
      /\ Head(reports) = reports[1]
      /\ \A i \in 1 .. n - 1 : reports'[i] = reports[i + 1]
  BY <1>0, <1>1
<1>3. LoopTypeOK'
  BY <1>0, <1>2 DEF LoopTypeOK, ReportMsg
<1> SUFFICES ASSUME ~leapt PROVE RequestInv' /\ ReportInv'
  BY <1>0, <1>3
<1> HIDE DEF n
<1>4. RequestInv'
  BY <1>0 DEF LoopInv, RequestInv, OneMotion, LastAsked, AwaitsAtRest, StopOnItsWay, Asked
<1>5. \A i \in 0 .. n - 1 : ReportAge(i)' = ReportAge(i + 1) /\ Told(i)' = Told(i + 1)
  BY <1>0, <1>1, <1>2 DEF ReportAge, Told, n
<1>6. ReportAges'
  <2> SUFFICES ASSUME NEW i \in 1 .. n - 1 PROVE reports'[i].age = ReportAge(i)'
    BY <1>2 DEF ReportAges
  <2>1. i + 1 \in 1 .. n
    BY <1>1
  <2>2. reports[i + 1].age = ReportAge(i + 1)
    BY <2>1 DEF LoopInv, ReportInv, ReportAges, n
  <2>3. ReportAge(i)' = ReportAge(i + 1)
    BY <1>1, <1>5
  <2>4. reports'[i] = reports[i + 1]
    BY <1>2
  <2> QED BY <2>2, <2>3, <2>4
<1>7. MotionTold'
  <2> SUFFICES ASSUME request = "stop", moving, NEW i \in 0 .. n - 1,
                      driven - ReportAge(i)' > RequestLatency
               PROVE  Told(i)' = TRUE
    BY <1>0, <1>2 DEF MotionTold
  <2>1. i + 1 \in 0 .. n
    BY <1>1
  <2> QED BY <1>1, <1>5, <2>1 DEF LoopInv, ReportInv, MotionTold, n
<1> QED BY <1>3, <1>4, <1>6, <1>7 DEF ReportInv

\* A period ages what is under way, and steady time no faster.
LEMMA PassLoops ==
  ASSUME LoopInv, Pass
  PROVE  LoopTypeOK' /\ (~leapt' => RequestInv' /\ ReportInv')
<1> DEFINE n == Len(requests)
           p == Len(reports)
<1>0. /\ UNCHANGED <<moving, latest, request, doing, leapt>>
      /\ quiet = 0 /\ quiet' = 1
      /\ driven' \in Int /\ driven' <= driven + 1
  BY LoopTypes, ClockAssumption
  DEF Pass, Advance, PeriodPasses, UpTo, inputs, robot, ClockAssumption
<1>1. /\ n \in Nat /\ requests \in Seq(RequestMsg) /\ DOMAIN requests = 1 .. n
      /\ p \in Nat /\ reports \in Seq(ReportMsg) /\ DOMAIN reports = 1 .. p
  BY LoopTypes
<1>2. \A i \in 1 .. n : [requests[i] EXCEPT !.age = @ + 1] \in RequestMsg
  <2> TAKE i \in 1 .. n
  <2>1. requests[i] \in RequestMsg /\ requests[i].age < RequestLatency
    BY <1>1 DEF Pass
  <2>2. requests[i].age + 1 \in 0 .. RequestLatency
    BY <2>1, LatencyAssumption DEF RequestMsg, LatencyAssumption
  <2> QED BY <2>1, <2>2 DEF RequestMsg
<1>3. \A i \in 1 .. p : [reports[i] EXCEPT !.age = @ + 1] \in ReportMsg
  <2> TAKE i \in 1 .. p
  <2>1. reports[i] \in ReportMsg /\ reports[i].age < ReportLatency
    BY <1>1 DEF Pass
  <2>2. reports[i].age + 1 \in 0 .. ReportLatency
    BY <2>1, LatencyAssumption DEF ReportMsg, LatencyAssumption
  <2> QED BY <2>1, <2>2 DEF ReportMsg
<1>4. /\ requests' = [i \in 1 .. n |-> [requests[i] EXCEPT !.age = @ + 1]]
      /\ reports' = [i \in 1 .. p |-> [reports[i] EXCEPT !.age = @ + 1]]
  BY <1>1 DEF Pass, Aged
<1>5. /\ requests' \in Seq(RequestMsg) /\ Len(requests') = n
      /\ reports' \in Seq(ReportMsg) /\ Len(reports') = p
  BY <1>1, <1>2, <1>3, <1>4
<1>6. \A i \in 1 .. n : /\ requests'[i].what = requests[i].what
                        /\ requests'[i].age = requests[i].age + 1
  <2> TAKE i \in 1 .. n
  <2>1. requests[i] \in RequestMsg
    BY <1>1
  <2> QED BY <1>4, <2>1 DEF RequestMsg
<1>7. \A i \in 1 .. p : /\ reports'[i].moving = reports[i].moving
                        /\ reports'[i].age = reports[i].age + 1
  <2> TAKE i \in 1 .. p
  <2>1. reports[i] \in ReportMsg
    BY <1>1
  <2> QED BY <1>4, <2>1 DEF ReportMsg
<1>8. LoopTypeOK'
  BY <1>0, <1>5 DEF LoopTypeOK, LoopInv, RequestMsg, ReportMsg
<1> SUFFICES ASSUME ~leapt PROVE RequestInv' /\ ReportInv'
  BY <1>0, <1>8
<1> HIDE DEF n, p
<1>9. \A i \in 0 .. n : Asked(i)' = Asked(i)
  BY <1>0, <1>1, <1>6 DEF Asked
<1>10. OneMotion'
  <2> SUFFICES ASSUME NEW i \in 0 .. n, NEW j \in 0 .. n, NEW k \in 0 .. n,
                      i <= j, j <= k, Asked(i)' \in Motions, Asked(k)' \in Motions
               PROVE  Asked(j)' = Asked(k)'
    BY <1>5 DEF OneMotion
  <2> QED BY <1>9 DEF LoopInv, RequestInv, OneMotion, n
<1>11. LastAsked'
  <2>1. PICK c \in Nat : c = n
    BY <1>1
  <2>2. Asked(c) = request
    BY <2>1 DEF LoopInv, RequestInv, LastAsked, n
  <2>3. Asked(c)' = request
    BY <1>9, <2>1, <2>2
  <2> QED BY <1>0, <1>5, <2>1, <2>3 DEF LastAsked, Asked
<1>12. AwaitsAtRest'
  BY <1>0, <1>5, <1>6 DEF LoopInv, RequestInv, AwaitsAtRest, n
<1>13. StopOnItsWay'
  <2> SUFFICES ASSUME request = "stop", NEW i \in 1 .. n, Asked(i - 1)' # "stop"
               PROVE  requests'[i].age >= driven'
    BY <1>0, <1>5 DEF StopOnItsWay
  <2>1. Asked(i - 1) # "stop"
    BY <1>1, <1>9
  <2>2. requests[i].age >= driven /\ requests[i].age \in Int
    BY <2>1, LoopTypes DEF LoopInv, RequestInv, StopOnItsWay, n
  <2> QED BY <1>0, <1>6, <2>2, LoopTypes
<1>14. \A i \in 0 .. p : ReportAge(i)' = ReportAge(i) + 1 /\ Told(i)' = Told(i)
                         /\ ReportAge(i) \in Int
  BY <1>0, <1>1, <1>5, <1>7 DEF ReportAge, Told, p
<1>15. ReportAges'
  BY <1>1, <1>5, <1>7, <1>14 DEF LoopInv, ReportInv, ReportAges, p
<1>16. MotionTold'
  <2> SUFFICES ASSUME request = "stop", moving, NEW i \in 0 .. p,
                      driven' - ReportAge(i)' > RequestLatency
               PROVE  Told(i)' = TRUE
    BY <1>0, <1>5 DEF MotionTold
  <2>1. driven - ReportAge(i) > RequestLatency
    BY <1>0, <1>14, LoopTypes
  <2> QED BY <1>14, <2>1 DEF LoopInv, ReportInv, MotionTold, p
<1> QED BY <1>8, <1>10, <1>11, <1>12, <1>13, <1>15, <1>16 DEF RequestInv, ReportInv

LEMMA LoopKeeps == LoopInv /\ [LoopNext]_loopVars => LoopInv'
<1> SUFFICES ASSUME LoopInv, [LoopNext]_loopVars
             PROVE  LoopTypeOK' /\ (~leapt' => RequestInv' /\ ReportInv')
  BY LoopStepIsStep, SafeStep DEF LoopInv
<1>1. CASE See \/ Set \/ UNCHANGED loopVars
  <2>1. UNCHANGED <<requests, reports, quiet, doing, moving, latest, request, driven,
                    leapt>>
    BY <1>1 DEF See, Set, StepClock, ClockSet, ObstacleCallback, time, topics, robot,
                loopVars, vars, inputs
  <2>2. LoopTypeOK'
    BY <2>1 DEF LoopInv, LoopTypeOK
  <2> SUFFICES ASSUME ~leapt PROVE RequestInv' /\ ReportInv'
    BY <2>1, <2>2
  <2>3. RequestInv'
    BY <2>1 DEF LoopInv, RequestInv, OneMotion, LastAsked, AwaitsAtRest,
                StopOnItsWay, Asked
  <2>4. ReportInv'
    BY <2>1 DEF LoopInv, ReportInv, ReportAges, ReportAge, MotionTold, Told
  <2> QED BY <2>2, <2>3, <2>4
<1> QED BY <1>1, TickLoops, ObeyLoops, RobotLoops, ReportLoops, ReceiveLoops, PassLoops
        DEF LoopNext

\* The topics never carry anything overdue, nor a request that is none.
THEOREM LoopTypeCorrect == LoopSpec => []LoopTypeOK
<1>1. LoopInv => LoopTypeOK
  BY DEF LoopInv
<1> QED BY <1>1, LoopStart, LoopKeeps, PTL DEF LoopSpec

\* However late requests and reports come within their latencies, and however
\* the clock is set, the robot takes up no new Move before it has come to rest,
\* unless the clock ran ahead in a stop state by more than its dwell has to
\* spare.
THEOREM MotionsStartFromRest == LoopSpec => MotionsFromRest
<1>1. ASSUME LoopInv, [LoopNext]_loopVars, doing' \in Motions, doing' # doing
      PROVE  ~moving \/ leapt
  <2>1. Obey
    BY <1>1 DEF LoopNext, Tick, Shift, Halt, Report, Receive, See, Pass, Set, robot,
                loopVars
  <2> QED BY <1>1, <2>1, ObeyLoops
<1> QED BY <1>1, LoopStart, LoopKeeps, PTL DEF LoopSpec, MotionsFromRest

=============================================================================
