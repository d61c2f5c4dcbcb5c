------------------------- MODULE TimedMissionsProofs -------------------------
(***************************************************************************)
(* Proofs about the two nodes that drive by the clock alone, for all       *)
(* times, delays and clock steps: first OpenLoopMission, then ForwardTest  *)
(* as the instance Practice.  SafeInv and PracticeSafe add to the types    *)
(* that the last requests are those of the state; MotionInv and            *)
(* PracticeInv, as for the feedback mission, what the clocks allow.        *)
(***************************************************************************)
EXTENDS MCTimedMissions, WallTimerProofs

USE DEF RobotState, Motions

\* Every tick ends in Act, and restarts the clock unless the state stays.
LEMMA TickForm ==
  ASSUME current_state \in RobotState, TimerCallback
  PROVE  /\ TimerFires
         /\ \E s \in RobotState :
              /\ Act(s)
              /\ \/ RestartClock /\ s = After(current_state)
                                 /\ current_state # "DONE"
                 \/ s = current_state /\ ~Expired /\ UNCHANGED time
<1>1. After(current_state) \in RobotState
  BY DEF After
<1> QED BY <1>1 DEF TimerCallback, AdvanceState, Remain, Expired

RequestOfState ==
  sent = Commands(current_state) \/ (sent = << >> /\ current_state = "FORWARD1")

SafeInv == TypeOK /\ RequestOfState

LEMMA SafeInit == Init => SafeInv
BY CreatedOK DEF Init, TimerCreated, SafeInv, TypeOK, RequestOfState

LEMMA SafeStep == SafeInv /\ [Next]_vars => SafeInv'
<1> SUFFICES ASSUME SafeInv, [Next]_vars PROVE SafeInv'
  OBVIOUS
<1>0. TypeOK /\ TimerOK
  BY DEF SafeInv, TypeOK
<1>1. CASE TimerCallback
  <2>1. PICK s \in RobotState : Act(s) /\ (RestartClock \/ UNCHANGED time)
    BY <1>0, <1>1, TickForm DEF TypeOK
  <2>2. /\ current_state' = s /\ sent' = Commands(s)
        /\ timer_active' = (s # "DONE")
    BY <2>1 DEF Act, KeepsTimer
  <2>3. TimerOK'
    BY <1>0, <1>1, <2>1, <2>2, FiredOK DEF TimerCallback
  <2> QED BY <2>2, <2>3 DEF SafeInv, TypeOK, RequestOfState
<1>2. CASE Advance \/ \E step \in ClockSteps : StepClock(step)
  <2>1. TimerOK'
    BY <1>0, <1>2, PeriodOK, ClockSetOK, StepsAreInt DEF Advance, StepClock
  <2>2. UNCHANGED <<current_state, sent, timer_active>>
    BY <1>2 DEF Advance, StepClock, PeriodPasses, ClockSet
  <2> QED BY <1>0, <2>1, <2>2 DEF SafeInv, TypeOK, RequestOfState
<1>3. CASE UNCHANGED vars
  BY <1>3 DEF SafeInv, TypeOK, TimerOK, RequestOfState, vars, time
<1> QED BY <1>1, <1>2, <1>3 DEF Next

\* TypeOK holds in every behaviour, whatever the constants.
THEOREM TypeCorrect == Spec => []TypeOK
<1>1. SafeInv => TypeOK
  BY DEF SafeInv
<1> QED BY <1>1, SafeInit, SafeStep, PTL DEF Spec

-----------------------------------------------------------------------------
DriveInv ==
  Timely /\ (sent # << >> /\ current_state # "DONE"
               => Within(Limit(current_state)))

MotionInv == SafeInv /\ DriveInv

LEMMA LimitType ==
  ASSUME NEW s PROVE Limit(s) \in Nat \ {0}
BY TimesAssumption DEF Measurable, Limit

LEMMA MotionInit == Init => MotionInv
BY SafeInit, CreatedOK DEF MotionInv, DriveInv, Init

LEMMA MotionStep == MotionInv /\ [Next]_vars => MotionInv'
<1> SUFFICES ASSUME MotionInv, [Next]_vars PROVE DriveInv'
  BY SafeStep DEF MotionInv
<1>0. /\ SafeInv /\ TypeOK /\ TimerOK /\ Timely
      /\ sent # << >> /\ current_state # "DONE" => Within(Limit(current_state))
      /\ Limit(current_state) \in Nat \ {0}
      /\ Limit(current_state') \in Nat \ {0}
  BY LimitType DEF MotionInv, DriveInv, SafeInv, TypeOK
<1>1. CASE TimerCallback
  <2>1. TimerFires
    BY <1>1 DEF TimerCallback
  <2>2. PICK s \in RobotState :
          /\ Act(s)
          /\ \/ RestartClock
             \/ s = current_state /\ ~Expired /\ UNCHANGED time
    BY <1>0, <1>1, TickForm DEF TypeOK
  <2>3. current_state' = s
    BY <2>2 DEF Act
  <2>4. Timely'
    BY <1>0, <2>2, FiredTimely
  <2>5. CASE RestartClock
    <3>1. driven' <= Limit(current_state') - 1 + due' + slew'
      BY <1>0, <2>1, <2>5 DEF RestartClock, TimerFires
    <3> QED BY <2>4, <3>1 DEF DriveInv, Within
  <2>6. CASE s = current_state /\ ~Expired /\ UNCHANGED time
    <3>1. current_state # "DONE" => elapsed < Limit(current_state)
      BY <1>0, <2>6 DEF Expired, TimerOK
    <3>2. due' = 0 /\ driven' = driven /\ slew' = slew
      BY <2>1, <2>6 DEF TimerFires, time
    <3>3. Limit(current_state') = Limit(current_state)
      BY <2>3, <2>6
    <3>4. current_state # "DONE" =>
            driven' <= Limit(current_state') - 1 + due' + slew'
      BY <1>0, <3>1, <3>2, <3>3 DEF Timely, TimerOK
    <3> QED BY <2>3, <2>4, <2>6, <3>4 DEF DriveInv, Within
  <2> QED BY <2>2, <2>5, <2>6
<1>2. CASE Advance
  <2>1. PeriodPasses /\ UNCHANGED <<current_state, sent>>
    BY <1>2 DEF Advance
  <2>2. Timely'
    BY <1>0, <2>1, PeriodTimely
  <2>3. Within(Limit(current_state)) =>
          driven' <= Limit(current_state) - 1 + due' + slew'
    BY <1>0, <2>1, PeriodWithin
  <2> QED BY <1>0, <2>1, <2>2, <2>3 DEF DriveInv, Within
<1>3. ASSUME NEW step \in ClockSteps, StepClock(step) PROVE DriveInv'
  <2>1. ClockSet(step) /\ UNCHANGED <<current_state, sent>>
    BY <1>3 DEF StepClock
  <2>2. Timely'
    BY <1>0, <2>1, StepsAreInt, ClockSetTimely
  <2>3. Within(Limit(current_state)) =>
          driven' <= Limit(current_state) - 1 + due' + slew'
    BY <1>0, <2>1, StepsAreInt, ClockSetWithin
  <2> QED BY <1>0, <2>1, <2>2, <2>3 DEF DriveInv, Within
<1>4. CASE UNCHANGED vars
  BY <1>0, <1>4 DEF DriveInv, Timely, Within, vars, time
<1> QED BY <1>1, <1>2, <1>3, <1>4 DEF Next

\* However the clock is set, no Move is in force for longer than the time of
\* its leg, the delay of the executor and the slew.
THEOREM MotionIsBounded == Spec => []MotionBounded
<1>1. MotionInv => MotionBounded
  <2> SUFFICES ASSUME MotionInv, Motion \in Motions
               PROVE  driven < Limit(current_state) + MaxDelay + slew
    BY DEF MotionBounded
  <2>1. sent # << >> /\ current_state # "DONE"
    BY DEF MotionInv, SafeInv, RequestOfState, Motion, Commands
  <2>2. driven <= Limit(current_state) - 1 + due + slew
    BY <2>1 DEF MotionInv, DriveInv, Within
  <2>3. TimerOK /\ Limit(current_state) \in Nat /\ MaxDelay \in Nat
    BY LimitType, ClockAssumption
    DEF ClockAssumption, MotionInv, SafeInv, TypeOK
  <2> QED BY <2>2, <2>3 DEF TimerOK
<1> QED BY <1>1, MotionInit, MotionStep, PTL DEF Spec

-----------------------------------------------------------------------------
\* The clock never runs ahead of the time that has passed.
NotAhead == elapsed <= driven

LEMMA PeriodNotAhead ==
  ASSUME TimerOK, NotAhead, PeriodPasses PROVE NotAhead'
BY ClockAssumption DEF ClockAssumption, TimerOK, NotAhead, PeriodPasses, UpTo

LEMMA ClockSetNotAhead ==
  ASSUME TimerOK, NotAhead, NEW step \in Int, step <= 0, ClockSet(step)
  PROVE  NotAhead'
BY ClockAssumption DEF ClockAssumption, TimerOK, NotAhead, ClockSet, UpTo

\* Unless the clock is set ahead, no state of the mission is left before its
\* time, however late or irregularly the executor serves the timer.
THEOREM LegsAreFull ==
  ASSUME \A step \in ClockSteps : step <= 0
  PROVE  Spec => LegsInFull
<1>1. Init => NotAhead
  BY DEF Init, TimerCreated, NotAhead
<1>2. ASSUME SafeInv, NotAhead, [Next]_vars PROVE NotAhead'
  <2>0. TimerOK /\ current_state \in RobotState
    BY <1>2 DEF SafeInv, TypeOK
  <2>1. CASE TimerCallback
    <3>1. RestartClock \/ UNCHANGED time
      BY <2>0, <2>1, TickForm
    <3> QED BY <1>2, <3>1 DEF RestartClock, time, NotAhead
  <2>2. CASE Advance
    BY <1>2, <2>0, <2>2, PeriodNotAhead DEF Advance
  <2>3. ASSUME NEW step \in ClockSteps, StepClock(step) PROVE NotAhead'
    <3>1. step \in Int /\ step <= 0
      BY ClockAssumption DEF ClockAssumption
    <3> QED BY <1>2, <2>0, <2>3, <3>1, ClockSetNotAhead DEF StepClock
  <2>4. CASE UNCHANGED vars
    BY <1>2, <2>4 DEF vars, time, NotAhead
  <2> QED BY <1>2, <2>1, <2>2, <2>3, <2>4 DEF Next
<1>3. ASSUME SafeInv, NotAhead, [Next]_vars, current_state' # current_state
      PROVE  driven >= Limit(current_state)
  <2>0. TimerOK /\ Limit(current_state) \in Nat
    BY <1>3, LimitType DEF SafeInv, TypeOK
  <2>1. elapsed >= Limit(current_state)
    BY <1>3 DEF Next, TimerCallback, AdvanceState, Expired, Remain, Act,
                Advance, StepClock, vars
  <2> QED BY <1>3, <2>0, <2>1 DEF TimerOK, NotAhead
<1> QED BY <1>1, <1>2, <1>3, SafeInit, SafeStep, PTL DEF Spec, LegsInFull

-----------------------------------------------------------------------------
\* The requests of a state, as DrivePlan sees them.
LEMMA MotionOfState ==
  ASSUME sent = Commands(current_state), current_state \in RobotState
  PROVE  Motion = CASE current_state \in {"FORWARD1", "FORWARD2"} -> "forward"
                    [] current_state = "TURN_LEFT" -> "turn"
                    [] OTHER -> "stop"
BY DEF Commands, Motion

LEMMA NextMotion ==
  ASSUME sent' = Commands(current_state'), current_state' \in RobotState
  PROVE  Motion' = CASE current_state' \in {"FORWARD1", "FORWARD2"} -> "forward"
                     [] current_state' = "TURN_LEFT" -> "turn"
                     [] OTHER -> "stop"
BY DEF Commands, Motion

\* The node implements DrivePlan, open loop as it is.
THEOREM ImplementsPlan == Spec => FollowsPlan
<1>1. Init => Plan!Init
  BY DEF Init, Plan!Init, Leg, Motion
<1>2. ASSUME SafeInv, [Next]_vars
      PROVE  Plan!Next \/ UNCHANGED <<Leg, Motion, TRUE>>
  <2>0. /\ current_state \in RobotState
        /\ \/ sent = Commands(current_state)
           \/ sent = << >> /\ current_state = "FORWARD1"
    BY <1>2 DEF SafeInv, TypeOK, RequestOfState
  <2>1. CASE TimerCallback
    <3>1. PICK s \in RobotState :
            /\ Act(s)
            /\ \/ s = After(current_state) /\ current_state # "DONE"
                                           /\ RestartClock
               \/ s = current_state /\ ~Expired
      BY <2>0, <2>1, TickForm
    <3>2. current_state' = s /\ sent' = Commands(s)
      BY <3>1 DEF Act
    <3>3. Motion' = CASE s \in {"FORWARD1", "FORWARD2"} -> "forward"
                      [] s = "TURN_LEFT" -> "turn"
                      [] OTHER -> "stop"
      BY <3>2, NextMotion
    <3>4. CASE sent = << >>
      <4>1. Motion = "none" /\ current_state = "FORWARD1"
        BY <2>0, <3>4 DEF Motion, Commands
      <4>2. CASE s = current_state
        BY <3>2, <3>3, <4>1, <4>2 DEF Plan!Next, Plan!Start, Leg
      <4>3. CASE s = After(current_state)
        BY <3>2, <3>3, <4>1, <4>3
        DEF Plan!Next, Plan!Brake, Plan!Over, Leg, After
      <4> QED BY <3>1, <4>2, <4>3
    <3>5. CASE sent # << >>
      <4>1. Motion = CASE current_state \in {"FORWARD1", "FORWARD2"} -> "forward"
                       [] current_state = "TURN_LEFT" -> "turn"
                       [] OTHER -> "stop"
        BY <2>0, <3>5, MotionOfState
      <4>2. CASE s = current_state
        BY <3>2, <3>3, <4>1, <4>2 DEF Leg
      <4>3. CASE current_state \in {"FORWARD1", "TURN_LEFT"}
                 /\ s = After(current_state)
        BY <3>2, <3>3, <4>1, <4>3
        DEF Plan!Next, Plan!Brake, Plan!Over, Leg, After
      <4>4. CASE current_state \in {"STOP1", "STOP2"}
                 /\ s = After(current_state)
        BY <3>2, <3>3, <4>1, <4>4 DEF Plan!Next, Plan!Depart, Leg, After
      <4>5. CASE current_state = "FORWARD2" /\ s = After(current_state)
        BY <3>2, <3>3, <4>1, <4>5
        DEF Plan!Next, Plan!Finish, Plan!Over, Leg, After
      <4> QED BY <2>0, <3>1, <4>2, <4>3, <4>4, <4>5
    <3> QED BY <3>4, <3>5
  <2>2. CASE ~TimerCallback
    <3>1. UNCHANGED <<current_state, sent>>
      BY <1>2, <2>2 DEF Next, Advance, StepClock, vars
    <3> QED BY <3>1 DEF Leg, Motion
  <2> QED BY <2>1, <2>2
<1> QED BY <1>1, <1>2, SafeInit, SafeStep, PTL DEF Spec, FollowsPlan, Plan!Spec

-----------------------------------------------------------------------------
\* The timer and the clocks of ForwardTest are those of WallTimer.
LEMMA SameTimer ==
  /\ Practice!TimerOK <=> TimerOK
  /\ Practice!time = time /\ Practice!time' = time'
  /\ Practice!TimerCreated <=> TimerCreated
  /\ Practice!PeriodPasses <=> PeriodPasses
  /\ Practice!TimerFires <=> TimerFires
  /\ \A step : Practice!ClockSet(step) <=> ClockSet(step)
BY DEF Practice!TimerOK, TimerOK, Practice!time, time, Practice!TimerCreated,
       TimerCreated, Practice!PeriodPasses, PeriodPasses, Practice!UpTo, UpTo,
       Practice!TimerFires, TimerFires, Practice!ClockSet, ClockSet

\* The steps of ForwardTest in the terms of WallTimer.
LEMMA StepsOfPractice ==
  ASSUME Practice!TypeOK, [Practice!Next]_Practice!vars
  PROVE  \/ /\ TimerFires /\ UNCHANGED time /\ ~stopped
            /\ \/ /\ elapsed < ForwardLimit /\ request' = "forward"
                  /\ UNCHANGED <<stopped, timer_active>>
               \/ request' = "stop" /\ stopped' = TRUE /\ timer_active' = FALSE
         \/ PeriodPasses /\ UNCHANGED <<stopped, request>>
         \/ \E step \in Int : ClockSet(step) /\ UNCHANGED <<stopped, request>>
         \/ UNCHANGED <<stopped, request, time, due, timer_active>>
<1>1. CASE Practice!TimerCallback
  <2>1. TimerFires /\ UNCHANGED time
    BY <1>1, SameTimer
    DEF Practice!TimerCallback, Practice!MoveForward, Practice!Stop
  <2>2. ~stopped
    BY <1>1 DEF Practice!TimerCallback, Practice!TimerFires, Practice!TypeOK
  <2> QED BY <1>1, <2>1, <2>2
          DEF Practice!TimerCallback, Practice!MoveForward, Practice!Stop,
              Practice!Driving
<1>2. CASE Practice!Advance
  BY <1>2, SameTimer DEF Practice!Advance
<1>3. ASSUME NEW step \in PracticeSteps, Practice!StepClock(step)
      PROVE  \E s \in Int : ClockSet(s) /\ UNCHANGED <<stopped, request>>
  <2>1. step \in Int /\ ClockSet(step) /\ UNCHANGED <<stopped, request>>
    BY <1>3, PracticeAssumption, SameTimer DEF Practice!StepClock
  <2> QED BY <2>1
<1>4. CASE UNCHANGED Practice!vars
  BY <1>4, SameTimer DEF Practice!vars
<1> QED BY <1>1, <1>2, <1>3, <1>4 DEF Practice!Next

\* The last request tells whether the node has stopped.
PracticeRequest ==
  (stopped => request = "stop") /\ (~stopped => request \in {"none", "forward"})

PracticeSafe == Practice!TypeOK /\ PracticeRequest

LEMMA PracticeSafeInit == Practice!Init => PracticeSafe
<1> SUFFICES ASSUME Practice!Init PROVE PracticeSafe
  OBVIOUS
<1>1. TimerCreated /\ Practice!TimerOK
  BY CreatedOK, SameTimer DEF Practice!Init
<1> QED BY <1>1
        DEF Practice!Init, TimerCreated, PracticeSafe, Practice!TypeOK,
            PracticeRequest

LEMMA PracticeSafeStep ==
  PracticeSafe /\ [Practice!Next]_Practice!vars => PracticeSafe'
<1> SUFFICES ASSUME PracticeSafe, [Practice!Next]_Practice!vars
             PROVE  PracticeSafe'
  OBVIOUS
<1>0. Practice!TypeOK /\ TimerOK
  BY SameTimer DEF PracticeSafe, Practice!TypeOK
<1>1. TimerOK' => Practice!TimerOK'
  BY DEF TimerOK, Practice!TimerOK
<1>2. TimerOK'
  <2>1. CASE TimerFires /\ UNCHANGED time
             /\ (timer_active' = timer_active \/ timer_active' = FALSE)
    <3>1. timer_active' \in BOOLEAN
      BY <1>0, <2>1 DEF TimerOK
    <3> QED BY <1>0, <2>1, <3>1, FiredOK
  <2>2. CASE PeriodPasses \/ \E step \in Int : ClockSet(step)
    BY <1>0, <2>2, PeriodOK, ClockSetOK
  <2>3. CASE UNCHANGED <<time, due, timer_active>>
    BY <1>0, <2>3 DEF TimerOK, time
  <2> QED BY <1>0, <2>1, <2>2, <2>3, StepsOfPractice
<1>3. /\ stopped' \in BOOLEAN
      /\ request' \in {"none", "forward", "stop"}
      /\ timer_active' = ~stopped'
      /\ PracticeRequest'
  <2>1. CASE ~stopped /\ request' = "forward" /\ UNCHANGED <<stopped, timer_active>>
    BY <1>0, <2>1 DEF Practice!TypeOK, PracticeRequest
  <2>2. CASE request' = "stop" /\ stopped' = TRUE /\ timer_active' = FALSE
    BY <2>2 DEF PracticeRequest
  <2>3. CASE UNCHANGED <<stopped, request, timer_active>>
    BY <2>3 DEF PracticeSafe, Practice!TypeOK, PracticeRequest
  <2> QED BY <1>0, <2>1, <2>2, <2>3, StepsOfPractice DEF PeriodPasses, ClockSet
<1> QED BY <1>1, <1>2, <1>3 DEF PracticeSafe, Practice!TypeOK

\* Practice!TypeOK holds in every behaviour, whatever the constants.
THEOREM PracticeTypeCorrect == Practice!Spec => []Practice!TypeOK
<1>1. PracticeSafe => Practice!TypeOK
  BY DEF PracticeSafe
<1> QED BY <1>1, PracticeSafeInit, PracticeSafeStep, PTL DEF Practice!Spec

-----------------------------------------------------------------------------
PracticeDrive == Timely /\ (request = "forward" => Within(ForwardLimit))

PracticeInv == PracticeSafe /\ PracticeDrive

LEMMA PracticeInit == Practice!Init => PracticeInv
BY PracticeSafeInit, CreatedOK, SameTimer
DEF PracticeInv, PracticeDrive, Practice!Init

LEMMA PracticeStep == PracticeInv /\ [Practice!Next]_Practice!vars => PracticeInv'
<1> SUFFICES ASSUME PracticeInv, [Practice!Next]_Practice!vars
             PROVE  PracticeDrive'
  BY PracticeSafeStep DEF PracticeInv
<1>0. /\ Practice!TypeOK /\ TimerOK /\ Timely
      /\ request = "forward" => Within(ForwardLimit)
      /\ ForwardLimit \in Nat \ {0}
  BY SameTimer, TimesAssumption
  DEF Measurable, PracticeInv, PracticeDrive, PracticeSafe, Practice!TypeOK
<1>1. CASE /\ TimerFires /\ UNCHANGED time
           /\ elapsed < ForwardLimit \/ request' = "stop"
  <2>1. Timely'
    BY <1>0, <1>1, FiredTimely
  <2>2. elapsed < ForwardLimit => driven' <= ForwardLimit - 1 + due' + slew'
    BY <1>0, <1>1, FiredWithin
  <2> QED BY <1>1, <2>1, <2>2 DEF PracticeDrive, Within
<1>2. CASE PeriodPasses /\ request' = request
  <2>1. Timely'
    BY <1>0, <1>2, PeriodTimely
  <2>2. Within(ForwardLimit) => driven' <= ForwardLimit - 1 + due' + slew'
    BY <1>0, <1>2, PeriodWithin
  <2> QED BY <1>0, <1>2, <2>1, <2>2 DEF PracticeDrive, Within
<1>3. ASSUME NEW step \in Int, ClockSet(step), request' = request
      PROVE  PracticeDrive'
  <2>1. Timely'
    BY <1>0, <1>3, ClockSetTimely
  <2>2. Within(ForwardLimit) => driven' <= ForwardLimit - 1 + due' + slew'
    BY <1>0, <1>3, ClockSetWithin
  <2> QED BY <1>0, <1>3, <2>1, <2>2 DEF PracticeDrive, Within
<1>4. CASE UNCHANGED <<request, time, due>>
  BY <1>0, <1>4 DEF PracticeDrive, Timely, Within, time
<1> QED BY <1>0, <1>1, <1>2, <1>3, <1>4, StepsOfPractice

\* However the clock is set, the Move is in force for no longer than its time,
\* the delay of the executor and the slew.
THEOREM PracticeIsBounded == Practice!Spec => []PracticeBounded
<1>1. PracticeInv => PracticeBounded
  <2> SUFFICES ASSUME PracticeInv, request = "forward"
               PROVE  driven < ForwardLimit + MaxDelay + slew
    BY DEF PracticeBounded, Practice!MotionBounded
  <2>1. driven <= ForwardLimit - 1 + due + slew
    BY DEF PracticeInv, PracticeDrive, Within
  <2>2. TimerOK /\ ForwardLimit \in Nat /\ MaxDelay \in Nat
    BY TimesAssumption, ClockAssumption, SameTimer
    DEF Measurable, ClockAssumption, PracticeInv, PracticeSafe, Practice!TypeOK
  <2> QED BY <2>1, <2>2 DEF TimerOK
<1> QED BY <1>1, PracticeInit, PracticeStep, PTL DEF Practice!Spec

\* The node implements DrivePlan: the StopMove is the last request, because a
\* tick that could move again finds the timer cancelled.
THEOREM PracticeImplementsPlan == Practice!Spec => PracticeFollowsPlan
<1>1. Practice!Init => Practice!Plan!Init
  BY DEF Practice!Init, Practice!Plan!Init
<1>2. ASSUME PracticeSafe, [Practice!Next]_Practice!vars
      PROVE  \/ Practice!Plan!Next
             \/ UNCHANGED <<IF stopped THEN 0 ELSE 1, request, TRUE>>
  <2>0. Practice!TypeOK /\ PracticeRequest
    BY <1>2 DEF PracticeSafe
  <2>1. CASE ~stopped /\ request' = "forward" /\ stopped' = stopped
    BY <2>0, <2>1
    DEF PracticeRequest, Practice!Plan!Next, Practice!Plan!Start
  <2>2. CASE ~stopped /\ request' = "stop" /\ stopped' = TRUE
    BY <2>0, <2>2
    DEF PracticeRequest, Practice!Plan!Next, Practice!Plan!Finish,
        Practice!Plan!Over
  <2>3. CASE UNCHANGED <<stopped, request>>
    BY <2>3
  <2> QED BY <1>2, <2>0, <2>1, <2>2, <2>3, StepsOfPractice
<1> QED BY <1>1, <1>2, PracticeSafeInit, PracticeSafeStep, PTL
        DEF Practice!Spec, PracticeFollowsPlan, Practice!FollowsPlan,
            Practice!Plan!Spec

-----------------------------------------------------------------------------
(***************************************************************************)
(* The instances that MCTimedMissions checks: each part is the node whose  *)
(* name it has, so that what is proved above holds of it.                  *)
(***************************************************************************)

At(p) == part = p

LEMMA PartStays == \A p : At(p) /\ [PartNext]_allVars => At(p)'
BY DEF At, PartNext, allVars

\* A behaviour of the part "mission" is one of OpenLoopMission.
LEMMA PartIsMission == PartSpec /\ At("mission") => Spec
<1>1. PartInit => Init
  BY DEF PartInit
<1>2. At("mission") /\ [PartNext]_allVars => At("mission")' /\ [Next]_vars
  BY PartStays DEF At, PartNext, allVars
<1> QED BY <1>1, <1>2, PTL DEF PartSpec, Spec

\* A behaviour of the part "practice" is one of ForwardTest.
LEMMA PartIsPractice == PartSpec /\ At("practice") => Practice!Spec
<1>1. PartInit => Practice!Init
  BY DEF PartInit
<1>2. At("practice") /\ [PartNext]_allVars
        => At("practice")' /\ [Practice!Next]_Practice!vars
  BY PartStays DEF At, PartNext, allVars, vars, time, Practice!vars, Practice!time
<1> QED BY <1>1, <1>2, PTL DEF PartSpec, Practice!Spec

=============================================================================
