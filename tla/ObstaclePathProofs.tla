------------------------- MODULE ObstaclePathProofs -------------------------
(***************************************************************************)
(* Proof of ReactsInTime about ObstaclePath, for every scene, latency and  *)
(* delay.  An obstacle that stays in view is first not looked at yet, for  *)
(* one period, then on its way with nothing but its like behind it, at     *)
(* least as old as the view lasts but for that period, and then heard,     *)
(* until the next tick.                                                    *)
(***************************************************************************)
EXTENDS MCObstaclePath, TLAPS

Verdicts == [data : BOOLEAN, age : 0 .. VerdictLatency]

NotLookedAt == seen = 1 /\ frames = 0

\* The verdicts from i on say so.
OnItsWay(i) ==
  /\ seen - 1 <= verdicts[i].age
  /\ \A j \in i .. Len(verdicts) : verdicts[j].data = TRUE

Heard ==
  /\ obstacle_detected = TRUE
  /\ \A j \in 1 .. Len(verdicts) : verdicts[j].data = TRUE
  /\ seen <= 1 + VerdictLatency + due

Stage == NotLookedAt \/ (\E i \in 1 .. Len(verdicts) : OnItsWay(i)) \/ Heard

PathType ==
  /\ due \in 0 .. MaxDelay /\ seen \in Nat /\ frames \in Nat
  /\ verdicts \in Seq(Verdicts)
  /\ current_state = "FORWARD2" => state_received

PathInv ==
  /\ PathType
  /\ seen > 0 => current_state = "FORWARD2" /\ Dark /\ Stage

LEMMA PathStart == PathInit => PathInv
BY ClockAssumption
DEF ClockAssumption, PathInit, Init, TimerCreated, Viewer!Init, PathInv, PathType

\* A tick that hears of the obstacle ends the leg.
LEMMA TickKeeps == ASSUME PathInv, Tick PROVE PathInv'
<1>1. due' = 0 /\ UNCHANGED <<verdicts, frames, Dark, obstacle_detected, state_received>>
  BY DEF Tick, TimerCallback, TimerFires, inputs, viewer, camera, Dark
<1>2. current_state' = current_state \/ state_received
  BY DEF Tick, TimerCallback, AwaitFeedback
<1>3. (seen' = seen /\ current_state' = current_state) \/ seen' = 0
  BY DEF Tick
<1>4. PathType'
  BY <1>1, <1>2, <1>3, ClockAssumption DEF ClockAssumption, PathInv, PathType
<1>5. ASSUME seen' > 0 PROVE current_state' = "FORWARD2" /\ Dark' /\ Stage'
  <2>1. /\ seen' = seen /\ current_state' = current_state
        /\ current_state = "FORWARD2" /\ Dark /\ Stage /\ state_received
    BY <1>3, <1>5 DEF PathInv, PathType
  <2>2. MissionTick
    BY <2>1 DEF Tick, TimerCallback, AwaitFeedback
  <2>3. obstacle_detected # TRUE
    BY <2>1, <2>2
    DEF MissionTick, LeaveForward1, LeaveStop1, LeaveTurnLeft, LeaveStop2, Evade,
        LeaveForward2, LeaveAvoidStop, LeaveAvoidTurn, Remain, Blocked, GoTo, Act
  <2>4. NotLookedAt \/ \E i \in 1 .. Len(verdicts) : OnItsWay(i)
    BY <2>1, <2>3 DEF Stage, Heard
  <2> QED BY <1>1, <2>1, <2>4 DEF Stage, NotLookedAt, OnItsWay
<1> QED BY <1>4, <1>5 DEF PathInv

\* What the viewer sees of the obstacle goes to the end of the queue.
LEMMA ViewKeeps == ASSUME PathInv, View PROVE PathInv'
<1>1. UNCHANGED <<current_state, obstacle_detected, state_received, due, seen, Dark>>
  BY DEF View, vars, inputs, camera, Dark, Viewer!Look, Viewer!LookInVain
<1>2. frames' = frames + 1 /\ frames' \in Nat
  BY DEF View, PathInv, PathType
<1>3. CASE streaming
  <2> DEFINE v == [data |-> Viewer!Obstacle(mean), age |-> 0]
  <2>1. verdicts' = Append(verdicts, v) /\ v \in Verdicts
    BY <1>3, PathAssumption DEF PathAssumption, View, Viewer!Look, Viewer!Obstacle, Verdicts
  <2>2. verdicts \in Seq(Verdicts) /\ Len(verdicts) \in Nat
    BY DEF PathInv, PathType
  <2>3. /\ verdicts' \in Seq(Verdicts) /\ Len(verdicts') = Len(verdicts) + 1
        /\ verdicts'[Len(verdicts) + 1] = v
        /\ \A i \in 1 .. Len(verdicts) : verdicts'[i] = verdicts[i]
    BY <2>1, <2>2
  <2>4. PathType'
    BY <1>1, <1>2, <2>3 DEF PathInv, PathType
  <2>5. ASSUME seen > 0 PROVE Stage'
    <3>1. Stage /\ v.data = TRUE /\ v.age = 0
      BY <2>5 DEF PathInv, Dark, Viewer!Obstacle
    <3> HIDE DEF v
    <3>2. CASE NotLookedAt
      <4>1. PICK n \in Nat : n = Len(verdicts) + 1
        BY <2>2
      <4>2. OnItsWay(n)'
        BY <1>1, <2>2, <2>3, <3>1, <3>2, <4>1 DEF NotLookedAt, OnItsWay
      <4> QED BY <2>2, <2>3, <4>1, <4>2 DEF Stage
    <3>3. ASSUME NEW i \in 1 .. Len(verdicts), OnItsWay(i) PROVE Stage'
      <4>1. OnItsWay(i)'
        BY <1>1, <2>2, <2>3, <3>1, <3>3 DEF OnItsWay
      <4> QED BY <2>2, <2>3, <4>1 DEF Stage
    <3>4. CASE Heard
      BY <1>1, <2>2, <2>3, <3>1, <3>4 DEF Stage, Heard
    <3> QED BY <3>1, <3>2, <3>3, <3>4 DEF Stage
  <2> QED BY <1>1, <2>4, <2>5 DEF PathInv
<1>4. CASE ~ streaming
  <2>1. verdicts' = verdicts /\ seen = 0
    <3>1. verdicts' = verdicts
      BY <1>4 DEF View, Viewer!LookInVain
    <3>2. ~ (seen > 0) /\ seen \in Nat
      BY <1>4 DEF PathInv, PathType, Dark
    <3> QED BY <3>1, <3>2
  <2> QED BY <1>1, <1>2, <2>1 DEF PathInv, PathType
<1> QED BY <1>3, <1>4

\* The verdict heard first is the one that has been under way longest.
LEMMA HearKeeps == ASSUME PathInv, Hear PROVE PathInv'
<1>1. /\ UNCHANGED <<current_state, state_received, due, seen, frames, Dark>>
      /\ obstacle_detected' = Head(verdicts).data
      /\ verdicts # << >> /\ verdicts' = Tail(verdicts)
  BY DEF Hear, ObstacleCallback, camera, Dark
<1>2. /\ verdicts \in Seq(Verdicts) /\ due \in Nat
      /\ VerdictLatency \in Nat
  BY ClockAssumption, PathAssumption
  DEF ClockAssumption, PathAssumption, PathInv, PathType
<1>3. /\ Len(verdicts) \in Nat /\ Len(verdicts) >= 1
      /\ Len(verdicts') = Len(verdicts) - 1
      /\ verdicts' \in Seq(Verdicts) /\ Head(verdicts) = verdicts[1]
      /\ \A i \in 1 .. Len(verdicts) - 1 : verdicts'[i] = verdicts[i + 1]
  BY <1>1, <1>2
<1>4. PathType'
  BY <1>1, <1>3 DEF PathInv, PathType
<1>5. ASSUME seen > 0 PROVE Stage'
  <2>1. Stage
    BY <1>5 DEF PathInv
  <2>2. CASE NotLookedAt
    BY <1>1, <2>2 DEF Stage, NotLookedAt
  <2>3. ASSUME NEW i \in 1 .. Len(verdicts), OnItsWay(i) PROVE Stage'
    <3>1. CASE i = 1
      <4>1. verdicts[1] \in Verdicts
        BY <1>2, <1>3
      <4>2. seen \in Nat /\ seen <= 1 + VerdictLatency + due
        BY <1>2, <2>3, <3>1, <4>1 DEF OnItsWay, Verdicts, PathInv, PathType
      <4>3. obstacle_detected' = TRUE
        BY <1>1, <1>3, <2>3, <3>1 DEF OnItsWay
      <4>4. \A j \in 1 .. Len(verdicts') : verdicts'[j].data = TRUE
        BY <1>3, <2>3, <3>1 DEF OnItsWay
      <4> QED BY <1>1, <4>2, <4>3, <4>4 DEF Stage, Heard
    <3>2. CASE i > 1
      <4>1. i - 1 \in 1 .. Len(verdicts') /\ verdicts'[i - 1] = verdicts[i]
        BY <1>3, <3>2
      <4>2. \A j \in i - 1 .. Len(verdicts') : verdicts'[j].data = TRUE
        BY <1>3, <2>3, <3>2 DEF OnItsWay
      <4>3. OnItsWay(i - 1)'
        BY <1>1, <2>3, <4>1, <4>2 DEF OnItsWay
      <4> QED BY <4>1, <4>3 DEF Stage
    <3> QED BY <1>3, <3>1, <3>2
  <2>4. CASE Heard
    <3>1. obstacle_detected' = TRUE
      BY <1>1, <1>3, <2>4 DEF Heard
    <3>2. \A j \in 1 .. Len(verdicts') : verdicts'[j].data = TRUE
      BY <1>3, <2>4 DEF Heard
    <3> QED BY <1>1, <2>4, <3>1, <3>2 DEF Stage, Heard
  <2> QED BY <2>1, <2>2, <2>3, <2>4 DEF Stage
<1> QED BY <1>1, <1>4, <1>5 DEF PathInv

\* In a period that passes the viewer has looked, and no verdict is overdue.
LEMMA PassKeeps == ASSUME PathInv, Pass PROVE PathInv'
<1>1. /\ UNCHANGED <<current_state, obstacle_detected, state_received, Dark>>
      /\ due' = due + 1 /\ due' \in 0 .. MaxDelay /\ due \in Nat /\ frames' = 0
  BY ClockAssumption
  DEF ClockAssumption, Pass, Advance, PeriodPasses, inputs, camera, Dark, PathInv, PathType
<1>2. /\ verdicts \in Seq(Verdicts) /\ Len(verdicts) \in Nat
      /\ DOMAIN verdicts = 1 .. Len(verdicts)
      /\ VerdictLatency \in Nat /\ Patience \in Nat /\ seen \in Nat
  BY PathAssumption DEF PathAssumption, PathInv, PathType
<1>3. \A i \in 1 .. Len(verdicts) :
        [verdicts[i] EXCEPT !.age = @ + 1] \in Verdicts
  <2> TAKE i \in 1 .. Len(verdicts)
  <2>1. verdicts[i] \in Verdicts
    BY <1>2
  <2>2. verdicts[i].age < VerdictLatency
    BY <1>2 DEF Pass
  <2> QED BY <1>2, <2>1, <2>2 DEF Verdicts
<1>4. /\ verdicts' = [i \in 1 .. Len(verdicts) |-> [verdicts[i] EXCEPT !.age = @ + 1]]
      /\ verdicts' \in Seq(Verdicts)
      /\ Len(verdicts') = Len(verdicts)
  BY <1>2, <1>3 DEF Pass
<1>5. \A i \in 1 .. Len(verdicts) :
        verdicts'[i].data = verdicts[i].data /\ verdicts'[i].age = verdicts[i].age + 1
  <2> TAKE i \in 1 .. Len(verdicts)
  <2>1. verdicts[i] \in Verdicts
    BY <1>2
  <2> QED BY <1>4, <2>1 DEF Verdicts
<1>6. seen' \in Nat /\ seen' <= seen + 1
      /\ (seen' > 0 => Dark /\ current_state = "FORWARD2")
  BY <1>2 DEF Pass, UpTo
<1>7. PathType'
  BY <1>1, <1>4, <1>6 DEF PathInv, PathType
<1>8. ASSUME seen' > 0 PROVE Stage'
  <2>1. CASE seen = 0
    BY <1>1, <1>6, <1>8, <2>1 DEF Stage, NotLookedAt
  <2>2. CASE seen > 0
    <3>1. Stage /\ ~ NotLookedAt
      BY <2>2, <1>6, <1>8 DEF PathInv, NotLookedAt, Pass, Dark
    <3>2. ASSUME NEW i \in 1 .. Len(verdicts), OnItsWay(i) PROVE Stage'
      <4>1. verdicts[i] \in Verdicts
        BY <1>2
      <4>2. seen' - 1 <= verdicts'[i].age
        BY <1>2, <1>5, <1>6, <3>2, <4>1 DEF OnItsWay, Verdicts
      <4>3. OnItsWay(i)'
        BY <1>4, <1>5, <3>2, <4>2 DEF OnItsWay
      <4> QED BY <1>4, <4>3 DEF Stage
    <3>3. CASE Heard
      <4>1. seen' <= 1 + VerdictLatency + due'
        BY <1>1, <1>2, <1>6, <3>3 DEF Heard
      <4> QED BY <1>1, <1>4, <1>5, <3>3, <4>1 DEF Stage, Heard
    <3> QED BY <3>1, <3>2, <3>3 DEF Stage
  <2> QED BY <1>2, <2>1, <2>2
<1> QED BY <1>1, <1>6, <1>7, <1>8 DEF PathInv

LEMMA PathKeeps == PathInv /\ [PathNext]_pathVars => PathInv'
<1> SUFFICES ASSUME PathInv, [PathNext]_pathVars PROVE PathInv'
  OBVIOUS
<1>1. CASE Scene
  BY <1>1 DEF Scene, PathInv, PathType, vars, inputs, viewer
<1>2. CASE Odometry
  <2>1. /\ UNCHANGED <<current_state, obstacle_detected, due, verdicts, frames, seen, Dark>>
        /\ state_received' = TRUE
    BY <1>2 DEF Odometry, StateCallback, viewer, camera, Dark
  <2> QED BY <2>1 DEF PathInv, PathType, Stage, NotLookedAt, OnItsWay, Heard
<1>3. CASE Set \/ UNCHANGED pathVars
  <2>1. UNCHANGED <<current_state, state_received, obstacle_detected, due, verdicts,
                    frames, seen, Dark>>
    BY <1>3 DEF Set, StepClock, ClockSet, pathVars, vars, inputs, viewer, camera, Dark
  <2> QED BY <2>1 DEF PathInv, PathType, Stage, NotLookedAt, OnItsWay, Heard
<1> QED BY <1>1, <1>2, <1>3, TickKeeps, ViewKeeps, HearKeeps, PassKeeps DEF PathNext

LEMMA StagesEnd == PathInv => ReactsInTime
<1> SUFFICES ASSUME PathInv PROVE seen <= Reaction
  BY DEF ReactsInTime
<1>1. /\ seen \in Nat /\ VerdictLatency \in Nat /\ MaxDelay \in Nat \ {0}
      /\ due \in 0 .. MaxDelay /\ verdicts \in Seq(Verdicts)
  BY ClockAssumption, PathAssumption
  DEF ClockAssumption, PathAssumption, PathInv, PathType
<1>2. ASSUME NEW i \in 1 .. Len(verdicts), OnItsWay(i) PROVE seen <= Reaction
  <2>1. verdicts[i] \in Verdicts
    BY <1>1
  <2> QED BY <1>1, <1>2, <2>1 DEF OnItsWay, Verdicts, Reaction
<1>3. CASE seen > 0 /\ (NotLookedAt \/ Heard)
  BY <1>1, <1>3 DEF NotLookedAt, Heard, Reaction
<1>4. CASE seen = 0
  BY <1>1, <1>4 DEF Reaction
<1> QED BY <1>1, <1>2, <1>3, <1>4 DEF PathInv, Stage

-----------------------------------------------------------------------------
(***************************************************************************)
(* HailoPublisher, for any number of frames and of jobs.  What makes       *)
(* PublishesOwnResults hold is the order of the accelerator: the job of    *)
(* the frame at hand is the last one, so that none is left to write once   *)
(* it has ended.                                                           *)
(***************************************************************************)
HailoType ==
  /\ frame \in 0 .. HailoFrames
  /\ step \in {"read", "submit", "wait", "publish", "ended"}
  /\ jobs \in Seq(0 .. HailoFrames)
  /\ DOMAIN buffer = 0 .. HailoFrames
  /\ published.frame \in 0 .. frame

\* The frame at hand is in the accelerator behind all others, or it failed, or
\* its results are in its buffer.
LastInv ==
  step \in {"wait", "publish"} =>
    /\ jobs = << >> => frame \in failed \/ buffer[Hailo!BufferOf(frame)] = frame
    /\ jobs # << >> => jobs[Len(jobs)] = frame

\* Nothing is in work when a result is published after its job has ended.
EndedInv ==
  /\ step = "publish" /\ waited => jobs = << >>
  /\ step = "publish" /\ python => waited /\ frame \notin failed
  /\ step \in {"submit", "wait", "publish"} => published.frame < frame

OwnInv == HailoType /\ LastInv /\ EndedInv /\ Hailo!PublishesOwnResults

LEMMA OwnInit == Hailo!Init => OwnInv
BY PartAssumption DEF PartAssumption, Hailo!Init, Hailo!None, OwnInv, HailoType, LastInv, EndedInv, Hailo!PublishesOwnResults, Hailo!OwnResultsDue

\* The accelerator is done with the oldest job.
LEMMA OldestEnds ==
  ASSUME OwnInv, jobs # << >>, jobs' = Tail(jobs),
         UNCHANGED <<python, step, frame, waited, published>>,
         \/ failed' = failed \cup {Head(jobs)} /\ buffer' = buffer
         \/ failed' = failed /\ buffer' = [buffer EXCEPT ![Hailo!BufferOf(Head(jobs))] = Head(jobs)]
  PROVE  OwnInv'
<1>f. HailoFrames \in Nat
  BY PartAssumption DEF PartAssumption
<1>0. jobs \in Seq(0 .. HailoFrames) /\ Head(jobs) \in 0 .. HailoFrames
  <2>1. jobs \in Seq(0 .. HailoFrames)
    BY DEF OwnInv, HailoType
  <2> QED BY <2>1, <1>f
<1>a. /\ Len(jobs) \in Nat /\ Len(jobs) >= 1
      /\ Len(Tail(jobs)) = Len(jobs) - 1
      /\ Tail(jobs) \in Seq(0 .. HailoFrames)
      /\ \A i \in 1 .. Len(jobs) - 1 : Tail(jobs)[i] = jobs[i + 1]
  BY <1>0
<1>b. frame \in 0 .. HailoFrames /\ DOMAIN buffer = 0 .. HailoFrames
  BY DEF OwnInv, HailoType
<1>1. HailoType'
  <2>1. DOMAIN buffer' = DOMAIN buffer
    OBVIOUS
  <2> QED BY <1>a, <1>b, <2>1 DEF OwnInv, HailoType
<1>2. LastInv'
  <2> SUFFICES ASSUME step \in {"wait", "publish"} PROVE LastInv'
    BY DEF LastInv
  <2>1. jobs[Len(jobs)] = frame
    BY DEF OwnInv, LastInv
  <2>2. CASE Len(jobs) = 1
    <3>1. jobs' = << >> /\ Head(jobs) = frame
      <4>1. Len(Tail(jobs)) = 0
        BY <1>a, <2>2
      <4>2. Tail(jobs) = << >>
        BY <1>a, <4>1
      <4> QED BY <1>0, <2>1, <2>2, <4>2
    <3>2. Hailo!BufferOf(frame) \in DOMAIN buffer
      BY <1>b, <1>f DEF Hailo!BufferOf
    <3>3. frame \in failed' \/ buffer'[Hailo!BufferOf(frame)] = frame
      BY <3>1, <3>2
    <3>4. Hailo!BufferOf(frame)' = Hailo!BufferOf(frame)
      BY DEF Hailo!BufferOf
    <3> QED BY <3>1, <3>3, <3>4 DEF LastInv
  <2>3. CASE Len(jobs) > 1
    <3>1. Len(jobs') = Len(jobs) - 1 /\ Len(jobs') >= 1
      BY <1>a, <2>3
    <3>2. jobs' # << >>
      BY <3>1
    <3>3. jobs'[Len(jobs')] = jobs[Len(jobs)]
      BY <1>a, <3>1
    <3> QED BY <2>1, <3>2, <3>3 DEF LastInv
  <2> QED BY <1>a, <2>2, <2>3
<1>3. EndedInv'
  <2>1. step = "publish" => ~ waited /\ ~ python
    BY DEF OwnInv, EndedInv
  <2> QED BY <2>1 DEF OwnInv, EndedInv
<1>4. Hailo!PublishesOwnResults'
  BY DEF OwnInv, Hailo!PublishesOwnResults, Hailo!OwnResultsDue
<1> QED BY <1>1, <1>2, <1>3, <1>4 DEF OwnInv

LEMMA OwnStep == OwnInv /\ [Hailo!Next]_hailoVars => OwnInv'
<1> SUFFICES ASSUME OwnInv, [Hailo!Next]_hailoVars PROVE OwnInv'
  OBVIOUS
<1>0. python' = python /\ HailoFrames \in Nat
  BY PartAssumption DEF PartAssumption, Hailo!Next, hailoVars
<1> USE DEF OwnInv, HailoType, LastInv, EndedInv, Hailo!PublishesOwnResults, Hailo!OwnResultsDue
<1>1. CASE Hailo!Read
  <2>1. /\ frame' = frame + 1 /\ frame' \in 0 .. HailoFrames
        /\ published'.frame \in 0 .. frame /\ published'.frame < frame'
        /\ step' = "submit"
    BY <1>0, <1>1 DEF Hailo!Read
  <2>2. HailoType'
    BY <1>0, <1>1, <2>1 DEF Hailo!Read
  <2>3. LastInv' /\ EndedInv'
    BY <1>0, <2>1
  <2>4. Hailo!PublishesOwnResults'
    BY <1>0, <2>1
  <2> QED BY <2>2, <2>3, <2>4
<1>2. CASE Hailo!ReadFails
  BY <1>0, <1>2 DEF Hailo!ReadFails
<1>3. CASE Hailo!Submit
  <2>1. /\ jobs' \in Seq(0 .. HailoFrames) /\ jobs' # << >>
        /\ jobs'[Len(jobs')] = frame
    BY <1>0, <1>3 DEF Hailo!Submit
  <2> QED BY <1>0, <1>3, <2>1 DEF Hailo!Submit
<1>4. CASE Hailo!SubmitFails
  BY <1>0, <1>4 DEF Hailo!SubmitFails
<1>5. CASE Hailo!WaitReturns
  <2>1. jobs = << >>
    <3> SUFFICES ASSUME jobs # << >> PROVE FALSE
      OBVIOUS
    <3>1. jobs[Len(jobs)] = frame /\ Len(jobs) \in DOMAIN jobs
      BY <1>0, <1>5 DEF Hailo!WaitReturns
    <3> QED BY <1>5, <3>1 DEF Hailo!WaitReturns, Hailo!InWork
  <2> QED BY <1>0, <1>5, <2>1 DEF Hailo!WaitReturns, Hailo!BufferOf
<1>6. CASE Hailo!WaitTimesOut
  BY <1>0, <1>6 DEF Hailo!WaitTimesOut, Hailo!BufferOf
<1>7. CASE Hailo!Publish
  <2>1. /\ step = "publish" /\ step' = "read" /\ published'.frame = frame
        /\ UNCHANGED <<frame, jobs, buffer, failed, waited>>
        /\ published'.content \in {buffer[Hailo!BufferOf(frame)]} \cup Hailo!Tearing(frame)
    BY <1>0, <1>7 DEF Hailo!Publish
  <2>2. jobs = << >> => Hailo!Tearing(frame) = {}
    BY DEF Hailo!Tearing
  <2>3. python \/ (waited /\ frame \notin failed) => published'.content = frame
    BY <2>1, <2>2
  <2> QED BY <1>0, <2>1, <2>3
<1>8. CASE Hailo!Complete
  BY <1>0, <1>8, OldestEnds DEF Hailo!Complete
<1>9. CASE Hailo!Fail
  BY <1>0, <1>9, OldestEnds DEF Hailo!Fail
<1>10. CASE UNCHANGED hailoVars
  BY <1>0, <1>10 DEF hailoVars, Hailo!BufferOf
<1> QED BY <1>1, <1>2, <1>3, <1>4, <1>5, <1>6, <1>7, <1>8, <1>9, <1>10 DEF Hailo!Next, Hailo!LoopStep

-----------------------------------------------------------------------------
(***************************************************************************)
(* CameraTest, for every stream and every size of a unit.  What has been   *)
(* read is the stream up to some byte b but for bytes that got lost: the   *)
(* parser holds the unit that b is in, unless part of that is lost, and    *)
(* every unit before it that is whole has been shown or is the packet.     *)
(***************************************************************************)
Start(u) == UnitBytes * (u - 1)
End(u)   == UnitBytes * u

Piece == [unit : 1 .. Len(sizes), bytes : Nat]

CameraType ==
  /\ sizes \in Seq(Nat) /\ position \in Nat /\ position <= End(Len(sizes))
  /\ data \in Seq(Nat \ {0})
  /\ assembling \in Piece \cup {Camera!Nothing} /\ packet \in Piece \cup {Camera!Nothing}
  /\ scaler \in Nat /\ shown \in Seq(1 .. Len(sizes))
  /\ broken \in {"no", "null", "misfit"}

\* The rest of the message, and the bytes behind it.
Unread(b) ==
  /\ b + Len(data) <= position
  /\ \A i \in 1 .. Len(data) : data[i] = Camera!UnitOf(b + i)
  /\ \A p \in b + Len(data) + 1 .. position : Camera!UnitOf(p) \in lost

\* What of a unit has been read.
Amount(u, b) == IF b < End(u) THEN b - Start(u) ELSE UnitBytes

Assembled(b) ==
  assembling # Camera!Nothing =>
    /\ packet = Camera!Nothing /\ Start(assembling.unit) < b
    /\ assembling.unit \notin lost => assembling.bytes = Amount(assembling.unit, b)

Packed(b) ==
  packet # Camera!Nothing =>
    /\ End(packet.unit) <= b
    /\ packet.unit \notin lost => packet.bytes = UnitBytes

Holds(piece, u) == piece # Camera!Nothing /\ piece.unit = u

Inside(u, b) == Start(u) < b /\ b < End(u)

NoneHalf(b) ==
  \A u \in 1 .. Len(sizes) : u \notin lost /\ Inside(u, b) => Holds(assembling, u)

Covered(b) ==
  \A u \in 1 .. Len(sizes) :
    u \notin lost /\ sizes[u] > 0 /\ Start(u) < b =>
      u \in Camera!ToSet(shown) \/ Holds(packet, u) \/ Holds(assembling, u)

Ordered(b) ==
  \A i \in 1 .. Len(shown) :
    /\ End(shown[i]) <= b
    /\ packet # Camera!Nothing => shown[i] < packet.unit
    /\ assembling # Camera!Nothing => shown[i] < assembling.unit

ReadTo(b) ==
  Unread(b) /\ Assembled(b) /\ Packed(b) /\ NoneHalf(b) /\ Covered(b) /\ Ordered(b)

Rising == \A i, j \in 1 .. Len(shown) : i < j => shown[i] < shown[j]

\* Only pictures of two sizes misfit a scaler, and only null has no decoder.
TwoSizes ==
  \E u, w \in 1 .. Len(sizes) : sizes[u] > 0 /\ sizes[w] > 0 /\ sizes[u] # sizes[w]

ScalerInv ==
  /\ scaler # 0 => \E u \in 1 .. Len(sizes) : sizes[u] = scaler
  /\ broken = "null" => ~decoder
  /\ broken = "misfit" => TwoSizes

CameraInv ==
  CameraType /\ ScalerInv /\ Rising /\ (broken = "no" => \E b \in Nat : ReadTo(b))

-----------------------------------------------------------------------------
\* Where the units of the stream begin and end.
LEMMA Lines ==
  ASSUME NEW a \in Int
  PROVE  /\ Start(a) \in Int /\ End(a) \in Int /\ End(a) = Start(a) + UnitBytes
         /\ Start(a) < End(a) /\ UnitBytes \in Nat \ {0}
         /\ a >= 1 => Start(a) \in Nat /\ End(a) \in Nat
BY PartAssumption DEF PartAssumption, Start, End

LEMMA LinesApart ==
  ASSUME NEW a \in Int, NEW c \in Int, a < c
  PROVE  End(a) <= Start(c)
BY PartAssumption DEF PartAssumption, Start, End

LEMMA UnitAt ==
  ASSUME NEW p \in Nat \ {0}
  PROVE  /\ Camera!UnitOf(p) \in Nat \ {0}
         /\ Start(Camera!UnitOf(p)) < p /\ p <= End(Camera!UnitOf(p))
BY PartAssumption DEF PartAssumption, Camera!UnitOf, Start, End

LEMMA UnitOnly ==
  ASSUME NEW p \in Nat \ {0}, NEW u \in Int, Start(u) < p, p <= End(u)
  PROVE  Camera!UnitOf(p) = u
<1>1. PICK v \in Nat \ {0} : v = Camera!UnitOf(p) /\ Start(v) < p /\ p <= End(v)
  BY UnitAt
<1>2. ~ (v < u)
  BY <1>1, Lines, LinesApart
<1>3. ~ (u < v)
  BY <1>1, Lines, LinesApart
<1> QED BY <1>1, <1>2, <1>3

\* A byte of the stream belongs to a unit of it.
LEMMA UnitInStream ==
  ASSUME CameraType, NEW p \in 1 .. position
  PROVE  Camera!UnitOf(p) \in 1 .. Len(sizes)
<1>0. p \in Nat \ {0} /\ p <= position /\ position \in Nat /\ Len(sizes) \in Nat
  BY DEF CameraType
<1>1. PICK v \in Nat \ {0} : v = Camera!UnitOf(p) /\ Start(v) < p
  BY <1>0, UnitAt
<1>2. p <= End(Len(sizes)) /\ End(Len(sizes)) \in Int
  <2>1. Len(sizes) \in Int
    BY <1>0
  <2>2. End(Len(sizes)) \in Int
    BY <2>1, Lines
  <2> QED BY <1>0, <2>2 DEF CameraType
<1>3. ~ (Len(sizes) < v)
  BY <1>0, <1>1, <1>2, Lines, LinesApart
<1> QED BY <1>1, <1>2, <1>3

\* What is left of a message of which l bytes have been read.
LEMMA Rest ==
  ASSUME NEW S, NEW s \in Seq(S), NEW l \in 1 .. Len(s)
  PROVE  /\ SubSeq(s, l + 1, Len(s)) \in Seq(S)
         /\ Len(SubSeq(s, l + 1, Len(s))) = Len(s) - l
         /\ \A i \in 1 .. Len(s) - l : SubSeq(s, l + 1, Len(s))[i] = s[l + i]
OBVIOUS

\* Units and bytes, as the steps use them.
LEMMA CameraTypes ==
  ASSUME CameraType
  PROVE  /\ Len(data) \in Nat /\ Len(shown) \in Nat /\ Len(sizes) \in Nat /\ position \in Nat
         /\ \A i \in 1 .. Len(data) : data[i] \in Nat \ {0}
         /\ \A i \in 1 .. Len(shown) : shown[i] \in 1 .. Len(sizes)
         /\ \A u \in 1 .. Len(sizes) : sizes[u] \in Nat
         /\ DOMAIN data = 1 .. Len(data) /\ DOMAIN shown = 1 .. Len(shown)
         /\ DOMAIN sizes = 1 .. Len(sizes)
         /\ assembling # Camera!Nothing => assembling.unit \in 1 .. Len(sizes) /\ assembling.bytes \in Nat
         /\ packet # Camera!Nothing => packet.unit \in 1 .. Len(sizes) /\ packet.bytes \in Nat
<1>1. /\ assembling # Camera!Nothing => assembling \in Piece
      /\ packet # Camera!Nothing => packet \in Piece
  BY DEF CameraType
<1>2. /\ sizes \in Seq(Nat) /\ data \in Seq(Nat \ {0}) /\ shown \in Seq(1 .. Len(sizes))
      /\ position \in Nat
  BY DEF CameraType
<1>3. /\ \A i \in 1 .. Len(data) : data[i] \in Nat \ {0}
      /\ \A i \in 1 .. Len(shown) : shown[i] \in 1 .. Len(sizes)
      /\ \A u \in 1 .. Len(sizes) : sizes[u] \in Nat
      /\ DOMAIN data = 1 .. Len(data) /\ DOMAIN shown = 1 .. Len(shown)
      /\ DOMAIN sizes = 1 .. Len(sizes)
  BY <1>2
<1>4. Len(data) \in Nat /\ Len(shown) \in Nat /\ Len(sizes) \in Nat
  BY <1>2
<1> QED BY <1>1, <1>2, <1>3, <1>4 DEF Piece

LEMMA CameraStart == Camera!Init => CameraInv
<1> SUFFICES ASSUME Camera!Init PROVE CameraInv
  OBVIOUS
<1>1. /\ sizes \in Seq(Nat) /\ Len(sizes) \in Nat /\ position = 0 /\ data = << >> /\ shown = << >>
      /\ assembling = Camera!Nothing /\ packet = Camera!Nothing /\ scaler = 0
      /\ broken = "no" /\ Len(data) = 0 /\ Len(shown) = 0
  BY PartAssumption DEF PartAssumption, Camera!Init
<1>2. CameraType
  BY <1>1, PartAssumption DEF PartAssumption, CameraType, End
<1>3. Unread(0) /\ Assembled(0) /\ Packed(0) /\ Ordered(0)
  BY <1>1 DEF Unread, Assembled, Packed, Ordered
<1>4. NoneHalf(0) /\ Covered(0)
  <2>1. \A u \in 1 .. Len(sizes) : ~ (Start(u) < 0)
    BY <1>1, Lines
  <2> QED BY <2>1 DEF NoneHalf, Covered, Inside
<1>5. ScalerInv /\ Rising
  BY <1>1 DEF ScalerInv, Rising
<1> QED BY <1>2, <1>3, <1>4, <1>5 DEF CameraInv, ReadTo

\* A message is the stream from where the last one ended, lost ones included:
\* a unit that is not lost has been read to its end by then, or not begun.
LEMMA VideoKeeps ==
  ASSUME CameraInv, broken = "no", UNCHANGED sizes, NEW n \in Nat \ {0}, Camera!VideoCallback(n)
  PROVE  CameraInv'
<1>1. /\ UNCHANGED <<sizes, decoder, assembling, packet, scaler, shown, lost, broken>>
      /\ data = << >> /\ Len(data) = 0 /\ packet = Camera!Nothing
      /\ position' = position + n /\ position' <= End(Len(sizes))
      /\ data' = Camera!Bytes(n) /\ CameraType
  BY DEF Camera!VideoCallback, End, CameraInv
<1>2. PICK b \in Nat : ReadTo(b)
  BY DEF CameraInv
<1>3. PICK c \in Nat : c = position
  BY CameraTypes, <1>1
<1>4. \A i \in 1 .. n : Camera!UnitOf(c + i) \in Nat \ {0}
  BY UnitAt
<1>5. data' \in Seq(Nat \ {0}) /\ Len(data') = n
      /\ \A i \in 1 .. n : data'[i] = Camera!UnitOf(c + i)
  BY <1>1, <1>3, <1>4 DEF Camera!Bytes
<1>6. CameraType'
  BY <1>1, <1>3, <1>5 DEF CameraType, Piece
<1>7. b <= c /\ \A p \in b + 1 .. c : Camera!UnitOf(p) \in lost
  BY <1>1, <1>2, <1>3 DEF ReadTo, Unread
<1>8. \A u \in 1 .. Len(sizes) : u \notin lost =>
        /\ Start(u) < c => Start(u) < b
        /\ b < End(u) => c = b \/ c <= Start(u)
  <2> SUFFICES ASSUME NEW u \in 1 .. Len(sizes), u \notin lost
               PROVE  (Start(u) < c => Start(u) < b) /\ (b < End(u) => c = b \/ c <= Start(u))
    OBVIOUS
  <2>1. /\ Start(u) \in Nat /\ End(u) \in Nat /\ Start(u) < End(u)
        /\ End(u) = Start(u) + UnitBytes /\ UnitBytes \in Nat \ {0}
    BY Lines
  <2>2. ASSUME Start(u) < c, b <= Start(u) PROVE FALSE
    <3>1. Start(u) + 1 \in b + 1 .. c /\ Camera!UnitOf(Start(u) + 1) = u
      BY <2>1, <2>2, UnitOnly
    <3> QED BY <1>7, <3>1
  <2>3. ASSUME b < End(u), b < c, Start(u) < c PROVE FALSE
    <3>1. Start(u) < b
      BY <2>1, <2>2, <2>3
    <3>2. b + 1 \in b + 1 .. c /\ Camera!UnitOf(b + 1) = u
      BY <2>1, <2>3, <3>1, UnitOnly
    <3> QED BY <1>7, <3>2
  <2> QED BY <1>7, <2>1, <2>2, <2>3
<1>9. Unread(c)' /\ Packed(c)'
  BY <1>1, <1>3, <1>5 DEF Unread, Packed
<1>10. Assembled(c)'
  <2> SUFFICES ASSUME assembling # Camera!Nothing
               PROVE  /\ Start(assembling.unit) < c
                      /\ assembling.unit \notin lost =>
                           assembling.bytes = Amount(assembling.unit, c)
    BY <1>1 DEF Assembled
  <2> DEFINE a == assembling.unit
  <2>0. a \in 1 .. Len(sizes) /\ a \in Int
    BY <1>1, CameraTypes
  <2>1. Start(a) \in Int /\ End(a) \in Int
    BY <2>0, Lines
  <2>2. Start(a) < b /\ (a \notin lost => assembling.bytes = Amount(a, b))
    BY <1>2 DEF ReadTo, Assembled
  <2> HIDE DEF a
  <2>3. a \notin lost => Amount(a, c) = Amount(a, b)
    BY <1>7, <1>8, <2>0, <2>1, <2>2 DEF Amount
  <2> QED BY <1>7, <2>1, <2>2, <2>3 DEF a
<1>11. NoneHalf(c)'
  <2> SUFFICES ASSUME NEW u \in 1 .. Len(sizes), u \notin lost, Start(u) < c, c < End(u)
               PROVE  Holds(assembling, u)
    BY <1>1 DEF NoneHalf, Inside
  <2>1. Start(u) < b /\ b < End(u)
    BY <1>7, <1>8, Lines
  <2> QED BY <1>2, <2>1 DEF ReadTo, NoneHalf, Inside
<1>12. Covered(c)'
  BY <1>1, <1>2, <1>8 DEF ReadTo, Covered
<1>13. Ordered(c)'
  <2> SUFFICES ASSUME NEW i \in 1 .. Len(shown)
               PROVE  /\ End(shown[i]) <= c
                      /\ assembling # Camera!Nothing => shown[i] < assembling.unit
    BY <1>1 DEF Ordered
  <2>1. /\ End(shown[i]) <= b
        /\ assembling # Camera!Nothing => shown[i] < assembling.unit
    BY <1>2 DEF ReadTo, Ordered
  <2>2. shown[i] \in Int
    BY <1>1, CameraTypes
  <2>3. End(shown[i]) \in Int
    BY <2>2, Lines
  <2> QED BY <1>7, <2>1, <2>3
<1>14. ScalerInv' /\ Rising'
  BY <1>1 DEF CameraInv, ScalerInv, Rising, TwoSizes
<1>15. ReadTo(c)'
  BY <1>9, <1>10, <1>11, <1>12, <1>13 DEF ReadTo
<1> QED BY <1>6, <1>14, <1>15 DEF CameraInv

\* A message that the topic drops leaves a gap, as does what a parser error
\* gives up.
LEMMA LossKeeps ==
  ASSUME CameraInv, broken = "no", UNCHANGED sizes,
         (\E n \in Nat \ {0} : Camera!Lose(n)) \/ Camera!ParseError
  PROVE  CameraInv'
<1>1. /\ UNCHANGED <<sizes, decoder, assembling, packet, scaler, shown, broken>>
      /\ CameraType /\ lost \subseteq lost'
      /\ position' \in Nat /\ position' <= End(Len(sizes))
  BY CameraTypes DEF Camera!Lose, Camera!ParseError, End, CameraInv, CameraType
<1>2. PICK b \in Nat : ReadTo(b)
  BY DEF CameraInv
<1>3. data' \in Seq(Nat \ {0}) /\ Unread(b)'
  <2>1. ASSUME NEW n \in Nat \ {0}, Camera!Lose(n) PROVE data' \in Seq(Nat \ {0}) /\ Unread(b)'
    <3>1. /\ data' = data /\ position' = position + n
          /\ lost' = lost \cup Camera!ToSet(Camera!Bytes(n))
      BY <2>1 DEF Camera!Lose
    <3>2. \A p \in position + 1 .. position + n : Camera!UnitOf(p) \in lost'
      <4> TAKE p \in position + 1 .. position + n
      <4>0. p - position \in 1 .. n /\ p = position + (p - position)
        BY <1>1, CameraTypes
      <4>1. PICK i \in 1 .. n : p = position + i
        BY <4>0
      <4>2. Camera!UnitOf(p) \in Camera!ToSet(Camera!Bytes(n))
        BY <4>1 DEF Camera!ToSet, Camera!Bytes
      <4> QED BY <3>1, <4>2
    <3> QED BY <1>1, <1>2, <3>1, <3>2, CameraTypes DEF ReadTo, Unread, CameraType
  <2>2. CASE Camera!ParseError
    <3>1. /\ data' = << >> /\ Len(data') = 0 /\ position' = position
          /\ lost' = lost \cup Camera!ToSet(data)
      BY <2>2 DEF Camera!ParseError
    <3>2. \A i \in 1 .. Len(data) : data[i] \in lost'
      BY <1>1, <3>1, CameraTypes DEF Camera!ToSet
    <3>3. \A p \in b + 1 .. position : Camera!UnitOf(p) \in lost'
      <4> TAKE p \in b + 1 .. position
      <4>1. CASE p > b + Len(data)
        BY <1>1, <1>2, <4>1, CameraTypes DEF ReadTo, Unread
      <4>2. CASE p <= b + Len(data)
        <5>1. p - b \in 1 .. Len(data) /\ p = b + (p - b)
          BY <1>1, <4>2, CameraTypes
        <5> QED BY <1>2, <3>2, <5>1 DEF ReadTo, Unread
      <4> QED BY <1>1, <4>1, <4>2, CameraTypes
    <3> QED BY <1>1, <1>2, <3>1, <3>3, CameraTypes DEF ReadTo, Unread
  <2> QED BY <2>1, <2>2
<1>4. CameraType'
  BY <1>1, <1>3 DEF CameraType, Piece
<1>5. ReadTo(b)'
  BY <1>1, <1>2, <1>3 DEF ReadTo, Assembled, Packed, NoneHalf, Covered, Ordered
<1>6. ScalerInv' /\ Rising'
  BY <1>1 DEF CameraInv, ScalerInv, Rising, TwoSizes
<1> QED BY <1>2, <1>4, <1>5, <1>6 DEF CameraInv

\* The parser ends a unit by the first byte of the next.
LEMMA EndKeeps ==
  ASSUME CameraInv, broken = "no", UNCHANGED sizes, Camera!ParseEnd
  PROVE  CameraInv'
<1>1. /\ UNCHANGED <<sizes, decoder, position, data, scaler, shown, lost, broken>>
      /\ CameraType /\ packet = Camera!Nothing /\ assembling # Camera!Nothing
      /\ packet' = assembling /\ assembling' = Camera!Nothing
      /\ data # << >> /\ assembling.unit # Head(data)
  BY DEF Camera!ParseEnd, CameraInv
<1>2. PICK b \in Nat : ReadTo(b)
  BY DEF CameraInv
<1>3. CameraType'
  BY <1>1 DEF CameraType, Piece
<1> DEFINE a == assembling.unit
<1>4. a \in 1 .. Len(sizes) /\ a \in Int /\ Len(data) \in Nat /\ Len(data) >= 1 /\ Head(data) = data[1]
  BY <1>1, CameraTypes DEF CameraType
<1>5. Start(a) < b /\ (a \notin lost => assembling.bytes = Amount(a, b))
  BY <1>1, <1>2 DEF ReadTo, Assembled
<1>6. End(a) \in Int /\ End(a) <= b
  <2>1. End(a) \in Int /\ Start(a) \in Int
    BY <1>4, Lines
  <2>2. ASSUME b < End(a) PROVE FALSE
    <3>1. Camera!UnitOf(b + 1) = a
      BY <1>4, <1>5, <2>1, <2>2, UnitOnly
    <3>2. data[1] = Camera!UnitOf(b + 1)
      BY <1>2, <1>4 DEF ReadTo, Unread
    <3> QED BY <1>1, <1>4, <3>1, <3>2
  <2> QED BY <2>1, <2>2
<1>7. a \notin lost => assembling.bytes = UnitBytes
  BY <1>5, <1>6 DEF Amount
<1>8. Unread(b)' /\ Assembled(b)'
  BY <1>1, <1>2 DEF ReadTo, Unread, Assembled
<1>9. Packed(b)'
  BY <1>1, <1>6, <1>7 DEF Packed
<1>10. NoneHalf(b)'
  <2> SUFFICES ASSUME NEW u \in 1 .. Len(sizes), u \notin lost, Inside(u, b) PROVE FALSE
    BY <1>1 DEF NoneHalf, Inside
  <2>1. u = a
    BY <1>2 DEF ReadTo, NoneHalf, Holds
  <2> QED BY <1>6, <2>1 DEF Inside
<1>11. Covered(b)'
  BY <1>1, <1>2 DEF ReadTo, Covered, Holds
<1>12. Ordered(b)'
  BY <1>1, <1>2 DEF ReadTo, Ordered
<1>13. ScalerInv' /\ Rising'
  BY <1>1 DEF CameraInv, ScalerInv, Rising, TwoSizes
<1>14. ReadTo(b)'
  BY <1>8, <1>9, <1>10, <1>11, <1>12 DEF ReadTo
<1> QED BY <1>2, <1>3, <1>13, <1>14 DEF CameraInv

\* The parser reads to the end of the unit or of the message, whichever comes
\* first: what it has then is the unit up to there.
LEMMA BytesKeep ==
  ASSUME CameraInv, broken = "no", UNCHANGED sizes, Camera!ParseBytes
  PROVE  CameraInv'
<1>1. /\ UNCHANGED <<sizes, decoder, position, scaler, shown, lost, broken>>
      /\ CameraType /\ packet = Camera!Nothing /\ data # << >>
  BY DEF Camera!ParseBytes, CameraInv
<1>2. PICK b \in Nat : ReadTo(b)
  BY DEF CameraInv
<1>l. PICK m \in Nat \ {0} : m = Len(data)
  BY <1>1, CameraTypes DEF CameraType
<1>h. PICK h \in Nat \ {0} : h = Head(data) /\ h = data[1]
  BY <1>1, <1>l, CameraTypes DEF CameraType
<1>3. PICK n \in 1 .. m :
        /\ Camera!Leading(n) /\ Camera!Progress(n)
        /\ IF n < m
           THEN /\ packet' = [unit |-> h, bytes |-> assembling.bytes + n]
                /\ assembling' = Camera!Nothing
           ELSE /\ assembling' = [unit |-> h, bytes |-> assembling.bytes + n]
                /\ packet' = packet
  BY <1>1, <1>l, <1>h, CameraTypes DEF Camera!ParseBytes
<1>4. /\ \A i \in 1 .. n : data[i] = h
      /\ n < m => data[n + 1] # h
  BY <1>3, <1>h, <1>l DEF Camera!Leading
<1>5. /\ data' \in Seq(Nat \ {0}) /\ Len(data') = m - n
      /\ \A i \in 1 .. m - n : data'[i] = data[n + i]
  BY <1>1, <1>3, <1>l, Rest DEF Camera!Progress, CameraType
<1>6. /\ b + m <= position /\ position \in Nat
      /\ \A i \in 1 .. m : data[i] = Camera!UnitOf(b + i)
      /\ \A p \in b + m + 1 .. position : Camera!UnitOf(p) \in lost
  BY <1>1, <1>2, <1>l, CameraTypes DEF ReadTo, Unread
<1>7. PICK c \in Nat \ {0} : c = b + n /\ b < c /\ c <= position
  BY <1>6
<1>8. h \in 1 .. Len(sizes) /\ h \in Int
  <2>1. b + 1 \in 1 .. position
    BY <1>6
  <2>2. h = Camera!UnitOf(b + 1)
    BY <1>h, <1>6
  <2> QED BY <1>1, <2>1, <2>2, UnitInStream
<1>9. /\ Start(h) \in Nat /\ End(h) \in Nat /\ End(h) = Start(h) + UnitBytes
      /\ UnitBytes \in Nat \ {0} /\ Start(h) < End(h)
  BY <1>8, Lines
<1>10. Start(h) <= b /\ c <= End(h)
  <2>1. Start(h) < b + 1
    BY <1>h, <1>6, UnitAt
  <2>2. data[n] = Camera!UnitOf(b + n) /\ data[n] = h
    BY <1>4, <1>6
  <2>3. c <= End(h)
    BY <1>7, <2>2, UnitAt
  <2> QED BY <1>9, <2>1, <2>3
<1>11. n < m => c = End(h)
  <2> SUFFICES ASSUME n < m, c < End(h) PROVE FALSE
    BY <1>9, <1>10
  <2>1. data[n + 1] = Camera!UnitOf(b + (n + 1))
    BY <1>6
  <2>2. Start(h) < b + (n + 1) /\ b + (n + 1) <= End(h)
    BY <1>7, <1>9, <1>10
  <2>3. Camera!UnitOf(b + (n + 1)) = h
    BY <1>8, <2>2, UnitOnly
  <2> QED BY <1>4, <2>1, <2>3
<1>12. /\ assembling = Camera!Nothing \/ assembling.unit = h
       /\ assembling.bytes \in Nat
  BY <1>1, <1>h, CameraTypes DEF Camera!ParseBytes, Camera!Nothing
\* What it holds of the unit now is what has been read of it.
<1>13. h \notin lost => assembling.bytes + n = c - Start(h)
  <2> SUFFICES ASSUME h \notin lost PROVE assembling.bytes = b - Start(h)
    BY <1>7, <1>9, <1>12
  <2>1. CASE assembling = Camera!Nothing
    <3>1. ~ Inside(h, b)
      BY <1>2, <1>8, <2>1 DEF ReadTo, NoneHalf, Holds
    <3>2. b = Start(h)
      BY <1>7, <1>9, <1>10, <3>1 DEF Inside
    <3> QED BY <1>9, <2>1, <3>2 DEF Camera!Nothing
  <2>2. CASE assembling # Camera!Nothing
    <3>1. assembling.unit = h /\ assembling.bytes = Amount(h, b)
      BY <1>2, <1>12, <2>2 DEF ReadTo, Assembled
    <3>2. b < End(h)
      BY <1>7, <1>9, <1>10
    <3> QED BY <3>1, <3>2 DEF Amount
  <2> QED BY <2>1, <2>2
<1>14. [unit |-> h, bytes |-> assembling.bytes + n] \in Piece /\ Piece' = Piece
  BY <1>1, <1>8, <1>12 DEF Piece
<1>15. CameraType'
  BY <1>1, <1>3, <1>5, <1>14 DEF CameraType
<1>16. Unread(c)'
  <2>1. c + Len(data') = b + m
    BY <1>5, <1>7
  <2>2. \A i \in 1 .. m - n : data'[i] = Camera!UnitOf(c + i)
    <3> TAKE i \in 1 .. m - n
    <3>1. data[n + i] = Camera!UnitOf(b + (n + i)) /\ b + (n + i) = c + i
      BY <1>6, <1>7
    <3> QED BY <1>5, <3>1
  <2> QED BY <1>1, <1>5, <1>6, <2>1, <2>2 DEF Unread
<1>17. h # 0
  OBVIOUS
<1>18. Assembled(c)' /\ Packed(c)'
  <2>1. CASE n < m
    <3>1. /\ packet'.unit = h /\ packet'.bytes = assembling.bytes + n
          /\ assembling' = Camera!Nothing
      BY <1>3, <2>1
    <3>2. c - Start(h) = UnitBytes
      BY <1>9, <1>11, <2>1
    <3>3. Packed(c)'
      BY <1>1, <1>9, <1>11, <1>13, <2>1, <3>1, <3>2 DEF Packed
    <3> QED BY <3>1, <3>3 DEF Assembled
  <2>2. CASE ~ (n < m)
    <3>1. /\ assembling'.unit = h /\ assembling'.bytes = assembling.bytes + n
          /\ packet' = Camera!Nothing
      BY <1>1, <1>3, <2>2
    <3>2. Start(h) < c
      BY <1>7, <1>9, <1>10
    <3>3. c - Start(h) = Amount(h, c)
      BY <1>9, <1>10 DEF Amount
    <3>4. Assembled(c)'
      BY <1>1, <1>13, <3>1, <3>2, <3>3 DEF Assembled
    <3> QED BY <3>1, <3>4 DEF Packed
  <2> QED BY <2>1, <2>2
\* Nothing but h has been read since b.
<1>19. \A u \in 1 .. Len(sizes) :
         Start(u) < c => u = h \/ (Start(u) < b /\ End(u) <= b)
  <2> SUFFICES ASSUME NEW u \in 1 .. Len(sizes), Start(u) < c, u # h
               PROVE  Start(u) < b /\ End(u) <= b
    OBVIOUS
  <2>1. u \in Int /\ Start(u) \in Int /\ End(u) \in Int /\ Start(u) < End(u)
    BY Lines
  <2>2. ~ (h < u)
    <3> SUFFICES ASSUME h < u PROVE FALSE
      OBVIOUS
    <3>1. End(h) <= Start(u)
      BY <1>8, <2>1, LinesApart
    <3> QED BY <1>9, <1>10, <2>1, <3>1
  <2>3. End(u) <= Start(h)
    BY <1>8, <2>1, <2>2, LinesApart
  <2> QED BY <1>9, <1>10, <2>1, <2>3
<1>20. Holds(packet, h)' \/ Holds(assembling, h)'
  BY <1>3, <1>17 DEF Holds, Camera!Nothing
<1>21. NoneHalf(c)'
  <2> SUFFICES ASSUME NEW u \in 1 .. Len(sizes), u \notin lost, Start(u) < c, c < End(u)
               PROVE  Holds(assembling, u)'
    BY <1>1 DEF NoneHalf, Inside
  <2>1. u = h
    BY <1>7, <1>19, Lines
  <2>2. ~ (n < m)
    BY <1>9, <1>11, <2>1
  <2> QED BY <1>3, <1>17, <2>1, <2>2 DEF Holds, Camera!Nothing
<1>22. Covered(c)'
  <2> SUFFICES ASSUME NEW u \in 1 .. Len(sizes), u \notin lost, sizes[u] > 0, Start(u) < c
               PROVE  u \in Camera!ToSet(shown) \/ Holds(packet, u)' \/ Holds(assembling, u)'
    BY <1>1 DEF Covered
  <2>1. CASE u = h
    BY <1>20, <2>1
  <2>2. CASE u # h
    <3>1. u \in Camera!ToSet(shown) \/ Holds(packet, u) \/ Holds(assembling, u)
      BY <1>2, <1>19, <2>2 DEF ReadTo, Covered
    <3> QED BY <1>1, <1>12, <2>2, <3>1 DEF Holds
  <2> QED BY <2>1, <2>2
<1>23. \A i \in 1 .. Len(shown) : End(shown[i]) <= b /\ shown[i] < h
  <2> SUFFICES ASSUME NEW i \in 1 .. Len(shown) PROVE End(shown[i]) <= b /\ shown[i] < h
    OBVIOUS
  <2>1. End(shown[i]) <= b /\ shown[i] \in Int
    BY <1>1, <1>2, CameraTypes DEF ReadTo, Ordered
  <2>2. Start(shown[i]) \in Int /\ End(shown[i]) \in Int /\ Start(shown[i]) < End(shown[i])
    BY <2>1, Lines
  <2>3. shown[i] # h
    BY <1>7, <1>9, <1>10, <2>1, <2>2
  <2>4. ~ (h < shown[i])
    <3> SUFFICES ASSUME h < shown[i] PROVE FALSE
      OBVIOUS
    <3>1. End(h) <= Start(shown[i])
      BY <1>8, <2>1, LinesApart
    <3> QED BY <1>7, <1>9, <1>10, <2>1, <2>2, <3>1
  <2> QED BY <1>8, <2>1, <2>3, <2>4
<1>24. Ordered(c)'
  <2> SUFFICES ASSUME NEW i \in 1 .. Len(shown)
               PROVE  /\ End(shown[i]) <= c
                      /\ packet' # Camera!Nothing => shown[i] < packet'.unit
                      /\ assembling' # Camera!Nothing => shown[i] < assembling'.unit
    BY <1>1 DEF Ordered
  <2>1. End(shown[i]) <= b /\ shown[i] < h
    BY <1>23
  <2>2. shown[i] \in Int
    BY <1>1, CameraTypes
  <2>3. End(shown[i]) \in Int
    BY <2>2, Lines
  <2>4. End(shown[i]) <= c
    BY <1>7, <2>1, <2>3
  <2> QED BY <1>1, <1>3, <2>1, <2>4
<1>25. ScalerInv' /\ Rising'
  BY <1>1 DEF CameraInv, ScalerInv, Rising, TwoSizes
<1>26. ReadTo(c)'
  BY <1>16, <1>18, <1>21, <1>22, <1>24 DEF ReadTo
<1> QED BY <1>15, <1>25, <1>26 DEF CameraInv

\* The frame of a packet is behind all that have been shown; a scaler that it
\* does not fit was made for another size.
LEMMA FrameKeeps ==
  ASSUME CameraInv, broken = "no", UNCHANGED sizes, Camera!ShowFrame
  PROVE  CameraInv'
<1>1. /\ UNCHANGED <<sizes, decoder, position, data, assembling, lost>>
      /\ CameraType /\ packet # Camera!Nothing /\ packet' = Camera!Nothing
  BY DEF Camera!ShowFrame, CameraInv
<1>2. PICK b \in Nat : ReadTo(b)
  BY DEF CameraInv
<1>3. PICK k \in 1 .. Len(sizes) : k = packet.unit
  BY <1>1, CameraTypes
<1>4. /\ sizes[k] \in Nat /\ shown \in Seq(1 .. Len(sizes)) /\ Len(shown) \in Nat
      /\ assembling = Camera!Nothing /\ scaler \in Nat
  BY <1>1, <1>2, CameraTypes DEF ReadTo, Assembled, CameraType
<1>5. \/ /\ sizes[k] > 0 /\ scaler' = Camera!ScalerOf(sizes[k])
         /\ shown' = Append(shown, k)
         /\ broken' = IF scaler' = sizes[k] THEN broken ELSE "misfit"
      \/ ~ (sizes[k] > 0) /\ UNCHANGED <<scaler, shown, broken>>
  BY <1>3 DEF Camera!ShowFrame, Camera!Usable
<1>6. \A i \in 1 .. Len(shown) : shown[i] < k /\ End(shown[i]) <= b /\ shown[i] \in 1 .. Len(sizes)
  BY <1>1, <1>2, <1>3, CameraTypes DEF ReadTo, Ordered
<1>7. End(k) <= b
  BY <1>1, <1>2, <1>3 DEF ReadTo, Packed
\* The pictures shown now are those shown before and, perhaps, that of k.
<1>8. /\ shown' \in Seq(1 .. Len(sizes))
      /\ \A i \in 1 .. Len(shown') : shown'[i] = k \/ (i \in 1 .. Len(shown) /\ shown'[i] = shown[i])
      /\ \A i \in 1 .. Len(shown) : i \in 1 .. Len(shown') /\ shown'[i] = shown[i]
      /\ \A i, j \in 1 .. Len(shown') : i < j => i \in 1 .. Len(shown) /\ shown'[i] = shown[i]
      /\ sizes[k] > 0 => \E i \in 1 .. Len(shown') : shown'[i] = k
  <2>1. CASE ~ (sizes[k] > 0)
    <3>1. shown' = shown
      BY <1>5, <2>1
    <3> QED BY <1>4, <2>1, <3>1
  <2>2. CASE sizes[k] > 0
    <3>1. shown' = Append(shown, k)
      BY <1>5, <2>2
    <3>2. /\ shown' \in Seq(1 .. Len(sizes)) /\ Len(shown') = Len(shown) + 1
          /\ \A i \in 1 .. Len(shown) : shown'[i] = shown[i]
          /\ shown'[Len(shown) + 1] = k
      BY <1>4, <3>1
    <3>3. PICK l \in Nat : l = Len(shown)
      BY <1>4
    <3>4. \A i \in 1 .. Len(shown') : i = l + 1 \/ i \in 1 .. l
      BY <3>2, <3>3
    <3>5. \A i \in 1 .. Len(shown') : shown'[i] = k \/ (i \in 1 .. Len(shown) /\ shown'[i] = shown[i])
      BY <3>2, <3>3, <3>4
    <3>6. \A i \in 1 .. Len(shown) : i \in 1 .. Len(shown') /\ shown'[i] = shown[i]
      BY <3>2, <3>3
    <3>7. \A i, j \in 1 .. Len(shown') : i < j => i \in 1 .. Len(shown) /\ shown'[i] = shown[i]
      BY <3>2, <3>3, <3>4
    <3>8. \E i \in 1 .. Len(shown') : shown'[i] = k
      BY <3>2, <3>3
    <3> QED BY <3>2, <3>5, <3>6, <3>7, <3>8
  <2> QED BY <2>1, <2>2
<1>9. CameraType'
  <2>1. scaler' \in Nat /\ broken' \in {"no", "null", "misfit"}
    BY <1>1, <1>4, <1>5 DEF Camera!ScalerOf, CameraType
  <2> QED BY <1>1, <1>8, <2>1 DEF CameraType, Piece
<1>10. ScalerInv'
  <2>1. sizes[k] > 0 => k \in 1 .. Len(sizes) /\ sizes[k] # 0
    BY <1>4
  <2>2. scaler' # 0 => \E u \in 1 .. Len(sizes) : sizes[u] = scaler'
    BY <1>5, <2>1 DEF Camera!ScalerOf, CameraInv, ScalerInv
  <2>3. broken' # "no" => TwoSizes
    <3> SUFFICES ASSUME broken' # "no" PROVE TwoSizes
      OBVIOUS
    <3>1. sizes[k] > 0 /\ scaler # 0 /\ scaler # sizes[k]
      BY <1>5 DEF Camera!ScalerOf
    <3>2. PICK u \in 1 .. Len(sizes) : sizes[u] = scaler
      BY <3>1 DEF CameraInv, ScalerInv
    <3> QED BY <1>4, <3>1, <3>2 DEF TwoSizes
  <2>4. broken' # "null"
    BY <1>5
  <2>5. TwoSizes' = TwoSizes
    BY <1>1 DEF TwoSizes
  <2> QED BY <1>1, <2>2, <2>3, <2>4, <2>5 DEF ScalerInv
<1>11. Rising'
  BY <1>6, <1>8 DEF CameraInv, Rising
<1>12. Unread(b)' /\ Assembled(b)' /\ Packed(b)'
  BY <1>1, <1>2, <1>4 DEF ReadTo, Unread, Assembled, Packed
<1>13. NoneHalf(b)'
  BY <1>1, <1>2 DEF ReadTo, NoneHalf, Holds
<1>14. Covered(b)'
  <2> SUFFICES ASSUME NEW u \in 1 .. Len(sizes), u \notin lost, sizes[u] > 0, Start(u) < b
               PROVE  u \in Camera!ToSet(shown')
    BY <1>1 DEF Covered
  <2>1. u \in Camera!ToSet(shown) \/ u = k
    BY <1>2, <1>3, <1>4 DEF ReadTo, Covered, Holds
  <2>2. \E i \in 1 .. Len(shown') : shown'[i] = u
    <3>1. CASE u = k
      BY <1>8, <3>1
    <3>2. CASE u \in Camera!ToSet(shown)
      <4>1. PICK i \in 1 .. Len(shown) : shown[i] = u
        BY <1>4, <3>2 DEF Camera!ToSet
      <4> QED BY <1>8, <4>1
    <3> QED BY <2>1, <3>1, <3>2
  <2>3. DOMAIN shown' = 1 .. Len(shown')
    BY <1>8
  <2> QED BY <2>2, <2>3 DEF Camera!ToSet
<1>15. Ordered(b)'
  BY <1>1, <1>4, <1>6, <1>7, <1>8 DEF Ordered
<1>16. ReadTo(b)'
  BY <1>12, <1>13, <1>14, <1>15 DEF ReadTo
<1> QED BY <1>9, <1>10, <1>11, <1>16 DEF CameraInv

\* A packet is only dropped when part of its unit was lost.
LEMMA DropKeeps ==
  ASSUME CameraInv, broken = "no", UNCHANGED sizes, Camera!DropPacket
  PROVE  CameraInv'
<1>1. /\ UNCHANGED <<sizes, decoder, position, data, assembling, scaler, shown, lost, broken>>
      /\ CameraType /\ packet # Camera!Nothing /\ packet' = Camera!Nothing
      /\ packet.bytes < UnitBytes
  BY DEF Camera!DropPacket, CameraInv
<1>2. PICK b \in Nat : ReadTo(b)
  BY DEF CameraInv
<1>3. packet.unit \in lost
  BY <1>1, <1>2, PartAssumption DEF PartAssumption, ReadTo, Packed
<1>4. CameraType'
  BY <1>1 DEF CameraType, Piece
<1>5. ReadTo(b)'
  BY <1>1, <1>2, <1>3 DEF ReadTo, Unread, Assembled, Packed, NoneHalf, Covered, Ordered, Holds
<1>6. ScalerInv' /\ Rising'
  BY <1>1 DEF CameraInv, ScalerInv, Rising, TwoSizes
<1> QED BY <1>4, <1>5, <1>6 DEF CameraInv

LEMMA CameraKeeps == CameraInv /\ [Camera!Next]_cameraVars => CameraInv'
<1> SUFFICES ASSUME CameraInv, [Camera!Next]_cameraVars PROVE CameraInv'
  OBVIOUS
<1>1. CASE UNCHANGED cameraVars
  BY <1>1 DEF cameraVars, CameraInv, CameraType, Piece, ScalerInv, TwoSizes, Rising,
              ReadTo, Unread, Assembled, Packed, NoneHalf, Covered, Ordered, Holds
<1>2. CASE Camera!Next
  <2>1. broken = "no" /\ UNCHANGED sizes
    BY <1>2 DEF Camera!Next
  <2>2. UnitBytes * Len(sizes) \in Nat
    BY PartAssumption, CameraTypes DEF PartAssumption, CameraInv
  <2>3. ASSUME NEW n \in 1 .. UnitBytes * Len(sizes), Camera!VideoCallback(n) PROVE CameraInv'
    BY <2>1, <2>2, <2>3, VideoKeeps
  <2>4. ASSUME NEW n \in 1 .. UnitBytes * Len(sizes), Camera!Lose(n) PROVE CameraInv'
    BY <2>1, <2>2, <2>4, LossKeeps
  <2>5. CASE Camera!ParseError
    BY <2>1, <2>5, LossKeeps
  <2>6. CASE Camera!ParseEnd
    BY <2>1, <2>6, EndKeeps
  <2>7. CASE Camera!ParseBytes
    BY <2>1, <2>7, BytesKeep
  <2>8. CASE Camera!ParseNull
    <3>1. /\ UNCHANGED <<sizes, decoder, position, assembling, packet, scaler, shown, lost>>
          /\ ~ decoder /\ broken' = "null" /\ data' = << >>
      BY <2>1, <2>8 DEF Camera!ParseNull
    <3> QED BY <3>1 DEF CameraInv, CameraType, Piece, ScalerInv, TwoSizes, Rising
  <2>9. CASE Camera!ShowFrame
    BY <2>1, <2>9, FrameKeeps
  <2>10. CASE Camera!DropPacket
    BY <2>1, <2>10, DropKeeps
  <2> QED BY <1>2, <2>3, <2>4, <2>5, <2>6, <2>7, <2>8, <2>9, <2>10 DEF Camera!Next
<1> QED BY <1>1, <1>2

\* Between two messages the units before the one in the parser are over.
LEMMA CameraShows == CameraInv => Camera!ShowsEveryUnit /\ Camera!BreaksOnNewSize
<1> SUFFICES ASSUME CameraInv PROVE Camera!ShowsEveryUnit /\ Camera!BreaksOnNewSize
  OBVIOUS
<1>1. CameraType /\ DOMAIN shown = 1 .. Len(shown) /\ DOMAIN sizes = 1 .. Len(sizes)
  BY CameraTypes DEF CameraInv
<1>2. ASSUME packet = Camera!Nothing, broken = "no", assembling # Camera!Nothing,
             NEW u \in 1 .. assembling.unit - 1, u \notin lost, sizes[u] > 0
      PROVE  u \in Camera!ToSet(shown)
  <2>1. PICK b \in Nat : ReadTo(b)
    BY <1>2 DEF CameraInv
  <2>2. PICK a \in 1 .. Len(sizes) : a = assembling.unit /\ Start(a) < b
    BY <1>1, <1>2, <2>1, CameraTypes DEF ReadTo, Assembled
  <2>3. u \in 1 .. Len(sizes) /\ u \in Int /\ a \in Int /\ u < a
    BY <1>2, <2>2
  <2>4. Start(u) \in Int /\ End(u) \in Int /\ Start(a) \in Int /\ Start(u) < End(u)
    BY <2>3, Lines
  <2>5. Start(u) < b
    BY <2>2, <2>3, <2>4, LinesApart
  <2> QED BY <1>2, <2>1, <2>2, <2>3, <2>5 DEF ReadTo, Covered, Holds
<1>3. Camera!ShowsEveryUnit
  BY <1>1, <1>2 DEF CameraInv, Rising, Camera!ShowsEveryUnit
<1>4. Camera!BreaksOnNewSize
  <2> SUFFICES ASSUME decoder, broken # "no"
               PROVE  \E u, w \in Camera!Units : sizes[u] > 0 /\ sizes[w] > 0 /\ sizes[u] # sizes[w]
    BY DEF Camera!BreaksOnNewSize
  <2>1. broken = "misfit"
    BY <1>1 DEF CameraType, CameraInv, ScalerInv
  <2> QED BY <1>1, <2>1 DEF CameraInv, ScalerInv, TwoSizes, Camera!Units
<1> QED BY <1>3, <1>4

-----------------------------------------------------------------------------
(***************************************************************************)
(* The parts together: each is a behaviour of its own specification.       *)
(***************************************************************************)
LEMMA PartIsPath == PartSpec => PathSpec
<1>1. PartInit => PathInit
  BY DEF PartInit
<1>2. [PartNext]_<<part, pathVars, hailoVars, cameraVars>> => [PathNext]_pathVars
  BY DEF PartNext
<1> QED BY <1>1, <1>2, PTL DEF PartSpec, PathSpec

\* The robot is driven on towards an obstacle in full view for no longer than
\* one period, the latency of the topic and the delay of the executor.
THEOREM ObstacleStops == PartSpec => []ReactsInTime
<1> QED BY PartIsPath, PathStart, PathKeeps, StagesEnd, PTL DEF PathSpec

\* A message carries the results of the frame it is stamped with, in both
\* versions as PublishesOwnResults says, whatever the accelerator is given.
THEOREM OwnResults == PartSpec => []PublishesOwnResults
<1>1. PartInit => OwnInv
  BY OwnInit DEF PartInit
<1>2. OwnInv /\ [PartNext]_<<part, pathVars, hailoVars, cameraVars>> => OwnInv'
  <2>1. [PartNext]_<<part, pathVars, hailoVars, cameraVars>> => [Hailo!Next]_hailoVars
    BY DEF PartNext
  <2> QED BY <2>1, OwnStep
<1>3. OwnInv => PublishesOwnResults
  BY DEF OwnInv, PublishesOwnResults
<1> QED BY <1>1, <1>2, <1>3, PTL DEF PartSpec

LEMMA PartKeepsCamera == PartSpec => []CameraInv
<1>1. PartInit => CameraInv
  BY CameraStart DEF PartInit
<1>2. CameraInv /\ [PartNext]_<<part, pathVars, hailoVars, cameraVars>> => CameraInv'
  <2>1. [PartNext]_<<part, pathVars, hailoVars, cameraVars>> => [Camera!Next]_cameraVars
    BY DEF PartNext
  <2> QED BY <2>1, CameraKeeps
<1> QED BY <1>1, <1>2, PTL DEF PartSpec

\* Whatever the stream, however it is cut into messages and whichever of them
\* get lost, every unit that got through whole is shown, once and in order.
THEOREM EveryUnitShown == PartSpec => []ShowsEveryUnit
<1>1. CameraInv => ShowsEveryUnit
  BY CameraShows DEF ShowsEveryUnit
<1> QED BY <1>1, PartKeepsCamera, PTL

\* With a decoder the node breaks by nothing but a picture of another size.
THEOREM OnlyNewSizeBreaks == PartSpec => []BreaksOnNewSize
<1>1. CameraInv => BreaksOnNewSize
  BY CameraShows DEF BreaksOnNewSize
<1> QED BY <1>1, PartKeepsCamera, PTL

=============================================================================
