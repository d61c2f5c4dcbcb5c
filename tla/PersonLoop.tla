------------------------------ MODULE PersonLoop ------------------------------
(***************************************************************************)
(* PersonFollower with what closes its loop: the robot, which walks while  *)
(* it is told to, the scene in front of it, the VisionNode and the topic   *)
(* /vision_detections.  Scene, camera and robot are external: the scene    *)
(* changes at any time, the stream may stop and resume, and the robot does *)
(* within a period what was last asked of it.                              *)
(***************************************************************************)
EXTENDS PersonFollower

CONSTANTS
  Scenes,         \* what may come into view
  Stride,         \* 30 mm: what 0.3 m/s makes in a period
  TallestBox,     \* see VisionNode
  InferTime,      \* bound: periods the network takes for a frame
  ListLatency,    \* bound: periods a list may be under way
  Patience        \* bound: periods are counted up to this value


VARIABLES
  opened, model, frame, detections,   \* see VisionNode
  scene,          \* what is in front of the camera
  streaming,      \* the camera delivers frames
  looked,         \* the vision node has tried to read one in this period
  steady,         \* history: periods the same request has been called for
  near            \* history: periods walked towards a person within reach

Vision == INSTANCE VisionNode

ASSUME LoopAssumption ==
  /\ Stride \in Nat /\ TallestBox \in Nat
  /\ InferTime \in Nat /\ ListLatency \in Nat /\ Patience \in Nat
  /\ "unknown" \in ClassNames
  /\ \A view \in Scenes : view \in Seq(Vision!Objects) /\ Vision!Ranked(view)

vision   == <<opened, model, frame, detections>>
world    == <<scene, streaming>>
history  == <<steady, near>>
loopVars == <<follower, vision, world, looked, history>>

LoopInit ==
  /\ Init /\ Vision!Init
  /\ scene \in Scenes /\ streaming \in BOOLEAN
  /\ looked = FALSE
  /\ steady = 0 /\ near = 0

UpTo(bound, n) == IF n > bound THEN bound ELSE n

-----------------------------------------------------------------------------
\* The person the follower goes for is the surest one in view.
InView(view) == {i \in DOMAIN view : view[i].name = "person" /\ view[i].sure}

Surest(view) == view[Min(InView(view))]

\* The vision node sees what there is and the follower has odometry.
Watched == opened /\ streaming /\ state_received

\* What the scene calls for, with the distance that its boxes suggest.
Called(view) ==
  IF InView(view) = {} \/ model # "named" THEN [what |-> "search", error |-> 0]
  ELSE IF Vision!Distance("person", Vision!BoxHeight(Surest(view))) < StopDistance
       THEN [what |-> "stop", error |-> 0]
       ELSE [what |-> "approach", error |-> Centre - Surest(view).center_x]

\* The person is nearer than the stop distance, by a row of the image at least.
WithinReach ==
  /\ model = "named" /\ InView(scene) # {}
  /\ Vision!Rows("person", Surest(scene).gap) > Vision!Rows("person", StopDistance)

\* The scene changes, or the stream stops or resumes.
Change ==
  /\ scene' \in Scenes /\ streaming' \in BOOLEAN
  /\ steady' = 0 /\ near' = 0
  /\ UNCHANGED <<follower, vision, looked>>

Look ==
  /\ ~looked
  /\ IF streaming THEN Vision!Capture(scene) ELSE Vision!CaptureFails
  /\ looked' = TRUE
  /\ UNCHANGED <<follower, world, history>>

Answer == Vision!Publish /\ UNCHANGED <<follower, world, looked, history>>

Hear ==
  /\ detections # << >>
  /\ VisionCallback(Head(detections).list)
  /\ detections' = Tail(detections)
  /\ UNCHANGED <<opened, model, frame, world, looked, history>>

Odometry ==
  /\ StateCallback
  /\ UNCHANGED <<vision, world, looked>>
  /\ IF state_received THEN UNCHANGED history ELSE steady' = 0 /\ near' = 0

Tick == TimerCallback /\ UNCHANGED <<vision, world, looked, history>>

Closer(object) ==
  [object EXCEPT !.gap = IF @ > Stride THEN @ - Stride ELSE @]

\* A period passes, unless somebody is late.
Pass ==
  /\ opened => looked \/ frame # Vision!Idle
  /\ frame.age < InferTime
  /\ \A i \in DOMAIN detections : detections[i].age < ListLatency
  /\ Advance
  /\ scene' = IF request.what = "approach"
              THEN [i \in DOMAIN scene |-> Closer(scene[i])] ELSE scene
  /\ frame' = IF frame = Vision!Idle THEN frame ELSE [frame EXCEPT !.age = @ + 1]
  /\ detections' = [i \in DOMAIN detections |-> [detections[i] EXCEPT !.age = @ + 1]]
  /\ looked' = FALSE
  /\ steady' = IF Watched /\ Called(scene') = Called(scene)
             THEN UpTo(Patience, steady + 1) ELSE 0
  /\ near' = IF ~(Watched /\ WithinReach) THEN 0
             ELSE IF request.what = "approach" THEN UpTo(Patience, near + 1)
             ELSE near
  /\ UNCHANGED <<opened, model, streaming>>

LoopNext ==
  Change \/ Look \/ Answer \/ Hear \/ Odometry \/ Tick \/ Pass

LoopSpec == LoopInit /\ [][LoopNext]_loopVars

-----------------------------------------------------------------------------
\* From the camera to the request: the frame being processed and a period for
\* the next, the network's time for that one, the way of the list, and the
\* executor's delay.
Reaction == Vision!AtLeastOne(InferTime) + InferTime + ListLatency + MaxDelay

\* What the robot does is what the scene has called for: no frame of before,
\* no list still under way and no second object in view keeps the follower at
\* something else for longer than its reaction takes.
Attentive == steady > Reaction => request = Called(scene)

\* Boxes may be taller than a person at the stop distance.
BoxesTell == Vision!Distance("person", TallestBox) < StopDistance

\* The robot does not walk on towards a person within its stop distance for
\* longer than the reaction takes, provided that boxes tell that distance.
KeepsDistance == BoxesTell => near <= Reaction

\* go2_ai_controller.cpp:87 gives 100 cm as the distance at which the robot
\* stops for a person.
StopsAtOneMetre == near <= Reaction

=============================================================================
