----------------------------- MODULE ObstaclePath -----------------------------
(***************************************************************************)
(* FeedbackMission with the node that looks ahead for it: the camera, the  *)
(* StreamViewer and /obstacle_detected, which brings its verdicts to       *)
(* obstacle_callback in order and within a bounded time.  The scene and    *)
(* the camera are external: the scene changes at any time, and the stream  *)
(* may stop and resume.  Odometry is left open, as in FeedbackMission.     *)
(***************************************************************************)
EXTENDS FeedbackMission, Sequences

CONSTANTS
  Means, Threshold,   \* see StreamViewer
  VerdictLatency,     \* bound: periods a verdict may be under way
  MaxFrames,          \* bound: frames read in one period of the mission timer
  Patience            \* bound: dark periods are counted up to this value

ASSUME PathAssumption ==
  /\ Means \subseteq Nat /\ Threshold \in Nat
  /\ VerdictLatency \in Nat /\ MaxFrames \in Nat \ {0} /\ Patience \in Nat

VARIABLES
  opened, verdicts,   \* see StreamViewer
  mean,               \* brightness of the scene ahead
  streaming,          \* the camera delivers frames
  frames,             \* frames read in this period
  seen                \* history: periods the scene has been dark in full view
                      \* of the viewer, all of them spent in FORWARD2

Viewer == INSTANCE StreamViewer

camera   == <<mean, streaming>>
viewer   == <<opened, verdicts>>
pathVars == <<vars, viewer, camera, frames, seen>>

Dark == opened /\ streaming /\ mean < Threshold

PathInit ==
  /\ Init /\ Viewer!Init
  /\ mean \in Means /\ streaming \in BOOLEAN
  /\ frames = 0 /\ seen = 0

-----------------------------------------------------------------------------
\* The scene changes, or the stream stops or resumes.
Scene ==
  /\ mean' \in Means /\ streaming' \in BOOLEAN
  /\ <<mean', streaming'>> # camera
  /\ seen' = 0
  /\ UNCHANGED <<vars, viewer, frames>>

View ==
  /\ frames < MaxFrames
  /\ IF streaming THEN Viewer!Look(mean) ELSE Viewer!LookInVain
  /\ frames' = frames + 1
  /\ UNCHANGED <<vars, camera, seen>>

Hear ==
  /\ verdicts # << >>
  /\ ObstacleCallback(Head(verdicts).data)
  /\ verdicts' = Tail(verdicts)
  /\ UNCHANGED <<opened, camera, frames, seen>>

Tick ==
  /\ TimerCallback
  /\ seen' = IF current_state' = current_state THEN seen ELSE 0
  /\ UNCHANGED <<viewer, camera, frames>>

Odometry ==
  /\ \E msg \in Readings : StateCallback(msg)
  /\ UNCHANGED <<viewer, camera, frames, seen>>

\* A period passes, unless the viewer has not looked or a verdict is overdue.
Pass ==
  /\ opened => frames > 0
  /\ \A i \in DOMAIN verdicts : verdicts[i].age < VerdictLatency
  /\ Advance
  /\ verdicts' = [i \in DOMAIN verdicts |-> [verdicts[i] EXCEPT !.age = @ + 1]]
  /\ frames' = 0
  /\ seen' = IF Dark /\ current_state = "FORWARD2" THEN UpTo(Patience, seen + 1)
             ELSE 0
  /\ UNCHANGED <<opened, camera>>

\* The system clock is set, which the viewer does not read.
Set ==
  /\ \E step \in ClockSteps : StepClock(step)
  /\ UNCHANGED <<viewer, camera, frames, seen>>

PathNext == Scene \/ View \/ Hear \/ Tick \/ Odometry \/ Pass \/ Set

PathSpec == PathInit /\ [][PathNext]_pathVars

-----------------------------------------------------------------------------
\* The time from an obstacle in full view to the end of the leg: one period for
\* the viewer to look, the way of the verdict, and the executor's delay.
Reaction == 1 + VerdictLatency + MaxDelay

\* The robot is not driven on for longer than that towards what the camera
\* sees: verdicts of frames read before the obstacle came into view cannot
\* mask it, and arrival or a timeout on the way ends the leg all the same.
ReactsInTime == current_state = "FORWARD2" => seen <= Reaction

=============================================================================
