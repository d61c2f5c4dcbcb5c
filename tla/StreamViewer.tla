----------------------------- MODULE StreamViewer -----------------------------
(***************************************************************************)
(* The perception node of src/hailo_robot_control/src/                     *)
(* go2_stream_viewer.cpp: every 30 ms it reads a frame of the video stream *)
(* and publishes on /obstacle_detected whether the middle of it is dark.   *)
(*                                                                         *)
(* It publishes a verdict for every frame it gets and nothing at all when  *)
(* it gets none: a subscriber cannot tell a dead viewer from a quiet one.  *)
(***************************************************************************)
EXTENDS Integers, Sequences

CONSTANTS
  Means,        \* mean brightness of the middle 200 x 200 pixels
  Threshold     \* 70: darker than this is an obstacle

VARIABLES
  opened,       \* cap_.isOpened(); without it there is no timer either
  verdicts      \* /obstacle_detected: [data, age], oldest first

Init == opened \in BOOLEAN /\ verdicts = << >>

\* Wrong variant: bright counts as an obstacle.
ObstacleInBright(mean) == mean >= Threshold

Obstacle(mean) == mean < Threshold

\* timer_callback with a frame ...
Look(mean) ==
  /\ opened
  /\ verdicts' = Append(verdicts, [data |-> Obstacle(mean), age |-> 0])
  /\ UNCHANGED opened

\* ... and its early returns, for a read that fails and an empty frame.
LookInVain == opened /\ UNCHANGED <<opened, verdicts>>

=============================================================================
