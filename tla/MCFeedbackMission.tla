-------------------------- MODULE MCFeedbackMission --------------------------
(***************************************************************************)
(* Small instances of FeedbackMission.  Yaw is counted in twelfths of a    *)
(* circle: pi is 6, TURN_LEFT ends at 5 (2.6 rad is 149 degrees) and       *)
(* AVOID_TURN at 2 (0.8 rad is 46 degrees).                                *)
(***************************************************************************)
EXTENDS FeedbackMission

At(x) == [x |-> x, y |-> 0]

\* Two places a leg apart, yaws on both sides of the cut at pi.
RoamingReadings ==
  [pos : {At(0), At(2)}, yaw : {-5, 0, 2, 5}, moving : BOOLEAN]

\* A robot that may hang without making progress, for the clock.
StuckReadings ==
  [pos : {At(0)}, yaw : {0}, moving : BOOLEAN]

NoSteps == {}

\* The system clock is set by a second either way, or by two ahead.
NtpSteps == {-10, 10, 20}

=============================================================================
