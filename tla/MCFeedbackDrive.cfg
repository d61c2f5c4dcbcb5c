\* Every order of messages and ticks on a robot that roams freely; nothing is
\* assumed of the robot and the camera.
SPECIFICATION FairSpec
CONSTANTS
  Readings <- RoamingReadings
  ForwardTarget = 1
  TurnTarget = 5
  AvoidTarget = 2
  HalfCircle = 6
  ForwardLimit = 3
  TurnLimit = 3
  AvoidTurnLimit = 2
  StopDwell = 1
  MaxDelay = 2
  ClockSteps <- NoSteps
  MaxSlew = 0
  Horizon = 5
INVARIANTS
  LegsAnchored
PROPERTIES
  AnchorOfItsLeg
  ObstacleFirst
  FollowsPlan
  MovingStatesEnd
  MissionCompletes
