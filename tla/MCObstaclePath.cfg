\* A second leg that outlasts the reaction to an obstacle.
SPECIFICATION PartSpec
CONSTANTS
  Readings <- StraightReadings
  ForwardTarget = 1
  TurnTarget = 5
  AvoidTarget = 2
  HalfCircle = 6
  ForwardLimit = 6
  TurnLimit = 1
  AvoidTurnLimit = 1
  StopDwell = 1
  MaxDelay = 1
  ClockSteps <- BackAndAhead
  MaxSlew = 1
  Horizon = 8
  Means <- Brightness
  Threshold = 70
  VerdictLatency = 1
  MaxFrames = 1
  Patience = 4
  Depth = 2
  HailoFrames = 4
  UnitBytes = 2
  Streams <- CameraStreams
INVARIANTS
  ReactsInTime
  PublishesOwnResults
  ShowsEveryUnit
  BreaksOnNewSize
CHECK_DEADLOCK FALSE
