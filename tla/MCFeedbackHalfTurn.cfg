\* What a comment says of the first turn.
SPECIFICATION Spec
CONSTANTS
  Readings <- RoamingReadings
  ForwardTarget = 1
  TurnTarget = 5
  AvoidTarget = 2
  HalfCircle = 6
  ForwardLimit = 3
  TurnLimit = 3
  AvoidTurnLimit = 2
  StopDwell = 1
  MaxDelay = 2
  ClockSteps <- NoSteps
  MaxSlew = 0
  Horizon = 5
PROPERTY TurnsHalfCircle
