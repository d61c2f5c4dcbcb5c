\* The timeouts of the code in periods of the timer, a clock that is set.
SPECIFICATION Spec
CONSTANTS
  Readings <- StuckReadings
  ForwardTarget = 1
  TurnTarget = 5
  AvoidTarget = 2
  HalfCircle = 6
  ForwardLimit = 60
  TurnLimit = 60
  AvoidTurnLimit = 30
  StopDwell = 5
  MaxDelay = 3
  ClockSteps <- NtpSteps
  MaxSlew = 20
  Horizon = 83
INVARIANT MotionBounded
