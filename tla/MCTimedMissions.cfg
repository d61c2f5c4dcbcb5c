\* The times of the code in periods of the timer; a clock that is set.
SPECIFICATION PartSpec
CONSTANTS
  ForwardLimit = 30
  TurnLimit = 43
  StopLimit = 10
  MaxDelay = 3
  ClockSteps <- SetBack
  PracticeSteps <- SetEitherWay
  MaxSlew = 20
  Horizon = 66
INVARIANTS
  MotionBounded
  PracticeBounded
PROPERTIES
  LegsInFull
  FollowsPlan
  MissionEnds
  PracticeFollowsPlan
  PracticeStops
\* A mission that is over does nothing more.
CHECK_DEADLOCK FALSE
