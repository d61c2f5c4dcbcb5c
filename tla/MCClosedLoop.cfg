\* The dwell of the code, 0.5 s, and latencies of 0.1 s: one period to spare.
SPECIFICATION LoopFairSpec
CONSTANTS
  Readings <- BriefReadings
  ForwardTarget = 1
  TurnTarget = 5
  AvoidTarget = 2
  HalfCircle = 6
  ForwardLimit = 2
  TurnLimit = 2
  AvoidTurnLimit = 2
  StopDwell = 5
  MaxDelay = 1
  ClockSteps <- BackAndAhead
  MaxSlew = 1
  Horizon = 7
  RequestLatency = 1
  ReportLatency = 1
INVARIANT LoopTypeOK
PROPERTIES
  MotionsFromRest
  EndsAtRest
