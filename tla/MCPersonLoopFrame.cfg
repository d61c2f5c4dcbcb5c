\* Boxes end where the frame ends: 720 rows.
SPECIFICATION LoopSpec
CONSTANTS
  ClassNames = {"person", "bottle", "unknown"}
  StopDistance = 1000
  Centre = 640
  MaxDelay = 1
  Scenes <- Views
  Stride = 30
  TallestBox = 720
  InferTime = 1
  ListLatency = 1
  Patience = 6
INVARIANT StopsAtOneMetre
