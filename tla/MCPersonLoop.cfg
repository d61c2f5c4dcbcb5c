\* A network that extrapolates beyond the 720 rows of the frame.
SPECIFICATION LoopSpec
CONSTANTS
  ClassNames = {"person", "bottle", "unknown"}
  StopDistance = 1000
  Centre = 640
  MaxDelay = 1
  Scenes <- Views
  Stride = 30
  TallestBox = 1000
  InferTime = 1
  ListLatency = 1
  Patience = 6
INVARIANTS
  TypeOK
  Attentive
  KeepsDistance
