\* Of B2BaseClient, two callers and two handlers, enough for a handler of the first call to be
\* overtaken by the second.
SPECIFICATION PartSpec
CONSTANTS
  Callers = {c1, c2}
  Handlers = {h1, h2}
  MaxCalls = 2
  NoThread = NoThread
INVARIANTS
  ReturnsOwnResponse
  NoLostWakeup
  SeparateCallsUnmixed
  CallbackCallStarves
PROPERTIES
  HonestTimeout
  EveryCallReturns
  LoneCallReturns
  DestructorReturns
CHECK_DEADLOCK FALSE
