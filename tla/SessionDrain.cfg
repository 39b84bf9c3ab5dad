\* A daemon that is never late and a finger that keeps tapping.
SPECIFICATION SSpec
CONSTANTS
  Limits = {"UntilStopped"}
  FrameBoundaries = 1
  TapTimeout = 1
  TapDuration = 1
  DrainTimeout = 1
  Epoch = 0
  ClockSteps = 0
  BufferSize = 4
  Timely = TRUE
  Horizon = 7
  MaxTime = 8
INVARIANTS
  DrainIsBounded
\* The session ends.
CHECK_DEADLOCK FALSE
