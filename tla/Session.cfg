\* The daemon and runs of two frames, ended at once or when recognition is idle,
\* which poll without a timeout but for deadlines: stop and reload requests at
\* any time, a buffer that overflows, and a loop that can be late.
SPECIFICATION SSpec
CONSTANTS
  Limits = {"UntilStopped", "Immediately", "WhenIdle"}
  FrameBoundaries = 2
  TapTimeout = 1
  TapDuration = 1
  DrainTimeout = 2
  Epoch = 3
  ClockSteps = 1
  BufferSize = 3
  Timely = FALSE
  Horizon = 2
  MaxTime = 5
INVARIANTS
  AlarmIsTimely
  TouchIsKnown
  EndsProperly
PROPERTIES
  ReloadsAtRest
  OwedTapResolves
  RunEnds
\* The session ends.
CHECK_DEADLOCK FALSE
