\* Frames of two fingers on a clickpad at times 1 to 6; the alarm may go off
\* wherever a tap is pending.
SPECIFICATION RSpec
CONSTANTS
  SlotMin = 0
  SlotMax = 1
  Span = 10
  TrackingIds = {0, 1}
  Buttons = {"left"}
  Configs <- RecordedConfigs
  PalmRejection = TRUE
  Buttonpad = TRUE
  Frames <- RecordedFrames
  OddFrames <- NoFrames
  Stamps <- RecordedStamps
  Snapshots = {}
  StartMemory <- KnownAxes
  MinGap = 1
  MaxTime = 6
INVARIANTS
  ReplayReportsAlike
\* A recording ends, and a bad frame ends it early.
CHECK_DEADLOCK FALSE
