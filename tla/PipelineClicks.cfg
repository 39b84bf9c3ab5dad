\* A clickpad of two slots that labels palms: fingers at the edge and the centre,
\* clicks, lost events, a reload, and every way a session ends.
SPECIFICATION PSpec
CONSTANTS
  SlotMin = 0
  SlotMax = 1
  Span = 10
  TrackingIds = {0, 1}
  Buttons = {"left"}
  Keys = {"left", "touch"}
  HasToolType = TRUE
  Configs <- TwoProfiles
  PalmRejection = TRUE
  Buttonpad = TRUE
  Frames <- ClickFrames
  OddFrames <- PipeOddFrames
  Stamps <- OneStamp
  Snapshots <- PipeSnapshots
  StartMemory <- PipeMemory
  MinGap = 0
  MaxTime = 2
INVARIANTS
  PadMirrorsForwarded
  ForwardedAtItsPosition
  EndedIsNeutral
\* A session ends.
CHECK_DEADLOCK FALSE
