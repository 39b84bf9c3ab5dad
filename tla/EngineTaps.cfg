\* One pad of two slots; the second finger only competes.  Frames stop at
\* time 5, long enough for a tap, a gap, a second tap and a deadline.
SPECIFICATION OSpec
CONSTANTS
  SlotMin = 0
  SlotMax = 1
  Span = 10
  TrackingIds = {0, 1, 2}
  Buttons = {"left"}
  Configs <- TapConfigs
  PalmRejection = TRUE
  Buttonpad = FALSE
  Frames <- TapFrames
  OddFrames <- TapOddFrames
  Stamps <- TapStamps
  Snapshots <- TapSnapshots
  StartMemory <- TapMemory
  MinGap = 1
  MaxTime = 5
  TapTimeout = 2
  TapDuration = 2
INVARIANTS
  TypeOK
  MatchNeedsPendingTap
  EligibleIsAlone
  PalmsAreRejected
  OwedTapIsPending
PROPERTIES
  DoubleTapIsTwoTaps
  ImplementsRecognizer
\* The kernel may fall silent, and a bad frame ends the session.
CHECK_DEADLOCK FALSE
