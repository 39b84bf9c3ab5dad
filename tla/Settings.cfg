\* A file that is edited up to three times and loaded at any time.
SPECIFICATION TSpec
CONSTANTS
  SlotMin = 0
  SlotMax = 0
  Span = 10
  TrackingIds = {0}
  Buttons = {}
  Configs = {}
  PalmRejection = TRUE
  Buttonpad = FALSE
  Defaults <- TenthsAndTicks
  MaxDuration = 4
  Keys <- SomeKeys
  RawGestures <- SomeGestures
  RawSliders <- SomeSliders
  Widths = {1, 4}
  MaxEdits = 3
INVARIANTS
  EdgesFollowBindings
  BindingsCanFire
\* The last file is loaded.
CHECK_DEADLOCK FALSE
