\* A clickpad of two slots without palm rejection; frames carry no time.
SPECIFICATION HSpec
CONSTANTS
  SlotMin = 0
  SlotMax = 1
  Span = 10
  TrackingIds = {0, 1, 2, 3}
  Buttons = {"left"}
  Configs <- PadConfigs
  PalmRejection = FALSE
  Buttonpad = TRUE
  Frames <- PadFrames
  OddFrames <- PadOddFrames
  Stamps <- PadStamps
  Snapshots <- PadSnapshots
  StartMemory <- PadMemory
  MinGap = 1
  MaxTime = 1
INVARIANTS
  HeldNamesOwnSlot
  MirrorsKernel
  PressedPadHasNoEdges
  SliderKeepsRemainder
PROPERTIES
  OneMeaningPerContact
\* The kernel may fall silent, and a bad frame ends the session.
CHECK_DEADLOCK FALSE
