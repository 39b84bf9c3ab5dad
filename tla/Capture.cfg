\* Captures of two frames and unlimited ones, in both formats: reads of two
\* events split packets, a buffer of five overflows within one.
SPECIFICATION CSpec
CONSTANTS
  Formats = {"replay", "raw"}
  Budgets <- AskedOrNot
  Extras <- SomeExtras
  BufferSize = 5
  ReadSize = 2
  ClockSteps = 1
  MaxPackets = 3
INVARIANTS
  FileIsExactOrRefused
PROPERTIES
  CaptureEnds
\* The capture ends.
CHECK_DEADLOCK FALSE
