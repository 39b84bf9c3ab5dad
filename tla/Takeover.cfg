\* Three touches, in the centre or on an edge, the first perhaps before the start.
SPECIFICATION TSpec
CONSTANTS
  Places = {"centre", "edge"}
  Central = {"centre"}
  MaxTouches = 3
INVARIANTS
  TwoStreamsNeedARace
  VirtualFollowsFinger
PROPERTIES
  NeutralHandover
\* The run ends.
CHECK_DEADLOCK FALSE
