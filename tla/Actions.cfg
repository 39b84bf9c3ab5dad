\* A channel of one and four gestures; processes may leave their group, and the
\* runner may panic.
SPECIFICATION ASpec
CONSTANTS
  up = up
  down = down
  tap = tap
  Sources = {up, down, tap}
  Commands = {"old", "new"}
  Bindings <- TwoBindings
  Capacity = 1
  Polls = 2
  MayEscape = TRUE
  MayPanic = TRUE
  MaxDispatches = 4
INVARIANTS
  JoinedLeavesNothing
  StatsBalance
PROPERTIES
  KeepsOrder
  ShutdownReturns
\* The daemon has stopped.
CHECK_DEADLOCK FALSE
