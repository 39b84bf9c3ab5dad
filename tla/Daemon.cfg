\* Two SIGHUPs, one edit, retries for two intervals.
SPECIFICATION DSpec
CONSTANTS
  Files <- FourFiles
  RetryTimeout = 2
  RetryInterval = 1
  MaxReloads = 2
  MaxEdits = 1
INVARIANTS
  ReloadIsRecorded
  OneConfiguration
PROPERTIES
  Handover
  DaemonEnds
\* The daemon ends.
CHECK_DEADLOCK FALSE
