\* Two event nodes of four kinds.
SPECIFICATION GSpec
CONSTANTS
  Numbers = {1, 2}
  NodeKinds <- FourKinds
  Commands <- AllCommands
  ShellPath = {"bin"}
INVARIANTS
  DoctorForeseesStart
  ReportsAgree
  GivingUpIsRight
