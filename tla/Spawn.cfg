\* Two programs, each on a pty or on pipes, started in either order while the
\* child of the first is anywhere between its fork and its end.
CONSTANTS
  Programs = {p1, p2}
  Ways = {"pty", "pipes"}
SPECIFICATION FairSpec
INVARIANTS
  WinchIsHandedOver
  StartedMeansExecd
  RefusalLeavesNothing
PROPERTIES
  StartReturns
  NobodyKeepsAnothersFile
\* Both programs may have ended.
CHECK_DEADLOCK FALSE
