\* A program another process forked, which lets its terminal go, ignores
\* SIGHUP and runs on.
CONSTANTS
  Kinds = {"stranger"}
  MaxHangUps = 1
SPECIFICATION FairSpec
PROPERTIES
  HungUpEnds
CHECK_DEADLOCK FALSE
