\* The two components together, every kind of program that has a pty.
CONSTANTS
  Page = 1
  MaxWrote = 1
  MaxPauses = 0
  Priorities <- Focused
  Kinds = {"fresh", "adopted", "stranger"}
  MaxHangUps = 0
SPECIFICATION FairSpec
INVARIANTS
  TerminatedMeansEnded
PROPERTIES
  ImplementsComponents
  EndIsComplete
  FailureLeavesNothing
  StrangerZombieIsNoticed
\* Everything may have ended.
CHECK_DEADLOCK FALSE
