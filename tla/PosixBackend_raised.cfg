\* A callback that raises under a stranger that still holds its terminal.
CONSTANTS
  Page = 1
  MaxWrote = 1
  MaxPauses = 0
  Priorities <- Focused
  Kinds = {"fresh", "adopted", "stranger"}
  MaxHangUps = 0
SPECIFICATION FairSpec
PROPERTY
  RaisedKillsTheProgram
CHECK_DEADLOCK FALSE
