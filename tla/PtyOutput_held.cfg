\* A program without the focus: the page held for a turn meets copy mode.
CONSTANTS
  Page = 2
  MaxWrote = 2
  MaxPauses = 1
  Priorities <- AnyPriority
SPECIFICATION Spec
PROPERTIES
  SuspendedScreenIsStill
CHECK_DEADLOCK FALSE
