\* A size that is set before the session is there.
CONSTANTS
  MaxSent = 0
  High = 1
  Low = 0
  Sizes = {"120x24", "200x50"}
SPECIFICATION FairSpec
PROPERTY
  SizeReachesTheRemote
CHECK_DEADLOCK FALSE
