\* A pause that comes while the feeder waits for something to arrive.
CONSTANTS
  MaxSent = 1
  High = 1
  Low = 0
  Sizes = {"120x24"}
SPECIFICATION FairSpec
PROPERTY
  PauseTakesNothing
CHECK_DEADLOCK FALSE
