\* Every interleaving of the pump with pauses, teardowns, cancellation and
\* the program's end, and what must happen in the end.
CONSTANTS
  Page = 2
  MaxWrote = 3
  MaxPauses = 2
  Priorities <- AnyPriority
SPECIFICATION FairSpec
INVARIANTS
  EndsDrained
  OutputIsWaitingTruthful
PROPERTIES
  PauseDrawsOnlyTheHeldPage
  ImplementsBackendOutput
  EveryByteIsDrawn
  PumpEnds
\* The program ends and the pump with it: the system really stops.
CHECK_DEADLOCK FALSE
