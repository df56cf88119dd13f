\* Every kind of program, every interleaving of its end with signals,
\* cancellation, the worker thread and the reuse of its pid.
CONSTANTS
  Kinds = {"fresh", "adopted", "stranger", "ended"}
  MaxHangUps = 2
SPECIFICATION FairSpec
INVARIANTS
  NoProgramOutlivesItsScope
  ReturncodeTruthful
PROPERTIES
  StrikesOnlyUnknowing
  EndIsNoticed
  ZombiesAreReaped
  HungUpChildEnds
\* Everything may have ended.
CHECK_DEADLOCK FALSE
