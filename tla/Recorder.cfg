\* A program that draws, reads or does neither, a person who types, and both
\* deadlines, on both platforms.
CONSTANTS
  Drawn <- CutCharacter
  Typed <- BrokenKeys
  Moments <- UnevenMoments
  OutRoom = 1
  InRoom = 1
  GoneRaises = {TRUE, FALSE}
SPECIFICATION FairSpec
INVARIANTS
  EndedMeansComplete
  CastTellsTheRecording
PROPERTIES
  ProgramIsEnded
  TimeoutStops
\* The program has ended and been recorded.
CHECK_DEADLOCK FALSE
