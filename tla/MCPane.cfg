\* Partial writes, writes behind them, callers that wait, a close anywhere; a
\* remote with pauses before, during and after the session, a refusal, a loss,
\* a cancelled scope and a writer past the high mark; pages, sleepers and the
\* clock in any order, for ever.
CONSTANTS
  MaxGiven = 4
  MaxChunk = 3
  Room = 2
  Waiters = {w1, w2}
  GoneRaises <- AnyPlatform
  MaxSent = 3
  High = 2
  Low = 1
  Sizes = {"120x24", "200x50"}
  Limit = 3
  MaxPayers = 3
SPECIFICATION PaneSpec
INVARIANTS
  InputInOrder
  NobodyIsForgotten
  NothingIsForgotten
  PauseHandsOverOnePage
  DrawnWithinTheLimit
  OnlyAWriteIsHeldBack
PROPERTIES
  AnsweredMeansWritten
  EveryoneIsAnswered
  EverythingIsFed
  FeederEnds
  WaiterIsAnswered
\* Everything may have been given and read, and everything said.
CHECK_DEADLOCK FALSE
