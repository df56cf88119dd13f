\* Three programs over two threads: two that run on keep both, and the third
\* waits in line.
CONSTANTS
  Programs = {p1, p2, p3}
  Adopted = {p3}
  Threads = 2
SPECIFICATION FairSpec
PROPERTIES
  EachIsALifecycle
  EndIsToldInTurn
  CancelledScopeFreesThreads
\* Every program may have ended.
CHECK_DEADLOCK FALSE
