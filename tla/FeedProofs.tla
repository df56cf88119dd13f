----------------------------- MODULE FeedProofs -----------------------------
(***************************************************************************)
(* A page on its way to the screen: from the channel of a remote program   *)
(* through its feeder (SshBackend), and from Process._feed to the redraw   *)
(* (Redraw).  The two share no state, and each is proved by itself.        *)
(*                                                                         *)
(* The feeder, for every number of pieces and marks.  Four facts carry     *)
(* each other: nothing in the buffer is without a wakeup, a feeder that    *)
(* was let through a pause has handed over nothing since, the feeder waits *)
(* on no event that nobody sets, and the types.  What a feeder that ended  *)
(* has drawn adds a fifth: nothing arrives behind the end of a session.    *)
(*                                                                         *)
(* The redraw, for every limit and any number of sleepers.  The bound      *)
(* alone is not inductive: a clock that ticks on an unpaid debt would      *)
(* break it.  That somebody pays every debt in time, and that nothing is   *)
(* unseen but under a debt, is what carries it.                            *)
(***************************************************************************)
EXTENDS SshBackend, Redraw, TLAPS

-----------------------------------------------------------------------------
(* The feeder of a remote program.                                         *)

Inductive == /\ TypeOK /\ NothingIsForgotten /\ PauseHandsOverOnePage
             /\ LetThroughHandedNothing /\ ResumeReachesTheFeeder

USE SentAssumption, MarksAssumption, SizesAssumption

\* What each step does to the feeder and to what it handed over.
Parks == /\ LetThroughHandedNothing /\ PauseHandsOverOnePage
         /\ ResumeReachesTheFeeder

LEMMA InitInductive == Init => Inductive
<1> SUFFICES ASSUME Init PROVE Inductive
  OBVIOUS
<1>1. CountsOK
  BY DEF Init, CountsOK
<1>2. FlagsOK
  BY DEF Init, FlagsOK
<1>3. TasksOK
  BY DEF Init, TasksOK, FeederStates, Gates, None, Vt100
<1>4. NothingIsForgotten /\ PauseHandsOverOnePage
  BY DEF Init, NothingIsForgotten, PauseHandsOverOnePage
<1>5. LetThroughHandedNothing /\ ResumeReachesTheFeeder
  BY DEF Init, LetThroughHandedNothing, ResumeReachesTheFeeder
<1> QED BY <1>1, <1>2, <1>3, <1>4, <1>5 DEF Inductive, TypeOK

\* No piece is made or counted twice on its way to the screen.
LEMMA CountsStep ==
  ASSUME CountsOK, [Next]_vars
  PROVE  CountsOK'
<1> USE DEF CountsOK
<1>1. CASE Start
  BY <1>1 DEF Start, output, control, input, sizes
<1>2. CASE Opens
  BY <1>2 DEF Opens, output, control, input, sizes
<1>3. CASE Refused
  BY <1>3 DEF Refused, output, control, input, sizes
<1>4. CASE RemoteSends
  BY <1>4 DEF RemoteSends, output, control, input, sizes
<1>5. CASE DataReceived
  BY <1>5 DEF DataReceived, output, control, input, sizes
<1>6. CASE ConnectionLost
  BY <1>6 DEF ConnectionLost, output, control, input, sizes
<1>7. CASE FeederStarts
  BY <1>7 DEF FeederStarts, LoopHead, output, control, input, sizes
<1>8. CASE FeederPasses
  BY <1>8 DEF FeederPasses, output, control, input, sizes
<1>9. CASE \E priority \in BOOLEAN : FeederTakes(priority)
  BY <1>9 DEF FeederTakes, ReadText, HandOver, LoopEnd, LoopHead, output,
     control, input, sizes
<1>10. CASE FeederDraws
  BY <1>10 DEF FeederDraws, HandOver, LoopEnd, LoopHead, output, control,
     input, sizes
<1>11. CASE Cancel
  BY <1>11 DEF Cancel, output, control, input, sizes
<1>12. CASE Suspend
  BY <1>12 DEF Suspend, MaySuspend, PauseReading, output, control, input, sizes
<1>13. CASE Resume
  BY <1>13 DEF Resume, output, control, input, sizes
<1>14. CASE Write
  BY <1>14 DEF Write, output, control, input, sizes
<1>15. CASE ChannelDrains
  BY <1>15 DEF ChannelDrains, Wakes, output, control, input, sizes
<1>16. CASE AsksWritten
  BY <1>16 DEF AsksWritten, output, control, input, sizes
<1>17. CASE WaiterReturns
  BY <1>17 DEF WaiterReturns, output, control, input, sizes
<1>18. CASE \E s \in Sizes : SetSize(s)
  BY <1>18 DEF SetSize, output, control, input, sizes
<1>19. CASE UNCHANGED vars
  BY <1>19 DEF vars, output, control, input, sizes
<1> QED BY <1>1, <1>2, <1>3, <1>4, <1>5, <1>6, <1>7, <1>8, <1>9, <1>10, <1>11,
           <1>12, <1>13, <1>14, <1>15, <1>16, <1>17, <1>18, <1>19 DEF Next,
           Feeder

\* A process is suspended exactly while its feeder is told to park.
LEMMA FlagsStep ==
  ASSUME FlagsOK, [Next]_vars
  PROVE  FlagsOK'
<1> USE DEF FlagsOK
<1>1. CASE Start
  BY <1>1 DEF Start, output, control, input, sizes
<1>2. CASE Opens
  BY <1>2 DEF Opens, output, control, input, sizes
<1>3. CASE Refused
  BY <1>3 DEF Refused, output, control, input, sizes
<1>4. CASE RemoteSends
  BY <1>4 DEF RemoteSends, output, control, input, sizes
<1>5. CASE DataReceived
  BY <1>5 DEF DataReceived, output, control, input, sizes
<1>6. CASE ConnectionLost
  BY <1>6 DEF ConnectionLost, output, control, input, sizes
<1>7. CASE FeederStarts
  BY <1>7 DEF FeederStarts, LoopHead, output, control, input, sizes
<1>8. CASE FeederPasses
  BY <1>8 DEF FeederPasses, output, control, input, sizes
<1>9. CASE \E priority \in BOOLEAN : FeederTakes(priority)
  <2>1. arrived' = FALSE /\ UNCHANGED <<ready, control, writable>>
    BY <1>9 DEF FeederTakes, input
  <2> QED BY <2>1 DEF control
<1>10. CASE FeederDraws
  BY <1>10 DEF FeederDraws, HandOver, LoopEnd, LoopHead, output, control,
     input, sizes
<1>11. CASE Cancel
  BY <1>11 DEF Cancel, output, control, input, sizes
<1>12. CASE Suspend
  BY <1>12 DEF Suspend, MaySuspend, PauseReading, output, control, input, sizes
<1>13. CASE Resume
  BY <1>13 DEF Resume, output, control, input, sizes
<1>14. CASE Write
  BY <1>14 DEF Write, output, control, input, sizes
<1>15. CASE ChannelDrains
  BY <1>15 DEF ChannelDrains, Wakes, output, control, input, sizes
<1>16. CASE AsksWritten
  BY <1>16 DEF AsksWritten, output, control, input, sizes
<1>17. CASE WaiterReturns
  BY <1>17 DEF WaiterReturns, output, control, input, sizes
<1>18. CASE \E s \in Sizes : SetSize(s)
  BY <1>18 DEF SetSize, output, control, input, sizes
<1>19. CASE UNCHANGED vars
  BY <1>19 DEF vars, output, control, input, sizes
<1> QED BY <1>1, <1>2, <1>3, <1>4, <1>5, <1>6, <1>7, <1>8, <1>9, <1>10, <1>11,
           <1>12, <1>13, <1>14, <1>15, <1>16, <1>17, <1>18, <1>19 DEF Next,
           Feeder

\* Every task stays at a place it can be.
LEMMA TasksStep ==
  ASSUME TasksOK, [Next]_vars
  PROVE  TasksOK'
<1> USE DEF TasksOK, FeederStates, Gates, None, Vt100, Default
<1>1. CASE Start
  BY <1>1 DEF Start, output, control, input, sizes
<1>2. CASE Opens
  BY <1>2 DEF Opens, output, control, input, sizes
<1>3. CASE Refused
  BY <1>3 DEF Refused, output, control, input, sizes
<1>4. CASE RemoteSends
  BY <1>4 DEF RemoteSends, output, control, input, sizes
<1>5. CASE DataReceived
  BY <1>5 DEF DataReceived, output, control, input, sizes
<1>6. CASE ConnectionLost
  BY <1>6 DEF ConnectionLost, output, control, input, sizes
<1>7. CASE FeederStarts
  BY <1>7 DEF FeederStarts, LoopHead, output, control, input, sizes
<1>8. CASE FeederPasses
  BY <1>8 DEF FeederPasses, output, control, input, sizes
<1>9. CASE \E priority \in BOOLEAN : FeederTakes(priority)
  BY <1>9 DEF FeederTakes, ReadText, HandOver, LoopEnd, LoopHead, output,
     control, input, sizes
<1>10. CASE FeederDraws
  BY <1>10 DEF FeederDraws, HandOver, LoopEnd, LoopHead, output, control,
     input, sizes
<1>11. CASE Cancel
  BY <1>11 DEF Cancel, output, control, input, sizes
<1>12. CASE Suspend
  BY <1>12 DEF Suspend, MaySuspend, PauseReading, output, control, input, sizes
<1>13. CASE Resume
  BY <1>13 DEF Resume, output, control, input, sizes
<1>14. CASE Write
  BY <1>14 DEF Write, output, control, input, sizes
<1>15. CASE ChannelDrains
  BY <1>15 DEF ChannelDrains, Wakes, output, control, input, sizes
<1>16. CASE AsksWritten
  BY <1>16 DEF AsksWritten, output, control, input, sizes
<1>17. CASE WaiterReturns
  BY <1>17 DEF WaiterReturns, output, control, input, sizes
<1>18. CASE \E s \in Sizes : SetSize(s)
  BY <1>18 DEF SetSize, output, control, input, sizes
<1>19. CASE UNCHANGED vars
  BY <1>19 DEF vars, output, control, input, sizes
<1> QED BY <1>1, <1>2, <1>3, <1>4, <1>5, <1>6, <1>7, <1>8, <1>9, <1>10, <1>11,
           <1>12, <1>13, <1>14, <1>15, <1>16, <1>17, <1>18, <1>19 DEF Next,
           Feeder

\* Whatever puts something in the buffer sets the event; the one step that
\* takes the event away empties the buffer.
LEMMA ForgottenStep ==
  ASSUME NothingIsForgotten, CountsOK, [Next]_vars
  PROVE  NothingIsForgotten'
<1> USE DEF NothingIsForgotten, CountsOK
<1>1. CASE Start
  BY <1>1 DEF Start, output, control, input, sizes
<1>2. CASE Opens
  BY <1>2 DEF Opens, output, control, input, sizes
<1>3. CASE Refused
  BY <1>3 DEF Refused, output, control, input, sizes
<1>4. CASE RemoteSends
  BY <1>4 DEF RemoteSends, output, control, input, sizes
<1>5. CASE DataReceived
  BY <1>5 DEF DataReceived, output, control, input, sizes
<1>6. CASE ConnectionLost
  BY <1>6 DEF ConnectionLost, output, control, input, sizes
<1>7. CASE FeederStarts
  BY <1>7 DEF FeederStarts, LoopHead, output, control, input, sizes
<1>8. CASE FeederPasses
  BY <1>8 DEF FeederPasses, output, control, input, sizes
<1>9. CASE \E priority \in BOOLEAN : FeederTakes(priority)
  BY <1>9 DEF FeederTakes, ReadText, HandOver, LoopEnd, LoopHead, output,
     control, input, sizes
<1>10. CASE FeederDraws
  BY <1>10 DEF FeederDraws, HandOver, LoopEnd, LoopHead, output, control,
     input, sizes
<1>11. CASE Cancel
  BY <1>11 DEF Cancel, output, control, input, sizes
<1>12. CASE Suspend
  BY <1>12 DEF Suspend, MaySuspend, PauseReading, output, control, input, sizes
<1>13. CASE Resume
  BY <1>13 DEF Resume, output, control, input, sizes
<1>14. CASE Write
  BY <1>14 DEF Write, output, control, input, sizes
<1>15. CASE ChannelDrains
  BY <1>15 DEF ChannelDrains, Wakes, output, control, input, sizes
<1>16. CASE AsksWritten
  BY <1>16 DEF AsksWritten, output, control, input, sizes
<1>17. CASE WaiterReturns
  BY <1>17 DEF WaiterReturns, output, control, input, sizes
<1>18. CASE \E s \in Sizes : SetSize(s)
  BY <1>18 DEF SetSize, output, control, input, sizes
<1>19. CASE UNCHANGED vars
  BY <1>19 DEF vars, output, control, input, sizes
<1> QED BY <1>1, <1>2, <1>3, <1>4, <1>5, <1>6, <1>7, <1>8, <1>9, <1>10, <1>11,
           <1>12, <1>13, <1>14, <1>15, <1>16, <1>17, <1>18, <1>19 DEF Next,
           Feeder

\* The gate a pause closes is the one the feeder comes back to.
LEMMA ParksStep ==
  ASSUME Parks, CountsOK, FlagsOK, TasksOK, [Next]_vars
  PROVE  Parks'
<1> USE DEF Parks, LetThroughHandedNothing, PauseHandsOverOnePage,
            ResumeReachesTheFeeder, CountsOK, FlagsOK
<1>1. CASE Start
  BY <1>1 DEF Start, output, control, input, sizes
<1>2. CASE Opens
  BY <1>2 DEF Opens, output, control, input, sizes
<1>3. CASE Refused
  BY <1>3 DEF Refused, output, control, input, sizes
<1>4. CASE RemoteSends
  BY <1>4 DEF RemoteSends, output, control, input, sizes
<1>5. CASE DataReceived
  BY <1>5 DEF DataReceived, output, control, input, sizes
<1>6. CASE ConnectionLost
  BY <1>6 DEF ConnectionLost, output, control, input, sizes
<1>7. CASE FeederStarts
  BY <1>7 DEF FeederStarts, LoopHead, output, control, input, sizes
<1>8. CASE FeederPasses
  BY <1>8 DEF FeederPasses, output, control, input, sizes
<1>9. CASE \E priority \in BOOLEAN : FeederTakes(priority)
  BY <1>9 DEF FeederTakes, ReadText, HandOver, LoopEnd, LoopHead, output,
     control, input, sizes
<1>10. CASE FeederDraws
  <2>1. UNCHANGED control /\ feeder = "holding"
    BY <1>10 DEF FeederDraws
  <2>2. leaked' = IF suspended THEN leaked + 1 ELSE leaked
    BY <1>10 DEF FeederDraws, HandOver
  <2>3. leaked' <= 1
    BY <2>1, <2>2
  <2>4. \/ feeder' = "done" /\ gate' = gate
        \/ feeder' = "reading" /\ gate' = IF readingSet THEN "open" ELSE "current"
    BY <1>10 DEF FeederDraws, LoopEnd, LoopHead
  <2> QED BY <2>1, <2>3, <2>4 DEF control
<1>11. CASE Cancel
  BY <1>11 DEF Cancel, output, control, input, sizes
<1>12. CASE Suspend
  BY <1>12 DEF Suspend, MaySuspend, PauseReading, output, control, input, sizes
<1>13. CASE Resume
  BY <1>13 DEF Resume, output, control, input, sizes, TasksOK, Gates
<1>14. CASE Write
  BY <1>14 DEF Write, output, control, input, sizes
<1>15. CASE ChannelDrains
  BY <1>15 DEF ChannelDrains, Wakes, output, control, input, sizes
<1>16. CASE AsksWritten
  BY <1>16 DEF AsksWritten, output, control, input, sizes
<1>17. CASE WaiterReturns
  BY <1>17 DEF WaiterReturns, output, control, input, sizes
<1>18. CASE \E s \in Sizes : SetSize(s)
  BY <1>18 DEF SetSize, output, control, input, sizes
<1>19. CASE UNCHANGED vars
  BY <1>19 DEF vars, output, control, input, sizes
<1> QED BY <1>1, <1>2, <1>3, <1>4, <1>5, <1>6, <1>7, <1>8, <1>9, <1>10, <1>11,
           <1>12, <1>13, <1>14, <1>15, <1>16, <1>17, <1>18, <1>19 DEF Next,
           Feeder

LEMMA NextInductive == Inductive /\ [Next]_vars => Inductive'
BY CountsStep, FlagsStep, TasksStep, ForgottenStep, ParksStep
   DEF Inductive, TypeOK, Parks

THEOREM InductiveInvariant == Spec => []Inductive
BY InitInductive, NextInductive, PTL DEF Spec

\* Every variable stays in its type; in particular what was delivered is in
\* the buffer, in a held page or on the screen at most once.
THEOREM TypeCorrect == Spec => []TypeOK
BY InductiveInvariant, PTL DEF Inductive

\* asyncssh.py:43-46 and 136-139: whatever arrives between the wake and the
\* drain, or while a page is held, leaves a wakeup behind it.
THEOREM NothingForgotten == Spec => []NothingIsForgotten
BY InductiveInvariant, PTL DEF Inductive

\* asyncssh.py:49-51: a pause is followed by one page at most.
THEOREM PausedAfterOnePage == Spec => []PauseHandsOverOnePage
BY InductiveInvariant, PTL DEF Inductive

\* asyncssh.py:153-161: a resume reaches the feeder wherever a pause found it.
THEOREM ResumeReaches == Spec => []ResumeReachesTheFeeder
BY InductiveInvariant, PTL DEF Inductive

\* What is on its way to the screen, until the scope goes: every piece that
\* was delivered is in the buffer, in a held page or on the screen.
NothingIsDropped ==
  /\ feeder # "cancelled" => buffered + page + fed = delivered
  /\ feeder # "holding" => page = 0

\* What a session is while it is opened, and once it has ended.
SessionOK ==
  /\ opener \in {"unstarted", "opening"} => channel = None /\ ~ready
  /\ channel = None => sent = 0
  /\ opener = "unstarted" => feeder = "unstarted"
  /\ ready => channel # "open" /\ sent = delivered
  /\ feeder = "done" => ready /\ buffered = 0

LEMMA DroppedStep ==
  ASSUME CountsOK, NothingIsDropped, SessionOK, [Next]_vars
  PROVE  NothingIsDropped'
<1> USE DEF CountsOK, NothingIsDropped
<1>1. CASE Start
  BY <1>1 DEF Start, control, input, SessionOK
<1>2. CASE Opens \/ Refused \/ RemoteSends \/ ConnectionLost
  BY <1>2 DEF Opens, Refused, RemoteSends, ConnectionLost, output, control,
     input, sizes
<1>3. CASE DataReceived
  BY <1>3 DEF DataReceived, control, input, sizes
<1>4. CASE FeederStarts \/ FeederPasses
  BY <1>4 DEF FeederStarts, FeederPasses, LoopHead, control, input, sizes
<1>5. CASE FeederDraws
  BY <1>5 DEF FeederDraws, LoopEnd, LoopHead, HandOver, control, input, sizes
<1>6. ASSUME NEW priority \in BOOLEAN, FeederTakes(priority)
      PROVE  NothingIsDropped'
  BY <1>6 DEF FeederTakes, ReadText, LoopEnd, LoopHead, HandOver, control,
              input, sizes
<1>7. CASE Cancel
  BY <1>7 DEF Cancel, control, input, sizes
<1>8. CASE Suspend \/ Resume
  BY <1>8 DEF Suspend, PauseReading, Resume, input, sizes
<1>9. CASE Write \/ ChannelDrains \/ AsksWritten \/ WaiterReturns
  BY <1>9 DEF Write, ChannelDrains, AsksWritten, WaiterReturns, output,
              control, sizes
<1>10. ASSUME NEW s \in Sizes, SetSize(s) PROVE NothingIsDropped'
  BY <1>10 DEF SetSize, output, control, input
<1>11. CASE UNCHANGED vars
  BY <1>11 DEF vars, output
<1> QED BY <1>1, <1>2, <1>3, <1>4, <1>5, <1>6, <1>7, <1>8, <1>9, <1>10, <1>11
        DEF Next, Feeder

LEMMA SessionStep ==
  ASSUME TypeOK, SessionOK, [Next]_vars
  PROVE  SessionOK'
<1> USE DEF TypeOK, CountsOK, TasksOK, SessionOK, None
<1>1. CASE Start
  BY <1>1 DEF Start, control, input
<1>2. CASE Opens
  BY <1>2 DEF Opens, output, control, input
<1>3. CASE Refused
  BY <1>3 DEF Refused, control, input, sizes
<1>4. CASE RemoteSends \/ DataReceived
  BY <1>4 DEF RemoteSends, DataReceived, control, input, sizes
<1>5. CASE ConnectionLost
  BY <1>5 DEF ConnectionLost, control, sizes
<1>6. CASE FeederStarts \/ FeederPasses
  BY <1>6 DEF FeederStarts, FeederPasses, LoopHead, control, input, sizes
<1>7. CASE FeederDraws
  BY <1>7 DEF FeederDraws, LoopEnd, LoopHead, HandOver, control, input, sizes
<1>8. ASSUME NEW priority \in BOOLEAN, FeederTakes(priority)
      PROVE  SessionOK'
  BY <1>8 DEF FeederTakes, ReadText, LoopEnd, LoopHead, HandOver, control,
              input, sizes
<1>9. CASE Cancel
  BY <1>9 DEF Cancel, control, input, sizes
<1>10. CASE Suspend \/ Resume
  BY <1>10 DEF Suspend, PauseReading, Resume, input, sizes
<1>11. CASE Write \/ ChannelDrains \/ AsksWritten \/ WaiterReturns
  BY <1>11 DEF Write, ChannelDrains, AsksWritten, WaiterReturns, output,
               control, sizes
<1>12. ASSUME NEW s \in Sizes, SetSize(s) PROVE SessionOK'
  BY <1>12 DEF SetSize, output, control, input
<1>13. CASE UNCHANGED vars
  BY <1>13 DEF vars, output
<1> QED BY <1>1, <1>2, <1>3, <1>4, <1>5, <1>6, <1>7, <1>8, <1>9, <1>10, <1>11,
           <1>12, <1>13 DEF Next, Feeder

\* _feed_arrived: a session's end is behind the last of what arrived.
THEOREM NothingArrivedIsDropped == Spec => []EndIsBehindTheLastPiece
<1>1. Init => NothingIsDropped /\ SessionOK
  BY DEF Init, NothingIsDropped, SessionOK, None
<1>2. Inductive => TypeOK /\ CountsOK
  BY DEF Inductive, TypeOK
<1>3. CountsOK /\ NothingIsDropped /\ SessionOK => EndIsBehindTheLastPiece
  BY DEF CountsOK, NothingIsDropped, SessionOK, EndIsBehindTheLastPiece
<1> QED BY <1>1, <1>2, <1>3, InductiveInvariant, DroppedStep, SessionStep, PTL
        DEF Spec

-----------------------------------------------------------------------------
(* The redraw of what was fed.                                             *)

\* What is seen has no age.
SeenHasNoAge == ~unseen => unseenFor = 0

RedrawInductive == /\ RedrawTypeOK /\ OnlyAWriteIsHeldBack
                   /\ DebtIsPaidInTime /\ SeenHasNoAge

USE LimitAssumption, MaxPayersAssumption

LEMMA RedrawInitInductive == RedrawInit => RedrawInductive
<1> SUFFICES ASSUME RedrawInit PROVE RedrawInductive
  OBVIOUS
<1>1. RedrawTypeOK
  <2>1. payers \in [0..Limit -> 0..MaxPayers] /\ \A k \in 0..Limit : payers[k] = 0
    BY DEF RedrawInit
  <2>2. RedrawFlagsOK
    BY Zenon DEF RedrawInit, RedrawFlagsOK
  <2> QED BY <2>1, <2>2 DEF RedrawInit, RedrawTypeOK, AgesOK, PayersOK
<1>2. OnlyAWriteIsHeldBack /\ DebtIsPaidInTime /\ SeenHasNoAge
  BY DEF RedrawInit, OnlyAWriteIsHeldBack, DebtIsPaidInTime, SeenHasNoAge
<1> QED BY <1>1, <1>2 DEF RedrawInductive

\* A page that is drawn leaves no debt behind.
LEMMA DrawsInductive ==
  ASSUME RedrawInductive, NEW full \in BOOLEAN, Feed(full), ~HoldsBack(full)
  PROVE  RedrawInductive'
<1>1. RedrawTypeOK'
  <2>1. UNCHANGED <<group, payers>> /\ more' = full
    BY DEF Feed
  <2>2. sinceDrawn' = 0 /\ owed' = FALSE /\ unseen' = FALSE /\ unseenFor' = 0
    BY DEF Feed, Invalidate
  <2>3. RedrawFlagsOK'
    BY <2>1, <2>2, Zenon DEF RedrawInductive, RedrawTypeOK, RedrawFlagsOK
  <2>4. AgesOK'
    BY <2>2 DEF AgesOK
  <2>5. PayersOK'
    BY <2>1 DEF RedrawInductive, RedrawTypeOK, PayersOK
  <2> QED BY <2>3, <2>4, <2>5 DEF RedrawTypeOK
<1>2. OnlyAWriteIsHeldBack' /\ DebtIsPaidInTime' /\ SeenHasNoAge'
  BY DEF Feed, Invalidate, OnlyAWriteIsHeldBack, DebtIsPaidInTime, SeenHasNoAge
<1> QED BY <1>1, <1>2 DEF RedrawInductive

\* A page that is held back under no debt makes a sleeper that pays it on
\* time; under a debt it leaves the sleeper there is.
LEMMA HoldsBackInductive ==
  ASSUME RedrawInductive, NEW full \in BOOLEAN, Feed(full), HoldsBack(full)
  PROVE  RedrawInductive'
<1>1. owed' = TRUE /\ unseen' = TRUE /\ more' = TRUE /\ group' = TRUE
  BY DEF Feed, Owe, HoldsBack
<1>2. UNCHANGED <<sinceDrawn, unseenFor, group>>
  BY DEF Feed
<1>3. CASE owed
  <2>1. UNCHANGED payers
    BY <1>3 DEF Feed, Owe
  <2>2. RedrawTypeOK'
    BY <1>1, <1>2, <2>1 DEF RedrawInductive, RedrawTypeOK, RedrawFlagsOK,
       AgesOK, PayersOK
  <2>3. DebtIsPaidInTime'
    BY <1>2, <1>3, <2>1 DEF RedrawInductive, DebtIsPaidInTime
  <2> QED BY <1>1, <2>2, <2>3 DEF RedrawInductive, OnlyAWriteIsHeldBack,
             SeenHasNoAge
<1>4. CASE ~owed
  <2>1. payers[Limit] < MaxPayers
        /\ payers' = [payers EXCEPT ![Limit] = @ + 1]
    BY <1>4 DEF Feed, Owe
  <2>2. payers' \in [0..Limit -> 0..MaxPayers] /\ payers'[Limit] > 0
    BY <2>1 DEF RedrawInductive, RedrawTypeOK, RedrawFlagsOK, AgesOK, PayersOK
  <2>3. RedrawTypeOK'
    BY <1>1, <1>2, <2>2 DEF RedrawInductive, RedrawTypeOK, RedrawFlagsOK,
       AgesOK, PayersOK
  <2>4. unseenFor = 0
    BY <1>4 DEF RedrawInductive, OnlyAWriteIsHeldBack, SeenHasNoAge
  <2>5. DebtIsPaidInTime'
    BY <1>2, <2>2, <2>4 DEF DebtIsPaidInTime
  <2> QED BY <1>1, <2>3, <2>5 DEF RedrawInductive, OnlyAWriteIsHeldBack,
             SeenHasNoAge
<1> QED BY <1>3, <1>4

\* Whoever pays, and a sleeper with no debt left to pay only ends.
LEMMA PayInductive == ASSUME RedrawInductive, Pay PROVE RedrawInductive'
<1>1. payers' = [payers EXCEPT ![0] = @ - 1] /\ payers[0] > 0
  BY DEF Pay
<1>2. payers' \in [0..Limit -> 0..MaxPayers]
  BY <1>1 DEF RedrawInductive, RedrawTypeOK, RedrawFlagsOK, AgesOK, PayersOK
<1>3. RedrawTypeOK'
  <2>1. RedrawFlagsOK'
    BY Zenon DEF Pay, Invalidate, RedrawInductive, RedrawTypeOK, RedrawFlagsOK
  <2>2. AgesOK'
    BY DEF Pay, Invalidate, RedrawInductive, RedrawTypeOK, AgesOK
  <2>3. group' = group /\ group
    BY DEF Pay, RedrawInductive, RedrawTypeOK, PayersOK
  <2> QED BY <1>2, <2>1, <2>2, <2>3 DEF RedrawTypeOK, PayersOK
<1>4. ~owed'
  BY DEF Pay, Invalidate
<1>5. OnlyAWriteIsHeldBack' /\ SeenHasNoAge'
  BY DEF Pay, Invalidate, RedrawInductive, OnlyAWriteIsHeldBack, SeenHasNoAge
<1> QED BY <1>3, <1>4, <1>5 DEF RedrawInductive, DebtIsPaidInTime

\* The one who pays sleeps a tick less as the debt gets a tick older.
LEMMA TickInductive == ASSUME RedrawInductive, Tick PROVE RedrawInductive'
<1>1. payers' = [k \in 0..Limit |-> IF k < Limit THEN payers[k + 1] ELSE 0]
  BY DEF Tick
<1>2. payers' \in [0..Limit -> 0..MaxPayers]
  BY <1>1 DEF RedrawInductive, RedrawTypeOK, RedrawFlagsOK, AgesOK, PayersOK
<1>3. ~group' => \A k \in 0..Limit : payers'[k] = 0
  BY <1>1 DEF RedrawInductive, RedrawTypeOK, PayersOK, Tick
<1>4. RedrawTypeOK'
  BY <1>2, <1>3 DEF RedrawInductive, RedrawTypeOK, RedrawFlagsOK, AgesOK,
     PayersOK, Tick
<1>5. OnlyAWriteIsHeldBack' /\ SeenHasNoAge'
  BY DEF Tick, RedrawInductive, OnlyAWriteIsHeldBack, SeenHasNoAge
<1>6. ASSUME owed' PROVE \E k \in 0..Limit : payers'[k] > 0 /\ unseenFor' + k <= Limit
  <2>1. PICK k \in 0..Limit : payers[k] > 0 /\ unseenFor + k <= Limit
    BY <1>6 DEF Tick, RedrawInductive, DebtIsPaidInTime
  <2>2. k # 0
    BY <2>1 DEF Tick
  <2>3. k - 1 \in 0..Limit /\ k - 1 < Limit /\ (k - 1) + 1 = k
    BY <2>2
  <2>4. payers'[k - 1] = payers[k]
    BY <1>1, <2>3
  <2>5. unseenFor' + (k - 1) <= Limit
    BY <2>1, <2>2 DEF Tick, RedrawInductive, RedrawTypeOK, AgesOK
  <2> QED BY <2>1, <2>3, <2>4, <2>5
<1> QED BY <1>4, <1>5, <1>6 DEF RedrawInductive, DebtIsPaidInTime

LEMMA RedrawNextInductive ==
  RedrawInductive /\ [RedrawNext]_redrawVars => RedrawInductive'
<1> SUFFICES ASSUME RedrawInductive, [RedrawNext]_redrawVars PROVE RedrawInductive'
  OBVIOUS
<1>1. ASSUME NEW full \in BOOLEAN, Feed(full) PROVE RedrawInductive'
  BY <1>1, DrawsInductive, HoldsBackInductive
<1>2. CASE Pay
  BY <1>2, PayInductive
<1>3. CASE Tick
  BY <1>3, TickInductive
<1>4. CASE UNCHANGED redrawVars
  BY <1>4 DEF redrawVars, RedrawInductive, RedrawTypeOK, RedrawFlagsOK, AgesOK,
     PayersOK,
              OnlyAWriteIsHeldBack, DebtIsPaidInTime, SeenHasNoAge
<1> QED BY <1>1, <1>2, <1>3, <1>4 DEF RedrawNext

THEOREM RedrawInductiveInvariant == RedrawSpec => []RedrawInductive
BY RedrawInitInductive, RedrawNextInductive, PTL DEF RedrawSpec

\* Every variable stays in its type, and a process without a group never
\* has a task that pays (process.py:253-254).
THEOREM RedrawTypeCorrect == RedrawSpec => []RedrawTypeOK
BY RedrawInductiveInvariant, PTL DEF RedrawInductive

\* process.py:21-25: what was fed is drawn within the limit, in a flood too.
THEOREM FloodIsDrawn == RedrawSpec => []DrawnWithinTheLimit
<1>1. RedrawInductive => DrawnWithinTheLimit
  BY DEF RedrawInductive, RedrawTypeOK, AgesOK, OnlyAWriteIsHeldBack,
         DebtIsPaidInTime,
         DrawnWithinTheLimit
<1> QED BY <1>1, RedrawInductiveInvariant, PTL

\* process.py:250-254: after a short page, and without a group, the screen
\* is never behind what was fed.
THEOREM ShortPagesAreDrawn == RedrawSpec => []OnlyAWriteIsHeldBack
BY RedrawInductiveInvariant, PTL DEF RedrawInductive
=============================================================================
