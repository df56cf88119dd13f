-------------------------- MODULE PtyOutputProofs --------------------------
(***************************************************************************)
(* PtyOutput's safety for every page size, every amount of output and      *)
(* every number of pauses.                                                 *)
(***************************************************************************)
EXTENDS PtyOutput, TLAPS

(***************************************************************************)
(* The invariant the properties rest on, in the parts the steps disturb    *)
(* together.                                                               *)
(***************************************************************************)

\* Only a held page, or one lost to a failure or a cancelled scope, is read
\* and not drawn.
NothingReadIsLost ==
  /\ pump \notin {"held", "raised", "done"} => fed = got
  /\ pump = "done" /\ scope = "open" => fed = got

\* A read met the end behind the last byte, or the pty was torn down.
TheEndIsTheEnd ==
  /\ closed => tornDown \/ (got = wrote /\ HungUp)
  /\ closed => pump \in {"held", "raised", "done"}

\* The event of this moment is unset exactly during a pause.
PauseIsTheEvent == suspended <=> ~HandsOver

\* The master goes with the pump, or was torn down first.
WhoLetTheMasterGo ==
  /\ tornDown => ~master
  /\ ~master => tornDown \/ closed
  /\ pump \in {"raised", "done"} => ~master

\* Nothing is held for a program that always has the focus.
FocusedHoldsNothing == FALSE \notin Priorities => pump # "held"

IInv ==
  /\ TypeOK
  /\ NothingReadIsLost
  /\ TheEndIsTheEnd
  /\ PauseIsTheEvent
  /\ WhoLetTheMasterGo
  /\ FocusedHoldsNothing

-----------------------------------------------------------------------------

LEMMA InitIInv == Init => IInv
<1> SUFFICES ASSUME Init PROVE IInv
  OBVIOUS
<1> USE DEF Init, HandsOver
<1>1. TypeOK
  <2>1. reading \in 0..MaxPauses + 1
    BY BoundsAssumption
  <2>2. setEvents \in SUBSET (0..reading) /\ pumpEvent \in 0..reading
    BY <2>1, BoundsAssumption
  <2>3. wrote \in 0..MaxWrote /\ got \in 0..wrote /\ fed \in 0..got
    OBVIOUS
  <2>4. /\ programHolds \in BOOLEAN /\ slave \in BOOLEAN /\ master \in BOOLEAN
        /\ closed \in BOOLEAN /\ suspended \in BOOLEAN /\ drained \in BOOLEAN
    OBVIOUS
  <2>5. /\ pump \in PumpStates /\ scope \in {"open", "cancelled"}
        /\ tornDown \in BOOLEAN
    BY DEF PumpStates
  <2> QED
    BY <2>1, <2>2, <2>3, <2>4, <2>5
    DEF TypeOK, CountsOK, EventsOK, ControlOK
<1>2. PauseIsTheEvent
  <2>1. CASE suspended
    BY <2>1 DEF PauseIsTheEvent
  <2>2. CASE ~suspended
    BY <2>2 DEF PauseIsTheEvent
  <2> QED
    BY <2>1, <2>2
<1>3. NothingReadIsLost /\ TheEndIsTheEnd /\ WhoLetTheMasterGo
      /\ FocusedHoldsNothing
  BY DEF NothingReadIsLost, TheEndIsTheEnd, WhoLetTheMasterGo,
         FocusedHoldsNothing
<1> QED
  BY <1>1, <1>2, <1>3 DEF IInv

\* Around the loop, or out of it through the `finally`.
LEMMA LoopHeadOutcome ==
  ASSUME NEW over \in BOOLEAN, LoopHead(over)
  PROVE  \/ /\ master /\ ~over
            /\ pump' = "parked" /\ pumpEvent' = reading
            /\ master' = master /\ drained' = drained
         \/ /\ ~master \/ over
            /\ pump' = "done" /\ pumpEvent' = pumpEvent
            /\ master' = FALSE /\ drained' = TRUE
  BY DEF LoopHead, LetGo

LEMMA LoopHeadKeepsEvents ==
  ASSUME NEW over \in BOOLEAN, LoopHead(over), EventsOK,
         reading' = reading, setEvents' = setEvents
  PROVE  EventsOK'
<1>1. pumpEvent' \in {reading, pumpEvent}
  BY LoopHeadOutcome
<1>2. reading \in 0..reading
  BY BoundsAssumption DEF EventsOK
<1> QED
  BY <1>1, <1>2 DEF EventsOK

\* A read takes bytes the program wrote, or meets the end.
LEMMA ReadPageOutcome ==
  ASSUME CountsOK, ReadPage
  PROVE  \/ /\ master /\ closed' = closed
            /\ got' \in (got + 1)..wrote
         \/ /\ (HungUp /\ got = wrote) \/ ~master
            /\ closed' = TRUE /\ got' = got
  BY PageAssumption DEF ReadPage, ReadEnds, HungUp, CountsOK

LEMMA ReadPageStaysInBounds ==
  ASSUME CountsOK, ReadPage
  PROVE  got' \in got..wrote
<1>1. got' \in (got + 1)..wrote \/ got' = got
  BY ReadPageOutcome
<1> QED
  BY <1>1, BoundsAssumption DEF CountsOK

LEMMA NextIInv == IInv /\ [Next]_vars => IInv'
<1> SUFFICES ASSUME IInv, [Next]_vars PROVE IInv'
  OBVIOUS
<1> USE DEF IInv, TypeOK
<1>0. closed \in BOOLEAN
  BY DEF ControlOK
<1>1. CASE PumpBegins
  <2>1. LoopHead(closed)
    BY <1>1 DEF PumpBegins
  <2>3. CountsOK'
    BY <1>1 DEF PumpBegins, CountsOK
  <2>4. EventsOK'
    BY <1>1, <2>1, <1>0, LoopHeadKeepsEvents DEF PumpBegins, EventsOK
  <2>5. ControlOK'
    BY <1>1, <2>1, <1>0, LoopHeadOutcome
    DEF PumpBegins, ControlOK, PumpStates
  <2>6. NothingReadIsLost'
    BY <1>1, <2>1, <1>0, LoopHeadOutcome
    DEF PumpBegins, NothingReadIsLost
  <2>7. TheEndIsTheEnd'
    BY <1>1, <2>1, <1>0, LoopHeadOutcome
    DEF PumpBegins, TheEndIsTheEnd, WhoLetTheMasterGo, HungUp, CountsOK
  <2>8. PauseIsTheEvent'
    BY <1>1 DEF PumpBegins, PauseIsTheEvent, HandsOver
  <2>9. WhoLetTheMasterGo' /\ FocusedHoldsNothing'
    BY <1>1, <2>1, <1>0, LoopHeadOutcome
    DEF PumpBegins, WhoLetTheMasterGo, TheEndIsTheEnd, FocusedHoldsNothing
  <2> QED
    BY <2>3, <2>4, <2>5, <2>6, <2>7, <2>8, <2>9
<1>2. CASE PumpPasses
  <2>3. CountsOK'
    BY <1>2 DEF PumpPasses, CountsOK
  <2>4. EventsOK'
    BY <1>2 DEF PumpPasses, EventsOK
  <2>5. ControlOK'
    BY <1>2
    DEF PumpPasses, LetGo, ControlOK, PumpStates
  <2>6. NothingReadIsLost'
    BY <1>2
    DEF PumpPasses, LetGo, NothingReadIsLost
  <2>7. TheEndIsTheEnd'
    BY <1>2
    DEF PumpPasses, LetGo, TheEndIsTheEnd, WhoLetTheMasterGo, HungUp, CountsOK
  <2>8. PauseIsTheEvent'
    BY <1>2 DEF PumpPasses, PauseIsTheEvent, HandsOver
  <2>9. WhoLetTheMasterGo' /\ FocusedHoldsNothing'
    BY <1>2
    DEF PumpPasses, LetGo, WhoLetTheMasterGo, TheEndIsTheEnd,
        FocusedHoldsNothing
  <2> QED
    BY <2>3, <2>4, <2>5, <2>6, <2>7, <2>8, <2>9
<1>3. CASE PumpWakes
  <2>3. CountsOK'
    BY <1>3 DEF PumpWakes, CountsOK
  <2>4. EventsOK'
    BY <1>3 DEF PumpWakes, EventsOK
  <2>5. ControlOK'
    BY <1>3
    DEF PumpWakes, ControlOK, PumpStates
  <2>6. NothingReadIsLost'
    BY <1>3
    DEF PumpWakes, NothingReadIsLost
  <2>7. TheEndIsTheEnd'
    BY <1>3
    DEF PumpWakes, TheEndIsTheEnd, WhoLetTheMasterGo, HungUp, CountsOK
  <2>8. PauseIsTheEvent'
    BY <1>3 DEF PumpWakes, PauseIsTheEvent, HandsOver
  <2>9. WhoLetTheMasterGo' /\ FocusedHoldsNothing'
    BY <1>3
    DEF PumpWakes, WhoLetTheMasterGo, TheEndIsTheEnd, FocusedHoldsNothing
  <2> QED
    BY <2>3, <2>4, <2>5, <2>6, <2>7, <2>8, <2>9
<1>4. CASE PumpLosesMaster
  <2>3. CountsOK'
    BY <1>4 DEF PumpLosesMaster, CountsOK
  <2>4. EventsOK'
    BY <1>4 DEF PumpLosesMaster, EventsOK
  <2>5. ControlOK'
    BY <1>4
    DEF PumpLosesMaster, LetGo, ControlOK, PumpStates
  <2>6. NothingReadIsLost'
    BY <1>4
    DEF PumpLosesMaster, LetGo, WokenByClose, NothingReadIsLost
  <2>7. TheEndIsTheEnd'
    BY <1>4
    DEF PumpLosesMaster, LetGo, WokenByClose, TheEndIsTheEnd,
        WhoLetTheMasterGo, HungUp, CountsOK
  <2>8. PauseIsTheEvent'
    BY <1>4 DEF PumpLosesMaster, PauseIsTheEvent, HandsOver
  <2>9. WhoLetTheMasterGo' /\ FocusedHoldsNothing'
    BY <1>4
    DEF PumpLosesMaster, LetGo, WokenByClose, WhoLetTheMasterGo,
        TheEndIsTheEnd, FocusedHoldsNothing
  <2> QED
    BY <2>3, <2>4, <2>5, <2>6, <2>7, <2>8, <2>9
<1>5. CASE PumpTurnsBack
  <2>1. LoopHead(closed)
    BY <1>5 DEF PumpTurnsBack
  <2>3. CountsOK'
    BY <1>5 DEF PumpTurnsBack, CountsOK
  <2>4. EventsOK'
    BY <1>5, <2>1, <1>0, LoopHeadKeepsEvents DEF PumpTurnsBack, EventsOK
  <2>5. ControlOK'
    BY <1>5, <2>1, <1>0, LoopHeadOutcome
    DEF PumpTurnsBack, ControlOK, PumpStates
  <2>6. NothingReadIsLost'
    BY <1>5, <2>1, <1>0, LoopHeadOutcome
    DEF PumpTurnsBack, NothingReadIsLost
  <2>7. TheEndIsTheEnd'
    BY <1>5, <2>1, <1>0, LoopHeadOutcome
    DEF PumpTurnsBack, TheEndIsTheEnd, WhoLetTheMasterGo, HungUp, CountsOK
  <2>8. PauseIsTheEvent'
    BY <1>5 DEF PumpTurnsBack, PauseIsTheEvent, HandsOver
  <2>9. WhoLetTheMasterGo' /\ FocusedHoldsNothing'
    BY <1>5, <2>1, <1>0, LoopHeadOutcome
    DEF PumpTurnsBack, WhoLetTheMasterGo, TheEndIsTheEnd, FocusedHoldsNothing
  <2> QED
    BY <2>3, <2>4, <2>5, <2>6, <2>7, <2>8, <2>9
<1>6. CASE PumpReadsAndFeeds
  <2>1. ReadPage /\ LoopHead(closed') /\ fed' = got' /\ pump = "woken"
    BY <1>6 DEF PumpReadsAndFeeds
  <2>2. closed' \in BOOLEAN
    BY <2>1, <1>0, ReadPageOutcome
  <2>3. CountsOK'
    BY <1>6, <2>1, ReadPageStaysInBounds, BoundsAssumption
       DEF PumpReadsAndFeeds, CountsOK
  <2>4. EventsOK'
    BY <1>6, <2>1, <2>2, LoopHeadKeepsEvents DEF PumpReadsAndFeeds, EventsOK
  <2>5. ControlOK'
    BY <1>6, <2>1, <2>2, ReadPageOutcome, LoopHeadOutcome
    DEF PumpReadsAndFeeds, ControlOK, PumpStates
  <2>6. NothingReadIsLost'
    BY <1>6, <2>1, <2>2, ReadPageOutcome, LoopHeadOutcome
    DEF PumpReadsAndFeeds, NothingReadIsLost
  <2>7. TheEndIsTheEnd'
    BY <1>6, <2>1, <2>2, ReadPageOutcome, LoopHeadOutcome
    DEF PumpReadsAndFeeds, TheEndIsTheEnd, WhoLetTheMasterGo, HungUp, CountsOK
  <2>8. PauseIsTheEvent'
    BY <1>6 DEF PumpReadsAndFeeds, PauseIsTheEvent, HandsOver
  <2>9. WhoLetTheMasterGo' /\ FocusedHoldsNothing'
    BY <1>6, <2>1, <2>2, ReadPageOutcome, LoopHeadOutcome
    DEF PumpReadsAndFeeds, WhoLetTheMasterGo, TheEndIsTheEnd,
        FocusedHoldsNothing
  <2> QED
    BY <2>3, <2>4, <2>5, <2>6, <2>7, <2>8, <2>9
<1>7. CASE PumpReadsAndHolds
  <2>1. ReadPage
    BY <1>7 DEF PumpReadsAndHolds
  <2>3. CountsOK'
    BY <1>7, <2>1, ReadPageStaysInBounds, BoundsAssumption
       DEF PumpReadsAndHolds, CountsOK
  <2>4. EventsOK'
    BY <1>7 DEF PumpReadsAndHolds, EventsOK
  <2>5. ControlOK'
    BY <1>7, <2>1, <1>0, ReadPageOutcome
    DEF PumpReadsAndHolds, ControlOK, PumpStates
  <2>6. NothingReadIsLost'
    BY <1>7, <2>1, <1>0, ReadPageOutcome
    DEF PumpReadsAndHolds, NothingReadIsLost
  <2>7. TheEndIsTheEnd'
    <3>1. ~closed
      BY <1>7 DEF PumpReadsAndHolds, TheEndIsTheEnd
    <3>2. closed' => tornDown \/ (got' = wrote /\ HungUp)
      BY <2>1, <3>1, ReadPageOutcome DEF WhoLetTheMasterGo
    <3> QED
      BY <1>7, <3>2 DEF PumpReadsAndHolds, TheEndIsTheEnd, HungUp
  <2>8. PauseIsTheEvent'
    BY <1>7 DEF PumpReadsAndHolds, PauseIsTheEvent, HandsOver
  <2>9. WhoLetTheMasterGo' /\ FocusedHoldsNothing'
    BY <1>7, <2>1, <1>0, ReadPageOutcome
    DEF PumpReadsAndHolds, WhoLetTheMasterGo, TheEndIsTheEnd,
        FocusedHoldsNothing
  <2> QED
    BY <2>3, <2>4, <2>5, <2>6, <2>7, <2>8, <2>9
<1>8. CASE PumpFeeds
  <2>1. LoopHead(closed)
    BY <1>8 DEF PumpFeeds
  <2>3. CountsOK'
    BY <1>8 DEF PumpFeeds, CountsOK
  <2>4. EventsOK'
    BY <1>8, <2>1, <1>0, LoopHeadKeepsEvents DEF PumpFeeds, EventsOK
  <2>5. ControlOK'
    BY <1>8, <2>1, <1>0, LoopHeadOutcome
    DEF PumpFeeds, ControlOK, PumpStates
  <2>6. NothingReadIsLost'
    BY <1>8, <2>1, <1>0, LoopHeadOutcome
    DEF PumpFeeds, NothingReadIsLost
  <2>7. TheEndIsTheEnd'
    BY <1>8, <2>1, <1>0, LoopHeadOutcome
    DEF PumpFeeds, TheEndIsTheEnd, WhoLetTheMasterGo, HungUp, CountsOK
  <2>8. PauseIsTheEvent'
    BY <1>8 DEF PumpFeeds, PauseIsTheEvent, HandsOver
  <2>9. WhoLetTheMasterGo' /\ FocusedHoldsNothing'
    BY <1>8, <2>1, <1>0, LoopHeadOutcome
    DEF PumpFeeds, WhoLetTheMasterGo, TheEndIsTheEnd, FocusedHoldsNothing
  <2> QED
    BY <2>3, <2>4, <2>5, <2>6, <2>7, <2>8, <2>9
<1>9. CASE PumpCancelled
  <2>3. CountsOK'
    BY <1>9 DEF PumpCancelled, CountsOK
  <2>4. EventsOK'
    BY <1>9 DEF PumpCancelled, EventsOK
  <2>5. ControlOK'
    BY <1>9
    DEF PumpCancelled, LetGo, ControlOK, PumpStates
  <2>6. NothingReadIsLost'
    BY <1>9
    DEF PumpCancelled, LetGo, NothingReadIsLost
  <2>7. TheEndIsTheEnd'
    BY <1>9
    DEF PumpCancelled, LetGo, TheEndIsTheEnd, WhoLetTheMasterGo, HungUp,
        CountsOK
  <2>8. PauseIsTheEvent'
    BY <1>9 DEF PumpCancelled, PauseIsTheEvent, HandsOver
  <2>9. WhoLetTheMasterGo' /\ FocusedHoldsNothing'
    BY <1>9
    DEF PumpCancelled, LetGo, WhoLetTheMasterGo, TheEndIsTheEnd,
        FocusedHoldsNothing
  <2> QED
    BY <2>3, <2>4, <2>5, <2>6, <2>7, <2>8, <2>9
<1>10. CASE Suspend
  <2>3. CountsOK'
    BY <1>10 DEF Suspend, CountsOK
  <2>4. EventsOK'
    BY <1>10, BoundsAssumption DEF Suspend, EventsOK
  <2>5. ControlOK'
    BY <1>10
    DEF Suspend, ControlOK, PumpStates
  <2>6. NothingReadIsLost'
    BY <1>10
    DEF Suspend, NothingReadIsLost
  <2>7. TheEndIsTheEnd'
    BY <1>10
    DEF Suspend, TheEndIsTheEnd, WhoLetTheMasterGo, HungUp, CountsOK
  <2>8. PauseIsTheEvent'
    BY <1>10, BoundsAssumption DEF Suspend, NotYetSuspended, EventsOK,
       PauseIsTheEvent, HandsOver
  <2>9. WhoLetTheMasterGo' /\ FocusedHoldsNothing'
    BY <1>10
    DEF Suspend, WhoLetTheMasterGo, TheEndIsTheEnd, FocusedHoldsNothing
  <2> QED
    BY <2>3, <2>4, <2>5, <2>6, <2>7, <2>8, <2>9
<1>11. CASE Resume
  <2>3. CountsOK'
    BY <1>11 DEF Resume, CountsOK
  <2>4. EventsOK'
    BY <1>11 DEF Resume, EventsOK
  <2>5. ControlOK'
    BY <1>11
    DEF Resume, ControlOK, PumpStates
  <2>6. NothingReadIsLost'
    BY <1>11
    DEF Resume, NothingReadIsLost
  <2>7. TheEndIsTheEnd'
    BY <1>11
    DEF Resume, TheEndIsTheEnd, WhoLetTheMasterGo, HungUp, CountsOK
  <2>8. PauseIsTheEvent'
    BY <1>11 DEF Resume, PauseIsTheEvent, HandsOver
  <2>9. WhoLetTheMasterGo' /\ FocusedHoldsNothing'
    BY <1>11
    DEF Resume, WhoLetTheMasterGo, TheEndIsTheEnd, FocusedHoldsNothing
  <2> QED
    BY <2>3, <2>4, <2>5, <2>6, <2>7, <2>8, <2>9
<1>12. CASE Start
  <2>3. CountsOK'
    BY <1>12 DEF Start, CountsOK
  <2>4. EventsOK'
    BY <1>12 DEF Start, EventsOK
  <2>5. ControlOK'
    BY <1>12
    DEF Start, ControlOK, PumpStates
  <2>6. NothingReadIsLost'
    BY <1>12
    DEF Start, NothingReadIsLost
  <2>7. TheEndIsTheEnd'
    BY <1>12
    DEF Start, TheEndIsTheEnd, WhoLetTheMasterGo, HungUp, CountsOK
  <2>8. PauseIsTheEvent'
    BY <1>12 DEF Start, PauseIsTheEvent, HandsOver
  <2>9. WhoLetTheMasterGo' /\ FocusedHoldsNothing'
    BY <1>12
    DEF Start, WhoLetTheMasterGo, TheEndIsTheEnd, FocusedHoldsNothing
  <2> QED
    BY <2>3, <2>4, <2>5, <2>6, <2>7, <2>8, <2>9
<1>13. CASE ProgramWrites
  <2>3. CountsOK'
    BY <1>13, BoundsAssumption DEF ProgramWrites, CountsOK
  <2>4. EventsOK'
    BY <1>13 DEF ProgramWrites, EventsOK
  <2>5. ControlOK'
    BY <1>13
    DEF ProgramWrites, ControlOK, PumpStates
  <2>6. NothingReadIsLost'
    BY <1>13
    DEF ProgramWrites, NothingReadIsLost
  <2>7. TheEndIsTheEnd'
    BY <1>13
    DEF ProgramWrites, TheEndIsTheEnd, WhoLetTheMasterGo, HungUp, CountsOK
  <2>8. PauseIsTheEvent'
    BY <1>13 DEF ProgramWrites, PauseIsTheEvent, HandsOver
  <2>9. WhoLetTheMasterGo' /\ FocusedHoldsNothing'
    BY <1>13
    DEF ProgramWrites, WhoLetTheMasterGo, TheEndIsTheEnd, FocusedHoldsNothing
  <2> QED
    BY <2>3, <2>4, <2>5, <2>6, <2>7, <2>8, <2>9
<1>14. CASE ProgramLetsGo
  <2>3. CountsOK'
    BY <1>14 DEF ProgramLetsGo, CountsOK
  <2>4. EventsOK'
    BY <1>14 DEF ProgramLetsGo, EventsOK
  <2>5. ControlOK'
    BY <1>14
    DEF ProgramLetsGo, ControlOK, PumpStates
  <2>6. NothingReadIsLost'
    BY <1>14
    DEF ProgramLetsGo, NothingReadIsLost
  <2>7. TheEndIsTheEnd'
    BY <1>14
    DEF ProgramLetsGo, TheEndIsTheEnd, WhoLetTheMasterGo, HungUp, CountsOK
  <2>8. PauseIsTheEvent'
    BY <1>14 DEF ProgramLetsGo, PauseIsTheEvent, HandsOver
  <2>9. WhoLetTheMasterGo' /\ FocusedHoldsNothing'
    BY <1>14
    DEF ProgramLetsGo, WhoLetTheMasterGo, TheEndIsTheEnd, FocusedHoldsNothing
  <2> QED
    BY <2>3, <2>4, <2>5, <2>6, <2>7, <2>8, <2>9
<1>15. CASE ReapLetsSlaveGo
  <2>3. CountsOK'
    BY <1>15 DEF ReapLetsSlaveGo, CountsOK
  <2>4. EventsOK'
    BY <1>15 DEF ReapLetsSlaveGo, EventsOK
  <2>5. ControlOK'
    BY <1>15
    DEF ReapLetsSlaveGo, ControlOK, PumpStates
  <2>6. NothingReadIsLost'
    BY <1>15
    DEF ReapLetsSlaveGo, NothingReadIsLost
  <2>7. TheEndIsTheEnd'
    BY <1>15
    DEF ReapLetsSlaveGo, TheEndIsTheEnd, WhoLetTheMasterGo, HungUp, CountsOK
  <2>8. PauseIsTheEvent'
    BY <1>15 DEF ReapLetsSlaveGo, PauseIsTheEvent, HandsOver
  <2>9. WhoLetTheMasterGo' /\ FocusedHoldsNothing'
    BY <1>15
    DEF ReapLetsSlaveGo, WhoLetTheMasterGo, TheEndIsTheEnd, FocusedHoldsNothing
  <2> QED
    BY <2>3, <2>4, <2>5, <2>6, <2>7, <2>8, <2>9
<1>16. CASE Teardown
  <2>3. CountsOK'
    BY <1>16 DEF Teardown, CountsOK
  <2>4. EventsOK'
    BY <1>16 DEF Teardown, EventsOK
  <2>5. ControlOK'
    BY <1>16
    DEF Teardown, ControlOK, PumpStates
  <2>6. NothingReadIsLost'
    BY <1>16
    DEF Teardown, NothingReadIsLost
  <2>7. TheEndIsTheEnd'
    BY <1>16
    DEF Teardown, TheEndIsTheEnd, WhoLetTheMasterGo, HungUp, CountsOK
  <2>8. PauseIsTheEvent'
    BY <1>16 DEF Teardown, PauseIsTheEvent, HandsOver
  <2>9. WhoLetTheMasterGo' /\ FocusedHoldsNothing'
    BY <1>16
    DEF Teardown, WhoLetTheMasterGo, TheEndIsTheEnd, FocusedHoldsNothing
  <2> QED
    BY <2>3, <2>4, <2>5, <2>6, <2>7, <2>8, <2>9
<1>17. CASE CancelScope
  <2>3. CountsOK'
    BY <1>17 DEF CancelScope, CountsOK
  <2>4. EventsOK'
    BY <1>17 DEF CancelScope, EventsOK
  <2>5. ControlOK'
    BY <1>17
    DEF CancelScope, ControlOK, PumpStates
  <2>6. NothingReadIsLost'
    BY <1>17
    DEF CancelScope, NothingReadIsLost
  <2>7. TheEndIsTheEnd'
    BY <1>17
    DEF CancelScope, TheEndIsTheEnd, WhoLetTheMasterGo, HungUp, CountsOK
  <2>8. PauseIsTheEvent'
    BY <1>17 DEF CancelScope, PauseIsTheEvent, HandsOver
  <2>9. WhoLetTheMasterGo' /\ FocusedHoldsNothing'
    BY <1>17
    DEF CancelScope, WhoLetTheMasterGo, TheEndIsTheEnd, FocusedHoldsNothing
  <2> QED
    BY <2>3, <2>4, <2>5, <2>6, <2>7, <2>8, <2>9
<1>18. CASE PumpRaises
  <2>1. \/ pump = "woken" /\ HandsOver /\ ReadPage
        \/ pump = "held" /\ got' = got /\ closed' = closed
    BY <1>18 DEF PumpRaises
  <2>2. got' \in got..wrote /\ closed' \in BOOLEAN
    <3>1. CASE ReadPage
      BY <3>1, <1>0, ReadPageOutcome, ReadPageStaysInBounds
    <3>2. CASE got' = got /\ closed' = closed
      BY <3>2, <1>0, BoundsAssumption DEF CountsOK
    <3> QED
      BY <2>1, <3>1, <3>2
  <2>3. CountsOK'
    <3>1. fed' \in 0..got'
      BY <1>18, <2>2, BoundsAssumption DEF PumpRaises, CountsOK
    <3>2. got' \in 0..wrote /\ wrote' = wrote
      BY <1>18, <2>2, BoundsAssumption DEF PumpRaises, CountsOK
    <3> QED
      BY <3>1, <3>2 DEF CountsOK
  <2>4. EventsOK'
    BY <1>18 DEF PumpRaises, EventsOK
  <2>5. ControlOK'
    BY <1>18, <2>2 DEF PumpRaises, ControlOK, PumpStates
  <2>6. NothingReadIsLost'
    BY <1>18 DEF PumpRaises, NothingReadIsLost
  <2>7. TheEndIsTheEnd'
    <3>1. closed' => tornDown \/ (got' = wrote /\ HungUp)
      BY <2>1, ReadPageOutcome DEF WhoLetTheMasterGo, TheEndIsTheEnd
    <3> QED
      BY <1>18, <3>1, <1>0 DEF PumpRaises, TheEndIsTheEnd, HungUp, ControlOK
  <2>8. PauseIsTheEvent'
    BY <1>18 DEF PumpRaises, PauseIsTheEvent, HandsOver
  <2>9. WhoLetTheMasterGo' /\ FocusedHoldsNothing'
    <3>1. ~master => tornDown \/ closed'
      BY <2>1, ReadPageOutcome DEF WhoLetTheMasterGo
    <3> QED
      BY <1>18, <2>2, <3>1
      DEF PumpRaises, WhoLetTheMasterGo, FocusedHoldsNothing, ControlOK
  <2> QED
    BY <2>3, <2>4, <2>5, <2>6, <2>7, <2>8, <2>9
<1>19. CASE PumpFails
  <2>3. CountsOK'
    BY <1>19 DEF PumpFails, CountsOK
  <2>4. EventsOK'
    BY <1>19 DEF PumpFails, EventsOK
  <2>5. ControlOK'
    BY <1>19 DEF PumpFails, ControlOK, PumpStates
  <2>6. NothingReadIsLost'
    BY <1>19 DEF PumpFails, NothingReadIsLost
  <2>7. TheEndIsTheEnd'
    BY <1>19 DEF PumpFails, TheEndIsTheEnd, HungUp
  <2>8. PauseIsTheEvent'
    BY <1>19 DEF PumpFails, PauseIsTheEvent, HandsOver
  <2>9. WhoLetTheMasterGo' /\ FocusedHoldsNothing'
    BY <1>19 DEF PumpFails, WhoLetTheMasterGo, FocusedHoldsNothing
  <2> QED
    BY <2>3, <2>4, <2>5, <2>6, <2>7, <2>8, <2>9
<1>20. CASE Upgrade
  <2>1. pump \notin {"unstarted", "held", "raised", "done"} /\ master
    BY <1>20 DEF Upgrade, MayUpgrade
  <2>2. /\ suspended => reading' = 1
        /\ ~suspended => reading' = 0
        /\ setEvents' = {0} /\ pumpEvent' = 0
    BY <1>20 DEF Upgrade, AfterThaw
  <2>3. CountsOK'
    BY <1>20 DEF Upgrade, CountsOK
  <2>4. EventsOK'
    <3>1. reading' \in {0, 1}
      BY <2>2
    <3> QED
      BY <2>2, <3>1, BoundsAssumption DEF EventsOK
  <2>5. ControlOK'
    BY <1>20 DEF Upgrade, ControlOK, PumpStates
  <2>6. NothingReadIsLost'
    BY <1>20, <2>1 DEF Upgrade, NothingReadIsLost
  <2>7. TheEndIsTheEnd'
    BY <1>20, <2>1 DEF Upgrade, TheEndIsTheEnd
  <2>8. PauseIsTheEvent'
    BY <1>20, <2>2 DEF Upgrade, ControlOK, PauseIsTheEvent, HandsOver
  <2>9. WhoLetTheMasterGo' /\ FocusedHoldsNothing'
    BY <1>20, <2>1 DEF Upgrade, WhoLetTheMasterGo, FocusedHoldsNothing
  <2> QED
    BY <2>3, <2>4, <2>5, <2>6, <2>7, <2>8, <2>9
<1>21. CASE UNCHANGED vars
  BY <1>21, ZenonT(30) DEF vars, CountsOK, EventsOK, ControlOK,
     NothingReadIsLost, TheEndIsTheEnd, PauseIsTheEvent, WhoLetTheMasterGo,
     FocusedHoldsNothing, HandsOver, HungUp
<1> QED
  BY <1>1, <1>2, <1>3, <1>4, <1>5, <1>6, <1>7, <1>8, <1>9, <1>10, <1>11,
     <1>12, <1>13, <1>14, <1>15, <1>16, <1>17, <1>18, <1>19, <1>20, <1>21
  DEF Next, PumpStep

\* IInv is an invariant of the output side.
THEOREM Inductive == Spec => []IInv
  BY InitIInv, NextIInv, PTL DEF Spec

-----------------------------------------------------------------------------

\* Every variable keeps its type: in particular no byte is drawn before it
\* is read, nor read before it is written.
THEOREM TypeCorrect == Spec => []TypeOK
<1>1. IInv => TypeOK
  BY DEF IInv
<1> QED
  BY Inductive, <1>1, PTL

\* A pump that ends by itself has drawn everything the program wrote.
THEOREM PumpEndsDrained == Spec => []EndsDrained
<1>1. IInv => EndsDrained
  BY DEF IInv, TypeOK, ControlOK, NothingReadIsLost, TheEndIsTheEnd,
         WhoLetTheMasterGo, EndsDrained
<1> QED
  BY Inductive, <1>1, PTL

\* When nothing is said to wait, everything the program wrote is drawn.
THEOREM WaitingIsTruthful == Spec => []OutputIsWaitingTruthful
<1>1. IInv => OutputIsWaitingTruthful
  BY DEF IInv, TypeOK, CountsOK, NothingReadIsLost, WhoLetTheMasterGo,
         OutputIsWaitingTruthful, OutputIsWaiting, Readable
<1> QED
  BY Inductive, <1>1, PTL

\* A resume lets go whatever pump copy mode parked.
LEMMA ResumeStep ==
  ASSUME IInv, NoResumeIsLost, [Next]_vars
  PROVE  NoResumeIsLost'
<1> USE DEF IInv, TypeOK, ControlOK, PauseIsTheEvent, HandsOver, NoResumeIsLost
\* Around the loop it parks on the event of this moment.
<1>0. ASSUME NEW over \in BOOLEAN, LoopHead(over),
             UNCHANGED <<reading, setEvents, suspended>>
      PROVE  NoResumeIsLost'
  BY <1>0, LoopHeadOutcome
<1>1. CASE PumpBegins \/ PumpTurnsBack \/ PumpFeeds
  BY <1>0, <1>1 DEF PumpBegins, PumpTurnsBack, PumpFeeds
<1>2. CASE PumpReadsAndFeeds
  <2>1. closed' \in BOOLEAN
    BY <1>2 DEF PumpReadsAndFeeds, ReadPage
  <2> QED BY <1>0, <1>2, <2>1 DEF PumpReadsAndFeeds
<1>3. CASE PumpPasses \/ PumpWakes \/ PumpLosesMaster \/ PumpReadsAndHolds
  BY <1>3 DEF PumpPasses, PumpWakes, PumpLosesMaster, PumpReadsAndHolds, LetGo
<1>4. CASE PumpCancelled \/ PumpRaises \/ PumpFails \/ Start \/ Upgrade
  BY <1>4 DEF PumpCancelled, PumpRaises, PumpFails, Start, Upgrade, LetGo
<1>5. CASE Suspend \/ Resume
  BY <1>5 DEF Suspend, NotYetSuspended, Resume
<1>6. CASE ProgramWrites \/ ProgramLetsGo \/ ReapLetsSlaveGo \/ Teardown
           \/ CancelScope
  BY <1>6 DEF ProgramWrites, ProgramLetsGo, ReapLetsSlaveGo, Teardown,
              CancelScope
<1>7. CASE UNCHANGED vars
  BY <1>7 DEF vars
<1> QED BY <1>1, <1>2, <1>3, <1>4, <1>5, <1>6, <1>7 DEF Next, PumpStep

\* pause_reading: no resume is lost on the pump, however often it was paused.
THEOREM ResumeReachesThePump == Spec => []NoResumeIsLost
<1>1. Init => NoResumeIsLost
  BY DEF Init, NoResumeIsLost
<1> QED BY <1>1, Inductive, ResumeStep, PTL DEF Spec

\* _pump: what the program wrote and nobody has drawn is on its way, unless
\* the pty was let go before its end.
THEOREM UndrawnIsOnItsWay == Spec => []UndrawnIsNotForgotten
<1>1. IInv /\ NoResumeIsLost => UndrawnIsNotForgotten
  <2> SUFFICES ASSUME IInv, NoResumeIsLost,
                      pump # "unstarted", ~suspended, fed # wrote
               PROVE  UndrawnIsNotForgotten
    BY DEF UndrawnIsNotForgotten
  <2>1. CASE pump = "parked"
    BY <2>1 DEF NoResumeIsLost, UndrawnIsNotForgotten
  <2>2. CASE pump = "polling"
    <3>1. fed = got
      BY <2>2 DEF IInv, NothingReadIsLost
    <3>2. wrote > got
      BY <3>1, BoundsAssumption DEF IInv, TypeOK, CountsOK
    <3> QED BY <2>2, <3>2 DEF UndrawnIsNotForgotten, Readable
  <2>3. CASE pump = "done"
    BY <2>3 DEF IInv, TypeOK, ControlOK, NothingReadIsLost, TheEndIsTheEnd,
                WhoLetTheMasterGo, UndrawnIsNotForgotten
  <2>4. CASE pump \notin {"parked", "polling", "done"}
    BY <2>4 DEF IInv, TypeOK, ControlOK, PumpStates, UndrawnIsNotForgotten
  <2> QED BY <2>1, <2>2, <2>3, <2>4
<1> QED BY <1>1, Inductive, ResumeReachesThePump, PTL

\* No step reads a byte from the pty during a pause.
THEOREM PausedReadsNothing == Spec => ReadsOnlyWhileHandingOver
<1>1. IInv /\ [Next]_vars => [got' # got => ~suspended]_vars
  <2> SUFFICES ASSUME IInv, Next, got' # got PROVE ~suspended
    BY DEF vars
  <2>1. HandsOver
    BY DEF Next, PumpStep, PumpBegins, PumpPasses, PumpWakes,
           PumpLosesMaster, PumpTurnsBack, PumpReadsAndFeeds,
           PumpReadsAndHolds, PumpFeeds, PumpCancelled, PumpRaises,
           PumpFails, Upgrade, Suspend, Resume, Start, ProgramWrites,
           ProgramLetsGo, ReapLetsSlaveGo, Teardown, CancelScope
  <2> QED
    BY <2>1 DEF IInv, PauseIsTheEvent
<1> QED
  BY Inductive, <1>1, PTL DEF Spec, ReadsOnlyWhileHandingOver

\* A pause draws at most the page that was read before it and held for a turn.
THEOREM PauseDrawsOneHeldPage == Spec => PauseDrawsOnlyTheHeldPage
<1>1. IInv /\ [Next]_vars =>
        [fed' # fed => ~suspended \/ (pump = "held" /\ got' = got)]_vars
  <2> SUFFICES ASSUME IInv, Next, fed' # fed
               PROVE  ~suspended \/ (pump = "held" /\ got' = got)
    BY DEF vars
  <2>1. HandsOver \/ (pump = "held" /\ got' = got)
    BY DEF Next, PumpStep, PumpBegins, PumpPasses, PumpWakes,
           PumpLosesMaster, PumpTurnsBack, PumpReadsAndFeeds,
           PumpReadsAndHolds, PumpFeeds, PumpCancelled, PumpRaises,
           PumpFails, Upgrade, Suspend, Resume, Start, ProgramWrites,
           ProgramLetsGo, ReapLetsSlaveGo, Teardown, CancelScope
  <2> QED
    BY <2>1 DEF IInv, PauseIsTheEvent
<1> QED
  BY Inductive, <1>1, PTL DEF Spec, PauseDrawsOnlyTheHeldPage

\* For a program that always has the focus, no step draws during a pause.
THEOREM FocusedScreenIsStill ==
  FALSE \notin Priorities => (Spec => SuspendedScreenIsStill)
<1> SUFFICES ASSUME FALSE \notin Priorities
             PROVE  Spec => SuspendedScreenIsStill
  OBVIOUS
<1>1. IInv /\ [Next]_vars => [fed' # fed => ~suspended]_vars
  <2> SUFFICES ASSUME IInv, Next, fed' # fed PROVE ~suspended
    BY DEF vars
  <2>1. HandsOver \/ pump = "held"
    BY DEF Next, PumpStep, PumpBegins, PumpPasses, PumpWakes,
           PumpLosesMaster, PumpTurnsBack, PumpReadsAndFeeds,
           PumpReadsAndHolds, PumpFeeds, PumpCancelled, PumpRaises,
           PumpFails, Upgrade, Suspend, Resume, Start, ProgramWrites,
           ProgramLetsGo, ReapLetsSlaveGo, Teardown, CancelScope
  <2> QED
    BY <2>1 DEF IInv, PauseIsTheEvent, FocusedHoldsNothing
<1> QED
  BY Inductive, <1>1, PTL DEF Spec, SuspendedScreenIsStill

-----------------------------------------------------------------------------
(* The output side implements BackendOutput.                               *)

Status == IF tornDown THEN "abandoned" ELSE IF closed THEN "over" ELSE "live"

\* What a step that neither writes, reads nor pauses may do to the status.
LEMMA QuietStep ==
  ASSUME wrote' = wrote, got' = got, suspended' = suspended,
         closed' = closed, tornDown' = tornDown
  PROVE  UNCHANGED Contract!backendVars
  BY DEF Contract!backendVars

\* A read is a Hand, a Finish or, of a pty that was torn down, a stutter.
LEMMA ReadRefines ==
  ASSUME IInv, ReadPage, pump = "woken", HandsOver,
         wrote' = wrote, suspended' = suspended, tornDown' = tornDown
  PROVE  [Contract!BackendNext]_Contract!backendVars
<1> USE DEF IInv, TypeOK
<1>1. ~suspended /\ ~closed
  BY DEF PauseIsTheEvent, TheEndIsTheEnd
<1>2. CASE master /\ closed' = closed /\ got' \in (got + 1)..wrote
  <2>1. ~tornDown /\ Status = "live" /\ Status' = "live"
    BY <1>1, <1>2 DEF WhoLetTheMasterGo, Status
  <2>2. Contract!Hand
    BY <1>1, <1>2, <2>1 DEF Contract!Hand, Status
  <2> QED
    BY <2>2 DEF Contract!BackendNext
<1>3. CASE closed' = TRUE /\ got' = got /\ ~tornDown
  <2>1. got = wrote
    BY <1>1, <1>3, ReadPageOutcome DEF WhoLetTheMasterGo
  <2>2. Contract!Finish
    BY <1>1, <1>3, <2>1 DEF Contract!Finish
  <2> QED
    BY <2>2 DEF Contract!BackendNext
<1>4. CASE closed' = TRUE /\ got' = got /\ tornDown
  BY <1>4 DEF Contract!backendVars
<1> QED
  BY <1>2, <1>3, <1>4, ReadPageOutcome

LEMMA StepRefines ==
  IInv /\ [Next]_vars => [Contract!BackendNext]_Contract!backendVars
<1> SUFFICES ASSUME IInv, [Next]_vars
             PROVE  [Contract!BackendNext]_Contract!backendVars
  OBVIOUS
<1> USE DEF IInv, TypeOK
<1>1. CASE \/ PumpBegins \/ PumpPasses \/ PumpWakes \/ PumpLosesMaster
           \/ PumpTurnsBack \/ PumpFeeds \/ PumpFails \/ Upgrade \/ Start
           \/ ProgramLetsGo \/ ReapLetsSlaveGo \/ CancelScope \/ UNCHANGED vars
  BY <1>1, QuietStep
  DEF PumpBegins, PumpPasses, PumpWakes, PumpLosesMaster, PumpTurnsBack,
      PumpFeeds, PumpFails, Upgrade, Start, ProgramLetsGo, ReapLetsSlaveGo,
      CancelScope, vars
<1>2. CASE PumpReadsAndFeeds \/ PumpReadsAndHolds
  BY <1>2, ReadRefines DEF PumpReadsAndFeeds, PumpReadsAndHolds
<1>3. CASE PumpCancelled \/ Teardown
  <2>1. CASE tornDown' = tornDown
    BY <1>3, <2>1, QuietStep DEF PumpCancelled, Teardown
  <2>2. CASE tornDown' # tornDown
    <3>1. ~tornDown /\ ~closed /\ tornDown'
      BY <1>3, <2>2 DEF PumpCancelled, Teardown, ControlOK
    <3>2. got' = got /\ got \in got..wrote
      BY <1>3, BoundsAssumption DEF PumpCancelled, Teardown, CountsOK
    <3>3. Contract!Abandon
      BY <1>3, <3>1, <3>2 DEF PumpCancelled, Teardown, Contract!Abandon
    <3> QED
      BY <3>3 DEF Contract!BackendNext
  <2> QED
    BY <2>1, <2>2
<1>7. CASE PumpRaises
  <2>1. wrote' = wrote /\ suspended' = suspended
    BY <1>7 DEF PumpRaises
  <2>2. CASE tornDown' = tornDown
    <3>1. CASE pump = "woken" /\ HandsOver /\ ReadPage
      BY <2>1, <2>2, <3>1, ReadRefines
    <3>2. CASE got' = got /\ closed' = closed
      BY <2>1, <2>2, <3>2, QuietStep
    <3> QED
      BY <1>7, <3>1, <3>2 DEF PumpRaises
  <2>3. CASE tornDown' # tornDown
    <3>1. ~tornDown /\ master /\ ~closed' /\ tornDown'
      BY <1>7, <2>3 DEF PumpRaises, ControlOK
    <3>2. ~closed /\ got' \in got..wrote /\ (got' # got => ~suspended)
      <4>1. CASE pump = "woken" /\ HandsOver /\ ReadPage
        BY <4>1, ReadPageStaysInBounds DEF PauseIsTheEvent, TheEndIsTheEnd
      <4>2. CASE got' = got /\ closed' = closed
        BY <3>1, <4>2, BoundsAssumption DEF CountsOK
      <4> QED
        BY <1>7, <4>1, <4>2 DEF PumpRaises
    <3>3. Contract!Abandon
      BY <2>1, <3>1, <3>2 DEF Contract!Abandon
    <3> QED
      BY <3>3 DEF Contract!BackendNext
  <2> QED
    BY <2>2, <2>3
<1>4. CASE Suspend
  <2>1. Contract!Pause
    BY <1>4 DEF Suspend, NotYetSuspended, Contract!Pause
  <2> QED
    BY <2>1 DEF Contract!BackendNext
<1>5. CASE Resume
  <2>1. Contract!Continue
    BY <1>5 DEF Resume, Contract!Continue
  <2> QED
    BY <2>1 DEF Contract!BackendNext
<1>6. CASE ProgramWrites
  <2>1. ~tornDown /\ ~closed
    BY <1>6 DEF ProgramWrites, WhoLetTheMasterGo, TheEndIsTheEnd, HungUp
  <2>2. wrote' \in Nat /\ wrote' > wrote
    BY <1>6, BoundsAssumption DEF ProgramWrites, CountsOK
  <2>3. Contract!Send
    BY <1>6, <2>1, <2>2 DEF ProgramWrites, Contract!Send
  <2> QED
    BY <2>3 DEF Contract!BackendNext
<1> QED
  BY <1>1, <1>2, <1>3, <1>4, <1>5, <1>6, <1>7 DEF Next, PumpStep

\* PosixBackend's output side, with Process reading it, keeps the promise
\* that every backend makes.
THEOREM Refinement == Spec => ImplementsBackendOutput
<1>1. Init => Contract!BackendInit
  BY BoundsAssumption DEF Init, Contract!BackendInit
<1> QED
  BY Inductive, <1>1, StepRefines, PTL
  DEF Spec, ImplementsBackendOutput, Contract!BackendSpec
=============================================================================
