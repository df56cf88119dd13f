------------------------- MODULE PosixBackendProofs -------------------------
(***************************************************************************)
(* The two components together, for every bound of either: each does here  *)
(* what it does alone, so the invariants proved of each alone hold of the  *)
(* two together, and is_terminated follows from them.  No step is looked   *)
(* at again but for what it leaves alone of what the two share.            *)
(***************************************************************************)
EXTENDS PosixBackend, TLAPS

\* The components with their theorems.
OutputP == INSTANCE PtyOutputProofs
LifeP == INSTANCE LifecycleProofs

-----------------------------------------------------------------------------
(* Each component does here what it does alone.                            *)

\* What the life of a program does without the output side it leaves alone.
LEMMA LifeAloneLeavesShared ==
  ASSUME LifeAlone
  PROVE  UNCHANGED sharedVars
<1>1. CASE Life!Kill \/ Life!HangUp \/ Life!KillAfterGrace
  BY <1>1 DEF Life!Kill, Life!HangUp, Life!KillAfterGrace, Life!reaperVars,
              sharedVars
<1>2. CASE Life!StartFails \/ Life!ThreadStep \/ Life!WatcherTells
  BY <1>2 DEF Life!StartFails, Life!ThreadStep, Life!ThreadReaps,
              Life!ThreadStores, Life!WatcherTells, Life!reaperVars,
              sharedVars
<1>3. CASE Life!ParentReaps \/ Life!PidIsReused
  BY <1>3 DEF Life!ParentReaps, Life!PidIsReused, Life!reaperVars,
              sharedVars
<1> QED
  BY <1>1, <1>2, <1>3 DEF LifeAlone

\* ... and the output side the other way round.
LEMMA OutputAloneLeavesShared ==
  ASSUME OutputAlone
  PROVE  UNCHANGED sharedVars
BY DEF OutputAlone, Output!Suspend, Output!Resume, Output!Teardown,
       Output!ProgramWrites, Output!ProgramLetsGo, sharedVars

LEMMA OutputSteps ==
  ASSUME [Next]_vars
  PROVE  [Output!Next]_(Output!vars)
<1> DEFINE Quiet == UNCHANGED <<outputVars, sharedVars>>
<1>0. Quiet => UNCHANGED Output!vars
  BY DEF outputVars, sharedVars, Output!vars
<1>1. CASE Start \/ CancelScope \/ Upgrade
  BY <1>1 DEF Start, CancelScope, Upgrade, Output!Next
<1>2. CASE PumpFails
  BY <1>2 DEF PumpFails, Output!Next
<1>3. CASE Pump
  BY <1>3 DEF Pump, Output!Next
<1>4. CASE Reap
  BY <1>0, <1>4 DEF Reap, Output!Next
<1>5. CASE ProgramDies
  BY <1>0, <1>5 DEF ProgramDies, Output!Next
<1>6. CASE OutputAlone
  BY <1>6 DEF OutputAlone, Output!Next
<1>7. CASE LifeAlone
  BY <1>0, <1>7, LifeAloneLeavesShared DEF LifeAlone
<1>8. CASE UNCHANGED vars
  BY <1>0, <1>8 DEF vars
<1> QED
  BY <1>1, <1>2, <1>3, <1>4, <1>5, <1>6, <1>7, <1>8 DEF Next

LEMMA LifeSteps ==
  ASSUME [Next]_vars
  PROVE  [Life!Next]_(Life!vars)
<1> DEFINE Quiet == UNCHANGED <<lifeVars, sharedVars>>
<1>0. Quiet => UNCHANGED Life!vars
  BY DEF lifeVars, sharedVars, Life!vars
<1>1. CASE Start \/ CancelScope \/ Upgrade
  BY <1>1 DEF Start, CancelScope, Upgrade, Life!Next
<1>2. CASE PumpFails
  BY <1>0, <1>2 DEF PumpFails, Life!Next
<1>3. CASE Pump
  BY <1>0, <1>3 DEF Pump, Life!Next
<1>4. CASE Reap
  BY <1>4 DEF Reap, Life!Next
<1>5. CASE ProgramDies
  BY <1>5 DEF ProgramDies, Life!Next
<1>6. CASE OutputAlone
  BY <1>0, <1>6, OutputAloneLeavesShared DEF OutputAlone
<1>7. CASE LifeAlone
  BY <1>7 DEF LifeAlone, Life!Next
<1>8. CASE UNCHANGED vars
  BY <1>0, <1>8 DEF vars
<1> QED
  BY <1>1, <1>2, <1>3, <1>4, <1>5, <1>6, <1>7, <1>8 DEF Next

\* PosixBackend: the pump and the reaper, each in the company of the other,
\* is what it is alone.
THEOREM ComponentsAreImplemented == Spec => ImplementsComponents
<1>1. Init => Output!Init /\ Life!Init
  BY DEF Init
<1>2. [Next]_vars => [Output!Next]_(Output!vars) /\ [Life!Next]_(Life!vars)
  BY OutputSteps, LifeSteps
<1> QED
  BY <1>1, <1>2, PTL DEF Spec, ImplementsComponents, Output!Spec, Life!Spec

-----------------------------------------------------------------------------
(* What is proved of each alone.                                           *)

\* The proofs, instantiated, are about the same steps.
LEMMA SameOutput ==
  /\ Output!Init <=> OutputP!Init
  /\ Output!Next <=> OutputP!Next
  /\ UNCHANGED Output!vars <=> UNCHANGED OutputP!vars
BY DEF Output!Next, Output!PumpStep, Output!PumpBegins, Output!LoopHead,
       Output!LetGo, Output!PumpPasses, Output!PumpWakes, Output!Readable,
       Output!HungUp, Output!PumpLosesMaster, Output!WokenByClose,
       Output!PumpTurnsBack, Output!HandsOver, Output!PumpReadsAndFeeds,
       Output!ReadPage, Output!ReadEnds, Output!PumpReadsAndHolds,
       Output!PumpFeeds, Output!PumpCancelled, Output!PumpRaises,
       Output!PumpFails, Output!Upgrade, Output!MayUpgrade, Output!AfterThaw,
       Output!Suspend, Output!NotYetSuspended, Output!Resume, Output!Start,
       Output!ProgramWrites, Output!ProgramLetsGo, Output!ReapLetsSlaveGo,
       Output!Teardown, Output!CancelScope, Output!vars, Output!Init,
       Output!Fresh, Output!Adopted, OutputP!Next, OutputP!PumpStep,
       OutputP!PumpBegins, OutputP!LoopHead, OutputP!LetGo,
       OutputP!PumpPasses, OutputP!PumpWakes, OutputP!Readable,
       OutputP!HungUp, OutputP!PumpLosesMaster, OutputP!WokenByClose,
       OutputP!PumpTurnsBack, OutputP!HandsOver, OutputP!PumpReadsAndFeeds,
       OutputP!ReadPage, OutputP!ReadEnds, OutputP!PumpReadsAndHolds,
       OutputP!PumpFeeds, OutputP!PumpCancelled, OutputP!PumpRaises,
       OutputP!PumpFails, OutputP!Upgrade, OutputP!MayUpgrade,
       OutputP!AfterThaw, OutputP!Suspend, OutputP!NotYetSuspended,
       OutputP!Resume, OutputP!Start, OutputP!ProgramWrites,
       OutputP!ProgramLetsGo, OutputP!ReapLetsSlaveGo, OutputP!Teardown,
       OutputP!CancelScope, OutputP!vars, OutputP!Init, OutputP!Fresh,
       OutputP!Adopted

LEMMA SameLife ==
  /\ Life!Init <=> LifeP!Init
  /\ Life!Next <=> LifeP!Next
  /\ UNCHANGED Life!vars <=> UNCHANGED LifeP!vars
BY DEF Life!Next, Life!Kill, Life!SendSignal, Life!Reaped, Life!Deliver,
       Life!reaperVars, Life!HangUp, Life!KillAfterGrace, Life!Start,
       Life!Supervise, Life!StartFails, Life!programVars, Life!ReaperStep,
       Life!ReapBeginsPolling, Life!IsGone, Life!MarkTheEnd,
       Life!ReapBeginsWaiting, Life!ReapFindsEnded, Life!ReapSpawnsThread,
       Life!ReapWakes, Life!ReapReturns, Life!StrangerEnds,
       Life!ReapCancelled, Life!ThreadStep, Life!ThreadReaps,
       Life!ThreadStores, Life!WatcherTells, Life!CancelScope, Life!Upgrade,
       Life!AdoptAs, Life!KernelStep, Life!ProgramIsKilled, Life!Dies,
       Life!ProgramIsHungUp, Life!ProgramExits, Life!ParentReaps,
       Life!PidIsReused, Life!OutputDrains, Life!vars, Life!Init, Life!Ways,
       LifeP!Next, LifeP!Kill, LifeP!SendSignal, LifeP!Reaped, LifeP!Deliver,
       LifeP!reaperVars, LifeP!HangUp, LifeP!KillAfterGrace, LifeP!Start,
       LifeP!Supervise, LifeP!StartFails, LifeP!programVars,
       LifeP!ReaperStep, LifeP!ReapBeginsPolling, LifeP!IsGone,
       LifeP!MarkTheEnd, LifeP!ReapBeginsWaiting, LifeP!ReapFindsEnded,
       LifeP!ReapSpawnsThread, LifeP!ReapWakes, LifeP!ReapReturns,
       LifeP!StrangerEnds, LifeP!ReapCancelled, LifeP!ThreadStep,
       LifeP!ThreadReaps, LifeP!ThreadStores, LifeP!WatcherTells,
       LifeP!CancelScope, LifeP!Upgrade, LifeP!AdoptAs, LifeP!KernelStep,
       LifeP!ProgramIsKilled, LifeP!Dies, LifeP!ProgramIsHungUp,
       LifeP!ProgramExits, LifeP!ParentReaps, LifeP!PidIsReused,
       LifeP!OutputDrains, LifeP!vars, LifeP!Init, LifeP!Ways

\* Their invariants are invariants of the two together.
LEMMA ComponentsInductive ==
  /\ Init => OutputP!IInv /\ LifeP!Inductive
  /\ OutputP!IInv /\ LifeP!Inductive /\ [Next]_vars
       => OutputP!IInv' /\ LifeP!Inductive'
<1>1. /\ Page \in Nat \ {0}
      /\ MaxWrote \in Nat /\ MaxPauses \in Nat
      /\ Priorities \subseteq BOOLEAN
  BY OutputAssumption
<1>2. Kinds \subseteq LifeP!Kind /\ MaxHangUps \in Nat
  BY LifeAssumption DEF LifeP!Kind
<1>3. ASSUME Init PROVE OutputP!IInv /\ LifeP!Inductive
  <2>1. OutputP!Init /\ LifeP!Init
    BY <1>3, SameOutput, SameLife DEF Init
  <2>2. OutputP!IInv
    BY <1>1, <2>1, OutputP!InitIInv
  <2>3. LifeP!Inductive
    BY <1>2, <2>1, LifeP!InitInductive
  <2> QED BY <2>2, <2>3
<1>4. ASSUME OutputP!IInv, LifeP!Inductive, [Next]_vars
      PROVE  OutputP!IInv' /\ LifeP!Inductive'
  <2>1. [OutputP!Next]_(OutputP!vars)
    BY <1>4, OutputSteps, SameOutput
  <2>2. [LifeP!Next]_(LifeP!vars)
    BY <1>4, LifeSteps, SameLife
  <2>3. OutputP!IInv'
    BY <1>1, <1>4, <2>1, OutputP!NextIInv
  <2>4. LifeP!Inductive'
    BY <1>2, <1>4, <2>2, LifeP!NextInductive
  <2> QED BY <2>3, <2>4
<1> QED BY <1>3, <1>4

THEOREM InductiveInvariant == Spec => [](OutputP!IInv /\ LifeP!Inductive)
<1>1. Init => OutputP!IInv /\ LifeP!Inductive
  BY ComponentsInductive
<1>2. OutputP!IInv /\ LifeP!Inductive /\ [Next]_vars
        => (OutputP!IInv /\ LifeP!Inductive)'
  BY ComponentsInductive
<1> QED
  BY <1>1, <1>2, PTL DEF Spec

\* is_terminated: a read meets the end only when nobody has the slave side
\* open; this process lets its own go only in the reaper's `finally`; and in
\* a scope that is open that comes behind the waitpid.
THEOREM TerminatedIsTrue == Spec => []TerminatedMeansEnded
<1>1. ASSUME OutputP!IInv, LifeP!Inductive,
             closed, ~tornDown, kind = "fresh", scope = "open"
      PROVE  died # "no" /\ returncode # "None"
  <2>1. ~slave
    BY <1>1 DEF OutputP!IInv, OutputP!TheEndIsTheEnd, OutputP!HungUp
  <2>2. readyF /\ reap # "none" /\ watcher \in {"waiting", "told"}
    BY <1>1, <2>1
    DEF LifeP!Inductive, LifeP!EndOK, LifeP!TypeOK, LifeP!FlagsOK
  <2>3. returncode # "None"
    BY <1>1, <2>2 DEF LifeP!Inductive, LifeP!CodeOK
  <2>4. child \in {"free", "other"}
    BY <1>1, <2>3 DEF LifeP!Inductive, LifeP!CodeOK
  <2>5. died # "no"
    BY <1>1, <2>4 DEF LifeP!Inductive, LifeP!ChildOK
  <2> QED BY <2>3, <2>5
<1>2. OutputP!IInv /\ LifeP!Inductive => TerminatedMeansEnded
  BY <1>1 DEF TerminatedMeansEnded
<1> QED
  BY <1>2, InductiveInvariant, PTL

\* close and _reap: the pump's `finally` lets the master go and the reaper's
\* the slave side, and no program this process is the parent of outlives its
\* scope.  A stranger may: RaisedKillsTheProgram does not hold.
THEOREM BothEndedIsClean == Spec => []BothEndedLeavesNothing
<1>1. ASSUME OutputP!IInv, LifeP!Inductive,
             pump \in {"raised", "done"}, reap = "done"
      PROVE  /\ ~master /\ ~slave
             /\ kind # "stranger" => child # "running" \/ "KILL" \in pending
  <2>1. ~master
    BY <1>1 DEF OutputP!IInv, OutputP!WhoLetTheMasterGo
  <2>2. readyF /\ ~slave
    BY <1>1 DEF LifeP!Inductive, LifeP!EndOK
  <2>3. kind # "stranger" => child # "running" \/ "KILL" \in pending
    BY <1>1, <2>2 DEF LifeP!Inductive, LifeP!NoProgramOutlivesItsScope
  <2> QED BY <2>1, <2>2, <2>3
<1>2. OutputP!IInv /\ LifeP!Inductive => BothEndedLeavesNothing
  BY <1>1 DEF BothEndedLeavesNothing
<1> QED
  BY <1>2, InductiveInvariant, PTL

\* _pump and _reap together: whichever of the two ends came first, both are
\* behind the last byte and the program's own end.
THEOREM BothEndedIsComplete == Spec => []BothEndedIsTheWholeEnd
<1>1. ASSUME OutputP!IInv, LifeP!Inductive,
             pump = "done", reap = "done", scope = "open", ~tornDown
      PROVE  /\ fed = wrote /\ closed /\ ~slave /\ ~programHolds
             /\ kind = "fresh" => died # "no" /\ returncode = died
  <2>1. closed /\ fed = got
    BY <1>1 DEF OutputP!IInv, OutputP!WhoLetTheMasterGo,
                OutputP!NothingReadIsLost
  <2>2. got = wrote /\ ~slave /\ ~programHolds
    BY <1>1, <2>1 DEF OutputP!IInv, OutputP!TheEndIsTheEnd, OutputP!HungUp
  <2>3. ASSUME kind = "fresh" PROVE died # "no" /\ returncode = died
    <3>1. readyF /\ watcher \in {"waiting", "told"}
      BY <1>1 DEF LifeP!Inductive, LifeP!EndOK, LifeP!TypeOK, LifeP!FlagsOK
    <3>2. returncode # "None" /\ returncode = died /\ child \in {"free", "other"}
      BY <1>1, <2>3, <3>1 DEF LifeP!Inductive, LifeP!CodeOK
    <3> QED BY <1>1, <3>2 DEF LifeP!Inductive, LifeP!ChildOK
  <2> QED BY <2>1, <2>2, <2>3
<1>2. OutputP!IInv /\ LifeP!Inductive => BothEndedIsTheWholeEnd
  BY <1>1 DEF BothEndedIsTheWholeEnd
<1> QED
  BY <1>2, InductiveInvariant, PTL
=============================================================================
