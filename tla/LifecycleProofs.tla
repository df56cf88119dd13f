-------------------------- MODULE LifecycleProofs --------------------------
(***************************************************************************)
(* The life of a program, for every mix of kinds and any number of         *)
(* hang-ups: no program outlives its supervision, its returncode is how it *)
(* ended, and a signal strikes somebody else only where this process       *)
(* cannot know better.                                                     *)
(*                                                                         *)
(* What carries them is where the child is in each state of its reaper and *)
(* of the thread, so that a reaper which ends on the ordinary path has had *)
(* its child waited for.                                                   *)
(***************************************************************************)
EXTENDS Lifecycle, TLAPS

USE KindsAssumption, MaxHangUpsAssumption

\* When the end is marked, who is watched, and in which scope.
EndOK ==
  /\ readyF <=> reap = "done" \/ kind = "ended"
  /\ kind = "ended" => reap = "none"
  /\ scope = "cancelled" => reap # "none" /\ (readyF \/ watcher = "cancelled")
  /\ watcher = "told" => readyF
  /\ watcher # "none" <=> reap # "none"
  /\ reap # "none" => started
  /\ watcher = "cancelled" => scope = "cancelled"
  /\ slave <=> kind = "fresh" /\ ~readyF

\* What the program is to each kind of its backend, and what is on its way.
ChildOK ==
  /\ died = "no" <=> child \in {"unborn", "running"}
  /\ child = "unborn" => kind = "fresh" /\ reap = "none"
  /\ kind = "fresh" /\ reap = "none" => child = "unborn"
  /\ kind = "ended" => child \in {"free", "other"}
  /\ pending # {} => child = "running"

\* Where the thread is when the reaper is where it is.
ThreadOK ==
  /\ thread # "none" => /\ kind \in {"fresh", "adopted"}
                        /\ reap \in {"waiting", "resumed", "done"}
  /\ reap = "waiting" => thread # "none"
  /\ reap = "resumed" => \/ thread = "stored"
                         \/ kind = "stranger" /\ drained
  /\ reap \in {"spawning", "waiting"} => kind \in {"fresh", "adopted"}
  /\ reap = "polling" => kind = "stranger"
  /\ thread = "returned" => child \in {"free", "other"}
  /\ thread = "stored" => returncode # "None"

\* The code of a program is there once it was waited for; a fresh one whose
\* end is marked in an open scope was.
CodeOK ==
  /\ returncode # "None" => returncode = died /\ child \in {"free", "other"}
  /\ kind = "fresh" /\ readyF /\ watcher \in {"waiting", "told"}
       => returncode # "None"

\* A child whose pid is free is one that this process has just waited for, or
\* has not looked at.
GoneOK ==
  kind \in {"fresh", "adopted"} /\ child \in {"free", "other"}
    /\ returncode = "None" /\ ~readyF
  => \/ thread = "returned"
     \/ kind = "adopted" /\ reap \in {"none", "scheduled"}

Inductive ==
  TypeOK /\ EndOK /\ ChildOK /\ ThreadOK /\ CodeOK /\ GoneOK
    /\ NoProgramOutlivesItsScope

-----------------------------------------------------------------------------
(* Signals.                                                                *)

\* What sending a signal does: it reaches a program that runs and was not
\* waited for, or whoever has its pid then.
LEMMA SignalSent ==
  ASSUME TypeOK, NEW sig \in {"HUP", "KILL"}, SendSignal(sig)
  PROVE  /\ pending' \in SUBSET {"HUP", "KILL"} /\ struck' \in BOOLEAN
         /\ pending \subseteq pending'
         /\ pending' # pending => child = "running"
         /\ child = "running" /\ returncode = "None" /\ ~readyF => sig \in pending'
         /\ struck' # struck =>
              child = "other" /\ returncode = "None" /\ ~readyF
BY DEF TypeOK, ProgramOK, ReaperOK, FlagsOK, SendSignal, Deliver, Reaped,
       ChildStates

-----------------------------------------------------------------------------
(* The steps.                                                              *)

LEMMA InitInductive == Init => Inductive
<1> SUFFICES ASSUME Init PROVE Inductive
  OBVIOUS
<1>1. ProgramOK /\ ReaperOK
  BY DEF Init, ProgramOK, ReaperOK, Kind, ChildStates, Ways, ReapStates,
         ThreadStates
<1>2. readyF \in BOOLEAN /\ slave \in BOOLEAN
  BY Zenon DEF Init
<1>3. FlagsOK
  <2>1. 0 \in 0..MaxHangUps
    OBVIOUS
  <2> QED BY <1>2, <2>1, Zenon DEF Init, FlagsOK
<1>4. EndOK /\ ChildOK
  BY DEF Init, EndOK, ChildOK, Kind, Ways
<1>5. ThreadOK /\ CodeOK /\ GoneOK
  BY DEF Init, ThreadOK, CodeOK, GoneOK, Kind
<1>6. NoProgramOutlivesItsScope
  BY DEF Init, NoProgramOutlivesItsScope, Kind
<1> QED BY <1>1, <1>3, <1>4, <1>5, <1>6 DEF Inductive, TypeOK

\* Types, one part at a time.
LEMMA ProgramStep ==
  ASSUME Inductive, [Next]_vars
  PROVE  ProgramOK'
<1> USE DEF Inductive, TypeOK, ProgramOK, Kind, ChildStates, Ways
<1>1. CASE Kill
  BY <1>1, SignalSent DEF Kill, programVars, reaperVars
<1>2. CASE HangUp
  BY <1>2, SignalSent DEF HangUp, programVars, reaperVars
<1>3. CASE KillAfterGrace
  BY <1>3, SignalSent DEF KillAfterGrace, programVars, reaperVars
<1>4. CASE Start
  BY <1>4 DEF Start, Supervise, programVars, reaperVars
<1>5. CASE StartFails
  BY <1>5 DEF StartFails, programVars, reaperVars
<1>6. CASE ReapBeginsPolling
  BY <1>6 DEF ReapBeginsPolling, MarkTheEnd, IsGone, programVars, reaperVars
<1>7. CASE ReapBeginsWaiting
  BY <1>7 DEF ReapBeginsWaiting, programVars, reaperVars
<1>8. CASE ReapFindsEnded
  BY <1>8 DEF ReapFindsEnded, MarkTheEnd, programVars, reaperVars
<1>9. CASE ReapSpawnsThread
  BY <1>9 DEF ReapSpawnsThread, programVars, reaperVars
<1>10. CASE ReapWakes
  BY <1>10 DEF ReapWakes, programVars, reaperVars
<1>11. CASE ReapReturns
  BY <1>11 DEF ReapReturns, MarkTheEnd, programVars, reaperVars
<1>12. CASE StrangerEnds
  BY <1>12 DEF StrangerEnds, MarkTheEnd, IsGone, programVars, reaperVars
<1>13. CASE ReapCancelled
  BY <1>13, SignalSent DEF ReapCancelled, MarkTheEnd, programVars, reaperVars
<1>14. CASE ThreadReaps
  BY <1>14 DEF ThreadReaps, programVars, reaperVars
<1>15. CASE ThreadStores
  BY <1>15 DEF ThreadStores, programVars, reaperVars
<1>16. CASE WatcherTells
  BY <1>16 DEF WatcherTells, programVars, reaperVars
<1>17. CASE CancelScope
  BY <1>17 DEF CancelScope, programVars, reaperVars
<1>18. CASE Upgrade
  BY <1>18 DEF Upgrade, AdoptAs, programVars, reaperVars
<1>19. CASE ProgramIsKilled
  BY <1>19 DEF ProgramIsKilled, Dies, programVars, reaperVars
<1>20. CASE ProgramIsHungUp
  BY <1>20 DEF ProgramIsHungUp, Dies, programVars, reaperVars
<1>21. CASE ProgramExits
  BY <1>21 DEF ProgramExits, Dies, programVars, reaperVars
<1>22. CASE ParentReaps
  BY <1>22 DEF ParentReaps, programVars, reaperVars
<1>23. CASE PidIsReused
  BY <1>23 DEF PidIsReused, programVars, reaperVars
<1>24. CASE OutputDrains
  BY <1>24 DEF OutputDrains, programVars, reaperVars
<1>25. CASE UNCHANGED vars
  BY <1>25 DEF vars, programVars, reaperVars
<1> QED BY <1>1, <1>2, <1>3, <1>4, <1>5, <1>6, <1>7, <1>8, <1>9, <1>10, <1>11,
           <1>12, <1>13, <1>14, <1>15, <1>16, <1>17, <1>18, <1>19, <1>20,
           <1>21, <1>22, <1>23, <1>24, <1>25
   DEF Next, ReaperStep, ThreadStep, KernelStep

LEMMA ReaperOKStep ==
  ASSUME Inductive, [Next]_vars
  PROVE  ReaperOK'
<1> USE DEF Inductive, TypeOK, ProgramOK, ReaperOK, ReapStates, ThreadStates,
            Ways, ChildStates, ChildOK, ThreadOK, Kind
<1>1. CASE Kill
  BY <1>1, SignalSent DEF Kill, programVars, reaperVars
<1>2. CASE HangUp
  BY <1>2, SignalSent DEF HangUp, programVars, reaperVars
<1>3. CASE KillAfterGrace
  BY <1>3, SignalSent DEF KillAfterGrace, programVars, reaperVars
<1>4. CASE Start
  BY <1>4 DEF Start, Supervise, programVars, reaperVars
<1>5. CASE StartFails
  BY <1>5 DEF StartFails, programVars, reaperVars
<1>6. CASE ReapBeginsPolling
  BY <1>6 DEF ReapBeginsPolling, MarkTheEnd, IsGone, programVars, reaperVars
<1>7. CASE ReapBeginsWaiting
  BY <1>7 DEF ReapBeginsWaiting, programVars, reaperVars
<1>8. CASE ReapFindsEnded
  BY <1>8 DEF ReapFindsEnded, MarkTheEnd, programVars, reaperVars
<1>9. CASE ReapSpawnsThread
  BY <1>9 DEF ReapSpawnsThread, programVars, reaperVars
<1>10. CASE ReapWakes
  BY <1>10 DEF ReapWakes, programVars, reaperVars
<1>11. CASE ReapReturns
  BY <1>11 DEF ReapReturns, MarkTheEnd, programVars, reaperVars
<1>12. CASE StrangerEnds
  BY <1>12 DEF StrangerEnds, MarkTheEnd, IsGone, programVars, reaperVars
<1>13. CASE ReapCancelled
  BY <1>13, SignalSent DEF ReapCancelled, MarkTheEnd, programVars, reaperVars
<1>14. CASE ThreadReaps
  BY <1>14 DEF ThreadReaps, programVars, reaperVars
<1>15. CASE ThreadStores
  BY <1>15 DEF ThreadStores, programVars, reaperVars
<1>16. CASE WatcherTells
  BY <1>16 DEF WatcherTells, programVars, reaperVars
<1>17. CASE CancelScope
  BY <1>17 DEF CancelScope, programVars, reaperVars
<1>18. CASE Upgrade
  BY <1>18 DEF Upgrade, AdoptAs, programVars, reaperVars
<1>19. CASE ProgramIsKilled
  BY <1>19 DEF ProgramIsKilled, Dies, programVars, reaperVars
<1>20. CASE ProgramIsHungUp
  BY <1>20 DEF ProgramIsHungUp, Dies, programVars, reaperVars
<1>21. CASE ProgramExits
  BY <1>21 DEF ProgramExits, Dies, programVars, reaperVars
<1>22. CASE ParentReaps
  BY <1>22 DEF ParentReaps, programVars, reaperVars
<1>23. CASE PidIsReused
  BY <1>23 DEF PidIsReused, programVars, reaperVars
<1>24. CASE OutputDrains
  BY <1>24 DEF OutputDrains, programVars, reaperVars
<1>25. CASE UNCHANGED vars
  BY <1>25 DEF vars, programVars, reaperVars
<1> QED BY <1>1, <1>2, <1>3, <1>4, <1>5, <1>6, <1>7, <1>8, <1>9, <1>10, <1>11,
           <1>12, <1>13, <1>14, <1>15, <1>16, <1>17, <1>18, <1>19, <1>20,
           <1>21, <1>22, <1>23, <1>24, <1>25
   DEF Next, ReaperStep, ThreadStep, KernelStep

LEMMA FlagsStep ==
  ASSUME Inductive, [Next]_vars
  PROVE  FlagsOK'
<1> USE DEF Inductive, TypeOK, FlagsOK
<1>1. CASE Kill
  BY <1>1, SignalSent DEF Kill, programVars, reaperVars
<1>2. CASE HangUp
  BY <1>2, SignalSent DEF HangUp, programVars, reaperVars
<1>3. CASE KillAfterGrace
  BY <1>3, SignalSent DEF KillAfterGrace, programVars, reaperVars
<1>4. CASE Start
  BY <1>4 DEF Start, Supervise, programVars, reaperVars
<1>5. CASE StartFails
  BY <1>5 DEF StartFails, programVars, reaperVars
<1>6. CASE ReapBeginsPolling
  BY <1>6 DEF ReapBeginsPolling, MarkTheEnd, IsGone, programVars, reaperVars
<1>7. CASE ReapBeginsWaiting
  BY <1>7 DEF ReapBeginsWaiting, programVars, reaperVars
<1>8. CASE ReapFindsEnded
  BY <1>8 DEF ReapFindsEnded, MarkTheEnd, programVars, reaperVars
<1>9. CASE ReapSpawnsThread
  BY <1>9 DEF ReapSpawnsThread, programVars, reaperVars
<1>10. CASE ReapWakes
  BY <1>10 DEF ReapWakes, programVars, reaperVars
<1>11. CASE ReapReturns
  BY <1>11 DEF ReapReturns, MarkTheEnd, programVars, reaperVars
<1>12. CASE StrangerEnds
  BY <1>12 DEF StrangerEnds, MarkTheEnd, IsGone, programVars, reaperVars
<1>13. CASE ReapCancelled
  BY <1>13, SignalSent DEF ReapCancelled, MarkTheEnd, programVars, reaperVars
<1>14. CASE ThreadReaps
  BY <1>14 DEF ThreadReaps, programVars, reaperVars
<1>15. CASE ThreadStores
  BY <1>15 DEF ThreadStores, programVars, reaperVars
<1>16. CASE WatcherTells
  BY <1>16 DEF WatcherTells, programVars, reaperVars
<1>17. CASE CancelScope
  BY <1>17 DEF CancelScope, programVars, reaperVars
<1>18. CASE Upgrade
  <2>1. 0 \in 0..MaxHangUps
    OBVIOUS
  <2> QED BY <1>18, <2>1, Zenon DEF Upgrade, programVars
<1>19. CASE ProgramIsKilled
  BY <1>19 DEF ProgramIsKilled, Dies, programVars, reaperVars
<1>20. CASE ProgramIsHungUp
  BY <1>20 DEF ProgramIsHungUp, Dies, programVars, reaperVars
<1>21. CASE ProgramExits
  BY <1>21 DEF ProgramExits, Dies, programVars, reaperVars
<1>22. CASE ParentReaps
  BY <1>22 DEF ParentReaps, programVars, reaperVars
<1>23. CASE PidIsReused
  BY <1>23 DEF PidIsReused, programVars, reaperVars
<1>24. CASE OutputDrains
  BY <1>24 DEF OutputDrains, programVars, reaperVars
<1>25. CASE UNCHANGED vars
  BY <1>25 DEF vars, programVars, reaperVars
<1> QED BY <1>1, <1>2, <1>3, <1>4, <1>5, <1>6, <1>7, <1>8, <1>9, <1>10, <1>11,
           <1>12, <1>13, <1>14, <1>15, <1>16, <1>17, <1>18, <1>19, <1>20,
           <1>21, <1>22, <1>23, <1>24, <1>25
   DEF Next, ReaperStep, ThreadStep, KernelStep

\* The end is marked once, and whoever is told of it is told after.
LEMMA EndStep ==
  ASSUME Inductive, [Next]_vars
  PROVE  EndOK'
<1> USE DEF Inductive, EndOK, TypeOK, FlagsOK
<1>1. CASE Kill
  BY <1>1, SignalSent DEF Kill, programVars, reaperVars
<1>2. CASE HangUp
  BY <1>2, SignalSent DEF HangUp, programVars, reaperVars
<1>3. CASE KillAfterGrace
  BY <1>3, SignalSent DEF KillAfterGrace, programVars, reaperVars
<1>4. CASE Start
  BY <1>4 DEF Start, Supervise, programVars, reaperVars
<1>5. CASE StartFails
  BY <1>5 DEF StartFails, programVars, reaperVars
<1>6. CASE ReapBeginsPolling
  BY <1>6 DEF ReapBeginsPolling, MarkTheEnd, IsGone, programVars, reaperVars
<1>7. CASE ReapBeginsWaiting
  BY <1>7 DEF ReapBeginsWaiting, programVars, reaperVars
<1>8. CASE ReapFindsEnded
  BY <1>8 DEF ReapFindsEnded, MarkTheEnd, programVars, reaperVars
<1>9. CASE ReapSpawnsThread
  BY <1>9 DEF ReapSpawnsThread, programVars, reaperVars
<1>10. CASE ReapWakes
  BY <1>10 DEF ReapWakes, programVars, reaperVars
<1>11. CASE ReapReturns
  BY <1>11 DEF ReapReturns, MarkTheEnd, programVars, reaperVars
<1>12. CASE StrangerEnds
  BY <1>12 DEF StrangerEnds, MarkTheEnd, IsGone, programVars, reaperVars
<1>13. CASE ReapCancelled
  BY <1>13, SignalSent DEF ReapCancelled, MarkTheEnd, programVars, reaperVars
<1>14. CASE ThreadReaps
  BY <1>14 DEF ThreadReaps, programVars, reaperVars
<1>15. CASE ThreadStores
  BY <1>15 DEF ThreadStores, programVars, reaperVars
<1>16. CASE WatcherTells
  BY <1>16 DEF WatcherTells, programVars, reaperVars
<1>17. CASE CancelScope
  BY <1>17 DEF CancelScope, programVars, reaperVars
<1>18. CASE Upgrade
  BY <1>18 DEF Upgrade, AdoptAs, programVars, reaperVars
<1>19. CASE ProgramIsKilled
  BY <1>19 DEF ProgramIsKilled, Dies, programVars, reaperVars
<1>20. CASE ProgramIsHungUp
  BY <1>20 DEF ProgramIsHungUp, Dies, programVars, reaperVars
<1>21. CASE ProgramExits
  BY <1>21 DEF ProgramExits, Dies, programVars, reaperVars
<1>22. CASE ParentReaps
  BY <1>22 DEF ParentReaps, programVars, reaperVars
<1>23. CASE PidIsReused
  BY <1>23 DEF PidIsReused, programVars, reaperVars
<1>24. CASE OutputDrains
  BY <1>24 DEF OutputDrains, programVars, reaperVars
<1>25. CASE UNCHANGED vars
  BY <1>25 DEF vars, programVars, reaperVars
<1> QED BY <1>1, <1>2, <1>3, <1>4, <1>5, <1>6, <1>7, <1>8, <1>9, <1>10, <1>11,
           <1>12, <1>13, <1>14, <1>15, <1>16, <1>17, <1>18, <1>19, <1>20,
           <1>21, <1>22, <1>23, <1>24, <1>25
   DEF Next, ReaperStep, ThreadStep, KernelStep

\* What may become of a child of each kind.
LEMMA ChildStep ==
  ASSUME Inductive, [Next]_vars
  PROVE  ChildOK'
<1> USE DEF Inductive, ChildOK, TypeOK, ProgramOK, Kind, ChildStates, Ways,
            EndOK, ThreadOK
<1>1. CASE Kill
  BY <1>1, SignalSent DEF Kill, programVars, reaperVars
<1>2. CASE HangUp
  BY <1>2, SignalSent DEF HangUp, programVars, reaperVars
<1>3. CASE KillAfterGrace
  BY <1>3, SignalSent DEF KillAfterGrace, programVars, reaperVars
<1>4. CASE Start
  BY <1>4 DEF Start, Supervise, programVars, reaperVars
<1>5. CASE StartFails
  BY <1>5 DEF StartFails, programVars, reaperVars
<1>6. CASE ReapBeginsPolling
  BY <1>6 DEF ReapBeginsPolling, MarkTheEnd, IsGone, programVars, reaperVars
<1>7. CASE ReapBeginsWaiting
  BY <1>7 DEF ReapBeginsWaiting, programVars, reaperVars
<1>8. CASE ReapFindsEnded
  BY <1>8 DEF ReapFindsEnded, MarkTheEnd, programVars, reaperVars
<1>9. CASE ReapSpawnsThread
  BY <1>9 DEF ReapSpawnsThread, programVars, reaperVars
<1>10. CASE ReapWakes
  BY <1>10 DEF ReapWakes, programVars, reaperVars
<1>11. CASE ReapReturns
  BY <1>11 DEF ReapReturns, MarkTheEnd, programVars, reaperVars
<1>12. CASE StrangerEnds
  BY <1>12 DEF StrangerEnds, MarkTheEnd, IsGone, programVars, reaperVars
<1>13. CASE ReapCancelled
  BY <1>13, SignalSent DEF ReapCancelled, MarkTheEnd, programVars, reaperVars
<1>14. CASE ThreadReaps
  BY <1>14 DEF ThreadReaps, programVars, reaperVars
<1>15. CASE ThreadStores
  BY <1>15 DEF ThreadStores, programVars, reaperVars
<1>16. CASE WatcherTells
  BY <1>16 DEF WatcherTells, programVars, reaperVars
<1>17. CASE CancelScope
  BY <1>17 DEF CancelScope, programVars, reaperVars
<1>18. CASE Upgrade
  BY <1>18 DEF Upgrade, AdoptAs, programVars, reaperVars
<1>19. CASE ProgramIsKilled
  BY <1>19 DEF ProgramIsKilled, Dies, programVars, reaperVars
<1>20. CASE ProgramIsHungUp
  BY <1>20 DEF ProgramIsHungUp, Dies, programVars, reaperVars
<1>21. CASE ProgramExits
  BY <1>21 DEF ProgramExits, Dies, programVars, reaperVars
<1>22. CASE ParentReaps
  BY <1>22 DEF ParentReaps, programVars, reaperVars
<1>23. CASE PidIsReused
  BY <1>23 DEF PidIsReused, programVars, reaperVars
<1>24. CASE OutputDrains
  BY <1>24 DEF OutputDrains, programVars, reaperVars
<1>25. CASE UNCHANGED vars
  BY <1>25 DEF vars, programVars, reaperVars
<1> QED BY <1>1, <1>2, <1>3, <1>4, <1>5, <1>6, <1>7, <1>8, <1>9, <1>10, <1>11,
           <1>12, <1>13, <1>14, <1>15, <1>16, <1>17, <1>18, <1>19, <1>20,
           <1>21, <1>22, <1>23, <1>24, <1>25
   DEF Next, ReaperStep, ThreadStep, KernelStep

\* The thread and its reaper.
LEMMA ThreadOKStep ==
  ASSUME Inductive, [Next]_vars
  PROVE  ThreadOK'
<1> USE DEF Inductive, ThreadOK, EndOK, TypeOK, ReaperOK, ReapStates,
            ThreadStates, ProgramOK, Kind, ChildOK, ChildStates, Ways
<1>1. CASE Kill
  BY <1>1, SignalSent DEF Kill, programVars, reaperVars
<1>2. CASE HangUp
  BY <1>2, SignalSent DEF HangUp, programVars, reaperVars
<1>3. CASE KillAfterGrace
  BY <1>3, SignalSent DEF KillAfterGrace, programVars, reaperVars
<1>4. CASE Start
  BY <1>4 DEF Start, Supervise, programVars, reaperVars
<1>5. CASE StartFails
  BY <1>5 DEF StartFails, programVars, reaperVars
<1>6. CASE ReapBeginsPolling
  BY <1>6 DEF ReapBeginsPolling, MarkTheEnd, IsGone, programVars, reaperVars
<1>7. CASE ReapBeginsWaiting
  BY <1>7 DEF ReapBeginsWaiting, programVars, reaperVars
<1>8. CASE ReapFindsEnded
  BY <1>8 DEF ReapFindsEnded, MarkTheEnd, programVars, reaperVars
<1>9. CASE ReapSpawnsThread
  BY <1>9 DEF ReapSpawnsThread, programVars, reaperVars
<1>10. CASE ReapWakes
  BY <1>10 DEF ReapWakes, programVars, reaperVars
<1>11. CASE ReapReturns
  BY <1>11 DEF ReapReturns, MarkTheEnd, programVars, reaperVars
<1>12. CASE StrangerEnds
  BY <1>12 DEF StrangerEnds, MarkTheEnd, IsGone, programVars, reaperVars
<1>13. CASE ReapCancelled
  BY <1>13, SignalSent DEF ReapCancelled, MarkTheEnd, programVars, reaperVars
<1>14. CASE ThreadReaps
  BY <1>14 DEF ThreadReaps, programVars, reaperVars
<1>15. CASE ThreadStores
  BY <1>15 DEF ThreadStores, programVars, reaperVars
<1>16. CASE WatcherTells
  BY <1>16 DEF WatcherTells, programVars, reaperVars
<1>17. CASE CancelScope
  BY <1>17 DEF CancelScope, programVars, reaperVars
<1>18. CASE Upgrade
  BY <1>18 DEF Upgrade, AdoptAs, programVars, reaperVars
<1>19. CASE ProgramIsKilled
  BY <1>19 DEF ProgramIsKilled, Dies, programVars, reaperVars
<1>20. CASE ProgramIsHungUp
  BY <1>20 DEF ProgramIsHungUp, Dies, programVars, reaperVars
<1>21. CASE ProgramExits
  BY <1>21 DEF ProgramExits, Dies, programVars, reaperVars
<1>22. CASE ParentReaps
  BY <1>22 DEF ParentReaps, programVars, reaperVars
<1>23. CASE PidIsReused
  BY <1>23 DEF PidIsReused, programVars, reaperVars
<1>24. CASE OutputDrains
  BY <1>24 DEF OutputDrains, programVars, reaperVars
<1>25. CASE UNCHANGED vars
  BY <1>25 DEF vars, programVars, reaperVars
<1> QED BY <1>1, <1>2, <1>3, <1>4, <1>5, <1>6, <1>7, <1>8, <1>9, <1>10, <1>11,
           <1>12, <1>13, <1>14, <1>15, <1>16, <1>17, <1>18, <1>19, <1>20,
           <1>21, <1>22, <1>23, <1>24, <1>25
   DEF Next, ReaperStep, ThreadStep, KernelStep

\* Nobody is told of the end of a program this process forked before its
\* code is there.
LEMMA CodeStep ==
  ASSUME Inductive, [Next]_vars
  PROVE  CodeOK'
<1> USE DEF Inductive, CodeOK, EndOK, ChildOK, ThreadOK, TypeOK, ProgramOK,
            ReaperOK, Kind, ChildStates, Ways
<1>1. CASE Kill
  BY <1>1, SignalSent DEF Kill, programVars, reaperVars
<1>2. CASE HangUp
  BY <1>2, SignalSent DEF HangUp, programVars, reaperVars
<1>3. CASE KillAfterGrace
  BY <1>3, SignalSent DEF KillAfterGrace, programVars, reaperVars
<1>4. CASE Start
  BY <1>4 DEF Start, Supervise, programVars, reaperVars
<1>5. CASE StartFails
  BY <1>5 DEF StartFails, programVars, reaperVars
<1>6. CASE ReapBeginsPolling
  BY <1>6 DEF ReapBeginsPolling, MarkTheEnd, IsGone, programVars, reaperVars
<1>7. CASE ReapBeginsWaiting
  BY <1>7 DEF ReapBeginsWaiting, programVars, reaperVars
<1>8. CASE ReapFindsEnded
  BY <1>8 DEF ReapFindsEnded, MarkTheEnd, programVars, reaperVars
<1>9. CASE ReapSpawnsThread
  BY <1>9 DEF ReapSpawnsThread, programVars, reaperVars
<1>10. CASE ReapWakes
  BY <1>10 DEF ReapWakes, programVars, reaperVars
<1>11. CASE ReapReturns
  BY <1>11 DEF ReapReturns, MarkTheEnd, programVars, reaperVars
<1>12. CASE StrangerEnds
  BY <1>12 DEF StrangerEnds, MarkTheEnd, IsGone, programVars, reaperVars
<1>13. CASE ReapCancelled
  BY <1>13, SignalSent DEF ReapCancelled, MarkTheEnd, programVars, reaperVars
<1>14. CASE ThreadReaps
  BY <1>14 DEF ThreadReaps, programVars, reaperVars
<1>15. CASE ThreadStores
  BY <1>15 DEF ThreadStores, programVars, reaperVars
<1>16. CASE WatcherTells
  BY <1>16 DEF WatcherTells, programVars, reaperVars
<1>17. CASE CancelScope
  BY <1>17 DEF CancelScope, programVars, reaperVars
<1>18. CASE Upgrade
  BY <1>18 DEF Upgrade, AdoptAs, programVars, reaperVars
<1>19. CASE ProgramIsKilled
  BY <1>19 DEF ProgramIsKilled, Dies, programVars, reaperVars
<1>20. CASE ProgramIsHungUp
  BY <1>20 DEF ProgramIsHungUp, Dies, programVars, reaperVars
<1>21. CASE ProgramExits
  BY <1>21 DEF ProgramExits, Dies, programVars, reaperVars
<1>22. CASE ParentReaps
  BY <1>22 DEF ParentReaps, programVars, reaperVars
<1>23. CASE PidIsReused
  BY <1>23 DEF PidIsReused, programVars, reaperVars
<1>24. CASE OutputDrains
  BY <1>24 DEF OutputDrains, programVars, reaperVars
<1>25. CASE UNCHANGED vars
  BY <1>25 DEF vars, programVars, reaperVars
<1> QED BY <1>1, <1>2, <1>3, <1>4, <1>5, <1>6, <1>7, <1>8, <1>9, <1>10, <1>11,
           <1>12, <1>13, <1>14, <1>15, <1>16, <1>17, <1>18, <1>19, <1>20,
           <1>21, <1>22, <1>23, <1>24, <1>25
   DEF Next, ReaperStep, ThreadStep, KernelStep

\* What this process cannot know of a child's pid.
LEMMA GoneStep ==
  ASSUME Inductive, [Next]_vars
  PROVE  GoneOK'
<1> USE DEF Inductive, GoneOK, EndOK, ChildOK, ThreadOK, TypeOK, ProgramOK,
            ReaperOK, FlagsOK, Kind, ChildStates, Ways, ReapStates,
            ThreadStates
<1>1. CASE Kill
  BY <1>1, SignalSent DEF Kill, programVars, reaperVars
<1>2. CASE HangUp
  BY <1>2, SignalSent DEF HangUp, programVars, reaperVars
<1>3. CASE KillAfterGrace
  BY <1>3, SignalSent DEF KillAfterGrace, programVars, reaperVars
<1>4. CASE Start
  BY <1>4 DEF Start, Supervise, programVars, reaperVars
<1>5. CASE StartFails
  BY <1>5 DEF StartFails, programVars, reaperVars
<1>6. CASE ReapBeginsPolling
  BY <1>6 DEF ReapBeginsPolling, MarkTheEnd, IsGone, programVars, reaperVars
<1>7. CASE ReapBeginsWaiting
  BY <1>7 DEF ReapBeginsWaiting, programVars, reaperVars
<1>8. CASE ReapFindsEnded
  BY <1>8 DEF ReapFindsEnded, MarkTheEnd, programVars, reaperVars
<1>9. CASE ReapSpawnsThread
  BY <1>9 DEF ReapSpawnsThread, programVars, reaperVars
<1>10. CASE ReapWakes
  BY <1>10 DEF ReapWakes, programVars, reaperVars
<1>11. CASE ReapReturns
  BY <1>11 DEF ReapReturns, MarkTheEnd, programVars, reaperVars
<1>12. CASE StrangerEnds
  BY <1>12 DEF StrangerEnds, MarkTheEnd, IsGone, programVars, reaperVars
<1>13. CASE ReapCancelled
  BY <1>13, SignalSent DEF ReapCancelled, MarkTheEnd, programVars, reaperVars
<1>14. CASE ThreadReaps
  BY <1>14 DEF ThreadReaps, programVars, reaperVars
<1>15. CASE ThreadStores
  BY <1>15 DEF ThreadStores, programVars, reaperVars
<1>16. CASE WatcherTells
  BY <1>16 DEF WatcherTells, programVars, reaperVars
<1>17. CASE CancelScope
  BY <1>17 DEF CancelScope, programVars, reaperVars
<1>18. CASE Upgrade
  BY <1>18 DEF Upgrade, AdoptAs, programVars, reaperVars
<1>19. CASE ProgramIsKilled
  BY <1>19 DEF ProgramIsKilled, Dies, programVars, reaperVars
<1>20. CASE ProgramIsHungUp
  BY <1>20 DEF ProgramIsHungUp, Dies, programVars, reaperVars
<1>21. CASE ProgramExits
  BY <1>21 DEF ProgramExits, Dies, programVars, reaperVars
<1>22. CASE ParentReaps
  BY <1>22 DEF ParentReaps, programVars, reaperVars
<1>23. CASE PidIsReused
  BY <1>23 DEF PidIsReused, programVars, reaperVars
<1>24. CASE OutputDrains
  BY <1>24 DEF OutputDrains, programVars, reaperVars
<1>25. CASE UNCHANGED vars
  BY <1>25 DEF vars, programVars, reaperVars
<1> QED BY <1>1, <1>2, <1>3, <1>4, <1>5, <1>6, <1>7, <1>8, <1>9, <1>10, <1>11,
           <1>12, <1>13, <1>14, <1>15, <1>16, <1>17, <1>18, <1>19, <1>20,
           <1>21, <1>22, <1>23, <1>24, <1>25
   DEF Next, ReaperStep, ThreadStep, KernelStep

\* A reaper that marks the end has found one, or has killed the program.
LEMMA ScopeStep ==
  ASSUME Inductive, [Next]_vars
  PROVE  NoProgramOutlivesItsScope'
<1> USE DEF Inductive, NoProgramOutlivesItsScope, EndOK, ChildOK, ThreadOK,
            CodeOK, TypeOK, ProgramOK, ReaperOK, FlagsOK, Kind, ChildStates,
            Ways
<1>1. CASE Kill
  BY <1>1, SignalSent DEF Kill, programVars, reaperVars
<1>2. CASE HangUp
  BY <1>2, SignalSent DEF HangUp, programVars, reaperVars
<1>3. CASE KillAfterGrace
  BY <1>3, SignalSent DEF KillAfterGrace, programVars, reaperVars
<1>4. CASE Start
  BY <1>4 DEF Start, Supervise, programVars, reaperVars
<1>5. CASE StartFails
  BY <1>5 DEF StartFails, programVars, reaperVars
<1>6. CASE ReapBeginsPolling
  BY <1>6 DEF ReapBeginsPolling, MarkTheEnd, IsGone, programVars, reaperVars
<1>7. CASE ReapBeginsWaiting
  BY <1>7 DEF ReapBeginsWaiting, programVars, reaperVars
<1>8. CASE ReapFindsEnded
  BY <1>8 DEF ReapFindsEnded, MarkTheEnd, programVars, reaperVars
<1>9. CASE ReapSpawnsThread
  BY <1>9 DEF ReapSpawnsThread, programVars, reaperVars
<1>10. CASE ReapWakes
  BY <1>10 DEF ReapWakes, programVars, reaperVars
<1>11. CASE ReapReturns
  BY <1>11 DEF ReapReturns, MarkTheEnd, programVars, reaperVars
<1>12. CASE StrangerEnds
  BY <1>12 DEF StrangerEnds, MarkTheEnd, IsGone, programVars, reaperVars
<1>13. CASE ReapCancelled
  BY <1>13, SignalSent DEF ReapCancelled, MarkTheEnd, programVars, reaperVars
<1>14. CASE ThreadReaps
  BY <1>14 DEF ThreadReaps, programVars, reaperVars
<1>15. CASE ThreadStores
  BY <1>15 DEF ThreadStores, programVars, reaperVars
<1>16. CASE WatcherTells
  BY <1>16 DEF WatcherTells, programVars, reaperVars
<1>17. CASE CancelScope
  BY <1>17 DEF CancelScope, programVars, reaperVars
<1>18. CASE Upgrade
  BY <1>18 DEF Upgrade, AdoptAs, programVars, reaperVars
<1>19. CASE ProgramIsKilled
  BY <1>19 DEF ProgramIsKilled, Dies, programVars, reaperVars
<1>20. CASE ProgramIsHungUp
  BY <1>20 DEF ProgramIsHungUp, Dies, programVars, reaperVars
<1>21. CASE ProgramExits
  BY <1>21 DEF ProgramExits, Dies, programVars, reaperVars
<1>22. CASE ParentReaps
  BY <1>22 DEF ParentReaps, programVars, reaperVars
<1>23. CASE PidIsReused
  BY <1>23 DEF PidIsReused, programVars, reaperVars
<1>24. CASE OutputDrains
  BY <1>24 DEF OutputDrains, programVars, reaperVars
<1>25. CASE UNCHANGED vars
  BY <1>25 DEF vars, programVars, reaperVars
<1> QED BY <1>1, <1>2, <1>3, <1>4, <1>5, <1>6, <1>7, <1>8, <1>9, <1>10, <1>11,
           <1>12, <1>13, <1>14, <1>15, <1>16, <1>17, <1>18, <1>19, <1>20,
           <1>21, <1>22, <1>23, <1>24, <1>25
   DEF Next, ReaperStep, ThreadStep, KernelStep

LEMMA NextInductive == Inductive /\ [Next]_vars => Inductive'
BY ProgramStep, ReaperOKStep, FlagsStep, EndStep, ChildStep, ThreadOKStep,
   CodeStep, GoneStep, ScopeStep
   DEF Inductive, TypeOK

THEOREM InductiveInvariant == Spec => []Inductive
BY InitInductive, NextInductive, PTL DEF Spec

-----------------------------------------------------------------------------
(* What it gives.                                                          *)

\* Every variable stays in its type.
THEOREM TypeCorrect == Spec => []TypeOK
BY InductiveInvariant, PTL DEF Inductive

\* _reap: when ready_f is set the program has ended, or was killed because
\* its scope went first, or is a stranger whose output ended.
THEOREM NoProgramOutlives == Spec => []NoProgramOutlivesItsScope
BY InductiveInvariant, PTL DEF Inductive

\* `returncode`: it is how the program ended, and a done_callback finds it.
THEOREM ReturncodeIsTruthful == Spec => []ReturncodeTruthful
<1>1. Inductive => ReturncodeTruthful
  BY DEF Inductive, ReturncodeTruthful, EndOK, CodeOK
<1> QED BY InductiveInvariant, <1>1, PTL

\* `reaped`, send_signal: a signal strikes a process that was given the
\* program's pid only where this process cannot know of it yet.
THEOREM OnlyUnknowingStrikes == Spec => StrikesOnlyUnknowing
<1> DEFINE Unknowing == \/ thread = "returned"
                        \/ kind = "adopted" /\ reap \in {"none", "scheduled"}
                        \/ kind = "stranger" /\ ~readyF
<1>1. ASSUME Inductive, [Next]_vars PROVE struck' # struck => Unknowing

  <2> USE <1>1 DEF Inductive, GoneOK, EndOK, ChildOK, TypeOK, ProgramOK,
          ReaperOK, FlagsOK, Kind
  <2>1. CASE Kill
    BY <2>1, SignalSent DEF Kill, programVars, reaperVars
  <2>2. CASE HangUp
    BY <2>2, SignalSent DEF HangUp, programVars, reaperVars
  <2>3. CASE KillAfterGrace
    BY <2>3, SignalSent DEF KillAfterGrace, programVars, reaperVars
  <2>4. CASE Start
    BY <2>4 DEF Start, Supervise, programVars, reaperVars
  <2>5. CASE StartFails
    BY <2>5 DEF StartFails, programVars, reaperVars
  <2>6. CASE ReapBeginsPolling
    BY <2>6 DEF ReapBeginsPolling, MarkTheEnd, IsGone, programVars, reaperVars
  <2>7. CASE ReapBeginsWaiting
    BY <2>7 DEF ReapBeginsWaiting, programVars, reaperVars
  <2>8. CASE ReapFindsEnded
    BY <2>8 DEF ReapFindsEnded, MarkTheEnd, programVars, reaperVars
  <2>9. CASE ReapSpawnsThread
    BY <2>9 DEF ReapSpawnsThread, programVars, reaperVars
  <2>10. CASE ReapWakes
    BY <2>10 DEF ReapWakes, programVars, reaperVars
  <2>11. CASE ReapReturns
    BY <2>11 DEF ReapReturns, MarkTheEnd, programVars, reaperVars
  <2>12. CASE StrangerEnds
    BY <2>12 DEF StrangerEnds, MarkTheEnd, IsGone, programVars, reaperVars
  <2>13. CASE ReapCancelled
    BY <2>13, SignalSent DEF ReapCancelled, MarkTheEnd, programVars, reaperVars
  <2>14. CASE ThreadReaps
    BY <2>14 DEF ThreadReaps, programVars, reaperVars
  <2>15. CASE ThreadStores
    BY <2>15 DEF ThreadStores, programVars, reaperVars
  <2>16. CASE WatcherTells
    BY <2>16 DEF WatcherTells, programVars, reaperVars
  <2>17. CASE CancelScope
    BY <2>17 DEF CancelScope, programVars, reaperVars
  <2>18. CASE Upgrade
    BY <2>18 DEF Upgrade, AdoptAs, programVars, reaperVars
  <2>19. CASE ProgramIsKilled
    BY <2>19 DEF ProgramIsKilled, Dies, programVars, reaperVars
  <2>20. CASE ProgramIsHungUp
    BY <2>20 DEF ProgramIsHungUp, Dies, programVars, reaperVars
  <2>21. CASE ProgramExits
    BY <2>21 DEF ProgramExits, Dies, programVars, reaperVars
  <2>22. CASE ParentReaps
    BY <2>22 DEF ParentReaps, programVars, reaperVars
  <2>23. CASE PidIsReused
    BY <2>23 DEF PidIsReused, programVars, reaperVars
  <2>24. CASE OutputDrains
    BY <2>24 DEF OutputDrains, programVars, reaperVars
  <2>25. CASE UNCHANGED vars
    BY <2>25 DEF vars, programVars, reaperVars
  <2> QED BY <2>1, <2>2, <2>3, <2>4, <2>5, <2>6, <2>7, <2>8, <2>9, <2>10,
             <2>11, <2>12, <2>13, <2>14, <2>15, <2>16, <2>17, <2>18, <2>19,
             <2>20, <2>21, <2>22, <2>23, <2>24, <2>25
     DEF Next, ReaperStep, ThreadStep, KernelStep
<1> QED BY InductiveInvariant, <1>1, PTL DEF Spec, StrikesOnlyUnknowing

\* _wait_for_child and _reaped_now: a returncode is never replaced by another.
THEOREM ReturncodeStays == Spec => ReturncodeIsNeverAnother
<1> DEFINE Stays == returncode # "None" =>
             \/ returncode' = returncode
             \/ returncode' = "None" /\ kind = "adopted" /\ reap = "scheduled"
<1>1. ASSUME Inductive, [Next]_vars PROVE Stays
  <2> USE <1>1 DEF reaperVars
  <2>1. CASE Kill \/ HangUp \/ KillAfterGrace \/ Start \/ StartFails
    BY <2>1 DEF Kill, HangUp, KillAfterGrace, Start, StartFails
  <2>2. CASE ReapBeginsPolling \/ ReapBeginsWaiting \/ ReapSpawnsThread
             \/ ReapWakes \/ ReapReturns \/ StrangerEnds \/ ReapCancelled
    BY <2>2 DEF ReapBeginsPolling, ReapBeginsWaiting, ReapSpawnsThread,
                ReapWakes, ReapReturns, StrangerEnds, ReapCancelled
  \* A child that is a zombie has no code yet.
  <2>3. CASE ReapFindsEnded
    BY <2>3 DEF ReapFindsEnded, Inductive, CodeOK
  \* What the thread stores is how the program died, as is what was there.
  <2>4. CASE ThreadStores
    BY <2>4 DEF ThreadStores, Inductive, CodeOK
  <2>5. CASE ThreadReaps \/ WatcherTells \/ CancelScope \/ Upgrade
    BY <2>5 DEF ThreadReaps, WatcherTells, CancelScope, Upgrade
  <2>6. CASE KernelStep \/ ProgramExits \/ ParentReaps \/ PidIsReused
             \/ OutputDrains
    BY <2>6 DEF KernelStep, ProgramIsKilled, ProgramIsHungUp, ProgramExits,
                ParentReaps, PidIsReused, OutputDrains
  <2>7. CASE UNCHANGED vars
    BY <2>7 DEF vars
  <2> QED BY <2>1, <2>2, <2>3, <2>4, <2>5, <2>6, <2>7
          DEF Next, ReaperStep, ThreadStep
<1> QED BY InductiveInvariant, <1>1, PTL DEF Spec, ReturncodeIsNeverAnother
=============================================================================
