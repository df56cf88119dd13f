---------------------------- MODULE PosixBackend ----------------------------
(***************************************************************************)
(* A backend whole: the output side (PtyOutput) and the life of its        *)
(* program (Lifecycle), which share the slave side, the event that says    *)
(* the pump is done, and the task group.  The reaper's end lets the slave  *)
(* side go, which is what lets the pump meet the end of the file; the      *)
(* pump's end is how a stranger's reaper may learn of it; and one cancel   *)
(* reaches both.                                                           *)
(*                                                                         *)
(* Each component's environment is here the other component, so what each  *)
(* assumes of its environment is checked: ImplementsComponents.            *)
(***************************************************************************)
EXTENDS Naturals

CONSTANTS Page, MaxWrote, MaxPauses, Priorities,   \* of PtyOutput
          Kinds, MaxHangUps                         \* of Lifecycle

ASSUME OutputAssumption ==
  /\ Page \in Nat \ {0} /\ MaxWrote \in Nat /\ MaxPauses \in Nat
  /\ Priorities \subseteq BOOLEAN

\* A program that ended before this image has no pty to compose with.
ASSUME LifeAssumption ==
  /\ Kinds \subseteq {"fresh", "adopted", "stranger"}
  /\ MaxHangUps \in Nat

VARIABLES wrote, got, fed, programHolds, master, closed, suspended, reading,
          setEvents, pump, pumpEvent, tornDown,                \* PtyOutput
          kind, started, child, died, pending, struck, reap, thread,
          returncode, readyF, killers, watcher,                \* Lifecycle
          slave, drained, scope                                \* both

outputVars == <<wrote, got, fed, programHolds, master, closed, suspended,
                reading, setEvents, pump, pumpEvent, tornDown>>
lifeVars == <<kind, started, child, died, pending, struck, reap, thread,
              returncode, readyF, killers, watcher>>
sharedVars == <<slave, drained, scope>>
vars == <<outputVars, lifeVars, sharedVars>>

Output == INSTANCE PtyOutput
Life == INSTANCE Lifecycle

Init == Output!Init /\ Life!Init

-----------------------------------------------------------------------------
(* Steps of both.                                                          *)

\* PosixBackend.start
Start == Output!Start /\ Life!Start

CancelScope == Output!CancelScope /\ Life!CancelScope

\* A hot upgrade.
Upgrade == Output!Upgrade /\ Life!Upgrade

\* The pump: its `finally` sets the event a stranger's reaper waits on.
Pump ==
  /\ Output!PumpStep \/ Output!PumpCancelled \/ Output!PumpRaises
  /\ IF drained' # drained THEN Life!OutputDrains
                           ELSE UNCHANGED <<lifeVars, sharedVars>>

\* A pump that raised takes its group with it, and the program.
PumpFails ==
  /\ Output!PumpFails
  /\ IF scope' # scope THEN Life!CancelScope
                       ELSE UNCHANGED <<lifeVars, sharedVars>>

\* mutation: the end of the program resumes the pump
ReapResumes ==
  /\ Life!ReaperStep \/ Life!ReapCancelled
  /\ setEvents' = IF readyF' THEN setEvents \cup {reading} ELSE setEvents
  /\ UNCHANGED <<wrote, got, fed, programHolds, master, closed, suspended,
                 reading, pump, pumpEvent, tornDown>>

\* The reaper: its `finally` closes the slave side, where there is one.
Reap ==
  /\ Life!ReaperStep \/ Life!ReapCancelled
  /\ IF slave' # slave THEN Output!ReapLetsSlaveGo
                       ELSE UNCHANGED <<outputVars, sharedVars>>

\* A program that dies closes its terminal; a descendant may still hold it.
ProgramDies ==
  /\ Life!KernelStep \/ Life!ProgramExits
  /\ \/ UNCHANGED <<outputVars, sharedVars>>
     \/ child' # child /\ Output!ProgramLetsGo

\* mutation: the slave side goes on a turn of its own, ahead of the reap
OutputAloneLetsSlaveGo ==
  /\ \/ Output!Suspend \/ Output!Resume \/ Output!Teardown
     \/ Output!ProgramWrites \/ Output!ProgramLetsGo
     \/ Output!ReapLetsSlaveGo
  /\ UNCHANGED lifeVars

\* Steps of one that the other does not see.
OutputAlone ==
  /\ \/ Output!Suspend \/ Output!Resume \/ Output!Teardown
     \/ Output!ProgramWrites \/ Output!ProgramLetsGo
  /\ UNCHANGED lifeVars

LifeAlone ==
  /\ \/ Life!Kill \/ Life!HangUp \/ Life!KillAfterGrace \/ Life!StartFails
     \/ Life!ThreadStep \/ Life!WatcherTells
     \/ Life!ParentReaps \/ Life!PidIsReused
  /\ UNCHANGED outputVars

Next ==
  \/ Start \/ CancelScope \/ Upgrade
  \/ PumpFails
  \/ Pump \/ Reap \/ ProgramDies
  \/ OutputAlone \/ LifeAlone

Spec == Init /\ [][Next]_vars

\* The loop runs the pump, the reaper and the watcher, the worker thread
\* runs, a timer fires and a SIGKILL kills.  Each of them has finitely much
\* to do, so fairness to a group is fairness to everyone in it.
Fairness ==
  /\ WF_vars(Pump)
  /\ WF_vars(PumpFails)
  /\ WF_vars(Reap)
  /\ WF_vars(LifeAlone /\ (\/ Life!ThreadStep \/ Life!KillAfterGrace
                           \/ Life!WatcherTells))
  /\ WF_vars(ProgramDies /\ Life!ProgramIsKilled)

FairSpec == Spec /\ Fairness

-----------------------------------------------------------------------------
\* Each component does here what it does alone: nothing it relies on in its
\* environment is more than the other component gives.
ImplementsComponents == Output!Spec /\ Life!Spec

\* is_terminated speaks of the program: this process holds the slave side
\* until the reap, so of a program it forked a read meets the end only once
\* it was waited for, even if it closed its terminal and ran on.
TerminatedMeansEnded ==
  closed /\ ~tornDown /\ kind = "fresh" /\ scope = "open" =>
    died # "no" /\ returncode # "None"

\* Once the program has died and nobody holds its terminal, whoever reads
\* gets every byte and the end, and whoever waits is told -- the two ends,
\* of the output and of the program, whichever comes first.
EndIsComplete ==
  <>[](/\ reap # "none" /\ scope = "open" /\ ~tornDown
       /\ died # "no" /\ ~programHolds /\ ~suspended)
    => <>(fed = wrote /\ closed /\ ~master /\ readyF /\ watcher = "told")

\* Where the pump and the reaper have both ended, whichever ended first and
\* whatever ended it, the pty is let go on both sides, and a program this
\* process is the parent of has ended or is killed.  Of a stranger the reaper
\* may have learned no more than that nobody reads it.
BothEndedLeavesNothing ==
  pump \in {"raised", "done"} /\ reap = "done" =>
    /\ ~master /\ ~slave
    /\ kind # "stranger" => child # "running" \/ "KILL" \in pending

\* Where both have ended by themselves, in either order, the end is the whole
\* end: every byte is drawn, nobody is left who could write another, and a
\* program forked here has ended as its returncode says.
BothEndedIsTheWholeEnd ==
  pump = "done" /\ reap = "done" /\ scope = "open" /\ ~tornDown =>
    /\ fed = wrote /\ closed /\ ~slave /\ ~programHolds
    /\ kind = "fresh" => died # "no" /\ returncode = died

NothingIsLeft == ~master /\ ~slave /\ child # "running"

\* A scope that goes while there is output to come, and a pump that what it
\* called raised out of (the embedder's `invalidate` or tap), leave nothing:
\* both sides of the pty are closed, and no program runs on with nobody to
\* read it.  That is every program in the first case, strangers included; in
\* the second, and in a scope that goes behind the pump's end, it is those
\* this process is the parent of.
FailureLeavesNothing ==
  /\ (scope = "cancelled" /\ ~drained) ~> NothingIsLeft
  /\ ((scope = "cancelled" \/ pump = "raised") /\ kind # "stranger")
       ~> NothingIsLeft

\* posix.py:390-393: abandoning the scope ends the pump and the reaper, and the
\* reaper kills a program left behind rather than keeping it: one that holds its
\* terminal does not run on when it is a callback's exception that ends them.
RaisedKillsTheProgram == pump = "raised" ~> child # "running" \/ ~programHolds

\* A stranger that is left a zombie is noticed by the end of its output,
\* with nobody in copy mode.
StrangerZombieIsNoticed ==
  <>[](/\ kind = "stranger" /\ reap # "none" /\ scope = "open"
       /\ child = "zombie" /\ ~programHolds /\ ~suspended)
    => <>readyF
=============================================================================
