----------------------------- MODULE Lifecycle -----------------------------
(***************************************************************************)
(* The life of a program on a pty: how it is started or adopted, how its   *)
(* end is noticed (PosixBackend._reap and its worker thread, or the poll   *)
(* for a program another process forked), how it is signalled, and who is  *)
(* told (ready_f, Process._watch_end).                                     *)
(*                                                                         *)
(* The event loop's tasks take one action per stretch between two awaits.  *)
(* The worker thread interleaves with them anywhere, and so do the program *)
(* and the kernel, which may give a pid that was reaped to somebody else.  *)
(***************************************************************************)
EXTENDS Naturals

CONSTANTS
  Kinds,       \* how the backend came to its program; see Kind below
  MaxHangUps   \* bound: SIGKILLs that wait for their grace at one time

\* "fresh": start forks it.  "adopted": this process forked it, in an image
\* before an exec.  "stranger": another process did.  "ended": it ended
\* before this image, and its pane stays.
Kind == {"fresh", "adopted", "stranger", "ended"}

ASSUME KindsAssumption == Kinds \subseteq Kind
ASSUME MaxHangUpsAssumption == MaxHangUps \in Nat

VARIABLES
  kind,
  started,     \* Process._started
  child,       \* what the program's pid names, as the kernel knows it
  died,        \* how the program ended
  pending,     \* signals sent to the program and not yet taken
  struck,      \* history: a signal reached a process that is not the program
  reap,        \* where the reaper task is
  thread,      \* where the worker thread in waitpid is
  returncode,  \* PosixBackend.returncode
  readyF,      \* ready_f is set
  slave,       \* this process has the slave side open
  drained,     \* the pump read the end of the output, or let it go
  killers,     \* tasks in _kill_after_grace
  watcher,     \* the task in Process._watch_end
  scope        \* the task group that watches the program

vars == <<kind, started, child, died, pending, struck, reap, thread,
          returncode, readyF, slave, drained, killers, watcher, scope>>

programVars == <<child, died, pending, struck>>
reaperVars  == <<reap, thread, returncode, readyF, slave>>

\* "free": reaped, nobody has the pid.  "other": somebody else has it now.
ChildStates == {"unborn", "running", "zombie", "free", "other"}
Ways == {"exited", "hungup", "killed"}
ReapStates ==
  {"none", "scheduled", "spawning", "waiting", "resumed", "polling", "done"}
ThreadStates == {"none", "waitpid", "returned", "stored"}

ProgramOK ==
  /\ kind \in Kind
  /\ child \in ChildStates
  /\ died \in Ways \cup {"no"}
  /\ pending \in SUBSET {"HUP", "KILL"}

ReaperOK ==
  /\ reap \in ReapStates
  /\ thread \in ThreadStates
  /\ returncode \in Ways \cup {"None"}

FlagsOK ==
  /\ started \in BOOLEAN /\ struck \in BOOLEAN /\ readyF \in BOOLEAN
  /\ slave \in BOOLEAN /\ drained \in BOOLEAN
  /\ killers \in 0..MaxHangUps
  /\ watcher \in {"none", "waiting", "told", "cancelled"}
  /\ scope \in {"open", "cancelled"}

TypeOK == ProgramOK /\ ReaperOK /\ FlagsOK

Init ==
  /\ kind \in Kinds
  /\ CASE kind = "fresh" -> child = "unborn"
       [] kind = "ended" -> child = "free"
       [] OTHER          -> child \in {"running", "zombie", "free"}
  /\ died \in Ways \cup {"no"}
  /\ died = "no" <=> child \in {"unborn", "running"}
  /\ pending = {} /\ struck = FALSE
  /\ started = FALSE
  /\ reap = "none" /\ thread = "none" /\ returncode = "None"
  /\ readyF = (kind = "ended")
  /\ slave = (kind = "fresh")
  /\ drained = FALSE
  /\ killers = 0
  /\ watcher = "none"
  /\ scope = "open"

-----------------------------------------------------------------------------
(* Signals.                                                                *)

\* mutation: only the event says that the program was waited for
ReapedIfReady == readyF

\* PosixBackend.reaped
Reaped == returncode # "None" \/ readyF

\* os.kill on the pid
Deliver(sig) ==
  CASE child = "running" -> pending' = pending \cup {sig} /\ UNCHANGED struck
    [] child = "other"   -> struck' = TRUE /\ UNCHANGED pending
    [] OTHER             -> UNCHANGED <<pending, struck>>

\* PosixBackend.send_signal
SendSignal(sig) ==
  IF child # "unborn" /\ ~Reaped
    THEN Deliver(sig)
    ELSE UNCHANGED <<pending, struck>>

Kill ==
  /\ SendSignal("KILL")
  /\ UNCHANGED <<kind, started, child, died, reaperVars, drained, killers,
                 watcher, scope>>

\* SIGHUP now, and a task of the group to SIGKILL it later.  There is no
\* group before the start, and a task begun in a cancelled one is cancelled
\* at its first await.
HangUp ==
  /\ ~Reaped
  /\ SendSignal("HUP")
  /\ IF reap # "none" /\ scope = "open"
       THEN killers < MaxHangUps /\ killers' = killers + 1
       ELSE UNCHANGED killers
  /\ UNCHANGED <<kind, started, child, died, reaperVars, drained, watcher,
                 scope>>

\* mutation: the grace ends in a second SIGHUP
HangUpAfterGrace ==
  /\ killers > 0
  /\ killers' = killers - 1
  /\ SendSignal("HUP")
  /\ UNCHANGED <<kind, started, child, died, reaperVars, drained, watcher,
                 scope>>

\* The grace is over, or ready_f was set and the signal is refused.
KillAfterGrace ==
  /\ killers > 0
  /\ killers' = killers - 1
  /\ SendSignal("KILL")
  /\ UNCHANGED <<kind, started, child, died, reaperVars, drained, watcher,
                 scope>>

-----------------------------------------------------------------------------
(* The start.                                                              *)

\* The tasks that supervise it: the reaper, and Process's watcher.
Supervise ==
  /\ reap' = "scheduled"
  /\ watcher' = "waiting"

\* Process.start and PosixBackend.start.
Start ==
  /\ ~started
  /\ started' = TRUE
  /\ IF kind = "ended"
       THEN UNCHANGED <<child, reap, watcher>>
       ELSE /\ Supervise
            /\ child' = IF kind = "fresh" THEN "running" ELSE child
  /\ UNCHANGED <<kind, died, pending, struck, thread, returncode, readyF,
                 slave, drained, killers, scope>>

\* A start that raises: no group was given, or the fork failed.  The process
\* counts as started.
StartFails ==
  /\ ~started
  /\ started' = TRUE
  /\ UNCHANGED <<kind, programVars, reaperVars, drained, killers, watcher,
                 scope>>

-----------------------------------------------------------------------------
(* The reaper.                                                             *)

\* is_gone
IsGone == child = "free"

\* The `finally` of _reap.
MarkTheEnd == /\ reap' = "done"
              /\ slave' = FALSE
              /\ readyF' = TRUE

\* A stranger's reaper asks for the pid at once.
ReapBeginsPolling ==
  /\ reap = "scheduled" /\ kind = "stranger"
  /\ IF IsGone THEN MarkTheEnd
               ELSE reap' = "polling" /\ UNCHANGED <<slave, readyF>>
  /\ UNCHANGED <<kind, started, programVars, thread, returncode, drained,
                 killers, watcher, scope>>

\* A parent's goes for a worker thread, with an await on the way.  An
\* adopted child's first reaps without one: here it still runs.
ReapBeginsWaiting ==
  /\ reap = "scheduled"
  /\ kind = "fresh" \/ (kind = "adopted" /\ child = "running")
  /\ reap' = "spawning"
  /\ UNCHANGED <<kind, started, programVars, thread, returncode, readyF,
                 slave, drained, killers, watcher, scope>>

\* mutation: an adopted child that ended is looked at and not waited for
ReapFindsAndLeaves ==
  /\ reap = "scheduled" /\ kind = "adopted" /\ child # "running"
  /\ MarkTheEnd
  /\ UNCHANGED <<kind, started, programVars, thread, returncode, drained,
                 killers, watcher, scope>>

\* reaped_now found it: a zombie that it reaps, or no child of ours, with no
\* code to tell -- also where an image before this one saved the code.
ReapFindsEnded ==
  /\ reap = "scheduled" /\ kind = "adopted" /\ child # "running"
  /\ IF child = "zombie" THEN child' = "free" /\ returncode' = died
                         ELSE returncode' = "None" /\ UNCHANGED child
  /\ MarkTheEnd
  /\ UNCHANGED <<kind, started, died, pending, struck, thread, drained,
                 killers, watcher, scope>>

ReapSpawnsThread ==
  /\ reap = "spawning"
  /\ reap' = "waiting"
  /\ thread' = "waitpid"
  /\ UNCHANGED <<kind, started, programVars, returncode, readyF, slave,
                 drained, killers, watcher, scope>>

\* mutation: the reaper goes on before the thread has stored the code
ReapWakesEarly ==
  /\ reap = "waiting" /\ thread \in {"returned", "stored"}
  /\ reap' = "resumed"
  /\ UNCHANGED <<kind, started, programVars, thread, returncode, readyF,
                 slave, drained, killers, watcher, scope>>

\* The thread has finished and the loop schedules the reaper: from here on
\* no cancellation reaches it.
ReapWakes ==
  /\ reap = "waiting" /\ thread = "stored"
  /\ reap' = "resumed"
  /\ UNCHANGED <<kind, started, programVars, thread, returncode, readyF,
                 slave, drained, killers, watcher, scope>>

ReapReturns ==
  /\ reap = "resumed"
  /\ MarkTheEnd
  /\ UNCHANGED <<kind, started, programVars, thread, returncode, drained,
                 killers, watcher, scope>>

\* mutation: only the pid is asked, and a zombie keeps its pid
StrangerEndsWhenGone ==
  /\ reap = "polling"
  /\ IsGone
  /\ MarkTheEnd
  /\ UNCHANGED <<kind, started, programVars, thread, returncode, drained,
                 killers, watcher, scope>>

\* stranger_ended: its pid went, or its output ended, or its pump did.  One
\* that a cancel reached first does not learn of that end any more.
StrangerEnds ==
  /\ reap = "polling"
  /\ (drained /\ scope = "open") \/ IsGone
  /\ MarkTheEnd
  /\ UNCHANGED <<kind, started, programVars, thread, returncode, drained,
                 killers, watcher, scope>>

\* mutation: a cancelled scope leaves its program running
ReapAbandons ==
  /\ scope = "cancelled"
  /\ reap \in {"spawning", "waiting", "polling"}
  /\ MarkTheEnd
  /\ UNCHANGED <<kind, started, programVars, thread, returncode, drained,
                 killers, watcher, scope>>

\* The scope goes first: the program is killed, and the thread, if there is
\* one, is left to wait for it.
ReapCancelled ==
  /\ scope = "cancelled"
  /\ reap \in {"spawning", "waiting", "polling"}
  /\ SendSignal("KILL")
  /\ MarkTheEnd
  /\ UNCHANGED <<kind, started, child, died, thread, returncode, drained,
                 killers, watcher, scope>>

-----------------------------------------------------------------------------
(* The worker thread, PosixBackend._wait_for_child.  waitpid returns before *)
(* Python stores what it returned, and the event loop runs in between.      *)

ThreadReaps ==
  /\ thread = "waitpid" /\ child = "zombie"
  /\ child' = "free"
  /\ thread' = "returned"
  /\ UNCHANGED <<kind, started, died, pending, struck, reap, returncode,
                 readyF, slave, drained, killers, watcher, scope>>

ThreadStores ==
  /\ thread = "returned"
  /\ returncode' = died
  /\ thread' = "stored"
  /\ UNCHANGED <<kind, started, programVars, reap, readyF, slave, drained,
                 killers, watcher, scope>>

-----------------------------------------------------------------------------
(* Who is told.                                                            *)

\* Process._watch_end: done_callback is called.
WatcherTells ==
  /\ watcher = "waiting" /\ readyF
  /\ watcher' = "told"
  /\ UNCHANGED <<kind, started, programVars, reaperVars, drained, killers,
                 scope>>

\* The group is cancelled: whoever waits on ready_f and was not woken yet is
\* cancelled with it.  A killer that was woken would be refused.  A stranger's
\* reaper that `drained` woke is not reached, and returns; one that has yet to
\* wait for it is.
CancelScope ==
  /\ scope = "open" /\ reap # "none"
  /\ scope' = "cancelled"
  /\ killers' = 0
  /\ watcher' = IF watcher = "waiting" /\ ~readyF THEN "cancelled" ELSE watcher
  /\ \/ UNCHANGED reap
     \/ reap = "polling" /\ drained /\ reap' = "resumed"
  /\ UNCHANGED <<kind, started, programVars, thread, returncode, readyF, slave,
                 drained>>

-----------------------------------------------------------------------------
(* A hot upgrade: this process execs a new image of its code.              *)

\* The pid is the same, so a child stays a child.
AdoptAs == kind' = IF kind = "stranger" THEN "stranger" ELSE "adopted"

\* The exec ends the tasks and the threads, the SIGKILL of a grace with
\* them, and closes the slave side; the pid and the returncode are saved.
\* A program that has ended, or a pty whose output has, is not adopted.
Upgrade ==
  /\ reap # "none" /\ scope = "open"
  /\ ~readyF /\ ~drained
  /\ AdoptAs
  /\ started' = FALSE
  /\ reap' = "none" /\ thread' = "none" /\ slave' = FALSE
  /\ killers' = 0 /\ watcher' = "none"
  /\ UNCHANGED <<programVars, returncode, readyF, drained, scope>>

-----------------------------------------------------------------------------
(* The program and the kernel.                                             *)

Dies(way) == child' = "zombie" /\ died' = way /\ pending' = {}

ProgramExits ==
  /\ child = "running"
  /\ Dies("exited")
  /\ UNCHANGED <<kind, started, struck, reaperVars, drained, killers,
                 watcher, scope>>

ProgramIsKilled ==
  /\ child = "running" /\ "KILL" \in pending
  /\ Dies("killed")
  /\ UNCHANGED <<kind, started, struck, reaperVars, drained, killers,
                 watcher, scope>>

\* SIGHUP ends a program that does not handle it.
ProgramIsHungUp ==
  /\ child = "running" /\ "HUP" \in pending
  /\ \/ Dies("hungup")
     \/ pending' = pending \ {"HUP"} /\ UNCHANGED <<child, died>>
  /\ UNCHANGED <<kind, started, struck, reaperVars, drained, killers,
                 watcher, scope>>

\* A stranger's own parent may reap it, or leave it a zombie.
ParentReaps ==
  /\ kind = "stranger" /\ child = "zombie"
  /\ child' = "free"
  /\ UNCHANGED <<kind, started, died, pending, struck, reaperVars, drained,
                 killers, watcher, scope>>

PidIsReused ==
  /\ child = "free"
  /\ child' = "other"
  /\ UNCHANGED <<kind, started, died, pending, struck, reaperVars, drained,
                 killers, watcher, scope>>

\* The pump ends (module PtyOutput): the program let its terminal go, which
\* one that still runs may do too, or the pty was torn down.
OutputDrains ==
  /\ ~drained /\ reap # "none"
  /\ drained' = TRUE
  /\ UNCHANGED <<kind, started, programVars, reaperVars, killers, watcher,
                 scope>>

ReaperStep ==
  \/ ReapBeginsPolling \/ ReapBeginsWaiting \/ ReapFindsEnded
  \/ ReapSpawnsThread \/ ReapWakes \/ ReapReturns \/ StrangerEnds

ThreadStep == ThreadReaps \/ ThreadStores

KernelStep == ProgramIsKilled \/ ProgramIsHungUp

Next ==
  \/ Kill \/ HangUp \/ KillAfterGrace
  \/ Start \/ StartFails
  \/ ReaperStep \/ ReapCancelled \/ ThreadStep
  \/ WatcherTells \/ CancelScope \/ Upgrade
  \/ KernelStep \/ ProgramExits \/ ParentReaps \/ PidIsReused \/ OutputDrains

Spec == Init /\ [][Next]_vars

(***************************************************************************)
(* The loop runs what can run, a timer fires, a thread runs, and the       *)
(* kernel delivers a signal.  Nobody owes an exit, a reap of a stranger,   *)
(* a cancellation or the end of the output.                                *)
(***************************************************************************)
Fairness ==
  /\ WF_vars(ReaperStep)
  /\ WF_vars(ReapCancelled)
  /\ WF_vars(ThreadStep)
  /\ WF_vars(KillAfterGrace)
  /\ WF_vars(WatcherTells)
  /\ WF_vars(ProgramIsKilled)

FairSpec == Spec /\ Fairness

-----------------------------------------------------------------------------
(* Safety.                                                                 *)

\* No program outlives its supervision: when ready_f is set the program has
\* ended, or a SIGKILL is on its way to it because the scope went first, or
\* it is a stranger whose output ended, or nobody reads it any more (_reap).
NoProgramOutlivesItsScope ==
  readyF => \/ child # "running"
            \/ "KILL" \in pending
            \/ kind = "stranger" /\ drained

\* The returncode is how the program ended, and is there only once the
\* program was waited for; a done_callback finds it, except of a program
\* no waitpid here could reach (comment on `returncode`).
ReturncodeTruthful ==
  /\ returncode # "None" => returncode = died /\ child \in {"free", "other"}
  /\ watcher = "told" /\ kind = "fresh" => returncode # "None"

\* A signal strikes a process that was given the program's pid only while
\* this process cannot know it yet: between the thread's waitpid and its
\* store, before the reaper of an adopted program first looked, or between
\* two looks at a stranger's pid (`reaped`, send_signal).
StrikesOnlyUnknowing ==
  [][struck' # struck =>
       \/ thread = "returned"
       \/ kind = "adopted" /\ reap \in {"none", "scheduled"}
       \/ kind = "stranger" /\ ~readyF]_vars

\* A returncode that is there is never another one: of those who store it, the
\* thread and the look at an adopted child, only the look of a new image can
\* lose it, to no code at all (_reaped_now: gone with no code when the old
\* image reaped it first).
ReturncodeIsNeverAnother ==
  [][returncode # "None" =>
       \/ returncode' = returncode
       \/ returncode' = "None" /\ kind = "adopted" /\ reap = "scheduled"]_vars

-----------------------------------------------------------------------------
(* Liveness.                                                               *)

\* A program that was hung up ends, whether it minds SIGHUP or not, and
\* whether the scope that holds its SIGKILL lasts the grace or not.
HungUpEnds == killers > 0 ~> child # "running"

\* ... which holds of a program this process is the parent of, unless an
\* upgrade comes within the grace and forgets the SIGKILL.
HungUpChildEnds ==
  (killers > 0 /\ kind # "stranger") ~> (child # "running" \/ reap = "none")

\* The end of a child is noticed, however it came, once it is watched; a
\* stranger's is when its pid is gone or its output ends.  An upgrade in
\* between leaves it to the watch of the next image.
EndIsNoticed ==
  /\ (kind # "stranger" /\ reap # "none" /\ died # "no")
       ~> (readyF \/ reap = "none")
  /\ (kind = "stranger" /\ reap # "none" /\ drained) ~> readyF
  /\ (kind = "stranger" /\ reap # "none" /\ IsGone)
       ~> (readyF \/ ~IsGone \/ reap = "none")

\* No zombie is left behind, except of a scope that was cancelled before the
\* worker thread was there, or by an upgrade that nobody starts again.
ZombiesAreReaped ==
  (child = "zombie" /\ kind # "stranger" /\ reap # "none")
    ~> \/ child # "zombie" \/ reap = "none"
       \/ scope = "cancelled" /\ thread = "none"
=============================================================================
