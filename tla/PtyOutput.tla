----------------------------- MODULE PtyOutput -----------------------------
(***************************************************************************)
(* The output side of a program on a pty: the kernel's queue, the pump     *)
(* task of PosixBackend, its PtyReader, the pause that copy mode asks for, *)
(* and Process._read, which feeds a page at once or, for a program nobody  *)
(* looks at, after one turn of the event loop.                             *)
(*                                                                         *)
(* One action is what the code does from one `await` to the next; the      *)
(* program and the kernel act between any two.  Bytes are counted, not     *)
(* named: a pty is a queue, so byte i is the i-th one written.             *)
(***************************************************************************)
EXTENDS Naturals

CONSTANTS
  Page,        \* the most one read takes (4096 in Process._read)
  MaxWrote,    \* bound: bytes the program writes
  MaxPauses,   \* bound: how often copy mode is entered in one image
  Priorities   \* the answers has_priority() may give

ASSUME PageAssumption == Page \in Nat \ {0}
ASSUME BoundsAssumption == MaxWrote \in Nat /\ MaxPauses \in Nat
ASSUME PrioritiesAssumption == Priorities \subseteq BOOLEAN

VARIABLES
  wrote,         \* bytes the program wrote into the pty
  got,           \* bytes read from the master
  fed,           \* bytes given to `receive`, that is, drawn
  programHolds,  \* the program, or a descendant, has the slave side open
  slave,         \* this process has the slave side open
  master,        \* this process has the master side open
  closed,        \* PtyReader.closed: a read met the end
  suspended,     \* Process.suspended: a person reads the screen
  reading,       \* the event in `_reading`; each pause makes the next one
  setEvents,     \* the events that are set
  pump,          \* where the pump task is
  pumpEvent,     \* the event the pump last waited on
  drained,       \* `_drained` is set
  scope,         \* the task group: "open" or "cancelled"
  tornDown       \* history: the master was closed before its end was read

vars == <<wrote, got, fed, programHolds, slave, master, closed, suspended,
          reading, setEvents, pump, pumpEvent, drained, scope, tornDown>>

\* "parked" waits on an event, "polling" on the descriptor; "woken" is
\* scheduled because the descriptor was readable; "held" has read a page
\* and yields one turn before it feeds it; "raised" is over by an exception
\* that its task group has not seen yet.
PumpStates == {"unstarted", "scheduled", "parked", "polling", "woken",
               "held", "raised", "done"}

CountsOK ==
  /\ wrote \in 0..MaxWrote
  /\ got \in 0..wrote
  /\ fed \in 0..got

EventsOK ==
  /\ reading \in 0..MaxPauses + 1
  /\ setEvents \in SUBSET (0..reading)
  /\ pumpEvent \in 0..reading

ControlOK ==
  /\ programHolds \in BOOLEAN /\ slave \in BOOLEAN /\ master \in BOOLEAN
  /\ closed \in BOOLEAN /\ suspended \in BOOLEAN /\ drained \in BOOLEAN
  /\ pump \in PumpStates
  /\ scope \in {"open", "cancelled"}
  /\ tornDown \in BOOLEAN

TypeOK == CountsOK /\ EventsOK /\ ControlOK

(***************************************************************************)
(* A fresh backend has both ends of a new pty, and no program yet.  An     *)
(* adopted one (PosixBackend.adopt) has the master of a program that runs, *)
(* or has ended, with output in the pty; if the pane was in copy mode,     *)
(* Process.after_thaw parks the pump again.                                *)
(***************************************************************************)
Fresh ==
  /\ slave /\ ~programHolds
  /\ wrote = 0
  /\ ~suspended

Adopted ==
  /\ ~slave /\ programHolds \in BOOLEAN
  /\ wrote \in 0..MaxWrote
  /\ suspended \in BOOLEAN

Init ==
  /\ slave \in BOOLEAN /\ programHolds \in BOOLEAN
  /\ wrote \in 0..MaxWrote
  /\ suspended \in BOOLEAN
  /\ Fresh \/ Adopted
  /\ reading = IF suspended THEN 1 ELSE 0
  /\ setEvents = {0}
  /\ got = 0 /\ fed = 0
  /\ master = TRUE
  /\ closed = FALSE
  /\ pump = "unstarted" /\ pumpEvent = 0
  /\ drained = FALSE
  /\ scope = "open"
  /\ tornDown = FALSE

-----------------------------------------------------------------------------
(* The kernel's view of the pty.                                           *)

\* Nobody has the slave side open: a read past the last byte is EIO.
HungUp == ~slave /\ ~programHolds

\* What select and epoll say of the master.
Readable == wrote > got \/ HungUp

\* Process.output_is_waiting
OutputIsWaiting == pump = "held" \/ (master /\ Readable)

\* mutation: the pump does not look again after it waited
HandsOverUnchecked == TRUE

\* `_reading.is_set()`
HandsOver == reading \in setEvents

-----------------------------------------------------------------------------
(* The pump.                                                               *)

\* The `finally` of the pump: PosixBackend.close, then `_drained`.
LetGo == /\ pump' = "done"
         /\ master' = FALSE
         /\ drained' = TRUE

\* The test of the `while`, then the wait on the event of that moment.
LoopHead(over) ==
  IF master /\ ~over
    THEN /\ pump' = "parked"
         /\ pumpEvent' = reading
         /\ UNCHANGED <<master, drained>>
    ELSE LetGo /\ UNCHANGED pumpEvent

PumpBegins ==
  /\ pump = "scheduled"
  /\ LoopHead(closed)
  /\ UNCHANGED <<wrote, got, fed, programHolds, slave, closed, suspended,
                 reading, setEvents, scope, tornDown>>

\* The event it waits on is set; it looks again before it waits for bytes.
PumpPasses ==
  /\ pump = "parked"
  /\ pumpEvent \in setEvents
  /\ IF master /\ ~closed
       THEN pump' = "polling" /\ UNCHANGED <<master, drained>>
       ELSE LetGo
  /\ UNCHANGED <<wrote, got, fed, programHolds, slave, closed, suspended,
                 reading, setEvents, pumpEvent, scope, tornDown>>

\* The selector found the descriptor readable and scheduled the pump.
PumpWakes ==
  /\ pump = "polling"
  /\ master /\ Readable
  /\ pump' = "woken"
  /\ UNCHANGED <<wrote, got, fed, programHolds, slave, master, closed,
                 suspended, reading, setEvents, pumpEvent, drained, scope,
                 tornDown>>

\* mutation: close without notify_closing, and epoll forgets the descriptor
NeverWokenByClose == FALSE

\* notify_closing: the wait on a master closed under it raises.
WokenByClose == pump = "polling" /\ ~master

PumpLosesMaster ==
  /\ WokenByClose
  /\ LetGo
  /\ UNCHANGED <<wrote, got, fed, programHolds, slave, closed, suspended,
                 reading, setEvents, pumpEvent, scope, tornDown>>

\* A pause came while it waited for the descriptor: around the loop again.
PumpTurnsBack ==
  /\ pump = "woken"
  /\ ~HandsOver
  /\ LoopHead(closed)
  /\ UNCHANGED <<wrote, got, fed, programHolds, slave, closed, suspended,
                 reading, setEvents, scope, tornDown>>

\* mutation: the end is taken from the hang-up, ahead of what is left to read
HangUpEnds == HungUp \/ ~master

\* PtyReader.read_bytes: up to a page of what is there, or the end, which is
\* EIO on a pty that is hung up and EBADF on one that was torn down.
ReadEnds == (master /\ HungUp /\ got = wrote) \/ ~master

\* mutation: EIO is taken for a read that found nothing
ReadPageNeverCloses ==
  \/ /\ master
     /\ \E n \in 1..Page : n <= wrote - got /\ got' = got + n
     /\ UNCHANGED closed
  \/ /\ ReadEnds
     /\ UNCHANGED <<got, closed>>

ReadPage ==
  \/ /\ master
     /\ \E n \in 1..Page : n <= wrote - got /\ got' = got + n
     /\ UNCHANGED closed
  \/ /\ ReadEnds
     /\ closed' = TRUE
     /\ UNCHANGED got

\* Process._read with the focus: read, feed, and back to the loop.
PumpReadsAndFeeds ==
  /\ pump = "woken"
  /\ HandsOver
  /\ TRUE \in Priorities
  /\ ReadPage
  /\ fed' = got'
  /\ LoopHead(closed')
  /\ UNCHANGED <<wrote, programHolds, slave, suspended, reading, setEvents,
                 scope, tornDown>>

\* Process._read without it: read, then a checkpoint.
PumpReadsAndHolds ==
  /\ pump = "woken"
  /\ HandsOver
  /\ FALSE \in Priorities
  /\ ReadPage
  /\ pump' = "held"
  /\ UNCHANGED <<wrote, fed, programHolds, slave, master, suspended, reading,
                 setEvents, pumpEvent, drained, scope, tornDown>>

\* ... and behind the checkpoint the feed.
PumpFeeds ==
  /\ pump = "held"
  /\ fed' = got
  /\ LoopHead(closed)
  /\ UNCHANGED <<wrote, got, programHolds, slave, closed, suspended, reading,
                 setEvents, scope, tornDown>>

\* The cancellation is delivered at an await; the `finally` lets go, and a
\* page that was held goes with it.
PumpCancelled ==
  /\ scope = "cancelled"
  /\ pump \in {"parked", "polling", "held"}
  /\ LetGo
  /\ tornDown' = (tornDown \/ (master /\ ~closed))
  /\ UNCHANGED <<wrote, got, fed, programHolds, slave, closed, suspended,
                 reading, setEvents, pumpEvent, scope>>

\* Only `receive` is guarded in Process._feed: a tap that raises does so
\* before the page is drawn, and an `invalidate` behind it.  The exception
\* goes through the `finally` of the pump.
PumpRaises ==
  /\ \/ pump = "woken" /\ HandsOver /\ TRUE \in Priorities /\ ReadPage
     \/ pump = "held" /\ UNCHANGED <<got, closed>>
  /\ fed' \in {fed, got'}
  /\ pump' = "raised" /\ master' = FALSE /\ drained' = TRUE
  /\ tornDown' = (tornDown \/ (master /\ ~closed'))
  /\ UNCHANGED <<wrote, programHolds, slave, suspended, reading, setEvents,
                 pumpEvent, scope>>

\* mutation: the exception ends the pump and nothing else
PumpFailsAlone ==
  /\ pump = "raised"
  /\ pump' = "done"
  /\ UNCHANGED <<wrote, got, fed, programHolds, slave, master, closed,
                 suspended, reading, setEvents, pumpEvent, drained, scope,
                 tornDown>>

\* The group learns of it a turn of the loop later, and goes with it.
PumpFails ==
  /\ pump = "raised"
  /\ pump' = "done"
  /\ scope' = "cancelled"
  /\ UNCHANGED <<wrote, got, fed, programHolds, slave, master, closed,
                 suspended, reading, setEvents, pumpEvent, drained, tornDown>>

-----------------------------------------------------------------------------
(* Copy mode: Process.suspend and resume over pause_ and resume_reading.   *)

\* mutation: a second pause replaces the event the pump is parked on
SuspendsAgain == TRUE

NotYetSuspended == ~suspended

Suspend ==
  /\ NotYetSuspended
  /\ reading <= MaxPauses
  /\ suspended' = TRUE
  /\ reading' = reading + 1
  /\ UNCHANGED <<wrote, got, fed, programHolds, slave, master, closed,
                 setEvents, pump, pumpEvent, drained, scope, tornDown>>

Resume ==
  /\ suspended
  /\ setEvents' = setEvents \cup {reading}
  /\ suspended' = FALSE
  /\ UNCHANGED <<wrote, got, fed, programHolds, slave, master, closed,
                 reading, pump, pumpEvent, drained, scope, tornDown>>

-----------------------------------------------------------------------------
(* What goes on around the pump.                                           *)

\* PosixBackend.start: a fresh backend forks the program onto the slave
\* side, an adopted one has its program already; then the pump is started.
Start ==
  /\ pump = "unstarted"
  /\ programHolds' = (programHolds \/ slave)
  /\ pump' = "scheduled"
  /\ UNCHANGED <<wrote, got, fed, slave, master, closed, suspended, reading,
                 setEvents, pumpEvent, drained, scope, tornDown>>

ProgramWrites ==
  /\ programHolds /\ master
  /\ wrote' \in (wrote + 1)..MaxWrote
  /\ UNCHANGED <<got, fed, programHolds, slave, master, closed, suspended,
                 reading, setEvents, pump, pumpEvent, drained, scope,
                 tornDown>>

\* It exits, or closes its terminal, and so does every descendant.
ProgramLetsGo ==
  /\ programHolds
  /\ programHolds' = FALSE
  /\ UNCHANGED <<wrote, got, fed, slave, master, closed, suspended, reading,
                 setEvents, pump, pumpEvent, drained, scope, tornDown>>

\* mutation: the reaper closes both sides
ReapLetsBothGo ==
  /\ slave
  /\ pump # "unstarted"
  /\ slave' = FALSE
  /\ master' = FALSE
  /\ UNCHANGED <<wrote, got, fed, programHolds, closed, suspended, reading,
                 setEvents, pump, pumpEvent, drained, scope, tornDown>>

\* The `finally` of the reaper: only the slave side goes.
ReapLetsSlaveGo ==
  /\ slave
  /\ pump # "unstarted"
  /\ slave' = FALSE
  /\ UNCHANGED <<wrote, got, fed, programHolds, master, closed, suspended,
                 reading, setEvents, pump, pumpEvent, drained, scope,
                 tornDown>>

\* Somebody other than the pump calls PosixBackend.close.
Teardown ==
  /\ pump # "unstarted"
  /\ master
  /\ master' = FALSE
  /\ tornDown' = (tornDown \/ ~closed)
  /\ UNCHANGED <<wrote, got, fed, programHolds, slave, closed, suspended,
                 reading, setEvents, pump, pumpEvent, drained, scope>>

CancelScope ==
  /\ scope = "open"
  /\ pump # "unstarted"
  /\ scope' = "cancelled"
  /\ UNCHANGED <<wrote, got, fed, programHolds, slave, master, closed,
                 suspended, reading, setEvents, pump, pumpEvent, drained,
                 tornDown>>

-----------------------------------------------------------------------------
(* A hot upgrade: this process execs a new image of its code, which adopts *)
(* the program.  What the image keeps is what Process.KEEP and             *)
(* PosixBackend.KEEP call saved; the rest is as `adopt` makes it.          *)

\* mutation: a held page is taken for a page that was drawn
UpgradesAnyPump == pump \notin {"unstarted", "raised", "done"} /\ master

\* Whoever upgrades asks output_is_waiting first, because no image keeps a
\* held page; what waits on the pty the next image reads.
MayUpgrade == pump \notin {"unstarted", "held", "raised", "done"} /\ master

\* A new backend hands pages over; Process.after_thaw parks its pump again.
AfterThaw ==
  /\ reading' = IF suspended THEN 1 ELSE 0
  /\ setEvents' = {0}

\* The slave side is closed by the exec, and the tasks are gone.
Upgrade ==
  /\ scope = "open"
  /\ MayUpgrade
  /\ AfterThaw
  /\ pump' = "unstarted" /\ pumpEvent' = 0
  /\ slave' = FALSE
  /\ UNCHANGED <<wrote, got, fed, programHolds, master, closed, suspended,
                 drained, scope, tornDown>>

PumpStep ==
  \/ PumpBegins \/ PumpPasses \/ PumpWakes \/ PumpLosesMaster
  \/ PumpTurnsBack \/ PumpReadsAndFeeds \/ PumpReadsAndHolds \/ PumpFeeds

Next ==
  \/ PumpStep \/ PumpCancelled \/ PumpRaises \/ PumpFails
  \/ Upgrade
  \/ Suspend \/ Resume
  \/ Start \/ ProgramWrites \/ ProgramLetsGo \/ ReapLetsSlaveGo
  \/ Teardown \/ CancelScope

Spec == Init /\ [][Next]_vars

(***************************************************************************)
(* The event loop runs every task that can run.  The program owes nothing, *)
(* nobody owes a resume, and when the reaper lets the slave side go is the *)
(* business of Lifecycle.                                                  *)
(***************************************************************************)
Fairness ==
  /\ WF_vars(PumpStep)
  /\ WF_vars(PumpCancelled)
  /\ WF_vars(PumpFails)

FairSpec == Spec /\ Fairness

-----------------------------------------------------------------------------
(* Safety.                                                                 *)

\* A pump that ends by itself has drawn every byte the program wrote, and it
\* ended because a read met the end: the last words of a program that died
\* are not dropped (_reap closes the slave and leaves the master).
EndsDrained ==
  pump = "done" /\ scope = "open" /\ ~tornDown => closed /\ fed = wrote

\* When nothing is said to wait, everything written is drawn: a recorder and
\* an upgrade ask output_is_waiting to know that the screen is the last word.
OutputIsWaitingTruthful ==
  master /\ ~OutputIsWaiting => fed = wrote

\* No byte leaves the kernel during a pause, whenever in its loop the pump
\* was when the pause came: a byte read now is lost to the next image
\* (the second look at `_reading` in _pump).
ReadsOnlyWhileHandingOver == [][got' # got => ~suspended]_vars

\* Copy mode draws at most the page that was read before it came and held
\* for a turn; whatever else the program wrote waits in the kernel.
PauseDrawsOnlyTheHeldPage ==
  [][fed' # fed => ~suspended \/ (pump = "held" /\ got' = got)]_vars

\* No row of the screen changes while a person reads it: the promise of
\* suspend and of Backend.pause_reading.
SuspendedScreenIsStill == [][fed' # fed => ~suspended]_vars

\* Copy mode keeps the pump on the event that the next resume sets, and on no
\* other: whichever event it parked on, before or between pauses, that one is
\* set or is the one of this moment (the fresh event of pause_reading).
NoResumeIsLost ==
  pump = "parked" => \/ pumpEvent \in setEvents
                     \/ suspended /\ pumpEvent = reading

\* Whatever is written and not drawn has somebody who will draw it: with nobody
\* in copy mode the pump is on its way around the loop, or waits for what is
\* there already -- unless the pty was let go before its end.
UndrawnIsNotForgotten ==
  pump # "unstarted" /\ ~suspended /\ fed # wrote =>
    \/ pump \in {"scheduled", "woken", "held"}
    \/ pump = "parked" /\ pumpEvent \in setEvents
    \/ pump = "polling" /\ (Readable \/ ~master)
    \/ pump = "raised" \/ (pump = "done" /\ (scope = "cancelled" \/ tornDown))

\* The backend keeps the promise every backend makes of its output.  A page
\* counts as handed over once Process has read it.
Contract == INSTANCE BackendOutput WITH
  sent   <- wrote,
  handed <- got,
  paused <- suspended,
  status <- IF tornDown THEN "abandoned"
            ELSE IF closed THEN "over" ELSE "live"

ImplementsBackendOutput == Contract!BackendSpec

-----------------------------------------------------------------------------
(* Liveness.                                                               *)

Listening == /\ pump # "unstarted" /\ scope = "open"
             /\ ~suspended /\ ~tornDown

\* With nobody in copy mode for good, every byte gets drawn: no resume is
\* lost, wherever in its loop the pump was when it came (the fresh event of
\* pause_reading).
EveryByteIsDrawn == <>[]Listening => <>[](fed = wrote)

\* The pump ends: once nobody has the slave side open, by reading the end, so
\* that is_terminated becomes true; and by a teardown, except a pump that copy
\* mode parked (`close` wakes who waits on the descriptor and not who waits on
\* the event).
PumpEnds ==
  /\ <>[](Listening /\ HungUp) => <>(closed /\ pump = "done")
  /\ tornDown ~> (pump = "done" \/ suspended)
=============================================================================
