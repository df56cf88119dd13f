------------------------------ MODULE PtyInput ------------------------------
(***************************************************************************)
(* The input side of a program on a pty: PosixBackend.write_bytes, the     *)
(* task that writes what the pty had no room for, and the callers that     *)
(* wait in input_written.                                                  *)
(*                                                                         *)
(* Bytes are numbered in the order they are given, so that one that        *)
(* overtakes another can be told.                                          *)
(***************************************************************************)
EXTENDS Naturals, Sequences

CONSTANTS
  MaxGiven,    \* bound: bytes given in all
  MaxChunk,    \* bound: bytes of one write_bytes
  Room,        \* bytes the pty holds that the program has not read
  Waiters,     \* callers of input_written
  GoneRaises   \* whether a write to a program that is gone may raise:
               \* it does on a BSD, and Linux takes bytes until it is full

ASSUME InputBoundsAssumption ==
  /\ MaxGiven \in Nat /\ MaxChunk \in Nat \ {0} /\ Room \in Nat \ {0}
ASSUME GoneRaisesAssumption == GoneRaises \subseteq BOOLEAN

VARIABLES
  given,      \* bytes given to write_bytes
  took,       \* the bytes the pty took, in order
  readBy,     \* how many of them the program has read
  unwritten,  \* PosixBackend._unwritten
  written,    \* the event in `_written`; each wait for room makes the next
  setWritten, \* the events of `_written` that are set
  moreSet,    \* whether `_more_to_write` is set: only the writer replaces it
  writer,     \* where the task in _write_the_rest is
  master,     \* the master side is open
  hungUp,     \* nobody has the slave side open
  raises,     \* the platform: a write to a program that is gone raises
  scope,      \* the task group: "open" or "cancelled"
  waiting     \* per caller in input_written: the event it waits on and the
              \* bytes given before it asked; NotWaiting otherwise

inputVars == <<given, took, readBy, unwritten, written, setWritten, moreSet,
              writer, master, hungUp, raises, scope, waiting>>

NotWaiting == [event |-> 0, upto |-> 0, waits |-> FALSE]

\* "polling" waits for the descriptor to take more; "woken" was told so.
WriterStates == {"unstarted", "idle", "polling", "woken", "done"}

Bytes == 1..MaxGiven

InputTypeOK ==
  /\ given \in 0..MaxGiven
  /\ took \in Seq(Bytes) /\ unwritten \in Seq(Bytes)
  /\ readBy \in 0..Len(took)
  /\ Len(took) - readBy <= Room
  /\ written \in 0..MaxGiven
  /\ setWritten \subseteq 0..written
  /\ moreSet \in BOOLEAN /\ master \in BOOLEAN /\ hungUp \in BOOLEAN
  /\ raises \in GoneRaises
  /\ writer \in WriterStates
  /\ scope \in {"open", "cancelled"}
  /\ waiting \in [Waiters ->
                  [event : 0..written, upto : 0..given, waits : BOOLEAN]]

InputInit ==
  /\ given = 0 /\ took = <<>> /\ readBy = 0 /\ unwritten = <<>>
  /\ written = 0 /\ setWritten = {0} /\ moreSet = FALSE
  /\ writer = "unstarted"
  /\ master = TRUE /\ hungUp = FALSE
  /\ raises \in GoneRaises
  /\ scope = "open"
  /\ waiting = [w \in Waiters |-> NotWaiting]

-----------------------------------------------------------------------------
(* The kernel's view.                                                      *)

Free == Room - (Len(took) - readBy)

\* How many of n bytes one os.write takes: none is BlockingIOError.
Takes(n) == IF Free = 0 THEN {0} ELSE 1..(IF n < Free THEN n ELSE Free)

\* epoll says so of a pty with room, and of one that is hung up.
Writable == Free > 0 \/ hungUp

WriteRaises == hungUp /\ raises

-----------------------------------------------------------------------------
(* write_bytes and input_written.                                          *)

\* mutation: every write goes to the pty first
NeverQueues == FALSE

\* What is given goes behind what waits.
MustQueue == unwritten # <<>>

\* mutation: a caller that asks now waits on an event that is set already
QueueBehindOldEvent(bytes) ==
  /\ unwritten' = bytes
  /\ moreSet' = TRUE
  /\ UNCHANGED written

\* mutation: the writer is not told
QueueUntold(bytes) ==
  /\ unwritten' = bytes
  /\ written' = written + 1
  /\ UNCHANGED moreSet

\* A fresh `_written`, and the writer is told that there is more.
Queue(bytes) ==
  /\ unwritten' = bytes
  /\ written' = written + 1
  /\ moreSet' = TRUE

\* write_bytes of n bytes; a master that is gone takes nothing.
WriteBytes(n) ==
  /\ master
  /\ given + n <= MaxGiven
  /\ given' = given + n
  /\ LET data == [i \in 1..n |-> given + i] IN
     IF MustQueue
       THEN /\ unwritten' = unwritten \o data
            /\ UNCHANGED <<took, written, moreSet>>
       ELSE IF WriteRaises
         THEN UNCHANGED <<took, unwritten, written, moreSet>>
         ELSE \E k \in Takes(n) :
                /\ took' = took \o SubSeq(data, 1, k)
                /\ IF k < n THEN Queue(SubSeq(data, k + 1, n))
                            ELSE UNCHANGED <<unwritten, written, moreSet>>
  /\ UNCHANGED <<readBy, setWritten, writer, master, hungUp, raises, scope,
                 waiting>>

\* A caller asks whether everything given so far is with the pty.
AskWritten(w) ==
  /\ ~waiting[w].waits
  /\ waiting' = [waiting EXCEPT ![w] =
                   [event |-> written, upto |-> given, waits |-> TRUE]]
  /\ UNCHANGED <<given, took, readBy, unwritten, written, setWritten,
                 moreSet, writer, master, hungUp, raises, scope>>

Answer(w) ==
  /\ waiting[w].waits
  /\ waiting[w].event \in setWritten
  /\ waiting' = [waiting EXCEPT ![w] = NotWaiting]
  /\ UNCHANGED <<given, took, readBy, unwritten, written, setWritten,
                 moreSet, writer, master, hungUp, raises, scope>>

-----------------------------------------------------------------------------
(* _write_the_rest.                                                        *)

SayWritten == setWritten' = setWritten \cup {written}

\* PosixBackend.start
StartWriter ==
  /\ writer = "unstarted"
  /\ writer' = "idle"
  /\ UNCHANGED <<given, took, readBy, unwritten, written, setWritten,
                 moreSet, master, hungUp, raises, scope, waiting>>

\* There is more, or a close says that there will be none.
WriterWakes ==
  /\ writer = "idle" /\ moreSet
  /\ moreSet' = FALSE
  /\ IF unwritten # <<>> /\ master
       THEN writer' = "polling" /\ UNCHANGED setWritten
       ELSE /\ SayWritten
            /\ writer' = IF master THEN "idle" ELSE "done"
  /\ UNCHANGED <<given, took, readBy, unwritten, written, master, hungUp,
                 raises, scope, waiting>>

\* A cancelled scope raises in the wait before the descriptor can end it.
DescriptorIsWritable ==
  /\ writer = "polling" /\ master /\ Writable /\ scope = "open"
  /\ writer' = "woken"
  /\ UNCHANGED <<given, took, readBy, unwritten, written, setWritten,
                 moreSet, master, hungUp, raises, scope, waiting>>

\* The descriptor was closed under the wait, or the write raised: the rest
\* has nowhere to go.
GiveUp == /\ unwritten' = <<>>
          /\ SayWritten
          /\ writer' = "done"

\* notify_closing: the wait on a master closed under it raises.
WokenByClose == writer = "polling" /\ ~master

WriterLosesMaster ==
  /\ WokenByClose
  /\ GiveUp
  /\ UNCHANGED <<given, took, readBy, written, moreSet, master, hungUp,
                 raises, scope, waiting>>

\* The pump closed it between the selector's answer and this turn.
WriterFindsClosed ==
  /\ writer = "woken" /\ ~master
  /\ writer' = "done"
  /\ UNCHANGED <<given, took, readBy, unwritten, written, setWritten,
                 moreSet, master, hungUp, raises, scope, waiting>>

WriterRaises ==
  /\ writer = "woken" /\ master /\ WriteRaises
  /\ GiveUp
  /\ UNCHANGED <<given, took, readBy, written, moreSet, master, hungUp,
                 raises, scope, waiting>>

\* As much as the pty takes, which may be nothing; the rest waits again.
WriterWrites ==
  /\ writer = "woken" /\ master /\ ~WriteRaises
  /\ \E k \in Takes(Len(unwritten)) :
       /\ took' = took \o SubSeq(unwritten, 1, k)
       /\ unwritten' = SubSeq(unwritten, k + 1, Len(unwritten))
  /\ IF unwritten' = <<>> THEN SayWritten /\ writer' = "idle"
                          ELSE writer' = "polling" /\ UNCHANGED setWritten
  /\ UNCHANGED <<given, readBy, written, moreSet, master, hungUp, raises,
                 scope, waiting>>

WriterCancelled ==
  /\ scope = "cancelled"
  /\ writer \in {"idle", "polling"}
  /\ writer' = "done"
  /\ UNCHANGED <<given, took, readBy, unwritten, written, setWritten,
                 moreSet, master, hungUp, raises, scope, waiting>>

-----------------------------------------------------------------------------
(* What goes on around the writer.                                         *)

\* mutation: the close drops what waits and wakes nobody
CloseSilently ==
  /\ master
  /\ master' = FALSE
  /\ unwritten' = <<>>
  /\ UNCHANGED <<given, took, readBy, written, setWritten, moreSet, writer,
                 hungUp, raises, scope, waiting>>

\* PosixBackend.close: what waits is dropped and everyone is woken.
Close ==
  /\ master
  /\ master' = FALSE
  /\ unwritten' = <<>>
  /\ SayWritten
  /\ moreSet' = TRUE
  /\ UNCHANGED <<given, took, readBy, written, writer, hungUp, raises, scope,
                 waiting>>

CancelScope ==
  /\ scope = "open"
  /\ scope' = "cancelled"
  /\ UNCHANGED <<given, took, readBy, unwritten, written, setWritten,
                 moreSet, writer, master, hungUp, raises, waiting>>

ProgramReads ==
  /\ ~hungUp
  /\ readBy' \in (readBy + 1)..Len(took)
  /\ UNCHANGED <<given, took, unwritten, written, setWritten, moreSet,
                 writer, master, hungUp, raises, scope, waiting>>

ProgramGoes ==
  /\ ~hungUp
  /\ hungUp' = TRUE
  /\ UNCHANGED <<given, took, readBy, unwritten, written, setWritten,
                 moreSet, writer, master, raises, scope, waiting>>

WriterStep ==
  \/ WriterWakes \/ DescriptorIsWritable
  \/ WriterLosesMaster \/ WriterFindsClosed \/ WriterRaises \/ WriterWrites

InputNext ==
  \/ \E n \in 1..MaxChunk : WriteBytes(n)
  \/ \E w \in Waiters : AskWritten(w) \/ Answer(w)
  \/ StartWriter \/ WriterStep \/ WriterCancelled
  \/ Close \/ CancelScope \/ ProgramReads \/ ProgramGoes

InputSpec == InputInit /\ [][InputNext]_inputVars

(***************************************************************************)
(* The loop runs the writer and the callers it woke.  Nothing is asked of  *)
(* the program, nor that anybody closes the pty: the properties say what   *)
(* they need of them.                                                      *)
(***************************************************************************)
InputFairness ==
  /\ WF_inputVars(WriterStep)
  /\ WF_inputVars(WriterCancelled)
  /\ \A w \in Waiters : WF_inputVars(Answer(w))

InputFairSpec == InputSpec /\ InputFairness

-----------------------------------------------------------------------------
(* Safety.                                                                 *)

\* The program gets every byte it was given, once and in the order it was
\* given, as long as it is there: what a partial write left, and what was
\* given behind it (write_bytes).
InputInOrder ==
  /\ master /\ ~hungUp => took \o unwritten = [i \in 1..given |-> i]
  /\ \A i, j \in 1..Len(took) : i < j => took[i] < took[j]

\* `_written` is set exactly while nothing waits to be written.
WrittenIsTruthful == unwritten = <<>> <=> written \in setWritten

\* Whatever waits to be written has a writer that is awake for it, or will
\* be woken: no wakeup is lost between a write and the wait for it.
NobodyIsForgotten ==
  unwritten # <<>> => \/ writer \in {"polling", "woken"}
                      \/ writer \in {"unstarted", "idle"} /\ moreSet
                      \/ scope = "cancelled"

\* Whoever returns from input_written finds the bytes given before with the
\* pty, or the pty closed, or the program gone.
AnsweredMeansWritten ==
  [][\A w \in Waiters :
       waiting[w].waits /\ ~waiting'[w].waits =>
         Len(took) >= waiting[w].upto \/ ~master \/ hungUp]_inputVars

-----------------------------------------------------------------------------
(* Liveness.                                                               *)

\* The program reads what it is given, again and again, or the pty is closed
\* (by the pump, when the program is gone or the scope: module PosixBackend).
ReadsOrCloses ==
  []<>(~master \/ (readBy = Len(took) /\ ~hungUp /\ scope = "open"))

\* Everyone gets away: whoever waits in input_written, because a program that
\* reads makes room and a close answers the rest, a close under the waiting
\* writer included; and the writer with the pty or its scope, wherever it
\* waits, so that no task is left for its scope to wait for.
EveryoneIsAnswered ==
  /\ ReadsOrCloses =>
       \A w \in Waiters :
         (waiting[w].waits /\ writer # "unstarted") ~> ~waiting[w].waits
  /\ (writer # "unstarted" /\ (~master \/ scope = "cancelled"))
       ~> writer = "done"
=============================================================================
