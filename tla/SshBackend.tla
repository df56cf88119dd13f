----------------------------- MODULE SshBackend -----------------------------
(***************************************************************************)
(* A program on another machine: AsyncSSHBackend under Process.  The       *)
(* opener asks for the session, the channel calls back as things arrive,   *)
(* and the feeder hands them over; write_text and input_written are the    *)
(* way in, and the size of the terminal is told over the same channel.     *)
(*                                                                         *)
(* The channel is a library's, and is modelled by what the backend is      *)
(* written against: what was sent arrives in order, nothing arrives on a   *)
(* paused channel, the end follows the last of what was sent, and the      *)
(* buffer of what is written has a high and a low mark.                    *)
(***************************************************************************)
EXTENDS Naturals

CONSTANTS
  MaxSent,  \* bound: pieces the remote program sends
  High, Low,\* the marks of the channel's write buffer
  Sizes     \* sizes a pane may have, 120 by 24 among them

ASSUME SentAssumption == MaxSent \in Nat
ASSUME MarksAssumption == High \in Nat /\ Low \in Nat /\ Low < High

VARIABLES
  opener,     \* the task in _open_session
  channel,    \* the remote's side: "none", "open", "lost"
  sent,       \* pieces the remote program sent
  delivered,  \* of them, those data_received was called with
  buffered,   \* pieces in _receive_buffer
  page,       \* pieces in the page that Process._read holds for a turn
  fed,        \* pieces received by the screen
  chanPaused, \* whether the channel was told to pause
  ready,      \* ready_f is set
  arrived,    \* _arrived is set: only the feeder replaces it
  readingSet, \* whether _reading is set
  suspended,  \* Process.suspended
  feeder,     \* where the task in _feed_arrived is
  gate,       \* the event it waits on in _reading: see Gates
  leaked,     \* pages handed over since the last suspend
  unsent,     \* pieces in the channel's write buffer
  writable,   \* _writable is set
  waiter,     \* a caller in input_written
  size,       \* Process.sx and sy
  told        \* the size the remote was last told

output == <<sent, delivered, buffered, page, fed, arrived, feeder, gate, leaked>>
control == <<chanPaused, readingSet, suspended>>
input == <<unsent, writable, waiter>>
sizes == <<size, told>>
vars == <<opener, channel, ready, output, control, input, sizes>>

None == "none"
Default == "120x24"  \* Process.start, when nobody has said
Vt100 == "80x24"     \* term_size, until the pane sends its own
ASSUME SizesAssumption == Default \in Sizes /\ None \notin Sizes

\* "starting" has not run; "reading" waits on _reading, "arrived" on _arrived;
\* "holding" is in a callback that holds its page for a turn.
FeederStates == {"unstarted", "starting", "reading", "arrived", "holding",
                 "done", "cancelled"}
\* The event the feeder waits on is set; is the one _reading names; is one
\* that nobody can set any more.
Gates == {"open", "current", "lost"}

\* What was delivered is in one place at a time, or lost with a cancelled page.
CountsOK ==
  /\ sent \in 0..MaxSent /\ delivered \in 0..sent
  /\ buffered \in Nat /\ page \in Nat /\ fed \in Nat
  /\ buffered + page + fed <= delivered
  /\ leaked \in Nat
  /\ unsent \in 0..(High + 1)

FlagsOK ==
  /\ {chanPaused, ready, arrived, readingSet, suspended, writable}
       \subseteq BOOLEAN
  /\ suspended = ~readingSet

TasksOK ==
  /\ opener \in {"unstarted", "opening", "opened", "refused", "cancelled"}
  /\ channel \in {None, "open", "lost"}
  /\ feeder \in FeederStates /\ gate \in Gates
  /\ waiter \in {"idle", "parked", "woken"}
  /\ size \in Sizes \cup {None} /\ told \in Sizes \cup {None, Vt100}

TypeOK == CountsOK /\ FlagsOK /\ TasksOK

Init ==
  /\ opener = "unstarted" /\ channel = None
  /\ sent = 0 /\ delivered = 0 /\ buffered = 0 /\ page = 0 /\ fed = 0
  /\ chanPaused = FALSE /\ ready = FALSE /\ arrived = FALSE
  /\ readingSet = TRUE /\ suspended = FALSE
  /\ feeder = "unstarted" /\ gate = "open" /\ leaked = 0
  /\ unsent = 0 /\ writable = TRUE /\ waiter = "idle"
  /\ size = None /\ told = None

-----------------------------------------------------------------------------
(* Opening the session.                                                    *)

\* Process.start: a second one is refused; one that has a size keeps it.
Start ==
  /\ opener = "unstarted"
  /\ opener' = "opening" /\ feeder' = "starting"
  /\ size' = IF size = None THEN Default ELSE size
  /\ UNCHANGED <<channel, ready, sent, delivered, buffered, page, fed, arrived,
                 gate, leaked, control, input, told>>

\* create_session returns: the channel is there from here on.
Opens ==
  /\ opener = "opening"
  /\ opener' = "opened" /\ channel' = "open" /\ told' = Vt100
  /\ UNCHANGED <<ready, output, control, input, size>>

\* mutation: the feeder is not woken for the end of what never began
RefusedSilently ==
  /\ opener = "opening"
  /\ opener' = "refused" /\ ready' = TRUE
  /\ UNCHANGED <<channel, output, control, input, sizes>>

\* create_session raises, whatever it is that the remote refuses.
Refused ==
  /\ opener = "opening"
  /\ opener' = "refused" /\ ready' = TRUE /\ arrived' = TRUE
  /\ UNCHANGED <<channel, sent, delivered, buffered, page, fed, feeder, gate,
                 leaked, control, input, sizes>>

-----------------------------------------------------------------------------
(* The channel calls back.                                                 *)

RemoteSends ==
  /\ channel = "open" /\ sent < MaxSent
  /\ sent' = sent + 1
  /\ UNCHANGED <<opener, channel, ready, delivered, buffered, page, fed,
                 arrived, feeder, gate, leaked, control, input, sizes>>

\* data_received
DataReceived ==
  /\ channel = "open" /\ ~chanPaused /\ delivered < sent
  /\ delivered' = delivered + 1 /\ buffered' = buffered + 1 /\ arrived' = TRUE
  /\ UNCHANGED <<opener, channel, ready, sent, page, fed, feeder, gate, leaked,
                 control, input, sizes>>

\* connection_lost: the program ended, or the connection did and what was on
\* its way is gone.
\* mutation: only the readers hear of it
ConnectionLostToReaders ==
  /\ channel = "open"
  /\ channel' = "lost" /\ sent' = delivered
  /\ ready' = TRUE /\ arrived' = TRUE
  /\ UNCHANGED <<opener, delivered, buffered, page, fed, feeder, gate, leaked,
                 control, input, sizes>>

ConnectionLost ==
  /\ channel = "open"
  /\ channel' = "lost" /\ sent' = delivered
  /\ ready' = TRUE /\ arrived' = TRUE
  /\ writable' = TRUE /\ waiter' = IF waiter = "parked" THEN "woken" ELSE waiter
  /\ UNCHANGED <<opener, delivered, buffered, page, fed, feeder, gate, leaked,
                 control, unsent, sizes>>

-----------------------------------------------------------------------------
(* The feeder: _feed_arrived, with Process._read in its callback.          *)

\* mutation: the loop only waits for what arrives
HeadIgnoresPause == feeder' = "reading" /\ gate' = "open"

LoopHead == /\ feeder' = "reading"
            /\ gate' = IF readingSet THEN "open" ELSE "current"

\* After the callback: it ends when there is nothing left to wait for.
LoopEnd == IF ready /\ buffered' = 0 THEN feeder' = "done" /\ UNCHANGED gate
           ELSE LoopHead

HandOver(n) == /\ fed' = fed + n
               /\ leaked' = IF suspended THEN leaked + 1 ELSE leaked

FeederStarts ==
  /\ feeder = "starting"
  /\ LoopHead
  /\ UNCHANGED <<opener, channel, ready, sent, delivered, buffered, page, fed,
                 arrived, leaked, control, input, sizes>>

FeederPasses ==
  /\ feeder = "reading" /\ gate = "open"
  /\ feeder' = "arrived"
  /\ UNCHANGED <<opener, channel, ready, sent, delivered, buffered, page, fed,
                 arrived, gate, leaked, control, input, sizes>>

ReadText == buffered' = 0

\* One turn: a fresh _arrived, read_text of all there is, and the page is fed
\* if the process has priority and held for a turn if it has not.
FeederTakes(priority) ==
  /\ feeder = "arrived" /\ arrived
  /\ arrived' = FALSE /\ ReadText
  /\ IF priority
     THEN /\ HandOver(buffered)
          /\ LoopEnd
          /\ UNCHANGED page
     ELSE /\ page' = buffered
          /\ feeder' = "holding"
          /\ UNCHANGED <<fed, leaked, gate>>
  /\ UNCHANGED <<opener, channel, ready, sent, delivered, control, input,
                 sizes>>

\* mutation: the wakeup is renewed after the drain
FeederDrawsThenRenews ==
  /\ feeder = "holding"
  /\ page' = 0 /\ arrived' = FALSE
  /\ HandOver(page)
  /\ UNCHANGED buffered
  /\ LoopEnd
  /\ UNCHANGED <<opener, channel, ready, sent, delivered, control, input,
                 sizes>>

FeederDraws ==
  /\ feeder = "holding"
  /\ page' = 0
  /\ HandOver(page)
  /\ UNCHANGED buffered
  /\ LoopEnd
  /\ UNCHANGED <<opener, channel, ready, sent, delivered, arrived, control,
                 input, sizes>>

Feeder == \/ FeederStarts \/ FeederPasses \/ FeederDraws
          \/ \E priority \in BOOLEAN : FeederTakes(priority)

\* The task group is cancelled.  Nothing closes a channel that is open.
Cancel ==
  /\ feeder \notin {"unstarted", "done", "cancelled"}
  /\ feeder' = "cancelled" /\ page' = 0
  /\ opener' = IF opener = "opening" THEN "cancelled" ELSE opener
  /\ UNCHANGED <<channel, ready, sent, delivered, buffered, fed, arrived, gate,
                 leaked, control, input, sizes>>

-----------------------------------------------------------------------------
(* Copy mode: Process.suspend and resume over pause_ and resume_reading.   *)

\* pause_reading.  A feeder that waits on the event it replaces waits for ever.
PauseReading ==
  /\ chanPaused' = (channel # None)
  /\ readingSet' = FALSE
  /\ gate' = IF feeder = "reading" /\ gate = "current" THEN "lost" ELSE gate

\* mutation: a suspended process is suspended again
SuspendsAgain == TRUE

MaySuspend == ~suspended

Suspend ==
  /\ MaySuspend
  /\ suspended' = TRUE /\ leaked' = 0
  /\ PauseReading
  /\ UNCHANGED <<opener, channel, ready, sent, delivered, buffered, page, fed,
                 arrived, feeder, input, sizes>>

Resume ==
  /\ suspended
  /\ suspended' = FALSE
  /\ chanPaused' = FALSE /\ readingSet' = TRUE
  /\ gate' = IF gate = "current" THEN "open" ELSE gate
  /\ UNCHANGED <<opener, channel, ready, sent, delivered, buffered, page, fed,
                 arrived, feeder, leaked, input, sizes>>

-----------------------------------------------------------------------------
(* The way in.                                                             *)

\* write_text: lost before the channel is there and after it is gone.  The
\* channel calls pause_writing past its high mark.
Write ==
  /\ channel = "open" /\ unsent <= High  \* bound
  /\ unsent' = unsent + 1
  /\ writable' = (writable /\ unsent' <= High)
  /\ UNCHANGED <<opener, channel, ready, output, control, waiter, sizes>>

Wakes(w) == IF w = "parked" THEN "woken" ELSE w

\* The remote takes a piece; at the low mark the channel calls resume_writing.
ChannelDrains ==
  /\ channel = "open" /\ unsent > 0
  /\ unsent' = unsent - 1
  /\ IF unsent' <= Low THEN writable' = TRUE /\ waiter' = Wakes(waiter)
     ELSE UNCHANGED <<writable, waiter>>
  /\ UNCHANGED <<opener, channel, ready, output, control, sizes>>

\* input_written
AsksWritten ==
  /\ waiter = "idle"
  /\ waiter' = IF writable THEN "woken" ELSE "parked"
  /\ UNCHANGED <<opener, channel, ready, output, control, unsent, writable,
                 sizes>>

WaiterReturns ==
  /\ waiter = "woken"
  /\ waiter' = "idle"
  /\ UNCHANGED <<opener, channel, ready, output, control, unsent, writable,
                 sizes>>

\* Process.set_size: only a size that is new is told, and only to a channel.
SetSize(s) ==
  /\ size' = s
  /\ told' = IF s # size /\ channel = "open" THEN s ELSE told
  /\ UNCHANGED <<opener, channel, ready, output, control, input>>

-----------------------------------------------------------------------------
Next ==
  \/ Start \/ Opens \/ Refused \/ RemoteSends \/ DataReceived \/ ConnectionLost
  \/ Feeder \/ Cancel
  \/ Suspend \/ Resume
  \/ Write \/ ChannelDrains \/ AsksWritten \/ WaiterReturns
  \/ \E s \in Sizes : SetSize(s)

Spec == Init /\ [][Next]_vars

\* The event loop runs every task that can run.  Nothing is asked of the
\* remote, and nothing of the person.
Fairness == WF_vars(Feeder) /\ WF_vars(WaiterReturns)

FairSpec == Spec /\ Fairness

-----------------------------------------------------------------------------
(* Properties.                                                             *)

\* asyncssh.py:43-46: the buffer is the truth and the event only the wakeup;
\* what arrives anywhere in the feeder's turn leaves a wakeup behind it.
NothingIsForgotten == buffered > 0 => arrived

\* base.py:134-139: a pause stops the output from being handed over, the screen
\* must not change meanwhile.  Here: nothing is taken out of the buffer in one.
PauseTakesNothing == [][suspended => page' + fed' <= page + fed]_vars

\* What is left of that promise here: a feeder that was let through before the
\* pause hands over one page in it, and no second one before a resume.
PauseHandsOverOnePage == leaked <= 1

\* Why PauseHandsOverOnePage holds: a suspended process has handed over no page
\* while its feeder may still hand one over.
LetThroughHandedNothing ==
  /\ suspended /\ feeder \in {"arrived", "holding"} => leaked = 0
  /\ suspended /\ feeder = "reading" /\ gate = "open" => leaked = 0

\* A resume reaches the feeder: it waits on no event but the one that is set.
ResumeReachesTheFeeder ==
  gate # "lost" /\ (feeder = "reading" /\ ~suspended => gate = "open")

\* asyncssh.py:127-132: the feeder that ends by itself has drawn everything the
\* remote sent that did not go with the connection: neither the end, which may
\* come in any of its turns, nor a pause around it drops a piece.
EndIsBehindTheLastPiece == feeder = "done" => fed = sent

\* Somebody who suspends a process resumes it.
AlwaysResumed == []<>~suspended

\* base.py:142-152: what the remote sent is handed over, through every pause.
EverythingIsFed ==
  AlwaysResumed =>
    \A n \in 1..MaxSent : delivered >= n ~> fed >= n \/ feeder = "cancelled"

\* asyncssh.py:63-68 and 127-132: the feeder ends with the session, with one
\* that was never made too, and a scope that is left does not wait for it.
FeederEnds ==
  AlwaysResumed => (ready ~> feeder \in {"done", "cancelled"})

\* asyncssh.py:191-193: a caller that waits is answered at the low mark, and
\* when the channel is lost with more than that in its buffer.
WaiterIsAnswered ==
  waiter = "parked" /\ (channel = "lost" \/ unsent <= Low) ~> waiter = "idle"

\* asyncssh.py:108-110: the pane sends its own size as soon as it knows it.
SizeReachesTheRemote ==
  channel = "open" /\ size # None ~> told = size \/ channel # "open"
=============================================================================
