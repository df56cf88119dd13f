------------------------------ MODULE Recorder ------------------------------
(***************************************************************************)
(* The recorder of record.py: a process of its own between a person's      *)
(* keyboard and a program on a pty.  Its loop selects, reads keys, writes  *)
(* them to the program, reads what the program draws and looks at two      *)
(* deadlines; its `finally` ends the program.                              *)
(*                                                                         *)
(* The recorder, the program and the person are three processes, so one    *)
(* action is one system call of the recorder.  The master blocks.  When a  *)
(* deadline is up is open: a timer may be up at any moment it runs.        *)
(***************************************************************************)
EXTENDS Asciicast

CONSTANTS
  Drawn,     \* the bytes the program draws, as far as it goes on drawing
  Typed,     \* the bytes the person types, likewise
  Moments,   \* when the events of a recording happen, in microseconds
  OutRoom,   \* bytes the pty holds that the recorder has not read
  InRoom,    \* bytes the pty holds that the program has not read
  GoneRaises \* whether a write to a program that is gone may raise, as in
             \* PtyInput

ASSUME RoomsAssumption == OutRoom \in Nat \ {0} /\ InRoom \in Nat \ {0}
ASSUME ScriptAssumption ==
  /\ Drawn \in Seq(Byte) /\ Typed \in Seq(Byte)
  /\ Moments \in Seq(Nat) /\ Len(Moments) >= Len(Drawn) + Len(Typed)
ASSUME GoneRaisesAssumption == GoneRaises \subseteq BOOLEAN

VARIABLES
  pc,       \* the recorder's next system call: see Calls
  ready,    \* what the last select found readable
  reason,   \* why the recording stops; "none" before
  events,   \* the pieces that were read and typed
  inHand,   \* how many bytes of keys os.write has not written yet
  watched,  \* whether the keyboard is watched
  timeout,  \* ends_at: "off", "running", "up"
  settles,  \* settles_at, likewise
  grace,    \* the deadline in stop_the_program, likewise
  drew,     \* how many bytes the program wrote
  keys,     \* how many the pty holds that the program has not read
  typed,    \* how many the person typed that the recorder has not read
  typedAll, \* how many the person typed
  keyboardEnds, \* the person is done: a read gives nothing
  slave,    \* somebody has the slave side open
  child,    \* "running", "zombie", "reaped"
  pending,  \* signals sent to the child
  raises    \* the platform: a write to a program that is gone raises

program == <<drew, slave, child, pending>>
person == <<typed, typedAll, keyboardEnds>>
timers == <<timeout, settles, grace>>
vars == <<pc, ready, reason, events, inHand, watched, timers, program,
          keys, person, raises>>

Calls == {"deciding", "selecting", "keyboard", "typing", "master",
          "closing", "hangingUp", "grace", "killing", "waiting", "stopped"}

Timer == {"off", "unstarted", "running", "up"}

LoopOK ==
  /\ pc \in Calls /\ ready \subseteq {"keyboard", "master"}
  /\ reason \in {"none", "idle", "timeout", "ended", "raised"}
  /\ events \in Seq(Event)
  /\ inHand \in Nat /\ watched \in BOOLEAN
  /\ {timeout, settles, grace} \subseteq Timer

\* Nobody draws or types more than there is.
OthersOK ==
  /\ drew \in 0..Len(Drawn) /\ keys \in 0..InRoom
  /\ typedAll \in 0..Len(Typed) /\ typed \in 0..typedAll
  /\ {keyboardEnds, slave, raises} \subseteq BOOLEAN
  /\ child \in {"running", "zombie", "reaped"}
  /\ pending \subseteq {"HUP", "KILL"}

TypeOK == LoopOK /\ OthersOK

\* Whether --idle and --timeout were given is any choice.
Init ==
  /\ pc = "deciding" /\ ready = {} /\ reason = "none"
  /\ events = <<>> /\ inHand = 0 /\ watched \in BOOLEAN
  /\ timeout \in {"off", "running"} /\ settles \in {"off", "unstarted"}
  /\ grace = "off"
  /\ drew = 0 /\ keys = 0
  /\ typed = 0 /\ typedAll = 0 /\ keyboardEnds = FALSE
  /\ slave = TRUE /\ child = "running" /\ pending = {}
  /\ raises \in GoneRaises

Recorded(kind) == Len(BytesOf(events, kind))
Unread == drew - Recorded("out")

Records(kind, bytes) ==
  events' = Append(events, [kind |-> kind, bytes |-> bytes,
                            time |-> Moments[Len(events) + 1]])

Recording == pc \in {"deciding", "selecting", "keyboard", "typing", "master"}
DeadlineIsUp == timeout = "up" \/ settles = "up"

-----------------------------------------------------------------------------
(* The loop of record.                                                     *)

Stop(why) == pc' = "closing" /\ reason' = why

Decide ==
  /\ pc = "deciding"
  /\ IF DeadlineIsUp
     THEN Stop(IF settles = "up" THEN "idle" ELSE "timeout")
     ELSE pc' = "selecting" /\ UNCHANGED reason
  /\ UNCHANGED <<ready, events, inHand, watched, timers, program, keys,
                 person, raises>>

\* What select calls readable: the end of a file is readable for ever.
Readable == (IF watched /\ (typed > 0 \/ keyboardEnds) THEN {"keyboard"} ELSE {})
              \cup (IF Unread > 0 \/ ~slave THEN {"master"} ELSE {})

\* mutation: the wait does not end at the nearest deadline
SelectReturnsReadable == Readable # {}

SelectReturns == Readable # {} \/ DeadlineIsUp

Select ==
  /\ pc = "selecting" /\ SelectReturns
  /\ ready' = Readable
  /\ pc' = "keyboard"
  /\ UNCHANGED <<reason, events, inHand, watched, timers, program, keys,
                 person, raises>>

\* A page of keys, or the end of the keyboard, which is not watched further.
ReadKeyboard ==
  /\ pc = "keyboard"
  /\ IF "keyboard" \notin ready
     THEN pc' = "master" /\ UNCHANGED <<inHand, watched, typed>>
     ELSE /\ inHand' = typed /\ typed' = 0
          /\ watched' = (typed > 0)
          /\ pc' = IF typed > 0 THEN "typing" ELSE "master"
  /\ UNCHANGED <<ready, reason, events, timers, program, keys, typedAll,
                 keyboardEnds, raises>>

\* os.write blocks until the pty has taken every key.
WriteKey ==
  /\ pc = "typing" /\ inHand > 0 /\ keys < InRoom
  /\ keys' = keys + 1 /\ inHand' = inHand - 1
  /\ IF inHand' = 0
       THEN /\ Records("in", SubSeq(Typed, Recorded("in") + 1, typedAll - typed))
            /\ pc' = "master"
       ELSE UNCHANGED <<events, pc>>
  /\ UNCHANGED <<ready, reason, watched, timers, program, person, raises>>

\* Nothing catches it: the program is stopped, and no file is written.
WriteRaises ==
  /\ pc = "typing" /\ ~slave /\ raises
  /\ Stop("raised")
  /\ UNCHANGED <<ready, events, inHand, watched, timers, program, keys,
                 person, raises>>

\* mutation: a program that has gone ends the recording, read or not
AtTheEndIfGone == ~slave

AtTheEnd == ~slave /\ Unread = 0

\* Everything there is, up to sixteen pages, or the end of the file.
ReadMaster ==
  /\ pc = "master"
  /\ \/ /\ "master" \notin ready
        /\ pc' = "deciding" /\ UNCHANGED <<reason, events, settles>>
     \/ /\ "master" \in ready /\ AtTheEnd
        /\ Stop("ended") /\ UNCHANGED <<events, settles>>
     \/ /\ "master" \in ready /\ Unread > 0
        /\ Records("out", SubSeq(Drawn, Recorded("out") + 1, drew))
        /\ settles' = IF settles = "off" THEN "off" ELSE "running"
        /\ pc' = "deciding" /\ UNCHANGED reason
  /\ UNCHANGED <<ready, inHand, watched, timeout, grace, program, keys, person,
                 raises>>

-----------------------------------------------------------------------------
(* stop_the_program                                                        *)

\* Closing the master drops what nobody read and hangs the terminal up.
CloseMaster ==
  /\ pc = "closing"
  /\ pc' = "hangingUp"
  /\ UNCHANGED <<ready, reason, events, inHand, watched, timers, program,
                 keys, person, raises>>

HangUp ==
  /\ pc = "hangingUp"
  /\ pending' = pending \cup {"HUP"}
  /\ grace' = "running"
  /\ pc' = "grace"
  /\ UNCHANGED <<ready, reason, events, inHand, watched, timeout, settles,
                 drew, slave, child, keys, person, raises>>

\* waitpid, now and again for as long as the grace lasts.
GraceFindsEnded ==
  /\ pc = "grace" /\ child = "zombie"
  /\ child' = "reaped" /\ pc' = "stopped"
  /\ UNCHANGED <<ready, reason, events, inHand, watched, timers, drew, slave,
                 pending, keys, person, raises>>

GraceIsOver ==
  /\ pc = "grace" /\ grace = "up"
  /\ pc' = "killing"
  /\ UNCHANGED <<ready, reason, events, inHand, watched, timers, program,
                 keys, person, raises>>

\* mutation: the program is asked again and not made to end
HangsUpAgain ==
  /\ pc = "killing"
  /\ pending' = pending \cup {"HUP"} /\ pc' = "waiting"
  /\ UNCHANGED <<ready, reason, events, inHand, watched, timers, drew, slave,
                 child, keys, person, raises>>

Kill ==
  /\ pc = "killing"
  /\ pending' = pending \cup {"KILL"} /\ pc' = "waiting"
  /\ UNCHANGED <<ready, reason, events, inHand, watched, timers, drew, slave,
                 child, keys, person, raises>>

WaitFindsEnded ==
  /\ pc = "waiting" /\ child = "zombie"
  /\ child' = "reaped" /\ pc' = "stopped"
  /\ UNCHANGED <<ready, reason, events, inHand, watched, timers, drew, slave,
                 pending, keys, person, raises>>

-----------------------------------------------------------------------------
(* The program, the person and the clock.                                  *)

MasterIsOpen == Recording \/ pc = "closing"

ProgramDraws ==
  /\ slave /\ MasterIsOpen /\ Unread < OutRoom /\ drew < Len(Drawn)
  /\ drew' = drew + 1
  /\ UNCHANGED <<pc, ready, reason, events, inHand, watched, timers, slave,
                 child, pending, keys, person, raises>>

ProgramReads ==
  /\ slave /\ keys > 0
  /\ keys' = keys - 1
  /\ UNCHANGED <<pc, ready, reason, events, inHand, watched, timers, program,
                 person, raises>>

\* The last who had the slave side open lets it go; it need not have ended.
LetsGo ==
  /\ slave
  /\ slave' = FALSE
  /\ UNCHANGED <<pc, ready, reason, events, inHand, watched, timers, drew,
                 child, pending, keys, person, raises>>

\* The program ends; a descendant may have the slave side open still.
Dies == /\ child = "running" /\ child' = "zombie" /\ slave' \in {slave, FALSE}
        /\ UNCHANGED <<pc, ready, reason, events, inHand, watched, timers,
                       drew, pending, keys, person, raises>>

\* By itself, or because it minds a SIGHUP.
Exits == Dies
IsKilled == "KILL" \in pending /\ Dies

Types ==
  /\ typedAll < Len(Typed) /\ ~keyboardEnds
  /\ typed' = typed + 1 /\ typedAll' = typedAll + 1
  /\ UNCHANGED <<pc, ready, reason, events, inHand, watched, timers, program,
                 keys, keyboardEnds, raises>>

KeyboardEnds ==
  /\ ~keyboardEnds
  /\ keyboardEnds' = TRUE
  /\ UNCHANGED <<pc, ready, reason, events, inHand, watched, timers, program,
                 keys, typed, typedAll, raises>>

TimeoutIsUp ==
  /\ timeout = "running" /\ timeout' = "up"
  /\ UNCHANGED <<pc, ready, reason, events, inHand, watched, settles, grace,
                 program, keys, person, raises>>

IdleIsUp ==
  /\ settles = "running" /\ settles' = "up"
  /\ UNCHANGED <<pc, ready, reason, events, inHand, watched, timeout, grace,
                 program, keys, person, raises>>

GraceIsUp ==
  /\ grace = "running" /\ grace' = "up"
  /\ UNCHANGED <<pc, ready, reason, events, inHand, watched, timeout,
                 settles, program, keys, person, raises>>

-----------------------------------------------------------------------------
LoopStep == Decide \/ Select \/ ReadKeyboard \/ WriteKey \/ WriteRaises \/ ReadMaster

StopStep == \/ CloseMaster \/ HangUp \/ GraceFindsEnded \/ GraceIsOver \/ Kill
            \/ WaitFindsEnded

Next ==
  \/ LoopStep \/ StopStep
  \/ ProgramDraws \/ ProgramReads \/ LetsGo \/ Exits \/ IsKilled
  \/ Types \/ KeyboardEnds
  \/ TimeoutIsUp \/ IdleIsUp \/ GraceIsUp

Spec == Init /\ [][Next]_vars

\* The recorder's calls return when they can, the grace passes, and SIGKILL
\* kills.  Nothing is asked of the program or the person.
Fairness == /\ WF_vars(LoopStep) /\ WF_vars(StopStep)
            /\ WF_vars(GraceIsUp) /\ WF_vars(IsKilled)

FairSpec == Spec /\ Fairness

-----------------------------------------------------------------------------
(* Properties.                                                             *)

\* record.py:19-21: a recording that stops because the program ended has
\* everything that was drawn, by the program and by whoever it left behind.
EndedMeansComplete ==
  reason = "ended" => BytesOf(events, "out") = SubSeq(Drawn, 1, drew)

\* Why EndedMeansComplete holds: whenever it looks, the recording is the first
\* of what was drawn and of what was typed, each byte once and in order.
DrawnIsRecorded ==
  /\ Recorded("out") <= drew
  /\ BytesOf(events, "out") = SubSeq(Drawn, 1, Recorded("out"))

TypedIsRecorded ==
  /\ Recorded("in") <= typedAll - typed
  /\ BytesOf(events, "in") = SubSeq(Typed, 1, Recorded("in"))
  /\ pc = "typing" => Recorded("in") < typedAll - typed
  /\ pc # "typing" /\ reason # "raised" => Recorded("in") = typedAll - typed

\* ... no event without a byte, and nothing drawn behind the end.
EventsHaveBytes == Len(events) <= Recorded("out") + Recorded("in")
NothingBehindTheEnd ==
  /\ reason = "none" <=> Recording
  /\ reason = "ended" => ~slave /\ Unread = 0

\* A recording that is written: whatever the reads cut, and whichever of the
\* two directions came between, the cast has the text of all the bytes of each
\* direction, up to a character that was never finished (asciicast.py:58-61),
\* and no rounding adds up over it (asciicast.py:69-70).
CastTellsTheRecording ==
  pc = "stopped" /\ reason # "raised" =>
    LET lines == Cast(events) IN
      /\ \A kind \in Kind :
           TextOf(lines, kind) = WholeText(BytesOf(events, kind))
      /\ TimesAgree(lines)

\* record.py:105-113: whatever stops the recording, the program has ended and
\* been waited for in the end, also one that ignores both of the ways to ask.
ProgramIsEnded == ~Recording ~> (pc = "stopped" /\ child = "reaped")

\* record.py:105-113: once it is stopped, the program was waited for; and it is
\* killed only behind the hangup and the grace.
StoppedMeansReaped == pc = "stopped" <=> child = "reaped"
AskedBeforeKilled ==
  /\ pc \in {"grace", "killing", "waiting"} => "HUP" \in pending
  /\ pc = "killing" \/ "KILL" \in pending => "HUP" \in pending /\ grace = "up"
  /\ "KILL" \in pending => pc \in {"waiting", "stopped"}

\* No write of keys blocks for good: the one call no deadline bounds.
WritesReturn == []<>(pc # "typing")

\* record.py:31-33: the timeout stops the recording whatever is happening --
\* what does not hold while the recorder is blocked writing keys.
TimeoutStops == WritesReturn => (timeout = "up" ~> ~Recording)
=============================================================================
