------------------------------- MODULE Spawn -------------------------------
(***************************************************************************)
(* How programs are started: the half of the server (PosixBackend.start,   *)
(* fork_on_pipes), which blocks its event loop until the child has exec'd, *)
(* and the half of the child (run_in_child, run_on_pipes), which goes from *)
(* a copy of the server to a program of its own.  One program follows the  *)
(* other, but a child of the one may be between its fork and its exec for  *)
(* as long as it likes while the other is started.                         *)
(*                                                                         *)
(* Files are what a fork copies: <<p, end>> is an end of the pty or of a   *)
(* pipe that was made for p.  One action is one system call that somebody  *)
(* else can see, with those around it that nobody can.                     *)
(***************************************************************************)
EXTENDS Naturals, FiniteSets

CONSTANTS
  Programs,
  Ways   \* how a program is started: on a pty, on pipes, or either

ASSUME ProgramsAssumption == "nobody" \notin Programs
ASSUME WaysAssumption == Ways \subseteq {"pty", "pipes"}

VARIABLES
  way,      \* "pty": PosixBackend.start; "pipes": fork_on_pipes
  pc,       \* the server: "idle", or where in a start it is
  busy,     \* the program it is starting
  mask,     \* the server has SIGWINCH blocked
  held,     \* the files the server has open
  said,     \* exec_failure has read a reason
  outcome,  \* of a start: "none", "started", "refused"
  late,     \* it was said to be started because the time was up
  at,       \* where the child is
  files,    \* the files the child has open
  blocked,  \* the child has SIGWINCH blocked
  handler,  \* whose SIGWINCH handler the child has: "server's", "default"
  winch,    \* a SIGWINCH is pending in the child
  reason,   \* the child wrote why it could not start
  execd,    \* history: the child became the program
  ran       \* history: the server's handler ran in a child

server == <<pc, busy, mask, held, said, outcome, late>>
signals == <<blocked, handler, winch, ran>>
child == <<at, files, reason, execd, signals>>
vars == <<way, server, child>>

\* "stuck" is in a chdir that does not return; "shown" has written its
\* traceback to the pty and sleeps.
ChildStates ==
  {"unborn", "forked", "reset", "unblocked", "detached", "closed", "stuck",
   "execs", "failed", "running", "shown", "exited", "reaped"}

Ends == {"master", "slave", "out_read", "out_write", "read_end", "exec_end"}
Of(p, ends) == {p} \X ends

ServerOK ==
  /\ pc \in {"idle", "opened", "masked", "forked", "waiting", "reaping"}
  /\ busy \in Programs \cup {"nobody"} /\ (busy = "nobody" <=> pc = "idle")
  /\ mask \in BOOLEAN /\ said \in BOOLEAN
  /\ outcome \in [Programs -> {"none", "started", "refused"}]
  /\ late \in [Programs -> BOOLEAN]

FilesOK ==
  /\ way \in [Programs -> {"pty", "pipes"}]
  /\ held \subseteq Programs \X Ends
  /\ files \in [Programs -> SUBSET (Programs \X Ends)]

ChildrenOK ==
  /\ at \in [Programs -> ChildStates]
  /\ handler \in [Programs -> {"server's", "default"}]
  /\ blocked \in [Programs -> BOOLEAN] /\ winch \in [Programs -> BOOLEAN]
  /\ reason \in [Programs -> BOOLEAN] /\ execd \in [Programs -> BOOLEAN]
  /\ ran \in BOOLEAN

TypeOK == ServerOK /\ FilesOK /\ ChildrenOK

\* A PosixBackend has its pty from the beginning.
Init ==
  /\ way \in [Programs -> Ways]
  /\ pc = "idle" /\ busy = "nobody" /\ mask = FALSE /\ said = FALSE
  /\ held = UNION {Of(p, {"master", "slave"}) :
                     p \in {q \in Programs : way[q] = "pty"}}
  /\ outcome = [p \in Programs |-> "none"]
  /\ late = [p \in Programs |-> FALSE]
  /\ at = [p \in Programs |-> "unborn"]
  /\ files = [p \in Programs |-> {}]
  /\ reason = [p \in Programs |-> FALSE]
  /\ execd = [p \in Programs |-> FALSE]
  /\ blocked = [p \in Programs |-> FALSE]
  /\ handler = [p \in Programs |-> "server's"]
  /\ winch = [p \in Programs |-> FALSE]
  /\ ran = FALSE

\* The ends that close when the program has exec'd or gone.
WriteEnds(p) == IF way[p] = "pty" THEN Of(p, {"exec_end"})
                                  ELSE Of(p, {"exec_end", "out_write"})
\* What the program draws on.
OutputEnd(p) == IF way[p] = "pty" THEN <<p, "slave">> ELSE <<p, "out_write">>

Pipes(p) == IF way[p] = "pty"
              THEN Of(p, {"read_end", "exec_end"})
              ELSE Of(p, {"read_end", "exec_end", "out_read", "out_write"})

-----------------------------------------------------------------------------
(* The server.                                                             *)

Return(p, how) ==
  /\ outcome' = [outcome EXCEPT ![p] = how]
  /\ pc' = "idle" /\ busy' = "nobody"

\* exec_pipe, or the pipes of fork_on_pipes.
OpenPipes(p) ==
  /\ pc = "idle" /\ outcome[p] = "none"
  /\ held' = held \cup Pipes(p)
  /\ pc' = "opened" /\ busy' = p /\ said' = FALSE
  /\ UNCHANGED <<way, mask, outcome, late, child>>

\* Before anything is forked: the checks of Process.start, a `spawn` that
\* raises, no descriptors left.  What was made of the pipes is closed.
\* Process counts as started, and is not started again.
RefuseEarly(p) ==
  /\ pc = "idle" /\ outcome[p] = "none"
  /\ outcome' = [outcome EXCEPT ![p] = "refused"]
  /\ UNCHANGED <<way, pc, busy, mask, held, said, late, child>>

MaskWinch == pc' = "masked" /\ mask' = TRUE

Mask ==
  /\ pc = "opened"
  /\ MaskWinch
  /\ UNCHANGED <<way, busy, held, said, outcome, late, child>>

\* The child has a copy of every file, of the mask and of the handlers.
Fork ==
  /\ pc = "masked"
  /\ at' = [at EXCEPT ![busy] = "forked"]
  /\ files' = [files EXCEPT ![busy] = held]
  /\ blocked' = [blocked EXCEPT ![busy] = mask]
  /\ pc' = "forked"
  /\ UNCHANGED <<way, busy, mask, held, said, outcome, late, reason, execd,
                 handler, winch, ran>>

\* Both ends of the exec pipe, or everything that was made.
CloseAll == held \ Pipes(busy)

ForkRaises ==
  /\ pc = "masked"
  /\ mask' = FALSE
  /\ held' = CloseAll
  /\ Return(busy, "refused")
  /\ UNCHANGED <<way, said, late, child>>

\* The server's half goes on: the mask is as it was, and the ends that are
\* the child's are closed.
ForkReturns ==
  /\ pc = "forked"
  /\ mask' = FALSE
  /\ held' = held \ WriteEnds(busy)
  /\ pc' = "waiting"
  /\ UNCHANGED <<way, busy, said, outcome, late, child>>

\* Nobody has the write end of the exec pipe any more.
ExecEndClosed == \A p \in Programs : <<busy, "exec_end">> \notin files[p]

\* The read that finds it, in wait_for_exec and, with no reason before it,
\* in exec_failure.
WaitEnds ==
  /\ pc = "waiting" /\ ExecEndClosed
  /\ ~reason[busy]
  /\ held' = held \ Of(busy, {"read_end"})
  /\ Return(busy, "started")
  /\ UNCHANGED <<way, mask, said, late, child>>

\* exec_failure reads the reason, and goes on to the end of the pipe.
ReadReason ==
  /\ pc = "waiting" /\ reason[busy] /\ ~said
  /\ said' = TRUE
  /\ UNCHANGED <<way, pc, busy, mask, held, outcome, late, child>>

\* mutation: a failure closes the exec pipe and keeps the output
CloseReadEnd == held \ Of(busy, {"read_end"})

CloseReadEnds == held \ Of(busy, {"read_end", "out_read"})

FailureIsRead ==
  /\ pc = "waiting" /\ said /\ ExecEndClosed
  /\ held' = CloseReadEnds
  /\ pc' = "reaping"
  /\ UNCHANGED <<way, busy, mask, said, outcome, late, child>>

\* EXEC_SECONDS are over.  A reason that is not read by then is never read.
TimeIsUp ==
  /\ pc = "waiting"
  /\ IF said
       THEN /\ held' = CloseReadEnds
            /\ pc' = "reaping"
            /\ UNCHANGED <<busy, outcome, late>>
       ELSE /\ held' = held \ Of(busy, {"read_end"})
            /\ late' = [late EXCEPT ![busy] = TRUE]
            /\ Return(busy, "started")
  /\ UNCHANGED <<way, mask, said, child>>

\* waitpid, and the OSError with the reason.
ReapFailed ==
  /\ pc = "reaping" /\ at[busy] = "exited"
  /\ at' = [at EXCEPT ![busy] = "reaped"]
  /\ Return(busy, "refused")
  /\ UNCHANGED <<way, mask, held, said, late, files, reason, execd,
                 signals>>

\* PosixBackend._reap, or whoever called fork_on_pipes; the slave side goes.
Reap(p) ==
  /\ pc = "idle" /\ outcome[p] = "started" /\ at[p] = "exited"
  /\ at' = [at EXCEPT ![p] = "reaped"]
  /\ held' = held \ Of(p, {"slave"})
  /\ UNCHANGED <<way, pc, busy, mask, said, outcome, late, files, reason,
                 execd, signals>>

\* The pty is torn down or read to its end, the output of pipes likewise.
LetOutputGo(p) ==
  /\ pc = "idle" /\ outcome[p] = "started"
  /\ held \cap Of(p, {"master", "out_read"}) # {}
  /\ held' = held \ Of(p, {"master", "out_read"})
  /\ UNCHANGED <<way, pc, busy, mask, said, outcome, late, child>>

-----------------------------------------------------------------------------
(* The child.                                                              *)

Goes(p, from, to) == at[p] = from /\ at' = [at EXCEPT ![p] = to]

\* mutation: SIGWINCH is unblocked while its handler is the server's
UnblockFirst(p) ==
  \/ /\ Goes(p, "forked", "reset")
     /\ blocked' = [blocked EXCEPT ![p] = FALSE]
     /\ ran' = (ran \/ winch[p])
     /\ UNCHANGED <<handler, winch>>
  \/ /\ Goes(p, "reset", "unblocked")
     /\ handler' = [handler EXCEPT ![p] = "default"]
     /\ winch' = [winch EXCEPT ![p] = FALSE]
     /\ UNCHANGED <<blocked, ran>>

\* signal.signal drops what is pending; then the mask.  A SIGWINCH nobody
\* handles does nothing.
ResetThenUnblock(p) ==
  \/ /\ Goes(p, "forked", "reset")
     /\ handler' = [handler EXCEPT ![p] = "default"]
     /\ winch' = [winch EXCEPT ![p] = FALSE]
     /\ UNCHANGED <<blocked, ran>>
  \/ /\ Goes(p, "reset", "unblocked")
     /\ blocked' = [blocked EXCEPT ![p] = FALSE]
     /\ winch' = [winch EXCEPT ![p] = FALSE]
     /\ UNCHANGED <<handler, ran>>

TakeWinch(p) ==
  /\ ResetThenUnblock(p)
  /\ UNCHANGED <<way, server, files, reason, execd>>

\* The session and the three standard files; the reads' ends and the master
\* are closed by number.
Detach(p) ==
  /\ Goes(p, "unblocked", "detached")
  /\ files' = [files EXCEPT
                 ![p] = @ \ Of(p, {"master", "read_end", "out_read"})]
  /\ UNCHANGED <<way, server, reason, execd, signals>>

Exit(p) == files' = [files EXCEPT ![p] = {}]

\* No terminal to say why on, and the pipe to the server says only that the
\* child is gone.
DetachRaises(p) ==
  /\ way[p] = "pty" /\ Goes(p, "unblocked", "exited")
  /\ Exit(p)
  /\ UNCHANGED <<way, server, reason, execd, signals>>

\* mutation: the files are left to the exec to close
CloseFilesLate(p) ==
  /\ Goes(p, "detached", "closed")
  /\ UNCHANGED <<way, server, files, reason, execd, signals>>

\* Everything above stderr but the exec pipe, which closes by the exec.
CloseFiles(p) ==
  /\ Goes(p, "detached", "closed")
  /\ files' = [files EXCEPT ![p] = {OutputEnd(p), <<p, "exec_end">>}]
  /\ UNCHANGED <<way, server, reason, execd, signals>>

\* A pty's child goes on without a directory that is not there.
Chdir(p) ==
  /\ Goes(p, "closed", "execs")
  /\ UNCHANGED <<way, server, files, reason, execd, signals>>

ChdirHangs(p) ==
  /\ Goes(p, "closed", "stuck")
  /\ UNCHANGED <<way, server, files, reason, execd, signals>>

ChdirReturns(p) ==
  /\ \/ Goes(p, "stuck", "execs")
     \/ way[p] = "pipes" /\ Goes(p, "stuck", "failed")
  /\ UNCHANGED <<way, server, files, reason, execd, signals>>

\* Anything from setsid to the exec raises on pipes; on a pty the directory
\* does not.
Raises(p) ==
  /\ \/ Goes(p, "execs", "failed")
     \/ /\ way[p] = "pipes"
        /\ \E from \in {"unblocked", "detached", "closed"} :
             Goes(p, from, "failed")
  /\ UNCHANGED <<way, server, files, reason, execd, signals>>

\* The exec pipe closes by the exec.
Exec(p) ==
  /\ Goes(p, "execs", "running")
  /\ files' = [files EXCEPT ![p] = {OutputEnd(p)}]
  /\ execd' = [execd EXCEPT ![p] = TRUE]
  /\ UNCHANGED <<way, server, reason, signals>>

\* mutation: the traceback and its five seconds, and then the pipe
ShowKeepingPipe(p) ==
  /\ way[p] = "pty" /\ Goes(p, "failed", "shown")
  /\ UNCHANGED <<way, server, files, reason, execd, signals>>

\* On a pty the traceback is shown, behind the end of the exec pipe.
Show(p) ==
  /\ way[p] = "pty" /\ Goes(p, "failed", "shown")
  /\ files' = [files EXCEPT ![p] = @ \ Of(p, {"exec_end"})]
  /\ UNCHANGED <<way, server, reason, execd, signals>>

\* mutation: a child that could not start exits, and says nothing
ExitSilently(p) ==
  /\ way[p] = "pipes" /\ Goes(p, "failed", "exited")
  /\ Exit(p)
  /\ UNCHANGED <<way, server, reason, execd, signals>>

\* On pipes the reason is written, where anybody is left to read it.
SayWhy(p) ==
  /\ way[p] = "pipes" /\ at[p] = "failed"
  /\ IF reason[p] \/ <<p, "read_end">> \notin held
       THEN Goes(p, "failed", "exited") /\ Exit(p) /\ UNCHANGED reason
       ELSE reason' = [reason EXCEPT ![p] = TRUE] /\ UNCHANGED <<at, files>>
  /\ UNCHANGED <<way, server, execd, signals>>

\* The program ends, the five seconds of a traceback do, or the server kills
\* what it counts as started.  Nobody else kills a child before its exec.
ProgramEnds(p) ==
  /\ \/ at[p] \in {"running", "shown"}
     \/ outcome[p] = "started" /\ at[p] \notin {"exited", "reaped"}
  /\ at' = [at EXCEPT ![p] = "exited"]
  /\ Exit(p)
  /\ UNCHANGED <<way, server, reason, execd, signals>>

-----------------------------------------------------------------------------
(* The terminal the server itself runs in.                                 *)

\* Its foreground group: the server, and every child before its session.
InTheGroup == {p \in Programs : at[p] \in {"forked", "reset", "unblocked"}}

Resize ==
  /\ \E p \in InTheGroup : ~winch[p]
  /\ winch' = [p \in Programs |->
                 winch[p] \/ (p \in InTheGroup /\ blocked[p])]
  /\ ran' = (ran \/ \E p \in InTheGroup :
                      ~blocked[p] /\ handler[p] = "server's")
  /\ UNCHANGED <<way, server, at, files, reason, execd, blocked, handler>>

-----------------------------------------------------------------------------
ServerStep ==
  \/ Mask \/ Fork \/ ForkRaises \/ ForkReturns
  \/ WaitEnds \/ ReadReason \/ FailureIsRead \/ ReapFailed

ChildStep(p) ==
  \/ TakeWinch(p) \/ Detach(p) \/ DetachRaises(p) \/ CloseFiles(p)
  \/ Chdir(p) \/ Exec(p) \/ Raises(p) \/ Show(p) \/ SayWhy(p)

Next ==
  \/ ServerStep \/ TimeIsUp \/ Resize
  \/ \E p \in Programs :
       \/ OpenPipes(p) \/ RefuseEarly(p) \/ Reap(p) \/ LetOutputGo(p)
       \/ ChildStep(p) \/ ChdirHangs(p) \/ ChdirReturns(p)
       \/ ProgramEnds(p)

Spec == Init /\ [][Next]_vars

(***************************************************************************)
(* The server and a child run.  Not in here: that a chdir returns, that    *)
(* the five seconds of a start pass, or those of a traceback: what must    *)
(* happen at all must happen without waiting them out.                     *)
(***************************************************************************)
Fairness ==
  /\ WF_vars(ServerStep)
  /\ \A p \in Programs : WF_vars(ChildStep(p))

FairSpec == Spec /\ Fairness

-----------------------------------------------------------------------------
(* Properties.                                                             *)

\* spawn.py:89-93, posix.py:416-419: no resize of the server's terminal runs
\* its handler in a child, whenever it comes; and neither the server nor a
\* program is left deaf to a resize for it.
WinchIsHandedOver ==
  /\ ~ran
  /\ pc = "idle" => ~mask
  /\ \A p \in Programs : at[p] = "running" => ~blocked[p]

\* spawn.py:51-55: what is said to run has exec'd, unless the time was up.  A
\* start on a pty is answered too by a child that has gone, or that shows why
\* it could not; on pipes such a start is refused.
StartedMeansExecd ==
  \A p \in Programs : outcome[p] = "started" =>
    \/ late[p]
    \/ execd[p]
    \/ way[p] = "pty" /\ at[p] \in {"shown", "exited", "reaped"}

\* spawn.py:181-183: a program that cannot start leaves nothing behind, no
\* process and no pipe, in whichever step it failed; a pty outlives it.
RefusalLeavesNothing ==
  \A p \in Programs : outcome[p] = "refused" =>
    /\ at[p] \in {"unborn", "reaped"}
    /\ held \cap Pipes(p) = {}

\* _close_file_descriptors, ahead of chdir and exec: a child that may stay --
\* stuck in a directory, showing why it failed, or running -- has nothing of
\* another program's, and nothing of its own but what it draws on and, short
\* of its exec, the exec pipe.
StaysWithItsOwnOnly ==
  \A p \in Programs :
    /\ at[p] \in {"closed", "stuck", "execs"} =>
         files[p] = {OutputEnd(p), <<p, "exec_end">>}
    /\ at[p] \in {"shown", "running"} => files[p] = {OutputEnd(p)}
    /\ at[p] \in {"unborn", "exited", "reaped"} => files[p] = {}

\* A start returns without its five seconds, whatever becomes of the child,
\* unless that is stuck before its exec (spawn.py:111-112).
StartReturns ==
  \A p \in Programs : busy = p ~> (busy # p \/ at[p] = "stuck")

\* What the server has let go, nobody keeps but the program it is of: a child
\* of another that is stuck, shows why it failed, or runs, does not put off
\* the end of a file or a hang-up (_close_file_descriptors, before chdir).
NobodyKeepsAnothersFile ==
  \A p \in Programs : \A f \in Of(p, Ends \ {"read_end", "exec_end"}) :
    f \notin held ~>
      (f \in held \/ \A q \in Programs \ {p} : f \notin files[q])
=============================================================================
