# ptyhost, in TLA+

ptyhost runs a program on a pty (or on another machine over ssh) and pumps its
bytes, for whoever shows them: it starts the program, sizes its terminal, hands
its output over, writes its input, signals it, notices its end and stops it. It
parses nothing and draws nothing. All of it runs on one anyio event loop, with
one worker thread per child for `waitpid`.

This directory holds TLA+ specifications of that code, the TLC configurations
that check them on small instances, and TLAPS proofs of the properties that
matter most. `PROJECT.json` maps every definition that models code to the lines
it models, every property to the runs that check it and to a mutation of the
model that breaks it, and lists the hazards the properties were written for.

    tlc -config PtyOutput.cfg MCPtyOutput      # a run
    tlapm PtyOutputProofs.tla                  # the proofs

## The system

| part | source | state | operations |
|---|---|---|---|
| output pump | `backends/posix.py` `_pump`, `pause_reading`, `resume_reading`, `close`; `backends/posix_utils.py` `PtyReader`; `process.py` `_read`, `suspend`, `resume` | the master, the `_reading` event, `closed`, the held page, `suspended`, `_drained` | park, wait for the descriptor, read a page, feed it or hold it for a turn, raise, end |
| redraws | `process.py` `_feed`, `_pay_what_is_owed` | `_invalidated_at`, `_owed`, sleeping tasks | feed a page and draw, hold the redraw back, pay it later |
| input | `posix.py` `write_bytes`, `_write_the_rest`, `input_written`, `close` | `_unwritten`, the events `_written` and `_more_to_write` | write, queue, write the rest as there is room, answer who waits |
| lifecycle | `posix.py` `start`, `adopt`, `ended`, `_reap`, `_wait_for_child`, `stranger_ended`, `hang_up`, `send_signal`; `process.py` `_watch_end` | `pid`, `returncode`, `ready_f`, the slave side, the worker thread, the tasks of a grace | start, reap, poll a stranger, signal, hang up, tell of the end, cancel |
| hot upgrade | `KEEP` and `adopt` of `posix.py` and `process.py`, `after_thaw` | what one image of the code keeps for the next | stop in the middle of anything, adopt, start again |
| worker threads | `_reap` over `anyio.to_thread.run_sync` | who has a thread, who is in line | lend, give back, abandon |
| fork and exec | `spawn.py`, `posix.py` `start` | descriptors of every program, the exec pipe, the SIGWINCH mask and handler | fork, set the child up, wait for the exec, report a failure |
| remote backend | `backends/asyncssh.py` | the channel, `_receive_buffer`, the events `_arrived`, `_reading`, `_writable`, `ready_f` | open, be refused, receive, feed, lose the connection, pause, write, wait, size |
| recorder | `record.py` | the select loop, two deadlines, the events | record, stop the program |
| casts | `asciicast.py` | a decoder per direction, the time of the line before | events to lines |
| words and names | `ending.py`, `backends/darwin.py`, `utils.py`, `get_name`, `get_cwd` | a cache of a second | read the kernel's tables, name an end |

How they interact:

- The **pump** awaits a callback of `Process` after every page, which reads the
  page back from the backend and feeds it. A program without priority has its
  page held for one turn of the loop, and anything may happen in that turn. Of
  the embedder's callbacks only `receive` is guarded: an exception out of
  another ends the pump, and a turn later its task group.
- The **reaper** closes the slave side when the child is waited for; only then
  can the pump meet the end of the file. The **pump** closes the master at the
  end of the file and sets `_drained`, which is how the reaper of a *stranger*
  (a program another process forked) may learn of its end. Each ends first in
  some runs.
- **Cancelling the scope** reaches the pump, the writer, the reaper, the
  watcher and the tasks that wait out a grace, all at once.
- **Copy mode** (`suspend`) replaces the event the pump parks on, so that a
  resume cannot fall between a check and a wait. The remote backend does the
  same and pauses the channel as well.
- The **worker thread** of `waitpid` is the only thread a program has: it frees
  the pid and then stores the returncode, at any moment of the loop. All
  programs together share the forty that anyio lends.
- A **fork** copies the files of *every* program into the child, which goes
  through a dozen system calls as a copy of the server; the server blocks its
  loop on the exec pipe meanwhile. A child that is slow outlives that, and the
  next program is forked beside it.
- A **hot upgrade** execs a new image of the code: tasks and threads are gone
  wherever they were, children stay children, and `adopt` makes a backend of
  what was kept.

What is hard here is ordering: which of two ends comes first, what a turn of
the loop sees of a decision taken a turn before, which event object a task
parked on, whose copy of a file is still open, and whether a wakeup can be
lost. The hazards in `PROJECT.json` name each place. The properties that make
each part correct:

- output: no byte lost or drawn twice, the end read behind the last byte, a
  pause that holds, a resume that is never lost, a descriptor that is always
  let go;
- redraws: nothing stays undrawn longer than the limit; only a write that is
  still arriving is held back;
- input: every byte once and in order; who waits is answered, and truthfully;
- lifecycle: no program outlives its scope, a returncode is how the program
  ended, another process is signalled only where nobody here could know, every
  end is noticed and reaped;
- threads: what one program goes through is no other's business, beyond the
  wait for a thread;
- start: what is said to run has exec'd, what is refused leaves nothing, the
  server's handlers run in no child, nobody keeps another's files;
- remote: a wakeup for whatever is in the buffer, an end for every session, one
  that was never made too;
- recorder: everything drawn is recorded, and told in the cast.

## The modules

| module | models | checked by | proofs |
|---|---|---|---|
| `BackendOutput` | what `base.py` promises of a backend's output, abstractly | as `ImplementsBackendOutput` | |
| `PtyOutput` (`MCPtyOutput`) | the pump, the reader, pause and suspend, the upgrade | `output`, `output_held_page` | `PtyOutputProofs` |
| `PtyInput` (`MCPane`) | the way in | `pane` | `PtyInputProofs` |
| `Lifecycle` | start, end, signals, the upgrade | `life`, `life_stranger_hangup` | `LifecycleProofs` |
| `PosixBackend` (`MCPosixBackend`) | `PtyOutput` and `Lifecycle` together | `backend`, `backend_raised` | `PosixBackendProofs` |
| `Reapers` | many programs over few threads, each a `Lifecycle` | `reapers` | `ReapersProofs` |
| `Spawn` | fork, exec pipe, what a child is until its exec | `spawn` | `SpawnProofs` |
| `Redraw` (`MCPane`) | when what was fed is drawn | `pane` | `FeedProofs` |
| `SshBackend` (`MCPane`) | the remote backend under `Process` | `pane`, `ssh_pause`, `ssh_size` | `FeedProofs` |
| `Recorder` (`MCRecorder`) | `record` and `stop_the_program` | `recorder` | `RecorderProofs` |
| `Asciicast` | what `asciicast` makes of the recorder's events | extended by `Recorder` | `RecorderProofs` |

Conventions. One action is what a task does between two awaits: the loop runs
that without interruption, so a finer grain would invent interleavings and a
coarser one would hide them. Where there is no loop -- a child between fork and
exec, the recorder -- one action is one system call. An `anyio.Event` that the
code *replaces* (`_reading`, `_written`) is modelled with its identity -- a
number, a set of those that are set, and the number a task waits on -- because a
task that parked on the old object is what the code is careful about. One that
only its own waiter replaces (`_more_to_write`, `_arrived`) is a flag. A
definition that starts with a comment `mutation:` is a plausible mistake in the
one below it and is used by nothing but the mutation runs.

`PtyInput`, `SshBackend` and `Redraw` share no state with each other, and one run
checks them: in `MCPane` a behaviour is of one of the three, chosen at the start,
while the other two stay as they begin. That is less than every interleaving, and
enough: a property of one part reads that part's variables only.

### PtyOutput

Bytes are counted, not spelled: `wrote` by the program, `got` by a read, `fed`
to the screen. What the kernel holds is `wrote - got`. `pump` is where the task
is: `parked` on the event, `polling` the descriptor, `woken` by it and not yet
run, `held` while a page waits its turn, `raised` once an exception went through
its `finally`, `done`. A read takes at most `Page` bytes, answers the end when
nobody has the slave side open and nothing is left, and sets `closed`. `Suspend`
makes a fresh event; `Resume` sets the one there is. `Teardown` is a `close`
from outside; `CancelScope` and `PumpCancelled` are a cancelled group and the
moment the pump's await raises. `PumpRaises` is a tap that raises, before the
page is drawn, or an `invalidate` behind it; `PumpFails` is the group going with
it. The `finally` (`LetGo`) is part of every step that ends the pump.

`Upgrade` may come in any state `MayUpgrade` allows: whoever upgrades asks
`output_is_waiting` first, because no image keeps a held page. It leaves a
backend as `adopt` makes one, with its pump parked again by `after_thaw` if the
pane was in copy mode.

`ImplementsBackendOutput` is a refinement: with `sent <- wrote`, `handed <- got`,
`paused <- suspended`, every step of the pump is a step of the abstract contract
or a stutter -- nothing is handed over during a pause, and the end comes behind
the last byte.

### PtyInput

Bytes are numbered as they are given, so that order is visible. `Takes` is what
one `os.write` takes: some of what there is room for, or none (`EAGAIN`). The
writer is `idle` on `_more_to_write`, `polling` the descriptor, or `woken` by
it. Both answers of a platform to a write whose reader is gone are in: an error,
and a pty that takes bytes until it is full. `Close` under a writer that waits
for room is what `notify_closing` is there for; `EveryoneIsAnswered` has the
writer end with it.

### Lifecycle

`child` is what the program's *pid* names, as the kernel knows it: running, a
zombie, free, or somebody else's. That is what `waitpid`, `kill` and `kill(pid, 0)`
act on, and why `struck` (a signal reached another process) can be said. Four
kinds of backend: forked here, adopted by this process across an exec, a
stranger, ended before this image. The worker thread reaps and stores in two
steps. `KillAfterGrace` may come whenever a grace may be over. `Upgrade` turns a
fresh program into an adopted one, in any state of its reaper, also between the
thread's `waitpid` and the store of what it returned; a stranger stays one.
A cancel reaches whoever waits and is not woken yet: in `CancelScope` that
decides about the reaper of a stranger, which returns where `drained` woke it
first and kills where the cancel comes first.

### PosixBackend

The conjunction of the two over the slave side, the drained event and the
scope: a step of one that changes what is shared is a joint step with the other
(`Pump` with `Life!OutputDrains`, `Reap` with `Output!ReapLetsSlaveGo`,
`ProgramDies` with `Output!ProgramLetsGo`, `PumpFails` with `Life!CancelScope`,
the start, the cancel and the upgrade). `ImplementsComponents` then says that
each component still sees an environment it allows; the other properties are
about both at once. The input side is not composed: it shares only the master
and the scope, and nothing of the other two reads its state.

What is left behind by a failure depends on which of the pump's end and the
cancel a reaper learns of first. A scope that goes while the pump still runs
reaches both tasks, and every program is killed. A callback that raises ends the
pump a turn *before* its group is cancelled, and `_drained` with it. The reaper
of a child waits in `waitpid` and is cancelled all the same; that of a stranger
takes `_drained` for the end of the output and returns. So `FailureLeavesNothing`
speaks of every program in the first case and of this process's children in the
second, and `RaisedKillsTheProgram`, which would have strangers in too, is
violated (`backend_raised`).

### Reapers

Many programs, one task group, and `Threads` worker threads. `reap` is as in
`Lifecycle`, with one more place: `queued`, in line for a thread (`line`, in
order). `lent` is whom a thread is lent to. A reaper that is cancelled gives up
its place or its thread at once (`abandon_on_cancel`), while the thread itself
waits on. An adopted program that has ended needs no thread. What
`EachIsALifecycle` says is a refinement for each program: mapped to `Lifecycle`,
with `queued` seen as `spawning`, nothing one program does shows in another.

### Spawn

Two halves of a start for each of several programs. The server: `OpenPipes`,
`Mask`, `Fork`, the end of the wait in one of four ways, and behind it the close
of what was made. The child: a copy of the server's files, mask and handlers,
which takes the signals over, detaches, closes everything above stderr but the
exec pipe, changes directory and execs -- or fails at any of these, and tells why
as its way of being started has it: a traceback on the pty, a reason in the exec
pipe. `files[p]` is what the child of `p` has open, so that the end of a file is
`ExecEndClosed`: *nobody's* copy is left. `Resize` is the server's own terminal:
it signals the whole foreground group, to which a child belongs until its
`setsid`.

The server starts one program after the other, since it blocks; but the child of
the first may be anywhere between its fork and its end when the second is
forked. One assumption is about the world: nobody outside kills a child before
its exec, so a child goes by what it does itself, by its program's end, or by the
server once it counts as started.

### Redraw

Time is counted in ticks as *ages* (since the last redraw, since the oldest page
nobody has drawn) and *rests* (until a sleeper wakes), so there are finitely
many states and no end of time. `Tick` waits for a sleeper whose time is up: the
loop's latency is taken as short next to a sixtieth of a second, and the bound
proved is the code's, to which that latency adds. Several sleepers can be alive:
a short page pays a debt, and the sleeper made for it sleeps on.

### SshBackend

asyncssh is external, and modelled by what the backend relies on: no callback
before `create_session` returns, pieces in order, none while the channel is
paused, `connection_lost` last, and `pause_writing`/`resume_writing` at a high and
a low mark. `gate` stands for the identity of the event the feeder waits on:
set, current, or *lost* -- one that no resume will ever set. The size a pane has
(`size`) and the size the remote was told (`told`) are separate.

### Recorder and Asciicast

`record.py` has no event loop under it: the recorder, the program and the
person at the keyboard are three processes, so one action is one *system call*
of the recorder, and `pc` is the next one. What the pty holds towards the
recorder is drawn and not yet read, towards the program `keys`; both have a
limit, and the recorder's descriptors block. A deadline is `off`, `running` or
`up`, and may be up at any moment it runs; `settles` is `unstarted` until the
program has drawn. `Stop` ends the loop with its reason, one of which is an
exception that nothing catches: `os.write` to a program that is gone, on the
platforms where that raises. The program may draw, read, let the slave side go
and end, in any order or not at all, and may mind a SIGHUP or not.

What is drawn and typed are bytes of three sorts, a character, the first half of
one and its second half, and a recording is a sequence of events with a time in
microseconds. `Cast` is the loop of `asciicast()`: an incremental decoder for each
direction, a line for each event that gives text, the interval to the line
before. It is checked, over every interleaving of the two directions and every
cut that reads make, against a definition that decodes each direction as a
whole (`WholeText`, which looks at a byte and its neighbour and keeps no state),
and proved against it for every sequence of events. `EndedMeansComplete` says
what a recording that ends with its program is: in the output direction exactly
the bytes that were drawn, in order, those of whoever the program left behind
included.

Two things the module shows of the code. A program that neither reads nor goes
leaves `os.write` waiting once the pty is full; no deadline is looked at
then, so `--timeout` stops the recording "whatever is happening" only under
`WritesReturn` (TLC finds `timeout = "up" ~> ~Recording` violated without it). And
an `os.write` that raises ends the program and leaves no file.

## The runs

Passing runs find no error and explore the whole state space; each property has
a mutation in `PROJECT.json` that makes TLC find it violated. Type invariants
are in no run: `TypeOK` (`RedrawTypeOK` in `Redraw`, `InputTypeOK` in `PtyInput`)
is proved for every module that keeps state of its own.

| run | bounds | why they are enough |
|---|---|---|
| `output` | page 2, 3 bytes, 2 pauses in each image, with and without focus | a full and a short page; a pause, a resume and a pause again, which is what it takes to park on an old event; a write in every state of the pump; any number of upgrades |
| `life` | every kind, 2 graces at once, any number of upgrades | a hang-up during another's grace; everything else is finite already |
| `backend` | 1 byte, with focus, no pauses and no hang-ups | both ends in both orders with output left over; pauses, held pages and graces are checked where they live, in `output` and `life`: together with them the instance is out of reach. That each component is implemented, and `TerminatedMeansEnded`, are proved without these bounds; the three liveness properties are shown within them only |
| `reapers` | 3 programs, one of them adopted, over 2 threads | two that run on keep both threads and the third waits; an adopted one that needs a thread and one that does not, in line and ahead of it |
| `spawn` | 2 programs, each on a pty or on pipes | the second is forked beside the first in every state of it, in either order; a third would be beside the second as that is beside the first |
| `recorder` | a character drawn in two halves, a broken one typed, four times whose intervals round unevenly, room for 1 byte either way | output left behind a program that ends; a write that blocks half-way; each deadline before, during and after a call; keys between the halves of a character; half milliseconds of both parities |
| `pane`, the way in | 4 bytes in writes of up to 3, room for 2, 2 callers | a write larger than the room, a write behind it, a caller that waited before and one that asks after a second short write |
| `pane`, the remote | 3 pieces, marks 2 and 1, two sizes | a piece in the buffer, in the held page and on the screen at once; a writer past the high mark |
| `pane`, redraws | limit of 3 ticks, 3 sleepers due at a time | a debt, its payment by a page, and two later debts within one limit |

What the runs show: `output`, that under any interleaving of the pump with
pauses, teardown, cancellation, failure, upgrade and the program's end no byte is
lost and no resume, end of file or teardown is lost on it. `life`, that a
program's end is noticed and told as it was, and brought about by a hang-up.
`backend`, that the two together come to a complete end; that a scope that goes
while there is output to come leaves neither descriptor nor program; and that a
callback that raises leaves no descriptor and no child. `reapers`, that ends are
told in their turn and a scope that goes frees every thread. `spawn`, that the
hand-over between server and child is safe at every call. `pane`, that input
arrives in order and everybody who waits for it is answered, truthfully; that
what a remote sent is fed, that its feeder and its callers come to an end, and
that a pause lets through one page at most; and that the screen is never behind
what was fed for longer than the limit. `recorder`, that a recording is complete,
is told in the cast, ends in time, and ends its program.

Some properties hold under hypotheses that are part of the formula: nobody stays
in copy mode (`Listening`, `AlwaysResumed`); of the way in, the program goes
on reading or the pty is closed (`ReadsOrCloses`); in `recorder` no write of keys
blocks for good (`WritesReturn`); in `reapers` not every thread is kept for ever
by a program that runs on (`EveryThreadWaits`); in `life` no upgrade comes within
the grace, since the exec forgets the SIGKILL. Nothing of the environment is in
a fairness condition.

Five times the code does not do what a comment or a docstring says in a way that
a run shows: each checks one property and TLC finds it violated.

| run | the statement | what happens |
|---|---|---|
| `output_held_page` | `base.py`: the screen must not change while a person reads it | a program without focus has its page held for a turn; `suspend` comes in that turn; the page is fed all the same |
| `life_stranger_hangup` | `posix.py`: SIGHUP, and SIGKILL if it is still there | a stranger that closed its terminal and minds no SIGHUP is counted as ended, and never gets the SIGKILL |
| `backend_raised` | `posix.py`: abandoning the scope ends the pump and the reaper, which kills a program left behind rather than keeping it | a callback raises, the pump's `finally` sets `_drained`, and the reaper of a stranger returns before the cancel: a stranger that holds its terminal still is counted as ended, gets no SIGKILL, and runs on with nobody to read it |
| `ssh_pause` | `base.py`: a pause stops the output from being handed over, and the screen must not change in it | a feeder that waits in `_arrived` has passed the pause's gate; it takes a page out of the buffer in the pause and feeds it. The pause of the channel bounds that to what had arrived, unless it came before there was a channel: then what is sent behind it comes too, still in one page |
| `ssh_size` | `asyncssh.py`: the pane sends its own size as soon as it knows it | a size set before the channel is there is dropped, and remembered as told |

Some further sentences of the code hold with exceptions, which the formulas name
and passing runs check: `posix.py:585-586` has `send_signal` signal only a child
that is still there, which leaves out the windows of `StrikesOnlyUnknowing`
(between `waitpid` and the store of what it returned, before an adopting image has
looked, between two looks at a stranger); `record.py:31-33` has the timeout stop a
recording in any case, which it does unless a write of keys blocks
(`WritesReturn`); and the docstring of `_pump` has its wait raise whenever the
master goes, for which see below.

### Fairness

Fairness is stated per task, and only of what the event loop, the kernel's
delivery of SIGKILL and a running thread do by themselves: a task that can run
is run (`WF` of the pump, the feeder, the writer, the reaper, the watcher and the
callers), a timer fires, a thread whose `waitpid` can return returns, and anyio
lends a free thread to the first in line. It is weak everywhere: no step of a
task is enabled again and again without staying enabled, since anyio events stay
set and a descriptor at its end stays readable. Nothing is asked of the program
(it may write for ever, never read and never end), of the person (who may stay in
copy mode), of the remote, or of an upgrade. In `Spawn` the server's calls and
the child's are fair, and a `chdir` that hangs, the five seconds of a start and
those of a traceback are not: `StartReturns` says that a start does not live on
its deadline.

## What is proved

`tlapm` checks every proof to the last leaf. Every safety property that a passing
run checks is proved for all values of the constants. Some theorems state a
property that is in no run: most of them are the safety half of a liveness
property -- what must be so at the end, or on the way there, while the run shows
that the end comes.

**PtyOutputProofs** -- for every page size, amount of output and number of
pauses. The safety properties are not inductive alone: that a pump that is done
has drawn everything needs to know where a byte that was read may still be. The
invariant `IInv` adds: only a held page, or one lost to a failure or a cancel, is
read and not fed; `closed` is set only behind the last byte with nobody left to
write; the event of the moment is set exactly while nobody has paused; the
master is let go by the pump's end or a teardown. From it: `TypeCorrect`,
`PumpEndsDrained`, `WaitingIsTruthful`; the action properties
`PausedReadsNothing` (no byte leaves the kernel in a pause), `PauseDrawsOneHeldPage`
(and only the page held before it is drawn) and `FocusedScreenIsStill` (which is
`SuspendedScreenIsStill` for programs that always have priority --
`output_held_page` shows that the hypothesis is needed); and `Refinement`, that
the pump implements `BackendOutput`. An upgrade is a step of the proof like any
other: what makes it one is that `MayUpgrade` excludes a held page.
`ResumeReachesThePump` is about the identity of the event: whichever one the pump
parked on, before or between pauses, is set or is the one the next resume sets.
Out of it comes `UndrawnIsOnItsWay`, the safety half of `EveryByteIsDrawn`: in no
state is there output, nobody in copy mode and a pump that nothing will move.

**LifecycleProofs** -- for every mix of kinds and any number of graces. The
invariant says where the child is in each state of its reaper and its thread: a
reaper on its ordinary way has a thread that has stored the code, or is a
stranger's that the pump's end woke (`ThreadOK`); a
code is there only of a child that was waited for (`CodeOK`); a child whose pid is
free and whose code is not there is one the thread has just reaped, or one that
an adopting image has not looked at yet (`GoneOK`). From it: `TypeCorrect`,
`NoProgramOutlives`, `ReturncodeIsTruthful`, and `OnlyUnknowingStrikes`, which is
`GoneOK` at the moment of a signal. `ReturncodeStays` says who may change a code
that is there: nobody, but for the look of a new image at a child the old one
reaped, which loses it to no code at all, as the docstring of `_reaped_now` has
it. That is the upgrade between the thread's store and the mark of the end.

**PosixBackendProofs** -- the composition. `ComponentsAreImplemented` shows each
component implemented, for every bound of either: a joint step is a step of both
by its form, and what remains is that a step of one alone leaves alone what both
share. So the invariants proved of each alone hold of the two together, and
`TerminatedIsTrue` follows from them in a few lines: a read meets the end only
when nobody has the slave side open (output), this process lets its own go only
when the end is marked (lifecycle), and in an open scope that is behind the
`waitpid`. The two invariants are taken from the instances of the component's
proofs; none of their steps is proved again. Two more follow in the same way,
about states in which pump and reaper have both ended, in either order:
`BothEndedIsClean` (both sides of the pty are let go, and a program this process
is the parent of has ended or is killed -- nothing is said of a stranger, which
may be left running; the safety half of `FailureLeavesNothing`) and
`BothEndedIsComplete` (where they ended by themselves, every byte is drawn and the
code is how the program ended; that of `EndIsComplete`).

**PtyInputProofs** -- for every size of write and room, and any set of callers.
`Ordered` relates what the pty took and what waits to the bytes given: what waits
is the last of them without a gap, what was taken comes before; `Whole` adds that
none is lost while the pty is open and the program there. `AnswersOK` is what
makes an answer true: who waits on an event that is set has what it asked about
with the pty, which holds because a later short write makes a *new* event. From
them `InputArrivesInOrder`, `NobodyForgotten`, `AnswersAreTrue`, `TypeCorrect`.

**SpawnProofs** -- for any number of programs. What carries them is which files
and which mask there are at each call: every child short of its exec has the
write end of its exec pipe (`ChildOf`), so the end of that pipe means what the
server takes it for; the pipes of one program are apart from another's
(`PipesApart`), so a start next to it disturbs nothing; the server's mask is set
exactly around the fork, and a child has its handler reset before its mask goes
(`SignalsOf`). From them `WinchHandedOver`, `StartedHasExecd`,
`RefusalLeavesNoTrace`, `TypeCorrect`. `ChildrenKeepTheirOwn` is the safety half
of `NobodyKeepsAnothersFile`: between its fork and its close a child may have
every file of the server, and in any state it can stay in it has none of
another's. It needs a child's own steps and everybody else's, which leave its
files alone.

**ReapersProofs** -- for any number of programs and threads. `TypeCorrect` has
that no more threads are lent than there are; `EachLives` is the refinement,
`EachIsALifecycle`, for every program. The invariant has the line hold reapers
that wait for a thread, each once (`LineOK`), for which leaving the line from
the middle needs its own lemma, and nobody waited for whose reaper has no thread
yet. `EndsAreTheirOwn` (what is told of a program is its own end, or that it was
killed because the scope went, in line for a thread too) and `NoThreadIsLost`
(lent and line are *exactly* the reapers that wait and those that queue,
whichever way a reaper leaves) are proved together, over that invariant: they
are the safety halves of `EndIsToldInTurn` and `CancelledScopeFreesThreads`.

**FeedProofs** -- a page on its way to the screen, in two parts that share
nothing. *Redraw*, for every limit and any number of sleepers: the bound is not
inductive, as a tick would break it. `DebtIsPaidInTime` carries it: under a debt
there is a sleeper whose rest and the debt's age are within the limit together,
and a tick takes from one what it adds to the other. From it: `FloodIsDrawn`,
`ShortPagesAreDrawn`, `RedrawTypeCorrect`. *SshBackend*, for every number of
pieces and marks: `NothingForgotten` (a wakeup for whatever is in the buffer),
`PausedAfterOnePage` (at most one page in a pause, by way of
`LetThroughHandedNothing`: a feeder that was let through ahead of it has handed
over nothing since; that it is not none is what `ssh_pause` shows),
`ResumeReaches` (the feeder never waits on an event nobody sets), `TypeCorrect`;
and `NothingArrivedIsDropped`, that a feeder that ended by itself has drawn all
that was sent and did not go with the connection, from the conservation of pieces
between the channel, the buffer, the held page and the screen.

**RecorderProofs** -- for every script of the program and of the person, every
room of the pty, and recordings of any length. What `Cast` computes is defined by
recursion, and a theorem about it needs induction; the library's induction
theorems take an operator as a parameter, which no installed prover can
instantiate. So induction is done here once as a fact about *sets*: every
nonempty set of numbers has a least one (`LeastOf`, from the library's
well-founded order of the naturals), hence a set that has zero and goes on has
all numbers up to a bound (`AllTheWay`), hence a recursive function is there and
is one (`RecursionExists`, `OnlyOne`), so that it obeys its own equations. On
top of that, about the operators: `FlattenIsConcatenation`; `DecodeTells` and
`WholeTextAppend` (the decoder holds a byte exactly when the bytes so far end in
a first half, and each byte adds to the text of the whole what the decoder tells
for it); `LineTells` (one turn of the loop keeps that for its own direction and
leaves the other's alone). `CastTells` is the result: for *every* sequence of
events the cast has the text of all bytes of each direction, and the intervals
of version 3 up to a line add up to the time version 2 has for it.

About the recorder: at every moment the recording is the first part of what was
drawn (`DrawnIsRecorded`) and of what was typed (`TypedIsRecorded`, with the one
key that was read and not yet written), there are no more events than bytes,
and a recording that ends with the program has read everything, with nobody left
who could draw (`NothingBehindTheEnd`). These are
what `EndedMeansComplete` is short of being inductive by: a read is a cut
anywhere in what is unread, and completeness at the end is that nothing is left
of it. From them `EndedIsComplete`, `CastIsTrue` (by `CastTells`),
`NothingIsRecordedTwice`, `TypeCorrect`; and `StoppedIsReaped`, that
`stop_the_program` kills only behind a hang-up and its grace and leaves no zombie.

The assumptions are those of the constants (positive page, limit, room and
number of threads, a low mark under the high one, kinds and ways that the code
has), each named in the module that declares them and evaluated by its run.

The theorems whose property is in no run (`NoResumeIsLost`,
`UndrawnIsNotForgotten`, `ReturncodeIsNeverAnother`, `EndIsBehindTheLastPiece`,
`BothEndedLeavesNothing`, `BothEndedIsTheWholeEnd`, `EveryEndIsItsOwn`,
`ThreadsAreAccountedFor`, `StaysWithItsOwnOnly`, `DrawnIsRecorded`,
`TypedIsRecorded`, `StoppedMeansReaped`, `AskedBeforeKilled`, `TypeOK`) can be given
to TLC beside those of the cfg, and hold there too.

Model-checked only: liveness, since fairness and `ENABLED` are out of TLAPS's
reach. These are `EveryByteIsDrawn` and `PumpEnds` (`output`),
`EveryoneIsAnswered`, `EverythingIsFed`, `FeederEnds` and `WaiterIsAnswered`
(`pane`), `EndIsNoticed`, `ZombiesAreReaped` and `HungUpChildEnds` (`life`),
`EndIsComplete`, `FailureLeavesNothing` and `StrangerZombieIsNoticed` (`backend`),
`EndIsToldInTurn` and `CancelledScopeFreesThreads` (`reapers`), `StartReturns` and
`NobodyKeepsAnothersFile` (`spawn`), `ProgramIsEnded` and `TimeoutStops`
(`recorder`). The compositions are shown to implement `Init /\ [][Next]_vars` of
their components; the fairness they assume is stated anew for each.

## What is not modelled

- What bytes mean to the screen: the reader's decoder, the emulator. `PtyOutput`
  counts bytes; a character cut by the end of the file is read and never drawn.
- `ending.py`, `darwin.py`, `utils.py`, `get_name` and `get_cwd`: a table of words,
  and reads of the kernel's tables with a cache of a second.
- `asciicast.py`: the header, and resizes, which the recorder writes none of; the
  layout of the three recording files.
- `record.py` beyond its loop: arguments, an interrupt or a failing screen in the
  middle of it.
- A read by number of a master that a teardown closed between the selector's
  answer and the pump's turn: the number is taken to be free still, so the read
  fails and ends the output. The docstring of `_pump` has the wait raise in every
  such case; it does not in this one, and if another file has the number by then
  the read is of that file.
- An upgrade of a program that has ended, of a pty whose output has, or with a
  page held: whoever upgrades asks first. Keys that are not yet written at an
  upgrade are dropped by it; `PtyInput` has no upgrade.
- The composition of `PtyInput` with `PosixBackend`.
- A `close` ahead of the start, after which the fork has no master to give away.
- `kill`, `send_signal`, `get_name` and `get_cwd` of the remote backend: they keep
  no state on this side.
- `normal_priority.py` (one `setpriority` and an exec), packaging, nix.

## What is left

1. `PtyInput` composed with `PosixBackend`: one close, three tasks that learn of
   it.
2. A `Lifecycle` per program in `Spawn`: its `started` and `child` are the outcome
   and the child of a start.
