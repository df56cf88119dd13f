------------------------------ MODULE Reapers ------------------------------
(***************************************************************************)
(* The reapers of many programs in one task group.  Each waits for its     *)
(* child in a worker thread, and anyio lends at most Threads of those at a *)
(* time: a reaper that finds none waits in line for one (_reap over        *)
(* anyio.to_thread.run_sync with abandon_on_cancel).                       *)
(*                                                                         *)
(* Each program alone is a Lifecycle, of the kinds this process is the     *)
(* parent of; what is new here is who is told while others run on.         *)
(***************************************************************************)
EXTENDS Naturals, Sequences, FiniteSets

CONSTANTS
  Programs,
  Adopted,  \* those that ran before this image of the code was exec'd
  Threads   \* how many worker threads are lent at one time (40 in anyio)

ASSUME AdoptedAssumption == Adopted \subseteq Programs
ASSUME ThreadsAssumption == Threads \in Nat \ {0}

VARIABLES
  child,    \* "unborn", "running", "zombie", "free"
  died,     \* how it ended
  killed,   \* a SIGKILL is on its way to it
  reap,     \* where its reaper is; "queued" waits for a thread
  thread,   \* its worker thread
  line,     \* the reapers that wait for a thread
  lent,     \* whom a thread is lent to
  watcher,  \* Process._watch_end
  code,     \* its returncode
  scope     \* the task group of them all

vars == <<child, died, killed, reap, thread, line, lent, watcher, code,
          scope>>

ReapStates == {"none", "scheduled", "queued", "waiting", "resumed", "done"}

TasksOK ==
  /\ child \in [Programs -> {"unborn", "running", "zombie", "free"}]
  /\ died \in [Programs -> {"no", "exited", "killed"}]
  /\ killed \in [Programs -> BOOLEAN]
  /\ reap \in [Programs -> ReapStates]
  /\ thread \in [Programs -> {"none", "waitpid", "returned", "stored"}]
  /\ watcher \in [Programs -> {"none", "waiting", "told", "cancelled"}]
  /\ code \in [Programs -> {"None", "exited", "killed", "no"}]
  /\ scope \in {"open", "cancelled"}

LimiterOK ==
  /\ line \in Seq(Programs)
  /\ lent \in SUBSET Programs /\ IsFiniteSet(lent)
  /\ Cardinality(lent) <= Threads

TypeOK == TasksOK /\ LimiterOK

Init ==
  /\ child = [p \in Programs |->
                IF p \in Adopted THEN "running" ELSE "unborn"]
  /\ died = [p \in Programs |-> "no"]
  /\ killed = [p \in Programs |-> FALSE]
  /\ reap = [p \in Programs |-> "none"]
  /\ thread = [p \in Programs |-> "none"]
  /\ line = <<>> /\ lent = {}
  /\ watcher = [p \in Programs |-> "none"]
  /\ code = [p \in Programs |-> "None"]
  /\ scope = "open"

ReadyF(p) == reap[p] = "done"

-----------------------------------------------------------------------------
(* The reapers.                                                            *)

\* The fork, of a fresh one; a reaper and a watcher in the group.
Start(p) ==
  /\ reap[p] = "none" /\ scope = "open"
  /\ child' = [child EXCEPT ![p] = IF @ = "unborn" THEN "running" ELSE @]
  /\ reap' = [reap EXCEPT ![p] = "scheduled"]
  /\ watcher' = [watcher EXCEPT ![p] = "waiting"]
  /\ UNCHANGED <<died, killed, thread, line, lent, code, scope>>

\* mutation: an adopted child is waited for like any other
EveryoneNeedsThread(p) == TRUE

\* An adopted child that has ended is reaped at once.
NeedsThread(p) == p \in Adopted => child[p] = "running"

ReapFindsEnded(p) ==
  /\ reap[p] = "scheduled" /\ ~NeedsThread(p)
  /\ child' = [child EXCEPT ![p] = "free"]
  /\ code' = [code EXCEPT ![p] = died[p]]
  /\ reap' = [reap EXCEPT ![p] = "done"]
  /\ UNCHANGED <<died, killed, thread, line, lent, watcher, scope>>

\* Into the line, behind the checkpoint of run_sync.
ReapQueues(p) ==
  /\ reap[p] = "scheduled" /\ NeedsThread(p)
  /\ reap' = [reap EXCEPT ![p] = "queued"]
  /\ line' = Append(line, p)
  /\ UNCHANGED <<child, died, killed, thread, lent, watcher, code, scope>>

\* The first in line gets the thread that is free.
ReapGetsThread ==
  /\ line # <<>> /\ Cardinality(lent) < Threads
  /\ LET p == Head(line) IN
       /\ lent' = lent \cup {p}
       /\ reap' = [reap EXCEPT ![p] = "waiting"]
       /\ thread' = [thread EXCEPT ![p] = "waitpid"]
  /\ line' = Tail(line)
  /\ UNCHANGED <<child, died, killed, watcher, code, scope>>

\* waitpid returns, and then its code is stored.
ThreadReaps(p) ==
  /\ thread[p] = "waitpid" /\ child[p] = "zombie"
  /\ child' = [child EXCEPT ![p] = "free"]
  /\ thread' = [thread EXCEPT ![p] = "returned"]
  /\ UNCHANGED <<died, killed, reap, line, lent, watcher, code, scope>>

ThreadStores(p) ==
  /\ thread[p] = "returned"
  /\ code' = [code EXCEPT ![p] = died[p]]
  /\ thread' = [thread EXCEPT ![p] = "stored"]
  /\ UNCHANGED <<child, died, killed, reap, line, lent, watcher, scope>>

ReapWakes(p) ==
  /\ reap[p] = "waiting" /\ thread[p] = "stored"
  /\ reap' = [reap EXCEPT ![p] = "resumed"]
  /\ UNCHANGED <<child, died, killed, thread, line, lent, watcher, code,
                 scope>>

ReapReturns(p) ==
  /\ reap[p] = "resumed"
  /\ lent' = lent \ {p}
  /\ reap' = [reap EXCEPT ![p] = "done"]
  /\ UNCHANGED <<child, died, killed, thread, line, watcher, code, scope>>

\* mutation: only a child that a thread waits for is killed
KillIfWaiting(p) == reap[p] = "waiting"

SendKill(p) == code[p] = "None"

\* mutation: a cancel waits for the thread's wait
WaitsForThread(p) == reap[p] = "queued" \/ thread[p] = "stored"

\* abandon_on_cancel
Abandons(p) == reap[p] \in {"queued", "waiting"}

LeavesLine(p) ==
  IF reap[p] = "queued"
    THEN \E i \in 1..Len(line) :
           /\ line[i] = p
           /\ line' = SubSeq(line, 1, i - 1) \o SubSeq(line, i + 1, Len(line))
    ELSE UNCHANGED line

\* In line or in a thread: the child is killed, the place in the line and
\* the thread given up.  The thread itself waits on.
ReapCancelled(p) ==
  /\ scope = "cancelled" /\ reap[p] \in {"queued", "waiting"} /\ Abandons(p)
  /\ killed' = [killed EXCEPT ![p] = @ \/ (child[p] = "running" /\ SendKill(p))]
  /\ LeavesLine(p)
  /\ lent' = lent \ {p}
  /\ reap' = [reap EXCEPT ![p] = "done"]
  /\ UNCHANGED <<child, died, thread, watcher, code, scope>>

WatcherTells(p) ==
  /\ watcher[p] = "waiting" /\ ReadyF(p)
  /\ watcher' = [watcher EXCEPT ![p] = "told"]
  /\ UNCHANGED <<child, died, killed, reap, thread, line, lent, code,
                 scope>>

\* The group goes, once everything in it is started.
CancelScope ==
  /\ scope = "open" /\ \A p \in Programs : reap[p] # "none"
  /\ scope' = "cancelled"
  /\ watcher' = [p \in Programs |->
                   IF watcher[p] = "waiting" /\ ~ReadyF(p) THEN "cancelled"
                                                           ELSE watcher[p]]
  /\ UNCHANGED <<child, died, killed, reap, thread, line, lent, code>>

-----------------------------------------------------------------------------
(* The programs.                                                           *)

Dies(p, way) ==
  /\ child[p] = "running"
  /\ child' = [child EXCEPT ![p] = "zombie"]
  /\ died' = [died EXCEPT ![p] = way]
  /\ killed' = [killed EXCEPT ![p] = FALSE]
  /\ UNCHANGED <<reap, thread, line, lent, watcher, code, scope>>

Exits(p) == Dies(p, "exited")
IsKilled(p) == killed[p] /\ Dies(p, "killed")

ReaperStep(p) ==
  \/ ReapFindsEnded(p) \/ ReapQueues(p) \/ ReapWakes(p) \/ ReapReturns(p)
  \/ ReapCancelled(p)

ThreadStep(p) == ThreadReaps(p) \/ ThreadStores(p)

Next ==
  \/ ReapGetsThread \/ CancelScope
  \/ \E p \in Programs :
       \/ Start(p) \/ ReaperStep(p) \/ ThreadStep(p) \/ WatcherTells(p)
       \/ Exits(p) \/ IsKilled(p)

Spec == Init /\ [][Next]_vars

\* As in Lifecycle; of anyio, that a free thread is lent to who waits.
Fairness ==
  /\ WF_vars(ReapGetsThread)
  /\ \A p \in Programs :
       /\ WF_vars(ReaperStep(p)) /\ WF_vars(ThreadStep(p))
       /\ WF_vars(WatcherTells(p)) /\ WF_vars(IsKilled(p))

FairSpec == Spec /\ Fairness

-----------------------------------------------------------------------------
(* Properties.                                                             *)

\* What each program goes through is what Lifecycle says, the others and the
\* line for the threads notwithstanding: nothing shared leaks from one
\* program's end into another's.
Life(p) == INSTANCE Lifecycle WITH
  Kinds      <- {"fresh", "adopted"},
  MaxHangUps <- 0,
  kind       <- IF p \in Adopted THEN "adopted" ELSE "fresh",
  started    <- reap[p] # "none",
  child      <- child[p],
  died       <- died[p],
  pending    <- IF killed[p] THEN {"KILL"} ELSE {},
  struck     <- FALSE,
  reap       <- IF reap[p] = "queued" THEN "spawning" ELSE reap[p],
  thread     <- thread[p],
  returncode <- code[p],
  readyF     <- ReadyF(p),
  slave      <- p \notin Adopted /\ ~ReadyF(p),
  drained    <- FALSE,
  killers    <- 0,
  watcher    <- watcher[p],
  scope      <- scope

EachIsALifecycle ==
  /\ \A p \in Programs : Life(p)!Init
  /\ [][\A p \in Programs : [Life(p)!Next]_(Life(p)!vars)]_vars

\* An end is told of each program as it was its own, whoever shares the threads
\* with it: whose end is marked was waited for, or is killed since the scope
\* went first, wherever its reaper was then -- in line for a thread, too.
EveryEndIsItsOwn ==
  \A p \in Programs :
    /\ code[p] # "None" => code[p] = died[p] /\ child[p] = "free"
    /\ ReadyF(p) =>
         \/ code[p] # "None"
         \/ scope = "cancelled" /\ (child[p] # "running" \/ killed[p])

\* posix.py:591-597: no thread and no place in line is lost or kept, whichever
\* way a reaper ends: who waits in a thread has been lent one, who is queued is
\* in line, and nobody else is either.
ThreadsAreAccountedFor ==
  /\ lent = {p \in Programs : reap[p] \in {"waiting", "resumed"}}
  /\ {line[i] : i \in DOMAIN line} = {p \in Programs : reap[p] = "queued"}
  /\ \A i, j \in DOMAIN line : line[i] = line[j] => i = j

\* Every thread is lent, and each to a program that runs.
EveryThreadWaits ==
  /\ Cardinality(lent) = Threads
  /\ \A p \in lent : child[p] = "running"

\* An end is told in its turn, unless from some moment on every thread waits
\* for a program that runs on; and at once, whatever the others do, if it
\* came before an adopted program was looked at (_reaped_now).
EndIsToldInTurn ==
  \A p \in Programs :
    /\ []<>~EveryThreadWaits =>
         (child[p] = "zombie" /\ reap[p] # "none" ~> ReadyF(p))
    /\ (p \in Adopted /\ reap[p] = "scheduled" /\ child[p] = "zombie")
         ~> ReadyF(p)

\* posix.py:579-582: a scope that goes frees the threads, those whose wait was
\* abandoned too, and every program ends, those that wait in line too.
CancelledScopeFreesThreads ==
  scope = "cancelled" ~>
    /\ lent = {} /\ line = <<>>
    /\ \A p \in Programs : thread[p] # "waitpid" /\ child[p] # "running"
=============================================================================
