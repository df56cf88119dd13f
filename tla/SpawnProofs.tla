---------------------------- MODULE SpawnProofs ----------------------------
(***************************************************************************)
(* How programs are started, for any number of them: SIGWINCH is handed    *)
(* over, what is said to run has exec'd, and a refusal leaves nothing.     *)
(*                                                                         *)
(* What carries them is which files and which mask there are at each call  *)
(* of the server and of a child, so that the end of the exec pipe means    *)
(* what the server takes it for.                                           *)
(***************************************************************************)
EXTENDS Spawn, TLAPS

USE ProgramsAssumption, WaysAssumption

\* A child that has neither exec'd nor gone nor shown why.
Early == {"forked", "reset", "unblocked", "detached", "closed", "stuck",
          "execs", "failed"}

\* The mask and the handler, call by call.
SignalsOf(p) ==
  /\ at[p] = "forked" => blocked[p]
  /\ at[p] \in {"reset", "unblocked"} => handler[p] = "default"
  /\ at[p] \in {"unblocked", "detached", "closed", "stuck", "execs", "failed",
                "running", "shown"} => ~blocked[p]

\* Where a start is, and where its child is.
StartOf(p) ==
  /\ outcome[p] = "none" /\ busy # p => at[p] = "unborn"
  /\ busy = p => outcome[p] = "none"
  /\ busy = p /\ pc \in {"opened", "masked"} => at[p] = "unborn"
  /\ busy = p /\ pc \in {"forked", "waiting", "reaping"} =>
       at[p] \notin {"unborn", "reaped"}
  /\ busy = p /\ pc = "reaping" => reason[p]
  /\ busy = p /\ said => reason[p]

\* What it has open.
HoldsOf(p) ==
  /\ outcome[p] = "none" /\ busy # p => held \cap Pipes(p) = {}
  /\ busy = p /\ pc \in {"opened", "masked", "forked"} => Pipes(p) \subseteq held
  /\ busy = p /\ pc = "waiting" =>
       <<p, "read_end">> \in held /\ held \cap WriteEnds(p) = {}
  /\ busy = p /\ pc = "reaping" => held \cap Pipes(p) = {}

\* What the end of the exec pipe tells of a child.
ChildOf(p) ==
  /\ at[p] \in Early => <<p, "exec_end">> \in files[p]
  /\ at[p] = "running" => execd[p]
  /\ at[p] = "shown" => way[p] = "pty"
  /\ way[p] = "pipes" /\ at[p] \in {"exited", "reaped"} /\ outcome[p] # "started"
       => execd[p] \/ reason[p]

\* StartedMeansExecd and RefusalLeavesNothing, of one program.
StartedFor(p) == outcome[p] = "started" =>
  \/ late[p]
  \/ execd[p]
  \/ way[p] = "pty" /\ at[p] \in {"shown", "exited", "reaped"}

RefusedFor(p) == outcome[p] = "refused" =>
  at[p] \in {"unborn", "reaped"} /\ held \cap Pipes(p) = {}

MaskOK == ~ran /\ (mask <=> pc \in {"masked", "forked"})

Inductive ==
  /\ TypeOK /\ MaskOK
  /\ \A p \in Programs : SignalsOf(p) /\ StartOf(p) /\ HoldsOf(p) /\ ChildOf(p)
  /\ StartedMeansExecd /\ RefusalLeavesNothing

-----------------------------------------------------------------------------
(* Files.                                                                  *)

\* The pipes of a program are its own.
LEMMA PipesApart ==
  ASSUME NEW p \in Programs, NEW q \in Programs, p # q
  PROVE  /\ Pipes(p) \cap Pipes(q) = {}
         /\ Pipes(p) \cap WriteEnds(q) = {}
         /\ \A ends : Pipes(p) \cap Of(q, ends) = {}
BY DEF Pipes, WriteEnds, Of

\* Which they are.
LEMMA PipesOf ==
  ASSUME NEW p \in Programs
  PROVE  /\ <<p, "exec_end">> \in WriteEnds(p)
         /\ <<p, "read_end">> \in Pipes(p) \ WriteEnds(p)
         /\ WriteEnds(p) \subseteq Pipes(p)
         /\ Pipes(p) \subseteq WriteEnds(p) \cup
                           Of(p, {"read_end", "out_read"})
         /\ Pipes(p) \subseteq Programs \X Ends
         /\ OutputEnd(p) \in Programs \X Ends
         /\ \A ends \in SUBSET Ends : Of(p, ends) \subseteq Programs \X Ends
         /\ Of(p, {"slave"}) \cap Pipes(p) = {}
BY DEF Pipes, WriteEnds, Of, Ends, OutputEnd

\* A program is started in one way.
LEMMA PipesStay ==
  ASSUME [Next]_vars, NEW p \in Programs
  PROVE  Pipes(p)' = Pipes(p) /\ WriteEnds(p)' = WriteEnds(p)
<1>1. way' = way
  <2>1. CASE Mask
    BY <2>1 DEF Mask, MaskWinch, server, child, signals
  <2>2. CASE Fork
    BY <2>2 DEF Fork, server, child, signals
  <2>3. CASE ForkRaises
    BY <2>3 DEF ForkRaises, CloseAll, Return, server, child, signals
  <2>4. CASE ForkReturns
    BY <2>4 DEF ForkReturns, server, child, signals
  <2>5. CASE WaitEnds
    BY <2>5 DEF WaitEnds, Return, server, child, signals
  <2>6. CASE ReadReason
    BY <2>6 DEF ReadReason, server, child, signals
  <2>7. CASE FailureIsRead
    BY <2>7 DEF FailureIsRead, CloseReadEnds, server, child, signals
  <2>8. CASE ReapFailed
    BY <2>8 DEF ReapFailed, Return, server, child, signals
  <2>9. CASE TimeIsUp
    BY <2>9 DEF TimeIsUp, CloseReadEnds, Return, server, child, signals
  <2>10. CASE Resize
    BY <2>10 DEF Resize, InTheGroup, server, child, signals
  <2>11. ASSUME NEW q \in Programs, OpenPipes(q) PROVE way' = way
    BY <2>11 DEF OpenPipes, server, child, signals
  <2>12. ASSUME NEW q \in Programs, RefuseEarly(q) PROVE way' = way
    BY <2>12 DEF RefuseEarly, server, child, signals
  <2>13. ASSUME NEW q \in Programs, Reap(q) PROVE way' = way
    BY <2>13 DEF Reap, server, child, signals
  <2>14. ASSUME NEW q \in Programs, LetOutputGo(q) PROVE way' = way
    BY <2>14 DEF LetOutputGo, server, child, signals
  <2>15. ASSUME NEW q \in Programs, TakeWinch(q) PROVE way' = way
    BY <2>15 DEF TakeWinch, ResetThenUnblock, Goes, server, child, signals
  <2>16. ASSUME NEW q \in Programs, Detach(q) PROVE way' = way
    BY <2>16 DEF Detach, Goes, server, child, signals
  <2>17. ASSUME NEW q \in Programs, DetachRaises(q) PROVE way' = way
    BY <2>17 DEF DetachRaises, Goes, Exit, server, child, signals
  <2>18. ASSUME NEW q \in Programs, CloseFiles(q) PROVE way' = way
    BY <2>18 DEF CloseFiles, Goes, server, child, signals
  <2>19. ASSUME NEW q \in Programs, Chdir(q) PROVE way' = way
    BY <2>19 DEF Chdir, Goes, server, child, signals
  <2>20. ASSUME NEW q \in Programs, Exec(q) PROVE way' = way
    BY <2>20 DEF Exec, Goes, server, child, signals
  <2>21. ASSUME NEW q \in Programs, Raises(q) PROVE way' = way
    BY <2>21 DEF Raises, Goes, server, child, signals
  <2>22. ASSUME NEW q \in Programs, Show(q) PROVE way' = way
    BY <2>22 DEF Show, Goes, server, child, signals
  <2>23. ASSUME NEW q \in Programs, SayWhy(q) PROVE way' = way
    BY <2>23 DEF SayWhy, Goes, Exit, server, child, signals
  <2>24. ASSUME NEW q \in Programs, ChdirHangs(q) PROVE way' = way
    BY <2>24 DEF ChdirHangs, Goes, server, child, signals
  <2>25. ASSUME NEW q \in Programs, ChdirReturns(q) PROVE way' = way
    BY <2>25 DEF ChdirReturns, Goes, server, child, signals
  <2>26. ASSUME NEW q \in Programs, ProgramEnds(q) PROVE way' = way
    BY <2>26 DEF ProgramEnds, Exit, server, child, signals
  <2>27. CASE UNCHANGED vars
    BY <2>27 DEF vars, server, child, signals
  <2> QED BY <2>1, <2>2, <2>3, <2>4, <2>5, <2>6, <2>7, <2>8, <2>9, <2>10,
     <2>11, <2>12, <2>13, <2>14, <2>15, <2>16, <2>17, <2>18, <2>19, <2>20,
     <2>21, <2>22, <2>23, <2>24, <2>25, <2>26, <2>27
     DEF Next, ServerStep, ChildStep
<1> QED BY <1>1 DEF Pipes, WriteEnds

\* Types, one part at a time.
LEMMA ServerTypes ==
  ASSUME Inductive, [Next]_vars
  PROVE  ServerOK'
<1> USE DEF Inductive, TypeOK, ServerOK
<1>1. CASE Mask
  BY <1>1 DEF Mask, MaskWinch, server, child, signals
<1>2. CASE Fork
  BY <1>2 DEF Fork, server, child, signals
<1>3. CASE ForkRaises
  BY <1>3 DEF ForkRaises, CloseAll, Return, server, child, signals
<1>4. CASE ForkReturns
  BY <1>4 DEF ForkReturns, server, child, signals
<1>5. CASE WaitEnds
  BY <1>5 DEF WaitEnds, Return, server, child, signals
<1>6. CASE ReadReason
  BY <1>6 DEF ReadReason, server, child, signals
<1>7. CASE FailureIsRead
  BY <1>7 DEF FailureIsRead, CloseReadEnds, server, child, signals
<1>8. CASE ReapFailed
  BY <1>8 DEF ReapFailed, Return, server, child, signals
<1>9. CASE TimeIsUp
  BY <1>9 DEF TimeIsUp, CloseReadEnds, Return, server, child, signals
<1>10. CASE Resize
  BY <1>10 DEF Resize, InTheGroup, server, child, signals
<1>11. ASSUME NEW q \in Programs, OpenPipes(q) PROVE ServerOK'
  BY <1>11 DEF OpenPipes, server, child, signals
<1>12. ASSUME NEW q \in Programs, RefuseEarly(q) PROVE ServerOK'
  BY <1>12 DEF RefuseEarly, server, child, signals
<1>13. ASSUME NEW q \in Programs, Reap(q) PROVE ServerOK'
  BY <1>13 DEF Reap, server, child, signals
<1>14. ASSUME NEW q \in Programs, LetOutputGo(q) PROVE ServerOK'
  BY <1>14 DEF LetOutputGo, server, child, signals
<1>15. ASSUME NEW q \in Programs, TakeWinch(q) PROVE ServerOK'
  BY <1>15 DEF TakeWinch, ResetThenUnblock, Goes, server, child, signals
<1>16. ASSUME NEW q \in Programs, Detach(q) PROVE ServerOK'
  BY <1>16 DEF Detach, Goes, server, child, signals
<1>17. ASSUME NEW q \in Programs, DetachRaises(q) PROVE ServerOK'
  BY <1>17 DEF DetachRaises, Goes, Exit, server, child, signals
<1>18. ASSUME NEW q \in Programs, CloseFiles(q) PROVE ServerOK'
  BY <1>18 DEF CloseFiles, Goes, server, child, signals
<1>19. ASSUME NEW q \in Programs, Chdir(q) PROVE ServerOK'
  BY <1>19 DEF Chdir, Goes, server, child, signals
<1>20. ASSUME NEW q \in Programs, Exec(q) PROVE ServerOK'
  BY <1>20 DEF Exec, Goes, server, child, signals
<1>21. ASSUME NEW q \in Programs, Raises(q) PROVE ServerOK'
  BY <1>21 DEF Raises, Goes, server, child, signals
<1>22. ASSUME NEW q \in Programs, Show(q) PROVE ServerOK'
  BY <1>22 DEF Show, Goes, server, child, signals
<1>23. ASSUME NEW q \in Programs, SayWhy(q) PROVE ServerOK'
  BY <1>23 DEF SayWhy, Goes, Exit, server, child, signals
<1>24. ASSUME NEW q \in Programs, ChdirHangs(q) PROVE ServerOK'
  BY <1>24 DEF ChdirHangs, Goes, server, child, signals
<1>25. ASSUME NEW q \in Programs, ChdirReturns(q) PROVE ServerOK'
  BY <1>25 DEF ChdirReturns, Goes, server, child, signals
<1>26. ASSUME NEW q \in Programs, ProgramEnds(q) PROVE ServerOK'
  BY <1>26 DEF ProgramEnds, Exit, server, child, signals
<1>27. CASE UNCHANGED vars
  BY <1>27 DEF vars, server, child, signals
<1> QED BY <1>1, <1>2, <1>3, <1>4, <1>5, <1>6, <1>7, <1>8, <1>9, <1>10, <1>11,
   <1>12, <1>13, <1>14, <1>15, <1>16, <1>17, <1>18, <1>19, <1>20, <1>21,
   <1>22, <1>23, <1>24, <1>25, <1>26, <1>27
   DEF Next, ServerStep, ChildStep

LEMMA FileTypes ==
  ASSUME Inductive, [Next]_vars
  PROVE  FilesOK'
<1> USE DEF Inductive, TypeOK, FilesOK
<1>1. CASE Mask
  BY <1>1 DEF Mask, MaskWinch, server, child, signals
<1>2. CASE Fork
  BY <1>2 DEF Fork, server, child, signals
<1>3. CASE ForkRaises
  BY <1>3 DEF ForkRaises, CloseAll, Return, server, child, signals
<1>4. CASE ForkReturns
  BY <1>4 DEF ForkReturns, server, child, signals
<1>5. CASE WaitEnds
  BY <1>5 DEF WaitEnds, Return, server, child, signals
<1>6. CASE ReadReason
  BY <1>6 DEF ReadReason, server, child, signals
<1>7. CASE FailureIsRead
  BY <1>7 DEF FailureIsRead, CloseReadEnds, server, child, signals
<1>8. CASE ReapFailed
  BY <1>8 DEF ReapFailed, Return, server, child, signals
<1>9. CASE TimeIsUp
  BY <1>9 DEF TimeIsUp, CloseReadEnds, Return, server, child, signals
<1>10. CASE Resize
  BY <1>10 DEF Resize, InTheGroup, server, child, signals
<1>11. ASSUME NEW q \in Programs, OpenPipes(q) PROVE FilesOK'
  BY <1>11, PipesOf DEF OpenPipes, server, child, signals
<1>12. ASSUME NEW q \in Programs, RefuseEarly(q) PROVE FilesOK'
  BY <1>12 DEF RefuseEarly, server, child, signals
<1>13. ASSUME NEW q \in Programs, Reap(q) PROVE FilesOK'
  BY <1>13 DEF Reap, server, child, signals
<1>14. ASSUME NEW q \in Programs, LetOutputGo(q) PROVE FilesOK'
  BY <1>14 DEF LetOutputGo, server, child, signals
<1>15. ASSUME NEW q \in Programs, TakeWinch(q) PROVE FilesOK'
  BY <1>15 DEF TakeWinch, ResetThenUnblock, Goes, server, child, signals
<1>16. ASSUME NEW q \in Programs, Detach(q) PROVE FilesOK'
  BY <1>16 DEF Detach, Goes, server, child, signals
<1>17. ASSUME NEW q \in Programs, DetachRaises(q) PROVE FilesOK'
  BY <1>17 DEF DetachRaises, Goes, Exit, server, child, signals
<1>18. ASSUME NEW q \in Programs, CloseFiles(q) PROVE FilesOK'
  <2>1. {OutputEnd(q), <<q, "exec_end">>} \in SUBSET (Programs \X Ends)
    BY PipesOf DEF Ends
  <2> QED BY <1>18, <2>1 DEF CloseFiles, Goes, server, child, signals
<1>19. ASSUME NEW q \in Programs, Chdir(q) PROVE FilesOK'
  BY <1>19 DEF Chdir, Goes, server, child, signals
<1>20. ASSUME NEW q \in Programs, Exec(q) PROVE FilesOK'
  <2>1. UNCHANGED <<way, held>> /\ files' = [files EXCEPT ![q] = {OutputEnd(q)}]
    BY <1>20 DEF Exec, server
  <2>2. {OutputEnd(q)} \in SUBSET (Programs \X Ends)
    BY PipesOf
  <2> QED BY <2>1, <2>2
<1>21. ASSUME NEW q \in Programs, Raises(q) PROVE FilesOK'
  BY <1>21 DEF Raises, Goes, server, child, signals
<1>22. ASSUME NEW q \in Programs, Show(q) PROVE FilesOK'
  BY <1>22 DEF Show, Goes, server, child, signals
<1>23. ASSUME NEW q \in Programs, SayWhy(q) PROVE FilesOK'
  BY <1>23 DEF SayWhy, Goes, Exit, server, child, signals
<1>24. ASSUME NEW q \in Programs, ChdirHangs(q) PROVE FilesOK'
  BY <1>24 DEF ChdirHangs, Goes, server, child, signals
<1>25. ASSUME NEW q \in Programs, ChdirReturns(q) PROVE FilesOK'
  BY <1>25 DEF ChdirReturns, Goes, server, child, signals
<1>26. ASSUME NEW q \in Programs, ProgramEnds(q) PROVE FilesOK'
  BY <1>26 DEF ProgramEnds, Exit, server, child, signals
<1>27. CASE UNCHANGED vars
  BY <1>27 DEF vars, server, child, signals
<1> QED BY <1>1, <1>2, <1>3, <1>4, <1>5, <1>6, <1>7, <1>8, <1>9, <1>10, <1>11,
   <1>12, <1>13, <1>14, <1>15, <1>16, <1>17, <1>18, <1>19, <1>20, <1>21,
   <1>22, <1>23, <1>24, <1>25, <1>26, <1>27
   DEF Next, ServerStep, ChildStep

LEMMA ChildTypes ==
  ASSUME Inductive, [Next]_vars
  PROVE  ChildrenOK'
<1> USE DEF Inductive, TypeOK, ServerOK, ChildrenOK, ChildStates, MaskOK
<1>1. CASE Mask
  BY <1>1 DEF Mask, MaskWinch, server, child, signals
<1>2. CASE Fork
  BY <1>2 DEF Fork, server, child, signals
<1>3. CASE ForkRaises
  BY <1>3 DEF ForkRaises, CloseAll, Return, server, child, signals
<1>4. CASE ForkReturns
  BY <1>4 DEF ForkReturns, server, child, signals
<1>5. CASE WaitEnds
  BY <1>5 DEF WaitEnds, Return, server, child, signals
<1>6. CASE ReadReason
  BY <1>6 DEF ReadReason, server, child, signals
<1>7. CASE FailureIsRead
  BY <1>7 DEF FailureIsRead, CloseReadEnds, server, child, signals
<1>8. CASE ReapFailed
  BY <1>8 DEF ReapFailed, Return, server, child, signals
<1>9. CASE TimeIsUp
  BY <1>9 DEF TimeIsUp, CloseReadEnds, Return, server, child, signals
<1>10. CASE Resize
  BY <1>10 DEF Resize, InTheGroup, server, child, signals
<1>11. ASSUME NEW q \in Programs, OpenPipes(q) PROVE ChildrenOK'
  BY <1>11 DEF OpenPipes, server, child, signals
<1>12. ASSUME NEW q \in Programs, RefuseEarly(q) PROVE ChildrenOK'
  BY <1>12 DEF RefuseEarly, server, child, signals
<1>13. ASSUME NEW q \in Programs, Reap(q) PROVE ChildrenOK'
  BY <1>13 DEF Reap, server, child, signals
<1>14. ASSUME NEW q \in Programs, LetOutputGo(q) PROVE ChildrenOK'
  BY <1>14 DEF LetOutputGo, server, child, signals
<1>15. ASSUME NEW q \in Programs, TakeWinch(q) PROVE ChildrenOK'
  <2>1. at' \in [Programs -> ChildStates]
    BY <1>15 DEF TakeWinch, ResetThenUnblock, Goes
  <2>2. /\ handler' \in [Programs -> {"server's", "default"}]
        /\ blocked' \in [Programs -> BOOLEAN] /\ ran' \in BOOLEAN
    BY <1>15 DEF TakeWinch, ResetThenUnblock
  <2>3. winch' \in [Programs -> BOOLEAN]
    BY <1>15 DEF TakeWinch, ResetThenUnblock
  <2>4. UNCHANGED <<reason, execd>>
    BY <1>15 DEF TakeWinch
  <2> QED BY <2>1, <2>2, <2>3, <2>4
<1>16. ASSUME NEW q \in Programs, Detach(q) PROVE ChildrenOK'
  BY <1>16 DEF Detach, Goes, server, child, signals
<1>17. ASSUME NEW q \in Programs, DetachRaises(q) PROVE ChildrenOK'
  BY <1>17 DEF DetachRaises, Goes, Exit, server, child, signals
<1>18. ASSUME NEW q \in Programs, CloseFiles(q) PROVE ChildrenOK'
  BY <1>18 DEF CloseFiles, Goes, server, child, signals
<1>19. ASSUME NEW q \in Programs, Chdir(q) PROVE ChildrenOK'
  BY <1>19 DEF Chdir, Goes, server, child, signals
<1>20. ASSUME NEW q \in Programs, Exec(q) PROVE ChildrenOK'
  BY <1>20 DEF Exec, Goes, server, child, signals
<1>21. ASSUME NEW q \in Programs, Raises(q) PROVE ChildrenOK'
  BY <1>21 DEF Raises, Goes, server, child, signals
<1>22. ASSUME NEW q \in Programs, Show(q) PROVE ChildrenOK'
  BY <1>22 DEF Show, Goes, server, child, signals
<1>23. ASSUME NEW q \in Programs, SayWhy(q) PROVE ChildrenOK'
  <2>1. UNCHANGED <<handler, blocked, winch, execd, ran>>
    BY <1>23 DEF SayWhy, signals
  <2>2. \/ at' = at /\ reason' = [reason EXCEPT ![q] = TRUE]
        \/ at' = [at EXCEPT ![q] = "exited"] /\ reason' = reason
    BY <1>23 DEF SayWhy, Goes
  <2> QED BY <2>1, <2>2
<1>24. ASSUME NEW q \in Programs, ChdirHangs(q) PROVE ChildrenOK'
  BY <1>24 DEF ChdirHangs, Goes, server, child, signals
<1>25. ASSUME NEW q \in Programs, ChdirReturns(q) PROVE ChildrenOK'
  BY <1>25 DEF ChdirReturns, Goes, server, child, signals
<1>26. ASSUME NEW q \in Programs, ProgramEnds(q) PROVE ChildrenOK'
  BY <1>26 DEF ProgramEnds, Exit, server, child, signals
<1>27. CASE UNCHANGED vars
  BY <1>27 DEF vars, server, child, signals
<1> QED BY <1>1, <1>2, <1>3, <1>4, <1>5, <1>6, <1>7, <1>8, <1>9, <1>10, <1>11,
   <1>12, <1>13, <1>14, <1>15, <1>16, <1>17, <1>18, <1>19, <1>20, <1>21,
   <1>22, <1>23, <1>24, <1>25, <1>26, <1>27
   DEF Next, ServerStep, ChildStep

\* The mask is on from before the fork until after it, and no handler runs.
LEMMA MaskStep ==
  ASSUME Inductive, [Next]_vars
  PROVE  MaskOK'
<1> USE DEF Inductive, MaskOK, TypeOK, ServerOK, ChildrenOK, SignalsOf
<1>1. CASE Mask
  BY <1>1 DEF Mask, MaskWinch, server, child, signals
<1>2. CASE Fork
  BY <1>2 DEF Fork, server, child, signals
<1>3. CASE ForkRaises
  BY <1>3 DEF ForkRaises, CloseAll, Return, server, child, signals
<1>4. CASE ForkReturns
  BY <1>4 DEF ForkReturns, server, child, signals
<1>5. CASE WaitEnds
  BY <1>5 DEF WaitEnds, Return, server, child, signals
<1>6. CASE ReadReason
  BY <1>6 DEF ReadReason, server, child, signals
<1>7. CASE FailureIsRead
  BY <1>7 DEF FailureIsRead, CloseReadEnds, server, child, signals
<1>8. CASE ReapFailed
  BY <1>8 DEF ReapFailed, Return, server, child, signals
<1>9. CASE TimeIsUp
  BY <1>9 DEF TimeIsUp, CloseReadEnds, Return, server, child, signals
<1>10. CASE Resize
  BY <1>10 DEF Resize, InTheGroup, server, child, signals
<1>11. ASSUME NEW q \in Programs, OpenPipes(q) PROVE MaskOK'
  BY <1>11 DEF OpenPipes, server, child, signals
<1>12. ASSUME NEW q \in Programs, RefuseEarly(q) PROVE MaskOK'
  BY <1>12 DEF RefuseEarly, server, child, signals
<1>13. ASSUME NEW q \in Programs, Reap(q) PROVE MaskOK'
  BY <1>13 DEF Reap, server, child, signals
<1>14. ASSUME NEW q \in Programs, LetOutputGo(q) PROVE MaskOK'
  BY <1>14 DEF LetOutputGo, server, child, signals
<1>15. ASSUME NEW q \in Programs, TakeWinch(q) PROVE MaskOK'
  BY <1>15 DEF TakeWinch, ResetThenUnblock, Goes, server, child, signals
<1>16. ASSUME NEW q \in Programs, Detach(q) PROVE MaskOK'
  BY <1>16 DEF Detach, Goes, server, child, signals
<1>17. ASSUME NEW q \in Programs, DetachRaises(q) PROVE MaskOK'
  BY <1>17 DEF DetachRaises, Goes, Exit, server, child, signals
<1>18. ASSUME NEW q \in Programs, CloseFiles(q) PROVE MaskOK'
  BY <1>18 DEF CloseFiles, Goes, server, child, signals
<1>19. ASSUME NEW q \in Programs, Chdir(q) PROVE MaskOK'
  BY <1>19 DEF Chdir, Goes, server, child, signals
<1>20. ASSUME NEW q \in Programs, Exec(q) PROVE MaskOK'
  BY <1>20 DEF Exec, Goes, server, child, signals
<1>21. ASSUME NEW q \in Programs, Raises(q) PROVE MaskOK'
  BY <1>21 DEF Raises, Goes, server, child, signals
<1>22. ASSUME NEW q \in Programs, Show(q) PROVE MaskOK'
  BY <1>22 DEF Show, Goes, server, child, signals
<1>23. ASSUME NEW q \in Programs, SayWhy(q) PROVE MaskOK'
  BY <1>23 DEF SayWhy, Goes, Exit, server, child, signals
<1>24. ASSUME NEW q \in Programs, ChdirHangs(q) PROVE MaskOK'
  BY <1>24 DEF ChdirHangs, Goes, server, child, signals
<1>25. ASSUME NEW q \in Programs, ChdirReturns(q) PROVE MaskOK'
  BY <1>25 DEF ChdirReturns, Goes, server, child, signals
<1>26. ASSUME NEW q \in Programs, ProgramEnds(q) PROVE MaskOK'
  BY <1>26 DEF ProgramEnds, Exit, server, child, signals
<1>27. CASE UNCHANGED vars
  BY <1>27 DEF vars, server, child, signals
<1> QED BY <1>1, <1>2, <1>3, <1>4, <1>5, <1>6, <1>7, <1>8, <1>9, <1>10, <1>11,
   <1>12, <1>13, <1>14, <1>15, <1>16, <1>17, <1>18, <1>19, <1>20, <1>21,
   <1>22, <1>23, <1>24, <1>25, <1>26, <1>27
   DEF Next, ServerStep, ChildStep

\* A child unblocks SIGWINCH behind its own handler, and before its session.
LEMMA SignalsStep ==
  ASSUME Inductive, [Next]_vars, NEW p \in Programs
  PROVE  SignalsOf(p)'
<1> USE DEF Inductive, SignalsOf, MaskOK, TypeOK, ServerOK, ChildrenOK
<1>1. CASE Mask
  BY <1>1 DEF Mask, MaskWinch, server, child, signals
<1>2. CASE Fork
  BY <1>2 DEF Fork, server, child, signals
<1>3. CASE ForkRaises
  BY <1>3 DEF ForkRaises, CloseAll, Return, server, child, signals
<1>4. CASE ForkReturns
  BY <1>4 DEF ForkReturns, server, child, signals
<1>5. CASE WaitEnds
  BY <1>5 DEF WaitEnds, Return, server, child, signals
<1>6. CASE ReadReason
  BY <1>6 DEF ReadReason, server, child, signals
<1>7. CASE FailureIsRead
  BY <1>7 DEF FailureIsRead, CloseReadEnds, server, child, signals
<1>8. CASE ReapFailed
  BY <1>8 DEF ReapFailed, Return, server, child, signals
<1>9. CASE TimeIsUp
  BY <1>9 DEF TimeIsUp, CloseReadEnds, Return, server, child, signals
<1>10. CASE Resize
  BY <1>10 DEF Resize, InTheGroup, server, child, signals
<1>11. ASSUME NEW q \in Programs, OpenPipes(q) PROVE SignalsOf(p)'
  BY <1>11 DEF OpenPipes, server, child, signals
<1>12. ASSUME NEW q \in Programs, RefuseEarly(q) PROVE SignalsOf(p)'
  BY <1>12 DEF RefuseEarly, server, child, signals
<1>13. ASSUME NEW q \in Programs, Reap(q) PROVE SignalsOf(p)'
  BY <1>13 DEF Reap, server, child, signals
<1>14. ASSUME NEW q \in Programs, LetOutputGo(q) PROVE SignalsOf(p)'
  BY <1>14 DEF LetOutputGo, server, child, signals
<1>15. ASSUME NEW q \in Programs, TakeWinch(q) PROVE SignalsOf(p)'
  BY <1>15 DEF TakeWinch, ResetThenUnblock, Goes, server, child, signals
<1>16. ASSUME NEW q \in Programs, Detach(q) PROVE SignalsOf(p)'
  BY <1>16 DEF Detach, Goes, server, child, signals
<1>17. ASSUME NEW q \in Programs, DetachRaises(q) PROVE SignalsOf(p)'
  BY <1>17 DEF DetachRaises, Goes, Exit, server, child, signals
<1>18. ASSUME NEW q \in Programs, CloseFiles(q) PROVE SignalsOf(p)'
  BY <1>18 DEF CloseFiles, Goes, server, child, signals
<1>19. ASSUME NEW q \in Programs, Chdir(q) PROVE SignalsOf(p)'
  BY <1>19 DEF Chdir, Goes, server, child, signals
<1>20. ASSUME NEW q \in Programs, Exec(q) PROVE SignalsOf(p)'
  BY <1>20 DEF Exec, Goes, server, child, signals
<1>21. ASSUME NEW q \in Programs, Raises(q) PROVE SignalsOf(p)'
  BY <1>21 DEF Raises, Goes, server, child, signals
<1>22. ASSUME NEW q \in Programs, Show(q) PROVE SignalsOf(p)'
  BY <1>22 DEF Show, Goes, server, child, signals
<1>23. ASSUME NEW q \in Programs, SayWhy(q) PROVE SignalsOf(p)'
  BY <1>23 DEF SayWhy, Goes, Exit, server, child, signals
<1>24. ASSUME NEW q \in Programs, ChdirHangs(q) PROVE SignalsOf(p)'
  BY <1>24 DEF ChdirHangs, Goes, server, child, signals
<1>25. ASSUME NEW q \in Programs, ChdirReturns(q) PROVE SignalsOf(p)'
  BY <1>25 DEF ChdirReturns, Goes, server, child, signals
<1>26. ASSUME NEW q \in Programs, ProgramEnds(q) PROVE SignalsOf(p)'
  BY <1>26 DEF ProgramEnds, Exit, server, child, signals
<1>27. CASE UNCHANGED vars
  BY <1>27 DEF vars, server, child, signals
<1> QED BY <1>1, <1>2, <1>3, <1>4, <1>5, <1>6, <1>7, <1>8, <1>9, <1>10, <1>11,
   <1>12, <1>13, <1>14, <1>15, <1>16, <1>17, <1>18, <1>19, <1>20, <1>21,
   <1>22, <1>23, <1>24, <1>25, <1>26, <1>27
   DEF Next, ServerStep, ChildStep

\* Where a start is and where its child, from call to call.
LEMMA StartStep ==
  ASSUME Inductive, [Next]_vars, NEW p \in Programs
  PROVE  StartOf(p)'
<1> USE DEF Inductive, StartOf, HoldsOf, TypeOK, ServerOK, ChildrenOK
<1>1. CASE Mask
  BY <1>1 DEF Mask, MaskWinch, server, child, signals
<1>2. CASE Fork
  BY <1>2 DEF Fork, server, child, signals
<1>3. CASE ForkRaises
  BY <1>3 DEF ForkRaises, CloseAll, Return, server, child, signals
<1>4. CASE ForkReturns
  BY <1>4 DEF ForkReturns, server, child, signals
<1>5. CASE WaitEnds
  BY <1>5 DEF WaitEnds, Return, server, child, signals
<1>6. CASE ReadReason
  BY <1>6 DEF ReadReason, server, child, signals
<1>7. CASE FailureIsRead
  BY <1>7 DEF FailureIsRead, CloseReadEnds, server, child, signals
<1>8. CASE ReapFailed
  BY <1>8 DEF ReapFailed, Return, server, child, signals
<1>9. CASE TimeIsUp
  BY <1>9 DEF TimeIsUp, CloseReadEnds, Return, server, child, signals
<1>10. CASE Resize
  BY <1>10 DEF Resize, InTheGroup, server, child, signals
<1>11. ASSUME NEW q \in Programs, OpenPipes(q) PROVE StartOf(p)'
  BY <1>11 DEF OpenPipes, server, child, signals
<1>12. ASSUME NEW q \in Programs, RefuseEarly(q) PROVE StartOf(p)'
  BY <1>12 DEF RefuseEarly, server, child, signals
<1>13. ASSUME NEW q \in Programs, Reap(q) PROVE StartOf(p)'
  BY <1>13 DEF Reap, server, child, signals
<1>14. ASSUME NEW q \in Programs, LetOutputGo(q) PROVE StartOf(p)'
  BY <1>14 DEF LetOutputGo, server, child, signals
<1>15. ASSUME NEW q \in Programs, TakeWinch(q) PROVE StartOf(p)'
  <2>1. UNCHANGED <<outcome, busy, pc, reason, said>>
    BY <1>15 DEF TakeWinch, server
  <2>2. \/ at'[p] = at[p]
        \/ at[p] \in {"forked", "reset"} /\ at'[p] \in {"reset", "unblocked"}
    BY <1>15 DEF TakeWinch, ResetThenUnblock, Goes
  <2> QED BY <2>1, <2>2
<1>16. ASSUME NEW q \in Programs, Detach(q) PROVE StartOf(p)'
  BY <1>16 DEF Detach, Goes, server, child, signals
<1>17. ASSUME NEW q \in Programs, DetachRaises(q) PROVE StartOf(p)'
  BY <1>17 DEF DetachRaises, Goes, Exit, server, child, signals
<1>18. ASSUME NEW q \in Programs, CloseFiles(q) PROVE StartOf(p)'
  BY <1>18 DEF CloseFiles, Goes, server, child, signals
<1>19. ASSUME NEW q \in Programs, Chdir(q) PROVE StartOf(p)'
  BY <1>19 DEF Chdir, Goes, server, child, signals
<1>20. ASSUME NEW q \in Programs, Exec(q) PROVE StartOf(p)'
  BY <1>20 DEF Exec, Goes, server, child, signals
<1>21. ASSUME NEW q \in Programs, Raises(q) PROVE StartOf(p)'
  BY <1>21 DEF Raises, Goes, server, child, signals
<1>22. ASSUME NEW q \in Programs, Show(q) PROVE StartOf(p)'
  BY <1>22 DEF Show, Goes, server, child, signals
<1>23. ASSUME NEW q \in Programs, SayWhy(q) PROVE StartOf(p)'
  <2>1. UNCHANGED <<outcome, busy, pc, said>>
    BY <1>23 DEF SayWhy, server
  <2>2. /\ at'[p] = at[p] \/ (at[p] = "failed" /\ at'[p] = "exited")
        /\ reason[p] => reason'[p]
    BY <1>23 DEF SayWhy, Goes
  <2> QED BY <2>1, <2>2
<1>24. ASSUME NEW q \in Programs, ChdirHangs(q) PROVE StartOf(p)'
  BY <1>24 DEF ChdirHangs, Goes, server, child, signals
<1>25. ASSUME NEW q \in Programs, ChdirReturns(q) PROVE StartOf(p)'
  BY <1>25 DEF ChdirReturns, Goes, server, child, signals
<1>26. ASSUME NEW q \in Programs, ProgramEnds(q) PROVE StartOf(p)'
  BY <1>26 DEF ProgramEnds, Exit, server, child, signals
<1>27. CASE UNCHANGED vars
  BY <1>27 DEF vars, server, child, signals
<1> QED BY <1>1, <1>2, <1>3, <1>4, <1>5, <1>6, <1>7, <1>8, <1>9, <1>10, <1>11,
   <1>12, <1>13, <1>14, <1>15, <1>16, <1>17, <1>18, <1>19, <1>20, <1>21,
   <1>22, <1>23, <1>24, <1>25, <1>26, <1>27
   DEF Next, ServerStep, ChildStep

\* What a start has open.
LEMMA HoldsStep ==
  ASSUME Inductive, [Next]_vars, NEW p \in Programs
  PROVE  HoldsOf(p)'
<1> USE DEF Inductive, StartOf, HoldsOf, TypeOK, ServerOK
<1>1. CASE Mask
  BY <1>1, PipesStay DEF Mask, MaskWinch, server, child, signals
<1>2. CASE Fork
  BY <1>2, PipesStay DEF Fork, server, child, signals
<1>3. CASE ForkRaises
  BY <1>3, PipesApart, PipesStay DEF ForkRaises, CloseAll, Return, server,
     child, signals
<1>4. CASE ForkReturns
  <2>1. /\ held' = held \ WriteEnds(busy) /\ pc' = "waiting" /\ pc = "forked"
        /\ busy' = busy /\ outcome' = outcome
    BY <1>4 DEF ForkReturns
  <2>2. held' \subseteq held
    BY <2>1
  <2>3. busy = p => <<p, "read_end">> \in held' /\ held' \cap WriteEnds(p) = {}
    BY <2>1, PipesOf
  <2> QED BY <2>1, <2>2, <2>3, PipesStay
<1>5. CASE WaitEnds
  <2>1. held' \subseteq held /\ busy' = "nobody"
        /\ outcome' = [outcome EXCEPT ![busy] = "started"]
    BY <1>5 DEF WaitEnds, Return
  <2>2. busy \in Programs
    BY <1>5 DEF WaitEnds
  <2>3. outcome'[p] = "none" => outcome[p] = "none" /\ busy # p
    BY <2>1, <2>2
  <2> QED BY <2>1, <2>3, PipesStay
<1>6. CASE ReadReason
  BY <1>6, PipesStay DEF ReadReason, server, child, signals
<1>7. CASE FailureIsRead
  <2>1. /\ held' = held \ Of(busy, {"read_end", "out_read"})
        /\ pc' = "reaping" /\ pc = "waiting"
        /\ busy' = busy /\ outcome' = outcome
    BY <1>7 DEF FailureIsRead, CloseReadEnds
  <2>2. held' \subseteq held
    BY <2>1
  <2>3. busy = p => held' \cap Pipes(p) = {}
    BY <2>1, PipesOf
  <2>4. outcome[p] = "none" /\ busy # p => held' \cap Pipes(p) = {}
    BY <2>2
  <2> HIDE DEF Inductive
  <2> QED BY <2>1, <2>3, <2>4, PipesStay
<1>8. CASE ReapFailed
  BY <1>8, PipesStay DEF ReapFailed, Return, server, child, signals
<1>9. CASE TimeIsUp
  <2>1. CASE said
    <3>1. /\ held' = held \ Of(busy, {"read_end", "out_read"})
          /\ pc' = "reaping" /\ pc = "waiting"
          /\ busy' = busy /\ outcome' = outcome
      BY <1>9, <2>1 DEF TimeIsUp, CloseReadEnds
    <3>2. held' \subseteq held
      BY <3>1
    <3>3. busy = p => held' \cap Pipes(p) = {}
      BY <3>1, PipesOf
    <3>4. outcome[p] = "none" /\ busy # p => held' \cap Pipes(p) = {}
      BY <3>2
    <3> HIDE DEF Inductive
    <3> QED BY <3>1, <3>3, <3>4, PipesStay
  <2>2. CASE ~said
    <3>1. held' \subseteq held /\ busy' = "nobody"
          /\ outcome' = [outcome EXCEPT ![busy] = "started"]
      BY <1>9, <2>2 DEF TimeIsUp, Return
    <3>2. busy \in Programs
      BY <1>9 DEF TimeIsUp
    <3>3. outcome'[p] = "none" => outcome[p] = "none" /\ busy # p
      BY <3>1, <3>2
    <3> QED BY <3>1, <3>3, PipesStay
  <2> QED BY <2>1, <2>2
<1>10. CASE Resize
  BY <1>10, PipesStay DEF Resize, InTheGroup, server, child, signals
<1>11. ASSUME NEW q \in Programs, OpenPipes(q) PROVE HoldsOf(p)'
  BY <1>11, PipesApart, PipesOf, PipesStay DEF OpenPipes, server, child,
     signals
<1>12. ASSUME NEW q \in Programs, RefuseEarly(q) PROVE HoldsOf(p)'
  BY <1>12, PipesStay DEF RefuseEarly, server, child, signals
<1>13. ASSUME NEW q \in Programs, Reap(q) PROVE HoldsOf(p)'
  BY <1>13, PipesApart, PipesStay DEF Reap, server, child, signals
<1>14. ASSUME NEW q \in Programs, LetOutputGo(q) PROVE HoldsOf(p)'
  BY <1>14, PipesApart, PipesStay DEF LetOutputGo, server, child, signals
<1>15. ASSUME NEW q \in Programs, TakeWinch(q) PROVE HoldsOf(p)'
  BY <1>15, PipesStay DEF TakeWinch, ResetThenUnblock, Goes, server, child,
     signals
<1>16. ASSUME NEW q \in Programs, Detach(q) PROVE HoldsOf(p)'
  BY <1>16, PipesStay DEF Detach, Goes, server, child, signals
<1>17. ASSUME NEW q \in Programs, DetachRaises(q) PROVE HoldsOf(p)'
  BY <1>17, PipesStay DEF DetachRaises, Goes, Exit, server, child, signals
<1>18. ASSUME NEW q \in Programs, CloseFiles(q) PROVE HoldsOf(p)'
  BY <1>18, PipesStay DEF CloseFiles, Goes, server, child, signals
<1>19. ASSUME NEW q \in Programs, Chdir(q) PROVE HoldsOf(p)'
  BY <1>19, PipesStay DEF Chdir, Goes, server, child, signals
<1>20. ASSUME NEW q \in Programs, Exec(q) PROVE HoldsOf(p)'
  BY <1>20, PipesStay DEF Exec, Goes, server, child, signals
<1>21. ASSUME NEW q \in Programs, Raises(q) PROVE HoldsOf(p)'
  BY <1>21, PipesStay DEF Raises, Goes, server, child, signals
<1>22. ASSUME NEW q \in Programs, Show(q) PROVE HoldsOf(p)'
  BY <1>22, PipesStay DEF Show, Goes, server, child, signals
<1>23. ASSUME NEW q \in Programs, SayWhy(q) PROVE HoldsOf(p)'
  BY <1>23, PipesStay DEF SayWhy, Goes, Exit, server, child, signals
<1>24. ASSUME NEW q \in Programs, ChdirHangs(q) PROVE HoldsOf(p)'
  BY <1>24, PipesStay DEF ChdirHangs, Goes, server, child, signals
<1>25. ASSUME NEW q \in Programs, ChdirReturns(q) PROVE HoldsOf(p)'
  BY <1>25, PipesStay DEF ChdirReturns, Goes, server, child, signals
<1>26. ASSUME NEW q \in Programs, ProgramEnds(q) PROVE HoldsOf(p)'
  BY <1>26, PipesStay DEF ProgramEnds, Exit, server, child, signals
<1>27. CASE UNCHANGED vars
  BY <1>27 DEF vars, server, child, signals, Pipes, WriteEnds
<1> QED BY <1>1, <1>2, <1>3, <1>4, <1>5, <1>6, <1>7, <1>8, <1>9, <1>10, <1>11,
   <1>12, <1>13, <1>14, <1>15, <1>16, <1>17, <1>18, <1>19, <1>20, <1>21,
   <1>22, <1>23, <1>24, <1>25, <1>26, <1>27
   DEF Next, ServerStep, ChildStep

\* The exec pipe stays open until the child has exec'd, gone or shown why.
LEMMA ChildOfStep ==
  ASSUME Inductive, [Next]_vars, NEW p \in Programs
  PROVE  ChildOf(p)'
<1> USE DEF Inductive, ChildOf, TypeOK, ServerOK, FilesOK, ChildrenOK, Early,
   StartOf, HoldsOf
<1>1. CASE Mask
  BY <1>1 DEF Mask, MaskWinch, server, child, signals
<1>2. CASE Fork
  <2>1. busy \in Programs /\ pc = "masked" /\ at' = [at EXCEPT ![busy] = "forked"]
        /\ files' = [files EXCEPT ![busy] = held]
        /\ way' = way /\ outcome' = outcome /\ reason' = reason /\ execd' = execd
    BY <1>2 DEF Fork
  <2>2. CASE busy = p
    <3>1. <<p, "exec_end">> \in held
      <4>1. <<p, "exec_end">> \in Pipes(p)
        BY PipesOf
      <4> QED BY <2>1, <2>2, <4>1
    <3>2. at'[p] = "forked" /\ files'[p] = held
      BY <2>1, <2>2
    <3> QED BY <3>1, <3>2
  <2>3. CASE busy # p
    <3>1. at'[p] = at[p] /\ files'[p] = files[p]
      BY <2>1, <2>3
    <3> QED BY <2>1, <3>1
  <2> QED BY <2>2, <2>3
<1>3. CASE ForkRaises
  BY <1>3 DEF ForkRaises, CloseAll, Return, server, child, signals
<1>4. CASE ForkReturns
  BY <1>4 DEF ForkReturns, server, child, signals
<1>5. CASE WaitEnds
  BY <1>5 DEF WaitEnds, Return, server, child, signals
<1>6. CASE ReadReason
  BY <1>6 DEF ReadReason, server, child, signals
<1>7. CASE FailureIsRead
  BY <1>7 DEF FailureIsRead, CloseReadEnds, server, child, signals
<1>8. CASE ReapFailed
  BY <1>8 DEF ReapFailed, Return, server, child, signals
<1>9. CASE TimeIsUp
  BY <1>9 DEF TimeIsUp, CloseReadEnds, Return, server, child, signals
<1>10. CASE Resize
  BY <1>10 DEF Resize, InTheGroup, server, child, signals
<1>11. ASSUME NEW q \in Programs, OpenPipes(q) PROVE ChildOf(p)'
  BY <1>11 DEF OpenPipes, server, child, signals
<1>12. ASSUME NEW q \in Programs, RefuseEarly(q) PROVE ChildOf(p)'
  BY <1>12 DEF RefuseEarly, server, child, signals
<1>13. ASSUME NEW q \in Programs, Reap(q) PROVE ChildOf(p)'
  BY <1>13 DEF Reap, server, child, signals
<1>14. ASSUME NEW q \in Programs, LetOutputGo(q) PROVE ChildOf(p)'
  BY <1>14 DEF LetOutputGo, server, child, signals
<1>15. ASSUME NEW q \in Programs, TakeWinch(q) PROVE ChildOf(p)'
  <2>1. /\ way' = way /\ outcome' = outcome /\ files' = files
        /\ reason' = reason /\ execd' = execd
    BY <1>15 DEF TakeWinch, server
  <2>2. \/ at'[p] = at[p]
        \/ at[p] \in {"forked", "reset"} /\ at'[p] \in {"reset", "unblocked"}
    BY <1>15 DEF TakeWinch, ResetThenUnblock, Goes
  <2> QED BY <2>1, <2>2
<1>16. ASSUME NEW q \in Programs, Detach(q) PROVE ChildOf(p)'
  BY <1>16 DEF Detach, Goes, server, child, signals, Of
<1>17. ASSUME NEW q \in Programs, DetachRaises(q) PROVE ChildOf(p)'
  BY <1>17 DEF DetachRaises, Goes, Exit, server, child, signals
<1>18. ASSUME NEW q \in Programs, CloseFiles(q) PROVE ChildOf(p)'
  BY <1>18 DEF CloseFiles, Goes, server, child, signals
<1>19. ASSUME NEW q \in Programs, Chdir(q) PROVE ChildOf(p)'
  BY <1>19 DEF Chdir, Goes, server, child, signals
<1>20. ASSUME NEW q \in Programs, Exec(q) PROVE ChildOf(p)'
  BY <1>20 DEF Exec, Goes, server, child, signals
<1>21. ASSUME NEW q \in Programs, Raises(q) PROVE ChildOf(p)'
  <2>1. UNCHANGED <<way, outcome, files, reason, execd>>
    BY <1>21 DEF Raises, server
  <2>2. at[q] \in Early /\ at' = [at EXCEPT ![q] = "failed"]
    BY <1>21 DEF Raises, Goes
  <2>3. at'[p] = at[p] \/ (at[p] \in Early /\ at'[p] = "failed")
    BY <2>2
  <2> QED BY <2>1, <2>3
<1>22. ASSUME NEW q \in Programs, Show(q) PROVE ChildOf(p)'
  BY <1>22 DEF Show, Goes, server, child, signals
<1>23. ASSUME NEW q \in Programs, SayWhy(q) PROVE ChildOf(p)'
  <2>1. way' = way /\ outcome' = outcome /\ execd' = execd
    BY <1>23 DEF SayWhy, server
  <2>2. CASE reason[q] \/ <<q, "read_end">> \notin held
    <3>1. /\ reason' = reason /\ at[q] = "failed" /\ at' = [at EXCEPT ![q] = "exited"]
          /\ files' = [files EXCEPT ![q] = {}]
      BY <1>23, <2>2 DEF SayWhy, Goes, Exit
    <3>2. CASE q = p
      <4>1. at[p] = "failed" /\ at'[p] = "exited" /\ outcome'[p] = outcome[p]
        BY <2>1, <3>1, <3>2
      <4>2. outcome[p] # "started" => reason[p]
        <5>1. outcome[p] # "refused"
          BY <3>1, <3>2 DEF RefusalLeavesNothing
        <5>2. CASE outcome[p] = "none" /\ ~reason[p]
          <6>1. busy = p /\ pc \in {"forked", "waiting"}
            BY <4>1, <5>2
          <6>2. <<p, "read_end">> \in held
            BY <5>2, <6>1, PipesOf
          <6> QED BY <2>2, <3>2, <5>2, <6>2
        <5> QED BY <5>1, <5>2
      <4> QED BY <3>1, <4>1, <4>2
    <3>3. CASE q # p
      <4>1. at'[p] = at[p] /\ files'[p] = files[p]
        BY <3>1, <3>3
      <4> QED BY <2>1, <3>1, <4>1
    <3> QED BY <3>2, <3>3
  <2>3. CASE ~(reason[q] \/ <<q, "read_end">> \notin held)
    <3>1. reason' = [reason EXCEPT ![q] = TRUE] /\ at' = at /\ files' = files
      BY <1>23, <2>3 DEF SayWhy
    <3>2. reason[p] => reason'[p]
      BY <3>1
    <3> QED BY <2>1, <3>1, <3>2
  <2> QED BY <2>2, <2>3
<1>24. ASSUME NEW q \in Programs, ChdirHangs(q) PROVE ChildOf(p)'
  BY <1>24 DEF ChdirHangs, Goes, server, child, signals
<1>25. ASSUME NEW q \in Programs, ChdirReturns(q) PROVE ChildOf(p)'
  <2>1. UNCHANGED <<way, outcome, files, reason, execd>>
    BY <1>25 DEF ChdirReturns, server
  <2>2. /\ at[q] = "stuck"
        /\ \E to \in {"execs", "failed"} : at' = [at EXCEPT ![q] = to]
    BY <1>25 DEF ChdirReturns, Goes
  <2>3. at'[p] = at[p] \/ (at[p] = "stuck" /\ at'[p] \in {"execs", "failed"})
    BY <2>2
  <2> QED BY <2>1, <2>3
<1>26. ASSUME NEW q \in Programs, ProgramEnds(q) PROVE ChildOf(p)'
  BY <1>26 DEF ProgramEnds, Exit, server, child, signals
<1>27. CASE UNCHANGED vars
  BY <1>27 DEF vars, server, child, signals
<1> QED BY <1>1, <1>2, <1>3, <1>4, <1>5, <1>6, <1>7, <1>8, <1>9, <1>10, <1>11,
   <1>12, <1>13, <1>14, <1>15, <1>16, <1>17, <1>18, <1>19, <1>20, <1>21,
   <1>22, <1>23, <1>24, <1>25, <1>26, <1>27
   DEF Next, ServerStep, ChildStep

\* A start is answered by the end of the exec pipe.
LEMMA StartedStep ==
  ASSUME Inductive, [Next]_vars, NEW p \in Programs
  PROVE  StartedFor(p)'
<1> USE DEF Inductive, StartedMeansExecd, StartedFor, TypeOK, ServerOK,
   FilesOK, ChildrenOK, Early, StartOf, ChildOf
<1>1. CASE Mask
  BY <1>1 DEF Mask, MaskWinch, server, child, signals
<1>2. CASE Fork
  BY <1>2 DEF Fork, server, child, signals
<1>3. CASE ForkRaises
  BY <1>3 DEF ForkRaises, CloseAll, Return, server, child, signals
<1>4. CASE ForkReturns
  BY <1>4 DEF ForkReturns, server, child, signals
<1>5. CASE WaitEnds
  BY <1>5 DEF WaitEnds, Return, server, child, signals, ExecEndClosed,
     ChildStates
<1>6. CASE ReadReason
  BY <1>6 DEF ReadReason, server, child, signals
<1>7. CASE FailureIsRead
  BY <1>7 DEF FailureIsRead, CloseReadEnds, server, child, signals
<1>8. CASE ReapFailed
  BY <1>8 DEF ReapFailed, Return, server, child, signals
<1>9. CASE TimeIsUp
  BY <1>9 DEF TimeIsUp, CloseReadEnds, Return, server, child, signals
<1>10. CASE Resize
  BY <1>10 DEF Resize, InTheGroup, server, child, signals
<1>11. ASSUME NEW q \in Programs, OpenPipes(q) PROVE StartedFor(p)'
  BY <1>11 DEF OpenPipes, server, child, signals
<1>12. ASSUME NEW q \in Programs, RefuseEarly(q) PROVE StartedFor(p)'
  BY <1>12 DEF RefuseEarly, server, child, signals
<1>13. ASSUME NEW q \in Programs, Reap(q) PROVE StartedFor(p)'
  BY <1>13 DEF Reap, server, child, signals
<1>14. ASSUME NEW q \in Programs, LetOutputGo(q) PROVE StartedFor(p)'
  BY <1>14 DEF LetOutputGo, server, child, signals
<1>15. ASSUME NEW q \in Programs, TakeWinch(q) PROVE StartedFor(p)'
  BY <1>15 DEF TakeWinch, ResetThenUnblock, Goes, server, child, signals
<1>16. ASSUME NEW q \in Programs, Detach(q) PROVE StartedFor(p)'
  BY <1>16 DEF Detach, Goes, server, child, signals
<1>17. ASSUME NEW q \in Programs, DetachRaises(q) PROVE StartedFor(p)'
  BY <1>17 DEF DetachRaises, Goes, Exit, server, child, signals
<1>18. ASSUME NEW q \in Programs, CloseFiles(q) PROVE StartedFor(p)'
  BY <1>18 DEF CloseFiles, Goes, server, child, signals
<1>19. ASSUME NEW q \in Programs, Chdir(q) PROVE StartedFor(p)'
  BY <1>19 DEF Chdir, Goes, server, child, signals
<1>20. ASSUME NEW q \in Programs, Exec(q) PROVE StartedFor(p)'
  BY <1>20 DEF Exec, Goes, server, child, signals
<1>21. ASSUME NEW q \in Programs, Raises(q) PROVE StartedFor(p)'
  BY <1>21 DEF Raises, Goes, server, child, signals
<1>22. ASSUME NEW q \in Programs, Show(q) PROVE StartedFor(p)'
  BY <1>22 DEF Show, Goes, server, child, signals
<1>23. ASSUME NEW q \in Programs, SayWhy(q) PROVE StartedFor(p)'
  BY <1>23 DEF SayWhy, Goes, Exit, server, child, signals
<1>24. ASSUME NEW q \in Programs, ChdirHangs(q) PROVE StartedFor(p)'
  BY <1>24 DEF ChdirHangs, Goes, server, child, signals
<1>25. ASSUME NEW q \in Programs, ChdirReturns(q) PROVE StartedFor(p)'
  BY <1>25 DEF ChdirReturns, Goes, server, child, signals
<1>26. ASSUME NEW q \in Programs, ProgramEnds(q) PROVE StartedFor(p)'
  BY <1>26 DEF ProgramEnds, Exit, server, child, signals
<1>27. CASE UNCHANGED vars
  BY <1>27 DEF vars, server, child, signals
<1> QED BY <1>1, <1>2, <1>3, <1>4, <1>5, <1>6, <1>7, <1>8, <1>9, <1>10, <1>11,
   <1>12, <1>13, <1>14, <1>15, <1>16, <1>17, <1>18, <1>19, <1>20, <1>21,
   <1>22, <1>23, <1>24, <1>25, <1>26, <1>27
   DEF Next, ServerStep, ChildStep

\* A refusal has closed what its start opened, and reaped its child.
LEMMA RefusedStep ==
  ASSUME Inductive, [Next]_vars, NEW p \in Programs
  PROVE  RefusedFor(p)'
<1> USE DEF Inductive, RefusalLeavesNothing, RefusedFor, TypeOK, ServerOK,
   ChildrenOK, StartOf, HoldsOf
<1>1. CASE Mask
  BY <1>1, PipesStay DEF Mask, MaskWinch, server, child, signals
<1>2. CASE Fork
  BY <1>2, PipesStay DEF Fork, server, child, signals
<1>3. CASE ForkRaises
  BY <1>3, PipesStay DEF ForkRaises, CloseAll, Return, server, child, signals
<1>4. CASE ForkReturns
  BY <1>4, PipesStay DEF ForkReturns, server, child, signals
<1>5. CASE WaitEnds
  BY <1>5, PipesStay DEF WaitEnds, Return, server, child, signals
<1>6. CASE ReadReason
  BY <1>6, PipesStay DEF ReadReason, server, child, signals
<1>7. CASE FailureIsRead
  BY <1>7, PipesStay DEF FailureIsRead, CloseReadEnds, server, child, signals
<1>8. CASE ReapFailed
  BY <1>8, PipesStay DEF ReapFailed, Return, server, child, signals
<1>9. CASE TimeIsUp
  BY <1>9, PipesStay DEF TimeIsUp, CloseReadEnds, Return, server, child,
     signals
<1>10. CASE Resize
  BY <1>10, PipesStay DEF Resize, InTheGroup, server, child, signals
<1>11. ASSUME NEW q \in Programs, OpenPipes(q) PROVE RefusedFor(p)'
  BY <1>11, PipesApart, PipesStay DEF OpenPipes, server, child, signals
<1>12. ASSUME NEW q \in Programs, RefuseEarly(q) PROVE RefusedFor(p)'
  BY <1>12, PipesStay DEF RefuseEarly, server, child, signals
<1>13. ASSUME NEW q \in Programs, Reap(q) PROVE RefusedFor(p)'
  BY <1>13, PipesStay DEF Reap, server, child, signals
<1>14. ASSUME NEW q \in Programs, LetOutputGo(q) PROVE RefusedFor(p)'
  BY <1>14, PipesStay DEF LetOutputGo, server, child, signals
<1>15. ASSUME NEW q \in Programs, TakeWinch(q) PROVE RefusedFor(p)'
  BY <1>15, PipesStay DEF TakeWinch, ResetThenUnblock, Goes, server, child,
     signals
<1>16. ASSUME NEW q \in Programs, Detach(q) PROVE RefusedFor(p)'
  BY <1>16, PipesStay DEF Detach, Goes, server, child, signals
<1>17. ASSUME NEW q \in Programs, DetachRaises(q) PROVE RefusedFor(p)'
  BY <1>17, PipesStay DEF DetachRaises, Goes, Exit, server, child, signals
<1>18. ASSUME NEW q \in Programs, CloseFiles(q) PROVE RefusedFor(p)'
  BY <1>18, PipesStay DEF CloseFiles, Goes, server, child, signals
<1>19. ASSUME NEW q \in Programs, Chdir(q) PROVE RefusedFor(p)'
  BY <1>19, PipesStay DEF Chdir, Goes, server, child, signals
<1>20. ASSUME NEW q \in Programs, Exec(q) PROVE RefusedFor(p)'
  BY <1>20, PipesStay DEF Exec, Goes, server, child, signals
<1>21. ASSUME NEW q \in Programs, Raises(q) PROVE RefusedFor(p)'
  BY <1>21, PipesStay DEF Raises, Goes, server, child, signals
<1>22. ASSUME NEW q \in Programs, Show(q) PROVE RefusedFor(p)'
  BY <1>22, PipesStay DEF Show, Goes, server, child, signals
<1>23. ASSUME NEW q \in Programs, SayWhy(q) PROVE RefusedFor(p)'
  BY <1>23, PipesStay DEF SayWhy, Goes, Exit, server, child, signals
<1>24. ASSUME NEW q \in Programs, ChdirHangs(q) PROVE RefusedFor(p)'
  BY <1>24, PipesStay DEF ChdirHangs, Goes, server, child, signals
<1>25. ASSUME NEW q \in Programs, ChdirReturns(q) PROVE RefusedFor(p)'
  BY <1>25, PipesStay DEF ChdirReturns, Goes, server, child, signals
<1>26. ASSUME NEW q \in Programs, ProgramEnds(q) PROVE RefusedFor(p)'
  BY <1>26, PipesStay DEF ProgramEnds, Exit, server, child, signals
<1>27. CASE UNCHANGED vars
  BY <1>27 DEF vars, server, child, signals, Pipes
<1> QED BY <1>1, <1>2, <1>3, <1>4, <1>5, <1>6, <1>7, <1>8, <1>9, <1>10, <1>11,
   <1>12, <1>13, <1>14, <1>15, <1>16, <1>17, <1>18, <1>19, <1>20, <1>21,
   <1>22, <1>23, <1>24, <1>25, <1>26, <1>27
   DEF Next, ServerStep, ChildStep

-----------------------------------------------------------------------------
(* The invariant.                                                          *)

LEMMA InitInductive == Init => Inductive
<1> SUFFICES ASSUME Init PROVE Inductive
  OBVIOUS
<1>1. ServerOK
  BY DEF Init, ServerOK
<1>2. FilesOK
  <2>1. way \in [Programs -> {"pty", "pipes"}]
    BY WaysAssumption DEF Init
  <2>2. held \subseteq Programs \X Ends
    BY DEF Init, Of, Ends
  <2>3. files \in [Programs -> SUBSET (Programs \X Ends)]
    BY DEF Init
  <2> QED BY <2>1, <2>2, <2>3 DEF FilesOK
<1>3. ChildrenOK
  BY DEF Init, ChildrenOK, ChildStates
<1>4. MaskOK
  BY DEF Init, MaskOK
<1>5. ASSUME NEW p \in Programs PROVE SignalsOf(p) /\ StartOf(p) /\ ChildOf(p)
  BY <1>5 DEF Init, SignalsOf, StartOf, ChildOf, Early
<1>6. ASSUME NEW p \in Programs PROVE HoldsOf(p)
  <2>1. held \cap Pipes(p) = {}
    BY DEF Init, Pipes, Of
  <2> QED BY <2>1 DEF Init, HoldsOf
<1>7. StartedMeansExecd /\ RefusalLeavesNothing
  BY DEF Init, StartedMeansExecd, RefusalLeavesNothing
<1> QED BY <1>1, <1>2, <1>3, <1>4, <1>5, <1>6, <1>7 DEF Inductive, TypeOK

LEMMA NextInductive == Inductive /\ [Next]_vars => Inductive'
<1> SUFFICES ASSUME Inductive, [Next]_vars PROVE Inductive'
  OBVIOUS
<1>1. StartedMeansExecd'
  BY StartedStep DEF StartedMeansExecd, StartedFor
<1>2. RefusalLeavesNothing'
  BY RefusedStep DEF RefusalLeavesNothing, RefusedFor
<1> QED
  BY <1>1, <1>2, ServerTypes, FileTypes, ChildTypes, MaskStep, SignalsStep,
     StartStep, HoldsStep, ChildOfStep
  DEF Inductive, TypeOK

THEOREM InductiveInvariant == Spec => []Inductive
BY InitInductive, NextInductive, PTL DEF Spec

-----------------------------------------------------------------------------
(* What it gives.                                                          *)

\* Every variable stays in its type.
THEOREM TypeCorrect == Spec => []TypeOK
BY InductiveInvariant, PTL DEF Inductive

\* _reset_winch_handler before the mask goes: no resize of the server's
\* terminal runs the server's handler in a child, and nobody stays deaf.
THEOREM WinchHandedOver == Spec => []WinchIsHandedOver
<1>1. Inductive => WinchIsHandedOver
  BY DEF Inductive, WinchIsHandedOver, MaskOK, SignalsOf
<1> QED BY InductiveInvariant, <1>1, PTL

\* wait_for_exec and exec_failure: what is said to run has exec'd, unless the
\* five seconds were up or a pty shows why it did not.
THEOREM StartedHasExecd == Spec => []StartedMeansExecd
BY InductiveInvariant, PTL DEF Inductive

\* fork_on_pipes: a start that is refused leaves no child and no pipe.
THEOREM RefusalLeavesNoTrace == Spec => []RefusalLeavesNothing
BY InductiveInvariant, PTL DEF Inductive

-----------------------------------------------------------------------------
(* Whose files a child may stay with.                                      *)

\* StaysWithItsOwnOnly of one program; a child on a pty fails only behind the
\* close of everything else.
StaysFor(p) ==
  /\ at[p] \in {"closed", "stuck", "execs"} =>
       files[p] = {OutputEnd(p), <<p, "exec_end">>}
  /\ way[p] = "pty" /\ at[p] = "failed" =>
       files[p] = {OutputEnd(p), <<p, "exec_end">>}
  /\ at[p] \in {"shown", "running"} => files[p] = {OutputEnd(p)}
  /\ at[p] \in {"unborn", "exited", "reaped"} => files[p] = {}

\* A step of the server, or of another child, leaves it as it is.
LEMMA LeftAlone ==
  ASSUME NEW p \in Programs, StaysFor(p), way' = way,
         at'[p] = at[p], files'[p] = files[p]
  PROVE  StaysFor(p)'
BY DEF StaysFor, OutputEnd

\* The step of a child itself.
LEMMA ItsOwnStep ==
  ASSUME TypeOK, NEW p \in Programs, StaysFor(p), ChildStep(p)
  PROVE  StaysFor(p)'
<1> USE DEF TypeOK, FilesOK, ChildrenOK, StaysFor, OutputEnd, Goes
<1>1. CASE TakeWinch(p)
  <2>1. /\ files' = files /\ way' = way
        /\ at'[p] \in {"reset", "unblocked"}
    BY <1>1 DEF TakeWinch, ResetThenUnblock
  <2> QED BY <2>1
<1>2. CASE Detach(p)
  BY <1>2 DEF Detach
<1>3. CASE DetachRaises(p)
  BY <1>3 DEF DetachRaises, Exit
<1>4. CASE CloseFiles(p)
  BY <1>4 DEF CloseFiles
<1>5. CASE Chdir(p)
  BY <1>5 DEF Chdir
<1>6. CASE Exec(p)
  BY <1>6 DEF Exec
<1>7. CASE Raises(p)
  BY <1>7 DEF Raises
<1>8. CASE Show(p)
  <2>1. /\ way' = way /\ way[p] = "pty" /\ at[p] = "failed" /\ at'[p] = "shown"
        /\ files'[p] = files[p] \ Of(p, {"exec_end"})
    BY <1>8 DEF Show
  <2>2. files[p] = {<<p, "slave">>, <<p, "exec_end">>}
    BY <2>1
  <2>3. files'[p] = {<<p, "slave">>}
    BY <2>1, <2>2 DEF Of
  <2> QED BY <2>1, <2>3
<1>9. CASE SayWhy(p)
  <2>1. way' = way /\ way[p] = "pipes" /\ at[p] = "failed"
    BY <1>9 DEF SayWhy
  <2>2. \/ at'[p] = "exited" /\ files'[p] = {}
        \/ at' = at /\ files' = files
    BY <1>9 DEF SayWhy, Exit
  <2> QED BY <2>1, <2>2
<1> QED BY <1>1, <1>2, <1>3, <1>4, <1>5, <1>6, <1>7, <1>8, <1>9 DEF ChildStep

\* The step of one child is none of another's.
LEMMA AnothersStep ==
  ASSUME TypeOK, NEW p \in Programs, NEW q \in Programs, q # p, StaysFor(p),
         ChildStep(q)
  PROVE  StaysFor(p)'
<1> USE DEF TypeOK, FilesOK, ChildrenOK, Goes
<1>1. way' = way /\ at'[p] = at[p] /\ files'[p] = files[p]
  <2>1. CASE TakeWinch(q)
    BY <2>1 DEF TakeWinch, ResetThenUnblock
  <2>2. CASE Detach(q) \/ DetachRaises(q) \/ CloseFiles(q)
    BY <2>2 DEF Detach, DetachRaises, CloseFiles, Exit
  <2>3. CASE Chdir(q) \/ Exec(q) \/ Raises(q) \/ Show(q)
    BY <2>3 DEF Chdir, Exec, Raises, Show
  <2>4. CASE SayWhy(q)
    BY <2>4 DEF SayWhy, Exit
  <2> QED BY <2>1, <2>2, <2>3, <2>4 DEF ChildStep
<1> QED BY <1>1, LeftAlone

LEMMA StaysStep ==
  ASSUME TypeOK, [Next]_vars, NEW p \in Programs, StaysFor(p)
  PROVE  StaysFor(p)'
<1> USE DEF TypeOK, ServerOK, FilesOK, ChildrenOK
<1>1. CASE Mask \/ ForkRaises \/ ForkReturns
  BY <1>1, LeftAlone DEF Mask, ForkRaises, ForkReturns, child
<1>2. CASE Fork
  <2>1. /\ at' = [at EXCEPT ![busy] = "forked"] /\ way' = way
        /\ files' = [files EXCEPT ![busy] = held]
    BY <1>2 DEF Fork
  <2>2. CASE busy = p
    BY <2>1, <2>2 DEF StaysFor
  <2>3. CASE busy # p
    BY <2>1, <2>3, LeftAlone
  <2> QED BY <2>2, <2>3
<1>3. CASE WaitEnds \/ ReadReason \/ FailureIsRead \/ TimeIsUp
  BY <1>3, LeftAlone DEF WaitEnds, ReadReason, FailureIsRead, TimeIsUp, child
<1>4. CASE ReapFailed
  <2>1. /\ at' = [at EXCEPT ![busy] = "reaped"] /\ at[busy] = "exited"
        /\ way' = way /\ files' = files
    BY <1>4 DEF ReapFailed
  <2>2. CASE busy = p
    BY <2>1, <2>2 DEF StaysFor
  <2>3. CASE busy # p
    BY <2>1, <2>3, LeftAlone
  <2> QED BY <2>2, <2>3
<1>5. CASE Resize
  BY <1>5, LeftAlone DEF Resize
<1>6. ASSUME NEW q \in Programs, OpenPipes(q) \/ RefuseEarly(q) \/ LetOutputGo(q)
      PROVE  StaysFor(p)'
  BY <1>6, LeftAlone DEF OpenPipes, RefuseEarly, LetOutputGo, child
<1>7. ASSUME NEW q \in Programs, Reap(q) PROVE StaysFor(p)'
  <2>1. /\ at' = [at EXCEPT ![q] = "reaped"] /\ at[q] = "exited"
        /\ way' = way /\ files' = files
    BY <1>7 DEF Reap
  <2>2. CASE q = p
    BY <2>1, <2>2 DEF StaysFor
  <2>3. CASE q # p
    BY <2>1, <2>3, LeftAlone
  <2> QED BY <2>2, <2>3
<1>8. ASSUME NEW q \in Programs, ChildStep(q) PROVE StaysFor(p)'
  BY <1>8, ItsOwnStep, AnothersStep
<1>9. ASSUME NEW q \in Programs, ChdirHangs(q) \/ ChdirReturns(q)
      PROVE  StaysFor(p)'
  BY <1>9 DEF ChdirHangs, ChdirReturns, Goes, StaysFor, OutputEnd
<1>10. ASSUME NEW q \in Programs, ProgramEnds(q) PROVE StaysFor(p)'
  <2>1. /\ at' = [at EXCEPT ![q] = "exited"] /\ way' = way
        /\ files' = [files EXCEPT ![q] = {}]
    BY <1>10 DEF ProgramEnds, Exit
  <2>2. CASE q = p
    BY <2>1, <2>2 DEF StaysFor
  <2>3. CASE q # p
    BY <2>1, <2>3, LeftAlone
  <2> QED BY <2>2, <2>3
<1>11. CASE UNCHANGED vars
  BY <1>11, LeftAlone DEF vars, child
<1> QED BY <1>1, <1>2, <1>3, <1>4, <1>5, <1>6, <1>7, <1>8, <1>9, <1>10, <1>11
        DEF Next, ServerStep

\* _close_file_descriptors: a child that may stay keeps nobody's files.
THEOREM ChildrenKeepTheirOwn == Spec => []StaysWithItsOwnOnly
<1> DEFINE Stay == \A p \in Programs : StaysFor(p)
<1>1. Init => Stay
  BY DEF Init, StaysFor
<1>2. TypeOK /\ Stay /\ [Next]_vars => Stay'
  BY StaysStep
<1>3. Stay => StaysWithItsOwnOnly
  BY DEF StaysFor, StaysWithItsOwnOnly
<1> HIDE DEF Stay
<1> QED BY <1>1, <1>2, <1>3, TypeCorrect, PTL DEF Spec
=============================================================================
