------------------------------- MODULE MCPane -------------------------------
\* Three parts of a pane that share no state -- the way in of a local program,
\* a remote program, and when what was fed is drawn -- for TLC, which looks at
\* one of them in a behaviour: beside each other they have only behaviours
\* that each has alone.
EXTENDS PtyInput, SshBackend, Redraw

VARIABLE looksAt  \* the part that moves; the others stay as they begin

Parts == {"input", "remote", "redraw"}
allVars == <<inputVars, vars, redrawVars, looksAt>>

AnyPlatform == {TRUE, FALSE}  \* a BSD and a Linux

\* A part that stays as it begins may begin in one way.
PaneInit ==
  /\ InputInit /\ Init /\ RedrawInit
  /\ looksAt \in Parts
  /\ looksAt # "input" => raises
  /\ looksAt # "redraw" => group

InputMoves  == looksAt = "input" /\ InputNext /\ UNCHANGED <<vars, redrawVars>>
RemoteMoves == looksAt = "remote" /\ Next /\ UNCHANGED <<inputVars, redrawVars>>
RedrawMoves == looksAt = "redraw" /\ RedrawNext /\ UNCHANGED <<inputVars, vars>>

PaneNext == (InputMoves \/ RemoteMoves \/ RedrawMoves) /\ UNCHANGED looksAt

\* The fairness of each part, where that part is looked at.
PaneFairness ==
  /\ WF_inputVars(looksAt = "input" /\ WriterStep)
  /\ WF_inputVars(looksAt = "input" /\ WriterCancelled)
  /\ \A w \in Waiters : WF_inputVars(looksAt = "input" /\ Answer(w))
  /\ WF_vars(looksAt = "remote" /\ Feeder)
  /\ WF_vars(looksAt = "remote" /\ WaiterReturns)

PaneSpec == PaneInit /\ [][PaneNext]_allVars /\ PaneFairness
=============================================================================
