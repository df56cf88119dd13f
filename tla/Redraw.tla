------------------------------- MODULE Redraw -------------------------------
(***************************************************************************)
(* When what was fed is drawn: the end of Process._feed, and the task      *)
(* _pay_what_is_owed.                                                      *)
(*                                                                         *)
(* Time is counted in ticks, as ages and not as dates, so that the model   *)
(* is finite and runs for ever.  The event loop is quick next to a tick: a *)
(* sleep that is over ends before the clock moves on.                      *)
(***************************************************************************)
EXTENDS Naturals

CONSTANTS
  Limit,     \* _REDRAW_AT_LEAST_EVERY, in ticks
  MaxPayers  \* bound: tasks in _pay_what_is_owed that sleep until one tick

ASSUME LimitAssumption == Limit \in Nat \ {0}
ASSUME MaxPayersAssumption == MaxPayers \in Nat \ {0}

VARIABLES
  group,      \* whether the process was started in a task group
  more,       \* backend.more_is_waiting: the last page was full
  sinceDrawn, \* ticks since _invalidated_at, Limit standing for any more
  owed,       \* Process._owed
  payers,     \* per ticks left to sleep: the tasks in _pay_what_is_owed
  unseen,     \* whether something was fed that no redraw was asked for
  unseenFor   \* ticks since the first of it was fed

redrawVars == <<group, more, sinceDrawn, owed, payers, unseen, unseenFor>>

RedrawFlagsOK == {group, more, owed, unseen} \subseteq BOOLEAN
AgesOK == sinceDrawn \in 0..Limit /\ unseenFor \in Nat
PayersOK ==
  /\ payers \in [0..Limit -> 0..MaxPayers]
  /\ ~group => \A k \in 0..Limit : payers[k] = 0

RedrawTypeOK == RedrawFlagsOK /\ AgesOK /\ PayersOK

RedrawInit ==
  /\ group \in BOOLEAN
  /\ more = FALSE
  /\ sinceDrawn = Limit  \* _invalidated_at is 0.0
  /\ owed = FALSE /\ unseen = FALSE /\ unseenFor = 0
  /\ payers = [k \in 0..Limit |-> 0]

-----------------------------------------------------------------------------
(* Process._feed, after the page was received.                             *)

\* mutation: a redraw soon after another is held back, whole or not
HoldsBackSoon(full) == group /\ sinceDrawn < Limit

HoldsBack(full) == full /\ group /\ sinceDrawn < Limit

Invalidate ==
  /\ sinceDrawn' = 0 /\ owed' = FALSE
  /\ unseen' = FALSE /\ unseenFor' = 0

\* mutation: the one who pays sleeps again on every page
OweLater ==
  /\ owed' = TRUE
  /\ payers' = [k \in 0..Limit |-> IF k = Limit THEN 1 ELSE 0]

\* A debt has one who pays it; a later page adds to the debt.
Owe ==
  /\ owed' = TRUE
  /\ IF owed THEN UNCHANGED payers
     ELSE /\ payers[Limit] < MaxPayers
          /\ payers' = [payers EXCEPT ![Limit] = @ + 1]

\* A page is received; the backend says whether it was full.
Feed(full) ==
  /\ more' = full
  /\ IF HoldsBack(full)
     THEN /\ Owe
          /\ unseen' = TRUE
          /\ UNCHANGED <<sinceDrawn, unseenFor>>
     ELSE Invalidate /\ UNCHANGED payers
  /\ UNCHANGED group

(* _pay_what_is_owed, when its sleep is over.                              *)
Pay ==
  /\ payers[0] > 0
  /\ payers' = [payers EXCEPT ![0] = @ - 1]
  /\ IF owed THEN Invalidate
     ELSE UNCHANGED <<sinceDrawn, owed, unseen, unseenFor>>
  /\ UNCHANGED <<group, more>>

\* The clock.  Nobody whose sleep is over waits any longer.
Tick ==
  /\ payers[0] = 0
  /\ sinceDrawn' = IF sinceDrawn < Limit THEN sinceDrawn + 1 ELSE Limit
  /\ payers' = [k \in 0..Limit |-> IF k < Limit THEN payers[k + 1] ELSE 0]
  /\ unseenFor' = IF unseen THEN unseenFor + 1 ELSE 0
  /\ UNCHANGED <<group, more, owed, unseen>>

RedrawNext ==
  \/ \E full \in BOOLEAN : Feed(full)
  \/ Pay
  \/ Tick

RedrawSpec == RedrawInit /\ [][RedrawNext]_redrawVars

-----------------------------------------------------------------------------
(* Properties.                                                             *)

\* process.py:21-25: what was fed is drawn within the limit, however the
\* pages of a flood fall and whichever of several sleepers pays.
DrawnWithinTheLimit == unseen => unseenFor <= Limit

\* process.py:250-254: only a write that is still arriving leaves the screen
\* behind what was fed, and only where there is a group to pay the redraw
\* from: after a short page the screen is up to date.
OnlyAWriteIsHeldBack == unseen => group /\ more /\ owed

\* Why DrawnWithinTheLimit holds: somebody pays every debt in time.
DebtIsPaidInTime ==
  owed => \E k \in 0..Limit : payers[k] > 0 /\ unseenFor + k <= Limit
=============================================================================
