--------------------------- MODULE BackendOutput ---------------------------
(***************************************************************************)
(* What any backend promises of a program's output (backends/base.py): it  *)
(* is handed over whole and in order, nothing is handed over while the     *)
(* reading is paused, and the end of the output is announced only behind   *)
(* the last byte -- and, like the bytes, never during a pause.             *)
(*                                                                         *)
(* Output is counted: byte i is the i-th byte the program wrote.           *)
(***************************************************************************)
EXTENDS Naturals

VARIABLES
  sent,     \* bytes the program has written
  handed,   \* bytes the backend has handed over, a prefix of what was sent
  paused,   \* between pause_reading and resume_reading
  status    \* "live" | "over": `closed` is true | "abandoned": let go early

backendVars == <<sent, handed, paused, status>>

BackendTypeOK ==
  /\ sent \in Nat
  /\ handed \in 0..sent
  /\ paused \in BOOLEAN
  /\ status \in {"live", "over", "abandoned"}

BackendInit ==
  /\ sent \in Nat
  /\ handed = 0
  /\ paused \in BOOLEAN
  /\ status = "live"

Send ==
  /\ status = "live"
  /\ sent' \in Nat
  /\ sent' > sent
  /\ UNCHANGED <<handed, paused, status>>

Hand ==
  /\ status = "live"
  /\ ~paused
  /\ handed' \in (handed + 1)..sent
  /\ UNCHANGED <<sent, paused, status>>

Pause == /\ ~paused
         /\ paused' = TRUE
         /\ UNCHANGED <<sent, handed, status>>

Continue == /\ paused
            /\ paused' = FALSE
            /\ UNCHANGED <<sent, handed, status>>

\* The end of the file is read behind the last byte.
Finish ==
  /\ status = "live"
  /\ ~paused
  /\ handed = sent
  /\ status' = "over"
  /\ UNCHANGED <<sent, handed, paused>>

\* The scope, a teardown, or a failure of whoever is handed a page lets the
\* pty go before its end.
Abandon ==
  /\ status = "live"
  /\ status' = "abandoned"
  /\ handed' \in handed..sent
  /\ handed' # handed => ~paused
  /\ UNCHANGED <<sent, paused>>

BackendNext == Send \/ Hand \/ Pause \/ Continue \/ Finish \/ Abandon

BackendSpec == BackendInit /\ [][BackendNext]_backendVars
=============================================================================
