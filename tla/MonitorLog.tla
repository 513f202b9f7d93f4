----------------------------- MODULE MonitorLog -----------------------------
(***************************************************************************)
(* What the monitor's history promises: the last MAX_HISTORY_LINES         *)
(* messages, in the order they were issued, none twice and none missing.   *)
(***************************************************************************)
EXTENDS Naturals, Sequences

CONSTANT MAX_HISTORY_LINES

VARIABLES
  lines,   \* the messages kept, the oldest first
  issued   \* how many there have been

Init ==
  /\ lines = <<>>
  /\ issued = 0

(* A message is its number. *)
Record ==
  /\ issued' = issued + 1
  /\ lines' = Append(IF Len(lines) < MAX_HISTORY_LINES THEN lines ELSE Tail(lines), issued + 1)

Spec == Init /\ [][Record]_<<lines, issued>>
=============================================================================
