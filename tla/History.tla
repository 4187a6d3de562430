------------------------------ MODULE History ------------------------------
(***************************************************************************)
(* What the scrollback promises (terminal.h:24-29): the newest lines that  *)
(* left the main screen are retained in order, up to a capacity, and a     *)
(* viewport that is scrolled back stays on the line it shows until that    *)
(* line is dropped.  Lines are numbered 1, 2, ... in the order they left   *)
(* the screen; anchor is the number of lines above the first visible row.  *)
(***************************************************************************)
EXTENDS Integers, Sequences

CONSTANTS
    Lines,      \* capacity
    Contents    \* what a line can hold

VARIABLES
    total,      \* number of lines that have left the screen
    retained,   \* the newest of them, oldest first
    anchor      \* lines above the viewport; equal to total in the live view

Oldest == total - Len(retained)

Init == total = 0 /\ retained = <<>> /\ anchor = 0

\* A line leaves the screen; the oldest retained line makes room for it.
Push(line) ==
    /\ total' = total + 1
    /\ retained' = LET all == Append(retained, line)
                   IN  IF Len(all) > Lines THEN Tail(all) ELSE all
    /\ anchor' = IF anchor = total THEN total'
                 ELSE IF anchor < total' - Len(retained') THEN total' - Len(retained')
                 ELSE anchor

\* The user moves the viewport, by no more than what is retained.
Scroll ==
    /\ anchor' \in Oldest..total
    /\ UNCHANGED <<total, retained>>

Next == Scroll \/ \E line \in Contents : Push(line)

Spec == Init /\ [][Next]_<<total, retained, anchor>>
=============================================================================
