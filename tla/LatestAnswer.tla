---------------------------- MODULE LatestAnswer ----------------------------
(***************************************************************************)
(* What the viewer promises of every request it hands to a background      *)
(* thread (slices, plots): however many are asked, answered or dropped,    *)
(* and in whatever order the answers come, the only answer that may appear *)
(* is the one to the newest request.                                       *)
(***************************************************************************)
EXTENDS Naturals

VARIABLES
    asked,   \* requests made so far; they are numbered from 1
    shown    \* the request whose answer is on the screen, 0 for none

Init == asked = 0 /\ shown = 0

\* Asking may clear the screen (a file switch does) or leave the old answer up.
Ask == asked' = asked + 1 /\ shown' \in {0, shown}

Answer == asked' = asked /\ shown' = asked

Clear == asked' = asked /\ shown' = 0

Next == Ask \/ Answer \/ Clear

Spec == Init /\ [][Next]_<<asked, shown>>
=============================================================================
