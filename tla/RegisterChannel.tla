--------------------------- MODULE RegisterChannel ---------------------------
(***************************************************************************)
(* What a register that crosses from one clock to another promises: a      *)
(* channel with room for one value.  The writer changes "in" as it likes.  *)
(* The channel takes the value there is when it is free, and hands it to   *)
(* the reader whole; it skips values that come and go while it is busy,    *)
(* never makes one up, and never reorders them.                            *)
(***************************************************************************)
CONSTANTS Values, Initial

VARIABLES in,    \* the writer's register
          taken, \* the value taken last
          full,  \* whether that value is still on its way
          out    \* the reader's register

vars == <<in, taken, full, out>>

Init == in = Initial /\ taken = Initial /\ full = FALSE /\ out = Initial

Write(v) == in' = v /\ UNCHANGED <<taken, full, out>>

Take == /\ ~full /\ in # taken
        /\ taken' = in /\ full' = TRUE
        /\ UNCHANGED <<in, out>>

Deliver == /\ full
           /\ out' = taken /\ full' = FALSE
           /\ UNCHANGED <<in, taken>>

Next == (\E v \in Values : Write(v)) \/ Take \/ Deliver

Safety == Init /\ [][Next]_vars

\* A value that stays is taken, and a value that is taken is delivered.
Spec == Safety /\ WF_vars(Take) /\ WF_vars(Deliver)
=============================================================================
