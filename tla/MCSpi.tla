------------------------------- MODULE MCSpi -------------------------------
(***************************************************************************)
(* SpiBus for TLC.  The bank is asked for half an address while it comes   *)
(* in: 1 before 3, 3 before 6, 17 before 34.                               *)
(***************************************************************************)
EXTENDS SpiBus

Reading(a) == [write |-> FALSE, address |-> a, word |-> 0]
Writing(a, w) == [write |-> TRUE, address |-> a, word |-> w]

MCTransfers == {Reading(a) : a \in {3, 6, 34}} \cup {Writing(6, 1), Writing(27, 2)}

\* The data is not the slowest: see README, section 5.
MCLates == {{}} \cup {{c} : c \in Crossings \ {"write_data"}}
MCNoLates == {{}}
=============================================================================
