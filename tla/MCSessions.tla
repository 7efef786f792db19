----------------------------- MODULE MCSessions -----------------------------
(***************************************************************************)
(* Sessions for TLC: two clients of one listener, whose limit is one       *)
(* session at a time, beside a second listener.                            *)
(***************************************************************************)
EXTENDS Sessions

CONSTANT tcp

MCVia == [c \in Clients |-> tcp]
MCWorkers == [ch \in Channels |-> 1]
=============================================================================
