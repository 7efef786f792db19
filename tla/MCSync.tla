------------------------------- MODULE MCSync -------------------------------
(***************************************************************************)
(* SyncVector for TLC: two-bit registers, the depth the design uses.       *)
(***************************************************************************)
EXTENDS SyncVector
=============================================================================
