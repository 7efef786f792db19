----------------------------- MODULE MCDrivers -----------------------------
(***************************************************************************)
(* The drivers of config.yml, without the camera (it uses no other).       *)
(***************************************************************************)
EXTENDS Drivers

CONSTANTS motor, sky, ascom, focuser

MCDeps == [d \in Devices |-> CASE d = sky -> <<motor>>
                               [] d \in {ascom, focuser} -> <<sky>>
                               [] OTHER -> <<>>]
MCRank == [d \in Devices |-> CASE d = sky -> 1
                               [] d \in {ascom, focuser} -> 2
                               [] OTHER -> 0]
=============================================================================
