------------------------------ MODULE MCMount ------------------------------
(* A fast period (2) and a slow one (6) around HighSpeed = 4, and ramps of up *)
(* to six writes below RampEnd = 12.                                         *)
EXTENDS Mount

MCPeriods == {2, 6}
=============================================================================
