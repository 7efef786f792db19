----------------------------- MODULE SyncVector -----------------------------
(***************************************************************************)
(* sync_Vector (hdl/SyncToClock.vhd): one register taken from Clock1 to    *)
(* Clock2.  ClockDomainSync makes one for every control and every status   *)
(* register, with SYNC_DEPTH 3 and no slave bits.                          *)
(*                                                                         *)
(* A change of Input toggles T1.  The toggle runs through a sync_Bits to   *)
(* Clock2, where the change of level between its output and D2 captures    *)
(* D0 in D4, and from D2 through a second sync_Bits back to Clock1, where  *)
(* it ends the busy time in which D0 and T1 are held.                      *)
(*                                                                         *)
(* The clocks are unrelated: their edges interleave in any order.  A       *)
(* flip-flop that samples one bit of the other domain at its edge sees the *)
(* bit before or after, which the order of two edges covers.  A vector     *)
(* that changes at the sampling edge may be seen with some bits old and    *)
(* some new: before is D0 as it was at the last Clock2 edge, and D4        *)
(* captures any mix of the two.                                            *)
(***************************************************************************)
EXTENDS Integers

CONSTANTS Bits,       \* positions of a vector
          SyncDepth   \* SYNC_DEPTH

ASSUME DepthAssumption == SyncDepth \in Nat /\ SyncDepth >= 2

Level == 0..1
Vector == [Bits -> Level]
SyncStages == 1..SyncDepth
InitVector == [b \in Bits |-> 0]

VARIABLES Input, D0, T1, sync1, before,   \* @Clock1; sync1 is syncClk1
          D2, D3, D4, sync2               \* @Clock2; sync2 is syncClk2

syncVars == <<Input, D0, T1, sync1, before, D2, D3, D4, sync2>>

\* One edge of a sync_Bits: Data_meta, then Data_sync(1), Data_sync(2), ...
Shift(chain, bit) ==
    [i \in SyncStages |-> IF i = 1 THEN bit ELSE chain[i - 1]]

BusyNever == FALSE
Busy == T1 # sync1[SyncDepth]
Changed_Clk1 == D0 # Input
Changed_Clk2 == sync2[SyncDepth] # D2

\* What an edge of Clock2 may read from D0.
Seen == {v \in Vector : \A b \in Bits : v[b] \in {before[b], D0[b]}}

Clock1 ==
    /\ IF Busy THEN UNCHANGED <<D0, T1, before>>
       ELSE /\ D0' = Input
            /\ T1' = IF Changed_Clk1 THEN 1 - T1 ELSE T1
            /\ before' = IF Changed_Clk1 THEN D0 ELSE before
    /\ sync1' = Shift(sync1, D2)
    /\ UNCHANGED <<Input, D2, D3, D4, sync2>>

CaptureAtLevel ==
    IF sync2[SyncDepth] = 1 THEN D4' \in Seen ELSE D4' = D4

Capture == IF Changed_Clk2 THEN D4' \in Seen ELSE D4' = D4

Clock2 ==
    /\ Capture
    /\ D2' = sync2[SyncDepth]
    /\ D3' = IF Changed_Clk2 THEN 1 ELSE 0
    /\ sync2' = Shift(sync2, T1)
    /\ before' = D0
    /\ UNCHANGED <<Input, D0, T1, sync1>>

\* The register this one copies takes another value.
Drive == /\ Input' \in Vector
         /\ UNCHANGED <<D0, T1, sync1, before, D2, D3, D4, sync2>>

SyncInit ==
    /\ Input = InitVector
    /\ D0 = InitVector /\ before = InitVector /\ D4 = InitVector
    /\ T1 = 0 /\ D2 = 0 /\ D3 = 0
    /\ sync1 = [i \in SyncStages |-> 0]
    /\ sync2 = [i \in SyncStages |-> 0]

SyncNext == Clock1 \/ Clock2 \/ Drive

\* Both clocks keep running.
SyncSpec == SyncInit /\ [][SyncNext]_syncVars /\ WF_syncVars(Clock1) /\ WF_syncVars(Clock2)

-----------------------------------------------------------------------------
SyncTypeOK ==
    /\ Input \in Vector /\ D0 \in Vector /\ before \in Vector /\ D4 \in Vector
    /\ T1 \in Level /\ D2 \in Level /\ D3 \in Level
    /\ sync1 \in [SyncStages -> Level] /\ sync2 \in [SyncStages -> Level]

\* At most one change of level is under way in the ring T1, sync2, D2, sync1:
\* what lies before it has seen the last toggle, what lies behind has not.
OneToggle ==
    /\ \A i, j \in SyncStages : i < j /\ sync2[j] = T1 => sync2[i] = T1
    /\ \A i \in SyncStages : D2 = T1 => sync2[i] = T1
    /\ \A i \in SyncStages : sync1[i] = T1 => D2 = T1
    /\ \A i, j \in SyncStages : i < j /\ sync1[j] = T1 => sync1[i] = T1

\* D0 has settled when the first stage has seen the toggle, and it has been
\* captured when D2 has.
Settled == /\ sync2[1] = T1 => before = D0
           /\ D2 = T1 => D4 = D0

SyncInv == SyncTypeOK /\ OneToggle /\ Settled

\* The capture never reads a vector while it changes.
CaptureIsWhole == Changed_Clk2 => before = D0

Channel == INSTANCE RegisterChannel
             WITH Values <- Vector, Initial <- InitVector,
                  in <- Input, taken <- D0, full <- (T1 # D2), out <- D4

\* The handshake implements a channel with room for one value: safety, and
\* every value taken is delivered; one that stays in the register arrives.
ImplementsChannel == Channel!Spec
=============================================================================
