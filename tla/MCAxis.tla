------------------------------- MODULE MCAxis -------------------------------
(***************************************************************************)
(* Instances of AxisHost for TLC.                                          *)
(***************************************************************************)
EXTENDS AxisHost

Goal(goto, dir, duration, mode, accel) ==
    [goto |-> goto, dir |-> dir, duration |-> duration, mode |-> mode,
     accel |-> accel]
Track(enable, dir, tick) ==
    [enable |-> enable, dir |-> dir, mode |-> 7, pec |-> 0, tick |-> tick]

None == {}

PlainGoals == {Goal(1, 1, 4, 7, 0), Goal(1, 0, 5, 7, 0),
               Goal(0, 1, 3, 7, 0), Goal(0, 0, 3, 7, 0)}
PlainTracks == {NoTrack, Track(1, 0, 18), Track(1, 1, 16)}

RampGoals == {Goal(1, 0, 16, 7, 1), Goal(0, 1, 2, 5, 0)}
RampTracks == {Track(1, 1, 16)}
RampBacklashes == {[tick |-> 12, mode |-> 4, n |-> 3],
                   [tick |-> 0, mode |-> 0, n |-> 0]}
=============================================================================
