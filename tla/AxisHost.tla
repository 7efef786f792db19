------------------------------ MODULE AxisHost ------------------------------
(***************************************************************************)
(* An axis controller driven the way MotorDriver drives it                 *)
(* (koheron-server/drivers/motor_driver.hpp): each method is a script of   *)
(* register writes.  The writes of a script follow one another at the SPI  *)
(* rate (SpiGap ticks), and set_command pauses (sleep_for(1ms)) before it  *)
(* takes the execute bit back; the pause is one of HoldTicks, so that it   *)
(* ends before or after the run it started.  A method may be called in any *)
(* tick, at most MaxOps times.                                             *)
(*                                                                         *)
(* The history variables look at the pins of the motor alone.  A pulse     *)
(* moves the motor, and with it the load, but for the pulses that take up  *)
(* the play of the gears (play) after a turn.  spare counts the events     *)
(* that may cost a pulse, less the ticks in which the counter did          *)
(* something else than the load, and never more than two of them; steady   *)
(* the ticks since the last change that the pins show later than the       *)
(* counter.                                                                *)
(***************************************************************************)
EXTENDS Drv8825, Sequences

CONSTANTS
    MaxOps,       \* calls of MotorDriver in a behaviour
    StartTicks,   \* delays between reset and the first register write
    HoldTicks,    \* lengths of the pause in set_command
    MaxStep,      \* the argument of the set_max_step call that starts it
    Positions,    \* arguments of set_current_position
    Goals,        \* arguments of set_command: [dir, duration, mode, goto, accel]
    Periods,      \* their periods
    Tracks,       \* values enable_tracking and disable_tracking write
    ParkDirs,     \* directions of park_bit
    Cancels,      \* values of "instant" in cancel_command: 0, 1
    Backlashes    \* arguments of set_backlash: [tick, mode, n]

ASSUME HostAssumption ==
    /\ MaxOps \in Nat /\ MaxStep \in 3..(Modulus - 4)
    /\ StartTicks \subseteq Nat /\ HoldTicks \subseteq Nat
    /\ Positions \subseteq Word
    /\ Goals \subseteq [goto : Bit, dir : Bit, duration : Word, mode : Mode, accel : Bit]
    /\ Periods \subseteq Word /\ Tracks \subseteq TrackCtrl
    /\ ParkDirs \subseteq Bit /\ Cancels \subseteq Bit
    /\ Backlashes \subseteq [tick : Word, mode : Mode, n : Nat]

VARIABLES script, ops, play, spare, steady, goal, executes, runs
hostVars == <<script, ops>>
ghostVars == <<play, spare, steady, goal, executes, runs>>
allVars == <<vars, hostVars, ghostVars>>

W(reg, val) == [reg |-> reg, val |-> val, wait |-> SpiGap]

set_max_step(val) ==
    << W("counter_max", [set |-> 1, value |-> val]),
       W("counter_max", [set |-> 0, value |-> 0]) >>

set_current_position(val) ==
    << W("counter_load", [set |-> 1, value |-> val]),
       W("counter_load", [set |-> 0, value |-> 0]) >>

Execute(g) == [NoCommand EXCEPT !.go = 1, !.goto = g.goto, !.dir = g.dir,
                                !.mode = g.mode, !.accel = g.accel]

set_command(g, period, hold) ==
    << W("cmdtick", period), W("cmdduration", g.duration),
       [W("cmdcontrol", Execute(g)) EXCEPT !.wait = hold],
       W("cmdcontrol", NoCommand) >>

\* The park register bit (README.md:33), which MotorDriver leaves alone: its
\* set_park is a set_command to 0.  Another SPI host may write it.
park_bit(dir, period, hold) ==
    << W("cmdtick", period),
       [W("cmdcontrol", [NoCommand EXCEPT !.park = 1, !.dir = dir, !.mode = 7])
            EXCEPT !.wait = hold],
       W("cmdcontrol", NoCommand) >>

cancel_command(instant) ==
    << W("cmdcontrol", [NoCommand EXCEPT !.cancel = 1, !.cancelnow = instant]) >>

\* enable_tracking(instant) and disable_tracking(instant): one write.
write_trackctrl(t) == << W("trackctrl", t) >>

set_backlash(b) ==
    << W("backlash_tick", [mode |-> b.mode, tick |-> b.tick]),
       W("backlash_duration", Wrap(b.n * b.tick)) >>

\* What the host writes before it serves its first call, as SkyTracker's
\* load_settings does: the revolution and the backlash to use, if any.
Setups ==
    LET used == {b \in Backlashes : b.n > 0}
    IN  IF used = {} THEN {<<>>} ELSE {set_backlash(b) : b \in used}

\* The methods that may be called next.
Calls ==
         {set_command(g, p, h) : g \in Goals, p \in Periods, h \in HoldTicks}
    \cup {set_current_position(v) : v \in Positions}
    \cup {park_bit(d, p, h) : d \in ParkDirs, p \in Periods, h \in HoldTicks}
    \cup {cancel_command(i) : i \in Cancels}
    \cup {write_trackctrl(t) : t \in Tracks}
    \cup {set_backlash(b) : b \in Backlashes}

-----------------------------------------------------------------------------

Call == /\ script = <<>> /\ ops < MaxOps
        /\ script' \in Calls
        /\ ops' = ops + 1
        /\ UNCHANGED <<vars, ghostVars>>

Transfer ==
    /\ script # <<>> /\ gap = 0
    /\ ctrl' = [ctrl EXCEPT ![Head(script).reg] = Head(script).val]
    /\ gap' = Head(script).wait
    /\ script' = Tail(script)
    /\ executes' = IF ctrl'.cmdcontrol.go > ctrl.cmdcontrol.go
                   THEN executes + 1 ELSE executes
    /\ UNCHANGED <<axisVars, ops, play, spare, steady, goal, runs>>

PinRises == drv8825_step = 0 /\ drv8825_step' = 1

\* The level of the direction pin when the axis goes up.
Forward == ToBit(ReverseDirection = IsTmc)

\* What the motor does in a tick, by its pins alone, and what its load does.
MotorMoves == IF ~PinRises THEN 0
              ELSE IF drv8825_direction' = Forward THEN drv8825_mode'
                                                   ELSE -drv8825_mode'
LoadMoves == IF play > 0 THEN 0 ELSE MotorMoves

\* The counter does something else than the load.  (What a load of the counter
\* puts in is the host's word, or the wrap, for the same position.)
Slips ==
    /\ play >= 0
    /\ IF state_counter = "normal"
       THEN current_stepper_counter' # Wrap(current_stepper_counter + LoadMoves)
       ELSE LoadMoves # 0

LoadStarts == state_counter = "normal" /\ state_counter' = "buf0"
HostLoads == LoadStarts /\ ~WrapUp /\ ~WrapDown
RunStarts == state_motor = "idle" /\ state_motor' # "idle"
Turns == current_direction_buf[0]' # current_direction_buf[0]
ModeChanges == current_mode_out' # current_mode_out
TakeUpBegins == state_backlash # "processing" /\ state_backlash' = "processing"

\* A take-up goes on when its run ends or the axis turns within it, and nobody
\* can tell then where in the play the load is.
TakeUpLeft == /\ state_backlash' = "processing"
              /\ play < 0 \/ Turns \/ state_motor' = "idle"

\* The pulses of a take-up, as set_backlash asked for them: n * tick over tick.
Asked == IF bl'.tick = 0 THEN 0 ELSE bl'.duration \div bl'.tick

Arrives == state_motor_buf = "command" /\ set.cancel = 0 /\ AtTarget

\* A count, and where the wrap takes it.
Wrapping(c) == {c, CASE c = max_counter -> 2
                     [] c = Modulus - 1 -> Wrap(max_counter - 2)
                     [] OTHER -> c}

\* Where a run that arrives may rest: on its target.  A goto to the count the
\* axis is on lasts two ticks, and the step clock may rise within them.
Rests ==
    LET step == IF issue.direction = 1 THEN DeltaOf(issue.mode) ELSE -DeltaOf(issue.mode)
    IN  Wrapping(target_counter_int) \cup
        IF init_count # target_counter_int
        THEN {} ELSE Wrapping(Wrap(target_counter_int + step))

ClockTick ==
    /\ script = <<>> \/ gap > 0
    /\ Tick
    /\ play' = IF TakeUpLeft THEN -1
               ELSE IF TakeUpBegins THEN Asked
               ELSE IF play < 0 THEN 0
               ELSE IF PinRises /\ play > 0 THEN play - 1 ELSE play
    /\ spare' = LET left == spare + ToBit(RunStarts) + ToBit(Turns) + ToBit(HostLoads)
                              - ToBit(Slips)
                IN  IF left > 2 THEN 2 ELSE left
    /\ steady' = IF \/ state_motor = "idle" \/ state_counter # "normal"
                    \/ Turns \/ ModeChanges THEN 0
                 ELSE IF steady < 2 THEN steady + 1 ELSE 2
    /\ goal' = IF HostLoads \/ state_motor_buf' # "idle" THEN {}
               ELSE IF Arrives THEN Rests ELSE goal
    /\ runs' = IF state_motor_buf # "command" /\ state_motor_buf' = "command"
               THEN runs + 1 ELSE runs
    /\ UNCHANGED <<hostVars, executes>>

HostInit == /\ \E n \in StartTicks : InitWith(n)
            /\ \E s \in Setups : script = set_max_step(MaxStep) \o s
            /\ ops = 0
            /\ play = 0 /\ spare = 0 /\ steady = 0 /\ goal = {}
            /\ executes = 0 /\ runs = 0

HostNext == Call \/ Transfer \/ ClockTick

HostSpec == /\ HostInit /\ [][HostNext]_allVars
            /\ WF_allVars(ClockTick) /\ WF_allVars(Transfer)

-----------------------------------------------------------------------------
(* Properties. *)

\* The counter keeps up with the load of the motor, as its pins move it: each
\* start of a run, each turn (with its take-up of backlash, if any) and each
\* load by the host costs at most one pulse, of the last two of them that have
\* not cost any, and nothing else costs any.  A start may cost one:
\* stepping_clk may be high when the axis leaves idle, and the pin then rises
\* without an edge of counter_clk (drv8825.vhd:838).  What is lost in a take-up
\* whose run ends or turns within it is not counted here (TakeUpLeft).
CounterKeepsUp == spare >= 0

\* From two ticks after the last start, turn, change of mode and load on, the
\* counter moves with each pulse on the pins, by its micro-step and in its
\* direction, and with nothing else; in a take-up it stands still.
CountsPulses ==
    steady = 2 /\ steady' = 2 =>
      current_stepper_counter' =
        IF state_backlash = "processing" THEN current_stepper_counter
        ELSE Wrap(current_stepper_counter + MotorMoves)
PulsesCount == [][CountsPulses]_allVars

\* One step per pulse, in every mode the host asks for and in the one after
\* reset, and no position set that is not on the revolution.
OneStepAPulse ==
    /\ \A m \in UNION {{g.mode : g \in Goals}, {t.mode : t \in Tracks},
                      {b.mode : b \in Backlashes}, {0}} : DeltaOf(m) = 1
    /\ Positions \subseteq 0..(MaxStep + 1)

\* Then the counter never runs away past the revolution: the wraps, which are
\* taken on equality and in the low half of the step clock (drv8825.vhd:839),
\* are not missed.  (Counting more per pulse, it may step over the last count.)
CounterInRevolution ==
    OneStepAPulse /\ max_counter2 = MaxStep =>
        current_stepper_counter \in (0..MaxStep + 1) \cup {Modulus - 1}

\* After a goto or increment that was not cancelled, the axis stays on its
\* target, or where the wrap takes it from there, until the next run or load; a
\* goto to where it is already leaves it there or one step further.
RestsOnTarget == goal # {} => current_stepper_counter \in goal

\* The execute bit starts at most one run each time the host raises it.
OneRunPerExecute == runs <= executes

\* A take-up compares its count for equality with a duration that may not
\* move below it meanwhile.
TakeUpWithinDuration ==
    state_backlash = "processing" => ctr_backlash_cnt <= bl.duration

Running == state_motor_buf \in {"command", "park"}

\* Targets the axis comes across in its direction, wherever it starts.
Reachable ==
    /\ max_counter2 = MaxStep /\ DeltaOf(issue.mode) = 1
    /\ target_counter_int \in IF issue.direction = 1 THEN 2..(MaxStep + 1)
                                                     ELSE 0..(MaxStep - 1)

\* A run for such a target that has stopped speeding up only gets slower until
\* it ends: the deceleration points are met in the order of their stages,
\* wherever the target and the wrap of the counter lie.  (A run that misses its
\* target goes round once more and meets the points out of their order.)
OneHump ==
    [][Moving /\ Running' /\ Reachable /\ done_acceleration = 1
         => divider' >= divider]_allVars

\* A command or a park for such a target ends, unless it is cancelled first.
RunEnds == (Running /\ Reachable) ~> (~Running \/ set.cancel = 1)

Cancelling == state_motor_buf = "command" /\ set.cancel = 1
CancelOver == state_motor_buf # "command" \/ set.cancel = 0

\* An immediate cancel, and any cancel of a run without a ramp, stops the run
\* if the host leaves the bit alone.  (One that is to slow down first need not:
\* its points may lie behind the axis.)
CancelNowStops ==
    (Cancelling /\ (set.cancelnow = 1 \/ set.accel = 0)) ~> CancelOver

\* A take-up of backlash ends.
TakeUpEnds == (state_backlash = "processing") ~> (state_backlash # "processing")

=============================================================================
