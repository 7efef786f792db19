------------------------------ MODULE Drv8825 ------------------------------
(***************************************************************************)
(* One axis controller of the FPGA design (hdl/drv8825.vhd), cycle by      *)
(* cycle of clk_50.  Every clocked VHDL process is one operator; a Tick is *)
(* their conjunction, so all of them read the old signals and write the    *)
(* new ones, as the simulator and the flip-flops do.  The step counter is  *)
(* the exception: it is clocked by counter_clk, a register of clk_50, and  *)
(* so sees the values the same clk_50 edge has just produced.              *)
(*                                                                         *)
(* std_logic is 0..1, unsigned(29 downto 0) and the integer ranges         *)
(* 0 to 2**30-1 are 0..Modulus-1 (Modulus is 2^30 in the code).            *)
(*                                                                         *)
(* The host side is HostWrite: a control register, already in the clk_50   *)
(* domain, takes a new value.  SPI transfers are serial, so two writes are *)
(* at least SpiGap ticks apart.                                            *)
(***************************************************************************)
EXTENDS Integers

CONSTANTS
    Modulus,        \* 2^30: width of counters and periods
    AccelSteps,     \* aceel_steps: number of speed stages (7)
    TotalAccel,     \* total_accel_count: ticks per stage (12500000)
    AccelMinSteps,  \* 2^14: a shorter command is never accelerated
    AccelMaxTick,   \* 2^15: a slower command is never accelerated
    ResetSpeed,     \* period after reset (147483647)
    SpeedmapReset,  \* speedmap_map after reset (100000)
    IsTmc,          \* is_tmc2226
    ReverseDirection, \* REVERSE_DIRECTION
    SpiGap,         \* least number of ticks between two register writes
    CmdControls, CmdTicks, CmdDurations, TrackCtrls, TrackPecs,
    BacklashTicks, BacklashDurations, CounterLoads, CounterMaxes
                    \* the values the host writes to each register

Bit == 0..1
Word == 0..(Modulus - 1)
Mode == 0..7

CmdControl == [go : Bit, goto : Bit, dir : Bit, park : Bit, mode : Mode,
               accel : Bit, cancelnow : Bit, cancel : Bit]
TrackCtrl == [enable : Bit, dir : Bit, mode : Mode, pec : Bit, tick : Word]
BacklashTick == [mode : Mode, tick : Word]
Loader == [set : Bit, value : Word]      \* bit 31 and bits 29..0

ASSUME ParamsAssumption ==
    /\ Modulus \in Nat /\ Modulus >= 8
    /\ AccelSteps \in 1..7
    /\ TotalAccel \in Nat \ {0}
    /\ AccelMinSteps \in Nat /\ AccelMaxTick \in Nat
    /\ ResetSpeed \in Word /\ SpeedmapReset \in Word
    /\ IsTmc \in BOOLEAN /\ ReverseDirection \in BOOLEAN
    /\ SpiGap \in Nat

ASSUME InputsAssumption ==
    /\ CmdControls \subseteq CmdControl
    /\ CmdTicks \subseteq Word
    /\ CmdDurations \subseteq Word
    /\ TrackCtrls \subseteq TrackCtrl
    /\ TrackPecs \subseteq Int
    /\ BacklashTicks \subseteq BacklashTick
    /\ BacklashDurations \subseteq Word
    /\ CounterLoads \subseteq Loader
    /\ CounterMaxes \subseteq Loader

VARIABLES
    ctrl, gap,                                         \* control registers
    set, bl,                                           \* settings
    state_motor, state_motor_buf, issue, target_counter_int,
    ctr_cmd_buf, ctr_park_buf, init_count,
    cutoff_count, cutoff_signed, cuttoff_special,      \* issue_command
    current_direction_buf, current_speed_buf, current_mode_buf,
    acceleration_counter, divider, done_acceleration, scaled,
    speedmap_map, acceleration_map,
    decceleration_map, decceleration_map_buf,          \* accel_control
    state_change_trigger,                              \* trigger_changes
    state_backlash, ctr_backlash_cnt, counter_buf,
    current_mode_out,                                  \* backslash
    delta_counter,                                     \* delta_counter_proc
    stepping_clk, count,                               \* clock_generatory
    drv8825_step, drv8825_mode, drv8825_direction_out,
    drv8825_direction_buf, drv8825_direction,          \* registered_output
    state_counter, cnt_enable, counter_clk, load_count, load_counter,
    pulse_load, max_counter, max_counter2, mask_counter_max, \* loadcounter
    current_stepper_counter                            \* step counter

settingsVars == <<set, bl>>
issueVars == <<state_motor, state_motor_buf, issue, target_counter_int,
               ctr_cmd_buf, ctr_park_buf, init_count, cutoff_count,
               cutoff_signed, cuttoff_special>>
accelVars == <<current_direction_buf, current_speed_buf, current_mode_buf,
               acceleration_counter, divider, done_acceleration, scaled,
               speedmap_map, acceleration_map, decceleration_map,
               decceleration_map_buf>>
clockVars == <<state_change_trigger, state_backlash, ctr_backlash_cnt,
               counter_buf, current_mode_out, delta_counter, stepping_clk,
               count, drv8825_step, drv8825_mode, drv8825_direction_out,
               drv8825_direction_buf, drv8825_direction>>
counterVars == <<state_counter, cnt_enable, counter_clk, load_count,
                 load_counter, pulse_load, max_counter, max_counter2,
                 mask_counter_max, current_stepper_counter>>
axisVars == <<settingsVars, issueVars, accelVars, clockVars, counterVars>>
vars == <<ctrl, gap, axisVars>>

-----------------------------------------------------------------------------
(* Arithmetic of the 30-bit unsigned signals. *)

Wrap(n) == n % Modulus
Pow2 == <<1, 2, 4, 8, 16, 32, 64, 128>>
ToBit(b) == IF b THEN 1 ELSE 0
Stages == 1..AccelSteps
Moving == state_motor \in {"command", "park"}

\* Steps the counter advances per pulse in a micro-stepping mode.
DeltaOf(mode) ==
    IF IsTmc THEN <<1, 1, 1, 8, 4, 2, 1, 1>>[mode + 1]
             ELSE <<32, 16, 8, 4, 2, 1, 1, 1>>[mode + 1]

\* A value folded back once into the revolution when it exceeds max_counter2.
FoldOnce(n) == IF n > max_counter2 THEN n - max_counter2 ELSE n

-----------------------------------------------------------------------------
(* settings: the registers are sampled, most of them only while no command *)
(* runs; the cancel bits only while one does.  The first branch is taken   *)
(* in park as well, so there cancel is forced to 0.                        *)

SampleCommand ==
    set' = [direction |-> ctrl.cmdcontrol.dir, go |-> ctrl.cmdcontrol.go,
            goto |-> ctrl.cmdcontrol.goto, park |-> ctrl.cmdcontrol.park,
            mode |-> ctrl.cmdcontrol.mode, tick |-> ctrl.cmdtick,
            duration |-> ctrl.cmdduration,
            accel |-> IF /\ ctrl.cmdduration >= AccelMinSteps
                         /\ ctrl.cmdtick < AccelMaxTick
                      THEN ctrl.cmdcontrol.accel ELSE 0,
            cancel |-> 0, cancelnow |-> set.cancelnow,
            track |-> ctrl.trackctrl, pec |-> ctrl.pec]

SampleCancel ==
    set' = [set EXCEPT !.cancel = ctrl.cmdcontrol.cancel,
                       !.cancelnow = ctrl.cmdcontrol.cancelnow,
                       !.pec = ctrl.pec]

SampleBacklashAlways ==
    bl' = [tick_in |-> ctrl.backlash_tick.tick, tick |-> bl.tick_in,
           duration_in |-> ctrl.backlash_duration,
           duration |-> bl.duration_in, mode |-> ctrl.backlash_tick.mode]

SampleBacklash ==
    bl' = IF state_backlash = "processing" THEN bl
          ELSE [tick_in |-> ctrl.backlash_tick.tick, tick |-> bl.tick_in,
                duration_in |-> ctrl.backlash_duration,
                duration |-> bl.duration_in,
                mode |-> ctrl.backlash_tick.mode]

settings ==
    /\ IF state_motor = "command" THEN SampleCancel ELSE SampleCommand
    /\ SampleBacklash

-----------------------------------------------------------------------------
(* issue_command: the motor state machine.  state_motor follows            *)
(* state_motor_buf one tick later.                                         *)

\* A rising edge of the execute and of the park bit.
ExecutesLevel == set.go = 1
Executes == set.go = 1 /\ ctr_cmd_buf = 0
Parks == set.park = 1 /\ ctr_park_buf = 0

\* The position an increment or decrement command is to end at.
RelativeTarget ==
    LET c == current_stepper_counter
        n == set.duration
    IN  IF set.direction = 1
        THEN IF Wrap(c + n) > max_counter2 THEN Wrap(c + n - max_counter2)
                                           ELSE Wrap(c + n)
        ELSE IF c > n THEN c - n ELSE Wrap(c - n + max_counter2)

StartCommand ==
    /\ Executes
    /\ state_motor_buf' = "command"
    /\ issue' = [direction |-> set.direction, mode |-> set.mode,
                 speed |-> set.tick, stop |-> 0]
    /\ target_counter_int' = IF set.goto = 1 THEN set.duration
                                             ELSE RelativeTarget
    /\ init_count' = current_stepper_counter
    /\ cutoff_count' = 0

StartPark ==
    /\ ~Executes /\ Parks
    /\ state_motor_buf' = "park"
    /\ issue' = [direction |-> set.direction, mode |-> set.mode,
                 speed |-> set.tick, stop |-> 0]
    /\ target_counter_int' = 0
    /\ cutoff_count' = 0
    /\ UNCHANGED init_count

TrackOrIdle ==
    /\ ~Executes /\ ~Parks
    /\ IF set.track.enable = 1
       THEN /\ state_motor_buf' = "tracking"
            /\ issue' = [direction |-> set.track.dir,
                         mode |-> set.track.mode, stop |-> 0,
                         speed |-> IF set.track.pec = 1
                                   THEN Wrap(set.track.tick + set.pec)
                                   ELSE set.track.tick]
       ELSE /\ state_motor_buf' = "idle"
            /\ issue' = [issue EXCEPT !.stop = 0]
    /\ cutoff_count' = FoldOnce(cutoff_signed)
    /\ UNCHANGED <<target_counter_int, init_count>>

\* How far the target moves when a cancelled run is to slow down first.
Cutoff ==
    LET c == current_stepper_counter
        t == target_counter_int
        a == acceleration_map[1]
    IN  IF issue.direction = 1
        THEN IF t > c THEN [signed |-> Wrap(t - c - a), special |-> 0]
                      ELSE [signed |-> Wrap(c - t + a), special |-> 1]
        ELSE IF t > c THEN [signed |-> Wrap(max_counter2 - t + c - a),
                            special |-> 1]
                      ELSE [signed |-> Wrap(c - t - a), special |-> 0]

StopNowUnlessRamp ==
    /\ set.accel = 0
    /\ state_motor_buf = "park" \/ stepping_clk = 1

StopNow ==
    /\ set.cancelnow = 1 \/ set.accel = 0
    /\ state_motor_buf = "park" \/ stepping_clk = 1

\* A cancelled run stops at once, or slows down and stops in the last stage.
\* The target is not looked at any more.
CancelRun ==
    /\ state_motor_buf' = IF StopNow \/ divider = AccelSteps THEN "idle"
                                                       ELSE state_motor_buf
    /\ issue' = [issue EXCEPT !.stop = ToBit(~StopNow)]
    /\ IF ~StopNow /\ issue.stop = 0
       THEN /\ cutoff_signed' = Cutoff.signed
            /\ cuttoff_special' = Cutoff.special
       ELSE UNCHANGED <<cutoff_signed, cuttoff_special>>

AtTargetHeld ==
    /\ target_counter_int = current_stepper_counter
    /\ stepping_clk = 0 /\ ctr_cmd_buf = 1

AtTarget ==
    /\ target_counter_int = current_stepper_counter
    /\ stepping_clk = 0

ContinueRun ==
    /\ state_motor_buf' = IF AtTarget THEN "idle" ELSE state_motor_buf
    /\ issue' = [issue EXCEPT !.stop = 0]
    /\ UNCHANGED <<cutoff_signed, cuttoff_special>>

issue_command ==
    /\ state_motor' = state_motor_buf
    /\ ctr_cmd_buf' = set.go
    /\ ctr_park_buf' = set.park
    /\ IF state_motor_buf \in {"command", "park"}
       THEN /\ IF set.cancel = 1 THEN CancelRun ELSE ContinueRun
            /\ cutoff_count' = FoldOnce(cutoff_signed)
            /\ UNCHANGED <<target_counter_int, init_count>>
       ELSE /\ StartCommand \/ StartPark \/ TrackOrIdle
            /\ cutoff_signed' = 0
            /\ UNCHANGED cuttoff_special

-----------------------------------------------------------------------------
(* accel_control: the speed ramp.  Stage AccelSteps is the slowest (period *)
(* times 2^AccelSteps), stage 0 the commanded period.  acceleration_map[i] *)
(* holds the steps made when stage i was left, and decceleration_map[i]    *)
(* the position at which stage i is entered again on the way down.         *)

\* Steps made since the command started, in the direction of the run.
StepsMade ==
    LET c == current_stepper_counter
        o == acceleration_map[0]
    IN  IF issue.direction = 1
        THEN IF c < o THEN Wrap(max_counter2 + c - o) ELSE Wrap(c - o)
        ELSE IF o < c THEN Wrap(o - c + max_counter2) ELSE Wrap(o - c)

DecelerationPointSwapped(i) ==
    LET a == acceleration_map[i]
        t == target_counter_int
    IN  IF issue.direction = 1
        THEN Wrap(t + a + cutoff_count)
        ELSE Wrap(t - a - cutoff_count)

DecelerationPoint(i) ==
    LET a == acceleration_map[i]
        t == target_counter_int
    IN  IF issue.direction = 1
        THEN IF cuttoff_special = 0 THEN Wrap(t - a - cutoff_count)
                                    ELSE Wrap(t - a + cutoff_count)
        ELSE Wrap(t + a + cutoff_count)

\* The period of stage i.  The low byte of current_scaled_buffer keeps its
\* reset value, all ones, so i ones are shifted in below the period.
Slowed(i) == Wrap((scaled + 1) * Pow2[i + 1] - 1)

StageDone == done_acceleration = 0 /\ acceleration_counter = 0

\* The stage before the last is over, or the run is being cancelled.
RampDoneLate == \/ done_acceleration = 1
                \/ issue.stop = 1
                \/ StageDone /\ divider = 0

RampDone == \/ done_acceleration = 1
            \/ issue.stop = 1
            \/ StageDone /\ divider = 1

\* Stages whose deceleration point is where the axis is now.
SlowDown == IF done_acceleration = 0 THEN {}
            ELSE {i \in Stages : decceleration_map[i] = current_stepper_counter}

Highest(S) == CHOOSE i \in S : \A j \in S : j <= i

Ramp ==
    /\ current_speed_buf' = [current_speed_buf EXCEPT
                               ![0] = speedmap_map[divider],
                               ![1] = current_speed_buf[0]]
    /\ speedmap_map' = [i \in 0..AccelSteps |->
                          IF i = 0 THEN issue.speed ELSE Slowed(i)]
    /\ decceleration_map_buf' = [i \in Stages |-> DecelerationPoint(i)]
    /\ decceleration_map' = [i \in Stages |->
                               FoldOnce(decceleration_map_buf[i])]
    /\ acceleration_map' = [i \in 0..AccelSteps |->
                              IF StageDone /\ i = divider THEN StepsMade
                              ELSE IF i = 0 THEN init_count
                              ELSE acceleration_map[i]]
    /\ done_acceleration' = ToBit(RampDone)
    /\ divider' = IF StageDone THEN divider - 1
                  ELSE IF SlowDown # {} THEN Highest(SlowDown) ELSE divider
       \* Once done, the countdown is not read until a new run reloads it.
    /\ acceleration_counter' = IF StageDone THEN TotalAccel
                               ELSE IF done_acceleration = 1
                               THEN acceleration_counter
                               ELSE acceleration_counter - 1

\* A run without acceleration: the commanded period, the ramp is kept.
NoRamp ==
    /\ current_speed_buf' = [current_speed_buf EXCEPT
                               ![0] = issue.speed, ![1] = current_speed_buf[0]]
    /\ acceleration_map' = [acceleration_map EXCEPT ![0] = init_count]
    /\ UNCHANGED <<speedmap_map, decceleration_map, decceleration_map_buf,
                   done_acceleration, divider, acceleration_counter>>

\* No run: the ramp is cleared for the next one.
ResetRamp ==
    /\ current_speed_buf' = [current_speed_buf EXCEPT
                               ![0] = issue.speed, ![1] = current_speed_buf[0]]
    /\ acceleration_map' = [i \in 0..AccelSteps |-> 0]
    /\ speedmap_map' = [i \in 0..AccelSteps |-> SpeedmapReset]
    /\ decceleration_map' = [i \in Stages |-> 0]
    /\ decceleration_map_buf' = [i \in Stages |-> 0]
    /\ done_acceleration' = 0
    /\ divider' = AccelSteps
    /\ acceleration_counter' = TotalAccel

accel_control ==
    /\ current_direction_buf' = [current_direction_buf EXCEPT
                                   ![0] = issue.direction,
                                   ![1] = current_direction_buf[0]]
    /\ current_mode_buf' = issue.mode
    /\ scaled' = issue.speed
    /\ IF Moving THEN IF set.accel = 1 THEN Ramp ELSE NoRamp
                 ELSE ResetRamp

-----------------------------------------------------------------------------
(* trigger_changes, delta_counter_proc, clock_generatory and backslash:    *)
(* the step clock, its micro-stepping mode and the backlash take-up.       *)

trigger_changes ==
    LET turned == current_direction_buf[1] # current_direction_buf[0]
        paced  == current_speed_buf[1] # current_speed_buf[0]
    IN  state_change_trigger' = IF turned /\ paced THEN "direction_speed"
                                ELSE IF turned THEN "direction"
                                ELSE IF paced THEN "speed" ELSE "normal"

delta_counter_proc == delta_counter' = DeltaOf(current_mode_out)

\* Half a period low and half a period high; a change of speed restarts it.
clock_generatory ==
    IF state_change_trigger \in {"speed", "direction_speed"}
    THEN count' = 0 /\ stepping_clk' = 0
    ELSE IF count = counter_buf \div 2
    THEN count' = count + 1 /\ stepping_clk' = 1 - stepping_clk
    ELSE IF count > counter_buf - 1
    THEN count' = 0 /\ stepping_clk' = 1 - stepping_clk
    ELSE count' = count + 1 /\ UNCHANGED stepping_clk

Turned == state_change_trigger \in {"direction", "direction_speed"}

TakingUp == \/ state_backlash = "processing"
            \/ state_backlash = "seek" /\ Turned

NextBacklash ==
    CASE state_backlash = "seek" ->
           IF bl.duration = 0 THEN "disabled"
           ELSE IF Turned THEN "processing" ELSE "seek"
      [] state_backlash = "processing" ->
           IF ctr_backlash_cnt = bl.duration THEN "done" ELSE "processing"
      [] state_backlash = "done" -> "seek"
      [] state_backlash = "disabled" ->
           IF bl.duration # 0 THEN "seek" ELSE "disabled"

NextBacklashCountStuck ==
    IF state_backlash \in {"processing", "disabled"} THEN ctr_backlash_cnt ELSE 0

NextBacklashCount ==
    CASE state_backlash = "processing" -> Wrap(ctr_backlash_cnt + 1)
      [] state_backlash = "disabled" -> ctr_backlash_cnt
      [] OTHER -> 0

backslash ==
    /\ state_backlash' = NextBacklash
    /\ ctr_backlash_cnt' = NextBacklashCount
    /\ counter_buf' = IF TakingUp THEN bl.tick ELSE current_speed_buf[1]
    /\ current_mode_out' = IF TakingUp THEN bl.mode ELSE current_mode_buf

\* The pins of the motor's driver.  Step and direction are held low while the
\* axis is idle; the direction passes two more registers, each of which may
\* invert it.  drv8825_mode stands for the mode pins by what they select, the
\* steps of a pulse; those of a TMC2226 are a register later (tmc_mode_buf).
registered_output ==
    /\ IF state_motor = "idle"
       THEN drv8825_step' = 0 /\ drv8825_direction_out' = 0
       ELSE /\ drv8825_step' = stepping_clk
            /\ drv8825_direction_out' = current_direction_buf[0]
    /\ drv8825_direction_buf' = IF ReverseDirection THEN 1 - drv8825_direction_out
                                                    ELSE drv8825_direction_out
    /\ drv8825_direction' = IF IsTmc THEN 1 - drv8825_direction_buf
                                     ELSE drv8825_direction_buf
    /\ drv8825_mode' = IF IsTmc THEN delta_counter ELSE DeltaOf(current_mode_out)

-----------------------------------------------------------------------------
(* loadcounter: counts the step clock, wraps the counter at the revolution *)
(* and loads it.  A load takes the five ticks buf0..buf4, in which         *)
(* counter_clk is toggled with load_count set.                             *)

Wraps == max_counter < Modulus
WrapUpLate == /\ Wraps /\ current_stepper_counter = max_counter + 1
              /\ stepping_clk = 0

WrapUp == /\ Wraps /\ current_stepper_counter = max_counter
          /\ stepping_clk = 0
WrapDown == /\ Wraps /\ current_stepper_counter = Modulus - 1
            /\ stepping_clk = 0

Load(value) == state_counter' = "buf0" /\ load_counter' = value

\* bit 31 of ctrl_counter_load is edge triggered, that of ctrl_counter_max
\* is a level; both are looked at only in the low half of the step clock.
ReadLoader ==
    /\ IF ctrl.counter_load.set = 1 /\ pulse_load = 0
       THEN /\ Load(ctrl.counter_load.value)
            /\ UNCHANGED <<max_counter, max_counter2>>
       ELSE /\ UNCHANGED <<state_counter, load_counter>>
            /\ IF mask_counter_max.set = 1
               THEN /\ max_counter' = (mask_counter_max.value + 1) % (2 * Modulus)
                    /\ max_counter2' = Wrap(mask_counter_max.value)
               ELSE UNCHANGED <<max_counter, max_counter2>>
    /\ pulse_load' = ctrl.counter_load.set

\* Pulses count while the axis runs and does not take up backlash.
CountedInRuns == Moving /\ state_backlash # "processing"
CountedAtRest == state_backlash # "processing"
CountedAlways == state_motor # "idle"
Counted == state_motor # "idle" /\ state_backlash # "processing"

CountSteps ==
    /\ cnt_enable' = ToBit(Counted)
    /\ counter_clk' = stepping_clk
    /\ load_count' = 0
    /\ IF ~WrapUp /\ ~WrapDown /\ ~Moving /\ stepping_clk = 0
       THEN ReadLoader
       ELSE /\ IF WrapUp THEN Load(2)
               ELSE IF WrapDown THEN Load(Wrap(max_counter - 2))
               ELSE UNCHANGED <<state_counter, load_counter>>
            /\ UNCHANGED <<max_counter, max_counter2, pulse_load>>

LoadStep ==
    /\ cnt_enable' = 1
    /\ counter_clk' = 1 - counter_clk
    /\ load_count' = 1
    /\ state_counter' = CASE state_counter = "buf0" -> "buf1"
                          [] state_counter = "buf1" -> "buf2"
                          [] state_counter = "buf2" -> "buf3"
                          [] state_counter = "buf3" -> "buf4"
                          [] state_counter = "buf4" -> "normal"
    /\ UNCHANGED <<load_counter, max_counter, max_counter2, pulse_load>>

loadcounter ==
    /\ IF state_counter = "normal" THEN CountSteps ELSE LoadStep
    /\ mask_counter_max' = ctrl.counter_max

\* The process clocked by counter_clk.
stepper_counter ==
    current_stepper_counter' =
        IF ~(counter_clk = 0 /\ counter_clk' = 1 /\ cnt_enable' = 1)
        THEN current_stepper_counter
        ELSE IF load_count' = 1 THEN load_counter'
        ELSE IF current_direction_buf[0]' = 1
        THEN Wrap(current_stepper_counter + delta_counter')
        ELSE Wrap(current_stepper_counter - delta_counter')

-----------------------------------------------------------------------------
(* One rising edge of clk_50, and the host. *)

Tick ==
    /\ settings
    /\ issue_command
    /\ accel_control
    /\ trigger_changes
    /\ delta_counter_proc
    /\ clock_generatory
    /\ backslash
    /\ registered_output
    /\ loadcounter
    /\ stepper_counter
    /\ gap' = IF gap = 0 THEN 0 ELSE gap - 1
    /\ UNCHANGED ctrl

HostWrite ==
    /\ gap = 0
    /\ \/ \E v \in CmdControls : ctrl' = [ctrl EXCEPT !.cmdcontrol = v]
       \/ \E v \in CmdTicks : ctrl' = [ctrl EXCEPT !.cmdtick = v]
       \/ \E v \in CmdDurations : ctrl' = [ctrl EXCEPT !.cmdduration = v]
       \/ \E v \in TrackCtrls : ctrl' = [ctrl EXCEPT !.trackctrl = v]
       \/ \E v \in TrackPecs : ctrl' = [ctrl EXCEPT !.pec = v]
       \/ \E v \in BacklashTicks : ctrl' = [ctrl EXCEPT !.backlash_tick = v]
       \/ \E v \in BacklashDurations :
              ctrl' = [ctrl EXCEPT !.backlash_duration = v]
       \/ \E v \in CounterLoads : ctrl' = [ctrl EXCEPT !.counter_load = v]
       \/ \E v \in CounterMaxes : ctrl' = [ctrl EXCEPT !.counter_max = v]
    /\ gap' = SpiGap
    /\ UNCHANGED axisVars

\* The state rstn_50 leaves, with all registers zero.
NoCommand == [go |-> 0, goto |-> 0, dir |-> 0, park |-> 0, mode |-> 0,
              accel |-> 0, cancelnow |-> 0, cancel |-> 0]
NoTrack == [enable |-> 0, dir |-> 0, mode |-> 0, pec |-> 0, tick |-> 0]

\* The host writes its first register no earlier than n ticks after reset.
InitWith(n) ==
    /\ ctrl = [cmdcontrol |-> NoCommand, cmdtick |-> 0, cmdduration |-> 0,
               trackctrl |-> NoTrack, pec |-> 0,
               backlash_tick |-> [mode |-> 0, tick |-> 0],
               backlash_duration |-> 0,
               counter_load |-> [set |-> 0, value |-> 0],
               counter_max |-> [set |-> 0, value |-> 0]]
    /\ gap = n
    /\ set = [direction |-> 1, go |-> 0, goto |-> 0, park |-> 0, mode |-> 0,
              tick |-> 1, duration |-> 0, accel |-> 0, cancel |-> 0,
              cancelnow |-> 0, track |-> [NoTrack EXCEPT !.tick = 1],
              pec |-> 0]
    /\ bl = [tick_in |-> 1, tick |-> 1, duration_in |-> 0, duration |-> 0,
             mode |-> 0]
    /\ state_motor = "idle" /\ state_motor_buf = "idle"
    /\ issue = [direction |-> 0, mode |-> 0, speed |-> ResetSpeed, stop |-> 0]
    /\ target_counter_int = 0 /\ ctr_cmd_buf = 0 /\ ctr_park_buf = 0
    /\ init_count = 0 /\ cutoff_count = 0 /\ cutoff_signed = 0
    /\ cuttoff_special = 0
    /\ current_direction_buf = [i \in 0..1 |-> 0]
    /\ current_speed_buf = [i \in 0..1 |-> ResetSpeed]
    /\ current_mode_buf = 0 /\ current_mode_out = 0
    /\ acceleration_counter = TotalAccel /\ divider = AccelSteps
    /\ done_acceleration = 0 /\ scaled = Modulus - 1
    /\ speedmap_map = [i \in 0..AccelSteps |-> SpeedmapReset]
    /\ acceleration_map = [i \in 0..AccelSteps |-> 0]
    /\ decceleration_map = [i \in Stages |-> 0]
    /\ decceleration_map_buf = [i \in Stages |-> 0]
    /\ state_change_trigger = "normal"
    /\ state_backlash = "seek" /\ ctr_backlash_cnt = 0 /\ counter_buf = 1
    /\ delta_counter = 1 /\ stepping_clk = 0 /\ count = 0
    /\ drv8825_step = 0 /\ drv8825_mode = DeltaOf(3)
    /\ drv8825_direction_out = 0 /\ drv8825_direction_buf = 0
    /\ drv8825_direction = 0
    /\ state_counter = "normal" /\ cnt_enable = 0 /\ counter_clk = 0
    /\ load_count = 0 /\ load_counter = 0 /\ pulse_load = 0
    /\ max_counter = 2 * Modulus - 1 /\ max_counter2 = 0
       \* not reset: all ones from the bitstream, bit 30 included
    /\ mask_counter_max = [set |-> 1, value |-> 2 * Modulus - 1]
    /\ current_stepper_counter = 0

Init == InitWith(0)

Next == Tick \/ HostWrite

\* The clock runs: an oscillator never stops ticking.
Spec == Init /\ [][Next]_vars /\ WF_vars(Tick)

-----------------------------------------------------------------------------
(* The range of every signal, in groups.  That they are kept is not given:  *)
(* the declared ranges are wider than some values the processes compute.    *)

Control ==
    [cmdcontrol : CmdControl, cmdtick : Word, cmdduration : Word,
     trackctrl : TrackCtrl, pec : Int, backlash_tick : BacklashTick,
     backlash_duration : Word, counter_load : Loader, counter_max : Loader]

Settings ==
    [direction : Bit, go : Bit, goto : Bit, park : Bit, mode : Mode,
     tick : Word, duration : Word, accel : Bit, cancel : Bit,
     cancelnow : Bit, track : TrackCtrl, pec : Int]

HostTypeOK == ctrl \in Control /\ gap \in Nat

SettingsTypeOK ==
    /\ set \in Settings
    /\ bl \in [tick_in : Word, tick : Word, duration_in : Word,
               duration : Word, mode : Mode]

MotorState == {"idle", "tracking", "command", "park"}

IssueTypeOK ==
    /\ state_motor \in MotorState /\ state_motor_buf \in MotorState
    /\ issue \in [direction : Bit, mode : Mode, speed : Word, stop : Bit]
    /\ target_counter_int \in Word
    /\ ctr_cmd_buf \in Bit /\ ctr_park_buf \in Bit
    /\ init_count \in Word /\ cutoff_count \in Word
    /\ cutoff_signed \in Word /\ cuttoff_special \in Bit

AccelTypeOK ==
    /\ current_direction_buf \in [0..1 -> Bit]
    /\ current_speed_buf \in [0..1 -> Word]
    /\ current_mode_buf \in Mode
    /\ acceleration_counter \in 0..TotalAccel
    /\ divider \in 0..AccelSteps /\ done_acceleration \in Bit
    /\ scaled \in Word
    /\ speedmap_map \in [0..AccelSteps -> Word]
    /\ acceleration_map \in [0..AccelSteps -> Word]
    /\ decceleration_map \in [Stages -> Word]
    /\ decceleration_map_buf \in [Stages -> Word]

ClockTypeOK ==
    /\ state_change_trigger \in {"normal", "direction", "speed",
                                 "direction_speed"}
    /\ state_backlash \in {"seek", "processing", "done", "disabled"}
    /\ ctr_backlash_cnt \in Word /\ counter_buf \in Word
    /\ current_mode_out \in Mode /\ delta_counter \in 1..32
    /\ stepping_clk \in Bit /\ count \in Word
    /\ drv8825_step \in Bit /\ drv8825_mode \in 1..32
    /\ drv8825_direction_out \in Bit /\ drv8825_direction_buf \in Bit
    /\ drv8825_direction \in Bit

CounterTypeOK ==
    /\ state_counter \in {"normal", "buf0", "buf1", "buf2", "buf3", "buf4"}
    /\ cnt_enable \in Bit /\ counter_clk \in Bit /\ load_count \in Bit
    /\ load_counter \in Word /\ pulse_load \in Bit
    /\ max_counter \in 0..(2 * Modulus - 1) /\ max_counter2 \in Word
    /\ mask_counter_max \in [set : Bit, value : 0..(2 * Modulus - 1)]
    /\ current_stepper_counter \in Word

TypeOK == /\ HostTypeOK /\ SettingsTypeOK /\ IssueTypeOK
          /\ AccelTypeOK /\ ClockTypeOK /\ CounterTypeOK

=============================================================================
