------------------------------ MODULE HdlProofs ------------------------------
(***************************************************************************)
(* The FPGA's parts.  Drv8825, for every counter width, ramp and set of    *)
(* register values: no signal leaves its range, although the processes     *)
(* compute values in wider ones (a count past the period, a stage below 0, *)
(* a load of max + 1).                                                     *)
(*                                                                         *)
(* The axis as MotorDriver drives it, for any calls in any tick: its       *)
(* signals stay in range, the pulses on its pins are counted once it runs  *)
(* steadily, the counter stays on the revolution, an execute bit starts    *)
(* one run, and a take-up does not miss its end.                           *)
(*                                                                         *)
(* And SyncVector, for every width and every depth: the handshake keeps    *)
(* SyncInv, no vector is read while it changes, and the detailed           *)
(* specification implements the safety part of RegisterChannel.            *)
(***************************************************************************)
EXTENDS AxisHost, SyncVector, SequenceTheorems, TLAPS

\* The one fact besides the ranges that keeps divider above -1: while the ramp
\* is not done there is a stage left.
RampInv == done_acceleration = 0 => divider >= 1

AxisInv == TypeOK /\ RampInv

-----------------------------------------------------------------------------
(* The arithmetic. *)

\* A result is cut to the width of the counters.
LEMMA WrapType == \A n \in Int : Wrap(n) \in Word
BY ParamsAssumption, SMT DEF Wrap, Word

\* So are the sums and differences of positions.
LEMMA WrapSums ==
    ASSUME NEW a \in Word, NEW b \in Word, NEW c \in Word
    PROVE  /\ Wrap(a + b) \in Word /\ Wrap(a - b) \in Word
           /\ Wrap(a + b + c) \in Word /\ Wrap(a + b - c) \in Word
           /\ Wrap(a - b + c) \in Word /\ Wrap(a - b - c) \in Word
<1>1. a \in Int /\ b \in Int /\ c \in Int
  BY DEF Word
<1>2. /\ a + b \in Int /\ a - b \in Int /\ a + b + c \in Int
      /\ a + b - c \in Int /\ a - b + c \in Int /\ a - b - c \in Int
  BY <1>1, SMT
<1>. QED BY <1>2, WrapType

\* The highest stage of a set of stages.
LEMMA HighestStage ==
    ASSUME NEW S \in SUBSET Stages, S # {}
    PROVE  Highest(S) \in S
<1>1. S \subseteq 1..7
  BY ParamsAssumption, SMT DEF Stages
<1>. SUFFICES \E i \in S : \A j \in S : j <= i
  BY DEF Highest
<1>2. CASE 7 \in S
  BY <1>1, <1>2, SMT
<1>3. CASE 7 \notin S /\ 6 \in S
  BY <1>1, <1>3, SMT
<1>4. CASE 7 \notin S /\ 6 \notin S /\ 5 \in S
  BY <1>1, <1>4, SMT
<1>5. CASE 7 \notin S /\ 6 \notin S /\ 5 \notin S /\ 4 \in S
  BY <1>1, <1>5, SMT
<1>6. CASE S \subseteq 1..3 /\ 3 \in S
  BY <1>6, SMT
<1>7. CASE S \subseteq 1..2 /\ 2 \in S
  BY <1>7, SMT
<1>8. CASE S \subseteq {1}
  <2>1. 1 \in S /\ \A j \in S : j = 1
    BY <1>8
  <2>. QED BY <2>1, SMT
<1>. QED BY <1>1, <1>2, <1>3, <1>4, <1>5, <1>6, <1>7, <1>8, SMT

\* A position folded once is a position.
LEMMA FoldType ==
    ASSUME max_counter2 \in Word, NEW n \in Word
    PROVE  FoldOnce(n) \in Word
BY ParamsAssumption, SMT DEF FoldOnce, Word

\* The step of the counter in every mode.
LEMMA DeltaType == \A m \in Mode : DeltaOf(m) \in 1..32
BY ParamsAssumption, SMT DEF DeltaOf, Mode

\* The stages of the ramp are slower by powers of two.
LEMMA SlowedType ==
    ASSUME scaled \in Word, NEW i \in 0..AccelSteps
    PROVE  Slowed(i) \in Word
<1>1. i + 1 \in 1..8
  BY ParamsAssumption, SMT
<1>2. Pow2[i + 1] \in Nat
  BY <1>1, SMT DEF Pow2
<1>3. (scaled + 1) * Pow2[i + 1] - 1 \in Int
  BY <1>2, SMT DEF Word
<1>. QED BY <1>3, WrapType DEF Slowed

-----------------------------------------------------------------------------
(* The processes. *)

\* settings samples registers that are in range.
LEMMA SettingsType == AxisInv /\ settings => SettingsTypeOK'
<1>. SUFFICES ASSUME AxisInv, settings PROVE SettingsTypeOK'
  OBVIOUS
<1>. USE DEF AxisInv, TypeOK, HostTypeOK, SettingsTypeOK, Control, Bit
<1>1. ctrl.cmdcontrol \in CmdControl /\ ctrl.cmdtick \in Word
      /\ ctrl.cmdduration \in Word /\ ctrl.trackctrl \in TrackCtrl
      /\ ctrl.pec \in Int /\ ctrl.backlash_tick \in BacklashTick
      /\ ctrl.backlash_duration \in Word
  OBVIOUS
<1>2. ASSUME SampleCommand PROVE set' \in Settings
  <2>1. set.cancelnow \in Bit
    BY DEF Settings
  <2>. QED BY <1>1, <1>2, <2>1 DEF SampleCommand, Settings, CmdControl
<1>3. ASSUME SampleCancel PROVE set' \in Settings
  BY <1>1, <1>3 DEF SampleCancel, Settings, CmdControl
<1>4. bl' \in [tick_in : Word, tick : Word, duration_in : Word,
               duration : Word, mode : Mode]
  BY <1>1 DEF settings, SampleBacklash, BacklashTick
<1>5. set' \in Settings
  BY <1>2, <1>3 DEF settings
<1>. QED BY <1>4, <1>5

\* issue_command: the target and the cut-off are cut to the counter's width.
LEMMA IssueType == AxisInv /\ issue_command => IssueTypeOK'
<1>. SUFFICES ASSUME AxisInv, issue_command PROVE IssueTypeOK'
  OBVIOUS
<1>. DEFINE Issues == [direction : Bit, mode : Mode, speed : Word, stop : Bit]
<1>1. /\ set \in Settings /\ issue \in Issues
      /\ current_stepper_counter \in Word /\ max_counter2 \in Word
      /\ target_counter_int \in Word /\ init_count \in Word
      /\ cutoff_count \in Word /\ cutoff_signed \in Word /\ cuttoff_special \in Bit
      /\ state_motor_buf \in MotorState
      /\ acceleration_map[1] \in Word
  BY ParamsAssumption DEF AxisInv, TypeOK, SettingsTypeOK, IssueTypeOK, CounterTypeOK, AccelTypeOK
<1>2. /\ set.go \in Bit /\ set.park \in Bit /\ set.duration \in Word
      /\ set.direction \in Bit /\ set.mode \in Mode /\ set.tick \in Word
      /\ set.track \in TrackCtrl /\ set.pec \in Int
  BY <1>1 DEF Settings
<1>3. state_motor' \in MotorState /\ ctr_cmd_buf' \in Bit /\ ctr_park_buf' \in Bit
  BY <1>1, <1>2 DEF issue_command
<1>4. FoldOnce(cutoff_signed) \in Word
  BY <1>1, FoldType
<1>5. CASE state_motor_buf \in {"command", "park"}
  <2>. USE <1>5
  <2>1. /\ cutoff_count' \in Word
        /\ target_counter_int' \in Word /\ init_count' \in Word
    BY <1>1, <1>4 DEF issue_command
  <2>2. /\ state_motor_buf' \in MotorState /\ issue' \in Issues
    BY <1>1 DEF issue_command, CancelRun, ContinueRun, ToBit, Bit, MotorState
  <2>3. cutoff_signed' \in Word /\ cuttoff_special' \in Bit
    <3>1. Cutoff.signed \in Word /\ Cutoff.special \in Bit
      BY <1>1, WrapType, SMT DEF Cutoff, Word, Bit
    <3>. QED BY <1>1, <3>1 DEF issue_command, CancelRun, ContinueRun
  <2>. QED BY <1>3, <2>1, <2>2, <2>3 DEF IssueTypeOK
<1>6. CASE state_motor_buf \notin {"command", "park"}
  <2>. USE <1>6
  <2>1. cutoff_signed' \in Word /\ cuttoff_special' \in Bit
    BY <1>1, ParamsAssumption DEF issue_command, Word
  <2>2. CASE StartCommand
    <3>1. RelativeTarget \in Word
      <4>1. \A c, n \in Word : Wrap(c + n) \in Word /\ Wrap(c + n - max_counter2) \in Word
                             /\ Wrap(c - n + max_counter2) \in Word
        BY <1>1, WrapSums
      <4>2. \A c, n \in Word : c > n => c - n \in Word
        BY ParamsAssumption, SMT DEF Word
      <4>. QED BY <1>1, <1>2, <4>1, <4>2 DEF RelativeTarget
    <3>2. 0 \in Word
      BY ParamsAssumption, SMT DEF Word
    <3>. QED BY <1>1, <1>2, <1>3, <2>1, <2>2, <3>1, <3>2
             DEF StartCommand, IssueTypeOK, MotorState, Bit
  <2>3. CASE StartPark
    <3>1. 0 \in Word
      BY ParamsAssumption, SMT DEF Word
    <3>. QED BY <1>1, <1>2, <1>3, <2>1, <2>3, <3>1 DEF StartPark, IssueTypeOK, MotorState, Bit
  <2>4. CASE TrackOrIdle
    <3>1. /\ set.track.dir \in Bit /\ set.track.mode \in Mode /\ set.track.tick \in Word
      BY <1>2 DEF TrackCtrl
    <3>2. Wrap(set.track.tick + set.pec) \in Word
      BY <1>2, <3>1, WrapType, SMT DEF Word
    <3>3. issue' \in Issues /\ state_motor_buf' \in MotorState
      BY <1>1, <2>4, <3>1, <3>2 DEF TrackOrIdle, MotorState, Bit
    <3>. QED BY <1>1, <1>3, <1>4, <2>1, <2>4, <3>3 DEF TrackOrIdle, IssueTypeOK
  <2>. QED BY <2>2, <2>3, <2>4 DEF issue_command
<1>. QED BY <1>5, <1>6

\* The ramp: divider goes down once per stage, and not below 0 because done
\* is set when the stage before the last is over.
LEMMA RampType == AxisInv /\ Ramp =>
    /\ current_speed_buf' \in [0..1 -> Word]
    /\ acceleration_counter' \in 0..TotalAccel
    /\ divider' \in 0..AccelSteps /\ done_acceleration' \in Bit
    /\ speedmap_map' \in [0..AccelSteps -> Word]
    /\ acceleration_map' \in [0..AccelSteps -> Word]
    /\ decceleration_map' \in [Stages -> Word]
    /\ decceleration_map_buf' \in [Stages -> Word]
    /\ RampInv'
<1>. SUFFICES ASSUME AxisInv, Ramp
              PROVE  /\ current_speed_buf' \in [0..1 -> Word]
                     /\ acceleration_counter' \in 0..TotalAccel
                     /\ divider' \in 0..AccelSteps /\ done_acceleration' \in Bit
                     /\ speedmap_map' \in [0..AccelSteps -> Word]
                     /\ acceleration_map' \in [0..AccelSteps -> Word]
                     /\ decceleration_map' \in [Stages -> Word]
                     /\ decceleration_map_buf' \in [Stages -> Word]
                     /\ RampInv'
  OBVIOUS
<1>1. /\ current_speed_buf \in [0..1 -> Word] /\ speedmap_map \in [0..AccelSteps -> Word]
      /\ acceleration_map \in [0..AccelSteps -> Word]
      /\ decceleration_map_buf \in [Stages -> Word] /\ decceleration_map \in [Stages -> Word]
      /\ acceleration_counter \in 0..TotalAccel
      /\ divider \in 0..AccelSteps /\ done_acceleration \in Bit
      /\ current_stepper_counter \in Word /\ max_counter2 \in Word
      /\ target_counter_int \in Word /\ init_count \in Word /\ cutoff_count \in Word
      /\ issue.speed \in Word /\ scaled \in Word
      /\ RampInv
  BY DEF AxisInv, TypeOK, IssueTypeOK, CounterTypeOK, AccelTypeOK
<1>2. current_speed_buf' \in [0..1 -> Word]
  BY <1>1 DEF Ramp
<1>3. speedmap_map' \in [0..AccelSteps -> Word]
  BY <1>1, SlowedType DEF Ramp
<1>4. acceleration_counter' \in 0..TotalAccel
  BY <1>1, ParamsAssumption, SMT DEF Ramp, StageDone, Bit
<1>5. acceleration_map' \in [0..AccelSteps -> Word]
  <2>1. StepsMade \in Word
    <3>1. acceleration_map[0] \in Word
      BY <1>1, ParamsAssumption, SMT
    <3>. QED BY <1>1, <3>1, WrapSums DEF StepsMade
  <2>. QED BY <1>1, <2>1 DEF Ramp
<1>6. decceleration_map_buf' \in [Stages -> Word]
  <2>1. ASSUME NEW i \in Stages PROVE DecelerationPoint(i) \in Word
    <3>1. acceleration_map[i] \in Word
      BY <1>1, SMT DEF Stages
    <3>. QED BY <1>1, <3>1, WrapSums DEF DecelerationPoint
  <2>. QED BY <2>1 DEF Ramp
<1>7. decceleration_map' \in [Stages -> Word]
  BY <1>1, FoldType DEF Ramp
<1>8. done_acceleration' \in Bit
  BY DEF Ramp, ToBit, Bit
<1>9. CASE StageDone
  <2>1. divider >= 1 /\ divider' = divider - 1
    BY <1>1, <1>9 DEF RampInv, StageDone, Ramp
  <2>2. done_acceleration' = 0 => divider # 1
    BY <1>9 DEF Ramp, RampDone, ToBit
  <2>3. divider' \in 0..AccelSteps /\ RampInv'
    <3>1. divider \in 0..AccelSteps /\ AccelSteps \in Nat
      BY <1>1, ParamsAssumption
    <3>2. divider' \in 0..AccelSteps
      BY <2>1, <3>1, SMT
    <3>3. done_acceleration' = 0 => divider' >= 1
      BY <2>1, <2>2, <3>1, SMT
    <3>. QED BY <3>2, <3>3 DEF RampInv
  <2>. QED BY <1>2, <1>3, <1>4, <1>5, <1>6, <1>7, <1>8, <2>3
<1>10. CASE ~StageDone
  <2>1. CASE SlowDown = {}
    <3>1. divider' = divider
      BY <1>10, <2>1 DEF Ramp
    <3>2. done_acceleration' = 0 => done_acceleration = 0
      BY <1>1 DEF Ramp, RampDone, ToBit, Bit
    <3>. QED BY <1>1, <1>2, <1>3, <1>4, <1>5, <1>6, <1>7, <1>8, <3>1, <3>2 DEF RampInv
  <2>2. CASE SlowDown # {}
    <3>1. done_acceleration = 1 /\ done_acceleration' = 1
      BY <1>1, <2>2 DEF SlowDown, Ramp, RampDone, ToBit, Bit
    <3>2. divider' = Highest(SlowDown)
      BY <1>10, <2>2 DEF Ramp
    <3>3. Highest(SlowDown) \in Stages
      BY <2>2, HighestStage DEF SlowDown
    <3>4. divider' \in 0..AccelSteps
      BY <3>2, <3>3, ParamsAssumption, SMT DEF Stages
    <3>. QED BY <1>2, <1>3, <1>4, <1>5, <1>6, <1>7, <1>8, <3>1, <3>4 DEF RampInv
  <2>. QED BY <2>1, <2>2
<1>. QED BY <1>9, <1>10

\* accel_control: with the ramp, without it and at rest.
LEMMA AccelType == AxisInv /\ accel_control => AccelTypeOK' /\ RampInv'
<1>. SUFFICES ASSUME AxisInv, accel_control PROVE AccelTypeOK' /\ RampInv'
  OBVIOUS
<1>1. /\ current_speed_buf \in [0..1 -> Word] /\ current_direction_buf \in [0..1 -> Bit]
      /\ issue.direction \in Bit /\ issue.mode \in Mode /\ issue.speed \in Word
      /\ init_count \in Word /\ acceleration_map \in [0..AccelSteps -> Word]
      /\ AccelTypeOK /\ RampInv
  BY DEF AxisInv, TypeOK, IssueTypeOK, AccelTypeOK
<1>2. /\ current_direction_buf' \in [0..1 -> Bit] /\ current_mode_buf' \in Mode
      /\ scaled' \in Word
  BY <1>1 DEF accel_control
<1>3. CASE Ramp
  BY <1>2, <1>3, RampType DEF AccelTypeOK
<1>4. CASE NoRamp
  <2>1. current_speed_buf' \in [0..1 -> Word]
    BY <1>1, <1>4 DEF NoRamp
  <2>2. acceleration_map' \in [0..AccelSteps -> Word]
    BY <1>1, <1>4 DEF NoRamp
  <2>. QED BY <1>1, <1>2, <1>4, <2>1, <2>2 DEF NoRamp, AccelTypeOK, RampInv
<1>5. CASE ResetRamp
  <2>1. current_speed_buf' \in [0..1 -> Word]
    BY <1>1, <1>5 DEF ResetRamp
  <2>2. /\ acceleration_counter' \in 0..TotalAccel /\ divider' \in 0..AccelSteps
        /\ RampInv'
    BY <1>5, ParamsAssumption, SMT DEF ResetRamp, RampInv
  <2>3. 0 \in Word /\ SpeedmapReset \in Word
    BY ParamsAssumption, SMT DEF Word
  <2>. QED BY <1>2, <1>5, <2>1, <2>2, <2>3 DEF ResetRamp, AccelTypeOK, Bit
<1>. QED BY <1>3, <1>4, <1>5 DEF accel_control

\* The step clock: count stops at the period, which is a word.
LEMMA ClockType ==
    AxisInv /\ trigger_changes /\ delta_counter_proc /\ clock_generatory
            /\ backslash /\ registered_output => ClockTypeOK'
<1>. SUFFICES ASSUME AxisInv, trigger_changes, delta_counter_proc, clock_generatory,
                     backslash, registered_output
              PROVE  ClockTypeOK'
  OBVIOUS
<1>1. /\ ClockTypeOK /\ bl.tick \in Word /\ bl.mode \in Mode
      /\ current_speed_buf[1] \in Word /\ current_mode_buf \in Mode
      /\ current_direction_buf[0] \in Bit
  BY DEF AxisInv, TypeOK, SettingsTypeOK, AccelTypeOK
<1>2. state_change_trigger' \in {"normal", "direction", "speed", "direction_speed"}
  BY DEF trigger_changes
<1>3. delta_counter' \in 1..32
  BY <1>1, DeltaType DEF delta_counter_proc, ClockTypeOK
<1>4. count' \in Word /\ stepping_clk' \in Bit
  <2>1. /\ count \in 0..(Modulus - 1) /\ counter_buf \in 0..(Modulus - 1)
        /\ stepping_clk \in {0, 1} /\ Modulus \in Nat /\ Modulus >= 8
    BY <1>1, ParamsAssumption, SMT DEF ClockTypeOK, Word, Bit
  <2>2. CASE state_change_trigger \in {"speed", "direction_speed"}
    BY <2>1, <2>2, SMT DEF clock_generatory, Word, Bit
  <2>3. CASE state_change_trigger \notin {"speed", "direction_speed"}
             /\ count = counter_buf \div 2
    <3>1. counter_buf \div 2 + 1 \in 0..(Modulus - 1)
      BY <2>1, SMT
    <3>. QED BY <2>1, <2>3, <3>1, SMT DEF clock_generatory, Word, Bit
  <2>4. CASE state_change_trigger \notin {"speed", "direction_speed"}
             /\ count # counter_buf \div 2
    BY <2>1, <2>4, SMT DEF clock_generatory, Word, Bit
  <2>. QED BY <2>2, <2>3, <2>4
<1>5. state_backlash' \in {"seek", "processing", "done", "disabled"}
  BY <1>1 DEF backslash, NextBacklash, ClockTypeOK
<1>6. ctr_backlash_cnt' \in Word
  <2>1. Wrap(ctr_backlash_cnt + 1) \in Word /\ 0 \in Word
    BY <1>1, WrapType, ParamsAssumption, SMT DEF ClockTypeOK, Word
  <2>2. CASE state_backlash \notin {"processing", "disabled"}
    BY <2>1, <2>2 DEF backslash, NextBacklashCount
  <2>3. CASE state_backlash \in {"processing", "disabled"}
    BY <1>1, <2>1, <2>3 DEF backslash, NextBacklashCount, ClockTypeOK
  <2>. QED BY <2>2, <2>3
<1>7. counter_buf' \in Word /\ current_mode_out' \in Mode
  BY <1>1 DEF backslash
<1>8. /\ drv8825_step' \in Bit /\ drv8825_direction_out' \in Bit
      /\ drv8825_direction_buf' \in Bit /\ drv8825_direction' \in Bit
  BY <1>1 DEF registered_output, ClockTypeOK, Bit
<1>9. drv8825_mode' \in 1..32
  BY <1>1, DeltaType DEF registered_output, ClockTypeOK
<1>. QED BY <1>2, <1>3, <1>4, <1>5, <1>6, <1>7, <1>8, <1>9 DEF ClockTypeOK

\* The step counter and its loader.
LEMMA CounterType ==
    AxisInv /\ loadcounter /\ stepper_counter /\ delta_counter' \in 1..32
            => CounterTypeOK'
<1>. SUFFICES ASSUME AxisInv, loadcounter, stepper_counter, delta_counter' \in 1..32
              PROVE  CounterTypeOK'
  OBVIOUS
<1>1. /\ CounterTypeOK /\ stepping_clk \in Bit
      /\ ctrl.counter_load \in Loader /\ ctrl.counter_max \in Loader
  BY DEF AxisInv, TypeOK, HostTypeOK, Control, ClockTypeOK
<1>2. Modulus \in Nat /\ Modulus >= 8 /\ 2 \in Word
  BY ParamsAssumption, SMT DEF Word
<1>3. mask_counter_max' \in [set : Bit, value : 0..(2 * Modulus - 1)]
  <2>1. Word \subseteq 0..(2 * Modulus - 1)
    BY <1>2, SMT DEF Word
  <2>. QED BY <1>1, <2>1 DEF loadcounter, Loader
<1>4. /\ cnt_enable' \in Bit /\ counter_clk' \in Bit /\ load_count' \in Bit
      /\ state_counter' \in {"normal", "buf0", "buf1", "buf2", "buf3", "buf4"}
      /\ load_counter' \in Word /\ pulse_load' \in Bit
      /\ max_counter' \in 0..(2 * Modulus - 1) /\ max_counter2' \in Word
  <2>1. CASE state_counter = "normal"
    <3>1. CountSteps
      BY <2>1 DEF loadcounter
    <3>2. cnt_enable' \in Bit /\ counter_clk' \in Bit /\ load_count' \in Bit
      BY <1>1, <3>1 DEF CountSteps, ToBit, Bit
    <3>3. ASSUME ReadLoader
          PROVE  /\ state_counter' \in {"normal", "buf0", "buf1", "buf2", "buf3", "buf4"}
                 /\ load_counter' \in Word /\ pulse_load' \in Bit
                 /\ max_counter' \in 0..(2 * Modulus - 1) /\ max_counter2' \in Word
      <4>1. ctrl.counter_load.value \in Word /\ ctrl.counter_load.set \in Bit
        BY <1>1 DEF Loader
      <4>2. mask_counter_max.value \in Int
        BY <1>1 DEF CounterTypeOK
      <4>3. (mask_counter_max.value + 1) % (2 * Modulus) \in 0..(2 * Modulus - 1)
        BY <1>2, <4>2, SMT
      <4>4. Wrap(mask_counter_max.value) \in Word
        BY <4>2, WrapType
      <4>. QED BY <1>1, <3>3, <4>1, <4>3, <4>4 DEF ReadLoader, Load, CounterTypeOK
    <3>4. ASSUME ~ReadLoader
          PROVE  /\ state_counter' \in {"normal", "buf0", "buf1", "buf2", "buf3", "buf4"}
                 /\ load_counter' \in Word /\ pulse_load' \in Bit
                 /\ max_counter' \in 0..(2 * Modulus - 1) /\ max_counter2' \in Word
      <4>1. Wrap(max_counter - 2) \in Word
        <5>1. max_counter - 2 \in Int
          BY <1>1, SMT DEF CounterTypeOK
        <5>. QED BY <5>1, WrapType
      <4>. QED BY <1>1, <1>2, <3>1, <3>4, <4>1 DEF CountSteps, Load, CounterTypeOK
    <3>. QED BY <3>2, <3>3, <3>4
  <2>2. CASE state_counter # "normal"
    <3>1. LoadStep
      BY <2>2 DEF loadcounter
    <3>2. counter_clk' \in Bit
      BY <1>1, <3>1, SMT DEF LoadStep, CounterTypeOK, Bit
    <3>. QED BY <1>1, <2>2, <3>1, <3>2 DEF LoadStep, CounterTypeOK, Bit
  <2>. QED BY <2>1, <2>2
<1>5. current_stepper_counter' \in Word
  <2>1. current_stepper_counter \in Int /\ delta_counter' \in Int
    BY <1>1, SMT DEF CounterTypeOK, Word
  <2>2. /\ Wrap(current_stepper_counter + delta_counter') \in Word
        /\ Wrap(current_stepper_counter - delta_counter') \in Word
    BY <2>1, WrapType
  <2>. QED BY <1>1, <1>4, <2>2 DEF stepper_counter, CounterTypeOK
<1>. QED BY <1>3, <1>4, <1>5 DEF CounterTypeOK

\* The host writes a value of the right width to one register.
LEMMA HostType == AxisInv /\ HostWrite => AxisInv'
<1>. SUFFICES ASSUME AxisInv, HostWrite PROVE AxisInv'
  OBVIOUS
<1>1. ctrl' \in Control
  BY InputsAssumption DEF HostWrite, AxisInv, TypeOK, HostTypeOK, Control
<1>2. gap' \in Nat
  BY ParamsAssumption DEF HostWrite
<1>. USE DEF HostWrite, axisVars
<1>3. SettingsTypeOK'
  BY DEF AxisInv, TypeOK, SettingsTypeOK, settingsVars
<1>4. IssueTypeOK'
  BY DEF AxisInv, TypeOK, IssueTypeOK, issueVars
<1>5. AccelTypeOK' /\ RampInv'
  BY DEF AxisInv, TypeOK, AccelTypeOK, RampInv, accelVars
<1>6. ClockTypeOK'
  BY DEF AxisInv, TypeOK, ClockTypeOK, clockVars
<1>7. CounterTypeOK'
  BY DEF AxisInv, TypeOK, CounterTypeOK, counterVars
<1>. QED BY <1>1, <1>2, <1>3, <1>4, <1>5, <1>6, <1>7 DEF AxisInv, TypeOK, HostTypeOK

-----------------------------------------------------------------------------
(* The theorem. *)

\* The reset state is in range, whenever the host starts.
LEMMA InitType == \A n \in Nat : InitWith(n) => AxisInv
<1>. SUFFICES ASSUME NEW n \in Nat, InitWith(n) PROVE AxisInv
  OBVIOUS
<1>. USE DEF InitWith
<1>0. /\ 0 \in Word /\ 1 \in Word /\ ResetSpeed \in Word /\ SpeedmapReset \in Word
      /\ Modulus - 1 \in Word /\ Modulus \in Nat /\ Modulus >= 8
  BY ParamsAssumption, SMT DEF Word
<1>1. HostTypeOK
  BY <1>0 DEF HostTypeOK, Control, CmdControl, TrackCtrl, BacklashTick, Loader,
     NoCommand, NoTrack, Bit, Mode
<1>2. SettingsTypeOK
  BY <1>0 DEF SettingsTypeOK, Settings, TrackCtrl, NoTrack, Bit, Mode
<1>3. IssueTypeOK
  BY <1>0 DEF IssueTypeOK, MotorState, Bit, Mode
<1>4. AccelTypeOK /\ RampInv
  <2>1. /\ acceleration_counter \in 0..TotalAccel /\ divider \in 0..AccelSteps
        /\ divider >= 1
    BY ParamsAssumption, SMT
  <2>2. 0 \in Mode /\ 0 \in Bit
    BY SMT DEF Mode, Bit
  <2>. QED BY <1>0, <2>1, <2>2 DEF AccelTypeOK, RampInv
<1>5. ClockTypeOK
  <2>1. DeltaOf(3) \in 1..32
    BY DeltaType, SMT DEF Mode
  <2>. QED BY <1>0, <2>1 DEF ClockTypeOK, Bit, Mode
<1>6. CounterTypeOK
  <2>1. 2 * Modulus - 1 \in 0..(2 * Modulus - 1)
    BY <1>0, SMT
  <2>. QED BY <1>0, <2>1 DEF CounterTypeOK, Bit
<1>. QED BY <1>1, <1>2, <1>3, <1>4, <1>5, <1>6 DEF AxisInv, TypeOK

\* A tick keeps every signal in range.
LEMMA TickType == AxisInv /\ Tick => AxisInv'
<1>. SUFFICES ASSUME AxisInv, Tick PROVE AxisInv'
  OBVIOUS
<1>1. HostTypeOK'
  BY SMT DEF Tick, AxisInv, TypeOK, HostTypeOK
<1>2. SettingsTypeOK'
  BY SettingsType DEF Tick
<1>3. IssueTypeOK'
  BY IssueType DEF Tick
<1>4. AccelTypeOK' /\ RampInv'
  BY AccelType DEF Tick
<1>5. ClockTypeOK'
  BY ClockType DEF Tick
<1>6. CounterTypeOK'
  BY <1>5, CounterType DEF Tick, ClockTypeOK
<1>. QED BY <1>1, <1>2, <1>3, <1>4, <1>5, <1>6 DEF AxisInv, TypeOK

\* A step that changes no variable changes no range.
LEMMA StutterType == AxisInv /\ UNCHANGED vars => AxisInv'
<1>. SUFFICES ASSUME AxisInv, UNCHANGED vars PROVE AxisInv'
  OBVIOUS
<1>. USE DEF vars, axisVars
<1>1. HostTypeOK' /\ SettingsTypeOK'
  BY DEF AxisInv, TypeOK, HostTypeOK, SettingsTypeOK, settingsVars
<1>2. IssueTypeOK'
  BY DEF AxisInv, TypeOK, IssueTypeOK, issueVars
<1>3. AccelTypeOK' /\ RampInv'
  BY DEF AxisInv, TypeOK, AccelTypeOK, RampInv, accelVars
<1>4. ClockTypeOK'
  BY DEF AxisInv, TypeOK, ClockTypeOK, clockVars
<1>5. CounterTypeOK'
  BY DEF AxisInv, TypeOK, CounterTypeOK, counterVars
<1>. QED BY <1>1, <1>2, <1>3, <1>4, <1>5 DEF AxisInv, TypeOK

\* Whatever a host writes to the registers and whenever, every signal of the
\* axis stays in its range (all processes of drv8825.vhd).
THEOREM SignalsInRange == Spec => []TypeOK
<1>1. Init => AxisInv
  BY InitType DEF Init
<1>2. AxisInv /\ [Next]_vars => AxisInv'
  BY TickType, HostType, StutterType DEF Next
<1>3. AxisInv => TypeOK
  BY DEF AxisInv
<1>. QED BY <1>1, <1>2, <1>3, PTL DEF Spec

-----------------------------------------------------------------------------
(* The inductive invariant. *)

\* A register and a value of its width, and the pause that follows.
Writes ==
         [reg : {"cmdcontrol"}, val : CmdControl, wait : Nat]
    \cup [reg : {"cmdtick", "cmdduration", "backlash_duration"}, val : Word, wait : Nat]
    \cup [reg : {"trackctrl"}, val : TrackCtrl, wait : Nat]
    \cup [reg : {"backlash_tick"}, val : BacklashTick, wait : Nat]
    \cup [reg : {"counter_load", "counter_max"}, val : Loader, wait : Nat]

HostVarsOK == /\ script \in Seq(Writes) /\ executes \in Nat /\ runs \in Nat
              /\ steady \in 0..2

\* On its way to the motor the execute bit is in the register, the setting and
\* the last setting: an edge between two of them is a run yet to come.
Edge(late, early) == IF late = 0 /\ early = 1 THEN 1 ELSE 0
Credit == Edge(ctr_cmd_buf, set.go) + Edge(set.go, ctrl.cmdcontrol.go)
RunsInv == runs + Credit <= executes

\* counter_clk, toggled in each tick of a load, is low again in its last one.
LoadInv ==
    /\ state_counter \in {"buf0", "buf2", "buf4"} => counter_clk = 0
    /\ state_counter \in {"buf1", "buf3"} => counter_clk = 1

\* What the pins show when nothing has changed for a tick, and for two: the
\* step pin is the clock of the counter, and the direction is on its way.
Behind(level) == IF ReverseDirection THEN 1 - level ELSE level
SteadyInv ==
    /\ steady \in 1..2 => /\ drv8825_step = counter_clk
                          /\ drv8825_direction_out = current_direction_buf[0]
                          /\ delta_counter = DeltaOf(current_mode_out)
    /\ steady = 2 => drv8825_direction_buf = Behind(current_direction_buf[0])

HostInv == /\ AxisInv /\ HostVarsOK /\ RunsInv /\ LoadInv /\ SteadyInv
           /\ TakeUpWithinDuration

-----------------------------------------------------------------------------
(* The scripts. *)

\* A method's writes fit the registers.
LEMMA OneWrite ==
    ASSUME NEW n \in Nat
    PROVE  /\ \A v \in CmdControl : [W("cmdcontrol", v) EXCEPT !.wait = n] \in Writes
           /\ \A v \in CmdControl : W("cmdcontrol", v) \in Writes
           /\ \A v \in Word : /\ W("cmdtick", v) \in Writes
                              /\ W("cmdduration", v) \in Writes
                              /\ W("backlash_duration", v) \in Writes
           /\ \A v \in TrackCtrl : W("trackctrl", v) \in Writes
           /\ \A v \in BacklashTick : W("backlash_tick", v) \in Writes
           /\ \A v \in Loader : /\ W("counter_load", v) \in Writes
                                /\ W("counter_max", v) \in Writes
BY ParamsAssumption DEF W, Writes

\* Nothing is commanded; 0 and 1 are words and bits.
LEMMA Zeros == /\ NoCommand \in CmdControl
               /\ 0 \in Word /\ 0 \in Bit /\ 1 \in Bit /\ 7 \in Mode
BY ParamsAssumption, SMT DEF NoCommand, CmdControl, Word, Bit, Mode

\* set_backlash writes the duration cut to its width.
LEMMA BacklashScript ==
    ASSUME NEW b \in Backlashes PROVE set_backlash(b) \in Seq(Writes)
<1>1. b \in [tick : Word, mode : Mode, n : Nat]
  BY HostAssumption
<1>2. [mode |-> b.mode, tick |-> b.tick] \in BacklashTick
  BY <1>1 DEF BacklashTick
<1>3. b.n * b.tick \in Int
  <2>1. b.n \in Int /\ b.tick \in Int
    BY <1>1 DEF Word
  <2>. QED BY <2>1, SMT
<1>4. Wrap(b.n * b.tick) \in Word
  BY <1>3, WrapType
<1>5. /\ W("backlash_tick", [mode |-> b.mode, tick |-> b.tick]) \in Writes
      /\ W("backlash_duration", Wrap(b.n * b.tick)) \in Writes
  BY <1>2, <1>4, OneWrite
<1>. QED BY <1>5, SMT DEF set_backlash

\* The calls and the setups are writes that fit the registers.
LEMMA CallScripts == Calls \subseteq Seq(Writes)
<1>1. ASSUME NEW g \in Goals, NEW p \in Periods, NEW h \in HoldTicks
      PROVE  set_command(g, p, h) \in Seq(Writes)
  <2>1. /\ g \in [goto : Bit, dir : Bit, duration : Word, mode : Mode, accel : Bit]
        /\ p \in Word /\ h \in Nat
    BY HostAssumption
  <2>2. Execute(g) \in CmdControl
    BY <2>1, Zeros DEF Execute, CmdControl
  <2>3. /\ W("cmdtick", p) \in Writes /\ W("cmdduration", g.duration) \in Writes
        /\ [W("cmdcontrol", Execute(g)) EXCEPT !.wait = h] \in Writes
        /\ W("cmdcontrol", NoCommand) \in Writes
    BY <2>1, <2>2, OneWrite, Zeros
  <2>. QED BY <2>3, SMT DEF set_command
<1>2. ASSUME NEW v \in Positions PROVE set_current_position(v) \in Seq(Writes)
  <2>1. /\ [set |-> 1, value |-> v] \in Loader /\ [set |-> 0, value |-> 0] \in Loader
    BY HostAssumption, Zeros DEF Loader
  <2>2. /\ W("counter_load", [set |-> 1, value |-> v]) \in Writes
        /\ W("counter_load", [set |-> 0, value |-> 0]) \in Writes
    BY <2>1, OneWrite
  <2>. QED BY <2>2, SMT DEF set_current_position
<1>3. ASSUME NEW d \in ParkDirs, NEW p \in Periods, NEW h \in HoldTicks
      PROVE  park_bit(d, p, h) \in Seq(Writes)
  <2>. DEFINE c == [NoCommand EXCEPT !.park = 1, !.dir = d, !.mode = 7]
  <2>1. p \in Word /\ h \in Nat /\ d \in Bit
    BY HostAssumption
  <2>2. c \in CmdControl
    BY <2>1, Zeros DEF CmdControl
  <2>. HIDE DEF c
  <2>3. /\ W("cmdtick", p) \in Writes /\ [W("cmdcontrol", c) EXCEPT !.wait = h] \in Writes
        /\ W("cmdcontrol", NoCommand) \in Writes
    BY <2>1, <2>2, OneWrite, Zeros
  <2>4. << W("cmdtick", p), [W("cmdcontrol", c) EXCEPT !.wait = h],
           W("cmdcontrol", NoCommand) >> \in Seq(Writes)
    BY <2>3, SMT
  <2>. QED BY <2>4 DEF park_bit, c
<1>4. ASSUME NEW i \in Cancels PROVE cancel_command(i) \in Seq(Writes)
  <2>. DEFINE c == [NoCommand EXCEPT !.cancel = 1, !.cancelnow = i]
  <2>1. c \in CmdControl
    BY HostAssumption, Zeros DEF CmdControl
  <2>. HIDE DEF c
  <2>2. << W("cmdcontrol", c) >> \in Seq(Writes)
    BY <2>1, OneWrite, SMT
  <2>. QED BY <2>2 DEF cancel_command, c
<1>5. ASSUME NEW t \in Tracks PROVE write_trackctrl(t) \in Seq(Writes)
  <2>1. W("trackctrl", t) \in Writes
    BY HostAssumption, OneWrite
  <2>. QED BY <2>1, SMT DEF write_trackctrl
<1>. QED BY <1>1, <1>2, <1>3, <1>4, <1>5, BacklashScript DEF Calls

\* What is written before the first call fits too.
LEMMA SetupScripts ==
    ASSUME NEW s \in Setups PROVE set_max_step(MaxStep) \o s \in Seq(Writes)
<1>1. s \in Seq(Writes)
  BY BacklashScript, EmptySeq DEF Setups
<1>2. set_max_step(MaxStep) \in Seq(Writes)
  <2>1. MaxStep \in Word
    BY HostAssumption, ParamsAssumption, SMT DEF Word
  <2>2. [set |-> 1, value |-> MaxStep] \in Loader /\ [set |-> 0, value |-> 0] \in Loader
    BY <2>1, Zeros DEF Loader
  <2>3. /\ W("counter_max", [set |-> 1, value |-> MaxStep]) \in Writes
        /\ W("counter_max", [set |-> 0, value |-> 0]) \in Writes
    BY <2>2, OneWrite
  <2>. QED BY <2>3, SMT DEF set_max_step
<1>. QED BY <1>1, <1>2, ConcatProperties

-----------------------------------------------------------------------------
(* A tick. *)

\* An edge of the execute bit moves on, and starts a run at the end.
LEMMA TickRuns ==
    ASSUME HostInv, ClockTick
    PROVE  RunsInv' /\ executes' \in Nat /\ runs' \in Nat
<1>1. /\ set.go \in Bit /\ ctr_cmd_buf \in Bit /\ ctrl.cmdcontrol.go \in Bit
      /\ executes \in Nat /\ runs \in Nat
  BY DEF HostInv, AxisInv, TypeOK, HostTypeOK, SettingsTypeOK, IssueTypeOK, Control,
         CmdControl, Settings, HostVarsOK
<1>2. ctrl' = ctrl /\ executes' = executes /\ ctr_cmd_buf' = set.go
  BY DEF ClockTick, Tick, issue_command
<1>3. set'.go = ctrl.cmdcontrol.go \/ set'.go = set.go
  <2>1. CASE SampleCommand
    BY <2>1 DEF SampleCommand
  <2>2. CASE SampleCancel
    <3>1. set \in Settings
      BY DEF HostInv, AxisInv, TypeOK, SettingsTypeOK
    <3>. QED BY <2>2, <3>1 DEF SampleCancel, Settings
  <2>. QED BY <2>1, <2>2 DEF ClockTick, Tick, settings
<1>4. \/ runs' = runs
      \/ runs' = runs + 1 /\ set.go = 1 /\ ctr_cmd_buf = 0
  <2>1. CASE runs' = runs
    BY <2>1
  <2>2. CASE runs' # runs
    <3>1. /\ state_motor_buf # "command" /\ state_motor_buf' = "command"
          /\ runs' = runs + 1
      BY <2>2 DEF ClockTick
    <3>2. issue_command
      BY DEF ClockTick, Tick
    <3>3. state_motor_buf # "park"
      BY <3>1, <3>2 DEF issue_command, CancelRun, ContinueRun
    <3>4. StartCommand \/ StartPark \/ TrackOrIdle
      BY <3>1, <3>2, <3>3 DEF issue_command
    <3>5. Executes
      BY <3>1, <3>4 DEF StartCommand, StartPark, TrackOrIdle
    <3>. QED BY <3>1, <3>5 DEF Executes
  <2>. QED BY <2>1, <2>2
<1>5. runs + Credit <= executes
  BY DEF HostInv, RunsInv
<1>6. runs' + Edge(set.go, set'.go) + Edge(set'.go, ctrl.cmdcontrol.go) <= executes
  <2>. USE <1>1, <1>4, <1>5 DEF Credit, Edge, Bit
  <2>1. CASE set'.go = ctrl.cmdcontrol.go
    BY <2>1, SMT
  <2>2. CASE set'.go = set.go
    BY <2>2, SMT
  <2>. QED BY <1>3, <2>1, <2>2
<1>7. runs' \in Nat /\ executes' \in Nat
  BY <1>1, <1>2, <1>4
<1>8. runs' + Credit' <= executes'
  <2>1. Credit' = Edge(set.go, set'.go) + Edge(set'.go, ctrl.cmdcontrol.go)
    BY <1>2 DEF Credit
  <2>2. /\ Edge(set.go, set'.go) \in Nat
        /\ Edge(set'.go, ctrl.cmdcontrol.go) \in Nat
    BY DEF Edge
  <2>. QED BY <1>2, <1>6, <1>7, <2>1, <2>2
<1>. QED BY <1>7, <1>8 DEF RunsInv

\* A take-up that goes on has not reached its duration, which waits for it.
LEMMA TickTakesUp ==
    ASSUME AxisInv, TakeUpWithinDuration, Tick
    PROVE  TakeUpWithinDuration'
<1>1. /\ ctr_backlash_cnt \in 0..(Modulus - 1) /\ bl.duration \in 0..(Modulus - 1)
      /\ bl.duration_in \in 0..(Modulus - 1)
      /\ state_backlash \in {"seek", "processing", "done", "disabled"}
      /\ Modulus \in Nat
  BY ParamsAssumption DEF AxisInv, TypeOK, SettingsTypeOK, ClockTypeOK, Word
<1>2. /\ state_backlash' = NextBacklash /\ ctr_backlash_cnt' = NextBacklashCount
      /\ SampleBacklash
  BY DEF Tick, backslash, settings
<1>. SUFFICES ASSUME state_backlash' = "processing"
              PROVE  ctr_backlash_cnt' <= bl'.duration
  BY DEF TakeUpWithinDuration
<1>3. CASE state_backlash = "processing"
  <2>1. bl' = bl /\ ctr_backlash_cnt # bl.duration
    BY <1>2, <1>3 DEF SampleBacklash, NextBacklash
  <2>2. ctr_backlash_cnt + 1 <= bl.duration /\ ctr_backlash_cnt + 1 \in 0..(Modulus - 1)
    BY <1>1, <1>3, <2>1 DEF TakeUpWithinDuration
  <2>3. Wrap(ctr_backlash_cnt + 1) = ctr_backlash_cnt + 1
    BY <1>1, <2>2, SMT DEF Wrap
  <2>. QED BY <1>2, <1>3, <2>1, <2>2, <2>3 DEF NextBacklashCount
<1>4. CASE state_backlash # "processing"
  <2>1. state_backlash = "seek"
    BY <1>1, <1>2, <1>4 DEF NextBacklash
  <2>2. ctr_backlash_cnt' = 0
    BY <1>2, <2>1 DEF NextBacklashCount
  <2>3. bl'.duration = bl.duration_in
    BY <1>2, <1>4 DEF SampleBacklash
  <2>. QED BY <1>1, <2>2, <2>3
<1>. QED BY <1>3, <1>4

\* What the signals of the counter may be.
LEMMA CounterBits ==
    ASSUME AxisInv
    PROVE  /\ counter_clk \in {0, 1} /\ stepping_clk \in {0, 1}
           /\ drv8825_step \in {0, 1}
           /\ state_counter \in {"normal", "buf0", "buf1", "buf2", "buf3", "buf4"}
BY DEF AxisInv, TypeOK, CounterTypeOK, ClockTypeOK, Bit

\* The phases of a load: it begins in the low half of the step clock.
LEMMA TickLoads ==
    ASSUME AxisInv, LoadInv, Tick
    PROVE  LoadInv'
<1>1. state_counter \in {"normal", "buf0", "buf1", "buf2", "buf3", "buf4"}
  BY CounterBits
<1>2. CASE state_counter = "normal"
  <2>1. CountSteps /\ counter_clk' = stepping_clk
    BY <1>2 DEF Tick, loadcounter, CountSteps
  <2>2. state_counter' = "normal" \/ (state_counter' = "buf0" /\ stepping_clk = 0)
    BY <1>2, <2>1 DEF CountSteps, ReadLoader, Load, WrapUp, WrapDown
  <2>. QED BY <2>1, <2>2 DEF LoadInv
<1>3. CASE state_counter # "normal"
  <2>1. /\ counter_clk' = 1 - counter_clk
        /\ state_counter' = CASE state_counter = "buf0" -> "buf1"
                              [] state_counter = "buf1" -> "buf2"
                              [] state_counter = "buf2" -> "buf3"
                              [] state_counter = "buf3" -> "buf4"
                              [] state_counter = "buf4" -> "normal"
    BY <1>3 DEF Tick, loadcounter, LoadStep
  <2>2. CASE state_counter \in {"buf0", "buf2", "buf4"}
    BY <2>1, <2>2 DEF LoadInv
  <2>3. CASE state_counter \in {"buf1", "buf3"}
    BY <2>1, <2>3 DEF LoadInv
  <2>. QED BY <1>1, <1>3, <2>2, <2>3
<1>. QED BY <1>2, <1>3

\* What a tick in which nothing changes does to the pins and the counter.
LEMMA SteadyTick ==
    ASSUME AxisInv, HostVarsOK, ClockTick, steady' # 0
    PROVE  /\ state_motor # "idle" /\ state_counter = "normal"
           /\ current_direction_buf[0]' = current_direction_buf[0]
           /\ current_mode_out' = current_mode_out
           /\ drv8825_step' = stepping_clk /\ counter_clk' = stepping_clk
           /\ drv8825_direction_out' = current_direction_buf[0]
           /\ drv8825_direction_buf' = Behind(drv8825_direction_out)
           /\ delta_counter' = DeltaOf(current_mode_out)
           /\ steady' = IF steady < 2 THEN steady + 1 ELSE 2
           /\ steady \in 0..2
<1>1. /\ state_motor # "idle" /\ state_counter = "normal" /\ ~Turns /\ ~ModeChanges
      /\ steady' = IF steady < 2 THEN steady + 1 ELSE 2
  BY DEF ClockTick
<1>2. /\ loadcounter /\ registered_output /\ delta_counter_proc
  BY DEF ClockTick, Tick
<1>3. counter_clk' = stepping_clk
  BY <1>1, <1>2 DEF loadcounter, CountSteps
<1>4. steady \in 0..2
  BY DEF HostVarsOK
<1>. QED BY <1>1, <1>2, <1>3, <1>4 DEF Turns, ModeChanges, registered_output,
            delta_counter_proc, Behind

\* The pins keep to the counter's clock while nothing changes.
LEMMA TickSteady ==
    ASSUME AxisInv, HostVarsOK, SteadyInv, ClockTick
    PROVE  SteadyInv' /\ steady' \in 0..2
<1>1. CASE steady' = 0
  BY <1>1 DEF SteadyInv
<1>2. CASE steady' # 0
  <2>. DEFINE d == current_direction_buf[0]
              o == drv8825_direction_out
  <2>1. /\ d' = d /\ current_mode_out' = current_mode_out
        /\ drv8825_step' = counter_clk' /\ o' = d
        /\ drv8825_direction_buf' = Behind(o)
        /\ delta_counter' = DeltaOf(current_mode_out)
        /\ steady' = IF steady < 2 THEN steady + 1 ELSE 2
        /\ steady \in 0..2
    BY <1>2, SteadyTick
  <2>2. steady' \in 1..2 /\ (steady' = 2 => steady \in 1..2)
    BY <2>1, SMT
  <2>3. DeltaOf(current_mode_out)' = DeltaOf(current_mode_out)
    BY <2>1 DEF DeltaOf
  <2>4. steady \in 1..2 => o = d
    BY DEF SteadyInv
  <2>5. steady' = 2 => drv8825_direction_buf' = Behind(d')
    BY <2>1, <2>2, <2>4
  <2>6. Behind(d)' = Behind(d')
    BY DEF Behind
  <2>. QED BY <2>1, <2>2, <2>3, <2>5, <2>6 DEF SteadyInv
<1>. QED BY <1>1, <1>2

\* Then a pulse on the pins is an edge of the counter's clock, and the counter
\* goes the same way by the same number of steps.
LEMMA SteadyCounts ==
    ASSUME AxisInv, HostVarsOK, SteadyInv, ClockTick
    PROVE  CountsPulses
<1>. SUFFICES ASSUME steady = 2, steady' = 2
              PROVE  current_stepper_counter' =
                       IF state_backlash = "processing" THEN current_stepper_counter
                       ELSE Wrap(current_stepper_counter + MotorMoves)
  BY DEF CountsPulses
<1>. DEFINE d == current_direction_buf[0]
            c == current_stepper_counter
<1>1. /\ state_motor # "idle" /\ state_counter = "normal"
      /\ d' = d /\ drv8825_step' = stepping_clk /\ counter_clk' = stepping_clk
      /\ delta_counter' = DeltaOf(current_mode_out)
  BY SteadyTick
<1>2. /\ drv8825_step = counter_clk /\ delta_counter = DeltaOf(current_mode_out)
      /\ drv8825_direction_buf = Behind(d)
  BY DEF SteadyInv
<1>3. d \in {0, 1} /\ c \in Int /\ IsTmc \in BOOLEAN /\ ReverseDirection \in BOOLEAN
      /\ current_mode_out \in Mode
  BY ParamsAssumption DEF AxisInv, TypeOK, AccelTypeOK, CounterTypeOK, ClockTypeOK, Word, Bit
<1>4. drv8825_mode' = delta_counter'
  <2>1. drv8825_mode' = IF IsTmc THEN delta_counter ELSE DeltaOf(current_mode_out)
    BY DEF ClockTick, Tick, registered_output
  <2>. QED BY <1>1, <1>2, <2>1
<1>5. drv8825_direction' = Forward <=> d = 1
  <2>1. drv8825_direction' = IF IsTmc THEN 1 - Behind(d) ELSE Behind(d)
    BY <1>2 DEF ClockTick, Tick, registered_output
  <2>. QED BY <1>3, <2>1, SMT DEF Behind, Forward, ToBit
<1>6. /\ load_count' = 0 /\ cnt_enable' = ToBit(state_backlash # "processing")
      /\ stepper_counter
  BY <1>1 DEF ClockTick, Tick, loadcounter, CountSteps, Counted, ToBit
<1>7. PinRises <=> counter_clk = 0 /\ counter_clk' = 1
  BY <1>1, <1>2 DEF PinRises
<1>8. DeltaOf(current_mode_out) \in Int
  BY <1>3, DeltaType, SMT
<1>9. CASE PinRises /\ state_backlash # "processing"
  <2>1. c' = IF d = 1 THEN Wrap(c + delta_counter') ELSE Wrap(c - delta_counter')
    BY <1>1, <1>6, <1>7, <1>9 DEF stepper_counter, ToBit
  <2>2. MotorMoves = IF d = 1 THEN delta_counter' ELSE -delta_counter'
    BY <1>4, <1>5, <1>9 DEF MotorMoves
  <2>3. c + (-delta_counter') = c - delta_counter'
    BY <1>1, <1>3, <1>8, SMT
  <2>. QED BY <1>9, <2>1, <2>2, <2>3
<1>10. CASE ~PinRises
  <2>1. c' = c
    BY <1>6, <1>7, <1>10 DEF stepper_counter
  <2>2. MotorMoves = 0
    BY <1>10 DEF MotorMoves
  <2>3. Wrap(c + 0) = c
    BY ParamsAssumption, SMT DEF Wrap, AxisInv, TypeOK, CounterTypeOK, Word
  <2>. QED BY <2>1, <2>2, <2>3
<1>11. CASE PinRises /\ state_backlash = "processing"
  BY <1>6, <1>11 DEF stepper_counter, ToBit
<1>. QED BY <1>9, <1>10, <1>11

\* A tick of the clock.
LEMMA ClockTickKeeps ==
    ASSUME HostInv, ClockTick
    PROVE  HostInv'
<1>1. AxisInv' /\ TakeUpWithinDuration'
  BY TickType, TickTakesUp DEF HostInv, ClockTick
<1>2. SteadyInv' /\ steady' \in 0..2
  BY TickSteady DEF HostInv
<1>3. RunsInv' /\ HostVarsOK'
  BY <1>2, TickRuns DEF HostInv, ClockTick, HostVarsOK, hostVars
<1>4. LoadInv'
  BY TickLoads DEF HostInv, ClockTick
<1>. QED BY <1>1, <1>2, <1>3, <1>4 DEF HostInv

-----------------------------------------------------------------------------
(* The host. *)

\* The signals of the axis keep their ranges while only registers change.
LEMMA AxisStays ==
    ASSUME AxisInv, UNCHANGED axisVars, ctrl' \in Control, gap' \in Nat
    PROVE  AxisInv'
<1>. USE DEF axisVars
<1>1. HostTypeOK' /\ SettingsTypeOK'
  BY DEF AxisInv, TypeOK, HostTypeOK, SettingsTypeOK, settingsVars
<1>2. IssueTypeOK'
  BY DEF AxisInv, TypeOK, IssueTypeOK, issueVars
<1>3. AccelTypeOK' /\ RampInv'
  BY DEF AxisInv, TypeOK, AccelTypeOK, RampInv, accelVars
<1>4. ClockTypeOK'
  BY DEF AxisInv, TypeOK, ClockTypeOK, clockVars
<1>5. CounterTypeOK'
  BY DEF AxisInv, TypeOK, CounterTypeOK, counterVars
<1>. QED BY <1>1, <1>2, <1>3, <1>4, <1>5 DEF AxisInv, TypeOK

\* What is said of signals and history only stays true with them.
LEMMA HistoryStays ==
    ASSUME LoadInv, SteadyInv, TakeUpWithinDuration, UNCHANGED axisVars,
           steady' = steady
    PROVE  LoadInv' /\ SteadyInv' /\ TakeUpWithinDuration'
BY DEF LoadInv, SteadyInv, Behind, DeltaOf, TakeUpWithinDuration, axisVars,
       settingsVars, accelVars, clockVars, counterVars

\* A register write: a raised execute bit is counted when it is raised.
LEMMA TransferKeeps ==
    ASSUME HostInv, Transfer
    PROVE  HostInv'
<1>. DEFINE w == Head(script)
<1>1. /\ script \in Seq(Writes) /\ ctrl \in Control
      /\ executes \in Nat /\ runs \in Nat /\ steady \in 0..2
  BY DEF HostInv, AxisInv, TypeOK, HostTypeOK, HostVarsOK
<1>2. /\ w \in Writes /\ script' \in Seq(Writes)
      /\ ctrl' = [ctrl EXCEPT ![w.reg] = w.val] /\ gap' = w.wait
      /\ UNCHANGED axisVars /\ steady' = steady
      /\ runs' = runs
      /\ executes' = IF ctrl'.cmdcontrol.go > ctrl.cmdcontrol.go
                     THEN executes + 1 ELSE executes
  BY <1>1, HeadTailProperties DEF Transfer
<1>. HIDE DEF w
<1>3. gap' \in Nat
  BY <1>2 DEF Writes
<1>4. ctrl' \in Control
  <2>1. CASE w.reg = "cmdcontrol"
    BY <1>1, <1>2, <2>1 DEF Writes, Control
  <2>2. CASE w.reg \in {"cmdtick", "cmdduration", "backlash_duration"}
    BY <1>1, <1>2, <2>2 DEF Writes, Control
  <2>3. CASE w.reg = "trackctrl"
    BY <1>1, <1>2, <2>3 DEF Writes, Control
  <2>4. CASE w.reg = "backlash_tick"
    BY <1>1, <1>2, <2>4 DEF Writes, Control
  <2>5. CASE w.reg \in {"counter_load", "counter_max"}
    BY <1>1, <1>2, <2>5 DEF Writes, Control
  <2>. QED BY <1>2, <2>1, <2>2, <2>3, <2>4, <2>5 DEF Writes
<1>5. AxisInv'
  BY <1>2, <1>3, <1>4, AxisStays DEF HostInv
<1>6. LoadInv' /\ SteadyInv' /\ TakeUpWithinDuration'
  BY <1>2, HistoryStays DEF HostInv
<1>7. RunsInv'
  <2>1. /\ ctrl.cmdcontrol.go \in {0, 1} /\ ctrl'.cmdcontrol.go \in {0, 1}
        /\ set.go \in {0, 1} /\ ctr_cmd_buf \in {0, 1}
        /\ set' = set /\ ctr_cmd_buf' = ctr_cmd_buf
    BY <1>1, <1>2, <1>4 DEF HostInv, AxisInv, TypeOK, SettingsTypeOK, IssueTypeOK,
       Control, CmdControl, Settings, Bit, axisVars, settingsVars, issueVars
  <2>2. runs + Edge(ctr_cmd_buf, set.go) + Edge(set.go, ctrl.cmdcontrol.go) <= executes
    BY <1>1 DEF HostInv, RunsInv, Credit, Edge
  <2>3. runs + Edge(ctr_cmd_buf, set.go) + Edge(set.go, ctrl'.cmdcontrol.go) <= executes'
    BY <1>1, <1>2, <2>1, <2>2, SMT DEF Edge
  <2>4. Credit' = Edge(ctr_cmd_buf, set.go) + Edge(set.go, ctrl'.cmdcontrol.go)
    BY <2>1 DEF Credit
  <2>5. /\ Edge(ctr_cmd_buf, set.go) \in Nat /\ executes' \in Nat
        /\ Edge(set.go, ctrl'.cmdcontrol.go) \in Nat
    BY <1>1, <1>2 DEF Edge
  <2>. QED BY <1>1, <1>2, <2>3, <2>4, <2>5 DEF RunsInv
<1>8. HostVarsOK'
  BY <1>1, <1>2 DEF HostVarsOK
<1>. QED BY <1>5, <1>6, <1>7, <1>8 DEF HostInv

\* A call puts a script in place; so does nothing.
LEMMA CallKeeps ==
    ASSUME HostInv, UNCHANGED <<vars, ghostVars>>, script' \in Seq(Writes)
    PROVE  HostInv'
<1>. USE DEF ghostVars, vars
<1>1. AxisInv'
  BY StutterType DEF HostInv
<1>2. LoadInv' /\ SteadyInv' /\ TakeUpWithinDuration'
  BY HistoryStays DEF HostInv
<1>3. RunsInv'
  BY DEF HostInv, RunsInv, Credit, Edge, axisVars, settingsVars, issueVars
<1>4. HostVarsOK'
  BY DEF HostInv, HostVarsOK
<1>. QED BY <1>1, <1>2, <1>3, <1>4 DEF HostInv

-----------------------------------------------------------------------------
(* Theorems. *)

\* The state after reset, before the host writes.
LEMMA HostInitOK == HostInit => HostInv
<1>. SUFFICES ASSUME HostInit PROVE HostInv
  OBVIOUS
<1>1. PICK n \in StartTicks : InitWith(n)
  BY DEF HostInit
<1>2. AxisInv
  BY <1>1, HostAssumption, InitType
<1>3. HostVarsOK
  BY SetupScripts DEF HostInit, HostVarsOK
<1>4. RunsInv
  <2>1. Credit = 0
    BY <1>1 DEF InitWith, Credit, Edge, NoCommand
  <2>. QED BY <2>1 DEF HostInit, RunsInv
<1>5. LoadInv /\ SteadyInv /\ TakeUpWithinDuration
  BY <1>1 DEF HostInit, InitWith, LoadInv, SteadyInv, TakeUpWithinDuration
<1>. QED BY <1>2, <1>3, <1>4, <1>5 DEF HostInv

\* Every step keeps the invariant.
LEMMA HostNextKeeps == HostInv /\ [HostNext]_allVars => HostInv'
<1>. SUFFICES ASSUME HostInv, [HostNext]_allVars PROVE HostInv'
  OBVIOUS
<1>1. CASE Call
  BY <1>1, CallScripts, CallKeeps DEF Call
<1>2. CASE Transfer
  BY <1>2, TransferKeeps
<1>3. CASE ClockTick
  BY <1>3, ClockTickKeeps
<1>4. CASE UNCHANGED allVars
  BY <1>4, CallKeeps DEF allVars, hostVars, HostInv, HostVarsOK
<1>. QED BY <1>1, <1>2, <1>3, <1>4 DEF HostNext

\* Whatever MotorDriver is called for, no signal of the axis leaves its range.
THEOREM HostSignalsInRange == HostSpec => []TypeOK
<1>1. HostInv => TypeOK
  BY DEF HostInv, AxisInv
<1>. QED BY <1>1, HostInitOK, HostNextKeeps, PTL DEF HostSpec

\* Whatever is called, and whatever the periods are: once the pins have caught
\* up with the last start, turn, mode and load, each pulse on them is counted,
\* with its micro-step and its direction, and nothing else is; those of a
\* take-up are not.
THEOREM PulsesAlwaysCount == HostSpec => PulsesCount
<1>1. HostInv /\ [HostNext]_allVars => [CountsPulses]_allVars
  <2>. SUFFICES ASSUME HostInv, HostNext PROVE [CountsPulses]_allVars
    OBVIOUS
  <2>1. CASE ClockTick
    BY <2>1, SteadyCounts DEF HostInv
  <2>2. CASE Call \/ Transfer
    <3>1. UNCHANGED axisVars
      BY <2>2 DEF Call, Transfer, vars
    <3>2. MotorMoves = 0
      BY <3>1 DEF MotorMoves, PinRises, axisVars, clockVars
    <3>3. Wrap(current_stepper_counter + 0) = current_stepper_counter
      BY ParamsAssumption, SMT DEF Wrap, HostInv, AxisInv, TypeOK, CounterTypeOK, Word
    <3>. QED BY <3>1, <3>2, <3>3 DEF CountsPulses, axisVars, counterVars
  <2>. QED BY <2>1, <2>2 DEF HostNext
<1>. QED BY <1>1, HostInitOK, HostNextKeeps, PTL DEF HostSpec, PulsesCount

\* The execute bit starts at most one run each time it is raised.
THEOREM OneRunAlways == HostSpec => []OneRunPerExecute
<1>1. HostInv => OneRunPerExecute
  <2>. SUFFICES ASSUME HostInv PROVE runs <= executes
    BY DEF OneRunPerExecute
  <2>1. Credit \in Nat
    BY DEF Credit, Edge
  <2>. QED BY <2>1 DEF HostInv, HostVarsOK, RunsInv
<1>. QED BY <1>1, HostInitOK, HostNextKeeps, PTL DEF HostSpec

\* A take-up never counts past the duration it waits for.
THEOREM TakeUpAlwaysWithin == HostSpec => []TakeUpWithinDuration
<1>1. HostInv => TakeUpWithinDuration
  BY DEF HostInv
<1>. QED BY <1>1, HostInitOK, HostNextKeeps, PTL DEF HostSpec

-----------------------------------------------------------------------------
(* The revolution.  The counter stays on it because the clock of the counter *)
(* is low only after a tick that has looked for the wrap; and as long as the *)
(* host has not set the revolution, the axis is at rest.                    *)

\* A mode of one step per pulse, and the writes that keep to these modes and to
\* the revolution, and do not set it.
Unit(m) == DeltaOf(m) = 1
Plain(w) ==
    /\ w.reg \in {"cmdcontrol", "trackctrl", "backlash_tick"} => Unit(w.val.mode)
    /\ w.reg = "counter_load" => w.val.value \in 0..(MaxStep + 1)
    /\ w.reg = "counter_max" => w.val.set = 0
PlainWrites == {w \in Writes : Plain(w)}

\* The revolution is set by the first write, and the second takes it back.
FirstWrite == W("counter_max", [set |-> 1, value |-> MaxStep])
TakesBack(s) == s \in Seq(PlainWrites) /\ s # <<>> /\ Head(s).reg = "counter_max"
ScriptInv ==
    \/ script \in Seq(PlainWrites) /\ ctrl.counter_max.set = 0
    \/ TakesBack(script) /\ ctrl.counter_max.set = 1
    \/ /\ script # <<>> /\ Head(script) = FirstWrite /\ TakesBack(Tail(script))
       /\ ctrl.counter_max.set = 0

\* Every signal that carries a mode carries one of these.
UnitInv ==
    /\ Unit(ctrl.cmdcontrol.mode) /\ Unit(ctrl.trackctrl.mode) /\ Unit(ctrl.backlash_tick.mode)
    /\ Unit(set.mode) /\ Unit(set.track.mode) /\ Unit(bl.mode) /\ Unit(issue.mode)
    /\ Unit(current_mode_buf) /\ Unit(current_mode_out) /\ delta_counter = 1
    /\ ctrl.counter_load.value \in 0..(MaxStep + 1)

\* Nothing moves the axis, and no register asks for it.
AtRest ==
    /\ state_motor = "idle" /\ state_motor_buf = "idle"
    /\ set.go = 0 /\ set.park = 0 /\ set.track.enable = 0
    /\ current_stepper_counter \in {0, 2}
    /\ state_counter # "normal" => load_counter = 2
    /\ max_counter \in {0, MaxStep + 1, 2 * Modulus - 1}
Quiet ==
    /\ ctrl.cmdcontrol.go = 0 /\ ctrl.cmdcontrol.park = 0
    /\ ctrl.trackctrl.enable = 0 /\ ctrl.counter_load.set = 0

\* Until the revolution is set, and while it may be, that is so.
MaxInv ==
    /\ script # <<>> /\ Head(script) = FirstWrite => AtRest /\ Quiet
    /\ ctrl.counter_max.set = 1 => ctrl.counter_max.value = MaxStep /\ AtRest /\ Quiet
    /\ mask_counter_max.set = 1 =>
          mask_counter_max.value \in {MaxStep, 2 * Modulus - 1} /\ AtRest
    /\ max_counter2 = MaxStep => max_counter = MaxStep + 1

\* At the ends of the revolution the counter's clock has not been low yet.
OnRevolution ==
    /\ current_stepper_counter \in (0..MaxStep + 1) \cup {Modulus - 1}
    /\ state_counter = "normal" /\ current_stepper_counter \in {MaxStep + 1, Modulus - 1} =>
          counter_clk = 1
    /\ state_counter # "normal" => load_counter \in 0..(MaxStep + 1)

RevolutionInv ==
    ScriptInv /\ UnitInv /\ MaxInv /\ (max_counter2 = MaxStep => OnRevolution)

\* The numbers this is about.
LEMMA RevolutionNumbers ==
    /\ Modulus \in Nat /\ MaxStep \in Nat /\ 3 <= MaxStep /\ MaxStep + 4 <= Modulus
    /\ Modulus >= 8
BY ParamsAssumption, HostAssumption, SMT

\* After a tick at rest the axis is at rest.
LEMMA RestStays ==
    ASSUME AxisInv, MaxInv, AtRest, Quiet, Tick
    PROVE  AtRest'
<1>1. state_motor' = "idle" /\ state_motor_buf' = "idle"
  <2>1. issue_command
    BY DEF Tick
  <2>2. TrackOrIdle
    BY <2>1 DEF issue_command, AtRest, StartCommand, StartPark, Executes, Parks
  <2>. QED BY <2>1, <2>2 DEF issue_command, AtRest, TrackOrIdle
<1>2. set'.go = 0 /\ set'.park = 0 /\ set'.track.enable = 0
  <2>1. SampleCommand
    BY DEF Tick, settings, AtRest
  <2>. QED BY <2>1 DEF SampleCommand, Quiet
<1>3. ~WrapDown
  BY RevolutionNumbers DEF WrapDown, AtRest
<1>4. CASE state_counter = "normal"
  <2>1. CountSteps /\ stepper_counter
    BY <1>4 DEF Tick, loadcounter
  <2>2. cnt_enable' = 0
    BY <2>1 DEF CountSteps, Counted, ToBit, AtRest
  <2>3. current_stepper_counter' = current_stepper_counter
    BY <2>1, <2>2 DEF stepper_counter
  <2>4. state_counter' # "normal" => load_counter' = 2
    <3>1. CASE WrapUp
      BY <2>1, <3>1 DEF CountSteps, Load
    <3>2. CASE ~WrapUp
      BY <1>3, <1>4, <2>1, <3>2 DEF CountSteps, ReadLoader, Quiet
    <3>. QED BY <3>1, <3>2
  <2>5. max_counter' \in {0, MaxStep + 1, 2 * Modulus - 1}
    <3>1. \/ max_counter' = max_counter
          \/ mask_counter_max.set = 1 /\ max_counter' = (mask_counter_max.value + 1) % (2 * Modulus)
      BY <2>1 DEF CountSteps, ReadLoader
    <3>2. /\ (MaxStep + 1) % (2 * Modulus) = MaxStep + 1
          /\ (2 * Modulus - 1 + 1) % (2 * Modulus) = 0
      BY RevolutionNumbers, SMT
    <3>. QED BY <3>1, <3>2 DEF MaxInv, AtRest
  <2>. QED BY <1>1, <1>2, <2>3, <2>4, <2>5 DEF AtRest
<1>5. CASE state_counter # "normal"
  <2>1. LoadStep /\ stepper_counter
    BY <1>5 DEF Tick, loadcounter
  <2>2. load_count' = 1 /\ load_counter' = 2 /\ max_counter' = max_counter
    BY <1>5, <2>1 DEF LoadStep, AtRest
  <2>3. current_stepper_counter' \in {current_stepper_counter, 2}
    BY <2>1, <2>2 DEF stepper_counter
  <2>. QED BY <1>1, <1>2, <2>2, <2>3 DEF AtRest
<1>. QED BY <1>4, <1>5

\* A tick does not change what the revolution is, but for what the host wrote.
LEMMA TickSets ==
    ASSUME AxisInv, MaxInv, Tick
    PROVE  \/ UNCHANGED <<max_counter, max_counter2>>
           \/ /\ mask_counter_max.set = 1 /\ state_counter = "normal" /\ CountSteps
              /\ state_counter' = "normal" /\ max_counter' = MaxStep + 1 /\ max_counter2' = MaxStep
           \/ max_counter2' # MaxStep
<1>1. CASE state_counter # "normal"
  BY <1>1 DEF Tick, loadcounter, LoadStep
<1>2. CASE state_counter = "normal" /\ ~UNCHANGED <<max_counter, max_counter2>>
  <2>1. CountSteps
    BY <1>2 DEF Tick, loadcounter
  <2>2. ReadLoader
    BY <1>2, <2>1 DEF CountSteps
  <2>3. /\ mask_counter_max.set = 1 /\ state_counter' = state_counter
        /\ max_counter' = (mask_counter_max.value + 1) % (2 * Modulus)
        /\ max_counter2' = Wrap(mask_counter_max.value)
    BY <1>2, <2>2 DEF ReadLoader
  <2>4. /\ (MaxStep + 1) % (2 * Modulus) = MaxStep + 1 /\ MaxStep % Modulus = MaxStep
        /\ (2 * Modulus - 1) % Modulus # MaxStep
    BY RevolutionNumbers, SMT
  <2>5. mask_counter_max.value \in {MaxStep, 2 * Modulus - 1}
    BY <2>3 DEF MaxInv
  <2>. QED BY <1>2, <2>1, <2>3, <2>4, <2>5 DEF Wrap
<1>. QED BY <1>1, <1>2

\* A tick keeps the counter on the revolution.
LEMMA TickOnRevolution ==
    ASSUME AxisInv, LoadInv, UnitInv, UnitInv', MaxInv, Tick, OnRevolution,
           max_counter = MaxStep + 1, max_counter2 = MaxStep,
           UNCHANGED <<max_counter, max_counter2>>
    PROVE  OnRevolution'
<1>1. counter_clk \in {0, 1} /\ stepping_clk \in {0, 1}
  BY CounterBits
<1>2. CASE state_counter = "normal"
  <2>1. CountSteps /\ stepper_counter /\ counter_clk' = stepping_clk /\ load_count' = 0
    BY <1>2 DEF Tick, loadcounter, CountSteps
  <2>2. state_counter' # "normal" => load_counter' \in 0..(MaxStep + 1) /\ stepping_clk = 0
    <3>1. CASE WrapUp
      BY <2>1, <3>1, RevolutionNumbers DEF CountSteps, Load, WrapUp
    <3>2. CASE ~WrapUp /\ WrapDown
      <4>1. load_counter' = Wrap(max_counter - 2) /\ stepping_clk = 0
        BY <2>1, <3>2 DEF CountSteps, Load, WrapDown
      <4>2. (MaxStep + 1 - 2) % Modulus = MaxStep - 1
        BY RevolutionNumbers, SMT
      <4>. QED BY <4>1, <4>2, RevolutionNumbers DEF Wrap
    <3>3. CASE ~WrapUp /\ ~WrapDown
      BY <1>2, <2>1, <3>3 DEF CountSteps, ReadLoader, Load, UnitInv
    <3>. QED BY <3>1, <3>2, <3>3
  <2>3. CASE counter_clk = 0 /\ counter_clk' = 1 /\ cnt_enable' = 1
    <3>1. current_stepper_counter \in 0..MaxStep
      BY <1>2, <2>3, RevolutionNumbers DEF OnRevolution
    <3>2. current_stepper_counter' \in {Wrap(current_stepper_counter + 1),
                                        Wrap(current_stepper_counter - 1)}
      BY <2>1, <2>3 DEF stepper_counter, UnitInv
    <3>3. current_stepper_counter' \in (0..MaxStep + 1) \cup {Modulus - 1}
      <4>. DEFINE c == current_stepper_counter
      <4>. HIDE DEF c
      <4>1. ASSUME c \in 0..MaxStep
            PROVE  /\ (c + 1) % Modulus = c + 1
                   /\ (c - 1) % Modulus = IF c = 0 THEN Modulus - 1 ELSE c - 1
        BY <4>1, RevolutionNumbers, SMT
      <4>. QED BY <3>1, <3>2, <4>1, RevolutionNumbers DEF Wrap, c
    <3>. QED BY <2>1, <2>2, <2>3, <3>3 DEF OnRevolution
  <2>4. CASE ~(counter_clk = 0 /\ counter_clk' = 1 /\ cnt_enable' = 1)
    <3>1. current_stepper_counter' = current_stepper_counter
      BY <2>1, <2>4 DEF stepper_counter
    <3>2. ASSUME state_counter' = "normal",
                 current_stepper_counter \in {MaxStep + 1, Modulus - 1}
          PROVE  counter_clk' = 1
      <4>1. Wraps
        BY RevolutionNumbers DEF Wraps
      <4>2. CASE stepping_clk = 0
        <5>1. WrapUp \/ WrapDown
          BY <3>2, <4>1, <4>2 DEF WrapUp, WrapDown
        <5>. QED BY <2>1, <3>2, <5>1 DEF CountSteps, Load
      <4>. QED BY <1>1, <2>1, <4>2
    <3>. QED BY <2>2, <3>1, <3>2 DEF OnRevolution
  <2>. QED BY <2>3, <2>4
<1>3. CASE state_counter # "normal"
  <2>1. LoadStep /\ stepper_counter /\ load_counter' = load_counter
    BY <1>3 DEF Tick, loadcounter, LoadStep
  <2>2. load_counter \in 0..(MaxStep + 1)
    BY <1>3 DEF OnRevolution
  <2>3. current_stepper_counter' \in {current_stepper_counter, load_counter}
    BY <2>1 DEF stepper_counter, LoadStep
  <2>4. state_counter' = "normal" => counter_clk' = 1
    <3>1. state_counter \in {"buf0", "buf1", "buf2", "buf3", "buf4"}
      BY <1>3, CounterBits
    <3>2. ASSUME state_counter' = "normal" PROVE state_counter = "buf4"
      BY <2>1, <3>1, <3>2 DEF LoadStep
    <3>3. counter_clk' = 1 - counter_clk
      BY <2>1 DEF LoadStep
    <3>. QED BY <3>2, <3>3 DEF LoadInv
  <2>. QED BY <2>1, <2>2, <2>3, <2>4 DEF OnRevolution
<1>. QED BY <1>2, <1>3

\* The modes move on from register to register.
LEMMA TickUnits ==
    ASSUME AxisInv, UnitInv, Tick
    PROVE  UnitInv'
<1>. USE DEF UnitInv
<1>1. ctrl' = ctrl
  BY DEF Tick
<1>2. Unit(set'.mode) /\ Unit(set'.track.mode)
  <2>1. CASE SampleCommand
    BY <2>1 DEF SampleCommand
  <2>2. CASE SampleCancel
    <3>1. set \in Settings
      BY DEF AxisInv, TypeOK, SettingsTypeOK
    <3>2. set'.mode = set.mode /\ set'.track = set.track
      BY <2>2, <3>1 DEF SampleCancel, Settings
    <3>. QED BY <3>2
  <2>. QED BY <2>1, <2>2 DEF Tick, settings
<1>3. Unit(bl'.mode)
  BY DEF Tick, settings, SampleBacklash
<1>4. Unit(issue'.mode)
  <2>1. issue_command
    BY DEF Tick
  <2>2. issue \in [direction : Bit, mode : Mode, speed : Word, stop : Bit]
    BY DEF AxisInv, TypeOK, IssueTypeOK
  <2>3. CASE CancelRun \/ ContinueRun
    BY <2>2, <2>3 DEF CancelRun, ContinueRun
  <2>4. CASE StartCommand \/ StartPark \/ TrackOrIdle
    BY <2>2, <2>4 DEF StartCommand, StartPark, TrackOrIdle
  <2>. QED BY <2>1, <2>3, <2>4 DEF issue_command
<1>5. Unit(current_mode_buf') /\ Unit(current_mode_out') /\ delta_counter' = 1
  BY DEF Tick, accel_control, backslash, delta_counter_proc, Unit
<1>. QED BY <1>1, <1>2, <1>3, <1>4, <1>5

\* A tick of the clock.
LEMMA TickRevolution ==
    ASSUME HostInv, RevolutionInv, ClockTick
    PROVE  RevolutionInv'
<1>1. AxisInv /\ LoadInv /\ ScriptInv /\ UnitInv /\ MaxInv /\ Tick
  BY DEF HostInv, RevolutionInv, ClockTick
<1>2. ctrl' = ctrl /\ script' = script
  BY DEF ClockTick, Tick, hostVars
<1>3. ScriptInv'
  BY <1>1, <1>2 DEF ScriptInv
<1>4. UnitInv'
  BY <1>1, TickUnits
<1>5. AtRest /\ Quiet => AtRest' /\ Quiet'
  BY <1>1, <1>2, RestStays DEF Quiet
<1>6. mask_counter_max' = ctrl.counter_max
  BY <1>1 DEF Tick, loadcounter
<1>7. max_counter2' = MaxStep => max_counter' = MaxStep + 1
  BY <1>1, TickSets DEF MaxInv
<1>8. MaxInv'
  BY <1>1, <1>2, <1>5, <1>6, <1>7 DEF MaxInv
<1>9. ASSUME max_counter2' = MaxStep PROVE OnRevolution'
  <2>1. CASE UNCHANGED <<max_counter, max_counter2>>
    BY <1>1, <1>4, <1>9, <2>1, TickOnRevolution DEF RevolutionInv, MaxInv
  <2>2. CASE ~UNCHANGED <<max_counter, max_counter2>>
    <3>1. /\ mask_counter_max.set = 1 /\ state_counter = "normal" /\ CountSteps
          /\ state_counter' = "normal"
      BY <1>1, <1>9, <2>2, TickSets
    <3>2. AtRest
      BY <1>1, <3>1 DEF MaxInv
    <3>3. current_stepper_counter' = current_stepper_counter
      BY <1>1, <3>1, <3>2 DEF Tick, stepper_counter, CountSteps, Counted, ToBit, AtRest
    <3>. QED BY <3>1, <3>2, <3>3, RevolutionNumbers DEF OnRevolution, AtRest
  <2>. QED BY <2>1, <2>2
<1>. QED BY <1>3, <1>4, <1>8, <1>9 DEF RevolutionInv

-----------------------------------------------------------------------------
(* What the host writes keeps to the modes and to the revolution. *)

\* The writes of a script are plain one by one.
LEMMA PlainScript ==
    ASSUME NEW s \in Seq(Writes), \A i \in 1..Len(s) : Plain(s[i])
    PROVE  s \in Seq(PlainWrites)
<1>1. s \in [1..Len(s) -> Writes] /\ Len(s) \in Nat
  BY LenProperties
<1>2. s \in [1..Len(s) -> PlainWrites]
  BY <1>1 DEF PlainWrites
<1>. QED BY <1>1, <1>2, SeqDef

\* The head of a script that is not empty.
LEMMA FirstOfSeq ==
    ASSUME NEW S, NEW s \in Seq(S), Len(s) # 0
    PROVE  s # <<>> /\ Head(s) = s[1]
OBVIOUS

\* The modes a script may hold.
LEMMA PlainWrite ==
    ASSUME OneStepAPulse
    PROVE  /\ \A v : Plain(W("cmdtick", v)) /\ Plain(W("cmdduration", v))
                     /\ Plain(W("backlash_duration", v))
           /\ \A r \in {"cmdcontrol", "trackctrl", "backlash_tick"} : \A v :
                 Unit(v.mode) => Plain(W(r, v))
           /\ \A v, h : Unit(v.mode) => Plain([W("cmdcontrol", v) EXCEPT !.wait = h])
           /\ Unit(0) /\ Unit(7)
<1>1. Unit(0) /\ Unit(7)
  BY ParamsAssumption DEF OneStepAPulse, Unit, DeltaOf
<1>. QED BY <1>1 DEF Plain, W

\* set_backlash.
LEMMA PlainBacklash ==
    ASSUME OneStepAPulse, NEW b \in Backlashes
    PROVE  set_backlash(b) \in Seq(PlainWrites)
<1>1. set_backlash(b) \in Seq(Writes)
  BY BacklashScript
<1>2. Unit(b.mode)
  BY DEF OneStepAPulse, Unit
<1>3. Plain(set_backlash(b)[1]) /\ Plain(set_backlash(b)[2])
  BY <1>2, PlainWrite DEF set_backlash
<1>4. Len(set_backlash(b)) = 2
  BY DEF set_backlash
<1>. QED BY <1>1, <1>3, <1>4, PlainScript

\* A call.
LEMMA PlainCalls ==
    ASSUME OneStepAPulse
    PROVE  Calls \subseteq Seq(PlainWrites)
<1>. SUFFICES ASSUME NEW s \in Calls PROVE \A i \in 1..Len(s) : Plain(s[i])
  BY CallScripts, PlainScript
<1>1. Unit(NoCommand.mode) /\ Plain(W("cmdcontrol", NoCommand))
  BY PlainWrite DEF NoCommand
<1>2. ASSUME NEW g \in Goals, NEW p \in Periods, NEW h \in HoldTicks, s = set_command(g, p, h)
      PROVE  \A i \in 1..Len(s) : Plain(s[i])
  <2>1. Unit(Execute(g).mode)
    BY DEF OneStepAPulse, Unit, Execute, NoCommand
  <2>2. Len(s) = 4
    BY <1>2 DEF set_command
  <2>3. Plain(s[1]) /\ Plain(s[2]) /\ Plain(s[4])
    BY <1>1, <1>2, PlainWrite DEF set_command
  <2>4. Plain(s[3])
    BY <1>2, <2>1, PlainWrite DEF set_command
  <2>. QED BY <2>2, <2>3, <2>4
<1>3. ASSUME NEW v \in Positions, s = set_current_position(v)
      PROVE  \A i \in 1..Len(s) : Plain(s[i])
  <2>1. v \in 0..(MaxStep + 1) /\ 0 \in 0..(MaxStep + 1)
    BY RevolutionNumbers DEF OneStepAPulse
  <2>2. Plain(s[1]) /\ Plain(s[2])
    BY <1>3, <2>1 DEF set_current_position, W, Plain
  <2>3. Len(s) = 2
    BY <1>3 DEF set_current_position
  <2>. QED BY <2>2, <2>3
<1>4. ASSUME NEW d \in ParkDirs, NEW p \in Periods, NEW h \in HoldTicks, s = park_bit(d, p, h)
      PROVE  \A i \in 1..Len(s) : Plain(s[i])
  <2>. DEFINE c == [NoCommand EXCEPT !.park = 1, !.dir = d, !.mode = 7]
  <2>1. c.mode = 7
    BY DEF NoCommand
  <2>. HIDE DEF c
  <2>2. Unit(c.mode)
    BY <2>1, PlainWrite
  <2>3. s = << W("cmdtick", p), [W("cmdcontrol", c) EXCEPT !.wait = h],
               W("cmdcontrol", NoCommand) >>
    BY <1>4 DEF park_bit, c
  <2>4. Plain(s[1]) /\ Plain(s[2]) /\ Plain(s[3]) /\ Len(s) = 3
    BY <1>1, <2>2, <2>3, PlainWrite
  <2>. QED BY <2>4
<1>5. ASSUME NEW i \in Cancels, s = cancel_command(i)
      PROVE  \A j \in 1..Len(s) : Plain(s[j])
  <2>. DEFINE c == [NoCommand EXCEPT !.cancel = 1, !.cancelnow = i]
  <2>1. c.mode = 0
    BY DEF NoCommand
  <2>. HIDE DEF c
  <2>2. s = << W("cmdcontrol", c) >>
    BY <1>5 DEF cancel_command, c
  <2>3. Plain(s[1]) /\ Len(s) = 1
    BY <2>1, <2>2, PlainWrite
  <2>. QED BY <2>3
<1>6. ASSUME NEW t \in Tracks, s = write_trackctrl(t)
      PROVE  \A i \in 1..Len(s) : Plain(s[i])
  <2>1. Unit(t.mode)
    BY DEF OneStepAPulse, Unit
  <2>2. Plain(s[1]) /\ Len(s) = 1
    BY <1>6, <2>1, PlainWrite DEF write_trackctrl
  <2>. QED BY <2>2
<1>7. ASSUME NEW b \in Backlashes, s = set_backlash(b)
      PROVE  \A i \in 1..Len(s) : Plain(s[i])
  <2>1. s \in Seq(PlainWrites)
    BY <1>7, PlainBacklash
  <2>2. \A i \in 1..Len(s) : s[i] \in PlainWrites
    BY <2>1, ElementOfSeq
  <2>. QED BY <2>2 DEF PlainWrites
<1>. QED BY <1>2, <1>3, <1>4, <1>5, <1>6, <1>7 DEF Calls

\* What the host begins with: the revolution, set and taken back.
LEMMA PlainSetup ==
    ASSUME OneStepAPulse, NEW s \in Setups
    PROVE  LET f == set_max_step(MaxStep) \o s
           IN  f # <<>> /\ Head(f) = FirstWrite /\ TakesBack(Tail(f))
<1>. DEFINE f == set_max_step(MaxStep) \o s
            back == W("counter_max", [set |-> 0, value |-> 0])
<1>1. s \in Seq(PlainWrites)
  BY PlainBacklash, EmptySeq DEF Setups
<1>2. f \in Seq(Writes)
  BY SetupScripts
<1>3. set_max_step(MaxStep) = <<FirstWrite, back>>
  BY DEF set_max_step, FirstWrite
<1>. HIDE DEF back
<1>4. /\ Len(f) = 2 + Len(s) /\ f[1] = FirstWrite /\ f[2] = back
      /\ \A i \in 3..Len(f) : f[i] = s[i - 2]
  <2>1. <<FirstWrite, back>> \in Seq({FirstWrite, back} \cup PlainWrites)
        /\ s \in Seq({FirstWrite, back} \cup PlainWrites)
    BY <1>1, SeqMonotonic
  <2>2. /\ Len(f) = 2 + Len(s)
        /\ \A i \in 1..2 + Len(s) : f[i] = IF i <= 2 THEN <<FirstWrite, back>>[i] ELSE s[i - 2]
    BY <1>3, <2>1, ConcatProperties
  <2>3. Len(s) \in Nat
    BY <1>1, LenProperties
  <2>. QED BY <2>2, <2>3
<1>. HIDE DEF f
<1>5. Len(s) \in Nat /\ \A i \in 1..Len(s) : Plain(s[i])
  BY <1>1, LenProperties, ElementOfSeq DEF PlainWrites
<1>6. f # <<>> /\ Head(f) = FirstWrite
  BY <1>2, <1>4, <1>5
<1>7. /\ Tail(f) \in Seq(Writes) /\ Len(Tail(f)) = Len(s) + 1
      /\ \A i \in 1..Len(Tail(f)) : Tail(f)[i] = f[i + 1]
  BY <1>2, <1>4, <1>5, <1>6, HeadTailProperties
<1>8. Tail(f)[1] = back /\ \A i \in 2..Len(Tail(f)) : Tail(f)[i] = s[i - 1]
  BY <1>4, <1>5, <1>7
<1>9. Plain(back) /\ back.reg = "counter_max"
  BY DEF back, W, Plain
<1>10. \A i \in 1..Len(Tail(f)) : Plain(Tail(f)[i])
  BY <1>5, <1>7, <1>8, <1>9
<1>11. Tail(f) \in Seq(PlainWrites)
  BY <1>7, <1>10, PlainScript
<1>12. Tail(f) # <<>> /\ Head(Tail(f)).reg = "counter_max"
  <2>1. Len(Tail(f)) # 0
    <3>1. \A n \in Nat : \A k : k = n + 1 => k # 0
      OBVIOUS
    <3>. QED BY <1>5, <1>7, <3>1, Zenon
  <2>2. Tail(f) # <<>> /\ Head(Tail(f)) = Tail(f)[1]
    BY <1>7, <2>1, FirstOfSeq
  <2>. QED BY <1>8, <1>9, <2>2
<1>. QED BY <1>6, <1>11, <1>12 DEF TakesBack, f

\* A write keeps to both: it is plain, or it sets the revolution of an axis at rest.
LEMMA TransferRevolution ==
    ASSUME HostInv, RevolutionInv, Transfer
    PROVE  RevolutionInv'
<1>. DEFINE w == Head(script)
<1>1. /\ UNCHANGED axisVars /\ ctrl' = [ctrl EXCEPT ![w.reg] = w.val]
      /\ script' = Tail(script) /\ script # <<>>
  BY DEF Transfer
<1>. HIDE DEF w
<1>2. /\ AtRest' <=> AtRest
      /\ (max_counter2 = MaxStep => OnRevolution) => (max_counter2' = MaxStep => OnRevolution')
      /\ UNCHANGED <<mask_counter_max, max_counter, max_counter2, set, bl, issue,
                     current_mode_buf, current_mode_out, delta_counter>>
  BY <1>1 DEF AtRest, OnRevolution, axisVars, settingsVars, issueVars, accelVars,
              clockVars, counterVars
<1>3. ScriptInv /\ UnitInv /\ MaxInv /\ (max_counter2 = MaxStep => OnRevolution)
  BY DEF RevolutionInv
<1>4. ctrl \in Control
  BY DEF HostInv, AxisInv, TypeOK, HostTypeOK
<1>5. CASE w \in PlainWrites /\ script' \in Seq(PlainWrites)
           /\ (ctrl.counter_max.set = 0 \/ w.reg = "counter_max")
  <2>1. w \in Writes /\ Plain(w)
    BY <1>5 DEF PlainWrites
  <2>2. ctrl'.counter_max.set = 0
    BY <1>1, <1>4, <1>5, <2>1 DEF Control, Plain
  <2>3. ScriptInv'
    BY <1>5, <2>2 DEF ScriptInv
  <2>4. script' # <<>> /\ Head(script').reg = "counter_max" => Head(script').val.set = 0
    BY <1>5, HeadTailProperties DEF PlainWrites, Plain
  <2>5. ~(script' # <<>> /\ Head(script') = FirstWrite)
    BY <2>4 DEF FirstWrite, W
  <2>6. UnitInv'
    <3>1. CASE w.reg = "cmdcontrol"
      BY <1>1, <1>2, <1>3, <1>4, <2>1, <3>1 DEF UnitInv, Plain, Control
    <3>2. CASE w.reg = "trackctrl"
      BY <1>1, <1>2, <1>3, <1>4, <2>1, <3>2 DEF UnitInv, Plain, Control
    <3>3. CASE w.reg = "backlash_tick"
      BY <1>1, <1>2, <1>3, <1>4, <2>1, <3>3 DEF UnitInv, Plain, Control
    <3>4. CASE w.reg = "counter_load"
      BY <1>1, <1>2, <1>3, <1>4, <2>1, <3>4 DEF UnitInv, Plain, Control
    <3>5. CASE w.reg \in {"cmdtick", "cmdduration", "backlash_duration", "counter_max"}
      BY <1>1, <1>2, <1>3, <1>4, <3>5 DEF UnitInv, Control
    <3>. QED BY <2>1, <3>1, <3>2, <3>3, <3>4, <3>5 DEF Writes
  <2>7. MaxInv'
    BY <1>2, <1>3, <2>2, <2>5 DEF MaxInv
  <2>. QED BY <1>2, <1>3, <2>3, <2>6, <2>7 DEF RevolutionInv
<1>6. CASE w = FirstWrite /\ TakesBack(Tail(script))
  <2>1. /\ ctrl'.counter_max = [set |-> 1, value |-> MaxStep]
        /\ ctrl'.cmdcontrol = ctrl.cmdcontrol /\ ctrl'.trackctrl = ctrl.trackctrl
        /\ ctrl'.counter_load = ctrl.counter_load /\ ctrl'.backlash_tick = ctrl.backlash_tick
    BY <1>1, <1>4, <1>6 DEF FirstWrite, W, Control
  <2>2. ScriptInv'
    BY <1>1, <1>6, <2>1 DEF ScriptInv
  <2>3. AtRest /\ Quiet
    BY <1>1, <1>3, <1>6 DEF MaxInv, w
  <2>4. AtRest' /\ Quiet'
    BY <1>2, <2>1, <2>3 DEF Quiet
  <2>5. UnitInv'
    BY <1>2, <1>3, <2>1 DEF UnitInv
  <2>6. MaxInv'
    BY <1>2, <1>3, <2>1, <2>4 DEF MaxInv
  <2>. QED BY <1>2, <1>3, <2>2, <2>5, <2>6 DEF RevolutionInv
<1>7. CASE script \in Seq(PlainWrites) /\ ctrl.counter_max.set = 0
  <2>1. w \in PlainWrites /\ script' \in Seq(PlainWrites)
    BY <1>1, <1>7, HeadTailProperties DEF w
  <2>. QED BY <1>5, <1>7, <2>1
<1>8. CASE TakesBack(script)
  <2>1. w \in PlainWrites /\ script' \in Seq(PlainWrites) /\ w.reg = "counter_max"
    BY <1>1, <1>8, HeadTailProperties DEF w, TakesBack
  <2>. QED BY <1>5, <2>1
<1>. QED BY <1>3, <1>6, <1>7, <1>8 DEF ScriptInv, w

\* A call puts a plain script in the place of none; so does nothing.
LEMMA CallRevolution ==
    ASSUME RevolutionInv, UNCHANGED vars,
           \/ script' = script
           \/ script = <<>> /\ script' \in Seq(PlainWrites)
    PROVE  RevolutionInv'
<1>1. /\ AtRest' <=> AtRest
      /\ Quiet' <=> Quiet
      /\ (max_counter2 = MaxStep => OnRevolution) => (max_counter2' = MaxStep => OnRevolution')
      /\ UNCHANGED <<ctrl, mask_counter_max, max_counter, max_counter2>>
  BY DEF AtRest, Quiet, OnRevolution, vars, axisVars, settingsVars, issueVars, accelVars,
         clockVars, counterVars
<1>2. UnitInv'
  BY DEF RevolutionInv, UnitInv, vars, axisVars, settingsVars, issueVars, accelVars,
         clockVars, counterVars
<1>3. CASE script' = script
  BY <1>1, <1>2, <1>3 DEF RevolutionInv, ScriptInv, MaxInv
<1>4. CASE script = <<>> /\ script' \in Seq(PlainWrites)
  <2>1. ctrl.counter_max.set = 0
    BY <1>4 DEF RevolutionInv, ScriptInv, TakesBack
  <2>2. ScriptInv'
    BY <1>1, <1>4, <2>1 DEF ScriptInv
  <2>3. script' # <<>> /\ Head(script').reg = "counter_max" => Head(script').val.set = 0
    BY <1>4, HeadTailProperties DEF PlainWrites, Plain
  <2>4. ~(script' # <<>> /\ Head(script') = FirstWrite)
    BY <2>3 DEF FirstWrite, W
  <2>5. MaxInv'
    BY <1>1, <2>1, <2>4 DEF RevolutionInv, MaxInv
  <2>. QED BY <1>1, <1>2, <2>2, <2>5 DEF RevolutionInv
<1>. QED BY <1>3, <1>4

\* After reset the counter is 0, nothing moves and no revolution is set.
LEMMA RevolutionInit ==
    ASSUME OneStepAPulse, HostInit
    PROVE  RevolutionInv
<1>1. PICK n \in StartTicks : InitWith(n)
  BY DEF HostInit
<1>2. script # <<>> /\ Head(script) = FirstWrite /\ TakesBack(Tail(script))
  BY PlainSetup DEF HostInit
<1>3. ScriptInv
  BY <1>1, <1>2 DEF ScriptInv, InitWith
<1>4. UnitInv
  <2>1. Unit(0) /\ 0 \in 0..(MaxStep + 1)
    BY PlainWrite, RevolutionNumbers
  <2>. QED BY <1>1, <2>1 DEF UnitInv, InitWith, NoCommand, NoTrack
<1>5. AtRest /\ Quiet
  BY <1>1 DEF AtRest, Quiet, InitWith, NoCommand, NoTrack
<1>6. MaxInv /\ max_counter2 # MaxStep
  BY <1>1, <1>5, RevolutionNumbers DEF MaxInv, InitWith
<1>. QED BY <1>3, <1>4, <1>6 DEF RevolutionInv

\* Every step keeps the invariant.
LEMMA RevolutionKept ==
    ASSUME OneStepAPulse, HostInv, RevolutionInv, [HostNext]_allVars
    PROVE  RevolutionInv'
<1>1. CASE Call
  BY <1>1, PlainCalls, CallRevolution DEF Call
<1>2. CASE Transfer
  BY <1>2, TransferRevolution
<1>3. CASE ClockTick
  BY <1>3, TickRevolution
<1>4. CASE UNCHANGED allVars
  <2>1. UNCHANGED vars /\ UNCHANGED script
    BY <1>4 DEF allVars, hostVars
  <2>. QED BY <2>1, CallRevolution
<1>. QED BY <1>1, <1>2, <1>3, <1>4 DEF HostNext

\* On a revolution of any length, with modes of one step per pulse and whatever
\* is called in whatever tick, the counter never runs away past its ends: the
\* wraps, taken on equality (drv8825.vhd:839), are never missed.
THEOREM CounterStaysInRevolution == HostSpec => []CounterInRevolution
<1>1. CASE OneStepAPulse
  <2>1. HostInit => HostInv /\ RevolutionInv
    BY <1>1, HostInitOK, RevolutionInit
  <2>2. HostInv /\ RevolutionInv /\ [HostNext]_allVars => HostInv' /\ RevolutionInv'
    BY <1>1, HostNextKeeps, RevolutionKept
  <2>3. HostInv /\ RevolutionInv => CounterInRevolution
    BY DEF RevolutionInv, CounterInRevolution, OnRevolution
  <2>. QED BY <2>1, <2>2, <2>3, PTL DEF HostSpec
<1>2. CASE ~OneStepAPulse
  <2>1. HostInit => CounterInRevolution
    BY <1>2 DEF CounterInRevolution
  <2>2. CounterInRevolution /\ [HostNext]_allVars => CounterInRevolution'
    BY <1>2 DEF CounterInRevolution, OneStepAPulse, DeltaOf
  <2>. QED BY <2>1, <2>2, PTL DEF HostSpec
<1>. QED BY <1>1, <1>2

-----------------------------------------------------------------------------
(* SyncVector. *)

\* A shift keeps a chain of levels a chain of levels.
LEMMA ShiftType ==
    ASSUME NEW chain \in [SyncStages -> Level], NEW bit \in Level
    PROVE  Shift(chain, bit) \in [SyncStages -> Level]
BY DepthAssumption, SMT DEF Shift, SyncStages, Level

\* The initial levels are all equal and the vectors too.
LEMMA InitInv == SyncInit => SyncInv
<1>. SUFFICES ASSUME SyncInit PROVE SyncInv
  OBVIOUS
<1>1. InitVector \in Vector
  BY DEF InitVector, Vector, Level
<1>2. SyncTypeOK
  BY <1>1, DepthAssumption, SMT DEF SyncInit, SyncTypeOK, Level, SyncStages
<1>3. OneToggle
  BY DepthAssumption, SMT DEF SyncInit, OneToggle, SyncStages
<1>4. Settled
  BY DEF SyncInit, Settled
<1>. QED BY <1>2, <1>3, <1>4 DEF SyncInv

\* What Clock2 may read when D0 is stable is D0 itself.
LEMMA SeenWhole ==
    ASSUME SyncTypeOK, before = D0, NEW v \in Seen
    PROVE  v = D0
<1>1. v \in [Bits -> Level] /\ D0 \in [Bits -> Level]
  BY DEF Seen, Vector, SyncTypeOK
<1>2. \A b \in Bits : v[b] = D0[b]
  BY DEF Seen
<1>. QED BY <1>1, <1>2

\* When a capture takes place the toggle has passed the first stage, so D0
\* has been still since an earlier edge of Clock2.
LEMMA CaptureSafe ==
    ASSUME SyncInv, Changed_Clk2
    PROVE  before = D0 /\ D2 # T1 /\ sync2[SyncDepth] = T1
<1>1. D2 # T1
  BY DepthAssumption, SMT DEF SyncInv, OneToggle, Changed_Clk2, SyncStages
<1>2. sync2[SyncDepth] = T1
  <2>1. sync2[SyncDepth] \in Level /\ D2 \in Level /\ T1 \in Level
    BY DepthAssumption, SMT DEF SyncInv, SyncTypeOK, SyncStages
  <2>. QED BY <1>1, <2>1, SMT DEF Changed_Clk2, Level
<1>3. sync2[1] = T1
  BY <1>2, DepthAssumption, SMT DEF SyncInv, OneToggle, SyncStages
<1>. QED BY <1>1, <1>2, <1>3 DEF SyncInv, Settled

\* An edge of Clock1 keeps the invariant: T1 toggles only when the whole ring
\* has its level, and D0 moves only when its last value has been captured.
LEMMA Clock1Inv == SyncInv /\ Clock1 => SyncInv'
<1>. SUFFICES ASSUME SyncInv, Clock1 PROVE SyncInv'
  OBVIOUS
<1>. USE DepthAssumption
<1>0. /\ Input \in Vector /\ D0 \in Vector /\ before \in Vector /\ D4 \in Vector
      /\ T1 \in Level /\ D2 \in Level /\ D3 \in Level
      /\ sync1 \in [SyncStages -> Level] /\ sync2 \in [SyncStages -> Level]
  BY DEF SyncInv, SyncTypeOK
<1>1. sync1' = Shift(sync1, D2) /\ sync1' \in [SyncStages -> Level]
  BY <1>0, ShiftType DEF Clock1
<1>2. UNCHANGED <<Input, D2, D3, D4, sync2>>
  BY DEF Clock1
<1>3. ASSUME Busy PROVE SyncInv'
  <2>1. UNCHANGED <<D0, T1, before>>
    BY <1>3 DEF Clock1
  <2>2. SyncTypeOK'
    BY <1>0, <1>1, <1>2, <2>1 DEF SyncTypeOK
  <2>3. OneToggle'
    <3>1. \A i \in SyncStages : sync1'[i] = T1 => D2 = T1
      BY <1>1, SMT DEF SyncInv, OneToggle, Shift, SyncStages
    <3>2. \A i, j \in SyncStages : i < j /\ sync1'[j] = T1 => sync1'[i] = T1
      BY <1>1, SMT DEF SyncInv, OneToggle, Shift, SyncStages
    <3>. QED BY <1>2, <2>1, <3>1, <3>2 DEF SyncInv, OneToggle
  <2>4. Settled'
    BY <1>2, <2>1 DEF SyncInv, Settled
  <2>. QED BY <2>2, <2>3, <2>4 DEF SyncInv
<1>4. ASSUME ~Busy PROVE SyncInv'
  <2>1. /\ D2 = T1
        /\ \A i \in SyncStages : sync1[i] = T1 /\ sync2[i] = T1
    BY <1>4, SMT DEF Busy, SyncInv, OneToggle, SyncStages
  <2>2. \A i \in SyncStages : sync1'[i] = T1
    BY <1>1, <2>1, SMT DEF Shift, SyncStages
  <2>3. /\ D0' = Input
        /\ T1' = IF Changed_Clk1 THEN 1 - T1 ELSE T1
        /\ before' = IF Changed_Clk1 THEN D0 ELSE before
    BY <1>4 DEF Clock1
  <2>4. T1' \in Level /\ (Changed_Clk1 => T1' # T1)
    BY <1>0, <2>3, SMT DEF Level
  <2>5. SyncTypeOK'
    BY <1>0, <1>1, <1>2, <2>3, <2>4 DEF SyncTypeOK
  <2>6. OneToggle'
    BY <1>2, <2>1, <2>2, <2>3, <2>4 DEF OneToggle
  <2>7. Settled'
    <3>1. CASE Changed_Clk1
      <4>1. sync2'[1] # T1' /\ D2' # T1'
        BY <3>1, <1>2, <2>1, <2>4, SMT DEF SyncStages
      <4>. QED BY <4>1 DEF Settled
    <3>2. CASE ~Changed_Clk1
      BY <3>2, <1>2, <2>3 DEF SyncInv, Settled, Changed_Clk1
    <3>. QED BY <3>1, <3>2
  <2>. QED BY <2>5, <2>6, <2>7 DEF SyncInv
<1>. QED BY <1>3, <1>4

\* An edge of Clock2 keeps the invariant: the toggle moves on one stage, and
\* D2 sees it in the step that captures D0.
LEMMA Clock2Inv == SyncInv /\ Clock2 => SyncInv'
<1>. SUFFICES ASSUME SyncInv, Clock2 PROVE SyncInv'
  OBVIOUS
<1>. USE DepthAssumption
<1>0. /\ Input \in Vector /\ D0 \in Vector /\ before \in Vector /\ D4 \in Vector
      /\ T1 \in Level /\ D2 \in Level /\ D3 \in Level
      /\ sync1 \in [SyncStages -> Level] /\ sync2 \in [SyncStages -> Level]
  BY DEF SyncInv, SyncTypeOK
<1>1. sync2' = Shift(sync2, T1) /\ sync2' \in [SyncStages -> Level]
  BY <1>0, ShiftType DEF Clock2
<1>2. /\ D2' = sync2[SyncDepth] /\ before' = D0
      /\ D3' = IF Changed_Clk2 THEN 1 ELSE 0
      /\ UNCHANGED <<Input, D0, T1, sync1>>
  BY DEF Clock2
<1>3. D4' = IF Changed_Clk2 THEN D0 ELSE D4
  BY CaptureSafe, SeenWhole DEF Clock2, Capture, SyncInv
<1>4. SyncTypeOK'
  <2>1. D2' \in Level /\ D3' \in Level
    BY <1>0, <1>2, SMT DEF SyncStages, Level
  <2>. QED BY <1>0, <1>1, <1>2, <1>3, <2>1 DEF SyncTypeOK
<1>5. OneToggle'
  <2>1. \A i, j \in SyncStages : i < j /\ sync2'[j] = T1 => sync2'[i] = T1
    BY <1>1, SMT DEF SyncInv, OneToggle, Shift, SyncStages
  <2>2. \A i \in SyncStages : D2' = T1 => sync2'[i] = T1
    <3>. SUFFICES ASSUME D2' = T1, NEW i \in SyncStages PROVE sync2'[i] = T1
      OBVIOUS
    <3>1. sync2[SyncDepth] = T1
      BY <1>2
    <3>2. \A k \in SyncStages : sync2[k] = T1
      BY <3>1, SMT DEF SyncInv, OneToggle, SyncStages
    <3>. QED BY <1>1, <3>2, SMT DEF Shift, SyncStages
  <2>3. D2 = T1 => D2' = T1
    BY <1>2, SMT DEF SyncInv, OneToggle, SyncStages
  <2>. QED BY <1>2, <2>1, <2>2, <2>3 DEF SyncInv, OneToggle
<1>6. Settled'
  <2>1. D2' = T1 => D4' = D0
    <3>1. CASE Changed_Clk2
      BY <3>1, <1>3
    <3>2. CASE ~Changed_Clk2
      BY <3>2, <1>2, <1>3 DEF Changed_Clk2, SyncInv, Settled
    <3>. QED BY <3>1, <3>2
  <2>. QED BY <1>2, <2>1 DEF Settled
<1>. QED BY <1>4, <1>5, <1>6 DEF SyncInv

\* A change of Input and a step that changes nothing keep the invariant.
LEMMA DriveInv == SyncInv /\ (Drive \/ UNCHANGED syncVars) => SyncInv'
BY DEF SyncInv, SyncTypeOK, OneToggle, Settled, Drive, syncVars

\* SyncInv holds in every state: one toggle at a time in the ring, D0 still
\* while it is on its way, D4 equal to D0 once it has arrived.
THEOREM SyncInvariant == SyncSpec => []SyncInv
<1>1. SyncInv /\ [SyncNext]_syncVars => SyncInv'
  BY Clock1Inv, Clock2Inv, DriveInv DEF SyncNext
<1>. QED BY InitInv, <1>1, PTL DEF SyncSpec

\* No register is ever captured while its bits change, whatever the clocks.
THEOREM WholeCapture == SyncSpec => []CaptureIsWhole
<1>1. SyncInv => CaptureIsWhole
  BY CaptureSafe DEF CaptureIsWhole
<1>. QED BY SyncInvariant, <1>1, PTL

-----------------------------------------------------------------------------
(* Refinement. *)

\* An edge of Clock1 takes the value there is, or does nothing to the channel.
LEMMA Clock1Refines ==
    SyncInv /\ Clock1 => [Channel!Next]_(Channel!vars)
<1>. SUFFICES ASSUME SyncInv, Clock1 PROVE [Channel!Next]_(Channel!vars)
  OBVIOUS
<1>1. CASE Busy \/ ~Changed_Clk1
  <2>1. UNCHANGED <<Input, D0, T1, D2, D4>>
    BY <1>1 DEF Clock1, Changed_Clk1
  <2>. QED BY <2>1 DEF Channel!vars
<1>2. CASE ~Busy /\ Changed_Clk1
  <2>1. D2 = T1
    BY <1>2, DepthAssumption, SMT DEF Busy, SyncInv, OneToggle, SyncStages
  <2>2. D0' = Input /\ T1' = 1 - T1 /\ UNCHANGED <<Input, D2, D4>>
    BY <1>2 DEF Clock1
  <2>3. T1' # D2'
    BY <2>1, <2>2, SMT DEF SyncInv, SyncTypeOK, Level
  <2>4. Channel!Take
    BY <1>2, <2>1, <2>2, <2>3 DEF Channel!Take, Changed_Clk1
  <2>. QED BY <2>4 DEF Channel!Next
<1>. QED BY <1>1, <1>2

\* An edge of Clock2 delivers the value, or does nothing to the channel.
LEMMA Clock2Refines ==
    SyncInv /\ Clock2 => [Channel!Next]_(Channel!vars)
<1>. SUFFICES ASSUME SyncInv, Clock2 PROVE [Channel!Next]_(Channel!vars)
  OBVIOUS
<1>1. CASE ~Changed_Clk2
  <2>1. UNCHANGED <<Input, D0, T1, D2, D4>>
    BY <1>1 DEF Clock2, Capture, Changed_Clk2
  <2>. QED BY <2>1 DEF Channel!vars
<1>2. CASE Changed_Clk2
  <2>1. before = D0 /\ D2 # T1 /\ sync2[SyncDepth] = T1
    BY <1>2, CaptureSafe
  <2>2. D4' = D0
    BY <1>2, <2>1, SeenWhole DEF Clock2, Capture, SyncInv
  <2>3. D2' = T1 /\ UNCHANGED <<Input, D0, T1>>
    BY <2>1 DEF Clock2
  <2>4. Channel!Deliver
    BY <2>1, <2>2, <2>3 DEF Channel!Deliver
  <2>. QED BY <2>4 DEF Channel!Next
<1>. QED BY <1>1, <1>2

\* A change of Input is a write of the channel.
LEMMA DriveRefines ==
    Drive \/ UNCHANGED syncVars => [Channel!Next]_(Channel!vars)
BY DEF Drive, syncVars, Channel!Next, Channel!Write, Channel!vars

\* The handshake of flip-flops implements the one-place channel: nothing is
\* made up, torn, reordered or lost once taken.
THEOREM RefinesChannel == SyncSpec => Channel!Safety
<1>1. SyncInit => Channel!Init
  BY DEF SyncInit, Channel!Init
<1>2. SyncInv /\ [SyncNext]_syncVars => [Channel!Next]_(Channel!vars)
  BY Clock1Refines, Clock2Refines, DriveRefines DEF SyncNext
<1>. QED BY <1>1, <1>2, SyncInvariant, PTL DEF SyncSpec, Channel!Safety
=============================================================================
