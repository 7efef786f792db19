------------------------------- MODULE Mount -------------------------------
(***************************************************************************)
(* One axis under the drivers that command it: ASCOMInterface and          *)
(* SkyTrackerInterface (koheron-server/drivers), through MotorDriver.  A   *)
(* driver serves one command at a time, under its own mutex; ASCOM calls   *)
(* SkyTracker without taking SkyTracker's, so two commands may work on one *)
(* axis.  A command checks what it checks when it is called and then goes  *)
(* through its script: writes and reads of registers, each one transfer,   *)
(* with the pauses of the code in between.                                 *)
(*                                                                         *)
(* Directions, positions, targets, modes, the correction bit and backlash  *)
(* are left out; raw is what bits 31..5 of trackctrl hold.  The axis is    *)
(* that of Drv8825 seen from so far away that it has followed one write    *)
(* before the next.                                                        *)
(***************************************************************************)
EXTENDS Naturals, Sequences

CONSTANTS
    Periods,    \* periods clients ask for, within minPeriod..maxPeriod
    HighSpeed,  \* a period below it is high speed (7000)
    RampEnd     \* a ramp starts or ends about here (500*1000/20)

ASSUME MountAssumption ==
    Periods \subseteq Nat \ {0} /\ HighSpeed \in Nat /\ RampEnd \in Nat

VARIABLES
    axis, cmdcontrol, trackctrl,   \* the controller and its registers
    m_status, period,              \* of SkyTracker: cached status, slew period
    todo,                          \* of each driver: the rest of its script
    call,                          \* history: see Enter
    promised, over                 \* history: see Goes, StopReads

axisVars == <<axis, cmdcontrol, trackctrl>>
ghostVars == <<call, promised, over>>
vars == <<axisVars, m_status, period, todo, ghostVars>>

Drivers == {"ASCOM", "SkyTracker"}
Idle(d) == todo[d] = <<>>

-----------------------------------------------------------------------------
(* The axis. *)

Nothing == [go |-> FALSE, cancel |-> FALSE, now |-> FALSE]

\* Idle or tracking as the register says, unless a command runs.
Following(on) == IF on THEN "tracking" ELSE "idle"

\* A run ends on its target or by a cancel.
RunEnds ==
    /\ axis = "command" /\ axis' = Following(trackctrl.on)
    /\ UNCHANGED <<cmdcontrol, trackctrl, m_status, period, todo, ghostVars>>

\* It need not: its target may be one it never meets, and a
\* cancel that slows down may pass its points.  But an
\* immediate cancel ends it (CancelNowStops).
RunIsEnded == RunEnds /\ cmdcontrol.cancel /\ cmdcontrol.now

-----------------------------------------------------------------------------
(* Scripts: what MotorDriver does with the registers. *)

Track(on, raw) == [op |-> "track", on |-> on, raw |-> raw]
Command(c) == [op |-> "command", c |-> c]

Executing == [Nothing EXCEPT !.go = TRUE]
Cancelling(instant) == [Nothing EXCEPT !.cancel = TRUE, !.now = instant]

\* Mutants: execute left up; the cancel taken back, as in a line commented out.
set_commandHeld == <<Command(Executing)>>
cancel_commandPulse(instant) == <<Command(Cancelling(instant)), Command(Nothing)>>

set_command == <<Command(Executing), Command(Nothing)>>
cancel_command(instant) == <<Command(Cancelling(instant))>>

\* The ramps read and write the period one bit lower than enable_tracking.
RampDown(raw) ==
    IF raw > 0 /\ raw < RampEnd
    THEN [i \in 1..((RampEnd \div raw) - 2) |-> Track(TRUE, raw * (i + 1))]
    ELSE <<>>

\* Mutant: the ramp goes on to i = 0.
RampUpToZero(p) ==
    LET n == RampEnd \div p
    IN  IF p < RampEnd
        THEN [i \in 1..(n + 1) |-> Track(TRUE, p * (n + 1 - i))] ELSE <<>>

RampUp(p) ==
    LET n == RampEnd \div p
    IN  IF p < RampEnd THEN [i \in 1..n |-> Track(TRUE, p * (n + 1 - i))] ELSE <<>>

disable_tracking(instant) ==
    (IF instant THEN <<>> ELSE <<[op |-> "ramp_down"]>>) \o <<Track(FALSE, 0)>>

enable_tracking(p, instant, stop_first) ==
       (IF stop_first THEN disable_tracking(FALSE) ELSE <<>>)
    \o (IF instant THEN <<>> ELSE RampUp(p))
    \o <<Track(TRUE, 2 * p)>>

-----------------------------------------------------------------------------
(* SkyTrackerInterface. *)

InGoto == m_status.isGoto /\ m_status.isRunning
Slewing == m_status.isSlew /\ m_status.isRunning

start_raw_tracking(p, update) ==
    LET high == m_status.currentPeriod < HighSpeed
        updates == update /\ Slewing
    IN  IF InGoto THEN <<>>
        ELSE enable_tracking(p, updates /\ ~high /\ p >= HighSpeed, updates /\ high)
             \o <<[op |-> "assign", field |-> "currentPeriod", value |-> p]>>

send_raw_command == IF InGoto THEN <<>> ELSE set_command

set_motor_period_ticks(p) == IF Slewing THEN start_raw_tracking(p, TRUE) ELSE <<>>

(* ASCOMInterface.  SwpCmdStopAxis and SwpGetAxisStatus read the status first. *)

SwpCmdInitialize == disable_tracking(FALSE) \o cancel_command(FALSE)
SwpCmdStopAxis(instant) == <<[op |-> "stop", instant |-> instant]>>
SwpGetAxisStatus == <<[op |-> "status"]>>

\* Mutant: the whole status is compared with 1.
StopScriptWhole(instant) == cancel_command(instant)

\* Bit 0 is for tracking, bit 1 for a command; some other bit is always set.
StopScript(instant) ==
    (IF axis = "tracking" THEN disable_tracking(instant) ELSE <<>>)
    \o cancel_command(instant)

StatusScript ==
    LET assign(f, v) == [op |-> "assign", field |-> f, value |-> v]
    IN  << assign("isGoto", axis = "command"), assign("isSlew", axis = "tracking"),
           assign("isRunning", axis # "idle") >>

-----------------------------------------------------------------------------
(* A client calls an operation of a driver that serves none. *)

\* call says of each driver whether its call is an instant stop, and whether
\* the other driver has had no call under way since it began.
Enter(d, script, stop) ==
    /\ Idle(d)
    /\ todo' = [todo EXCEPT ![d] = script]
    /\ call' = [e \in Drivers |->
                  IF e = d
                  THEN [stop |-> stop, alone |-> \A o \in Drivers : Idle(o)]
                  ELSE [call[e] EXCEPT !.alone = FALSE]]
    /\ UNCHANGED <<axisVars, m_status, over>>

\* SwpCmdStartMotion; SkyTracker's clients name a period themselves.
Start(d, p, update) ==
    /\ d = "ASCOM" => p = period /\ ~update
    /\ \/ Enter(d, start_raw_tracking(p, update), FALSE)
       \/ Enter(d, send_raw_command, FALSE)
    /\ promised' = {}
    /\ UNCHANGED period

\* SwpSetStepPeriod, set_motor_period_ticks; and set_motor_period_usec, which
\* leaves the axis alone.
SetPeriod(d, p) ==
    /\ \/ Enter(d, set_motor_period_ticks(p), FALSE)
       \/ d = "SkyTracker" /\ Enter(d, <<>>, FALSE)
    /\ period' = p
    /\ promised' = {}

Cease(d, instant) ==
    /\ \/ d = "ASCOM" /\ Enter(d, SwpCmdInitialize, FALSE)
       \/ d = "SkyTracker" /\ Enter(d, disable_tracking(instant), FALSE)
       \/ d = "SkyTracker" /\ Enter(d, cancel_command(instant), FALSE)
    /\ promised' = promised \ {"run over"}
    /\ UNCHANGED period

Stop(d, instant) ==
    /\ d = "ASCOM" /\ Enter(d, SwpCmdStopAxis(instant), instant)
    /\ promised' = {}
    /\ UNCHANGED period

GetStatus(d) ==
    /\ d = "ASCOM" /\ Enter(d, SwpGetAxisStatus, FALSE)
    /\ UNCHANGED <<period, promised>>

-----------------------------------------------------------------------------
(* A driver goes on with its script. *)

NextIs(d, op) == ~Idle(d) /\ Head(todo[d]).op = op

\* An instant stop that nobody disturbed has been promised when it returns.
Goes(d, script) ==
    /\ todo' = [todo EXCEPT ![d] = script]
    /\ promised' = IF script = <<>> /\ call[d].stop /\ call[d].alone
                   THEN {"run over", "tracking off"} ELSE promised
    /\ UNCHANGED <<call, period>>

WriteTrack(d) ==
    /\ NextIs(d, "track")
    /\ trackctrl' = [on |-> Head(todo[d]).on, raw |-> Head(todo[d]).raw]
    /\ axis' = IF axis = "command" THEN axis ELSE Following(trackctrl'.on)
    /\ Goes(d, Tail(todo[d]))
    /\ UNCHANGED <<cmdcontrol, m_status, over>>

WriteCommand(d) ==
    /\ NextIs(d, "command")
    /\ cmdcontrol' = Head(todo[d]).c
    /\ axis' = IF cmdcontrol'.go /\ ~cmdcontrol.go THEN "command" ELSE axis
    /\ Goes(d, Tail(todo[d]))
    /\ UNCHANGED <<trackctrl, m_status, over>>

RampReads(d) ==
    /\ NextIs(d, "ramp_down")
    /\ Goes(d, RampDown(trackctrl.raw) \o Tail(todo[d]))
    /\ UNCHANGED <<axisVars, m_status, over>>

\* over: the last stop found a command over enabled tracking.
StopReads(d) ==
    /\ NextIs(d, "stop")
    /\ Goes(d, StopScript(Head(todo[d]).instant))
    /\ over' = (axis = "command" /\ trackctrl.on)
    /\ UNCHANGED <<axisVars, m_status>>

StatusReads(d) ==
    /\ NextIs(d, "status")
    /\ Goes(d, StatusScript)
    /\ UNCHANGED <<axisVars, m_status, over>>

Assign(d) ==
    /\ NextIs(d, "assign")
    /\ m_status' = [m_status EXCEPT ![Head(todo[d]).field] = Head(todo[d]).value]
    /\ Goes(d, Tail(todo[d]))
    /\ UNCHANGED <<axisVars, over>>

Step(d) == \/ WriteTrack(d) \/ WriteCommand(d) \/ RampReads(d)
           \/ StopReads(d) \/ StatusReads(d) \/ Assign(d)

-----------------------------------------------------------------------------

\* Nobody initialises m_status; 0 stands for the periods clients do not ask for.
Init ==
    /\ axis = "idle" /\ cmdcontrol = Nothing
    /\ trackctrl = [on |-> FALSE, raw |-> 0]
    /\ m_status \in [isGoto : BOOLEAN, isSlew : BOOLEAN, isRunning : BOOLEAN,
                     currentPeriod : {0} \cup Periods]
    /\ period \in Periods
    /\ todo = [d \in Drivers |-> <<>>]
    /\ call = [d \in Drivers |-> [stop |-> FALSE, alone |-> FALSE]]
    /\ promised = {} /\ over = FALSE

Call(d) ==
    \/ \E p \in Periods : SetPeriod(d, p) \/ \E u \in BOOLEAN : Start(d, p, u)
    \/ \E i \in BOOLEAN : Cease(d, i) \/ Stop(d, i)
    \/ GetStatus(d)

Next == RunEnds \/ \E d \in Drivers : Call(d) \/ Step(d)

Spec == /\ Init /\ [][Next]_vars
        /\ WF_vars(RunIsEnded) /\ \A d \in Drivers : WF_vars(Step(d))

-----------------------------------------------------------------------------
(* Properties. *)

\* The axis, the registers and the scripts fit together: a command runs or the
\* axis does what trackctrl says; execute is up only while the driver that
\* raised it is still to take it back; and what a ramp writes is never more
\* than twice as fast as the fastest period a client may ask for.
MountInv ==
    /\ axis \in {"command", Following(trackctrl.on)}
    /\ cmdcontrol.go => \E d \in Drivers : NextIs(d, "command")
                                          /\ Head(todo[d]).c = Nothing
    /\ trackctrl.on => \E p \in Periods : p <= trackctrl.raw
    /\ m_status.currentPeriod \in {0} \cup Periods

\* A set_command that no other call meets starts a run, unless one is on: the
\* execute bit was taken back after the last one.
ExecuteTakes ==
    [][\A d \in Drivers :
         WriteCommand(d) /\ call[d].alone /\ Head(todo[d]).c = Executing
         => axis' = "command"]_vars

\* After an instant stop that no other call met, and that did not find a goto
\* over enabled tracking, tracking stays off until a client starts it or sets
\* a period; a ramp of a later disable_tracking does not turn it on.
StopHolds == "tracking off" \in promised /\ ~over => ~trackctrl.on

\* A command that such a stop finds ends: the cancel stands until it is seen.
StopEndsRun ==
    ("run over" \in promised) ~> ("run over" \notin promised \/ axis # "command")
=============================================================================
