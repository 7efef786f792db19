----------------------------- MODULE SkyTracker -----------------------------
(***************************************************************************)
(* What SkyTrackerInterface keeps of each axis, and how its clients set it *)
(* and start motors with it, through three drivers: SkyTrackerInterface,   *)
(* ASCOMInterface and FocuserInterface (koheron-server/drivers).  A driver *)
(* serves one call at a time, under its own mutex; the other two call      *)
(* SkyTracker without taking SkyTracker's.  Between any two steps of a     *)
(* call, each an assignment or one transfer of SPI, another driver's may   *)
(* come.  The server may end at any moment and be started again.           *)
(*                                                                         *)
(* The axis is left to Mount: its status is any, a ramp is the write that  *)
(* ends it, and an axis that was started turns, and its counter comes by   *)
(* any of some counts, until it rests, as it may whenever it is not to     *)
(* track.  Micro-stepping modes, backlash, correction and speed ratios are *)
(* left out.  Numbers are scaled down; Booleans are 0 and 1.               *)
(***************************************************************************)
EXTENDS Integers, Sequences

CONSTANTS
    Periods,       \* periods clients name, in ticks
    Limits,        \* and limits for them
    Counts,        \* targets, numbers of cycles and positions clients name
    FirstPeriod, MinPeriod, MaxPeriod,   \* as constructed
    LongestPeriod, \* no maximum is above it (2684354 us)
    Steps,         \* steps of a revolution, as constructed
    CountEnd,      \* 0xFFFFFF
    Center,        \* 0x800000
    Uses           \* what clients use: operations, axes and drivers;
                   \* counts that the axes come by; if loads may be missed

ASSUME SkyTrackerAssumption ==
    /\ Periods \cup Limits \cup Counts \subseteq Nat
    /\ {FirstPeriod, MinPeriod, MaxPeriod, LongestPeriod, Steps} \subseteq Nat
    /\ CountEnd \in Nat \ {0} /\ Center \in 0..(CountEnd - 1) /\ Steps < 2 * CountEnd

VARIABLES
    m_params, m_status,   \* of SkyTrackerInterface: parameters, cached status
    regs, tmc_select,     \* of each axis: its registers; the axes with TMC drivers
    turns, held,          \* the axes that turn; (history) those whose counts are
                          \* what they were last set to
    up,                   \* the drivers are constructed
    todo,                 \* of each driver: the rest of its call
    answer,               \* and the call's result
    use,                  \* the operations clients use
    call, met             \* history: see Enter

motion == <<turns, held>>
hardware == <<regs, tmc_select, motion>>
vars == <<m_params, m_status, hardware, up, todo, answer, use, call, met>>

Drivers == {"SkyTracker", "ASCOM", "Focuser"}
Axes == 0..2
focuser_id == 2
Statuses == {"idle", "tracking", "command"}
Bit == 0..1

Period(slew) == IF slew = 1 THEN "slew_period" ELSE "goto_period"
Forward(slew) == IF slew = 1 THEN "slew_forward" ELSE "goto_forward"
Goal(goto) == IF goto = 1 THEN "target" ELSE "ncycles"

Idle(d) == todo[d] = <<>>

-----------------------------------------------------------------------------
(* Steps of a call. *)

Set(a, f, v) == [op |-> "set", axis |-> a, field |-> f, value |-> v]
Get(a, f) == [op |-> "get", axis |-> a, field |-> f]
Send(a, goto) == [op |-> "send", axis |-> a, goto |-> goto]
Start(a) == [op |-> "start", axis |-> a]
WriteReg(a, r, v) == [op |-> "reg", axis |-> a, reg |-> r, value |-> v]
WriteTrack(a, on, p, f) == [op |-> "track", axis |-> a, word |-> <<on, p, f>>]
WriteCommand(a, c) == [op |-> "command", axis |-> a, c |-> c]
ReadStatus(a) == [op |-> "status", axis |-> a]
ReadStop(a) == [op |-> "stop", axis |-> a]
ReadCount(a) == [op |-> "count", axis |-> a]
ReadType(a, type) == [op |-> "type", axis |-> a, type |-> type]
WriteTypes(axes) == [op |-> "types", axes |-> axes]
Uninitialised(a) == [op |-> "fresh", axis |-> a]

NoCommand == [go |-> 0, goto |-> 0, forward |-> 0, cancel |-> 0]

\* Mutant: the control word is written before the duration.
set_command_early(a, p, v, goto, f) ==
    << WriteReg(a, "cmdtick", p),
       WriteCommand(a, [go |-> 1, goto |-> goto, forward |-> f, cancel |-> 0]),
       WriteReg(a, "cmdduration", v), WriteCommand(a, NoCommand) >>

\* MotorDriver.
set_command(a, p, v, goto, f) ==
    << WriteReg(a, "cmdtick", p), WriteReg(a, "cmdduration", v),
       WriteCommand(a, [go |-> 1, goto |-> goto, forward |-> f, cancel |-> 0]),
       WriteCommand(a, NoCommand) >>

cancel_command(a) == <<WriteCommand(a, [NoCommand EXCEPT !.cancel = 1])>>
disable_tracking(a) == <<WriteTrack(a, 0, 0, 0)>>
set_current_position(a, v) == <<[op |-> "position", axis |-> a, value |-> v]>>

enable_tracking(a) ==
    <<WriteTrack(a, 1, m_params[a].slew_period, m_params[a].slew_forward)>>

set_motor_type(a, type) == <<Set(a, "is_TMC", type), ReadType(a, type)>>
get_motor_type(a) == <<ReadType(a, -1)>>
TypesWith(a, type) == IF type = 1 THEN tmc_select \cup {a} ELSE tmc_select \ {a}

\* Of ASCOMInterface and FocuserInterface, and of the constructor, which takes
\* no types from the registers that have outlived the server.
SwpCmdInitialize(a) ==
    disable_tracking(a) \o cancel_command(a)
    \o set_current_position(0, Center) \o set_current_position(1, Center)
    \o <<Set(a, "init", 1)>>

FocuserInitialize ==
    <<Uninitialised(focuser_id), Set(focuser_id, "steps", Steps)>>
    \o disable_tracking(focuser_id) \o cancel_command(focuser_id)
    \o set_current_position(focuser_id, Steps \div 2)
    \o <<Set(focuser_id, "init", 1)>>

\* Mutant: the types are only kept, as after a return left in set_motor_type.
ConstructorQuiet ==
    set_current_position(0, Center) \o set_current_position(1, Center)

Constructor ==
    set_motor_type(0, 1) \o set_motor_type(1, 1) \o set_motor_type(2, 1)
    \o set_current_position(0, Center) \o set_current_position(1, Center)

-----------------------------------------------------------------------------
(* A client calls an operation of a driver that serves none. *)

NoWant == [kind |-> "none"]
WantTrack(a, p, f) == [kind |-> "track", axis |-> a, word |-> <<1, p, f>>]
WantCommand(a, p, v, goto, f) ==
    [kind |-> "command", axis |-> a, cmdtick |-> p, cmdduration |-> v, goto |-> goto, forward |-> f]

Quiet == [want |-> NoWant, alone |-> FALSE]

\* The call works on the motor types.
Typing(script) == \E i \in DOMAIN script :
    script[i].op \in {"type", "types"}

\* call says of each driver what motion its call is to start, and whether the
\* other drivers have had no call under way since it began; met, whether two
\* calls have worked on the motor types at once since the server started.
Enter(d, op, script, want) ==
    /\ up /\ op \in use.ops /\ Idle(d)
    /\ todo' = [todo EXCEPT ![d] = script]
    /\ answer' = [answer EXCEPT ![d] = 1]
    /\ call' = [e \in Drivers |->
                  IF e = d THEN [want |-> want, alone |-> \A o \in Drivers : Idle(o)]
                  ELSE [call[e] EXCEPT !.alone = FALSE]]
    /\ met' = (met \/ (Typing(script) /\ \E e \in Drivers : Typing(todo[e])))
    /\ UNCHANGED <<m_params, m_status, hardware, up, use>>

\* What SwpCmdStartMotion or send_command, and start_tracking, would start now.
SendWant(a, goto) ==
    LET p == m_params[a]
    IN  WantCommand(a, p.goto_period, p[Goal(goto)], goto, p.goto_forward)
StartWant(a) == WantTrack(a, m_params[a].slew_period, m_params[a].slew_forward)

SetLimits(d, a) ==
    \E v \in Limits :
        \/ Enter(d, "set_min_period", <<Set(a, "min", v)>>, NoWant)
        \/ Enter(d, "set_max_period", <<Set(a, "max", v)>>, NoWant)

SetPeriod(d, a) == \E p \in Periods, s \in Bit :
    Enter(d, "set_motor_period_ticks", <<Set(a, Period(s), p)>>, NoWant)

SetDirection(d, a) == \E f \in Bit, s \in Bit :
    Enter(d, "set_motor_direction", <<Set(a, Forward(s), f)>>, NoWant)

\* ASCOMInterface sets no target below 2.
Target(d, v) == IF d = "ASCOM" /\ v < 2 THEN 2 ELSE v

SetGoal(d, a) == \E v \in Counts, g \in Bit :
    Enter(d, "set_goto_target",
          <<Set(a, Goal(g), IF g = 1 THEN Target(d, v) ELSE v)>>, NoWant)

SetType(d, a) ==
    \/ \E t \in Bit : Enter(d, "set_motor_type", set_motor_type(a, t), NoWant)
    \/ Enter(d, "get_motor_type", get_motor_type(a), NoWant)

StartMotion(d, a) ==
    \/ \E g \in Bit : Enter(d, "send_command", <<Send(a, g)>>, SendWant(a, g))
    \/ Enter(d, "start_tracking", <<Start(a)>>, StartWant(a))

StopMotion(d, a) ==
    \/ d = "SkyTracker" /\ Enter(d, "stop", disable_tracking(a), NoWant)
    \/ d = "SkyTracker" /\ Enter(d, "stop", cancel_command(a), NoWant)
    \/ d # "SkyTracker" /\ Enter(d, "stop", <<ReadStop(a)>>, NoWant)

GetStatus(a) == Enter("ASCOM", "status", <<ReadStatus(a)>>, NoWant)

Position(d, a) ==
    \/ \E v \in Counts :
         Enter(d, "set_current_position", set_current_position(a, v), NoWant)
    \/ Enter(d, "get_raw_stepcount", <<ReadCount(a)>>, NoWant)

SwpInitialize(a) == Enter("ASCOM", "Initialize", SwpCmdInitialize(a), NoWant)

\* The focuser's own: parameters and a start in one call.
FocuserMove(v, p, f, goto) ==
    Enter("Focuser", "FocuserMove",
          << Set(focuser_id, Goal(goto), v), Set(focuser_id, "goto_period", p),
             Set(focuser_id, "goto_forward", f), Send(focuser_id, goto) >>,
          WantCommand(focuser_id, p, v, goto, f))

FocuserSlewTo(p, f) ==
    Enter("Focuser", "FocuserSlewTo",
          << Set(focuser_id, "slew_period", p), Set(focuser_id, "slew_forward", f),
             Start(focuser_id) >>,
          WantTrack(focuser_id, p, f))

\* The focuser's driver knows its axis only, and sets parameters with its moves.
Calls(d, a) ==
    /\ d \in use.drivers /\ a \in use.axes
    /\ d = "Focuser" => a = focuser_id
    /\ \/ SetLimits(d, a) \/ SetType(d, a) \/ StopMotion(d, a) \/ Position(d, a)
       \/ d # "Focuser" /\ (SetPeriod(d, a) \/ SetDirection(d, a)
                            \/ SetGoal(d, a) \/ StartMotion(d, a))
       \/ d = "ASCOM" /\ (GetStatus(a) \/ SwpInitialize(a))
       \/ /\ d = "Focuser"
          /\ \/ Enter("Focuser", "Initialize", FocuserInitialize, NoWant)
             \/ \E p \in Periods, f \in Bit :
                  FocuserSlewTo(p, f) \/ \E v \in Counts, g \in Bit : FocuserMove(v, p, f, g)

-----------------------------------------------------------------------------
(* A driver goes on with its call. *)

NextIs(d, op) == ~Idle(d) /\ Head(todo[d]).op = op
Step(d) == Head(todo[d])

Goes(d, script, result) ==
    /\ todo' = [todo EXCEPT ![d] = script]
    /\ answer' = [answer EXCEPT ![d] = result]
    /\ call' = IF script = <<>> THEN [call EXCEPT ![d] = Quiet] ELSE call
    /\ UNCHANGED <<use, met>>

GoesOn(d) == Goes(d, Tail(todo[d]), answer[d])
Refuses(d) == Goes(d, <<>>, 0)

\* A setter refuses a period out of the axis's limits, as one is set below a
\* limit of its own; 2 ticks, and LongestPeriod.
Allowed(s) ==
    CASE s.field \in {"slew_period", "goto_period"} ->
            s.value \in m_params[s.axis].min..m_params[s.axis].max
      [] s.field = "target" -> s.value <= CountEnd
      [] s.field = "min" -> s.value >= 2
      [] s.field = "max" -> s.value <= LongestPeriod
      [] OTHER -> TRUE

\* A new period for slewing is handed on, if the axis was seen to track.
HandOn(s) == IF s.field = "slew_period" /\ m_status[s.axis] = "tracking"
             THEN <<[op |-> "update", axis |-> s.axis]>> ELSE <<>>

SetParameter(d) ==
    /\ NextIs(d, "set")
    /\ \/ /\ Allowed(Step(d))
          /\ m_params' = [m_params EXCEPT ![Step(d).axis][Step(d).field] = Step(d).value]
          /\ Goes(d, HandOn(Step(d)) \o Tail(todo[d]), answer[d])
       \/ ~Allowed(Step(d)) /\ Refuses(d) /\ UNCHANGED m_params
    /\ UNCHANGED <<m_status, hardware, up>>

GetParameter(d) ==
    /\ NextIs(d, "get")
    /\ Goes(d, Tail(todo[d]), m_params[Step(d).axis][Step(d).field])
    /\ UNCHANGED <<m_params, m_status, hardware, up>>

\* A motion is refused to an axis seen to run a command, however long ago.
SendCommand(d) ==
    /\ NextIs(d, "send")
    /\ LET a == Step(d).axis
           w == SendWant(a, Step(d).goto)
       IN  IF m_status[a] = "command" THEN Refuses(d)
           ELSE Goes(d, set_command(a, w.cmdtick, w.cmdduration, w.goto, w.forward)
                        \o Tail(todo[d]), answer[d])
    /\ UNCHANGED <<m_params, m_status, hardware, up>>

\* An update that is refused leaves the result of the setter.
StartTracking(d) ==
    /\ NextIs(d, "start") \/ NextIs(d, "update")
    /\ IF m_status[Step(d).axis] = "command"
       THEN IF NextIs(d, "start") THEN Refuses(d) ELSE GoesOn(d)
       ELSE Goes(d, enable_tracking(Step(d).axis) \o Tail(todo[d]), answer[d])
    /\ UNCHANGED <<m_params, m_status, hardware, up>>

StopReads(d) ==
    /\ NextIs(d, "stop")
    /\ \E status \in Statuses :
         Goes(d, (IF status = "tracking" THEN disable_tracking(Step(d).axis) ELSE <<>>)
                 \o cancel_command(Step(d).axis), 1)
    /\ UNCHANGED <<m_params, m_status, hardware, up>>

StatusReads(d) ==
    /\ NextIs(d, "status")
    /\ m_status' \in [Axes -> Statuses]
    /\ \A a \in Axes \ {Step(d).axis} : m_status'[a] = m_status[a]
    /\ GoesOn(d)
    /\ UNCHANGED <<m_params, hardware, up>>

\* FocuserInterface::Initialize does nothing to an axis that is initialised.
Freshly(d) ==
    /\ NextIs(d, "fresh")
    /\ IF m_params[Step(d).axis].init = 1 THEN Refuses(d) ELSE GoesOn(d)
    /\ UNCHANGED <<m_params, m_status, hardware, up>>

CountReads(d) ==
    /\ NextIs(d, "count")
    /\ Goes(d, Tail(todo[d]), regs[Step(d).axis].count)
    /\ UNCHANGED <<m_params, m_status, hardware, up>>

\* The last write of the constructor makes the drivers ready.
Written(d) ==
    /\ GoesOn(d)
    /\ up' = (up \/ Len(todo[d]) = 1)
    /\ UNCHANGED <<m_params, m_status>>

RegisterWritten(d) ==
    /\ NextIs(d, "reg")
    /\ regs' = [regs EXCEPT ![Step(d).axis][Step(d).reg] = Step(d).value]
    /\ Written(d) /\ UNCHANGED <<tmc_select, motion>>

\* An axis that is started turns.
Spins(a, started) == turns' = IF started = 1 THEN turns \cup {a} ELSE turns

TrackWritten(d) ==
    /\ NextIs(d, "track")
    /\ regs' = [regs EXCEPT ![Step(d).axis].trackctrl = Step(d).word]
    /\ Spins(Step(d).axis, Step(d).word[1])
    /\ Written(d) /\ UNCHANGED <<tmc_select, held>>

\* Mutant: the last count stays what it is.
WrappedNot(v) == v

\* The last count of all is taken for the first.
Wrapped(v) == IF v = CountEnd THEN 0 ELSE v

\* The counter is loaded, or misses it: the load is taken back with the next
\* transfer, and is seen only while no command runs and the step clock is low.
Loads(a, n) ==
    \/ regs' = [regs EXCEPT ![a].count = n] /\ held' = held \cup {a}
    \/ "miss" \in use.ops /\ UNCHANGED regs /\ held' = held \ {a}

PositionWritten(d) ==
    /\ NextIs(d, "position")
    /\ IF Step(d).value > CountEnd
       THEN Refuses(d) /\ UNCHANGED <<m_params, m_status, regs, held, up>>
       ELSE Loads(Step(d).axis, Wrapped(Step(d).value)) /\ Written(d)
    /\ UNCHANGED <<tmc_select, turns>>

CommandWritten(d) ==
    /\ NextIs(d, "command")
    /\ regs' = [regs EXCEPT ![Step(d).axis].cmdcontrol = Step(d).c]
    /\ Spins(Step(d).axis, Step(d).c.go)
    /\ Written(d) /\ UNCHANGED <<tmc_select, held>>

\* set_motor_type reads the types of all axes; get_motor_type also keeps what
\* it has read.
TypesRead(d) ==
    /\ NextIs(d, "type")
    /\ LET a == Step(d).axis
           is_tmc == IF a \in tmc_select THEN 1 ELSE 0
       IN  IF Step(d).type = -1
           THEN /\ m_params' = [m_params EXCEPT ![a].is_TMC = is_tmc]
                /\ Goes(d, Tail(todo[d]), is_tmc)
           ELSE /\ Goes(d, <<WriteTypes(TypesWith(a, Step(d).type))>> \o Tail(todo[d]), 1)
                /\ UNCHANGED m_params
    /\ UNCHANGED <<m_status, hardware, up>>

TypesWritten(d) ==
    /\ NextIs(d, "types")
    /\ tmc_select' = Step(d).axes
    /\ Written(d) /\ UNCHANGED <<regs, motion>>

Serve(d) ==
    \/ SetParameter(d) \/ GetParameter(d) \/ SendCommand(d) \/ StartTracking(d)
    \/ StopReads(d) \/ StatusReads(d) \/ Freshly(d) \/ CountReads(d)
    \/ RegisterWritten(d) \/ TrackWritten(d) \/ PositionWritten(d) \/ CommandWritten(d)
    \/ TypesRead(d) \/ TypesWritten(d)

-----------------------------------------------------------------------------
(* The axes, as the drivers see them. *)

AxisMoves(a) ==
    /\ a \in turns
    /\ \E n \in use.stations : regs' = [regs EXCEPT ![a].count = n]
    /\ held' = held \ {a}
    /\ UNCHANGED <<m_params, m_status, tmc_select, turns, up, todo, answer, use, call, met>>

AxisRests(a) ==
    /\ a \in turns /\ regs[a].trackctrl[1] = 0
    /\ turns' = turns \ {a}
    /\ UNCHANGED <<m_params, m_status, regs, tmc_select, held, up, todo, answer, use, call, met>>

-----------------------------------------------------------------------------
(* The server starts, and may end at any moment; the registers stay. *)

\* load_settings answers with the defaults, whatever the file holds.
Constructed ==
    [ slew_period |-> FirstPeriod, goto_period |-> FirstPeriod,
      slew_forward |-> 1, goto_forward |-> 1, target |-> 0, ncycles |-> 0,
      min |-> MinPeriod, max |-> MaxPeriod, steps |-> Steps, init |-> 0, is_TMC |-> 1 ]

ResetRegs == [ cmdtick |-> 0, cmdduration |-> 0, cmdcontrol |-> NoCommand,
               trackctrl |-> <<0, 0, 0>>, count |-> 0 ]

\* Nobody initialises m_status.
Boots ==
    /\ m_params' = [a \in Axes |-> Constructed]
    /\ m_status' \in {[a \in Axes |-> s] : s \in Statuses}
    /\ todo' = [d \in Drivers |-> IF d = "SkyTracker" THEN Constructor ELSE <<>>]
    /\ answer' = [d \in Drivers |-> 1]
    /\ call' = [d \in Drivers |-> Quiet]
    /\ up' = FALSE /\ met' = FALSE

Restart == "Restart" \in use.ops /\ Boots /\ UNCHANGED <<hardware, use>>

Init ==
    /\ m_params = [a \in Axes |-> Constructed]
    /\ m_status \in {[a \in Axes |-> s] : s \in Statuses}
    /\ regs = [a \in Axes |-> ResetRegs] /\ tmc_select = {} /\ turns = {} /\ held = {}
    /\ todo = [d \in Drivers |-> IF d = "SkyTracker" THEN Constructor ELSE <<>>]
    /\ answer = [d \in Drivers |-> 1]
    /\ call = [d \in Drivers |-> Quiet]
    /\ up = FALSE /\ met = FALSE
    /\ use \in Uses

NextDrivers ==
    \/ Restart
    \/ \E d \in Drivers : Serve(d) \/ \E a \in Axes : Calls(d, a)
    \/ \E a \in Axes : AxisMoves(a) \/ AxisRests(a)

-----------------------------------------------------------------------------
(* Properties. *)

\* What SkyTracker keeps of a motor's type is what the register says, unless
\* two calls have worked on the types at once, for set_motor_type writes back
\* the types it read of all axes; a server that starts over the registers of
\* one that ended half way through brings them together again.
MotorTypeAgrees ==
    up /\ ~met /\ (\A d \in Drivers : ~Typing(todo[d]))
    => \A a \in Axes : (m_params[a].is_TMC = 1) <=> (a \in tmc_select)

\* A motion that no other driver's call met is the one its client has asked
\* for: when the word that starts it is written, period, direction and goal
\* are in the registers, be they of this call or of those before.  (On the way
\* FocuserSlewTo may hand its period on in the direction of the last slew.)
StartsAsTold ==
    [][\A d \in Drivers :
         LET w == call[d].want
         IN  call[d].alone /\ w.kind # "none" =>
             /\ CommandWritten(d) /\ Step(d).c.go = 1 =>
                  /\ w.kind = "command" /\ w.axis = Step(d).axis
                  /\ regs'[w.axis].cmdtick = w.cmdtick
                  /\ regs'[w.axis].cmdduration = w.cmdduration
                  /\ Step(d).c.goto = w.goto /\ Step(d).c.forward = w.forward
             /\ TrackWritten(d) /\ Len(todo[d]) = 1 =>
                  w.kind = "track" /\ w.axis = Step(d).axis /\ Step(d).word = w.word]_vars
=============================================================================
