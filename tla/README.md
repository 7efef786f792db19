# SkyTracker in TLA+

TLA+ modules for the telescope mount controller of this repository: an FPGA
design that drives two stepper motors (`hdl/`), reached over SPI by a server on
a Raspberry Pi (`koheron-server/`). The modules are translated from the code,
checked by TLC on small instances, and the main results are proved by TLAPS for
all values of the constants. `PROJECT.json` maps every definition to the lines
it stands for.

## 1. The system

```
 clients --TCP/websocket--> Server: listeners, session threads, SessionManager
                              |  commands, one mutex per driver
                              v
        SkyTracker / ASCOM / Focuser --> MotorDriver --SPI--> register bank (clk_150)
                                                                | sync_Vector
                                                                v
                                             drv8825, one per axis (clk_50) --> step pins
```

| Component | State | Operations | What is hard | What makes it correct |
|---|---|---|---|---|
| Axis controller, `hdl/drv8825.vhd` | command and tracking state machines, ramp, backlash take-up, step clock, position counter | nine clocked processes | a free-running step clock that runs, cancels, take-ups, loads and wraps meet in any phase; targets and wraps compared for equality | the counter keeps up with the motor; a run ends, on its target; one run per execute bit; the ramp is one hump |
| `MotorDriver`, `drivers/motor_driver.hpp` | none of its own | scripts of register writes with pauses | a pulse or a pause shorter or longer than what the controller does meanwhile | each call has its effect once |
| Clock crossing, `hdl/SyncToClock.vhd` | toggle, shift registers and busy bit on two clocks | one process per clock | unrelated clocks, a vector sampled while it changes | a value crosses whole; the last one arrives |
| SPI slave, register bank, `hdl/spi_slave.vhd`, `top.vhd`, `sky-tracker.vhd` | shift registers, 32-bit registers | one transfer of address and data | a clock that stops between transfers; strobe, address, data, acknowledgement and answer cross separately, in a fixed number of SPI clocks | a write changes the addressed register only, to its own data; a read returns what its register holds |
| Sessions, `core/server.hpp`, `session_manager.*`, `listening_channel.cpp` | session pool, reusable ids, counters, flags | accept, create, run, delete, interrupt, shutdown | one thread per client and channel, state read outside the mutex, a shutdown racing all of them | ids are unique; a thread has its own session; the server stops |
| Session protocol, `core/session.hpp`, `serializer_deserializer.hpp`, `commands.hpp`, `scripts/server.py`, the clients `koheron-client.hpp` and `koheron.py` | buffers of one socket, the arguments as members of the driver | header, packs of arguments, the operation under the driver's mutex, reply | a stream without marks, read in any parts; arguments shared by sessions; either side may end at any byte | a call runs once, on its own arguments, gets its own result, and ends |
| WebSocket framing, `core/websocket.cpp` | the frame that is read, the reply that is written | handshake, header, length, mask, payload, send, close | partial reads and writes, lengths the sender claims, two limits of a buffer | commands whole and in order; no read beyond the buffer; the session ends |
| DriverManager, `core/drivers_manager.*`, `templates/interface_driver.cpp` | a pointer and a flag per driver, kept twice; a recursive mutex; a mutex per driver | a command, the start of its driver and of those it uses | a flag and a pointer read outside the mutex; constructors that start other drivers | a driver is constructed once, runs commands when it and all it uses are there; nobody waits for ever |
| SkyTracker, ASCOM, focuser drivers | cached status, speeds, parameters, motor types | parameter checks, composed commands, initialisation | decisions on a status cached by someone else's call; parameters and a register shared by three drivers; registers that outlive the server | what starts is what the client asked for; a stop holds; cache and register agree |
| Gateway, `libclient/ascom_server.cpp` | what the handset last said of each axis | one call, sometimes two, for a handset command | several commands in one read, or a part of one; two names for every position; an answer per command | positions read back; `J` starts what was told; the handset is answered |
| Camera, LEDs, context, vendor IP | - | I/O | - | - |

The components meet in five places: a client and its session meet on a socket; a
session thread calls a driver under that driver's mutex; `MotorDriver` writes and reads registers over SPI; each register
crosses from the bus clock to the 50 MHz clock through its own `sync_Vector`;
the axis controller reads the registers as levels on each of its clocks.

## 2. Modules

| Module | Models | Role |
|---|---|---|
| `Drv8825` | one axis controller, clock by clock | one operator per VHDL process; `Tick` is their conjunction |
| `AxisHost` | `MotorDriver` writing to it | drives `Drv8825`; holds the properties of the two together |
| `MCAxis` | inputs for TLC | used by two configurations |
| `RegisterChannel` | what a crossing promises: a one-place channel | abstract specification |
| `SyncVector` | `sync_Vector`, two clocks | refines `RegisterChannel` |
| `MCSync` | | instance |
| `HdlProofs` | | the crossing's invariant and refinement; the ranges of the controller's signals; the counter, the runs and the take-ups of controller and host together |
| `RegisterFile` | what the path to the registers promises: reads and writes, one at a time | abstract specification |
| `SpiBus` | one transfer after another: `SpiDev`, the SPI slave, seven crossings, the register bank | implements `RegisterFile` |
| `MCSpi` | | reads and writes whose addresses begin alike |
| `Sessions` | server, session manager, session threads, shutdown | one action per step between two points where another thread may run |
| `MCSessions`, `SessionsProofs` | | instance; `ManagerInv` and `OwnSession` proved |
| `Drivers` | `DriverManager`, `DriverContainer`, the mutex of each driver | one action per step of `execute` and of the nested calls of `alloc_driver` |
| `MCDrivers`, `DriversProofs` | | the drivers of `config.yml`; all safety properties proved |
| `Mount` | one axis under ASCOM and SkyTracker: the cached status, the software ramps, the registers | one action per register transfer or assignment of a driver |
| `MCMount` | | two periods, on both sides of the limit of high speed |
| `MountProofs` | | all safety properties of `Mount` proved |
| `SkyTracker` | parameters, limits, goals, positions and motor types of the axes, set through three drivers; restarts of the server | one action per assignment or transfer of a call |
| `Gateway` | the handset gateway | composed with `SkyTracker`: each of its calls is a call of the ASCOM driver |
| `MCGateway` | | eleven scenarios of who uses what |
| `GatewayProofs` | | all safety properties of `Gateway` proved, for the drivers with the gateway at them |
| `Codec` | how values, arguments, results and headers become bytes | pure operators, used by `Wire` and `WebSocket` |
| `CodecProofs` | | what was put in is read back; sequences joined and folded |
| `RemoteCalls` | what the protocol promises: calls that run once, between call and return | abstract specification |
| `Wire` | clients and sessions on a stream | implements `RemoteCalls` |
| `MCWire` | | two clients, one of them `koheron.py`; three operations |
| `WireProofs` | | `InStep`, and that `Wire` implements `RemoteCalls` |
| `WebSocket` | one session over a WebSocket | one action per read, write or decision |
| `MCWebSocket` | | frames of the three length classes, and those that no session serves |
| `WebSocketProofs` | | all safety properties of `WebSocket` proved |

### Drv8825 and AxisHost

Each clocked process of `drv8825.vhd` is an operator over unprimed (before the
edge) and primed (after the edge) signals, under its VHDL name: `issue_command`,
`accel_control`, `trigger_changes`, `backslash`, `clock_generatory`,
`registered_output`, `loadcounter`, ... The step counter is clocked by
`counter_clk`, itself a register of `clk_50`, and so reads values of the same
edge: it uses primed signals. Integers have the width of the code, `Modulus`
(2^30) being a constant.

`AxisHost` has three actions: `Call` picks a method of `MotorDriver` and turns
it into its script of register writes; `Transfer` does the next write;
`ClockTick` is one clock of the controller. Two writes are `SpiGap` ticks apart
and the pause of 1 ms in `set_command` is one of `HoldTicks`: shorter and longer
than a run. A method may be called in any tick between two scripts.

The rest are history variables, and those on motion look at the pins of the
motor alone, as the motor does. A rising edge of the step pin (`PinRises`) moves the motor by
the micro-step of the mode pins in the direction of the direction pin
(`MotorMoves`); it moves the load too, unless it falls into the play of the gears,
of which a turn leaves as many pulses as `set_backlash` was told (`play`). A take-up whose run ends
or turns within it goes on while the motor stands or runs back (`drv8825.vhd:354`), so that nobody can tell
where in the play the load is: until it is over the load is left out (`TakeUpLeft`). `spare`
counts the events that may cost a pulse, less the ticks in which the counter does something else than
the load, and never more than two of them. Those events are the start of a run, a turn and a position load; each
of them may cost one. The step clock runs on while the axis is idle; if it is
high when a run begins, the step pin rises with no edge of `counter_clk` to go with it
(`drv8825.vhd:833-838`): the motor makes a step that is not counted. `CounterKeepsUp`
says that this is all that is lost; `PulsesCount` that in between, from two
ticks after the last such event (`steady`; a change of the mode and a wrap of the counter are
waited for too), each pulse is counted for what it is. `executes` and
`runs` count rising execute bits and runs; `goal` is where a run that has ended
on its target may rest.

Left out: enable, sleep and reset pins, the packing of
`ctrl_status` (nothing in the controller reads them back), and the ramps
in software of `enable_tracking` and `disable_tracking`, which are one write
each 50 ms. Held still where no one looks: `acceleration_counter`
once the ramp is done. The correction of `PEC` is an input.

Facts of the code worth knowing when reading the model, all of them kept:

- a command written while another runs is dropped; the execute bit counts only
  when the axis is idle or tracking;
- 0 and 1, and the two names of the last count, are folded: some targets are
  never shown by the counter in the direction of the run (`Reachable` says
  which are met). A park forward to 0 never ends;
- in modes that count more than one per pulse the counter may step over a
  target: `Reachable` excludes them;
- a goto to the count that the axis is on lasts two ticks, within which the step clock may rise: the
  axis then rests one step further, which `Rests` allows (section 5);
- a position is loaded at rest or in tracking, in the low half of the step clock, or not at all
  (section 5);
- a park cannot be cancelled; the "instant" bit alone does nothing;
- `set_command` clears the control register after its pause, and so also a
  cancel another session wrote in between;
- `disable_tracking` and the software ramps shift the period as an older layout
  of the register did.

### SyncVector and RegisterChannel

`Clock1` and `Clock2` are the two clocked processes, in any order. A flip-flop
that samples a signal of the other clock while it changes takes either value;
a bit of the vector that changes is read as any value, per bit.
`RegisterChannel` holds a value on its way and the last one delivered: `Take`
is allowed when the channel is empty and takes the present value, `Deliver`
hands it over whole. `SyncVector` implements it with the value of the
handshake under way as the value in the channel.

### SpiBus and RegisterFile

Two clocks: `Tick` is one tick of `clock_150` (the bank and the sampling of the
chip select), `Edge` one edge of the SPI clock (the slave). The slave samples the
SPI clock with `clock_150`, so that an edge follows the tick that saw it; edges
come every `Period / Unit` ticks, which need not be a whole number, beginning
at any phase, and stop when the 48 bits of a transfer are through. Time is
kept since the number of ticks that an edge leaves to the crossings is what the design
rests on.

A crossing is the record of the registers of one `sync_Vector` of depth 2, the input
of one clock and the output of the other. That a capture is whole is not
shown again: it is `CaptureIsWhole` of `SyncVector`. What may still differ is when a
toggle is seen: the crossings in `late` are seen one tick later than they are sent,
as with a longer route.

The slave is `spi_slave.vhd` with its bit count. Data bits are not
shifted one by one: a word is whole when the count says so. The address is, because its
halves are seen by the bank before it is complete. `out` is the shift register
of the answer, which is loaded at each edge until the holdoff is over. `Select` and `Release` are
the ioctl of `SpiDev::transfer`; its mutex makes transfers follow one another.
`RegisterFile` has one request at a time; `landed` is a history variable saying
that the bank has taken the write, which is when the request is done.

### Sessions

One process per client (its thread, socket and session), one per listening
channel, and the main thread. Each action is the code between two points at
which another thread may observe or change something: taking the mutex, the
statements inside it one by one (the pool, the count, the stack of ids are also
read without the lock), the flags, the blocking calls. Reads that race with a
writer are the outcomes they can have: `LookUpFails`, `ListingFails` and
`SignallingFails` are a read of a map that changes under the reader, which gives what it
can give, ends the process or faults; `RunsFreed` is a thread going on in a session that the
main thread has deleted. A fault does not end the process: `crash_signal_handler`
(`signal_handler.cpp:101`) sets `s_interrupted`, from which the main thread begins
the shutdown, and returns, so that the thread repeats the access that faulted for ever
(`Faults`; the handler is "called several times (WHY ?)", says line 105). If it is
the main thread that faults (`MainFaults`), nobody shuts anything down any more.
A listener waits in `accept` until a connection comes (`Accept`), and may wait for ever: the
only end of the wait that the server can count on is `::shutdown` of the listening socket
(`AcceptWoken`). That `accept` fails for another reason is allowed at any time (`AcceptLost`) and
never required.
What a session reads and answers is `Wire`; the backlog of the listening socket
is not modelled; a descriptor has the name of its client.

### Drivers

What a session thread does between the command it read and the driver's reply:
the test of `is_started`, the start, the fetch of the pointer, the driver's
mutex. `stack` is the call stack of the one thread inside `alloc_driver`: a frame
per nested call, with the driver, how far its start has come, and the drivers
its constructor has not yet asked for (`ctx.get<...>()`, in the order of the
member initialisers). The recursive mutex is `owner`; it is free when the last
frame is gone.

`is_started` and `device_list` are read outside the mutex. `seen[s]` is what the
thread has already synchronised with, by holding the mutex after the driver was
made or by using it; every other read is a data race and gives the old or the
new value (`Raced`). A thread that sees the flag and then an old pointer
dereferences null, which ends the process (`CallNull`): the properties are about
what comes before. `is_started` of the container is not kept, and its tests are
left out: the proof of `NeverCircular` shows, for any drivers, that they never
succeed. `Common` is started by the constructor of `Server`, before any thread.

### Mount

Two drivers, each serving one command at a time, since a command holds the mutex
of its driver only; ASCOM calls SkyTracker's methods directly. A command
becomes a script (`todo`) under the name of the method that writes it: transfers
of `trackctrl` and `cmdcontrol`, assignments of `m_status`. What a method reads
from the axis is an entry of the script and is read in its turn; what it tests
in memory (`m_status`, `period`) is read when it is called. The axis is the
controller of `Drv8825` reduced to what it is doing: idle, tracking, or running a
command, which may end at any moment and, as `AxisHost` shows, surely does
after an immediate cancel. `m_status` begins with any values, since
nobody initialises it.

The code's ramps read and write the period one bit lower than `enable_tracking`
does, and so run at up to twice the speed asked for; line 560 of
`sky-tracker.hpp` tests one flag twice, so that going from high to low speed is
treated as staying at high speed. Both are kept. Two things that a stop is taken
to promise are histories in `promised`: a command is over, tracking is off. They
are promised when an instant stop returns that no call of the other driver met,
and withdrawn by calls that start something or replace the cancel.

### SkyTracker and Gateway

`SkyTracker` is about the state `Mount` leaves out: what `SkyTrackerInterface` keeps
of each axis, and who changes it. A call is a script (`todo`) of one driver, of
assignments that may be refused (`Allowed`), reads and register transfers; the
three drivers interleave at each of them, since ASCOM and the focuser call
SkyTracker without its mutex. `TypesRead` and `TypesWritten` are the two halves of
`set_motor_type` on the register all axes share. `Restart` ends the server
anywhere: parameters are those of the constructor again, the registers stay,
and the drivers are used once the constructor's last write is done. The status
of an axis is any value; what it does is `Mount`'s, except that an axis that was
started turns until it rests (`turns`, `AxisRests`), which it may do at any time when it is not to
track, and that its counter comes by
some counts meanwhile (`AxisMoves`, the `stations` of a scenario). A load of the counter is
taken or, in scenarios with `miss`, may not be (`Loads`); `held` are the axes whose counter is still what
it was last set to. The operations are called for the axes that there are: `check_axis_id`
compares an `int8_t` (`ascom_interface.hpp:259`), so that axes from 128 on pass and
index the arrays outside their bounds. Left out: micro-stepping,
speed ratios, the settings of backlash and PEC, the temperature sensor, the
polar LED.

`Gateway` adds a handset that sends one command, waits, and may send again, and
the gateway that obeys the first command of whatever one read returns. `told`
and `placed` are histories of what commands that were answered with success have
said. Two things of `ascom_server.cpp` are left out since what they do
is undefined. `f` reads the result of `SwpGetAxisStatus` as `std::array<bool, 8>` (line 223), which is not what the
operation returns (ten of them): `recv` asserts at compile time that the types agree (`koheron-client.hpp:799`), and the
executable is commented out in `libclient/CMakeLists.txt:46`. The model answers `f`. And a read that is
cut just before the digit of the axis gives axis 207 (line 208), beyond `isForward` and `isSlew`
(line 358): `ReadCut` cuts after the colon or within the data. In `ascom_server.cpp` the flag named for an increment is set by the command
that names a target; `StartKind` is as the code has it, which is right.

### Codec, Wire and RemoteCalls

A value is a sequence of bytes, a byte a number below `Radix`: 256 in the code, 2
in the run of `Wire` and 16 in that of `WebSocket`, any number from 2 on in the proofs. Scalars are sent with the highest
byte first; elements of arrays and vectors are copied from memory, lowest first.

`Wire` has one client and one session per `c`. A socket is the sequence of bytes on
its way; a read takes any prefix up to what is wanted. The session's steps are
those of `read_command`, `execute` and the generated code: header, the driver's
mutex, arguments pack by pack *into members of the driver*, the operation, the
reply, the release. The client's are `recv_all` and the deserialisers. A client
may end having sent a part of its command; the server may end and the last bytes
of its replies get lost; `recv_nothing` is the code going on with what the memory
holds, because `rcv_n_bytes` gives 0 at the end of the stream and only negative
numbers are errors. Left out are reads that fail otherwise (`session.cpp:58`, which ends the session) and a
length of a vector, taken from such memory, for which `resize` finds no room
(`session.hpp:200`).

`RemoteCalls` is the promise: per client a queue of calls, `Run` at one moment on
the client's arguments, `Return` of that result. The part of a command that a
client which left did send may run with arguments of chance (`RunPart`).
`requests`, `answers` and `result` are the refinement mapping, kept as history
variables; `InStep` says what they have to do with the bytes.

What drivers and clients are typed to pass and return is `Typed`: a vector has no more
bytes than its length field of 32 bits can tell (a longer one would be announced wrongly), a result of several values is a tuple of scalars, and
what a driver does maps objects to objects (`TypesAssumption`). The members that arguments are
read into may hold any values of their types, `AnyValues`, and stay such when
one pack of them is overwritten (`With`).

### WebSocket

Each action is one read of `read_n_bytes`, one write of `send_request`, or the
decision taken when a read is complete. `read_str` is the buffer of the frame;
`header` is what is known of it. Frames that are refused, that are too short for
a command or close the connection end the session as in the code, which sends a
closing frame only on the server's exit. The three lengths of a frame's header,
its mask and both limits (`WEBSOCK_READ_STR_LEN - Margin`, and the smaller
`KOHERON_READ_STR_LEN` at which a buffer is taken for full) are kept as
constants. `ConnectionClosed` ends the session at once when the browser has left. The code takes a few more
turns to get there: within a header it goes on to read a payload of the size of the frame before, which is not initialised
for the first one (`websocket.cpp:233`), gets the end of the stream again, and returns; a
`read` that fails makes `read_n_bytes` try again (lines 341-371) until the peer is seen to be gone. Lengths and commands are the bytes that `Codec` makes of them. Of the
exclusive or only what the code relies on is assumed: a byte combined twice with the
same byte is itself again (`Xored`; in the run it is that of the bits). The margin
must hold the longest header, 14 bytes, as the code's 56 do. A frame of no command is one that no
session serves (`Odd`): bytes that happen to name an operation would be a command.

## 3. Properties and runs

| Run | Instance | Shows |
|---|---|---|
| `axis_plain` | revolution of 6, any 2 calls: goto both ways, increment, decrement, park, tracking, position load, instant cancel | `CounterKeepsUp`, `CounterInRevolution`, `RestsOnTarget`, `OneRunPerExecute`, `RunEnds` |
| `axis_ramp` | 2 speed stages, revolution of 20, a goto down with a ramp and a short increment, 3 modes, backlash on and off, 2 calls | `TypeOK`, `CounterKeepsUp`, `TakeUpWithinDuration`, `PulsesCount`, `OneHump`, `CancelNowStops`, `TakeUpEnds` |
| `sync_vector` | 2 bits, depth 3 | `SyncInv`, `CaptureIsWhole`, `ImplementsChannel` |
| `spi` | 25 MHz (6 ticks an edge), reads of 3 registers, writes of 2, one crossing late or none | `ImplementsRegisterFile` |
| `sessions` | 2 clients, 2 channels, interrupt at any moment | `ManagerInv`, `OwnSession`, `DepartedForgotten`, `ShutdownEnds` |
| `drivers` | 2 sessions, the drivers of `config.yml` without the camera | `DriversInv`, `ConstructedOnce`, `ReadyWhenUsed`, `CommandArrives` |
| `mount` | 2 drivers, 2 periods, any calls, any initial status | `MountInv`, `StopHolds`, `ExecuteTakes`, `StopEndsRun` |
| `wire` | 2 clients, 3 operations with scalars, vectors and results of both; both sides may end | `InStep`, `KeepsPromise`, `CallEnds` |
| `websocket` | 2 frames of 9 kinds in any parts, a client that leaves, a server that exits | `InOrder`, `InBuffer`, `RepliesWhole`, `CommandsRun`, `SessionOver` |
| `gateway` | 11 scenarios: a handset, with axes that move and loads that are missed, a handset on a bad line, clients of two drivers, restarts | `MotorTypeAgrees`, `ReadsBack`, `StartsAsTold`, `Answered` |
| `leftover` (violated) | client admitted during `delete_all` | `NoSessionsLeft` |
| `spi_fast` (violated) | 31.2 MHz (`Period / Unit` = 125/26), no crossing late | `ReadReturnsRegister` |

The violated runs state what an assertion or a comment in the code says, and TLC
shows what the code does instead; `findings` in `PROJECT.json` gives the lines.

**Bounds.** The axis: two calls are enough for each pair of operations
to overlap (a cancel or load during a run, a turn during tracking, a run after a
run), in any tick. The revolution is small but larger than the places
where targets, wraps and deceleration points fold (0, 1, max, max+1), so that all
foldings occur; `HoldTicks` ends both before and after a run of that size.
`SpiGap` is 8 clocks (thousands in the code), which is more than the clocks
a load of the counter takes and less than a step: the host cannot write faster
than the controller sees, but it can take a load back within one half of the step clock.
`StartTicks = {24}` puts `set_max_step` into
the low half of the step clock, where it is seen (section 5 has the other
half). In the axis runs `Modulus` is small, yet larger than any count and any
period in them.
The sessions: safety is proved for any number of clients, so two clients serve
only to let TLC show liveness, where a second client is what can disturb
a first one. The drivers: likewise any number of sessions and drivers in the
proofs; the instance has a driver used by two others and a chain of three, the
shapes there are. The crossing: two bits are the least that can mix.
The register path: 25 MHz is the clock of the constraints file. The bank sees an
address twice, as half of it and whole; registers 3 and 6 are each other's half, 34
is a status register with half of it in the control bank, and a write of 6 after a read or
write of another register finds strobe, data and direction of before on their way.
The number of transfers is not bounded. `MCLates` has each crossing late but the
data's (section 5). In between, the same properties hold, without
late crossings, at 27.8, 28.6 and 30 MHz; `spi_fast` is the speed the software asks for.
The mount: a fast and a slow period give each of the speed changes of
`start_raw_tracking`, and `RampEnd = 12` ramps of up to six writes, a ramp of
one and none; the number of calls is not bounded.
The wire: with `Radix = 2` a number of two bytes has four values, which is enough to
tell swapped bytes, shifted reads and signs apart; a client makes at most two calls
(`MaxCalls`), so that one may follow on the same stream, and reads end where the
socket is empty, where enough is there, or at `Cuts`: after the first byte and
after the first byte of a payload. The WebSocket: two frames, since a frame
must not disturb the next; its limits are scaled so that there are
payloads of each length class, above the limits, and a command whose frame fills the buffer to exactly the
smaller one. The gateway: scenarios instead of all operations at once, each of them
of operations that work on the same state; within a scenario calls
are unbounded, and only cut reads (`MaxCuts`) and commands on the way
(`MaxWaiting`: the one asked and its repetition) are bounded. With
the 9,216,000 steps that the constructor sets, the handset's positions are above the
counter's (`Offset` is positive), and none that it can name is at the last count. `Steps = 20` is for gears, as a client may
set them with `set_steps_per_rotation`, with which `Offset` is negative and 13 is the last count of all, which the code
makes the first; the proof of `ReadsBack` is for any `Steps`. An axis that moves is seen at one count (`stations`), at which none is
placed: enough to tell a held position from one that was left.

**Fairness.** `WF` of the clocks: oscillators tick. `WF` of `Transfer`: a
method that was entered goes on. `WF` of each thread of the server: the scheduler
of the system runs every runnable thread, and the main thread looks every 50 ms whether a
fault has set its flag. A listener is run where it does not wait: its fairness (`ListenerRuns`) covers neither
`Accept` nor `AcceptLost`, so that `ShutdownEnds` rests on the shutdown of the sockets. There is none for the clients
leaving, the calls, the interrupt, or a crash. (`DepartedForgotten` and `ShutdownEnds`
except a main thread that has faulted.) In `mount`, a driver goes on with its script, and a run
ends under an immediate cancel only, which is what `CancelNowStops` shows of the
controller. `sessions` checks no
deadlock, as a process that has exited does nothing; nor does `drivers`, where a
null pointer may end it. In `wire`, sessions and clients go on and sockets deliver
(`WF` of each), but nobody need call or end; `wire` and `websocket` check no deadlock, as all
may have left. In `gateway`, a handset that got no answer because the
command was lost sends it again (`LostAgain`): nothing else in the code
would bring it back.

## 4. Proofs

| Theorem | Statement | Argument |
|---|---|---|
| `SignalsInRange` | `Drv8825!Spec => []TypeOK` | `AxisInv == TypeOK /\ RampInv` is inductive. `TypeOK` alone is not: the stage number is decremented while the ramp is not done, and stays in its range only because a ramp that is not done has a stage left (`RampInv`: `done_acceleration = 0 => divider >= 1`). One lemma per process gives the types after an edge |
| `SyncInvariant` | `SyncVector!SyncSpec => []SyncInv` | the toggle and its copies form a ring with at most one change under way; the busy bit covers the whole way, so the vector has settled when it is read |
| `WholeCapture` | `SyncSpec => []CaptureIsWhole` | from `SyncInv` |
| `RefinesChannel` | `SyncSpec => Channel!Safety` | each clock step is a `Take`, a `Deliver` or a stutter, under `SyncInv` |
| `IdsInOrder` | `Sessions!Spec => []ManagerInv` | `ManagerInv == TypeOK /\ MutexOK /\ AdmitOK /\ PoolInv`. The pool of ids is right only together with who is between which two statements: an id being inserted or returned is in neither set, and the count lags by one while a thread is at `counting` |
| `OwnSessionAlways` | `Sessions!Spec => []OwnSession` | from `ManagerInv`: ids in hand differ from those allocated, so an erase hits only its own |
| `DriversInOrder` | `Drivers!Spec => []DriversInv` | `DriversInv` relates the stack to the flags: ranks fall along the stack, so a driver is in one frame at most; each frame but the last waits for the next, which makes the driver at the head of its list; what a constructor uses and does not wait for is started; a flag or pointer is set exactly as far as the frame of its driver has come. The bottom frame is the owner's command, without which leaving it would not show that the driver is there |
| `DriversConstructedOnce`, `DriversReadyWhenUsed`, `DriversNeverCircular` | the properties of `drivers`, and `NeverCircular` | from `DriversInv`; the last because a second frame of the driver would have to be below itself |
| `ScalarReadsBack`, `ElementReadsBack` | `extract(T, append(T, x)) = x` in `SizeOf[T]` bytes, for each type of the interface and each value it has; the same through memory | a number of 2, 4 or 8 bytes is two of half its size: `Nested` makes a remainder by `d * d` of two by `d`, and `Halves` gets the halves back from what they were joined to. With a sign: `Wrapped`. For any radix: the lemmas use only that it is 2 or more |
| `MountInOrder` | `Mount!Spec => []MountInv` | The inductive `Inv` adds to it what the two drivers still have to do: a written execute bit is followed by its take-back in the script that wrote it (`TakenBack`); every word of a ramp, of any length, is on just when it has a period (`Paced`, `RampsPaced`: each step of a ramp is a multiple, and the last one the period asked for) |
| `StopHoldsAlways` | `Mount!Spec => []StopHolds` | what is promised is kept because a promise is made by a call that no other has met: such a call is the only one with a script (`Alone`), its script has one of the shapes of a stop (`StopUnderWay`), and while a promise stands every script is quiet (`Promise`) |
| `ExecuteAlwaysTakes` | `Mount!Spec => ExecuteTakes` | from `Inv`, with `TakenBack` |
| `HostSignalsInRange` | `AxisHost!HostSpec => []TypeOK` | a step of the host is a step of `Drv8825!Spec`, whose invariant then holds |
| `PulsesAlwaysCount` | `HostSpec => PulsesCount` | the pins are not the counter's clock: they are other registers, held low while the axis is idle, and the direction pin is two registers behind the direction. `SteadyInv` says what the two have in common one tick, and two, after the last change (`SteadyTick`, `TickSteady`), and `SteadyCounts` that a pulse then is an edge of `counter_clk` and counted for what it is. `CounterKeepsUp`, which bounds what the changes themselves cost, is model-checked |
| `OneRunAlways` | `HostSpec => []OneRunPerExecute` | an edge of the execute bit is spent by the run it begins: runs, plus edges still on their way through the sampling registers, are never more than executes (`RunsInv`) |
| `TakeUpAlwaysWithin` | `HostSpec => []TakeUpWithinDuration` | from `HostInv`; the duration it began with is kept in its own register, whatever the host writes meanwhile |
| `CounterStaysInRevolution` | `HostSpec => []CounterInRevolution` | `OnRevolution`: while the count is one past an end, the clock of the counter is high, since it goes low only after a tick that has looked for the wrap; whatever the period. That the count is on the revolution when that is set follows from the host's script: nothing is asked of the axis before (`ScriptInv`, `Quiet`), so it is at rest (`AtRest`), with at most the first wrap of the counter that is not set yet behind it. Hypothesis in the property itself: `OneStepAPulse` (modes that count 1 per pulse, positions on the revolution) |
| `TypesAlwaysAgree` | `Gateway!GatewaySpec => []MotorTypeAgrees` | `TypesInv` says at each step of a call on the types what cache and register have in common: all axes agree before it, all but its own on its way (`SetsType`, `GetsType`), no two calls on the way unless they have met; and at each of the ten steps of a constructor that runs over registers of any content, for which axes the register has been set (`AtStep`, `AtTypes`). Every other script of drivers and gateway is `Plain`: it leaves both alone |
| `StartsAlwaysAsTold` | `HandsetAlone` implies `Gateway!GatewaySpec => StartsAsTold` | `WantsInv`: as long as no other call has met a motion, what is left of its script names the period, direction, target and mode asked for, and the registers hold those whose steps are done (`AsWanted`). `HandInv` carries this over to the handset: it says for each thing the gateway may be doing (`Harmless` to `CallOver`, the phases of `Doing`) what is kept of each axis in `m_params` and in the gateway's variables (`Kept`, `CountKept`), and what the command under way has changed of it so far |
| `AlwaysReadsBack` | `HandsetAlone` implies `GatewaySpec => []ReadsBack` | from the same `GatewayInv == TypesInv /\ LinkOK /\ WantsInv /\ HandInv /\ use \in Uses`: the count that is answered is where the position was placed, as long as the counter holds it (`CountKept`, `Replied`; an axis that moves leaves `held`, and nothing enters it but a load that was taken), and the offset that is added is the one that was taken off (`ShownAsPlaced`, with remainders of words of 24 and 32 bits) |
| `HeaderReadsBack` | `ClassOf` and `FuncOf` of `command_header(c, f) \o payload` are `c` and `f` | from `Number16` and where a sequence lies within a longer one (`Within`) |
| `ElementsReadBack`, `ScalarsReadBack` | any number of elements, or of scalars of any types, are read back from the bytes sent for them | from the theorems on one value and lemmas on `FlattenSeq` and `FoldLeft`: they join what a list has block by block (`FlattenConcat`, `FlattenSplit`), each in its place |
| `AlwaysInv` | `Wire!Spec => []Inv` | `Inv == TypeOK /\ Placed /\ Apart` is what makes `InStep` inductive. `SessionAt` says where a session is: what it has with what comes is `Rest`, what is left of the requests' bytes from there, or the beginning of it if the client is gone. `ClientAt` says the same of a client and its reply: its request is not run, or the rest of the answer comes, or a part of it from a server that has ended. `HasRead` says that the members read so far are the request's, and `Apart` that no other session may write them meanwhile, for they are shared: the mutex is all that keeps them |
| `AlwaysInStep` | `Spec => []InStep` | `Rest` is what `InStep` says, for each place a session may be at |
| `PromiseKept` | `Spec => KeepsPromise` | the step that runs an operation is the only one that shows between call and return: all arguments have been read (`HasRead`, `BeforeAll`), so it is `Run`, or `RunPart` on the part that a client which left has sent; what a client makes of the reply is its answer, since its bytes are (`ReplyRest`) and are read back. Every other step is a `Call`, `Return`, `Leave`, `Drop` or `Stop`, or does not show |
| `FramesInOrder` | `WebSocket!Spec => []Inv` | `Inv` is what makes the three properties inductive. `OrderInv`: what the session holds of a frame and what is on its way are (`Stream`) the frames of the commands that it has not taken, the last of them perhaps cut by a browser that left. `HeaderInv`: how many bytes it holds and wants at each place of a header of 6, 8 or 14 bytes, and that it went on only with a payload that fits. `ReplyInv`: what has been written and what remains to be written are together the replies, and the closing frame after them. A session knows a frame by its header alone: two strings that go on to the same have the same header if they reach as far as that (`SameHeader`), so that what it takes is the first frame (`FirstFrame`), whose mask is undone by position (`MaskTwice`, `FrameReadsBack`) and whose arguments are read one after the other (`ArgReadsBack`, `ArgsReadBack`) |
| `ReadsStayInBuffer` | `Spec => []InBuffer` | from `HeaderInv`: header and payload together are at most the margin less than the buffer, and 14 more |
| `CommandsRunInOrder` | `Spec => []InOrder` | from `OrderInv`: the frame that is whole is the next command's, and reads back as it (`RequestReadsBack`) |
| `RepliesComeWhole` | `Spec => []RepliesWhole` | from `ReplyInv` |

Assumptions are the named `ASSUME`s on the constants (widths, non-empty ramp,
inputs within the registers, sets of clients finite, drivers without a circle, numbers clients
send, the types that operations are called with, the frames a browser sends, the letters a
handset has), evaluated by TLC in the
runs of the modules that declare them. The numbers of a handset are at most `CountEnd`: it sends six
hexadecimal digits at most, in capitals (`Revu24str2long`). Small letters, and what is read for the missing digits of
a command that was cut, may be numbers of more than 24 bits; these are left out. Two theorems have a hypothesis of their own,
`HandsetAlone`: where a handset is in use, no other client calls and nobody restarts the server.
The code does not make it so, and without it both properties fail: another client
may set the same parameters between two commands, and the handset cannot know. It is what the scenarios of
`MCGateway` are like (TLC evaluates it there); for clients without a handset it says nothing,
and there the theorem on `StartsAsTold` is about any uses, with restarts.
`Drv8825!Spec` leaves the host free to
write any value at any time `SpiGap` apart; the theorems of `HdlProofs` on the axis after `SignalsInRange` are
about `HostSpec`, where it writes what `MotorDriver` does.

Model-checked only:

- `CounterKeepsUp`: what a start, a turn or a load costs depends on the phase of the step clock when it happens;
- everything under fairness (`RunEnds`, `CancelNowStops`,
  `TakeUpEnds`, `DepartedForgotten`, `ShutdownEnds`,
  `CommandArrives`, `StopEndsRun`, `CallEnds`, `CommandsRun`, `SessionOver`, `Answered`,
  and the liveness part of the refinement of the channel): liveness is out of the
  prover's reach;
- `RestsOnTarget` and `OneHump`: they hold because a step takes
  more clocks than the computations between two steps, so that an invariant would have to
  follow the phase of the step clock through all pipelines, for any period;
- the refinement of `RegisterFile` by `SpiBus`, which
  rests on counting ticks.

Proofs by induction. The provers do not take the library's induction theorems, whose parameter is a
predicate. `CodecProofs` has induction all the same, over a *set* of numbers: one that is not empty
has a least number (`LeastNumber`, from the theorem that `<` is well-founded), so a set with 0 and with
the successors of what it has, up to n, has all up to n (`UpTo`); that there is a function
for what is defined step by step (`Recursion`) and for a fold over sets of numbers (`Folding`)
follows. `FlattenSeq` and `FoldLeft` of the community modules are then what they are meant to be, for
sequences of any length, and the proofs about lists of arguments are about any lists.

The inductive invariants of `Wire` and `WebSocket` were evaluated by TLC on the instances of `wire` and
`websocket` before they were proved, and hold there in each state.

## 5. Known divergences without a run

Found while modelling, kept in the models, and not stated as runs:

- `README.md:43` says of a position to load that the "count is updated on the rising edge of bit 31". The bit is
  looked at only while no command or park runs and the step clock is low (`drv8825.vhd:846`), and
  `motor_driver.hpp:179` takes it back with the next transfer: in the high half of a slow clock, or in a run, the load is
  missed. The clock runs on at the last speed while the axis is idle, and after reset at 147,483,647 ticks a
  period, whose high half is about 1.5 s. `set_max_step` (`README.md:44`) is looked at in the same place and may be missed
  like it.
- `README.md:31` says of a goto that the "motor will spin until that counter reaches the value". A goto
  to the count that the axis is on, while the step clock is low, is over after two ticks (`drv8825.vhd:621`); if
  the clock rises within them, the edge is counted, and the axis rests one step past its target. `RestsOnTarget`
  allows that step, for such a goto only. Where the axis turns for it, to go down from the last count, the step takes it
  off a count that it never shows in that direction, and the run does not end by itself: `Reachable`, of `RunEnds` and
  `OneHump`, is about the counts that a direction does show.
- The take-up of backlash counts clocks, whether the motor moves or not (`drv8825.vhd:354`). One whose run ends within it, by
  its target or a cancel, ends on a motor that stands, and the next run in that direction has no take-up; a turn within it
  has none of its own, and its pulses are not counted. `CounterKeepsUp` leaves these take-ups out.
- A wrap of the counter while tracking
  drops or adds a step (`drv8825.vhd:839`, `:842`); a cancel that slows
  down may pass its point and run on (`drv8825.vhd:595`, `README.md:37`); a
  decrement by exactly the position aims at a count that is never shown (`drv8825.vhd:672`).
- With micro-stepping modes that count more than one per pulse (up to 32, and mode 0 after
  reset where `is_tmc2226` is low) the counter may step over its last count, and
  `set_current_position` (`sky-tracker.hpp:632`) takes any position below `0xFFFFFF`, which may lie
  outside the revolution: in both cases the count runs on to 2^30. `CounterInRevolution` is about
  the rest (`OneStepAPulse`).
- An instant stop of a goto that was started over tracking cancels the goto and
  leaves tracking enabled, since the status shows no tracking under a command
  (`ascom_interface.hpp:74`): the axis goes on tracking. `StopHolds` is about the other stops.
- `recv_all` of `koheron.py` compares `b''` with `''` (`koheron.py:357`) and, when the
  server has ended, reads nothing for ever instead of raising the error of its line 362.
- On the register path two crossings that are late together may make a read return an
  older answer even at 25 MHz, and a data crossing later than the strobe's lets the register hold
  the word of the write before for a tick. No constraint of the
  design bounds the routes; the model takes one late crossing at a time.
- `websocket.cpp` takes a buffer of exactly `KOHERON_READ_STR_LEN` bytes for full although
  the one it reads into is larger: a command of that length ends the session
  (`CommandsRun` excepts it).
- `koheron.py` measures a string in characters where the protocol counts bytes
  (`koheron.py:164`), and leaves a reply unread when its type check fails
  (`koheron.py:307`): the stream is out of step from then on.
- The gateway leaves `s` and other letters of its table unanswered: `Answered` is about the rest.
- `load_settings` takes the settings from an empty node (`sky-tracker.hpp:747`), so
  that each start has the defaults, and `SaveConfig` reports failure when it succeeds.

## 6. Not modelled, and why

- Of the register path: single bits of data, the block memory behind register 28 and its
  update pulse, the second chip select and resets.
- Periodic error correction, camera, LEDs and PWM, the temperature sensor: block
  memory, counters and pins without a promise in the code to compare with.
- Context and memory map, settings files, loading of driver descriptions, parsing of headers by the
  generator: I/O, operating system and build time.
- Vendor IP, block memory, constraints: not written here.

`components` in `PROJECT.json` gives this per file.

## 7. What could follow

1. `RestsOnTarget`, with an assumption on the shortest period.
2. The refinement by `SpiBus`, with the ticks of a transfer as an invariant.
