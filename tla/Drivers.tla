------------------------------ MODULE Drivers ------------------------------
(***************************************************************************)
(* DriverManager (koheron-server/core/drivers_manager.cpp): session        *)
(* threads execute commands of drivers.  A driver is made by the first     *)
(* command that needs it, under the manager's recursive mutex; its         *)
(* constructor asks the context for the drivers it uses, which makes those *)
(* first, in the same thread.  A command then runs under the mutex of its  *)
(* own driver.                                                             *)
(*                                                                         *)
(* The flag is_started and the pointer in device_list are read outside the *)
(* mutex.  A thread that has held the mutex, or used the driver, since the *)
(* driver was made reads them as they are; for any other one the read is a *)
(* data race, and it may see either the old or the new value.              *)
(***************************************************************************)
EXTENDS Naturals, Sequences, FiniteSets

CONSTANTS
    Sessions,   \* session threads
    Devices,    \* drivers
    Common,     \* the one Server makes before it listens
    Deps,       \* the drivers each constructor gets from the context, in order
    Rank,       \* an order of the drivers in which they can be made
    Nobody      \* holds a free mutex

ASSUME DriversAssumption ==
    /\ Common \in Devices
    /\ Nobody \notin Sessions
    /\ IsFiniteSet(Devices)

\* The drivers of config.yml do not use one another in a circle.
ASSUME DepsAssumption ==
    /\ Deps \in [Devices -> Seq(Devices)] /\ Deps[Common] = <<>>
    /\ Rank \in [Devices -> Nat]
    /\ \A d \in Devices : \A i \in 1..Len(Deps[d]) : Rank[Deps[d][i]] < Rank[d]

VARIABLES
    pc, command,              \* of each session: where it is, the driver it needs
    owner, stack,             \* the manager's mutex; nested calls of alloc_driver
    is_started, device_list,  \* DriverManager: flags, and pointers that are set
    is_starting, driver_tuple,\* DriverContainer: under construction, constructed
    seen,                     \* drivers each session reads without a race
    mutex,                    \* of each driver
    crashed,                  \* a null pointer was used: the process is gone
    constructions             \* history: how often each constructor ran

sessionVars == <<pc, command, seen, mutex>>
containerVars == <<is_starting, driver_tuple, constructions>>
managerVars == <<is_started, device_list>>
vars == <<sessionVars, containerVars, managerVars, owner, stack, crashed>>

-----------------------------------------------------------------------------
(* DriverManager::execute. *)

Go(s, from, to) == pc[s] = from /\ pc' = [pc EXCEPT ![s] = to]

\* A session has read a command of driver d.
Receive(s, d) ==
    /\ Go(s, "idle", "testing")
    /\ command' = [command EXCEPT ![s] = d]
    /\ UNCHANGED <<seen, mutex, containerVars, managerVars, owner, stack, crashed>>

Raced(s) == command[s] \notin seen[s]

\* The test outside the mutex finds the driver started, or does not.
TestStarted(s) ==
    /\ \/ is_started[command[s]] /\ Go(s, "testing", "calling")
       \/ (~is_started[command[s]] \/ Raced(s)) /\ Go(s, "testing", "locking")
    /\ UNCHANGED <<command, seen, mutex, containerVars, managerVars, owner,
                   stack, crashed>>

\* The driver's pointer is fetched, and its execute waits for its mutex.
Call(s) ==
    /\ device_list[command[s]]
    /\ Go(s, "calling", "waiting")
    /\ seen' = [seen EXCEPT ![s] = @ \cup {command[s]}]
    /\ UNCHANGED <<command, mutex, containerVars, managerVars, owner, stack, crashed>>

CallNull(s) ==
    /\ pc[s] = "calling" /\ (~device_list[command[s]] \/ Raced(s))
    /\ crashed' = TRUE
    /\ UNCHANGED <<sessionVars, containerVars, managerVars, owner, stack>>

Execute(s) ==
    /\ mutex[command[s]] = Nobody
    /\ Go(s, "waiting", "executing")
    /\ mutex' = [mutex EXCEPT ![command[s]] = s]
    /\ UNCHANGED <<command, seen, containerVars, managerVars, owner, stack, crashed>>

Return(s) ==
    /\ Go(s, "executing", "idle")
    /\ mutex' = [mutex EXCEPT ![command[s]] = Nobody]
    /\ UNCHANGED <<command, seen, containerVars, managerVars, owner, stack, crashed>>

-----------------------------------------------------------------------------
(* alloc_driver.  The owner's nested calls are a stack of frames; each one  *)
(* has locked the mutex once.                                               *)

Frame(d) == [device |-> d, at |-> "entering", todo |-> Deps[d]]
Top == stack[Len(stack)]
Below == SubSeq(stack, 1, Len(stack) - 1)
Nested(s, at) == owner = s /\ stack # <<>> /\ Top.at = at
Continue(at, todo) ==
    Append(Below, [device |-> Top.device, at |-> at, todo |-> todo])

\* The outermost call.
Lock(s) ==
    /\ owner = Nobody /\ Go(s, "locking", "starting")
    /\ owner' = s /\ stack' = <<Frame(command[s])>>
    /\ seen' = [seen EXCEPT ![s] = {d \in Devices : is_started[d]}]
    /\ UNCHANGED <<command, mutex, containerVars, managerVars, crashed>>

\* A call ends, and with the outermost one the mutex is free.
LeaveUnlocking(s) ==
    /\ stack' = Below
    /\ owner' = Nobody
    /\ IF Below = <<>> THEN Go(s, "starting", "calling") ELSE UNCHANGED pc

Leave(s) ==
    /\ stack' = Below
    /\ IF Below = <<>>
       THEN owner' = Nobody /\ Go(s, "starting", "calling")
       ELSE UNCHANGED <<owner, pc>>

\* The test under the mutex, of alloc_driver and of get.
MissingAlways(d) == TRUE
Missing(d) == ~is_started[d]

AlreadyStarted(s) ==
    /\ Nested(s, "entering") /\ ~Missing(Top.device)
    /\ Leave(s)
    /\ UNCHANGED <<command, seen, mutex, containerVars, managerVars, crashed>>

\* DriverContainer::alloc.  Its tests for a driver it has, or is making, are
\* left out: NeverCircular says that neither succeeds.
Construct(s) ==
    /\ Nested(s, "entering") /\ Missing(Top.device)
    /\ is_starting' = [is_starting EXCEPT ![Top.device] = TRUE]
    /\ constructions' = [constructions EXCEPT ![Top.device] = @ + 1]
    /\ stack' = Continue("constructing", Top.todo)
    /\ UNCHANGED <<sessionVars, driver_tuple, managerVars, owner, crashed>>

\* DriverManager::get, called by a constructor for the next driver it uses:
\* one that is missing is made first ...
NeedsNever(d) == FALSE
NeedsFirst(d) == ~is_started[d]

AllocFirstPlain(s) ==
    /\ Nested(s, "constructing") /\ Top.todo # <<>> /\ NeedsFirst(Head(Top.todo))
    /\ owner = Nobody
    /\ stack' = Append(Continue("allocating", Top.todo), Frame(Head(Top.todo)))
    /\ UNCHANGED <<sessionVars, containerVars, managerVars, owner, crashed>>

AllocFirst(s) ==
    /\ Nested(s, "constructing") /\ Top.todo # <<>> /\ NeedsFirst(Head(Top.todo))
    /\ stack' = Append(Continue("allocating", Top.todo), Frame(Head(Top.todo)))
    /\ UNCHANGED <<sessionVars, containerVars, managerVars, owner, crashed>>

\* ... and then the constructor keeps a reference to it.
Refer(s) ==
    /\ \/ Nested(s, "allocating")
       \/ Nested(s, "constructing") /\ Top.todo # <<>> /\ ~NeedsFirst(Head(Top.todo))
    /\ stack' = Continue("constructing", Tail(Top.todo))
    /\ UNCHANGED <<sessionVars, containerVars, managerVars, owner, crashed>>

\* The constructor is through; the container has the driver.
Constructed(s) ==
    /\ Nested(s, "constructing") /\ Top.todo = <<>>
    /\ is_starting' = [is_starting EXCEPT ![Top.device] = FALSE]
    /\ driver_tuple' = [driver_tuple EXCEPT ![Top.device] = TRUE]
    /\ stack' = Continue("publishing", <<>>)
    /\ UNCHANGED <<sessionVars, constructions, managerVars, owner, crashed>>

\* The manager has it, and the owner, who wrote that, knows.
Publish(s) ==
    /\ Nested(s, "publishing")
    /\ device_list' = [device_list EXCEPT ![Top.device] = TRUE]
    /\ is_started' = [is_started EXCEPT ![Top.device] = TRUE]
    /\ seen' = [seen EXCEPT ![s] = @ \cup {Top.device}]
    /\ Leave(s)
    /\ UNCHANGED <<command, mutex, containerVars, crashed>>

-----------------------------------------------------------------------------

Init ==
    /\ pc = [s \in Sessions |-> "idle"]
    /\ command = [s \in Sessions |-> Common]
    /\ owner = Nobody /\ stack = <<>>
    /\ is_started = [d \in Devices |-> d = Common]
    /\ device_list = is_started /\ driver_tuple = is_started
    /\ is_starting = [d \in Devices |-> FALSE]
    /\ seen = [s \in Sessions |-> {Common}]
    /\ mutex = [d \in Devices |-> Nobody]
    /\ crashed = FALSE
    /\ constructions = [d \in Devices |-> IF d = Common THEN 1 ELSE 0]

Alloc(s) == \/ AlreadyStarted(s) \/ Construct(s) \/ AllocFirst(s) \/ Refer(s)
            \/ Constructed(s) \/ Publish(s)

Session(s) == \/ TestStarted(s) \/ Lock(s) \/ Alloc(s) \/ Call(s) \/ CallNull(s)
              \/ Execute(s) \/ Return(s)

Next == /\ ~crashed
        /\ \E s \in Sessions : Session(s) \/ \E d \in Devices : Receive(s, d)

\* Threads run; nothing makes a client send a command.
Spec == Init /\ [][Next]_vars /\ \A s \in Sessions : WF_vars(~crashed /\ Session(s))

-----------------------------------------------------------------------------
(* Properties. *)

Frames == [device : Devices, todo : Seq(Devices),
           at : {"entering", "constructing", "allocating", "publishing"}]

TypeOK ==
    /\ pc \in [Sessions -> {"idle", "testing", "locking", "starting", "calling",
                            "waiting", "executing"}]
    /\ command \in [Sessions -> Devices]
    /\ owner \in Sessions \cup {Nobody}
    /\ stack \in Seq(Frames)
    /\ is_started \in [Devices -> BOOLEAN] /\ device_list \in [Devices -> BOOLEAN]
    /\ is_starting \in [Devices -> BOOLEAN] /\ driver_tuple \in [Devices -> BOOLEAN]
    /\ seen \in [Sessions -> SUBSET Devices]
    /\ mutex \in [Devices -> Sessions \cup {Nobody}]
    /\ crashed \in BOOLEAN
    /\ constructions \in [Devices -> Nat]

\* One session is in alloc_driver, and holds the mutex until it leaves the
\* outermost call, the one for its command.
StackOwned ==
    /\ (stack = <<>>) <=> (owner = Nobody)
    /\ \A s \in Sessions : (pc[s] = "starting") <=> (owner = s)
    /\ \A s \in Sessions : owner = s => stack[1].device = command[s]

Inside(f) == f.at # "entering"
Constructing(f) == f.at \in {"constructing", "allocating"}
Uses(d, e) == \E i \in 1..Len(Deps[d]) : Deps[d][i] = e
Awaits(f, e) == \E j \in 1..Len(f.todo) : f.todo[j] = e

\* What a constructor uses and does not wait for any more is there.
FrameOK(f) ==
    /\ \A e \in Devices : Awaits(f, e) => Uses(f.device, e)
    /\ \A e \in Devices : Uses(f.device, e) => Awaits(f, e) \/ is_started[e]
    /\ f.at = "allocating" => f.todo # <<>>
    /\ f.at = "publishing" => f.todo = <<>>

\* Each call waits for the next one, which makes a driver it uses.
StackOrdered ==
    /\ \A i, j \in 1..Len(stack) :
          i < j => Rank[stack[j].device] < Rank[stack[i].device]
    /\ \A i \in 1..Len(stack) : FrameOK(stack[i])
    /\ \A i \in 1..(Len(stack) - 1) :
          /\ stack[i].at = "allocating"
          /\ Head(stack[i].todo) = stack[i + 1].device
    /\ stack # <<>> /\ Top.at = "allocating" => is_started[Head(Top.todo)]

\* What the flags and pointers of a driver say of the call that makes it.
DriverOK(d) ==
    /\ device_list[d] = is_started[d]
    /\ is_starting[d] <=>
          \E i \in 1..Len(stack) : stack[i].device = d /\ Constructing(stack[i])
    /\ driver_tuple[d] <=>
          \/ is_started[d]
          \/ \E i \in 1..Len(stack) :
                stack[i].device = d /\ stack[i].at = "publishing"
    /\ constructions[d] <= 1
    /\ constructions[d] = 1 =>
          \/ is_started[d]
          \/ \E i \in 1..Len(stack) : stack[i].device = d /\ Inside(stack[i])
    /\ \A i \in 1..Len(stack) :
          stack[i].device = d /\ Inside(stack[i]) => ~is_started[d]
    /\ is_started[d] => \A e \in Devices : Uses(d, e) => is_started[e]

FlagsOK == \A d \in Devices : DriverOK(d)

\* Sessions see only drivers that are started, and run only those.
SeenOK ==
    \A s \in Sessions :
        /\ \A d \in seen[s] : is_started[d]
        /\ pc[s] \in {"calling", "waiting", "executing"} => is_started[command[s]]

DriversInv == TypeOK /\ StackOwned /\ StackOrdered /\ FlagsOK /\ SeenOK

\* However many sessions ask for drivers that share others, each constructor
\* runs once: the motors are set up once.
ConstructedOnce == \A d \in Devices : constructions[d] <= 1

\* A driver that runs a command has been made, after the drivers it uses.
ReadyWhenUsed ==
    \A s \in Sessions : pc[s] \in {"waiting", "executing"} =>
        /\ driver_tuple[command[s]]
        /\ \A i \in 1..Len(Deps[command[s]]) : driver_tuple[Deps[command[s]][i]]

\* A constructor is never entered while it runs or after: "Circular dependency
\* detected" is dead code for the drivers of this server.
NeverCircular ==
    stack # <<>> /\ Top.at = "entering" /\ Missing(Top.device) =>
        ~is_starting[Top.device] /\ ~driver_tuple[Top.device]

\* A command gets to its driver whatever other sessions start meanwhile,
\* unless a race took the process down.
CommandArrives ==
    \A s \in Sessions : (pc[s] = "testing") ~> (pc[s] = "waiting" \/ crashed)

=============================================================================
