------------------------------- MODULE Gateway -------------------------------
(***************************************************************************)
(* The gateway for telescope programs (libclient/ascom_server.cpp): it     *)
(* takes the commands of a Synta hand controller from one socket, calls    *)
(* ASCOMInterface for each, and answers.  The handset sends one command,   *)
(* waits for the answer, and may lose patience and send it again.          *)
(*                                                                         *)
(* A command is its letter, axis and data; digits, the log and the letters *)
(* that only ask for a constant are abstracted.  One read may return       *)
(* several commands, of which the gateway obeys the first, or one that is  *)
(* cut: after its colon, or within its data, when the rest of the data is  *)
(* what the buffer holds of older commands.  (A cut before the axis makes  *)
(* it look past its arrays, and cut or small digits may make numbers of    *)
(* more than six: both are left out.)  Words of 24 and 32 bits are as wide *)
(* as CountEnd makes them.                                                 *)
(***************************************************************************)
EXTENDS SkyTracker

CONSTANTS
    Letters,     \* what the handset sends
    Data,        \* the numbers it sends
    MaxCuts,     \* bound: commands that are cut
    MaxWaiting   \* bound: commands and answers on the way

ASSUME GatewayAssumption ==
    /\ Letters \subseteq {"j", "f", "a", "E", "F", "K", "L", "G", "I", "H", "S", "J", "P", "s"}
    /\ Data \subseteq 0..CountEnd /\ MaxCuts \in Nat /\ MaxWaiting \in Nat

\* Where a handset is in use it has the server to itself: no other client
\* calls, and nobody restarts the server.  Nothing in the code makes it so.
HandsetAlone ==
    \A u \in Uses : "handset" \in u.ops => u.ops \subseteq {"handset", "again", "cut", "miss"}

VARIABLES
    toGateway, toHandset,   \* commands and answers on the way
    pc, cmd,                \* of the gateway: what it does, for which command
    isSlew, isIncrement,    \* its variables
    rev,
    asked,                  \* the command the handset waits for
    cuts,
    told, placed, trouble   \* history: see Receive, SendAgain

link == <<toGateway, toHandset>>
locals == <<isSlew, isIncrement, rev>>
gatewayVars == <<link, pc, cmd, locals, asked, cuts, told, placed, trouble>>
allVars == <<vars, gatewayVars>>

MountAxes == {0, 1}
Nothing == [letter |-> "none", axis |-> 0, data |-> 0]
Word24 == CountEnd + 1
Word32 == 4 * Word24

Larger(m, n) == IF m > n THEN m ELSE n

\* The data of 'G': slew or goto, backward or forward; and of 'I', in ticks.
SlewOf(n) == n % 2
ForwardOf(n) == 1 - ((n \div 2) % 2)
TicksOf(n) == 5 * n

\* Positions of the handset are by so much above the counter's.
Offset == Center - (rev \div 2)
CountOf(n) == (n - Offset) % Word32

\* Mutant: the offset is taken off in both directions.
ShownTwice(count) == ((count - Offset) % Word32) % Word24

Shown(count) == ((count + Offset) % Word32) % Word24

-----------------------------------------------------------------------------
(* The gateway and the driver. *)

Starting == {"start 1", "start 2", "start 3", "start 4", "start 5"}
After(step) == CASE step = "start 1" -> "start 2" [] step = "start 2" -> "start 3"
                 [] step = "start 3" -> "start 4" [] step = "start 4" -> "start 5"
                 [] step = "start 5" -> "read"

StartCall(step) ==
    CASE step = "start 1" -> SwpCmdInitialize(1)
      [] step = "start 2" -> SwpCmdInitialize(0)
      [] step = "start 3" -> <<Get(1, "steps")>>
      [] step = "start 4" -> set_current_position(0, rev \div 2)
      [] step = "start 5" -> set_current_position(1, (rev * 3) \div 4)

\* The gateway is a client of ASCOMInterface that waits for each answer.
Asks(script, want) == Enter("ASCOM", "handset", script, want)

StartUp ==
    /\ pc \in Starting /\ cmd.letter = "none"
    /\ Asks(StartCall(pc), NoWant)
    /\ cmd' = [cmd EXCEPT !.letter = "busy"]
    /\ UNCHANGED <<link, pc, locals, asked, cuts, told, placed, trouble>>

StartedUp ==
    /\ pc \in Starting /\ cmd.letter = "busy" /\ Idle("ASCOM")
    /\ rev' = IF pc = "start 3" THEN answer["ASCOM"] ELSE rev
    /\ pc' = After(pc) /\ cmd' = Nothing
    /\ UNCHANGED <<vars, link, isSlew, isIncrement, asked, cuts, told, placed, trouble>>

\* What 'J' is to start, as the handset has said it in accepted commands.
ToldWant(a) ==
    LET t == told[a]
    IN  IF trouble THEN NoWant
        ELSE IF t.slew = 1 THEN WantTrack(a, t.period[2], t.forward[2])
        ELSE WantCommand(a, t.period[1], t.goal, t.goto, t.forward[1])

\* Mutant: as the names have it, an increment is no goto.
StartKindNamed(a) == 1 - isIncrement[a]

\* isIncrement is set by 'S', which names a target.
StartKind(a) == isIncrement[a]

\* The calls that a command makes at once; 'I' has another.
CallOf(c) ==
    CASE c.letter = "j" -> <<ReadCount(c.axis)>>
      [] c.letter = "f" -> <<ReadStatus(c.axis)>>
      [] c.letter = "a" -> <<Get(c.axis, "steps")>>
      [] c.letter = "E" -> set_current_position(c.axis, CountOf(c.data))
      [] c.letter = "F" -> SwpCmdInitialize(c.axis)
      [] c.letter \in {"K", "L"} -> <<ReadStop(c.axis)>>
      [] c.letter = "G" -> <<Set(c.axis, Forward(SlewOf(c.data)), ForwardOf(c.data))>>
      [] c.letter = "I" -> <<Get(c.axis, "min")>>
      [] c.letter = "H" -> <<Set(c.axis, "ncycles", c.data)>>
      [] c.letter = "S" -> <<Set(c.axis, "target", Target("ASCOM", c.data))>>
      [] c.letter = "J" -> IF isSlew[c.axis] = 1 THEN <<Start(c.axis)>>
                           ELSE <<Send(c.axis, StartKind(c.axis))>>

\* The gateway obeys the first command of what it has read; "P" stands for the
\* letters it answers by itself, "s" for those that it does not answer.
Obey(c) ==
    \/ /\ c.letter \notin {"P", "s"}
       /\ Asks(CallOf(c), IF c.letter = "J" THEN ToldWant(c.axis) ELSE NoWant)
       /\ cmd' = c /\ pc' = "call"
       /\ isSlew' = IF c.letter = "G" THEN [isSlew EXCEPT ![c.axis] = SlewOf(c.data)]
                    ELSE isSlew
       /\ UNCHANGED toHandset
    \/ /\ c.letter \in {"P", "s"}
       /\ toHandset' = IF c.letter = "P" THEN Append(toHandset, [ok |-> TRUE, data |-> 0])
                       ELSE toHandset
       /\ UNCHANGED <<vars, cmd, pc, isSlew>>

Read ==
    /\ pc = "read" /\ toGateway # <<>>
    /\ \E n \in 1..Len(toGateway) : toGateway' = SubSeq(toGateway, n + 1, Len(toGateway))
    /\ Obey(Head(toGateway))
    /\ UNCHANGED <<isIncrement, rev, asked, cuts, told, placed, trouble>>

\* The rest of a cut command is read next, and it is no command.
ReadCut ==
    /\ "cut" \in use.ops /\ pc = "read" /\ toGateway # <<>> /\ cuts < MaxCuts
    /\ cuts' = cuts + 1 /\ trouble' = TRUE
    /\ toGateway' = Tail(toGateway)
    /\ \/ UNCHANGED <<vars, toHandset, cmd, pc, isSlew>>
       \/ \E n \in use.data : Obey([Head(toGateway) EXCEPT !.data = n])
    /\ UNCHANGED <<isIncrement, rev, asked, told, placed>>

\* 'I' asks for the least period first, and names no shorter one.
SetsPeriod ==
    /\ pc = "call" /\ cmd.letter = "I" /\ Idle("ASCOM")
    /\ Asks(<<Set(cmd.axis, Period(isSlew[cmd.axis]),
                  Larger(TicksOf(cmd.data), answer["ASCOM"]))>>, NoWant)
    /\ pc' = "set"
    /\ UNCHANGED <<link, cmd, locals, asked, cuts, told, placed, trouble>>

\* Mutant: what the driver refuses is not answered.
ReplyIfDone(c, result) ==
    IF c.letter = "j" THEN <<[ok |-> TRUE, data |-> Shown(result)]>>
    ELSE IF c.letter \in {"a", "f"} \/ result = 1 THEN <<[ok |-> TRUE, data |-> 0]>> ELSE <<>>

\* Every call is answered, a refused one with an error.
Reply(c, result) ==
    IF c.letter = "j" THEN <<[ok |-> TRUE, data |-> Shown(result)]>>
    ELSE <<[ok |-> c.letter \in {"a", "f"} \/ result = 1, data |-> 0]>>

Answers ==
    /\ pc = "set" \/ (pc = "call" /\ cmd.letter # "I")
    /\ Idle("ASCOM")
    /\ toHandset' = toHandset \o Reply(cmd, answer["ASCOM"])
    /\ isIncrement' = IF cmd.letter \in {"H", "S"} /\ answer["ASCOM"] = 1
                      THEN [isIncrement EXCEPT ![cmd.axis] = IF cmd.letter = "S" THEN 1 ELSE 0]
                      ELSE isIncrement
    /\ pc' = "read" /\ cmd' = Nothing
    /\ UNCHANGED <<vars, toGateway, isSlew, rev, asked, cuts, told, placed, trouble>>

-----------------------------------------------------------------------------
(* The handset. *)

Ask(c) ==
    /\ "handset" \in use.ops /\ asked = Nothing /\ Len(toGateway) < MaxWaiting
    /\ c.letter \in use.letters /\ c.axis \in use.axes /\ c.data \in use.data
    /\ asked' = c /\ toGateway' = Append(toGateway, c)
    /\ UNCHANGED <<vars, toHandset, pc, cmd, locals, cuts, told, placed, trouble>>

SendAgain ==
    /\ "again" \in use.ops /\ asked # Nothing
    /\ Len(toGateway) < MaxWaiting /\ Len(toHandset) < MaxWaiting
    /\ toGateway' = Append(toGateway, asked) /\ trouble' = TRUE
    /\ UNCHANGED <<vars, toHandset, pc, cmd, locals, asked, cuts, told, placed>>

\* What accepted commands have told the gateway of an axis: the motion, and
\* for each kind of it (goto, slew) period and direction, and the last goal.
Tells(t, c) ==
    LET i == 1 + t.slew
        g == 1 + SlewOf(c.data)
    IN  CASE c.letter = "G" -> [t EXCEPT !.slew = SlewOf(c.data),
                                         !.forward[g] = ForwardOf(c.data)]
          [] c.letter = "I" -> [t EXCEPT !.period[i] = Larger(TicksOf(c.data), MinPeriod)]
          [] c.letter = "H" -> [t EXCEPT !.goal = c.data, !.goto = 0]
          [] c.letter = "S" -> [t EXCEPT !.goal = Larger(c.data, 2), !.goto = 1]
          [] OTHER -> t

\* placed: where the handset has last put an axis; 'F' puts all of them
\* elsewhere.
Places(c) ==
    [a \in MountAxes |-> IF c.letter = "F" THEN -1
                         ELSE IF c.letter = "E" /\ a = c.axis THEN c.data
                         ELSE placed[a]]

\* The handset takes an answer for that of the command it waits for.
Receive ==
    /\ toHandset # <<>>
    /\ toHandset' = Tail(toHandset) /\ asked' = Nothing
    /\ IF Head(toHandset).ok /\ asked # Nothing
       THEN /\ told' = [told EXCEPT ![asked.axis] = Tells(told[asked.axis], asked)]
            /\ placed' = Places(asked)
       ELSE UNCHANGED <<told, placed>>
    /\ UNCHANGED <<vars, toGateway, pc, cmd, locals, cuts, trouble>>

-----------------------------------------------------------------------------

GatewayInit ==
    /\ Init
    /\ toGateway = <<>> /\ toHandset = <<>>
    /\ pc = "start 1" /\ cmd = Nothing
    /\ isSlew = [a \in MountAxes |-> 0] /\ isIncrement = [a \in MountAxes |-> 0]
    /\ rev = 0 /\ asked = Nothing /\ cuts = 0
    /\ told = [a \in MountAxes |->
                 [slew |-> 0, period |-> <<FirstPeriod, FirstPeriod>>,
                  forward |-> <<1, 1>>, goal |-> 0, goto |-> 0]]
    /\ placed = [a \in MountAxes |-> -1]
    /\ trouble = FALSE

GatewayStep == StartUp \/ StartedUp \/ Read \/ SetsPeriod \/ Answers

GatewayNext ==
    \/ NextDrivers /\ UNCHANGED gatewayVars
    \/ GatewayStep \/ ReadCut \/ SendAgain \/ Receive
    \/ \E l \in Letters, a \in MountAxes, n \in Data :
         Ask([letter |-> l, axis |-> a, data |-> n])

\* Threads run on, the handset listens, and sends a command again that is lost.
LostAgain == toGateway = <<>> /\ toHandset = <<>> /\ pc = "read" /\ SendAgain

GatewaySpec ==
    /\ GatewayInit /\ [][GatewayNext]_allVars
    /\ \A d \in Drivers : WF_allVars(Serve(d) /\ UNCHANGED gatewayVars)
    /\ WF_allVars(GatewayStep) /\ WF_allVars(Receive) /\ WF_allVars(LostAgain)

-----------------------------------------------------------------------------
(* Properties. *)

\* The position 'j' shows is the one 'E' has set, whatever the offset between
\* the handset's positions and the counter's, if the counter has taken it and
\* has not moved since; only the last count of all has become the first.
ReadsBack ==
    LET p == placed[asked.axis]
        seen == IF CountOf(p) = CountEnd THEN Shown(0) ELSE p
    IN  /\ asked.letter = "j" /\ toHandset # <<>> /\ p # -1
        /\ asked.axis \in held /\ ~trouble
        => Head(toHandset).data = seen

\* A command that the gateway knows is answered in the end, if only after it
\* has been sent again, though reads lose commands and cut them.
Answered == (asked.letter \notin {"none", "s"}) ~> (asked.letter \in {"none", "s"})
=============================================================================
