---------------------------- MODULE MountProofs ----------------------------
(***************************************************************************)
(* The registers, the axis and the scripts of the two drivers fit together *)
(* for any periods, any limit of high speed and any length of a ramp; an   *)
(* instant stop holds; and a lone set_command starts a run.                *)
(***************************************************************************)
EXTENDS Mount, SequenceTheorems, TLAPS

-----------------------------------------------------------------------------
(* The inductive invariant. *)

Commands == {Nothing, Executing, Cancelling(TRUE), Cancelling(FALSE)}
Flags == {"isGoto", "isSlew", "isRunning"}
Speeds == {0} \cup Periods

\* Tracking is on just when there is a period, and then it is one a client
\* asked for or a slower one.
Paced(t) == /\ t.on <=> t.raw > 0
            /\ t.on => \E p \in Periods : p <= t.raw

\* What a script may hold, once a stop has read the status.
Tracks == {t \in [op : {"track"}, on : BOOLEAN, raw : Nat] : Paced(t)}
Others ==
         [op : {"command"}, c : Commands]
    \cup [op : {"ramp_down", "status"}]
    \cup [op : {"assign"}, field : Flags, value : BOOLEAN]
    \cup [op : {"assign"}, field : {"currentPeriod"}, value : Periods]
Going == Tracks \cup Others

\* A script that does not start to track, unless its ramp finds it on.
Quiet == {o \in Going : o.op = "track" => ~o.on}

Stops == {SwpCmdStopAxis(TRUE), SwpCmdStopAxis(FALSE)}

TypeOK ==
    /\ axis \in {"idle", "tracking", "command"}
    /\ cmdcontrol \in Commands
    /\ trackctrl \in [on : BOOLEAN, raw : Nat] /\ Paced(trackctrl)
    /\ m_status \in [isGoto : BOOLEAN, isSlew : BOOLEAN, isRunning : BOOLEAN,
                     currentPeriod : Speeds]
    /\ period \in Periods
    /\ todo \in [Drivers -> Seq(Going) \cup Stops]
    /\ call \in [Drivers -> [stop : BOOLEAN, alone : BOOLEAN]]
    /\ promised \subseteq {"run over", "tracking off"}
    /\ over \in BOOLEAN

\* An execute bit is taken back by the next entry.
Raises(o) == o.op = "command" /\ o.c = Executing
TakenBack(s) ==
    \A i \in 1..Len(s) :
       Raises(s[i]) => i < Len(s) /\ s[i + 1] = Command(Nothing)

\* Only ASCOM stops an axis, and then nothing is promised yet.
StopInv ==
    /\ ~call["SkyTracker"].stop
    /\ \A d \in Drivers : todo[d] \in Stops => d = "ASCOM" /\ promised = {}

\* The driver of an undisturbed call is the only one with a script.
Alone == \A d, e \in Drivers : call[d].alone /\ ~Idle(d) /\ e # d => Idle(e)

\* The script of an undisturbed instant stop.
StopUnderWay ==
    LET s == todo["ASCOM"]
    IN  call["ASCOM"].stop /\ call["ASCOM"].alone /\ s # <<>> =>
            \/ s = SwpCmdStopAxis(TRUE)
            \/ s = disable_tracking(TRUE) \o cancel_command(TRUE)
            \/ s = cancel_command(TRUE) /\ (over \/ ~trackctrl.on)

\* A promise is withdrawn before the axis may track again.
Promise ==
    "tracking off" \in promised /\ ~over =>
        ~trackctrl.on /\ \A d \in Drivers : todo[d] \in Seq(Quiet)

Inv == /\ TypeOK /\ MountInv /\ StopInv /\ Alone /\ StopUnderWay /\ Promise
       /\ \A d \in Drivers : TakenBack(todo[d])

-----------------------------------------------------------------------------
(* Sequences. *)

\* A script that goes on with another takes its execute bits back if both do.
LEMMA ConcatTakesBack ==
    ASSUME NEW S, NEW s \in Seq(S), NEW t \in Seq(S), TakenBack(s), TakenBack(t)
    PROVE  s \o t \in Seq(S) /\ TakenBack(s \o t)
<1>1. /\ s \o t \in Seq(S) /\ Len(s \o t) = Len(s) + Len(t)
      /\ \A i \in 1 .. Len(s) + Len(t) :
            (s \o t)[i] = IF i <= Len(s) THEN s[i] ELSE t[i - Len(s)]
  BY ConcatProperties
<1>2. Len(s) \in Nat /\ Len(t) \in Nat
  BY LenProperties
<1>3. ASSUME NEW i \in 1..Len(s \o t), Raises((s \o t)[i])
      PROVE  i < Len(s \o t) /\ (s \o t)[i + 1] = Command(Nothing)
  <2>1. CASE i <= Len(s)
    <3>1. Raises(s[i]) /\ i \in 1..Len(s)
      BY <1>1, <1>2, <1>3, <2>1
    <3>2. i < Len(s) /\ s[i + 1] = Command(Nothing)
      BY <3>1 DEF TakenBack
    <3>. QED BY <1>1, <1>2, <3>1, <3>2
  <2>2. CASE i > Len(s)
    <3>1. Raises(t[i - Len(s)]) /\ i - Len(s) \in 1..Len(t)
      BY <1>1, <1>2, <1>3, <2>2
    <3>2. i - Len(s) < Len(t) /\ t[i - Len(s) + 1] = Command(Nothing)
      BY <3>1 DEF TakenBack
    <3>3. i - Len(s) + 1 = i + 1 - Len(s)
      BY <1>2
    <3>. QED BY <1>1, <1>2, <2>2, <3>1, <3>2, <3>3
  <2>. QED BY <1>1, <1>2, <2>1, <2>2
<1>. QED BY <1>1, <1>3 DEF TakenBack

\* The rest of a script.
LEMMA TailTakesBack ==
    ASSUME NEW S, NEW s \in Seq(S), s # <<>>, TakenBack(s)
    PROVE  /\ Head(s) = s[1] /\ Head(s) \in S
           /\ Tail(s) \in Seq(S) /\ TakenBack(Tail(s))
           /\ Raises(Head(s)) => Tail(s) # <<>> /\ Head(Tail(s)) = Command(Nothing)
<1>1. /\ Head(s) \in S /\ Tail(s) \in Seq(S) /\ Len(Tail(s)) = Len(s) - 1
      /\ \A i \in 1..Len(Tail(s)) : Tail(s)[i] = s[i + 1]
  BY HeadTailProperties
<1>2. Len(s) \in Nat /\ Len(s) >= 1 /\ Head(s) = s[1]
  BY SMT
<1>3. ASSUME NEW i \in 1..Len(Tail(s)), Raises(Tail(s)[i])
      PROVE  i < Len(Tail(s)) /\ Tail(s)[i + 1] = Command(Nothing)
  <2>1. i + 1 \in 1..Len(s) /\ Raises(s[i + 1])
    BY <1>1, <1>2, <1>3
  <2>2. i + 1 < Len(s) /\ s[i + 1 + 1] = Command(Nothing)
    BY <2>1 DEF TakenBack
  <2>. QED BY <1>1, <1>2, <2>1, <2>2
<1>4. ASSUME Raises(Head(s))
      PROVE  Tail(s) # <<>> /\ Head(Tail(s)) = Command(Nothing)
  <2>1. 1 < Len(s) /\ s[2] = Command(Nothing)
    BY <1>2, <1>4 DEF TakenBack
  <2>2. Len(Tail(s)) >= 1 /\ Tail(s)[1] = Command(Nothing)
    BY <1>1, <1>2, <2>1
  <2>3. Tail(s) # <<>>
    <3>1. Len(<<>>) = 0
      BY EmptySeq
    <3>2. Len(Tail(s)) # 0
      BY <2>2, SMT
    <3>. QED BY <3>1, <3>2, Zenon
  <2>. QED BY <1>1, <2>2, <2>3, SMT
<1>. QED BY <1>1, <1>2, <1>3, <1>4 DEF TakenBack

\* Scripts of up to two entries, and of tracks only.
LEMMA ShortScripts ==
    ASSUME NEW S
    PROVE  /\ <<>> \in Seq(S) /\ TakenBack(<<>>)
           /\ \A o \in S : /\ <<o>> \in Seq(S)
                           /\ ~Raises(o) => TakenBack(<<o>>)
           /\ \A o \in S : \A q \in S :
                 /\ <<o, q>> \in Seq(S)
                 /\ q = Command(Nothing) => TakenBack(<<o, q>>)
<1>1. <<>> \in Seq(S) /\ TakenBack(<<>>)
  BY SMT DEF TakenBack
<1>2. ASSUME NEW o \in S
      PROVE  <<o>> \in Seq(S) /\ (~Raises(o) => TakenBack(<<o>>))
  BY SMT DEF TakenBack
<1>3. ASSUME NEW o \in S, NEW q \in S
      PROVE  <<o, q>> \in Seq(S) /\ (q = Command(Nothing) => TakenBack(<<o, q>>))
  <2>1. <<o, q>> \in Seq(S) /\ Len(<<o, q>>) = 2 /\ <<o, q>>[1] = o /\ <<o, q>>[2] = q
    BY SMT
  <2>2. ~Raises(Command(Nothing))
    BY DEF Raises, Command, Executing, Nothing
  <2>. QED BY <2>1, <2>2 DEF TakenBack
<1>. QED BY <1>1, <1>2, <1>3

\* A function on 1..n is a sequence of n entries.
LEMMA Table ==
    ASSUME NEW S, NEW n \in Nat, NEW f \in [1..n -> S]
    PROVE  f \in Seq(S) /\ Len(f) = n /\ \A i \in 1..n : f[i] \in S
<1>1. f \in Seq(S)
  BY SeqDef
<1>2. Len(f) \in Nat /\ DOMAIN f = 1..Len(f) /\ DOMAIN f = 1..n
  BY <1>1, LenProperties
<1>. QED BY <1>1, <1>2

-----------------------------------------------------------------------------
(* Scripts. *)

\* A multiple of a period is no faster than it.
LEMMA Multiple ==
    ASSUME NEW a \in Nat, NEW b \in Nat, a >= 1, b >= 1
    PROVE  a * b \in Nat /\ a * b >= a /\ a * b >= 1
<1>1. a * b \in Nat
  BY SMT
<1>2. a * (b - 1) \in Nat
  BY SMT
<1>3. a * b = a * (b - 1) + a
  BY SMT
<1>. QED BY <1>1, <1>2, <1>3

\* A write of a multiple of what is paced is paced.
LEMMA SlowerTrack ==
    ASSUME NEW r \in Nat, NEW b \in Nat, b >= 1,
           NEW p \in Periods, p <= r
    PROVE  Track(TRUE, r * b) \in Tracks
<1>1. p \in Nat /\ p >= 1
  BY MountAssumption
<1>2. r * b \in Nat /\ r * b >= r /\ r * b >= 1
  BY <1>1, Multiple
<1>. QED BY <1>1, <1>2 DEF Track, Tracks, Paced

\* Tracks have no execute bit to take back.
LEMMA TracksTakeBack ==
    ASSUME NEW s \in Seq(Tracks)
    PROVE  s \in Seq(Going) /\ TakenBack(s)
<1>1. s \in Seq(Going)
  BY SeqMonotonic DEF Going
<1>2. \A i \in 1..Len(s) : s[i] \in Tracks
  BY ElementOfSeq
<1>. QED BY <1>1, <1>2 DEF Tracks, TakenBack, Raises

\* Both ramps write paced periods.
LEMMA RampsPaced ==
    /\ \A p \in Periods : RampUp(p) \in Seq(Tracks)
    /\ \A r \in Nat : (\E p \in Periods : p <= r) => RampDown(r) \in Seq(Tracks)
<1>1. ASSUME NEW p \in Periods PROVE RampUp(p) \in Seq(Tracks)
  <2>. DEFINE n == RampEnd \div p
              f == [i \in 1..n |-> Track(TRUE, p * (n + 1 - i))]
  <2>1. p \in Nat /\ p >= 1 /\ RampEnd \in Nat
    BY MountAssumption
  <2>2. n \in Nat
    BY <2>1, SMT
  <2>3. ASSUME NEW i \in 1..n PROVE Track(TRUE, p * (n + 1 - i)) \in Tracks
    <3>1. n + 1 - i \in Nat /\ n + 1 - i >= 1 /\ p <= p
      BY <2>1, <2>2
    <3>. DEFINE b == n + 1 - i
    <3>. HIDE DEF n, b
    <3>. QED BY <2>1, <3>1, SlowerTrack DEF b
  <2>4. f \in Seq(Tracks)
    <3>. HIDE DEF n
    <3>1. f \in [1..n -> Tracks]
      BY <2>3
    <3>. HIDE DEF f
    <3>. QED BY <2>2, <3>1, Table
  <2>. QED BY <2>1, <2>4, EmptySeq DEF RampUp
<1>2. ASSUME NEW r \in Nat, NEW p \in Periods, p <= r
      PROVE  RampDown(r) \in Seq(Tracks)
  <2>. DEFINE n == (RampEnd \div r) - 2
              f == [i \in 1..n |-> Track(TRUE, r * (i + 1))]
  <2>1. p \in Nat /\ p >= 1 /\ RampEnd \in Nat
    BY MountAssumption
  <2>2. n \in Int
    BY <1>2, <2>1, SMT
  <2>3. ASSUME NEW i \in 1..n PROVE Track(TRUE, r * (i + 1)) \in Tracks
    <3>1. i + 1 \in Nat /\ i + 1 >= 1
      BY <2>2
    <3>. HIDE DEF n
    <3>. QED BY <1>2, <3>1, SlowerTrack
  <2>4. f \in Seq(Tracks)
    <3>. HIDE DEF n
    <3>1. f \in [1..n -> Tracks]
      BY <2>3
    <3>2. CASE n >= 0
      <4>. HIDE DEF f
      <4>. QED BY <2>2, <3>1, <3>2, Table
    <3>3. CASE n < 0
      <4>1. 1..n = 1..0
        BY <2>2, <3>3
      <4>. HIDE DEF f
      <4>. QED BY <3>1, <4>1, Table
    <3>. HIDE DEF f
    <3>. QED BY <2>2, <3>2, <3>3
  <2>. QED BY <2>1, <2>4, EmptySeq DEF RampDown
<1>. QED BY <1>1, <1>2

\* The scripts that keep a promise, and those that need not.
LEMMA QuietScripts ==
    ASSUME NEW instant \in BOOLEAN
    PROVE  LET Q(s) == s \in Seq(Quiet) /\ TakenBack(s)
           IN  /\ Q(disable_tracking(instant)) /\ Q(cancel_command(instant))
               /\ Q(SwpCmdInitialize) /\ Q(SwpGetAxisStatus)
               /\ Q(StopScript(instant)) /\ Q(StatusScript) /\ Q(<<>>)
<1>. DEFINE Q(s) == s \in Seq(Quiet) /\ TakenBack(s)
<1>1. Q(<<>>)
  BY ShortScripts
<1>2. ASSUME NEW o \in Quiet, ~Raises(o) PROVE Q(<<o>>)
  BY <1>2, ShortScripts
<1>3. ASSUME NEW s, Q(s), NEW t, Q(t) PROVE Q(s \o t)
  BY <1>3, ConcatTakesBack
<1>4. ASSUME NEW i \in BOOLEAN PROVE Q(cancel_command(i))
  <2>1. Command(Cancelling(i)) \in Quiet
    BY DEF Quiet, Going, Others, Command, Commands
  <2>2. ~Raises(Command(Cancelling(i)))
    BY DEF Raises, Command, Cancelling, Executing, Nothing
  <2>. QED BY <1>2, <2>1, <2>2 DEF cancel_command
<1>5. ASSUME NEW i \in BOOLEAN PROVE Q(disable_tracking(i))
  <2>1. Track(FALSE, 0) \in Quiet /\ ~Raises(Track(FALSE, 0))
    BY DEF Quiet, Going, Tracks, Track, Paced, Raises
  <2>2. [op |-> "ramp_down"] \in Quiet /\ ~Raises([op |-> "ramp_down"])
    BY DEF Quiet, Going, Others, Raises
  <2>3. Q(<<Track(FALSE, 0)>>) /\ Q(<<[op |-> "ramp_down"]>>)
    BY <1>2, <2>1, <2>2
  <2>4. Q(<<>> \o <<Track(FALSE, 0)>>)
        /\ Q(<<[op |-> "ramp_down"]>> \o <<Track(FALSE, 0)>>)
    <3>. HIDE DEF Q
    <3>. QED BY <1>1, <1>3, <2>3
  <2>. QED BY <2>4 DEF disable_tracking
<1>6. Q(SwpCmdInitialize)
  <2>1. Q(disable_tracking(FALSE)) /\ Q(cancel_command(FALSE))
    BY <1>4, <1>5
  <2>. HIDE DEF Q
  <2>. QED BY <1>3, <2>1 DEF SwpCmdInitialize
<1>7. Q(SwpGetAxisStatus)
  <2>1. [op |-> "status"] \in Quiet /\ ~Raises([op |-> "status"])
    BY DEF Quiet, Going, Others, Raises
  <2>. QED BY <1>2, <2>1 DEF SwpGetAxisStatus
<1>8. Q(StopScript(instant))
  <2>1. /\ Q(disable_tracking(instant)) /\ Q(cancel_command(instant))
        /\ Q(IF axis = "tracking" THEN disable_tracking(instant) ELSE <<>>)
    BY <1>1, <1>4, <1>5
  <2>. HIDE DEF Q
  <2>. QED BY <1>3, <2>1 DEF StopScript
<1>9. Q(StatusScript)
  <2>. DEFINE assign(f, v) == [op |-> "assign", field |-> f, value |-> v]
              a == assign("isGoto", axis = "command")
              b == assign("isSlew", axis = "tracking")
              c == assign("isRunning", axis # "idle")
  <2>1. ASSUME NEW f \in Flags, NEW v \in BOOLEAN
        PROVE  assign(f, v) \in Quiet /\ ~Raises(assign(f, v))
    BY DEF Quiet, Going, Others, Raises
  <2>2. /\ (axis = "command") \in BOOLEAN /\ (axis = "tracking") \in BOOLEAN
        /\ (axis # "idle") \in BOOLEAN
        /\ "isGoto" \in Flags /\ "isSlew" \in Flags /\ "isRunning" \in Flags
    BY DEF Flags
  <2>3. /\ a \in Quiet /\ b \in Quiet /\ c \in Quiet
        /\ ~Raises(a) /\ ~Raises(b) /\ ~Raises(c)
    BY <2>1, <2>2, Zenon
  <2>. HIDE DEF a, b, c
  <2>4. Q(<<a, b, c>>)
    <3>1. /\ <<a, b, c>> \in Seq(Quiet) /\ Len(<<a, b, c>>) = 3
          /\ <<a, b, c>>[1] = a /\ <<a, b, c>>[2] = b /\ <<a, b, c>>[3] = c
      BY <2>3, SMT
    <3>. QED BY <2>3, <3>1 DEF TakenBack
  <2>. QED BY <2>4 DEF StatusScript, a, b, c
<1>. QED BY <1>1, <1>4, <1>5, <1>6, <1>7, <1>8, <1>9

\* What is quiet is in order.
LEMMA QuietGoing ==
    ASSUME NEW s \in Seq(Quiet) PROVE s \in Seq(Going)
BY SeqMonotonic DEF Quiet

\* The scripts that start to track, or a command.
LEMMA StartScripts ==
    ASSUME NEW p \in Periods, NEW update \in BOOLEAN
    PROVE  LET G(s) == s \in Seq(Going) /\ TakenBack(s)
           IN  /\ G(start_raw_tracking(p, update)) /\ G(send_raw_command)
               /\ G(set_motor_period_ticks(p)) /\ G(<<>>)
<1>. DEFINE G(s) == s \in Seq(Going) /\ TakenBack(s)
<1>1. G(<<>>)
  BY ShortScripts
<1>2. ASSUME NEW o \in Going, ~Raises(o) PROVE G(<<o>>)
  BY <1>2, ShortScripts
<1>3. ASSUME NEW s, G(s), NEW t, G(t) PROVE G(s \o t)
  BY <1>3, ConcatTakesBack
<1>4. p \in Nat /\ p >= 1
  BY MountAssumption
<1>5. G(RampUp(p))
  BY RampsPaced, TracksTakeBack
<1>6. G(disable_tracking(FALSE))
  BY QuietScripts, QuietGoing
<1>7. G(<<Track(TRUE, 2 * p)>>)
  <2>1. Track(TRUE, 2 * p) \in Going /\ ~Raises(Track(TRUE, 2 * p))
    BY <1>4, SMT DEF Going, Tracks, Track, Paced, Raises
  <2>. QED BY <1>2, <2>1
<1>8. ASSUME NEW i \in BOOLEAN, NEW b \in BOOLEAN
      PROVE  G(enable_tracking(p, i, b))
  <2>. DEFINE s == IF b THEN disable_tracking(FALSE) ELSE <<>>
              t == IF i THEN <<>> ELSE RampUp(p)
  <2>1. G(s) /\ G(t)
    BY <1>1, <1>5, <1>6
  <2>. HIDE DEF G, s, t
  <2>2. G(s \o t)
    BY <1>3, <2>1
  <2>3. G((s \o t) \o <<Track(TRUE, 2 * p)>>)
    BY <1>3, <1>7, <2>2
  <2>. QED BY <2>3 DEF enable_tracking, s, t
<1>9. ASSUME NEW u \in BOOLEAN PROVE G(start_raw_tracking(p, u))
  <2>. DEFINE a == [op |-> "assign", field |-> "currentPeriod", value |-> p]
              high == m_status.currentPeriod < HighSpeed
              updates == u /\ Slewing
              e == enable_tracking(p, updates /\ ~high /\ p >= HighSpeed,
                                   updates /\ high)
  <2>1. G(<<a>>)
    <3>1. a \in Going /\ ~Raises(a)
      BY DEF Going, Others, Raises
    <3>. QED BY <1>2, <3>1
  <2>2. G(e)
    <3>1. (updates /\ ~high /\ p >= HighSpeed) \in BOOLEAN /\ (updates /\ high) \in BOOLEAN
      OBVIOUS
    <3>. HIDE DEF updates, high, G
    <3>. QED BY <1>8, <3>1
  <2>3. G(e \o <<a>>)
    <3>. HIDE DEF G, a, e
    <3>. QED BY <1>3, <2>1, <2>2
  <2>. HIDE DEF G
  <2>. QED BY <1>1, <2>3 DEF start_raw_tracking
<1>10. G(set_motor_period_ticks(p)) /\ G(start_raw_tracking(p, update))
  <2>1. G(start_raw_tracking(p, update)) /\ G(start_raw_tracking(p, TRUE))
    BY <1>9
  <2>. HIDE DEF G
  <2>. QED BY <1>1, <2>1 DEF set_motor_period_ticks
<1>11. G(send_raw_command)
  <2>1. Command(Executing) \in Going /\ Command(Nothing) \in Going
    BY DEF Going, Others, Command, Commands
  <2>2. G(set_command)
    BY <2>1, ShortScripts DEF set_command
  <2>. HIDE DEF G
  <2>. QED BY <1>1, <2>2 DEF send_raw_command
<1>. QED BY <1>1, <1>10, <1>11

-----------------------------------------------------------------------------
(* Steps. *)

\* A stop is no script of a driver that goes on.
LEMMA StopsStandOut ==
    \A s \in Stops : /\ s \notin Seq(Going) /\ s # <<>>
                    /\ Head(s).op = "stop" /\ TakenBack(s)
<1>. SUFFICES ASSUME NEW i \in BOOLEAN
              PROVE  LET s == SwpCmdStopAxis(i)
                     IN  /\ s \notin Seq(Going) /\ s # <<>>
                         /\ Head(s).op = "stop" /\ TakenBack(s)
  BY DEF Stops
<1>. DEFINE o == [op |-> "stop", instant |-> i]
<1>1. o \notin Going
  BY DEF Going, Others, Tracks
<1>2. o.op = "stop" /\ ~Raises(o)
  BY DEF Raises
<1>. HIDE DEF o
<1>3. /\ Len(<<o>>) = 1 /\ <<o>>[1] = o /\ Head(<<o>>) = o /\ <<o>> # <<>>
  BY SMT
<1>4. <<o>> \notin Seq(Going)
  <2>1. 1 \in 1..Len(<<o>>)
    BY <1>3
  <2>. QED BY <1>1, <1>3, <2>1, ElementOfSeq
<1>5. TakenBack(<<o>>)
  BY <1>2, <1>3 DEF TakenBack
<1>. QED BY <1>2, <1>3, <1>4, <1>5 DEF SwpCmdStopAxis, o

\* A client's call keeps the invariant if its script keeps the promise, or
\* the call withdraws it.
LEMMA EnterKeeps ==
    ASSUME Inv, NEW d \in Drivers, NEW s, NEW stop \in BOOLEAN,
           Enter(d, s, stop), period' \in Periods, promised' \subseteq promised,
           \/ s \in Seq(Going) /\ TakenBack(s) /\ ~stop
           \/ s \in Stops /\ d = "ASCOM" /\ promised' = {}
              /\ (stop => s = SwpCmdStopAxis(TRUE)),
           promised' = {} \/ s \in Seq(Quiet)
    PROVE  Inv'
<1>. USE DEF Idle
<1>1. /\ todo \in [Drivers -> Seq(Going) \cup Stops] /\ todo[d] = <<>>
      /\ todo' = [todo EXCEPT ![d] = s]
      /\ todo'[d] = s /\ \A e \in Drivers : e # d => todo'[e] = todo[e]
  BY DEF Inv, TypeOK, Enter
<1>2. /\ call \in [Drivers -> [stop : BOOLEAN, alone : BOOLEAN]]
      /\ \A e \in Drivers :
            call'[e] = IF e = d THEN [stop |-> stop, alone |-> \A o \in Drivers : Idle(o)]
                       ELSE [call[e] EXCEPT !.alone = FALSE]
      /\ call' \in [Drivers -> [stop : BOOLEAN, alone : BOOLEAN]]
  BY DEF Inv, TypeOK, Enter
<1>11. /\ call'[d].stop <=> stop
       /\ call'[d].alone => \A o \in Drivers : Idle(o)
       /\ \A e \in Drivers \ {d} : call'[e].stop = call[e].stop /\ ~call'[e].alone
  BY <1>2
<1>3. TakenBack(s)
  BY StopsStandOut
<1>4. TypeOK'
  <2>1. todo' \in [Drivers -> Seq(Going) \cup Stops]
    BY <1>1
  <2>. QED BY <1>2, <2>1 DEF Inv, TypeOK, Enter, axisVars
<1>5. MountInv'
  <2>1. ASSUME cmdcontrol.go
        PROVE  \E e \in Drivers : NextIs(e, "command")' /\ Head(todo'[e]).c = Nothing
    <3>1. PICK e \in Drivers : NextIs(e, "command") /\ Head(todo[e]).c = Nothing
      BY <2>1 DEF Inv, MountInv
    <3>. QED BY <1>1, <3>1 DEF NextIs
  <2>. QED BY <2>1 DEF Inv, MountInv, Enter, axisVars, NextIs
<1>6. StopInv'
  <2>1. ~call'["SkyTracker"].stop
    <3>1. "SkyTracker" \in Drivers /\ ~call["SkyTracker"].stop
      BY DEF Inv, StopInv, Drivers
    <3>2. d = "SkyTracker" => ~stop
      OBVIOUS
    <3>. QED BY <1>11, <3>1, <3>2
  <2>2. ASSUME NEW e \in Drivers, todo'[e] \in Stops
        PROVE  e = "ASCOM" /\ promised' = {}
    BY <1>1, <2>2, StopsStandOut DEF Inv, StopInv
  <2>. QED BY <2>1, <2>2 DEF StopInv
<1>7. Alone'
  BY <1>1, <1>11 DEF Alone
<1>8. StopUnderWay'
  <2>1. CASE d = "ASCOM"
    BY <1>1, <1>11, <2>1 DEF StopUnderWay
  <2>2. CASE d # "ASCOM"
    BY <1>11, <2>2 DEF StopUnderWay, Drivers
  <2>. QED BY <2>1, <2>2
<1>9. Promise'
  BY <1>1 DEF Inv, Promise, Enter, axisVars
<1>10. \A e \in Drivers : TakenBack(todo'[e])
  BY <1>1, <1>3 DEF Inv
<1>. QED BY <1>4, <1>5, <1>6, <1>7, <1>8, <1>9, <1>10 DEF Inv

\* What a step of a driver through its script leaves in order.
LEMMA GoesKeeps ==
    ASSUME Inv, NEW d \in Drivers, ~Idle(d), NEW s \in Seq(Going), TakenBack(s),
           Goes(d, s)
    PROVE  /\ todo' \in [Drivers -> Seq(Going) \cup Stops]
           /\ todo'[d] = s /\ \A e \in Drivers : e # d => todo'[e] = todo[e]
           /\ call' = call /\ period' = period
           /\ promised' \subseteq {"run over", "tracking off"}
           /\ StopInv' /\ Alone' /\ \A e \in Drivers : TakenBack(todo'[e])
           /\ \/ promised' = promised
              \/ /\ d = "ASCOM" /\ call[d].stop /\ call[d].alone
                 /\ \A e \in Drivers : todo'[e] = <<>>
<1>. USE DEF Idle
<1>1. /\ todo \in [Drivers -> Seq(Going) \cup Stops] /\ todo[d] # <<>>
      /\ todo' = [todo EXCEPT ![d] = s] /\ call' = call /\ period' = period
      /\ promised' = IF s = <<>> /\ call[d].stop /\ call[d].alone
                     THEN {"run over", "tracking off"} ELSE promised
  BY DEF Inv, TypeOK, Goes
<1>2. todo'[d] = s /\ \A e \in Drivers : e # d => todo'[e] = todo[e]
  BY <1>1
<1>3. todo' \in [Drivers -> Seq(Going) \cup Stops]
  BY <1>1
<1>4. promised' \subseteq {"run over", "tracking off"}
  BY <1>1 DEF Inv, TypeOK
<1>5. \/ promised' = promised
      \/ /\ d = "ASCOM" /\ call[d].stop /\ call[d].alone
         /\ \A e \in Drivers : todo'[e] = <<>>
  <2>1. CASE s = <<>> /\ call[d].stop /\ call[d].alone
    <3>1. d = "ASCOM"
      BY <2>1 DEF Inv, StopInv, Drivers
    <3>2. \A e \in Drivers : todo'[e] = <<>>
      BY <1>1, <1>2, <2>1 DEF Inv, Alone
    <3>. QED BY <2>1, <3>1, <3>2
  <2>2. CASE ~(s = <<>> /\ call[d].stop /\ call[d].alone)
    BY <1>1, <2>2
  <2>. QED BY <2>1, <2>2
<1>6. StopInv'
  <2>1. ASSUME NEW e \in Drivers, todo'[e] \in Stops
        PROVE  e = "ASCOM" /\ promised' = {}
    <3>1. e # d
      BY <1>2, <2>1, StopsStandOut
    <3>2. todo[e] \in Stops /\ e = "ASCOM" /\ promised = {}
      BY <1>2, <2>1, <3>1 DEF Inv, StopInv
    <3>. QED BY <1>5, <3>1, <3>2
  <2>. QED BY <1>1, <2>1 DEF Inv, StopInv
<1>7. Alone'
  BY <1>1, <1>2 DEF Inv, Alone
<1>8. \A e \in Drivers : TakenBack(todo'[e])
  BY <1>2 DEF Inv
<1>. QED BY <1>1, <1>2, <1>3, <1>4, <1>5, <1>6, <1>7, <1>8

\* The entry a driver that has read the status goes on with.
LEMMA NextEntry ==
    ASSUME Inv, NEW d \in Drivers, ~Idle(d), Head(todo[d]).op # "stop"
    PROVE  /\ todo[d] \in Seq(Going) /\ Head(todo[d]) \in Going
           /\ Tail(todo[d]) \in Seq(Going) /\ TakenBack(Tail(todo[d]))
           /\ todo[d] \in Seq(Quiet) =>
                 Head(todo[d]) \in Quiet /\ Tail(todo[d]) \in Seq(Quiet)
           /\ Raises(Head(todo[d])) =>
                 Tail(todo[d]) # <<>> /\ Head(Tail(todo[d])) = Command(Nothing)
<1>1. todo[d] \in Seq(Going) /\ todo[d] # <<>> /\ TakenBack(todo[d])
  BY StopsStandOut DEF Inv, TypeOK, Idle
<1>2. todo[d] \in Seq(Quiet) =>
         Head(todo[d]) \in Quiet /\ Tail(todo[d]) \in Seq(Quiet)
  BY <1>1, TailTakesBack
<1>. QED BY <1>1, <1>2, TailTakesBack

\* The parts of a script of one or two entries.
LEMMA ShortParts ==
    ASSUME NEW S, NEW o \in S, NEW q \in S
    PROVE  /\ <<>> \o <<o>> = <<o>> /\ <<o>> \o <<q>> = <<o, q>>
           /\ Head(<<o, q>>) = o /\ Tail(<<o, q>>) = <<q>> /\ <<o, q>> # <<>>
           /\ Head(<<o>>) = o /\ Tail(<<o>>) = <<>> /\ <<o>> # <<>>
<1>1. /\ <<o>> \in Seq(S) /\ <<q>> \in Seq(S) /\ <<o, q>> \in Seq(S)
      /\ Len(<<o>>) = 1 /\ Len(<<q>>) = 1 /\ Len(<<o, q>>) = 2
      /\ <<o>>[1] = o /\ <<q>>[1] = q /\ <<o, q>>[1] = o /\ <<o, q>>[2] = q
  BY SMT
<1>2. <<>> \o <<o>> = <<o>>
  BY <1>1, ConcatEmptySeq
<1>3. <<o>> # <<>> /\ <<o, q>> # <<>> /\ Head(<<o>>) = o /\ Head(<<o, q>>) = o
  BY SMT
<1>4. <<o>> \o <<q>> = <<o, q>>
  <2>1. /\ <<o>> \o <<q>> \in Seq(S) /\ Len(<<o>> \o <<q>>) = 2
        /\ (<<o>> \o <<q>>)[1] = o /\ (<<o>> \o <<q>>)[2] = q
    <3>1. /\ <<o>> \o <<q>> \in Seq(S)
          /\ Len(<<o>> \o <<q>>) = Len(<<o>>) + Len(<<q>>)
          /\ \A i \in 1..Len(<<o>>) + Len(<<q>>) :
                (<<o>> \o <<q>>)[i] = IF i <= Len(<<o>>) THEN <<o>>[i]
                                      ELSE <<q>>[i - Len(<<o>>)]
      BY <1>1, ConcatProperties
    <3>. DEFINE a == <<o>>
                b == <<q>>
    <3>. HIDE DEF a, b
    <3>2. /\ a \o b \in Seq(S) /\ Len(a \o b) = 1 + 1
          /\ \A i \in 1..1 + 1 : (a \o b)[i] = IF i <= 1 THEN a[i] ELSE b[i - 1]
          /\ a[1] = o /\ b[1] = q
      BY <1>1, <3>1 DEF a, b
    <3>3. 1 + 1 = 2 /\ 1 \in 1..2 /\ 2 \in 1..2 /\ 1 <= 1 /\ ~(2 <= 1) /\ 2 - 1 = 1
      OBVIOUS
    <3>4. /\ a \o b \in Seq(S) /\ Len(a \o b) = 2
          /\ (a \o b)[1] = o /\ (a \o b)[2] = q
      BY <3>2, <3>3
    <3>. QED BY <3>4 DEF a, b
  <2>. DEFINE a == <<o>> \o <<q>>
              b == <<o, q>>
  <2>. HIDE DEF a, b
  <2>2. /\ a \in Seq(S) /\ b \in Seq(S) /\ Len(a) = Len(b)
        /\ \A i \in 1..Len(a) : a[i] = b[i]
    <3>1. /\ a \in Seq(S) /\ Len(a) = 2 /\ a[1] = o /\ a[2] = q
          /\ b \in Seq(S) /\ Len(b) = 2 /\ b[1] = o /\ b[2] = q
      BY <1>1, <2>1 DEF a, b
    <3>2. \A i \in 1..2 : i = 1 \/ i = 2
      OBVIOUS
    <3>. QED BY <3>1, <3>2
  <2>3. a = b
    BY <2>2, SeqEqual
  <2>. QED BY <2>3 DEF a, b
<1>5. Tail(<<o>>) = <<>> /\ Tail(<<o, q>>) = <<q>>
  <2>. DEFINE a == <<o>>
              b == <<o, q>>
              c == <<q>>
  <2>1. /\ a \in Seq(S) /\ b \in Seq(S) /\ c \in Seq(S) /\ a # <<>> /\ b # <<>>
        /\ Len(a) = 1 /\ Len(b) = 2 /\ Len(c) = 1 /\ b[2] = q /\ c[1] = q
    BY <1>1, <1>3
  <2>. HIDE DEF a, b, c
  <2>2. /\ Tail(a) \in Seq(S) /\ Len(Tail(a)) = Len(a) - 1
        /\ Tail(b) \in Seq(S) /\ Len(Tail(b)) = Len(b) - 1
        /\ \A i \in 1..Len(Tail(b)) : Tail(b)[i] = b[i + 1]
    BY <2>1, HeadTailProperties
  <2>3. Tail(a) = <<>>
    <3>1. Len(Tail(a)) = 0
      BY <2>1, <2>2
    <3>. QED BY <2>2, <3>1, EmptySeq
  <2>4. Tail(b) = c
    <3>3. Len(Tail(b)) = 1 /\ 1 \in 1..1 /\ 1 + 1 = 2
      BY <2>1, <2>2
    <3>1. Len(Tail(b)) = Len(c) /\ Len(Tail(b)) = 1 /\ Tail(b)[1] = c[1]
      BY <2>1, <2>2, <3>3, Zenon
    <3>2. \A i \in 1..Len(Tail(b)) : Tail(b)[i] = c[i]
      BY <3>1
    <3>. QED BY <2>1, <2>2, <3>1, <3>2, SeqEqual
  <2>. QED BY <2>3, <2>4 DEF a, b, c
<1>. QED BY <1>2, <1>3, <1>4, <1>5

\* The scripts of an instant stop, entry by entry.
LEMMA StopShapes ==
    LET w == Track(FALSE, 0)
        c == Command(Cancelling(TRUE))
        s == disable_tracking(TRUE) \o cancel_command(TRUE)
    IN  /\ s = <<w, c>> /\ Head(s) = w /\ Tail(s) = cancel_command(TRUE)
        /\ Head(cancel_command(TRUE)) = c /\ Tail(cancel_command(TRUE)) = <<>>
        /\ cancel_command(TRUE) # <<>> /\ s # <<>>
        /\ w.op = "track" /\ ~w.on /\ c.op = "command"
        /\ SwpCmdStopAxis(TRUE) # <<>> /\ Head(SwpCmdStopAxis(TRUE)).op = "stop"
<1>. DEFINE w == Track(FALSE, 0)
            c == Command(Cancelling(TRUE))
<1>1. w.op = "track" /\ ~w.on /\ c.op = "command"
  BY DEF Track, Command
<1>2. disable_tracking(TRUE) = <<>> \o <<w>> /\ cancel_command(TRUE) = <<c>>
  BY DEF disable_tracking, cancel_command
<1>. HIDE DEF w, c
<1>3. /\ (<<>> \o <<w>>) \o <<c>> = <<w, c>> /\ Head(<<w, c>>) = w
      /\ Tail(<<w, c>>) = <<c>> /\ Head(<<c>>) = c /\ Tail(<<c>>) = <<>>
      /\ <<c>> # <<>> /\ <<w, c>> # <<>>
  <2>1. w \in {w, c} /\ c \in {w, c}
    OBVIOUS
  <2>. DEFINE S == {w, c}
  <2>. HIDE DEF S
  <2>2. w \in S /\ c \in S
    BY <2>1 DEF S
  <2>3. /\ <<>> \o <<w>> = <<w>> /\ <<w>> \o <<c>> = <<w, c>>
        /\ Head(<<w, c>>) = w /\ Tail(<<w, c>>) = <<c>> /\ <<w, c>> # <<>>
    BY <2>2, ShortParts
  <2>4. Head(<<c>>) = c /\ Tail(<<c>>) = <<>> /\ <<c>> # <<>>
    BY <2>2, ShortParts
  <2>5. (<<>> \o <<w>>) \o <<c>> = <<w, c>>
    BY <2>3
  <2>. QED BY <2>3, <2>4, <2>5
<1>4. SwpCmdStopAxis(TRUE) # <<>> /\ Head(SwpCmdStopAxis(TRUE)).op = "stop"
  BY StopsStandOut DEF Stops
<1>. QED BY <1>1, <1>2, <1>3, <1>4 DEF w, c

\* Other drivers than one whose next entry is no command take execute back.
LEMMA WitnessStays ==
    ASSUME Inv, NEW d \in Drivers, ~NextIs(d, "command"), cmdcontrol' = cmdcontrol,
           \A e \in Drivers : e # d => todo'[e] = todo[e]
    PROVE  cmdcontrol'.go => \E e \in Drivers :
              (~Idle(e) /\ Head(todo[e]).op = "command" /\ Head(todo[e]).c = Nothing)'
<1>. SUFFICES ASSUME cmdcontrol.go
              PROVE  \E e \in Drivers : (/\ ~Idle(e) /\ Head(todo[e]).op = "command"
                                          /\ Head(todo[e]).c = Nothing)'
  OBVIOUS
<1>1. PICK e \in Drivers : NextIs(e, "command") /\ Head(todo[e]).c = Nothing
  BY DEF Inv, MountInv
<1>. QED BY <1>1 DEF NextIs, Idle

\* A write of the tracking register.
LEMMA WriteTrackKeeps ==
    ASSUME Inv, NEW d \in Drivers, WriteTrack(d)
    PROVE  Inv'
<1>. DEFINE h == Head(todo[d])
            s == Tail(todo[d])
<1>1. ~Idle(d) /\ h.op = "track" /\ ~NextIs(d, "command") /\ Goes(d, s)
  BY DEF WriteTrack, NextIs
<1>2. h \in Going /\ s \in Seq(Going) /\ TakenBack(s)
      /\ (todo[d] \in Seq(Quiet) => h \in Quiet /\ s \in Seq(Quiet))
  BY <1>1, NextEntry
<1>3. h \in Tracks /\ (h \in Quiet => ~h.on)
  BY <1>1, <1>2 DEF Going, Others, Quiet
<1>4. /\ trackctrl' = [on |-> h.on, raw |-> h.raw]
      /\ axis' = IF axis = "command" THEN axis ELSE Following(trackctrl'.on)
      /\ cmdcontrol' = cmdcontrol /\ m_status' = m_status /\ over' = over
  BY DEF WriteTrack
<1>. HIDE DEF h, s
<1>5. /\ todo' \in [Drivers -> Seq(Going) \cup Stops]
      /\ todo'[d] = s /\ \A e \in Drivers : e # d => todo'[e] = todo[e]
      /\ call' = call /\ period' = period
      /\ promised' \subseteq {"run over", "tracking off"}
      /\ StopInv' /\ Alone' /\ \A e \in Drivers : TakenBack(todo'[e])
      /\ \/ promised' = promised
         \/ /\ d = "ASCOM" /\ call[d].stop /\ call[d].alone
            /\ \A e \in Drivers : todo'[e] = <<>>
  BY <1>1, <1>2, GoesKeeps
<1>6. /\ trackctrl' \in [on : BOOLEAN, raw : Nat] /\ Paced(trackctrl')
      /\ trackctrl'.on <=> h.on
  BY <1>3, <1>4 DEF Tracks, Paced
<1>7. TypeOK'
  BY <1>4, <1>5, <1>6 DEF Inv, TypeOK, Following
<1>8. MountInv'
  <2>1. axis' \in {"command", Following(trackctrl'.on)}
    BY <1>4
  <2>2. trackctrl'.on => \E p \in Periods : p <= trackctrl'.raw
    BY <1>6 DEF Paced
  <2>. QED BY <1>1, <1>4, <1>5, <2>1, <2>2, WitnessStays DEF Inv, MountInv, NextIs
<1>9. d = "ASCOM" /\ call[d].stop /\ call[d].alone =>
         ~h.on /\ s = cancel_command(TRUE)
  BY <1>1, StopShapes DEF Inv, StopUnderWay, Idle, h, s
<1>10. StopUnderWay'
  <2>1. CASE d = "ASCOM"
    BY <1>5, <1>6, <1>9, <2>1 DEF StopUnderWay
  <2>2. CASE d # "ASCOM"
    BY <1>1, <1>5, <2>2 DEF Inv, Alone, StopUnderWay, Idle, Drivers
  <2>. QED BY <2>1, <2>2
<1>11. Promise'
  <2>1. CASE promised' = promised
    BY <1>3, <1>2, <1>4, <1>5, <1>6, <2>1 DEF Inv, Promise
  <2>2. CASE /\ d = "ASCOM" /\ call[d].stop /\ call[d].alone
             /\ \A e \in Drivers : todo'[e] = <<>>
    BY <1>5, <1>9, <2>2, StopShapes
  <2>. QED BY <1>5, <2>1, <2>2
<1>. QED BY <1>5, <1>7, <1>8, <1>10, <1>11 DEF Inv

\* A step that leaves the tracking register alone, other than a stop's.
LEMMA RestKeeps ==
    ASSUME Inv, NEW d \in Drivers, ~Idle(d), NEW s \in Seq(Going), TakenBack(s),
           Goes(d, s), trackctrl' = trackctrl, over' = over,
           Head(todo[d]).op \notin {"stop", "track"},
           Head(todo[d]).op = "command" => s = Tail(todo[d]),
           todo[d] \in Seq(Quiet) /\ ~trackctrl.on => s \in Seq(Quiet),
           m_status' \in [isGoto : BOOLEAN, isSlew : BOOLEAN, isRunning : BOOLEAN,
                          currentPeriod : Speeds],
           axis' \in {"command", Following(trackctrl.on)}, cmdcontrol' \in Commands,
           cmdcontrol'.go => \E e \in Drivers :
              (~Idle(e) /\ Head(todo[e]).op = "command" /\ Head(todo[e]).c = Nothing)'
    PROVE  Inv'
<1>1. /\ todo' \in [Drivers -> Seq(Going) \cup Stops]
      /\ todo'[d] = s /\ \A e \in Drivers : e # d => todo'[e] = todo[e]
      /\ call' = call /\ period' = period
      /\ promised' \subseteq {"run over", "tracking off"}
      /\ StopInv' /\ Alone' /\ \A e \in Drivers : TakenBack(todo'[e])
      /\ \/ promised' = promised
         \/ /\ d = "ASCOM" /\ call[d].stop /\ call[d].alone
            /\ \A e \in Drivers : todo'[e] = <<>>
  BY GoesKeeps
<1>2. TypeOK'
  BY <1>1 DEF Inv, TypeOK, Following
<1>3. MountInv'
  <2>1. axis' \in {"command", Following(trackctrl'.on)}
    OBVIOUS
  <2>2. m_status'.currentPeriod \in {0} \cup Periods
    BY DEF Speeds
  <2>3. trackctrl'.on => \E p \in Periods : p <= trackctrl'.raw
    BY DEF Inv, MountInv
  <2>. QED BY <2>1, <2>2, <2>3 DEF MountInv, NextIs, Idle
<1>4. d = "ASCOM" /\ call[d].stop /\ call[d].alone =>
         s = <<>> /\ (over \/ ~trackctrl.on)
  BY StopShapes DEF Inv, StopUnderWay, Idle
<1>5. StopUnderWay'
  <2>1. CASE d = "ASCOM"
    BY <1>1, <1>4, <2>1 DEF StopUnderWay
  <2>2. CASE d # "ASCOM"
    BY <1>1, <2>2 DEF Inv, Alone, StopUnderWay, Idle, Drivers
  <2>. QED BY <2>1, <2>2
<1>6. Promise'
  <2>1. CASE promised' = promised
    BY <1>1, <2>1 DEF Inv, Promise
  <2>2. CASE /\ d = "ASCOM" /\ call[d].stop /\ call[d].alone
             /\ \A e \in Drivers : todo'[e] = <<>>
    <3>1. <<>> \in Seq(Quiet)
      BY EmptySeq
    <3>. QED BY <1>4, <2>2, <3>1 DEF Promise
  <2>. QED BY <1>1, <2>1, <2>2
<1>. QED BY <1>1, <1>2, <1>3, <1>5, <1>6 DEF Inv

\* A write of the command register.
LEMMA WriteCommandKeeps ==
    ASSUME Inv, NEW d \in Drivers, WriteCommand(d)
    PROVE  Inv'
<1>. DEFINE h == Head(todo[d])
            s == Tail(todo[d])
<1>1. ~Idle(d) /\ h.op = "command" /\ Goes(d, s)
  BY DEF WriteCommand, NextIs
<1>2. h \in Going /\ s \in Seq(Going) /\ TakenBack(s)
      /\ (todo[d] \in Seq(Quiet) => s \in Seq(Quiet))
      /\ (Raises(h) => s # <<>> /\ Head(s) = Command(Nothing))
  BY <1>1, NextEntry
<1>3. h.c \in Commands
  BY <1>1, <1>2 DEF Going, Tracks, Others
<1>4. /\ trackctrl' = trackctrl /\ m_status' = m_status /\ over' = over
      /\ cmdcontrol' = h.c
      /\ axis' = IF cmdcontrol'.go /\ ~cmdcontrol.go THEN "command" ELSE axis
  BY DEF WriteCommand
<1>5. todo'[d] = s
  BY <1>1 DEF Inv, TypeOK, Goes
<1>6. h.c.go => h.c = Executing
  BY <1>3 DEF Commands, Nothing, Executing, Cancelling
<1>7. cmdcontrol'.go => \E e \in Drivers :
        (~Idle(e) /\ Head(todo[e]).op = "command" /\ Head(todo[e]).c = Nothing)'
  <2>. SUFFICES ASSUME cmdcontrol'.go
                PROVE  /\ todo'[d] # <<>> /\ Head(todo'[d]).op = "command"
                       /\ Head(todo'[d]).c = Nothing
    BY DEF Idle
  <2>1. Raises(h)
    BY <1>1, <1>4, <1>6 DEF Raises
  <2>2. s # <<>> /\ Head(s) = Command(Nothing)
    BY <1>2, <2>1
  <2>. QED BY <1>5, <2>2 DEF Command
<1>. QED
  BY <1>1, <1>2, <1>3, <1>4, <1>7, RestKeeps DEF Inv, TypeOK, MountInv

\* A ramp reads the period.
LEMMA RampReadsKeeps ==
    ASSUME Inv, NEW d \in Drivers, RampReads(d)
    PROVE  Inv'
<1>. DEFINE s == RampDown(trackctrl.raw) \o Tail(todo[d])
<1>1. ~Idle(d) /\ Head(todo[d]).op = "ramp_down" /\ Goes(d, s)
  BY DEF RampReads, NextIs
<1>2. /\ trackctrl \in [on : BOOLEAN, raw : Nat] /\ Paced(trackctrl)
      /\ todo \in [Drivers -> Seq(Going) \cup Stops]
  BY DEF Inv, TypeOK
<1>3. /\ Tail(todo[d]) \in Seq(Going) /\ TakenBack(Tail(todo[d]))
      /\ todo[d] \in Seq(Quiet) => Tail(todo[d]) \in Seq(Quiet)
  BY <1>1, NextEntry
<1>4. /\ RampDown(trackctrl.raw) \in Seq(Going) /\ TakenBack(RampDown(trackctrl.raw))
      /\ ~trackctrl.on => RampDown(trackctrl.raw) = <<>>
  <2>1. CASE trackctrl.on
    BY <1>2, <2>1, RampsPaced, TracksTakeBack DEF Paced
  <2>2. CASE ~trackctrl.on
    BY <1>2, <2>2, ShortScripts DEF Paced, RampDown
  <2>. QED BY <2>1, <2>2
<1>5. s \in Seq(Going) /\ TakenBack(s)
  BY <1>3, <1>4, ConcatTakesBack
<1>6. todo[d] \in Seq(Quiet) /\ ~trackctrl.on => s \in Seq(Quiet)
  BY <1>3, <1>4, ConcatEmptySeq
<1>7. /\ axis' = axis /\ cmdcontrol' = cmdcontrol /\ trackctrl' = trackctrl
      /\ m_status' = m_status /\ over' = over
  BY DEF RampReads, axisVars
<1>8. \A e \in Drivers : e # d => todo'[e] = todo[e]
  BY <1>1, <1>2 DEF Goes
<1>. HIDE DEF s
<1>9. cmdcontrol'.go => \E e \in Drivers :
        (~Idle(e) /\ Head(todo[e]).op = "command" /\ Head(todo[e]).c = Nothing)'
  BY <1>1, <1>7, <1>8, WitnessStays DEF NextIs
<1>. QED
  BY <1>1, <1>5, <1>6, <1>7, <1>9, RestKeeps DEF Inv, TypeOK, MountInv

\* A status query reads the status.
LEMMA StatusReadsKeeps ==
    ASSUME Inv, NEW d \in Drivers, StatusReads(d)
    PROVE  Inv'
<1>1. ~Idle(d) /\ Head(todo[d]).op = "status" /\ Goes(d, StatusScript)
  BY DEF StatusReads, NextIs
<1>2. StatusScript \in Seq(Quiet) /\ StatusScript \in Seq(Going) /\ TakenBack(StatusScript)
  BY QuietScripts, QuietGoing
<1>3. /\ axis' = axis /\ cmdcontrol' = cmdcontrol /\ trackctrl' = trackctrl
      /\ m_status' = m_status /\ over' = over
  BY DEF StatusReads, axisVars
<1>4. \A e \in Drivers : e # d => todo'[e] = todo[e]
  BY <1>1 DEF Inv, TypeOK, Goes
<1>5. cmdcontrol'.go => \E e \in Drivers :
        (~Idle(e) /\ Head(todo[e]).op = "command" /\ Head(todo[e]).c = Nothing)'
  BY <1>1, <1>3, <1>4, WitnessStays DEF NextIs
<1>. QED
  BY <1>1, <1>2, <1>3, <1>5, RestKeeps DEF Inv, TypeOK, MountInv

\* An assignment to the cached status.
LEMMA AssignKeeps ==
    ASSUME Inv, NEW d \in Drivers, Assign(d)
    PROVE  Inv'
<1>. DEFINE h == Head(todo[d])
            s == Tail(todo[d])
<1>1. ~Idle(d) /\ h.op = "assign" /\ Goes(d, s)
  BY DEF Assign, NextIs
<1>2. h \in Going /\ s \in Seq(Going) /\ TakenBack(s)
      /\ (todo[d] \in Seq(Quiet) => s \in Seq(Quiet))
  BY <1>1, NextEntry
<1>3. \/ h.field \in Flags /\ h.value \in BOOLEAN
      \/ h.field = "currentPeriod" /\ h.value \in Periods
  BY <1>1, <1>2 DEF Going, Tracks, Others
<1>4. /\ axis' = axis /\ cmdcontrol' = cmdcontrol /\ trackctrl' = trackctrl
      /\ m_status' = [m_status EXCEPT ![h.field] = h.value] /\ over' = over
  BY DEF Assign, axisVars
<1>5. \A e \in Drivers : e # d => todo'[e] = todo[e]
  BY <1>1 DEF Inv, TypeOK, Goes
<1>. HIDE DEF h, s
<1>6. m_status' \in [isGoto : BOOLEAN, isSlew : BOOLEAN, isRunning : BOOLEAN,
                     currentPeriod : Speeds]
  <2>1. m_status \in [isGoto : BOOLEAN, isSlew : BOOLEAN, isRunning : BOOLEAN,
                      currentPeriod : Speeds]
    BY DEF Inv, TypeOK
  <2>2. CASE h.field = "isGoto"
    BY <1>3, <1>4, <2>1, <2>2
  <2>3. CASE h.field = "isSlew"
    BY <1>3, <1>4, <2>1, <2>3
  <2>4. CASE h.field = "isRunning"
    BY <1>3, <1>4, <2>1, <2>4
  <2>5. CASE h.field = "currentPeriod"
    BY <1>3, <1>4, <2>1, <2>5 DEF Speeds, Flags
  <2>. QED BY <1>3, <2>2, <2>3, <2>4, <2>5 DEF Flags
<1>7. cmdcontrol'.go => \E e \in Drivers :
        (~Idle(e) /\ Head(todo[e]).op = "command" /\ Head(todo[e]).c = Nothing)'
  BY <1>1, <1>4, <1>5, WitnessStays DEF NextIs, h
<1>. QED
  BY <1>1, <1>2, <1>4, <1>6, <1>7, RestKeeps DEF Inv, TypeOK, MountInv, h

\* A stop reads the status.
LEMMA StopReadsKeeps ==
    ASSUME Inv, NEW d \in Drivers, StopReads(d)
    PROVE  Inv'
<1>. DEFINE h == Head(todo[d])
            s == StopScript(h.instant)
<1>1. ~Idle(d) /\ h.op = "stop" /\ Goes(d, s)
  BY DEF StopReads, NextIs
<1>2. /\ axis' = axis /\ cmdcontrol' = cmdcontrol /\ trackctrl' = trackctrl
      /\ m_status' = m_status /\ over' = (axis = "command" /\ trackctrl.on)
  BY DEF StopReads, axisVars
<1>3. todo[d] \in Stops /\ d = "ASCOM" /\ promised = {}
  <2>1. todo[d] \notin Seq(Going)
    <3>1. \A o \in Going : o.op # "stop"
      BY DEF Going, Tracks, Others
    <3>2. ASSUME todo[d] \in Seq(Going) PROVE h \in Going
      BY <1>1, <3>2, HeadTailProperties DEF Idle
    <3>. QED BY <1>1, <3>1, <3>2
  <2>. QED BY <2>1 DEF Inv, TypeOK, StopInv
<1>4. PICK i \in BOOLEAN : todo[d] = SwpCmdStopAxis(i) /\ h = [op |-> "stop", instant |-> i]
  <2>1. ASSUME NEW i \in BOOLEAN
        PROVE  Head(SwpCmdStopAxis(i)) = [op |-> "stop", instant |-> i]
    BY DEF SwpCmdStopAxis
  <2>. QED BY <1>3, <2>1 DEF Stops
<1>5. h.instant = i /\ s \in Seq(Quiet) /\ s \in Seq(Going) /\ TakenBack(s)
  BY <1>4, QuietScripts, QuietGoing
<1>6. s # <<>>
  <2>1. /\ cancel_command(i) \in Seq(Quiet)
        /\ (IF axis = "tracking" THEN disable_tracking(i) ELSE <<>>) \in Seq(Quiet)
    BY QuietScripts
  <2>2. cancel_command(i) # <<>>
    BY DEF cancel_command
  <2>. QED BY <1>5, <2>1, <2>2, ConcatEqualIffEmpty DEF StopScript
<1>7. call["ASCOM"].stop /\ call["ASCOM"].alone => i
  <2>1. call["ASCOM"].stop /\ call["ASCOM"].alone => todo[d] = SwpCmdStopAxis(TRUE)
    <3>1. /\ Head(disable_tracking(TRUE) \o cancel_command(TRUE)).op # "stop"
          /\ Head(cancel_command(TRUE)).op # "stop"
      BY StopShapes
    <3>. QED BY <1>1, <1>3, <3>1 DEF Inv, StopUnderWay, Idle
  <2>2. Head(SwpCmdStopAxis(TRUE)).instant = TRUE
    BY DEF SwpCmdStopAxis
  <2>3. h.instant = i
    BY <1>4
  <2>. QED BY <2>1, <2>2, <2>3
<1>. HIDE DEF h, s
<1>8. /\ todo' \in [Drivers -> Seq(Going) \cup Stops]
      /\ todo'[d] = s /\ \A e \in Drivers : e # d => todo'[e] = todo[e]
      /\ call' = call /\ period' = period
      /\ promised' \subseteq {"run over", "tracking off"}
      /\ StopInv' /\ Alone' /\ \A e \in Drivers : TakenBack(todo'[e])
  BY <1>1, <1>5, GoesKeeps
<1>9. promised' = {}
  BY <1>1, <1>3, <1>6 DEF Goes
<1>10. TypeOK'
  BY <1>2, <1>8 DEF Inv, TypeOK
<1>11. MountInv'
  <2>1. cmdcontrol'.go => \E e \in Drivers :
          (~Idle(e) /\ Head(todo[e]).op = "command" /\ Head(todo[e]).c = Nothing)'
    BY <1>1, <1>2, <1>8, WitnessStays DEF NextIs, h
  <2>. QED BY <1>2, <2>1 DEF Inv, MountInv, NextIs, Idle
<1>12. StopUnderWay'
  <2>1. axis \in {"command", Following(trackctrl.on)}
    BY DEF Inv, MountInv
  <2>2. CASE axis = "tracking"
    <3>1. s = disable_tracking(i) \o cancel_command(i)
      BY <1>5, <2>2 DEF StopScript, s
    <3>. QED BY <1>3, <1>7, <1>8, <3>1 DEF StopUnderWay
  <2>3. CASE axis # "tracking"
    <3>1. s = <<>> \o cancel_command(i)
      BY <1>5, <2>3 DEF StopScript, s
    <3>2. s = cancel_command(i)
      BY <3>1, QuietScripts, ConcatEmptySeq
    <3>3. over' \/ ~trackctrl'.on
      BY <1>2, <2>1, <2>3 DEF Following
    <3>. QED BY <1>3, <1>7, <1>8, <3>2, <3>3 DEF StopUnderWay
  <2>. QED BY <2>2, <2>3
<1>13. Promise'
  BY <1>9 DEF Promise
<1>. QED BY <1>8, <1>10, <1>11, <1>12, <1>13 DEF Inv

\* Every call of a client.
LEMMA CallKeeps ==
    ASSUME Inv, NEW d \in Drivers, Call(d)
    PROVE  Inv'
<1>1. period \in Periods /\ \A x \in SUBSET promised : x \subseteq promised
  BY DEF Inv, TypeOK
<1>2. ASSUME NEW p \in Periods, SetPeriod(d, p) PROVE Inv'
  <2>1. promised' = {} /\ promised' \subseteq promised /\ period' \in Periods
    BY <1>2 DEF SetPeriod
  <2>2. CASE Enter(d, set_motor_period_ticks(p), FALSE)
    BY <2>1, <2>2, StartScripts, EnterKeeps
  <2>3. CASE Enter(d, <<>>, FALSE)
    BY <2>1, <2>3, StartScripts, EnterKeeps
  <2>. QED BY <1>2, <2>2, <2>3 DEF SetPeriod
<1>3. ASSUME NEW p \in Periods, NEW u \in BOOLEAN, Start(d, p, u) PROVE Inv'
  <2>1. promised' = {} /\ promised' \subseteq promised /\ period' \in Periods
    BY <1>1, <1>3 DEF Start
  <2>2. CASE Enter(d, start_raw_tracking(p, u), FALSE)
    BY <2>1, <2>2, StartScripts, EnterKeeps
  <2>3. CASE Enter(d, send_raw_command, FALSE)
    BY <2>1, <2>3, StartScripts, EnterKeeps
  <2>. QED BY <1>3, <2>2, <2>3 DEF Start
<1>4. ASSUME NEW i \in BOOLEAN, Cease(d, i) PROVE Inv'
  <2>1. promised' \subseteq promised /\ period' \in Periods
    BY <1>1, <1>4 DEF Cease
  <2>2. ASSUME NEW s, s \in Seq(Quiet), TakenBack(s), Enter(d, s, FALSE) PROVE Inv'
    BY <2>1, <2>2, QuietGoing, EnterKeeps
  <2>3. /\ SwpCmdInitialize \in Seq(Quiet) /\ TakenBack(SwpCmdInitialize)
        /\ disable_tracking(i) \in Seq(Quiet) /\ TakenBack(disable_tracking(i))
        /\ cancel_command(i) \in Seq(Quiet) /\ TakenBack(cancel_command(i))
    BY QuietScripts
  <2>. QED BY <1>4, <2>2, <2>3 DEF Cease
<1>5. ASSUME NEW i \in BOOLEAN, Stop(d, i) PROVE Inv'
  <2>1. promised' = {} /\ promised' \subseteq promised /\ period' \in Periods
    BY <1>1, <1>5 DEF Stop
  <2>2. /\ Enter(d, SwpCmdStopAxis(i), i) /\ d = "ASCOM"
        /\ SwpCmdStopAxis(i) \in Stops /\ (i => SwpCmdStopAxis(i) = SwpCmdStopAxis(TRUE))
    BY <1>5 DEF Stop, Stops
  <2>. QED BY <2>1, <2>2, EnterKeeps
<1>6. ASSUME GetStatus(d) PROVE Inv'
  <2>1. promised' \subseteq promised /\ period' \in Periods
    BY <1>1, <1>6 DEF GetStatus
  <2>2. /\ SwpGetAxisStatus \in Seq(Quiet) /\ SwpGetAxisStatus \in Seq(Going)
        /\ TakenBack(SwpGetAxisStatus)
    BY QuietScripts, QuietGoing
  <2>. QED BY <1>6, <2>1, <2>2, EnterKeeps DEF GetStatus
<1>. QED BY <1>2, <1>3, <1>4, <1>5, <1>6 DEF Call

\* The end of a run.
LEMMA RunEndsKeeps ==
    ASSUME Inv, RunEnds
    PROVE  Inv'
<1>1. /\ axis' = Following(trackctrl.on) /\ axis' \in {"idle", "tracking"}
      /\ cmdcontrol' = cmdcontrol /\ trackctrl' = trackctrl /\ m_status' = m_status
      /\ period' = period /\ todo' = todo /\ call' = call
      /\ promised' = promised /\ over' = over
  BY DEF RunEnds, ghostVars, Following
<1>2. TypeOK'
  BY <1>1 DEF Inv, TypeOK
<1>3. MountInv'
  BY <1>1 DEF Inv, MountInv, NextIs, Idle
<1>4. StopInv' /\ Alone'
  BY <1>1 DEF Inv, StopInv, Alone, Idle
<1>5. StopUnderWay'
  BY <1>1 DEF Inv, StopUnderWay
<1>6. Promise' /\ \A d \in Drivers : TakenBack(todo'[d])
  BY <1>1 DEF Inv, Promise
<1>. QED BY <1>2, <1>3, <1>4, <1>5, <1>6 DEF Inv

-----------------------------------------------------------------------------
(* Theorems. *)

\* Nothing is on its way when the drivers are there.
LEMMA InitOK == Init => Inv
<1>. SUFFICES ASSUME Init PROVE Inv
  OBVIOUS
<1>1. \A d \in Drivers : todo[d] = <<>>
  BY DEF Init
<1>2. <<>> \in Seq(Going) /\ <<>> \in Seq(Quiet) /\ TakenBack(<<>>)
  BY ShortScripts
<1>3. TypeOK
  <2>1. todo \in [Drivers -> Seq(Going) \cup Stops]
    BY <1>2 DEF Init
  <2>2. trackctrl \in [on : BOOLEAN, raw : Nat] /\ Paced(trackctrl)
    BY DEF Init, Paced
  <2>. QED BY <2>1, <2>2 DEF Init, TypeOK, Commands, Speeds
<1>4. MountInv
  BY DEF Init, MountInv, Nothing, Following
<1>5. StopInv
  BY <1>1, StopsStandOut DEF Init, StopInv, Drivers
<1>6. Alone /\ StopUnderWay /\ Promise
  BY <1>1, <1>2 DEF Init, Alone, StopUnderWay, Promise, Idle, Drivers
<1>. QED BY <1>1, <1>2, <1>3, <1>4, <1>5, <1>6 DEF Inv

\* Every step keeps the invariant.
LEMMA NextKeeps == Inv /\ [Next]_vars => Inv'
<1>. SUFFICES ASSUME Inv, [Next]_vars PROVE Inv'
  OBVIOUS
<1>1. CASE RunEnds
  BY <1>1, RunEndsKeeps
<1>2. ASSUME NEW d \in Drivers, Call(d) PROVE Inv'
  BY <1>2, CallKeeps
<1>3. ASSUME NEW d \in Drivers, Step(d) PROVE Inv'
  BY <1>3, WriteTrackKeeps, WriteCommandKeeps, RampReadsKeeps, StopReadsKeeps,
     StatusReadsKeeps, AssignKeeps DEF Step
<1>4. CASE UNCHANGED vars
  <2>. USE <1>4 DEF vars, axisVars, ghostVars
  <2>1. TypeOK'
    BY DEF Inv, TypeOK
  <2>2. MountInv'
    BY DEF Inv, MountInv, NextIs, Idle
  <2>3. StopInv' /\ Alone'
    BY DEF Inv, StopInv, Alone, Idle
  <2>4. StopUnderWay'
    BY DEF Inv, StopUnderWay
  <2>5. Promise' /\ \A d \in Drivers : TakenBack(todo'[d])
    BY DEF Inv, Promise
  <2>. QED BY <2>1, <2>2, <2>3, <2>4, <2>5 DEF Inv
<1>. QED BY <1>1, <1>2, <1>3, <1>4 DEF Next

\* The axis, the registers and the scripts fit together: execute is up only
\* while its driver is about to take it back, and no ramp asks for a period
\* below every one that clients may ask for.
THEOREM MountInOrder == Spec => []MountInv
<1>1. Spec => []Inv
  BY InitOK, NextKeeps, PTL DEF Spec
<1>2. Inv => MountInv
  BY DEF Inv
<1>. QED BY <1>1, <1>2, PTL

\* After an instant stop that no other call met, tracking stays off until a
\* client asks for it.
THEOREM StopHoldsAlways == Spec => []StopHolds
<1>1. Spec => []Inv
  BY InitOK, NextKeeps, PTL DEF Spec
<1>2. Inv => StopHolds
  BY DEF Inv, Promise, StopHolds
<1>. QED BY <1>1, <1>2, PTL

\* A set_command that no other call meets starts a run: the execute bit is
\* down, since whoever raised it would still be there to take it back.
THEOREM ExecuteAlwaysTakes == Spec => ExecuteTakes
<1>1. Spec => []Inv
  BY InitOK, NextKeeps, PTL DEF Spec
<1>2. Inv /\ [Next]_vars =>
        [\A d \in Drivers :
           WriteCommand(d) /\ call[d].alone /\ Head(todo[d]).c = Executing
           => axis' = "command"]_vars
  <2>. SUFFICES ASSUME Inv, NEW d \in Drivers, WriteCommand(d), call[d].alone,
                       Head(todo[d]).c = Executing
                PROVE  axis' = "command"
    OBVIOUS
  <2>1. ~cmdcontrol.go
    <3>. SUFFICES ASSUME cmdcontrol.go PROVE FALSE
      OBVIOUS
    <3>1. PICK e \in Drivers : NextIs(e, "command") /\ Head(todo[e]).c = Nothing
      BY DEF Inv, MountInv
    <3>2. e # d
      BY <3>1 DEF Executing, Nothing
    <3>. QED BY <3>1, <3>2 DEF Inv, Alone, NextIs, WriteCommand
  <2>. QED BY <2>1 DEF WriteCommand, Executing, Nothing
<1>. QED BY <1>1, <1>2, PTL DEF Spec, ExecuteTakes

=============================================================================
