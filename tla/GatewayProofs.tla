---------------------------- MODULE GatewayProofs ----------------------------
(***************************************************************************)
(* Gateway and SkyTracker, for every period, limit, count and use:         *)
(*   - what SkyTracker keeps of a motor's type is what the register says,  *)
(*     unless two calls have worked on the types at once; also when the    *)
(*     server ends half way through such a call and is started again       *)
(*     (TypesAlwaysAgree);                                                 *)
(*   - a motion that no other call met is the one its client asked for,    *)
(*     and the handset is shown the position it has set, while the counter *)
(*     holds it, where a handset has no other clients beside it            *)
(*     (StartsAlwaysAsTold, AlwaysReadsBack).                              *)
(***************************************************************************)
EXTENDS Gateway, SequenceTheorems, TLAPS

-----------------------------------------------------------------------------
(* The inductive invariant. *)

\* What a step may do: set a field, change the types or a count, the answer;
\* and a script that spares all of this.
Does(x, e) ==
    \/ x.op = "set" /\ x.field = e
    \/ x.op \in {"type", "types"} /\ e = "is_TMC"
    \/ e = "count" /\ (x.op = "position" \/ (x.op = "reg" /\ x.reg = "count"))
    \/ /\ e = "answer"
       /\ x.op \notin {"track", "command", "reg", "update", "types"}
       /\ x.op = "position" => x.value > CountEnd
       /\ x.op = "set" => x.field # "init"

StepsOf(s) == {s[i] : i \in DOMAIN s}
Spares(s, F) == s \in Seq(StepsOf(s)) /\ \A x \in StepsOf(s), e \in F : ~Does(x, e)

\* A script that spares the motor types is plain.
OfTypes(x) == Does(x, "is_TMC")
Plain(s) == Spares(s, {"is_TMC"})

\* What is kept of an axis is what the register says.
Agrees(a) == (m_params[a].is_TMC = 1) <=> (a \in tmc_select)
AllAgree == \A a \in Axes : Agrees(a)
AgreeBesides(a) == \A b \in Axes \ {a} : Agrees(b)

\* A call that sets the type of a, or gets it, and what holds on its way.
SetsType(d, a, t) ==
    \/ todo[d] = <<Set(a, "is_TMC", t), ReadType(a, t)>> /\ AllAgree
    \/ /\ todo[d] = <<ReadType(a, t)>> \/ todo[d] = <<WriteTypes(TypesWith(a, t))>>
       /\ m_params[a].is_TMC = t /\ AgreeBesides(a)

GetsType(d, a) == todo[d] = <<ReadType(a, -1)>> /\ AllAgree

OnTypes(d) == \E a \in Axes : GetsType(d, a) \/ \E t \in Bit : SetsType(d, a, t)

\* No two calls work on the types at once, and between them all agrees.
CallsInv == up /\ ~met =>
    /\ \A d \in Drivers : Plain(todo[d]) \/ OnTypes(d)
    /\ \A d, e \in Drivers : d # e => Plain(todo[d]) \/ Plain(todo[e])
    /\ (\A d \in Drivers : Plain(todo[d])) => AllAgree

\* The constructor is at its k-th step, or has the types to write before it;
\* the axes whose types it has set are TMC's.
AtStep(s, k) ==
    /\ Len(s) = 9 - k /\ \A i \in 1..(9 - k) : s[i] = Constructor[i + k - 1]
    /\ \A a \in Axes : 2 * a + 3 <= k => a \in tmc_select

AtTypes(s, a) ==
    /\ Len(s) = 7 - 2 * a /\ s[1] = WriteTypes(TypesWith(a, 1))
    /\ \A i \in 2..(7 - 2 * a) : s[i] = Constructor[i + 2 * a + 1]
    /\ \A b \in Axes : b < a => b \in tmc_select

ConstructorInv == ~up =>
    /\ todo["ASCOM"] = <<>> /\ todo["Focuser"] = <<>>
    /\ \A a \in Axes : m_params[a].is_TMC = 1
    /\ LET s == todo["SkyTracker"]
       IN  /\ s \in Seq(StepsOf(s))
           /\ (\E k \in 1..8 : AtStep(s, k)) \/ (\E a \in Axes : AtTypes(s, a))

ShapeOK == /\ DOMAIN todo = Drivers /\ DOMAIN m_params = Axes
           /\ \A a \in Axes : "is_TMC" \in DOMAIN m_params[a]

\* What is kept of axes, drivers and calls is there.
Fields == { "slew_period", "goto_period", "slew_forward", "goto_forward",
            "target", "ncycles", "min", "steps" }

RegsOK ==
    /\ DOMAIN regs = Axes
    /\ \A a \in Axes : {"cmdtick", "cmdduration", "count"} \subseteq DOMAIN regs[a]

RecordsOK ==
    /\ RegsOK /\ DOMAIN call = Drivers /\ DOMAIN answer = Drivers
    /\ \A d \in Drivers : "alone" \in DOMAIN call[d]
    /\ \A a \in Axes : Fields \subseteq DOMAIN m_params[a]

Known == [letter : Letters, axis : MountAxes, data : Data]
LinkOK == toGateway \in Seq(Known) /\ asked \in Known \cup {Nothing}

TypesInv == ShapeOK /\ CallsInv /\ ConstructorInv

\* The step leaves the count alone, or no longer takes it for what it was set to.
SameCount(a) == a \in held' => a \in held /\ regs'[a].count = regs[a].count

-----------------------------------------------------------------------------
(* Scripts that spare what their steps do not do. *)

\* A sequence over steps none of which does it spares it.
LEMMA SparesIf ==
    ASSUME NEW F, NEW S, NEW s \in Seq(S), \A x \in S, e \in F : ~Does(x, e)
    PROVE  Spares(s, F)
<1>1. Len(s) \in Nat /\ s \in [1..Len(s) -> S] /\ DOMAIN s = 1..Len(s)
  BY LenProperties
<1>2. StepsOf(s) \subseteq S /\ \A i \in 1..Len(s) : s[i] \in StepsOf(s)
  BY <1>1 DEF StepsOf
<1>3. s \in [1..Len(s) -> StepsOf(s)]
  BY <1>1, <1>2
<1>4. s \in Seq(StepsOf(s))
  BY <1>1, <1>3, SeqDef
<1>. QED BY <1>2, <1>4 DEF Spares

\* So do the empty script and one of a single step ...
LEMMA SparesEmpty == \A F : Spares(<<>>, F)
<1>. SUFFICES ASSUME NEW F PROVE Spares(<<>>, F)
  OBVIOUS
<1>. DEFINE S == {} s == <<>>
<1>1. s \in Seq(S) /\ \A x \in S, e \in F : ~Does(x, e)
  OBVIOUS
<1>. HIDE DEF S, s
<1>2. Spares(s, F)
  BY <1>1, SparesIf
<1>. QED BY <1>2 DEF s

\* A script of one step spares what that step does not do.
LEMMA SparesStep ==
    ASSUME NEW F, NEW x, \A e \in F : ~Does(x, e)
    PROVE  Spares(<<x>>, F)
<1>. DEFINE S == {x}
<1>1. <<x>> \in Seq(S) /\ \A y \in S, e \in F : ~Does(y, e)
  OBVIOUS
<1>. HIDE DEF S
<1>. QED BY <1>1, SparesIf

\* ... what is left of such a script after its first step ...
LEMMA SparesTail ==
    ASSUME NEW F, NEW s, Spares(s, F), s # <<>>
    PROVE  Spares(Tail(s), F) /\ \A e \in F : ~Does(Head(s), e)
<1>1. s \in Seq(StepsOf(s)) /\ \A x \in StepsOf(s), e \in F : ~Does(x, e)
  BY DEF Spares
<1>2. Head(s) \in StepsOf(s) /\ Tail(s) \in Seq(StepsOf(s))
  BY <1>1, HeadTailProperties
<1>. QED BY <1>1, <1>2, SparesIf

\* ... and one such script after another.
LEMMA SparesJoin ==
    ASSUME NEW F, NEW s, NEW t, Spares(s, F), Spares(t, F)
    PROVE  Spares(s \o t, F)
<1>. DEFINE S == StepsOf(s) \cup StepsOf(t)
<1>1. \A x \in S, e \in F : ~Does(x, e)
  BY DEF Spares
<1>2. s \in Seq(S) /\ t \in Seq(S)
  <2>1. s \in Seq(StepsOf(s)) /\ t \in Seq(StepsOf(t))
    BY DEF Spares
  <2>2. s \in [1..Len(s) -> S] /\ t \in [1..Len(t) -> S] /\ Len(s) \in Nat /\ Len(t) \in Nat
    BY <2>1, LenProperties
  <2>. HIDE DEF S
  <2>. QED BY <2>2, SeqDef
<1>. HIDE DEF S
<1>3. s \o t \in Seq(S)
  BY <1>2, ConcatProperties
<1>. QED BY <1>1, <1>3, SparesIf

\* Scripts of two, three and four steps.
LEMMA SparesSteps ==
    ASSUME NEW F, NEW w, NEW x, NEW y, NEW z,
           \A e \in F : ~Does(w, e) /\ ~Does(x, e) /\ ~Does(y, e) /\ ~Does(z, e)
    PROVE  Spares(<<w, x>>, F) /\ Spares(<<w, x, y>>, F) /\ Spares(<<w, x, y, z>>, F)
<1>. DEFINE S == {w, x, y, z}
<1>1. \A u \in S, e \in F : ~Does(u, e)
  OBVIOUS
<1>2. <<w, x>> \in Seq(S) /\ <<w, x, y>> \in Seq(S) /\ <<w, x, y, z>> \in Seq(S)
  OBVIOUS
<1>. HIDE DEF S
<1>3. Spares(<<w, x>>, F)
  BY <1>1, <1>2, SparesIf
<1>4. Spares(<<w, x, y>>, F)
  BY <1>1, <1>2, SparesIf
<1>5. Spares(<<w, x, y, z>>, F)
  BY <1>1, <1>2, SparesIf
<1>. QED BY <1>3, <1>4, <1>5

\* What MotorDriver does to move an axis spares all of it ...
LEMMA SparesMotions ==
    ASSUME NEW F
    PROVE  /\ \A a, p, v, goto, f : Spares(set_command(a, p, v, goto, f), F)
           /\ \A a : /\ Spares(cancel_command(a), F) /\ Spares(disable_tracking(a), F)
                    /\ Spares(enable_tracking(a), F)
           /\ \A s : Spares(HandOn(s), F)
           /\ \A a, v : "count" \notin F /\ ("answer" \in F => ~(v > CountEnd)) =>
                Spares(set_current_position(a, v), F)
<1>1. ASSUME NEW a, NEW p, NEW v, NEW goto, NEW f
      PROVE  Spares(set_command(a, p, v, goto, f), F)
  <2>1. \A e : /\ ~Does(WriteReg(a, "cmdtick", p), e)
               /\ ~Does(WriteReg(a, "cmdduration", v), e)
               /\ \A c : ~Does(WriteCommand(a, c), e)
    BY DEF Does, WriteReg, WriteCommand
  <2>. QED BY <2>1, SparesSteps DEF set_command
<1>2. ASSUME NEW a
      PROVE  /\ Spares(cancel_command(a), F) /\ Spares(disable_tracking(a), F)
             /\ Spares(enable_tracking(a), F)
  <2>1. \A c, e : ~Does(WriteCommand(a, c), e)
    BY DEF Does, WriteCommand
  <2>2. \A on, p, f, e : ~Does(WriteTrack(a, on, p, f), e)
    BY DEF Does, WriteTrack
  <2>3. Spares(cancel_command(a), F)
    BY <2>1, SparesStep DEF cancel_command
  <2>4. Spares(disable_tracking(a), F)
    BY <2>2, SparesStep DEF disable_tracking
  <2>5. Spares(enable_tracking(a), F)
    BY <2>2, SparesStep DEF enable_tracking
  <2>. QED BY <2>3, <2>4, <2>5
<1>3. ASSUME NEW s PROVE Spares(HandOn(s), F)
  <2>. DEFINE x == [op |-> "update", axis |-> s.axis]
  <2>1. \A e : ~Does(x, e)
    BY DEF Does
  <2>. HIDE DEF x
  <2>2. Spares(<<x>>, F) /\ Spares(<<>>, F)
    BY <2>1, SparesStep, SparesEmpty
  <2>. QED BY <2>2 DEF HandOn, x
<1>4. ASSUME NEW a, NEW v, "count" \notin F, "answer" \in F => ~(v > CountEnd)
      PROVE  Spares(set_current_position(a, v), F)
  <2>. DEFINE x == [op |-> "position", axis |-> a, value |-> v]
  <2>1. \A e \in F : ~Does(x, e)
    BY <1>4 DEF Does
  <2>. HIDE DEF x
  <2>2. Spares(<<x>>, F)
    BY <2>1, SparesStep
  <2>. QED BY <2>2 DEF set_current_position, x
<1>. QED BY <1>1, <1>2, <1>3, <1>4

\* ... and what initialises one does not, but for the counts.
LEMMA SparesInitialize ==
    ASSUME NEW F, "count" \notin F, "init" \notin F
    PROVE  \A a : Spares(SwpCmdInitialize(a), F)
<1>. SUFFICES ASSUME NEW a PROVE Spares(SwpCmdInitialize(a), F)
  OBVIOUS
<1>1. Spares(<<Set(a, "init", 1)>>, F)
  <2>1. \A e \in F : ~Does(Set(a, "init", 1), e)
    BY DEF Does, Set
  <2>. QED BY <2>1, SparesStep
<1>2. /\ Spares(disable_tracking(a), F) /\ Spares(cancel_command(a), F)
      /\ \A b : Spares(set_current_position(b, Center), F)
  <2>1. ~(Center > CountEnd)
    BY SkyTrackerAssumption
  <2>. QED BY <2>1, SparesMotions
<1>3. Spares(disable_tracking(a) \o cancel_command(a), F)
  BY <1>2, SparesJoin
<1>4. Spares(disable_tracking(a) \o cancel_command(a) \o set_current_position(0, Center), F)
  BY <1>2, <1>3, SparesJoin
<1>5. Spares(disable_tracking(a) \o cancel_command(a) \o set_current_position(0, Center)
               \o set_current_position(1, Center), F)
  BY <1>2, <1>4, SparesJoin
<1>. QED BY <1>1, <1>5, SparesJoin DEF SwpCmdInitialize

\* Plain scripts are such scripts.
LEMMA PlainEmpty == Plain(<<>>)
BY SparesEmpty DEF Plain

\* A single step that leaves the types alone is a plain script.
LEMMA PlainStep ==
    ASSUME NEW x, ~OfTypes(x)
    PROVE  Plain(<<x>>)
BY SparesStep DEF Plain, OfTypes

\* Every step of a plain script leaves the types alone.
LEMMA PlainEach ==
    ASSUME NEW s, Plain(s), NEW i \in DOMAIN s
    PROVE  ~OfTypes(s[i])
<1>1. s[i] \in StepsOf(s) /\ "is_TMC" \in {"is_TMC"}
  BY DEF StepsOf
<1>. QED BY <1>1 DEF Plain, Spares, OfTypes

\* What is left of a plain script is plain.
LEMMA PlainTail ==
    ASSUME NEW s, Plain(s), s # <<>>
    PROVE  Plain(Tail(s)) /\ ~OfTypes(Head(s))
BY SparesTail DEF Plain, OfTypes

\* Plain scripts one after the other are plain.
LEMMA PlainJoin ==
    ASSUME NEW s, NEW t, Plain(s), Plain(t)
    PROVE  Plain(s \o t)
BY SparesJoin DEF Plain

\* Scripts of two, three and four steps.
LEMMA PlainSteps ==
    ASSUME NEW w, NEW x, NEW y, NEW z,
           ~OfTypes(w), ~OfTypes(x), ~OfTypes(y), ~OfTypes(z)
    PROVE  Plain(<<w, x>>) /\ Plain(<<w, x, y>>) /\ Plain(<<w, x, y, z>>)
<1>1. \A e \in {"is_TMC"} : ~Does(w, e) /\ ~Does(x, e) /\ ~Does(y, e) /\ ~Does(z, e)
  BY DEF OfTypes, Does
<1>. QED BY <1>1, SparesSteps DEF Plain

\* The scripts of motions and positions leave the types alone.
LEMMA PlainMotions ==
    /\ \A a, p, v, goto, f : Plain(set_command(a, p, v, goto, f))
    /\ \A a : /\ Plain(cancel_command(a)) /\ Plain(disable_tracking(a))
             /\ Plain(enable_tracking(a))
    /\ \A a, v : Plain(set_current_position(a, v))
    /\ \A s : Plain(HandOn(s))
BY SparesMotions DEF Plain

\* A plain script is not a call on the types.
LEMMA PlainOrTyping ==
    ASSUME NEW d \in Drivers, Plain(todo[d]) \/ OnTypes(d), ~Typing(todo[d])
    PROVE  Plain(todo[d])
<1>. SUFFICES ASSUME OnTypes(d) PROVE FALSE
  OBVIOUS
<1>. PICK a \in Axes : GetsType(d, a) \/ \E t \in Bit : SetsType(d, a, t)
  BY DEF OnTypes
<1>1. CASE GetsType(d, a)
  BY <1>1 DEF GetsType, Typing, ReadType
<1>2. CASE \E t \in Bit : SetsType(d, a, t)
  BY <1>2 DEF SetsType, Typing, ReadType, WriteTypes, Set
<1>. QED BY <1>1, <1>2

\* What initialises an axis is plain.
LEMMA PlainInitialize ==
    (\A a : Plain(SwpCmdInitialize(a))) /\ Plain(FocuserInitialize)
<1>1. \A a, f, v : f # "is_TMC" => Plain(<<Set(a, f, v)>>)
  <2>1. \A a, f, v : f # "is_TMC" => ~OfTypes(Set(a, f, v))
    BY DEF OfTypes, Does, Set
  <2>. QED BY <2>1, PlainStep
<1>2. \A a : Plain(SwpCmdInitialize(a))
  BY SparesInitialize DEF Plain
<1>3. Plain(FocuserInitialize)
  <2>. DEFINE a == focuser_id
              fresh == <<Uninitialised(a), Set(a, "steps", Steps)>>
  <2>1. Plain(fresh)
    <3>1. ~OfTypes(Uninitialised(a)) /\ ~OfTypes(Set(a, "steps", Steps))
      BY DEF OfTypes, Does, Uninitialised, Set
    <3>. QED BY <3>1, PlainSteps
  <2>. HIDE DEF fresh
  <2>2. Plain(fresh \o disable_tracking(a))
    BY <2>1, PlainMotions, PlainJoin
  <2>3. Plain(fresh \o disable_tracking(a) \o cancel_command(a))
    BY <2>2, PlainMotions, PlainJoin
  <2>4. Plain(fresh \o disable_tracking(a) \o cancel_command(a)
                \o set_current_position(a, Steps \div 2))
    BY <2>3, PlainMotions, PlainJoin
  <2>. QED BY <1>1, <2>4, PlainJoin DEF FocuserInitialize, fresh
<1>. QED BY <1>2, <1>3

-----------------------------------------------------------------------------
(* A client calls. *)

\* What is agreed on, and a call on the types, depend only on the types kept,
\* the register and the driver's script.
LEMMA SameTypes ==
    ASSUME tmc_select' = tmc_select,
           \A a \in Axes : m_params'[a].is_TMC = m_params[a].is_TMC
    PROVE  /\ AllAgree => AllAgree'
           /\ \A d \in Drivers : todo'[d] = todo[d] /\ OnTypes(d) => OnTypes(d)'
<1>1. (\A a \in Axes : Agrees(a) => Agrees(a)') /\ (AllAgree => AllAgree')
  BY DEF Agrees, AllAgree
<1>2. \A a \in Axes : AgreeBesides(a) => AgreeBesides(a)'
  BY <1>1 DEF AgreeBesides
<1>3. \A a, t : TypesWith(a, t)' = TypesWith(a, t)
  BY DEF TypesWith
<1>4. ASSUME NEW d \in Drivers, todo'[d] = todo[d], OnTypes(d) PROVE OnTypes(d)'
  <2>. PICK a \in Axes : GetsType(d, a) \/ \E t \in Bit : SetsType(d, a, t)
    BY <1>4 DEF OnTypes
  <2>1. CASE GetsType(d, a)
    <3>1. GetsType(d, a)'
      BY <1>1, <1>4, <2>1 DEF GetsType
    <3>. QED BY <3>1 DEF OnTypes
  <2>2. CASE \E t \in Bit : SetsType(d, a, t)
    <3>. PICK t \in Bit : SetsType(d, a, t)
      BY <2>2
    <3>1. SetsType(d, a, t)'
      BY <1>1, <1>2, <1>3, <1>4 DEF SetsType
    <3>. QED BY <3>1 DEF OnTypes
  <2>. QED BY <2>1, <2>2
<1>. QED BY <1>1, <1>4

\* A call enters, and nothing else happens: its script takes its place.
LEMMA Entered ==
    ASSUME TypesInv, NEW d \in Drivers, NEW op, NEW script, NEW want,
           Enter(d, op, script, want)
    PROVE  /\ up /\ up' = up /\ ShapeOK' /\ ConstructorInv'
           /\ todo[d] = <<>> /\ todo'[d] = script
           /\ \A e \in Drivers \ {d} : todo'[e] = todo[e]
           /\ m_params' = m_params /\ tmc_select' = tmc_select
           /\ met' = (met \/ (Typing(script) /\ \E e \in Drivers : Typing(todo[e])))
<1>1. /\ up /\ up' = up /\ todo[d] = <<>> /\ todo' = [todo EXCEPT ![d] = script]
      /\ m_params' = m_params /\ tmc_select' = tmc_select
      /\ met' = (met \/ (Typing(script) /\ \E e \in Drivers : Typing(todo[e])))
  BY DEF Enter, Idle, hardware
<1>2. ShapeOK' /\ todo'[d] = script /\ \A e \in Drivers \ {d} : todo'[e] = todo[e]
  BY <1>1 DEF TypesInv, ShapeOK
<1>. QED BY <1>1, <1>2 DEF ConstructorInv

\* A call that leaves the types alone disturbs none that works on them.
LEMMA PlainCall ==
    ASSUME TypesInv, NEW d \in Drivers, NEW op, NEW script, NEW want,
           Plain(script), Enter(d, op, script, want)
    PROVE  TypesInv'
<1>1. /\ up /\ up' = up /\ ShapeOK' /\ ConstructorInv'
      /\ todo[d] = <<>> /\ todo'[d] = script
      /\ \A e \in Drivers \ {d} : todo'[e] = todo[e]
      /\ m_params' = m_params /\ tmc_select' = tmc_select
      /\ met' = (met \/ (Typing(script) /\ \E e \in Drivers : Typing(todo[e])))
  BY Entered
<1>2. CallsInv'
  <2>. SUFFICES ASSUME ~met' PROVE CallsInv'
    BY DEF CallsInv
  <2>1. up /\ ~met
    BY <1>1
  <2>2. Plain(todo[d])
    BY <1>1, PlainEmpty
  <2>3. /\ \A e \in Drivers : Plain(todo[e]) => Plain(todo'[e])
        /\ \A e \in Drivers : Plain(todo'[e]) => Plain(todo[e])
    BY <1>1, <2>2
  <2>4. \A e \in Drivers : OnTypes(e) => OnTypes(e)' \/ Plain(todo'[e])
    BY <1>1, SameTypes
  <2>5. AllAgree => AllAgree'
    BY <1>1, SameTypes
  <2>. QED BY <2>1, <2>3, <2>4, <2>5 DEF TypesInv, CallsInv
<1>. QED BY <1>1, <1>2 DEF TypesInv

\* A call on the types is alone with them, or two have met.
LEMMA TypesCall ==
    ASSUME TypesInv, NEW d \in Drivers, NEW op, NEW script, NEW want, NEW a \in Axes,
           \/ script = get_motor_type(a) \/ \E t \in Bit : script = set_motor_type(a, t),
           Enter(d, op, script, want)
    PROVE  TypesInv'
<1>1. /\ up /\ up' = up /\ ShapeOK' /\ ConstructorInv'
      /\ todo[d] = <<>> /\ todo'[d] = script
      /\ \A e \in Drivers \ {d} : todo'[e] = todo[e]
      /\ m_params' = m_params /\ tmc_select' = tmc_select
      /\ met' = (met \/ (Typing(script) /\ \E e \in Drivers : Typing(todo[e])))
  BY Entered
<1>2. Typing(script)
  BY DEF Typing, get_motor_type, set_motor_type, ReadType, Set
<1>3. CallsInv'
  <2>. SUFFICES ASSUME ~met' PROVE CallsInv'
    BY DEF CallsInv
  <2>1. up /\ ~met /\ \A e \in Drivers : ~Typing(todo[e])
    BY <1>1, <1>2
  <2>2. \A e \in Drivers : Plain(todo[e])
    <3>1. \A e \in Drivers : Plain(todo[e]) \/ OnTypes(e)
      BY <2>1 DEF TypesInv, CallsInv
    <3>. QED BY <2>1, <3>1, PlainOrTyping
  <2>3. AllAgree'
    <3>1. AllAgree
      BY <2>1, <2>2 DEF TypesInv, CallsInv
    <3>. QED BY <1>1, <3>1, SameTypes
  <2>4. OnTypes(d)'
    <3>1. CASE script = get_motor_type(a)
      <4>1. GetsType(d, a)'
        BY <1>1, <2>3, <3>1 DEF GetsType, get_motor_type
      <4>. QED BY <4>1 DEF OnTypes
    <3>2. CASE \E t \in Bit : script = set_motor_type(a, t)
      <4>. PICK t \in Bit : script = set_motor_type(a, t)
        BY <3>2
      <4>1. SetsType(d, a, t)'
        BY <1>1, <2>3 DEF SetsType, set_motor_type
      <4>. QED BY <4>1 DEF OnTypes
    <3>. QED BY <3>1, <3>2
  <2>5. \A e \in Drivers \ {d} : Plain(todo'[e])
    BY <1>1, <2>2
  <2>6. ~(\A e \in Drivers : Plain(todo'[e]))
    <3>1. ~Plain(script)
      <4>. SUFFICES ASSUME Plain(script) PROVE FALSE
        OBVIOUS
      <4>1. PICK i \in DOMAIN script : script[i].op \in {"type", "types"}
        BY <1>2 DEF Typing
      <4>. QED BY <4>1, PlainEach DEF OfTypes, Does
    <3>. QED BY <1>1, <3>1
  <2>. QED BY <2>4, <2>5, <2>6 DEF CallsInv
<1>. QED BY <1>1, <1>3 DEF TypesInv

\* The calls of the three drivers' clients.
LEMMA ClientsCall ==
    ASSUME TypesInv, NEW d \in Drivers, NEW a \in Axes, Calls(d, a)
    PROVE  TypesInv'
<1>1. /\ \A b, f, v : f # "is_TMC" => ~OfTypes(Set(b, f, v))
      /\ \A b, g : ~OfTypes(Send(b, g))
      /\ \A b : /\ ~OfTypes(Start(b)) /\ ~OfTypes(ReadStop(b))
               /\ ~OfTypes(ReadStatus(b)) /\ ~OfTypes(ReadCount(b))
  BY DEF OfTypes, Does, Set, Send, Start, ReadStop, ReadStatus, ReadCount
<1>2. \A x : ~OfTypes(x) => Plain(<<x>>)
  BY PlainStep
<1>3. CASE SetLimits(d, a)
  BY <1>1, <1>2, <1>3, PlainCall DEF SetLimits
<1>4. CASE SetPeriod(d, a)
  <2>1. \A slew : Period(slew) # "is_TMC"
    BY DEF Period
  <2>. QED BY <1>1, <1>2, <1>4, <2>1, PlainCall DEF SetPeriod
<1>5. CASE SetDirection(d, a)
  <2>1. \A slew : Forward(slew) # "is_TMC"
    BY DEF Forward
  <2>. QED BY <1>1, <1>2, <1>5, <2>1, PlainCall DEF SetDirection
<1>6. CASE SetGoal(d, a)
  <2>1. \A g : Goal(g) # "is_TMC"
    BY DEF Goal
  <2>. QED BY <1>1, <1>2, <1>6, <2>1, PlainCall DEF SetGoal
<1>7. CASE SetType(d, a)
  BY <1>7, TypesCall DEF SetType
<1>8. CASE StartMotion(d, a)
  BY <1>1, <1>2, <1>8, PlainCall DEF StartMotion
<1>9. CASE StopMotion(d, a)
  BY <1>1, <1>2, <1>9, PlainMotions, PlainCall DEF StopMotion
<1>10. CASE Position(d, a)
  BY <1>1, <1>2, <1>10, PlainMotions, PlainCall DEF Position
<1>11. CASE d = "ASCOM" /\ (GetStatus(a) \/ SwpInitialize(a))
  BY <1>1, <1>2, <1>11, PlainInitialize, PlainCall DEF GetStatus, SwpInitialize
<1>12. CASE d = "Focuser" /\ Enter("Focuser", "Initialize", FocuserInitialize, NoWant)
  BY <1>12, PlainInitialize, PlainCall
<1>13. CASE d = "Focuser" /\ \E p \in Periods, f \in Bit : FocuserSlewTo(p, f)
  <2>. PICK p \in Periods, f \in Bit : FocuserSlewTo(p, f)
    BY <1>13
  <2>. DEFINE script == << Set(focuser_id, "slew_period", p),
                           Set(focuser_id, "slew_forward", f), Start(focuser_id) >>
  <2>1. Plain(script)
    BY <1>1, PlainSteps
  <2>2. Enter(d, "FocuserSlewTo", script, WantTrack(focuser_id, p, f))
    BY <1>13 DEF FocuserSlewTo
  <2>. HIDE DEF script
  <2>. QED BY <2>1, <2>2, PlainCall
<1>14. CASE d = "Focuser" /\ \E p \in Periods, f \in Bit, v \in Counts, g \in Bit :
                               FocuserMove(v, p, f, g)
  <2>. PICK p \in Periods, f \in Bit, v \in Counts, g \in Bit : FocuserMove(v, p, f, g)
    BY <1>14
  <2>. DEFINE script == << Set(focuser_id, Goal(g), v), Set(focuser_id, "goto_period", p),
                           Set(focuser_id, "goto_forward", f), Send(focuser_id, g) >>
  <2>0. Goal(g) # "is_TMC"
    BY DEF Goal
  <2>1. Plain(script)
    BY <1>1, <2>0, PlainSteps
  <2>2. Enter(d, "FocuserMove", script, WantCommand(focuser_id, p, v, g, f))
    BY <1>14 DEF FocuserMove
  <2>. HIDE DEF script
  <2>. QED BY <2>1, <2>2, PlainCall
<1>. QED BY <1>3, <1>4, <1>5, <1>6, <1>7, <1>8, <1>9, <1>10, <1>11, <1>12, <1>13,
   <1>14 DEF Calls

-----------------------------------------------------------------------------
(* A driver goes on. *)

\* A driver at work changes its own script only, and no other history.
LEMMA Served ==
    ASSUME ShapeOK, NEW d \in Drivers, Serve(d)
    PROVE  /\ ShapeOK' /\ todo[d] # <<>> /\ met' = met /\ (up => up')
           /\ \A e \in Drivers \ {d} : todo'[e] = todo[e]
<1>1. todo[d] # <<>>
  BY DEF Serve, SetParameter, GetParameter, SendCommand, StartTracking, StopReads,
     StatusReads, Freshly, CountReads, RegisterWritten, TrackWritten, PositionWritten,
     CommandWritten, TypesRead, TypesWritten, NextIs, Idle
<1>2. ASSUME NEW script, NEW result, Goes(d, script, result)
      PROVE  /\ DOMAIN todo' = Drivers /\ met' = met
             /\ \A e \in Drivers \ {d} : todo'[e] = todo[e]
  BY <1>2 DEF Goes, ShapeOK
<1>3. (\E script, result : Goes(d, script, result)) /\ (up => up')
  <2>1. CASE SetParameter(d)
    BY <2>1 DEF SetParameter, Refuses
  <2>2. CASE GetParameter(d)
    BY <2>2 DEF GetParameter
  <2>3. CASE SendCommand(d)
    BY <2>3 DEF SendCommand, Refuses
  <2>4. CASE StartTracking(d)
    BY <2>4 DEF StartTracking, Refuses, GoesOn
  <2>5. CASE StopReads(d) \/ StatusReads(d) \/ Freshly(d) \/ CountReads(d)
    BY <2>5 DEF StopReads, StatusReads, Freshly, CountReads, Refuses, GoesOn
  <2>6. CASE RegisterWritten(d) \/ TrackWritten(d) \/ CommandWritten(d) \/ TypesWritten(d)
    BY <2>6 DEF RegisterWritten, TrackWritten, CommandWritten, TypesWritten, Written, GoesOn
  <2>7. CASE PositionWritten(d)
    BY <2>7 DEF PositionWritten, Written, GoesOn, Refuses
  <2>8. CASE TypesRead(d)
    BY <2>8 DEF TypesRead
  <2>. QED BY <2>1, <2>2, <2>3, <2>4, <2>5, <2>6, <2>7, <2>8 DEF Serve
<1>4. DOMAIN m_params' = Axes /\ \A a \in Axes : "is_TMC" \in DOMAIN m_params'[a]
  <2>1. CASE m_params' = m_params
    BY <2>1 DEF ShapeOK
  <2>2. ASSUME NEW a, NEW f, NEW v, m_params' = [m_params EXCEPT ![a][f] = v]
        PROVE  DOMAIN m_params' = Axes /\ \A b \in Axes : "is_TMC" \in DOMAIN m_params'[b]
    BY <2>2 DEF ShapeOK
  <2>3. CASE SetParameter(d)
    BY <2>1, <2>2, <2>3 DEF SetParameter
  <2>4. CASE TypesRead(d)
    <3>1. \/ m_params' = m_params
          \/ \E a, v : m_params' = [m_params EXCEPT ![a]["is_TMC"] = v]
      BY <2>4 DEF TypesRead
    <3>. QED BY <2>1, <2>2, <3>1
  <2>5. CASE ~SetParameter(d) /\ ~TypesRead(d)
    <3>1. m_params' = m_params
      BY <2>5 DEF Serve, GetParameter, SendCommand, StartTracking, StopReads,
         StatusReads, Freshly, CountReads, RegisterWritten, TrackWritten,
         PositionWritten, CommandWritten, TypesWritten, Written
    <3>. QED BY <2>1, <3>1
  <2>. QED BY <2>3, <2>4, <2>5
<1>. QED BY <1>1, <1>2, <1>3, <1>4 DEF ShapeOK

\* A driver goes on with such a script, and does none of it.
LEMMA ServesSparing ==
    ASSUME ShapeOK, NEW F, NEW d \in Drivers, Spares(todo[d], F), Serve(d)
    PROVE  /\ Spares(todo'[d], F)
           /\ \A a \in Axes : \A f \in F \cap DOMAIN m_params[a] : m_params'[a][f] = m_params[a][f]
           /\ "is_TMC" \in F => tmc_select' = tmc_select
           /\ RecordsOK /\ "count" \in F => \A a \in Axes : SameCount(a)
           /\ RecordsOK /\ "answer" \in F => answer'[d] = answer[d]
<1>0. todo[d] # <<>> /\ DOMAIN m_params = Axes
  BY Served DEF ShapeOK
<1>1. Spares(Tail(todo[d]), F) /\ \A e \in F : ~Does(Head(todo[d]), e)
  BY <1>0, SparesTail
<1>. DEFINE Same == /\ \A a \in Axes : \A f \in F \cap DOMAIN m_params[a] :
                          m_params'[a][f] = m_params[a][f]
                    /\ "is_TMC" \in F => tmc_select' = tmc_select
                    /\ RecordsOK /\ "count" \in F => \A a \in Axes : SameCount(a)
<1>2. \A script, result : Goes(d, script, result) =>
        todo'[d] = script /\ (RecordsOK => answer'[d] = result)
  BY DEF Goes, ShapeOK, RecordsOK
<1>3. \A r : Goes(d, <<>>, r) => Spares(todo'[d], F)
  BY <1>2, SparesEmpty
<1>4. \A r : Goes(d, Tail(todo[d]), r) => Spares(todo'[d], F)
  BY <1>1, <1>2
<1>5. \A s, r : Spares(s, F) /\ Goes(d, s \o Tail(todo[d]), r) => Spares(todo'[d], F)
  BY <1>1, <1>2, SparesJoin
<1>6. ASSUME NEW b, NEW r, NEW v, RecordsOK, r # "count", regs' = [regs EXCEPT ![b][r] = v],
             held' = held
      PROVE  \A a \in Axes : SameCount(a)
  BY <1>6 DEF RecordsOK, RegsOK, SameCount
<1>18. regs' = regs /\ held' = held => \A a \in Axes : SameCount(a)
  BY DEF SameCount
<1>19. UNCHANGED hardware => tmc_select' = tmc_select /\ regs' = regs /\ held' = held
  BY DEF hardware, motion
<1>. HIDE DEF Same
<1>7. CASE SetParameter(d)
  <2>. DEFINE b == Step(d).axis f == Step(d).field v == Step(d).value
  <2>1. Head(todo[d]).op = "set"
    BY <1>7 DEF SetParameter, NextIs
  <2>2. f \notin F /\ ("answer" \in F => f = "init")
    BY <1>1, <2>1 DEF Does, Step
  <2>3. Spares(todo'[d], F)
    <3>1. Spares(HandOn(Step(d)), F)
      BY SparesMotions
    <3>. QED BY <1>3, <1>5, <1>7, <3>1 DEF SetParameter, Refuses
  <2>4. Same
    <3>1. \/ m_params' = m_params
          \/ m_params' = [m_params EXCEPT ![b][f] = v]
      BY <1>7 DEF SetParameter
    <3>2. tmc_select' = tmc_select /\ regs' = regs /\ held' = held
      BY <1>7, <1>19 DEF SetParameter
    <3>. HIDE DEF b, f, v
    <3>3. \A a \in Axes : \A g \in F \cap DOMAIN m_params[a] : m_params'[a][g] = m_params[a][g]
      BY <1>0, <2>2, <3>1
    <3>. QED BY <1>18, <3>2, <3>3 DEF Same
  <2>5. RecordsOK /\ "answer" \in F => answer'[d] = answer[d]
    <3>1. "answer" \in F => Allowed(Step(d))
      BY <2>2 DEF Allowed
    <3>2. "answer" \in F => Goes(d, HandOn(Step(d)) \o Tail(todo[d]), answer[d])
      BY <1>7, <3>1 DEF SetParameter
    <3>. QED BY <1>2, <3>2
  <2>. QED BY <2>3, <2>4, <2>5 DEF Same
<1>8. CASE GetParameter(d) \/ CountReads(d)
  <2>1. Same
    BY <1>8, <1>18, <1>19 DEF GetParameter, CountReads, Same
  <2>2. "answer" \notin F
    BY <1>1, <1>8 DEF GetParameter, CountReads, NextIs, Does
  <2>3. Spares(todo'[d], F)
    BY <1>4, <1>8 DEF GetParameter, CountReads
  <2>. QED BY <2>1, <2>2, <2>3 DEF Same
<1>9. CASE SendCommand(d)
  <2>1. Spares(todo'[d], F)
    <3>1. \A a, p, v, goto, f : Spares(set_command(a, p, v, goto, f), F)
      BY SparesMotions
    <3>. QED BY <1>3, <1>5, <1>9, <3>1 DEF SendCommand, Refuses
  <2>2. "answer" \notin F
    BY <1>1, <1>9 DEF SendCommand, NextIs, Does
  <2>. QED BY <1>18, <1>19, <1>9, <2>1, <2>2 DEF SendCommand
<1>10. CASE StartTracking(d)
  <2>1. Spares(todo'[d], F)
    <3>1. \A a : Spares(enable_tracking(a), F)
      BY SparesMotions
    <3>. QED BY <1>3, <1>4, <1>5, <1>10, <3>1 DEF StartTracking, Refuses, GoesOn
  <2>2. "answer" \in F => ~NextIs(d, "start")
    BY <1>1 DEF NextIs, Does
  <2>3. RecordsOK /\ "answer" \in F => answer'[d] = answer[d]
    BY <1>2, <1>10, <2>2 DEF StartTracking, GoesOn
  <2>. QED BY <1>18, <1>19, <1>10, <2>1, <2>3 DEF StartTracking
<1>11. CASE StopReads(d)
  <2>. PICK status \in Statuses :
         Goes(d, (IF status = "tracking" THEN disable_tracking(Step(d).axis) ELSE <<>>)
                 \o cancel_command(Step(d).axis), 1)
    BY <1>11 DEF StopReads
  <2>1. Spares(IF status = "tracking" THEN disable_tracking(Step(d).axis) ELSE <<>>, F)
        /\ Spares(cancel_command(Step(d).axis), F)
    BY SparesMotions, SparesEmpty
  <2>2. Spares((IF status = "tracking" THEN disable_tracking(Step(d).axis) ELSE <<>>)
                 \o cancel_command(Step(d).axis), F)
    BY <2>1, SparesJoin
  <2>3. Spares(todo'[d], F)
    BY <1>2, <2>2
  <2>4. "answer" \notin F
    BY <1>1, <1>11 DEF StopReads, NextIs, Does
  <2>. QED BY <1>18, <1>19, <1>11, <2>3, <2>4 DEF StopReads
<1>12. CASE StatusReads(d) \/ Freshly(d)
  <2>1. Spares(todo'[d], F)
    BY <1>3, <1>4, <1>12 DEF StatusReads, Freshly, Refuses, GoesOn
  <2>2. "answer" \notin F
    BY <1>1, <1>12 DEF StatusReads, Freshly, NextIs, Does
  <2>. QED BY <1>18, <1>19, <1>12, <2>1, <2>2 DEF StatusReads, Freshly
<1>13. CASE RegisterWritten(d)
  <2>1. Spares(todo'[d], F) /\ (RecordsOK => answer'[d] = answer[d]) /\ m_params' = m_params
    BY <1>2, <1>4, <1>13 DEF RegisterWritten, Written, GoesOn
  <2>2. tmc_select' = tmc_select /\ held' = held
    BY <1>13 DEF RegisterWritten, motion
  <2>. DEFINE b == Step(d).axis r == Step(d).reg v == Step(d).value
  <2>3. ("count" \in F => r # "count") /\ regs' = [regs EXCEPT ![b][r] = v]
    BY <1>1, <1>13 DEF RegisterWritten, NextIs, Does, Step
  <2>. HIDE DEF b, r, v
  <2>4. RecordsOK /\ "count" \in F => \A a \in Axes : SameCount(a)
    BY <1>6, <2>2, <2>3
  <2>. QED BY <2>1, <2>2, <2>4
<1>14. CASE TrackWritten(d) \/ CommandWritten(d)
  <2>1. Spares(todo'[d], F) /\ (RecordsOK => answer'[d] = answer[d]) /\ m_params' = m_params
    BY <1>2, <1>4, <1>14 DEF TrackWritten, CommandWritten, Written, GoesOn
  <2>2. tmc_select' = tmc_select /\ held' = held
    BY <1>14 DEF TrackWritten, CommandWritten
  <2>3. \E b, r, v : r # "count" /\ regs' = [regs EXCEPT ![b][r] = v]
    <3>1. CASE TrackWritten(d)
      <4>1. \E b, v : regs' = [regs EXCEPT ![b]["trackctrl"] = v]
        BY <3>1 DEF TrackWritten
      <4>. QED BY <4>1
    <3>2. CASE CommandWritten(d)
      <4>1. \E b, v : regs' = [regs EXCEPT ![b]["cmdcontrol"] = v]
        BY <3>2 DEF CommandWritten
      <4>. QED BY <4>1
    <3>. QED BY <1>14, <3>1, <3>2
  <2>4. RecordsOK => \A a \in Axes : SameCount(a)
    BY <1>6, <2>2, <2>3
  <2>. QED BY <2>1, <2>2, <2>4
<1>15. CASE PositionWritten(d)
  <2>1. "count" \notin F /\ ("answer" \in F => ~(Step(d).value > CountEnd))
    BY <1>1, <1>15 DEF PositionWritten, NextIs, Does, Step
  <2>2. Spares(todo'[d], F)
    BY <1>3, <1>4, <1>15 DEF PositionWritten, Written, GoesOn, Refuses
  <2>3. RecordsOK /\ "answer" \in F => answer'[d] = answer[d]
    BY <1>2, <1>15, <2>1 DEF PositionWritten, Written, GoesOn
  <2>. QED BY <1>15, <2>1, <2>2, <2>3 DEF PositionWritten, Written
<1>16. CASE TypesRead(d)
  <2>1. "is_TMC" \notin F /\ "answer" \notin F
    BY <1>1, <1>16 DEF TypesRead, NextIs, Does
  <2>2. Spares(todo'[d], F)
    <3>1. \A axes, e : e \in F => ~Does(WriteTypes(axes), e)
      BY <2>1 DEF Does, WriteTypes
    <3>2. \A axes : Spares(<<WriteTypes(axes)>>, F)
      BY <3>1, SparesStep
    <3>. QED BY <1>4, <1>5, <1>16, <3>2 DEF TypesRead
  <2>3. \/ m_params' = m_params
        \/ \E b, v : m_params' = [m_params EXCEPT ![b]["is_TMC"] = v]
    BY <1>16 DEF TypesRead
  <2>4. \A a \in Axes : \A f \in F \cap DOMAIN m_params[a] : m_params'[a][f] = m_params[a][f]
    BY <1>0, <2>1, <2>3
  <2>. QED BY <1>18, <1>19, <1>16, <2>1, <2>2, <2>4 DEF TypesRead
<1>17. CASE TypesWritten(d)
  <2>1. "is_TMC" \notin F
    BY <1>1, <1>17 DEF TypesWritten, NextIs, Does
  <2>2. Spares(todo'[d], F) /\ (RecordsOK => answer'[d] = answer[d])
    BY <1>2, <1>4, <1>17 DEF TypesWritten, Written, GoesOn
  <2>3. regs' = regs /\ held' = held
    BY <1>17 DEF TypesWritten, motion
  <2>. QED BY <1>17, <1>18, <2>1, <2>2, <2>3 DEF TypesWritten, Written
<1>. QED BY <1>7, <1>8, <1>9, <1>10, <1>11, <1>12, <1>13, <1>14, <1>15, <1>16, <1>17 DEF Serve

\* A plain script goes on as a plain one and leaves the types alone.
LEMMA ServesPlain ==
    ASSUME ShapeOK, NEW d \in Drivers, Plain(todo[d]), Serve(d)
    PROVE  /\ Plain(todo'[d]) /\ tmc_select' = tmc_select
           /\ \A a \in Axes : m_params'[a].is_TMC = m_params[a].is_TMC
<1>1. "is_TMC" \in {"is_TMC"} /\ \A a \in Axes : "is_TMC" \in DOMAIN m_params[a]
  BY DEF ShapeOK
<1>. QED BY <1>1, ServesSparing DEF Plain

\* TypesWith changes one axis's bit.
LEMMA TypesWithOne ==
    ASSUME NEW a \in Axes, NEW t \in Bit
    PROVE  /\ t = 1 <=> a \in TypesWith(a, t)
           /\ \A b \in Axes \ {a} : b \in TypesWith(a, t) <=> b \in tmc_select
BY DEF TypesWith, Bit

\* Only the steps of its own move a call on the types.
LEMMA ServesStep ==
    ASSUME NEW d \in Drivers, Serve(d)
    PROVE  /\ Head(todo[d]).op = "set" => SetParameter(d)
           /\ Head(todo[d]).op = "type" => TypesRead(d)
           /\ Head(todo[d]).op = "types" => TypesWritten(d)
           /\ Head(todo[d]).op = "position" => PositionWritten(d)
BY DEF Serve, SetParameter, GetParameter, SendCommand, StartTracking, StopReads,
   StatusReads, Freshly, CountReads, RegisterWritten, TrackWritten, PositionWritten,
   CommandWritten, TypesRead, TypesWritten, NextIs

\* What follows one step of two, or one alone.
LEMMA Tails ==
    /\ \A x, y : Head(<<x, y>>) = x /\ Tail(<<x, y>>) = <<y>>
    /\ \A x : Head(<<x>>) = x /\ Tail(<<x>>) = <<>>
    /\ \A x, s, S : s \in Seq(S) => <<>> \o s = s
OBVIOUS

\* A call on the types goes on to its next step, or all agrees at its end.
LEMMA ServesTypes ==
    ASSUME ShapeOK, NEW d \in Drivers, OnTypes(d), Serve(d)
    PROVE  OnTypes(d)' \/ (todo'[d] = <<>> /\ AllAgree')
<1>. PICK a \in Axes : GetsType(d, a) \/ \E t \in Bit : SetsType(d, a, t)
  BY DEF OnTypes
<1>1. ASSUME NEW script, NEW result, Goes(d, script, result) PROVE todo'[d] = script
  BY <1>1 DEF Goes, ShapeOK
<1>2. ASSUME NEW v, m_params' = [m_params EXCEPT ![a]["is_TMC"] = v]
      PROVE  /\ m_params'[a].is_TMC = v
             /\ \A b \in Axes \ {a} : m_params'[b].is_TMC = m_params[b].is_TMC
  BY <1>2 DEF ShapeOK
<1>3. CASE GetsType(d, a)
  <2>1. Step(d) = ReadType(a, -1) /\ Tail(todo[d]) = <<>>
    BY <1>3, Tails DEF GetsType, Step
  <2>2. TypesRead(d)
    BY <2>1, ServesStep DEF Step, ReadType
  <2>. DEFINE v == IF a \in tmc_select THEN 1 ELSE 0
  <2>3. m_params' = [m_params EXCEPT ![a]["is_TMC"] = v] /\ Goes(d, Tail(todo[d]), v)
    BY <2>1, <2>2 DEF TypesRead, ReadType
  <2>4. tmc_select' = tmc_select
    BY <2>2 DEF TypesRead, hardware
  <2>5. todo'[d] = <<>>
    BY <1>1, <2>1, <2>3
  <2>6. AllAgree'
    BY <1>2, <1>3, <2>3, <2>4 DEF AllAgree, Agrees, GetsType
  <2>. QED BY <2>5, <2>6
<1>4. ASSUME NEW t \in Bit, SetsType(d, a, t)
      PROVE  OnTypes(d)' \/ (todo'[d] = <<>> /\ AllAgree')
  <2>1. CASE todo[d] = <<Set(a, "is_TMC", t), ReadType(a, t)>> /\ AllAgree
    <3>1. Step(d) = Set(a, "is_TMC", t) /\ Tail(todo[d]) = <<ReadType(a, t)>>
      BY <2>1, Tails DEF Step
    <3>2. SetParameter(d)
      BY <3>1, ServesStep DEF Step, Set
    <3>3. Allowed(Step(d)) /\ HandOn(Step(d)) = <<>>
      BY <3>1 DEF Allowed, HandOn, Set
    <3>4. /\ m_params' = [m_params EXCEPT ![Step(d).axis][Step(d).field] = Step(d).value]
          /\ Goes(d, HandOn(Step(d)) \o Tail(todo[d]), answer[d])
      BY <3>2, <3>3 DEF SetParameter
    <3>5. m_params' = [m_params EXCEPT ![a]["is_TMC"] = t]
      BY <3>1, <3>4 DEF Set
    <3>6. todo'[d] = <<ReadType(a, t)>>
      <4>1. <<ReadType(a, t)>> \in Seq({ReadType(a, t)})
        OBVIOUS
      <4>2. <<>> \o <<ReadType(a, t)>> = <<ReadType(a, t)>>
        BY <4>1, Tails
      <4>. QED BY <1>1, <3>1, <3>3, <3>4, <4>2
    <3>7. tmc_select' = tmc_select
      BY <3>2 DEF SetParameter, hardware
    <3>8. SetsType(d, a, t)'
      BY <1>2, <2>1, <3>5, <3>6, <3>7 DEF SetsType, AgreeBesides, AllAgree, Agrees
    <3>. QED BY <3>8 DEF OnTypes
  <2>2. CASE todo[d] = <<ReadType(a, t)>> /\ m_params[a].is_TMC = t /\ AgreeBesides(a)
    <3>1. Step(d) = ReadType(a, t) /\ Tail(todo[d]) = <<>>
      BY <2>2, Tails DEF Step
    <3>2. TypesRead(d)
      BY <3>1, ServesStep DEF Step, ReadType
    <3>. DEFINE w == WriteTypes(TypesWith(a, t))
    <3>3. m_params' = m_params /\ tmc_select' = tmc_select
          /\ Goes(d, <<w>> \o Tail(todo[d]), 1)
      BY <3>1, <3>2 DEF TypesRead, ReadType, hardware, Bit
    <3>. HIDE DEF w
    <3>4. <<w>> \o <<>> = <<w>>
      OBVIOUS
    <3>5. todo'[d] = <<w>>
      BY <1>1, <3>1, <3>3, <3>4
    <3>6. TypesWith(a, t)' = TypesWith(a, t)
      BY <3>3 DEF TypesWith
    <3>7. SetsType(d, a, t)'
      BY <2>2, <3>3, <3>5, <3>6 DEF SetsType, AgreeBesides, Agrees, w
    <3>. QED BY <3>7 DEF OnTypes
  <2>3. CASE /\ todo[d] = <<WriteTypes(TypesWith(a, t))>>
             /\ m_params[a].is_TMC = t /\ AgreeBesides(a)
    <3>1. Step(d) = WriteTypes(TypesWith(a, t)) /\ Tail(todo[d]) = <<>>
      BY <2>3, Tails DEF Step
    <3>2. TypesWritten(d)
      BY <3>1, ServesStep DEF Step, WriteTypes
    <3>3. tmc_select' = TypesWith(a, t) /\ m_params' = m_params /\ todo'[d] = <<>>
      <4>1. Goes(d, Tail(todo[d]), answer[d]) /\ m_params' = m_params
        BY <3>2 DEF TypesWritten, Written, GoesOn
      <4>2. tmc_select' = TypesWith(a, t)
        BY <3>1, <3>2 DEF TypesWritten, WriteTypes
      <4>. QED BY <1>1, <3>1, <4>1, <4>2
    <3>4. AllAgree'
      BY <2>3, <3>3, TypesWithOne DEF AllAgree, AgreeBesides, Agrees
    <3>. QED BY <3>3, <3>4
  <2>. QED BY <1>4, <2>1, <2>2, <2>3 DEF SetsType
<1>. QED BY <1>3, <1>4

-----------------------------------------------------------------------------
(* The constructor. *)

\* The constructor's eight steps.
Centered(a) == [op |-> "position", axis |-> a, value |-> Center]

\* The steps that a driver's constructor runs, one by one.
LEMMA ConstructorSteps ==
    /\ Len(Constructor) = 8 /\ Constructor \in Seq(StepsOf(Constructor))
    /\ DOMAIN Constructor = 1..8
    /\ \A a \in Axes : /\ Constructor[2 * a + 1] = Set(a, "is_TMC", 1)
                       /\ Constructor[2 * a + 2] = ReadType(a, 1)
    /\ Constructor[7] = Centered(0) /\ Constructor[8] = Centered(1)
<1>. DEFINE S0 == Set(0, "is_TMC", 1)  R0 == ReadType(0, 1)
            S1 == Set(1, "is_TMC", 1)  R1 == ReadType(1, 1)
            S2 == Set(2, "is_TMC", 1)  R2 == ReadType(2, 1)
            P0 == Centered(0)          P1 == Centered(1)
            S == {S0, R0, S1, R1, S2, R2, P0, P1}
            m0 == <<S0, R0>>  m1 == <<S1, R1>>  m2 == <<S2, R2>>  p0 == <<P0>>  p1 == <<P1>>
            four == m0 \o m1  six == four \o m2  seven == six \o p0  eight == seven \o p1
<1>1. Constructor = eight
  BY DEF Constructor, set_motor_type, set_current_position, Centered
<1>2. S0 \in S /\ R0 \in S /\ S1 \in S /\ R1 \in S /\ S2 \in S /\ R2 \in S
      /\ P0 \in S /\ P1 \in S
  OBVIOUS
<1>. HIDE DEF S, S0, R0, S1, R1, S2, R2, P0, P1
<1>3. /\ m0 \in Seq(S) /\ Len(m0) = 2 /\ m0[1] = S0 /\ m0[2] = R0
      /\ m1 \in Seq(S) /\ Len(m1) = 2 /\ m1[1] = S1 /\ m1[2] = R1
      /\ m2 \in Seq(S) /\ Len(m2) = 2 /\ m2[1] = S2 /\ m2[2] = R2
      /\ p0 \in Seq(S) /\ Len(p0) = 1 /\ p0[1] = P0
      /\ p1 \in Seq(S) /\ Len(p1) = 1 /\ p1[1] = P1
  BY <1>2
<1>. HIDE DEF m0, m1, m2, p0, p1
<1>4. /\ four \in Seq(S) /\ Len(four) = Len(m0) + Len(m1)
      /\ \A i \in 1..Len(m0) + Len(m1) :
           four[i] = IF i <= Len(m0) THEN m0[i] ELSE m1[i - Len(m0)]
  BY <1>3, ConcatProperties
<1>. HIDE DEF four
<1>5. /\ six \in Seq(S) /\ Len(six) = Len(four) + Len(m2)
      /\ \A i \in 1..Len(four) + Len(m2) :
           six[i] = IF i <= Len(four) THEN four[i] ELSE m2[i - Len(four)]
  <2>1. four \in Seq(S) /\ m2 \in Seq(S)
    BY <1>3, <1>4
  <2>. QED BY <2>1, ConcatProperties
<1>. HIDE DEF six
<1>6. /\ seven \in Seq(S) /\ Len(seven) = Len(six) + Len(p0)
      /\ \A i \in 1..Len(six) + Len(p0) :
           seven[i] = IF i <= Len(six) THEN six[i] ELSE p0[i - Len(six)]
  <2>1. six \in Seq(S) /\ p0 \in Seq(S)
    BY <1>3, <1>5
  <2>. QED BY <2>1, ConcatProperties
<1>. HIDE DEF seven
<1>7. /\ eight \in Seq(S) /\ Len(eight) = Len(seven) + Len(p1)
      /\ \A i \in 1..Len(seven) + Len(p1) :
           eight[i] = IF i <= Len(seven) THEN seven[i] ELSE p1[i - Len(seven)]
  <2>1. seven \in Seq(S) /\ p1 \in Seq(S)
    BY <1>3, <1>6
  <2>. QED BY <2>1, ConcatProperties
<1>. HIDE DEF eight
<1>8. /\ eight[1] = S0 /\ eight[2] = R0 /\ eight[3] = S1 /\ eight[4] = R1
      /\ eight[5] = S2 /\ eight[6] = R2 /\ eight[7] = P0 /\ eight[8] = P1
  <2>1. four[1] = S0 /\ four[2] = R0 /\ four[3] = S1 /\ four[4] = R1 /\ Len(four) = 4
    BY <1>3, <1>4
  <2>2. /\ six[1] = S0 /\ six[2] = R0 /\ six[3] = S1 /\ six[4] = R1
        /\ six[5] = S2 /\ six[6] = R2 /\ Len(six) = 6
    BY <1>3, <1>5, <2>1
  <2>3. /\ seven[1] = S0 /\ seven[2] = R0 /\ seven[3] = S1 /\ seven[4] = R1
        /\ seven[5] = S2 /\ seven[6] = R2 /\ seven[7] = P0 /\ Len(seven) = 7
    BY <1>3, <1>6, <2>2
  <2>. QED BY <1>3, <1>7, <2>3
<1>9. Len(eight) = 8 /\ DOMAIN eight = 1..8 /\ eight \in Seq(StepsOf(eight))
  <2>0. Len(eight) = 8
    BY <1>3, <1>4, <1>5, <1>6, <1>7
  <2>1. DOMAIN eight = 1..8 /\ eight \in [1..8 -> S]
    BY <1>7, <2>0, LenProperties
  <2>2. eight \in [1..8 -> StepsOf(eight)]
    BY <2>1 DEF StepsOf
  <2>. QED BY <2>0, <2>1, <2>2, SeqDef
<1>10. \A a \in Axes : /\ eight[2 * a + 1] = Set(a, "is_TMC", 1)
                      /\ eight[2 * a + 2] = ReadType(a, 1)
  <2>1. \A a \in Axes : a = 0 \/ a = 1 \/ a = 2
    BY DEF Axes
  <2>2. eight[1] = Set(0, "is_TMC", 1) /\ eight[2] = ReadType(0, 1)
    BY <1>8 DEF S0, R0
  <2>3. eight[3] = Set(1, "is_TMC", 1) /\ eight[4] = ReadType(1, 1)
    BY <1>8 DEF S1, R1
  <2>4. eight[5] = Set(2, "is_TMC", 1) /\ eight[6] = ReadType(2, 1)
    BY <1>8 DEF S2, R2
  <2>. QED BY <2>1, <2>2, <2>3, <2>4
<1>. QED BY <1>1, <1>8, <1>9, <1>10 DEF P0, P1

\* The server has just started: the registers are any.
JustStarted ==
    /\ m_params = [a \in Axes |-> Constructed]
    /\ todo = [d \in Drivers |-> IF d = "SkyTracker" THEN Constructor ELSE <<>>]
    /\ answer = [d \in Drivers |-> 1] /\ call = [d \in Drivers |-> Quiet]
    /\ up = FALSE

\* A server that has just started is at the first step of its constructor.
LEMMA StartedTypes == JustStarted => TypesInv
<1>. SUFFICES ASSUME JustStarted PROVE TypesInv
  OBVIOUS
<1>0. /\ m_params = [a \in Axes |-> Constructed] /\ up = FALSE
      /\ todo = [d \in Drivers |-> IF d = "SkyTracker" THEN Constructor ELSE <<>>]
  BY DEF JustStarted
<1>1. /\ DOMAIN todo = Drivers /\ DOMAIN m_params = Axes
      /\ \A a \in Axes : m_params[a] = Constructed
  BY <1>0
<1>2. "is_TMC" \in DOMAIN Constructed /\ Constructed.is_TMC = 1
  BY DEF Constructed
<1>3. todo["SkyTracker"] = Constructor /\ todo["ASCOM"] = <<>> /\ todo["Focuser"] = <<>>
  BY <1>0 DEF Drivers
<1>4. Len(Constructor) = 8 /\ Constructor \in Seq(StepsOf(Constructor))
  BY ConstructorSteps
<1>5. AtStep(Constructor, 1)
  BY <1>4 DEF AtStep, Axes
<1>6. ConstructorInv
  BY <1>0, <1>1, <1>2, <1>3, <1>4, <1>5 DEF ConstructorInv
<1>. QED BY <1>0, <1>1, <1>2, <1>6 DEF TypesInv, ShapeOK, CallsInv

\* It starts again.
LEMMA RestartTypes == JustStarted' => TypesInv'
BY StartedTypes, PTL

\* A sequence is one over its own steps.
LEMMA OwnSteps ==
    ASSUME NEW S, NEW s \in Seq(S)
    PROVE  s \in Seq(StepsOf(s))
<1>1. Len(s) \in Nat /\ s \in [1..Len(s) -> S] /\ DOMAIN s = 1..Len(s)
  BY LenProperties
<1>2. s \in [1..Len(s) -> StepsOf(s)]
  BY <1>1 DEF StepsOf
<1>. QED BY <1>1, <1>2, SeqDef

\* What is left after the first of its steps.
LEMMA LeftOf ==
    ASSUME NEW s, s \in Seq(StepsOf(s)), NEW n \in Nat, Len(s) = n + 1
    PROVE  /\ Head(s) = s[1] /\ Len(Tail(s)) = n
           /\ \A i \in 1..n : Tail(s)[i] = s[i + 1]
           /\ Tail(s) \in Seq(StepsOf(s)) /\ Tail(s) \in Seq(StepsOf(Tail(s)))
<1>. DEFINE S == StepsOf(s)
<1>. HIDE DEF S
<1>1. s \in Seq(S)
  BY DEF S
<1>2. s # <<>>
  BY EmptySeq
<1>3. /\ Tail(s) \in Seq(S) /\ Len(Tail(s)) = Len(s) - 1
      /\ \A i \in 1..Len(Tail(s)) : Tail(s)[i] = s[i + 1]
  BY <1>1, <1>2, HeadTailProperties
<1>4. Tail(s) \in Seq(StepsOf(Tail(s)))
  BY <1>3, OwnSteps
<1>5. Head(s) = s[1]
  BY <1>1, <1>2
<1>. QED BY <1>3, <1>4, <1>5 DEF S

\* The constructor goes from step to step; at its end all agrees.
LEMMA ServesConstructor ==
    ASSUME TypesInv, ~up, NEW d \in Drivers, Serve(d)
    PROVE  TypesInv'
<1>. DEFINE s == todo[d]  t == Tail(s)
<1>1. /\ ShapeOK' /\ met' = met /\ s # <<>>
      /\ \A e \in Drivers \ {d} : todo'[e] = todo[e]
  BY Served DEF TypesInv
<1>2. /\ todo["ASCOM"] = <<>> /\ todo["Focuser"] = <<>>
      /\ \A a \in Axes : m_params[a].is_TMC = 1
  BY DEF TypesInv, ConstructorInv
<1>3. d = "SkyTracker"
  BY <1>1, <1>2 DEF Drivers
<1>4. todo'["ASCOM"] = <<>> /\ todo'["Focuser"] = <<>>
  BY <1>1, <1>2, <1>3 DEF Drivers
<1>5. /\ s \in Seq(StepsOf(s))
      /\ (\E k \in 1..8 : AtStep(s, k)) \/ (\E a \in Axes : AtTypes(s, a))
  BY <1>3 DEF TypesInv, ConstructorInv
<1>6. ASSUME NEW script, NEW result, Goes(d, script, result) PROVE todo'[d] = script
  BY <1>6 DEF Goes, TypesInv, ShapeOK
<1>. HIDE DEF s, t
<1>7. ASSUME \A a \in Axes : m_params'[a].is_TMC = 1, ~up',
             todo'[d] \in Seq(StepsOf(todo'[d])),
             \/ \E k \in 1..8 : AtStep(todo[d], k)'
             \/ \E a \in Axes : AtTypes(todo[d], a)'
      PROVE  TypesInv'
  <2>1. ConstructorInv'
    BY <1>3, <1>4, <1>7 DEF ConstructorInv
  <2>. QED BY <1>1, <1>7, <2>1 DEF TypesInv, CallsInv
<1>8. ASSUME NEW k \in 1..8, AtStep(s, k) PROVE TypesInv'
  <2>1. /\ Len(s) = 9 - k /\ \A i \in 1..(9 - k) : s[i] = Constructor[i + k - 1]
        /\ \A a \in Axes : 2 * a + 3 <= k => a \in tmc_select
    BY <1>8 DEF AtStep
  <2>2. /\ Head(s) = s[1] /\ Len(t) = 8 - k /\ \A i \in 1..(8 - k) : t[i] = s[i + 1]
        /\ t \in Seq(StepsOf(s)) /\ t \in Seq(StepsOf(t))
    <3>1. 8 - k \in Nat /\ Len(s) = (8 - k) + 1
      BY <2>1
    <3>. QED BY <1>5, <3>1, LeftOf DEF t
  <2>3. Head(s) = Constructor[k] /\ Step(d) = Constructor[k]
    BY <2>1, <2>2 DEF Step, s
  <2>4. \A i \in 1..(8 - k) : t[i] = Constructor[i + k]
    BY <2>1, <2>2
  <2>5. ASSUME NEW a \in Axes, k = 2 * a + 1 PROVE TypesInv'
    <3>1. Step(d) = Set(a, "is_TMC", 1)
      BY <2>3, <2>5, ConstructorSteps
    <3>2. SetParameter(d)
      BY <3>1, ServesStep DEF Step, Set
    <3>3. Allowed(Step(d)) /\ HandOn(Step(d)) = <<>>
      BY <3>1 DEF Allowed, HandOn, Set
    <3>4. /\ m_params' = [m_params EXCEPT ![Step(d).axis][Step(d).field] = Step(d).value]
          /\ Goes(d, HandOn(Step(d)) \o Tail(todo[d]), answer[d])
      BY <3>2, <3>3 DEF SetParameter
    <3>5. m_params' = [m_params EXCEPT ![a]["is_TMC"] = 1]
      BY <3>1, <3>4 DEF Set
    <3>6. \A b \in Axes : m_params'[b].is_TMC = 1
      BY <1>2, <3>5 DEF TypesInv, ShapeOK
    <3>7. todo'[d] = t
      <4>1. <<>> \o t = t
        BY <2>2, Tails
      <4>. QED BY <1>6, <3>3, <3>4, <4>1 DEF s, t
    <3>8. tmc_select' = tmc_select /\ ~up'
      BY <3>2 DEF SetParameter, hardware
    <3>9. AtStep(todo[d], k + 1)' /\ k + 1 \in 1..8
      <4>1. \A b \in Axes : 2 * b + 3 <= k + 1 => 2 * b + 3 <= k
        BY <2>5 DEF Axes
      <4>. QED BY <2>1, <2>2, <2>4, <2>5, <3>7, <3>8, <4>1 DEF AtStep, Axes
    <3>. QED BY <1>7, <2>2, <3>6, <3>7, <3>8, <3>9
  <2>6. ASSUME NEW a \in Axes, k = 2 * a + 2 PROVE TypesInv'
    <3>. DEFINE w == WriteTypes(TypesWith(a, 1))  u == <<w>>
    <3>1. Step(d) = ReadType(a, 1)
      BY <2>3, <2>6, ConstructorSteps
    <3>2. TypesRead(d)
      BY <3>1, ServesStep DEF Step, ReadType
    <3>3. m_params' = m_params /\ tmc_select' = tmc_select /\ ~up'
          /\ Goes(d, <<w>> \o Tail(todo[d]), 1)
      BY <3>1, <3>2 DEF TypesRead, ReadType, hardware
    <3>4. TypesWith(a, 1)' = TypesWith(a, 1)
      BY <3>3 DEF TypesWith
    <3>5. todo'[d] = u \o t
      BY <1>6, <3>3 DEF s, t
    <3>. DEFINE S == StepsOf(s) \cup {w}
    <3>6. t \in Seq(S) /\ u \in Seq(S) /\ Len(u) = 1 /\ u[1] = w
      <4>1. w \in S /\ StepsOf(s) \subseteq S
        OBVIOUS
      <4>. HIDE DEF S, w
      <4>2. t \in Seq(S)
        BY <2>2, <4>1, SeqMonotonic
      <4>. QED BY <4>1, <4>2
    <3>. HIDE DEF S, u
    <3>7. /\ u \o t \in Seq(S) /\ Len(u \o t) = Len(u) + Len(t)
          /\ \A i \in 1..Len(u) + Len(t) :
               (u \o t)[i] = IF i <= Len(u) THEN u[i] ELSE t[i - Len(u)]
      BY <3>6, ConcatProperties
    <3>8. u \o t \in Seq(StepsOf(u \o t))
      BY <3>7, OwnSteps
    <3>9. Len(u \o t) = 9 - k /\ (u \o t)[1] = w
          /\ \A i \in 2..(9 - k) : (u \o t)[i] = Constructor[i + k - 1]
      <4>1. Len(u \o t) = 9 - k /\ (u \o t)[1] = w
        BY <2>2, <3>6, <3>7
      <4>2. ASSUME NEW i \in 2..(9 - k) PROVE (u \o t)[i] = Constructor[i + k - 1]
        <5>1. i \in 1..Len(u) + Len(t) /\ ~(i <= Len(u)) /\ i - Len(u) \in 1..(8 - k)
          BY <2>2, <3>6
        <5>2. (u \o t)[i] = t[i - Len(u)]
          BY <3>7, <5>1
        <5>3. t[i - Len(u)] = Constructor[i - Len(u) + k]
          BY <2>4, <5>1
        <5>4. i - Len(u) + k = i + k - 1
          BY <3>6
        <5>. QED BY <5>2, <5>3, <5>4
      <4>. QED BY <4>1, <4>2
    <3>10. AtTypes(todo[d], a)'
      <4>1. \A b \in Axes : b < a => 2 * b + 3 <= k
        BY <2>6 DEF Axes
      <4>2. 9 - k = 7 - 2 * a /\ \A i \in 2..(7 - 2 * a) : i + k - 1 = i + 2 * a + 1
        BY <2>6 DEF Axes
      <4>. QED BY <2>1, <3>3, <3>4, <3>5, <3>9, <4>1, <4>2 DEF AtTypes
    <3>. QED BY <1>2, <1>7, <3>3, <3>5, <3>8, <3>10
  <2>7. ASSUME NEW a \in 0..1, k = 7 + a PROVE TypesInv'
    <3>1. Step(d) = Centered(a)
      BY <2>3, <2>7, ConstructorSteps
    <3>2. PositionWritten(d)
      BY <3>1, ServesStep DEF Step, Centered
    <3>3. ~(Step(d).value > CountEnd)
      BY <3>1, SkyTrackerAssumption DEF Centered
    <3>4. /\ tmc_select' = tmc_select /\ m_params' = m_params
          /\ Goes(d, Tail(todo[d]), answer[d]) /\ up' = (up \/ Len(todo[d]) = 1)
      BY <3>2, <3>3 DEF PositionWritten, Written, GoesOn
    <3>5. todo'[d] = t /\ (up' <=> k = 8)
      <4>1. todo'[d] = t
        BY <1>6, <3>4 DEF s, t
      <4>2. Len(todo[d]) = 1 <=> k = 8
        BY <2>1 DEF s
      <4>. QED BY <3>4, <4>1, <4>2, Zenon
    <3>6. CASE k = 7
      <4>1. AtStep(todo[d], 8)'
        <5>1. \A b \in Axes : 2 * b + 3 <= 8 => 2 * b + 3 <= k
          BY <3>6 DEF Axes
        <5>. QED BY <2>1, <2>2, <2>4, <3>4, <3>5, <3>6, <5>1 DEF AtStep
      <4>. QED BY <1>2, <1>7, <2>2, <3>4, <3>5, <3>6, <4>1
    <3>7. CASE k = 8
      <4>1. todo'[d] = <<>>
        <5>1. Len(t) = 0
          BY <2>2, <3>7
        <5>. QED BY <2>2, <3>5, <5>1, EmptySeq
      <4>2. \A e \in Drivers : Plain(todo'[e])
        BY <1>3, <1>4, <4>1, PlainEmpty DEF Drivers
      <4>3. AllAgree'
        BY <1>2, <2>1, <3>4, <3>7 DEF AllAgree, Agrees, Axes
      <4>4. CallsInv'
        BY <4>2, <4>3 DEF CallsInv
      <4>5. ConstructorInv'
        BY <3>5, <3>7 DEF ConstructorInv
      <4>. QED BY <1>1, <4>4, <4>5 DEF TypesInv
    <3>. QED BY <2>7, <3>6, <3>7
  <2>8. \/ \E a \in Axes : k = 2 * a + 1 \/ k = 2 * a + 2
        \/ \E a \in 0..1 : k = 7 + a
    <3>1. k \in {1, 2, 3, 4, 5, 6, 7, 8}
      OBVIOUS
    <3>. QED BY <3>1 DEF Axes
  <2>. QED BY <2>5, <2>6, <2>7, <2>8
<1>9. ASSUME NEW a \in Axes, AtTypes(s, a) PROVE TypesInv'
  <2>1. /\ Len(s) = 7 - 2 * a /\ s[1] = WriteTypes(TypesWith(a, 1))
        /\ \A i \in 2..(7 - 2 * a) : s[i] = Constructor[i + 2 * a + 1]
        /\ \A b \in Axes : b < a => b \in tmc_select
    BY <1>9 DEF AtTypes
  <2>. DEFINE n == 6 - 2 * a
  <2>2. /\ Head(s) = s[1] /\ Len(t) = n /\ \A i \in 1..n : t[i] = s[i + 1]
        /\ t \in Seq(StepsOf(t))
    <3>1. n \in Nat /\ Len(s) = n + 1
      BY <2>1 DEF Axes
    <3>. QED BY <1>5, <3>1, LeftOf DEF t
  <2>3. Step(d) = WriteTypes(TypesWith(a, 1))
    BY <2>1, <2>2 DEF Step, s
  <2>4. TypesWritten(d)
    BY <2>3, ServesStep DEF Step, WriteTypes
  <2>5. /\ tmc_select' = TypesWith(a, 1) /\ m_params' = m_params
        /\ Goes(d, Tail(todo[d]), answer[d]) /\ up' = (up \/ Len(todo[d]) = 1)
    BY <2>3, <2>4 DEF TypesWritten, Written, GoesOn, WriteTypes
  <2>6. todo'[d] = t /\ ~up'
    <3>1. todo'[d] = t
      BY <1>6, <2>5 DEF s, t
    <3>2. Len(todo[d]) # 1
      BY <2>1 DEF s, Axes
    <3>. QED BY <2>5, <3>1, <3>2, Zenon
  <2>7. AtStep(todo[d], 2 * a + 3)' /\ 2 * a + 3 \in 1..8
    <3>1. \A b \in Axes : 2 * b + 3 <= 2 * a + 3 => b \in tmc_select'
      BY <2>1, <2>5 DEF TypesWith, Axes
    <3>2. \A i \in 1..n : t[i] = Constructor[i + 2 * a + 2]
      BY <2>1, <2>2 DEF Axes
    <3>3. n = 9 - (2 * a + 3) /\ \A i \in 1..n : i + (2 * a + 3) - 1 = i + 2 * a + 2
      BY DEF Axes
    <3>. QED BY <2>2, <2>6, <3>1, <3>2, <3>3 DEF AtStep, Axes
  <2>. QED BY <1>2, <1>7, <2>2, <2>5, <2>6, <2>7
<1>. QED BY <1>5, <1>8, <1>9

-----------------------------------------------------------------------------
(* The drivers' steps. *)

\* A call on the types is not plain.
Apart == \A d \in Drivers : OnTypes(d) => ~Plain(todo[d])

\* OnTypes and Plain exclude each other.
LEMMA NotBoth == Apart
<1>. SUFFICES ASSUME NEW d \in Drivers, OnTypes(d) PROVE ~Plain(todo[d])
  BY DEF Apart
<1>. PICK a \in Axes : GetsType(d, a) \/ \E t \in Bit : SetsType(d, a, t)
  BY DEF OnTypes
<1>. DEFINE s == todo[d]
<1>1. 1 \in DOMAIN s /\ OfTypes(s[1])
  <2>1. \A x, y : /\ 1 \in DOMAIN <<x, y>> /\ <<x, y>>[1] = x
                 /\ 1 \in DOMAIN <<x>> /\ <<x>>[1] = x
    OBVIOUS
  <2>2. /\ \A t : OfTypes(ReadType(a, t)) /\ OfTypes(Set(a, "is_TMC", t))
        /\ \A x : OfTypes(WriteTypes(x))
    BY DEF OfTypes, Does, ReadType, WriteTypes, Set
  <2>3. CASE GetsType(d, a)
    BY <2>1, <2>2, <2>3 DEF GetsType
  <2>4. ASSUME NEW t \in Bit, SetsType(d, a, t) PROVE 1 \in DOMAIN s /\ OfTypes(s[1])
    BY <2>1, <2>2, <2>4 DEF SetsType
  <2>. QED BY <2>3, <2>4
<1>. QED BY <1>1, PlainEach

\* The same in the next state.
LEMMA NotBothNext == Apart'
BY NotBoth, PTL

\* A driver goes on when all are constructed.
LEMMA ServesCalls ==
    ASSUME TypesInv, up, NEW d \in Drivers, Serve(d)
    PROVE  TypesInv'
<1>1. /\ ShapeOK' /\ met' = met /\ up'
      /\ \A e \in Drivers \ {d} : todo'[e] = todo[e]
  BY Served DEF TypesInv
<1>2. CallsInv'
  <2>. SUFFICES ASSUME ~met' PROVE CallsInv'
    BY DEF CallsInv
  <2>1. /\ \A e \in Drivers : Plain(todo[e]) \/ OnTypes(e)
        /\ \A e, f \in Drivers : e # f => Plain(todo[e]) \/ Plain(todo[f])
        /\ (\A e \in Drivers : Plain(todo[e])) => AllAgree
    BY <1>1 DEF TypesInv, CallsInv
  <2>2. \A e \in Drivers \ {d} : Plain(todo'[e]) <=> Plain(todo[e])
    BY <1>1
  <2>3. CASE Plain(todo[d])
    <3>1. /\ Plain(todo'[d]) /\ tmc_select' = tmc_select
          /\ \A a \in Axes : m_params'[a].is_TMC = m_params[a].is_TMC
      BY <2>3, ServesPlain DEF TypesInv
    <3>2. AllAgree => AllAgree'
      BY <3>1, SameTypes
    <3>3. \A e \in Drivers \ {d} : OnTypes(e) => OnTypes(e)'
      BY <1>1, <3>1, SameTypes
    <3>4. \A e \in Drivers : Plain(todo'[e]) \/ OnTypes(e)'
      BY <2>1, <2>2, <3>1, <3>3
    <3>5. \A e \in Drivers : Plain(todo'[e]) <=> Plain(todo[e])
      BY <2>2, <2>3, <3>1
    <3>. QED BY <2>1, <3>2, <3>4, <3>5 DEF CallsInv
  <2>4. CASE ~Plain(todo[d])
    <3>1. OnTypes(d) /\ \A e \in Drivers \ {d} : Plain(todo[e])
      BY <2>1, <2>4
    <3>2. OnTypes(d)' \/ (todo'[d] = <<>> /\ AllAgree')
      BY <3>1, ServesTypes DEF TypesInv
    <3>3. \A e \in Drivers \ {d} : Plain(todo'[e])
      BY <2>2, <3>1
    <3>4. CASE todo'[d] = <<>> /\ AllAgree'
      <4>1. Plain(todo'[d])
        BY <3>4, PlainEmpty
      <4>. QED BY <3>3, <3>4, <4>1 DEF CallsInv
    <3>5. CASE OnTypes(d)'
      <4>1. ~Plain(todo'[d])
        BY <3>5, NotBothNext DEF Apart
      <4>. QED BY <3>3, <3>5, <4>1 DEF CallsInv
    <3>. QED BY <3>2, <3>4, <3>5
  <2>. QED BY <2>3, <2>4
<1>. QED BY <1>1, <1>2 DEF TypesInv, ConstructorInv

\* A step of the drivers, or none.
LEMMA DriversNext ==
    ASSUME TypesInv, [NextDrivers]_vars
    PROVE  TypesInv'
<1>1. CASE Restart
  <2>1. JustStarted'
    BY <1>1 DEF Restart, Boots, JustStarted
  <2>. QED BY <2>1, RestartTypes
<1>2. ASSUME NEW d \in Drivers, Serve(d) PROVE TypesInv'
  BY <1>2, ServesCalls, ServesConstructor
<1>3. ASSUME NEW d \in Drivers, NEW a \in Axes, Calls(d, a) PROVE TypesInv'
  BY <1>3, ClientsCall
<1>4. CASE UNCHANGED vars \/ \E a \in Axes : AxisMoves(a) \/ AxisRests(a)
  <2>1. /\ m_params' = m_params /\ tmc_select' = tmc_select /\ todo' = todo
        /\ up' = up /\ met' = met
    BY <1>4 DEF vars, hardware, AxisMoves, AxisRests
  <2>2. ShapeOK'
    BY <2>1 DEF TypesInv, ShapeOK
  <2>3. CallsInv'
    <3>1. (AllAgree => AllAgree') /\ \A d \in Drivers : OnTypes(d) => OnTypes(d)'
      BY <2>1, SameTypes
    <3>. QED BY <2>1, <3>1 DEF TypesInv, CallsInv
  <2>4. ConstructorInv'
    BY <2>1 DEF TypesInv, ConstructorInv, AtStep, AtTypes, TypesWith
  <2>. QED BY <2>2, <2>3, <2>4 DEF TypesInv
<1>. QED BY <1>1, <1>2, <1>3, <1>4 DEF NextDrivers

-----------------------------------------------------------------------------
(* The gateway's steps. *)

\* All that the gateway calls is plain.
LEMMA PlainCommands ==
    /\ \A step \in Starting : Plain(StartCall(step))
    /\ \A c : c.letter \in Letters \ {"P", "s"} => Plain(CallOf(c))
    /\ \A a, slew, v : Plain(<<Set(a, Period(slew), v)>>)
<1>1. \A x : ~OfTypes(x) => Plain(<<x>>)
  BY PlainStep
<1>2. /\ \A a, f, v : f # "is_TMC" => Plain(<<Set(a, f, v)>>)
      /\ \A a, f : Plain(<<Get(a, f)>>)
      /\ \A a, g : Plain(<<Send(a, g)>>)
      /\ \A a : /\ Plain(<<Start(a)>>) /\ Plain(<<ReadStop(a)>>)
               /\ Plain(<<ReadStatus(a)>>) /\ Plain(<<ReadCount(a)>>)
  <2>1. /\ \A a, f, v : f # "is_TMC" => ~OfTypes(Set(a, f, v))
        /\ \A a, f : ~OfTypes(Get(a, f))
        /\ \A a, g : ~OfTypes(Send(a, g))
        /\ \A a : /\ ~OfTypes(Start(a)) /\ ~OfTypes(ReadStop(a))
                 /\ ~OfTypes(ReadStatus(a)) /\ ~OfTypes(ReadCount(a))
    BY DEF OfTypes, Does, Set, Get, Send, Start, ReadStop, ReadStatus, ReadCount
  <2>. QED BY <1>1, <2>1
<1>3. ASSUME NEW step \in Starting PROVE Plain(StartCall(step))
  <2>1. CASE step = "start 1"
    BY <2>1, PlainInitialize DEF StartCall
  <2>2. CASE step = "start 2"
    BY <2>2, PlainInitialize DEF StartCall
  <2>3. CASE step = "start 3"
    BY <1>2, <2>3 DEF StartCall
  <2>4. CASE step = "start 4"
    BY <2>4, PlainMotions DEF StartCall
  <2>5. CASE step = "start 5"
    BY <2>5, PlainMotions DEF StartCall
  <2>. QED BY <2>1, <2>2, <2>3, <2>4, <2>5 DEF Starting
<1>4. ASSUME NEW c, c.letter \in Letters \ {"P", "s"} PROVE Plain(CallOf(c))
  <2>1. c.letter \in {"j", "f", "a", "E", "F", "K", "L", "G", "I", "H", "S", "J"}
    BY <1>4, GatewayAssumption
  <2>2. CASE c.letter = "j"
    BY <1>2, <2>2 DEF CallOf
  <2>3. CASE c.letter = "f"
    BY <1>2, <2>3 DEF CallOf
  <2>4. CASE c.letter = "a"
    BY <1>2, <2>4 DEF CallOf
  <2>5. CASE c.letter = "E"
    BY <2>5, PlainMotions DEF CallOf
  <2>6. CASE c.letter = "F"
    BY <2>6, PlainInitialize DEF CallOf
  <2>7. CASE c.letter = "K"
    BY <1>2, <2>7 DEF CallOf
  <2>8. CASE c.letter = "L"
    BY <1>2, <2>8 DEF CallOf
  <2>9. CASE c.letter = "G"
    <3>1. \A slew : Forward(slew) # "is_TMC"
      BY DEF Forward
    <3>. QED BY <1>2, <2>9, <3>1 DEF CallOf
  <2>10. CASE c.letter = "I"
    BY <1>2, <2>10 DEF CallOf
  <2>11. CASE c.letter = "H"
    BY <1>2, <2>11 DEF CallOf
  <2>12. CASE c.letter = "S"
    BY <1>2, <2>12 DEF CallOf
  <2>13. CASE c.letter = "J"
    BY <1>2, <2>13 DEF CallOf
  <2>. QED BY <2>1, <2>2, <2>3, <2>4, <2>5, <2>6, <2>7, <2>8, <2>9, <2>10, <2>11, <2>12, <2>13
<1>5. ASSUME NEW a, NEW slew, NEW v PROVE Plain(<<Set(a, Period(slew), v)>>)
  <2>1. Period(slew) # "is_TMC"
    BY DEF Period
  <2>. QED BY <1>2, <2>1
<1>. QED BY <1>3, <1>4, <1>5

\* What it obeys leaves the types alone.
LEMMA ObeysTypes ==
    ASSUME TypesInv, NEW c, c.letter \in Letters, Obey(c)
    PROVE  TypesInv'
<1>1. CASE UNCHANGED vars
  BY <1>1, DriversNext
<1>2. CASE c.letter \notin {"P", "s"}
           /\ Asks(CallOf(c), IF c.letter = "J" THEN ToldWant(c.axis) ELSE NoWant)
  <2>1. Plain(CallOf(c)) /\ "ASCOM" \in Drivers
    BY <1>2, PlainCommands DEF Drivers
  <2>. QED BY <1>2, <2>1, PlainCall DEF Asks
<1>. QED BY <1>1, <1>2 DEF Obey

\* A step of the gateway, the handset or the drivers keeps the types ...
LEMMA GatewayNextTypes ==
    ASSUME TypesInv, LinkOK, [GatewayNext]_allVars
    PROVE  TypesInv'
<1>1. CASE UNCHANGED vars
  BY <1>1, DriversNext
<1>2. CASE NextDrivers
  BY <1>2, DriversNext
<1>3. CASE StartUp
  <2>1. Plain(StartCall(pc)) /\ "ASCOM" \in Drivers
    BY <1>3, PlainCommands DEF StartUp, Drivers
  <2>. QED BY <1>3, <2>1, PlainCall DEF StartUp, Asks
<1>4. CASE SetsPeriod
  <2>. DEFINE script == <<Set(cmd.axis, Period(isSlew[cmd.axis]),
                              Larger(TicksOf(cmd.data), answer["ASCOM"]))>>
  <2>1. Plain(script) /\ "ASCOM" \in Drivers
    BY PlainCommands DEF Drivers
  <2>2. Enter("ASCOM", "handset", script, NoWant)
    BY <1>4 DEF SetsPeriod, Asks
  <2>. HIDE DEF script
  <2>. QED BY <2>1, <2>2, PlainCall
<1>5. CASE Read
  <2>1. Head(toGateway) \in Known
    BY <1>5 DEF Read, LinkOK
  <2>2. Head(toGateway).letter \in Letters
    BY <2>1 DEF Known
  <2>. QED BY <1>5, <2>2, ObeysTypes DEF Read
<1>6. CASE ReadCut
  <2>1. Head(toGateway) \in Known
    BY <1>6 DEF ReadCut, LinkOK
  <2>2. CASE UNCHANGED <<vars, toHandset, cmd, pc, isSlew>>
    BY <1>1, <2>2
  <2>3. ASSUME NEW n \in use.data, Obey([Head(toGateway) EXCEPT !.data = n])
        PROVE  TypesInv'
    <3>. DEFINE c == [Head(toGateway) EXCEPT !.data = n]
    <3>1. c.letter \in Letters
      BY <2>1 DEF Known
    <3>. HIDE DEF c
    <3>2. Obey(c)
      BY <2>3 DEF c
    <3>. QED BY <3>1, <3>2, ObeysTypes
  <2>. QED BY <1>6, <2>2, <2>3 DEF ReadCut
<1>7. CASE StartedUp \/ Answers
  BY <1>1, <1>7 DEF StartedUp, Answers
<1>8. CASE SendAgain \/ Receive
  BY <1>1, <1>8 DEF SendAgain, Receive
<1>9. CASE \E l \in Letters, a \in MountAxes, n \in Data :
             Ask([letter |-> l, axis |-> a, data |-> n])
  BY <1>1, <1>9 DEF Ask
<1>. QED BY <1>1, <1>2, <1>3, <1>4, <1>5, <1>6, <1>7, <1>8, <1>9
         DEF GatewayNext, GatewayStep, allVars

\* ... and only commands that it knows on their way.
LEMMA GatewayNextLink ==
    ASSUME LinkOK, [GatewayNext]_allVars
    PROVE  LinkOK'
<1>1. CASE toGateway' = toGateway /\ asked' \in {asked, Nothing}
  BY <1>1 DEF LinkOK
<1>2. CASE Read
  BY <1>2 DEF Read, LinkOK
<1>3. CASE ReadCut
  BY <1>3 DEF ReadCut, LinkOK
<1>4. CASE SendAgain
  BY <1>4 DEF SendAgain, LinkOK
<1>5. ASSUME NEW l \in Letters, NEW a \in MountAxes, NEW n \in Data,
             Ask([letter |-> l, axis |-> a, data |-> n])
      PROVE  LinkOK'
  <2>. DEFINE c == [letter |-> l, axis |-> a, data |-> n]
  <2>1. c \in Known
    BY GatewayAssumption DEF Known
  <2>2. asked' = c /\ toGateway' = Append(toGateway, c)
    BY <1>5 DEF Ask
  <2>. HIDE DEF c
  <2>. QED BY <2>1, <2>2 DEF LinkOK
<1>6. CASE (NextDrivers /\ UNCHANGED gatewayVars) \/ UNCHANGED allVars
  BY <1>1, <1>6 DEF allVars, gatewayVars, link
<1>7. CASE StartUp \/ StartedUp \/ SetsPeriod \/ Answers
  BY <1>1, <1>7 DEF StartUp, StartedUp, SetsPeriod, Answers, link
<1>8. CASE Receive
  BY <1>1, <1>8 DEF Receive
<1>. QED BY <1>2, <1>3, <1>4, <1>5, <1>6, <1>7, <1>8 DEF GatewayNext, GatewayStep

\* What SkyTracker keeps of a motor's type is what the register says, unless
\* two calls have worked on the types at once since the server started: it is
\* so between any two calls of any clients, the gateway's too, and after any
\* number of restarts half way through a call (set_motor_type, get_motor_type
\* and the constructor of SkyTrackerInterface).
THEOREM TypesAlwaysAgree == GatewaySpec => []MotorTypeAgrees
<1>1. GatewayInit => TypesInv /\ LinkOK
  <2>. SUFFICES ASSUME GatewayInit PROVE TypesInv /\ LinkOK
    OBVIOUS
  <2>1. TypesInv
    BY StartedTypes DEF GatewayInit, Init, JustStarted
  <2>2. toGateway = <<>> /\ asked = Nothing
    BY DEF GatewayInit
  <2>3. <<>> \in Seq(Known)
    OBVIOUS
  <2>. QED BY <2>1, <2>2, <2>3 DEF LinkOK
<1>2. TypesInv /\ LinkOK /\ [GatewayNext]_allVars => (TypesInv /\ LinkOK)'
  BY GatewayNextTypes, GatewayNextLink
<1>3. TypesInv => MotorTypeAgrees
  <2>. SUFFICES ASSUME TypesInv, up, ~met, \A d \in Drivers : ~Typing(todo[d])
                PROVE  AllAgree
    BY DEF MotorTypeAgrees, AllAgree, Agrees
  <2>1. \A d \in Drivers : Plain(todo[d]) \/ OnTypes(d)
    BY DEF TypesInv, CallsInv
  <2>2. \A d \in Drivers : Plain(todo[d])
    BY <2>1, PlainOrTyping
  <2>. QED BY <2>2 DEF TypesInv, CallsInv
<1>. QED BY <1>1, <1>2, <1>3, PTL DEF GatewaySpec

-----------------------------------------------------------------------------
(* A motion that no other call meets: what its call still has to do, and    *)
(* what it has done of what its client wanted.                              *)

\* A call that no other has met is the only one.
AloneInv == \A d, e \in Drivers : call[d].alone /\ e # d => Idle(e)

Go(goto, f) == [go |-> 1, goto |-> goto, forward |-> f, cancel |-> 0]

\* The steps of a call to run a command on axis a: period p, goal v.
ToCommand(s, a, p, v, goto, f) ==
    LET m == m_params[a]
        setForward == Set(a, "goto_forward", f)
        duration == WriteReg(a, "cmdduration", v)
        go == WriteCommand(a, Go(goto, f))
        back == WriteCommand(a, NoCommand)
    IN  \/ s = <<Set(a, Goal(goto), v), Set(a, "goto_period", p), setForward, Send(a, goto)>>
        \/ s = <<Set(a, "goto_period", p), setForward, Send(a, goto)>> /\ m[Goal(goto)] = v
        \/ s = <<setForward, Send(a, goto)>> /\ m[Goal(goto)] = v /\ m.goto_period = p
        \/ /\ s = <<Send(a, goto)>>
           /\ m[Goal(goto)] = v /\ m.goto_period = p /\ m.goto_forward = f
        \/ s = <<WriteReg(a, "cmdtick", p), duration, go, back>>
        \/ s = <<duration, go, back>> /\ regs[a].cmdtick = p
        \/ s = <<go, back>> /\ regs[a].cmdtick = p /\ regs[a].cmdduration = v
        \/ s = <<back>>

\* And of one to track; a period that is handed on comes in between.
ToTrack(s, a, p, f) ==
    LET m == m_params[a]
        setForward == Set(a, "slew_forward", f)
    IN  \/ s = <<Set(a, "slew_period", p), setForward, Start(a)>>
        \/ \E x : /\ s = <<x, setForward, Start(a)>> /\ m.slew_period = p
                  /\ x = [op |-> "update", axis |-> a] \/ \E q, g : x = WriteTrack(a, 1, q, g)
        \/ s = <<setForward, Start(a)>> /\ m.slew_period = p
        \/ s = <<Start(a)>> /\ m.slew_period = p /\ m.slew_forward = f
        \/ s = <<WriteTrack(a, 1, p, f)>>

\* A script that starts what is wanted, and nothing else.
Fits(s, want) ==
    \/ \E a \in Axes, goto \in Bit : \E p, v, f :
         want = WantCommand(a, p, v, goto, f) /\ ToCommand(s, a, p, v, goto, f)
    \/ \E a \in Axes : \E p, f : want = WantTrack(a, p, f) /\ ToTrack(s, a, p, f)

AsWanted(d) == call[d].alone /\ call[d].want.kind # "none" => Fits(todo[d], call[d].want)

WantsInv == RecordsOK /\ AloneInv /\ \A d \in Drivers : AsWanted(d)

-----------------------------------------------------------------------------
\* What follows the first step of a script of up to four, and one step before two.
LEMMA LongTails ==
    /\ \A x, y, z : Head(<<x, y, z>>) = x /\ Tail(<<x, y, z>>) = <<y, z>>
    /\ \A w, x, y, z : Head(<<w, x, y, z>>) = w /\ Tail(<<w, x, y, z>>) = <<x, y, z>>
OBVIOUS

\* Short sequences joined.
LEMMA OneBefore ==
    ASSUME NEW u, NEW x, NEW y
    PROVE  /\ <<u>> \o <<x, y>> = <<u, x, y>> /\ <<u>> \o <<>> = <<u>>
           /\ <<>> \o <<x>> = <<x>> /\ <<>> \o <<x, y>> = <<x, y>>
<1>. DEFINE S == {u, x, y} s == <<u>> t == <<x, y>> v == <<u, x, y>>
<1>1. s \in Seq(S) /\ t \in Seq(S) /\ v \in Seq(S)
  OBVIOUS
<1>2. Len(s) = 1 /\ Len(t) = 2 /\ Len(v) = 3
  OBVIOUS
<1>3. s[1] = u /\ t[1] = x /\ t[2] = y /\ v[1] = u /\ v[2] = x /\ v[3] = y
  OBVIOUS
<1>4. <<u>> \o <<>> = <<u>> /\ <<>> \o <<x>> = <<x>> /\ <<>> \o <<x, y>> = <<x, y>>
  OBVIOUS
<1>. HIDE DEF S, s, t, v
<1>5. /\ s \o t \in Seq(S) /\ Len(s \o t) = Len(s) + Len(t)
      /\ \A i \in 1..Len(s) + Len(t) : (s \o t)[i] = IF i <= Len(s) THEN s[i] ELSE t[i - Len(s)]
  BY <1>1, ConcatProperties
<1>. DEFINE c == s \o t
<1>6. Len(c) = 3 /\ \A i \in 1..3 : c[i] = v[i]
  BY <1>2, <1>3, <1>5
<1>. HIDE DEF c
<1>7. c = v
  BY <1>1, <1>2, <1>5, <1>6, SeqEqual DEF c
<1>. QED BY <1>4, <1>7 DEF c, s, t, v

\* The same of the longest script there is.
LEMMA FourAlone ==
    ASSUME NEW w, NEW x, NEW y, NEW z
    PROVE  <<w, x, y, z>> \o <<>> = <<w, x, y, z>> /\ <<>> \o <<x, y, z>> = <<x, y, z>>
<1>. DEFINE S == {w, x, y, z} s == <<w, x, y, z>> t == <<x, y, z>>
<1>1. s \in Seq(S) /\ t \in Seq(S)
  OBVIOUS
<1>. HIDE DEF S, s, t
<1>2. s \o <<>> = s /\ <<>> \o t = t
  BY <1>1, ConcatEmptySeq
<1>. QED BY <1>2 DEF s, t

\* None of these scripts is empty.
LEMMA NotEmpty ==
    \A w, x, y, z : <<w>> # <<>> /\ <<w, x>> # <<>> /\ <<w, x, y>> # <<>> /\ <<w, x, y, z>> # <<>>
OBVIOUS

\* Where a step leaves a call.
LEMMA GoesTo ==
    ASSUME ShapeOK, RecordsOK, NEW d \in Drivers, NEW script, NEW result,
           Goes(d, script, result)
    PROVE  /\ todo'[d] = script /\ answer'[d] = result
           /\ DOMAIN call' = Drivers /\ DOMAIN answer' = Drivers
           /\ \A e \in Drivers \ {d} : call'[e] = call[e]
           /\ IF script = <<>> THEN call'[d] = Quiet ELSE call'[d] = call[d]
BY DEF Goes, ShapeOK, RecordsOK

\* The steps by which a call moves.
LEMMA ServesOnly ==
    ASSUME NEW d \in Drivers, Serve(d)
    PROVE  /\ Head(todo[d]).op = "set" => SetParameter(d)
           /\ Head(todo[d]).op = "send" => SendCommand(d)
           /\ Head(todo[d]).op \in {"start", "update"} => StartTracking(d)
           /\ Head(todo[d]).op = "reg" => RegisterWritten(d)
           /\ Head(todo[d]).op = "track" => TrackWritten(d)
           /\ Head(todo[d]).op = "command" => CommandWritten(d)
BY DEF Serve, SetParameter, GetParameter, SendCommand, StartTracking, StopReads,
   StatusReads, Freshly, CountReads, RegisterWritten, TrackWritten, PositionWritten,
   CommandWritten, TypesRead, TypesWritten, NextIs

\* A parameter is set, or the call refused.
LEMMA Sets ==
    ASSUME ShapeOK, RecordsOK, NEW d \in Drivers, Serve(d), NEW a \in Axes, NEW f \in Fields,
           NEW v, Head(todo[d]) = Set(a, f, v)
    PROVE  /\ \/ /\ ~Allowed(Set(a, f, v)) /\ m_params' = m_params
                 /\ todo'[d] = <<>> /\ call'[d] = Quiet /\ answer'[d] = 0
              \/ /\ todo'[d] = HandOn(Set(a, f, v)) \o Tail(todo[d])
                 /\ answer'[d] = answer[d] /\ m_params'[a][f] = v
                 /\ \A g \in Fields : g # f => m_params'[a][g] = m_params[a][g]
           /\ \A b \in Axes \ {a} : m_params'[b] = m_params[b]
           /\ regs' = regs /\ held' = held
<1>1. SetParameter(d) /\ Step(d) = Set(a, f, v)
  BY ServesOnly DEF Set, Step
<1>2. regs' = regs /\ held' = held
  BY <1>1 DEF SetParameter, hardware, motion
<1>3. CASE ~Allowed(Step(d)) /\ Refuses(d) /\ UNCHANGED m_params
  <2>1. ~Allowed(Set(a, f, v)) /\ m_params' = m_params
    BY <1>1, <1>3
  <2>2. todo'[d] = <<>> /\ call'[d] = Quiet /\ answer'[d] = 0
    BY <1>3, GoesTo DEF Refuses
  <2>. QED BY <1>2, <2>1, <2>2
<1>4. CASE /\ m_params' = [m_params EXCEPT ![Step(d).axis][Step(d).field] = Step(d).value]
           /\ Goes(d, HandOn(Step(d)) \o Tail(todo[d]), answer[d])
  <2>1. m_params' = [m_params EXCEPT ![a][f] = v]
    BY <1>1, <1>4 DEF Set
  <2>2. /\ m_params'[a][f] = v
        /\ \A g \in Fields : g # f => m_params'[a][g] = m_params[a][g]
        /\ \A b \in Axes \ {a} : m_params'[b] = m_params[b]
    BY <2>1 DEF ShapeOK, RecordsOK
  <2>3. todo'[d] = HandOn(Set(a, f, v)) \o Tail(todo[d]) /\ answer'[d] = answer[d]
    BY <1>1, <1>4, GoesTo
  <2>. QED BY <1>2, <2>2, <2>3
<1>. QED BY <1>1, <1>3, <1>4 DEF SetParameter

\* Records keep their fields.
LEMMA ServesRecords ==
    ASSUME ShapeOK, RecordsOK, NEW d \in Drivers, Serve(d)
    PROVE  /\ RecordsOK' /\ \A e \in Drivers \ {d} : call'[e] = call[e]
           /\ call'[d] = Quiet \/ (call'[d] = call[d] /\ todo'[d] # <<>>)
<1>1. \E script, result : Goes(d, script, result)
  <2>1. CASE SetParameter(d)
    BY <2>1 DEF SetParameter, Refuses
  <2>2. CASE GetParameter(d)
    BY <2>2 DEF GetParameter
  <2>3. CASE SendCommand(d)
    BY <2>3 DEF SendCommand, Refuses
  <2>4. CASE StartTracking(d)
    BY <2>4 DEF StartTracking, Refuses, GoesOn
  <2>5. CASE StopReads(d) \/ StatusReads(d) \/ Freshly(d) \/ CountReads(d)
    BY <2>5 DEF StopReads, StatusReads, Freshly, CountReads, Refuses, GoesOn
  <2>6. CASE RegisterWritten(d) \/ TrackWritten(d) \/ CommandWritten(d) \/ TypesWritten(d)
    BY <2>6 DEF RegisterWritten, TrackWritten, CommandWritten, TypesWritten, Written, GoesOn
  <2>7. CASE PositionWritten(d)
    BY <2>7 DEF PositionWritten, Written, GoesOn, Refuses
  <2>8. CASE TypesRead(d)
    BY <2>8 DEF TypesRead
  <2>. QED BY <2>1, <2>2, <2>3, <2>4, <2>5, <2>6, <2>7, <2>8 DEF Serve
<1>2. /\ DOMAIN call' = Drivers /\ DOMAIN answer' = Drivers
      /\ \A e \in Drivers \ {d} : call'[e] = call[e]
      /\ call'[d] = Quiet \/ (call'[d] = call[d] /\ todo'[d] # <<>>)
  BY <1>1, GoesTo
<1>3. \A a \in Axes : Fields \subseteq DOMAIN m_params'[a]
  <2>1. \/ m_params' = m_params
        \/ \E a, f, v : m_params' = [m_params EXCEPT ![a][f] = v]
    <3>1. CASE SetParameter(d)
      BY <3>1 DEF SetParameter
    <3>2. CASE TypesRead(d)
      <4>1. \/ m_params' = m_params
            \/ \E a, v : m_params' = [m_params EXCEPT ![a]["is_TMC"] = v]
        BY <3>2 DEF TypesRead
      <4>. QED BY <4>1
    <3>3. CASE ~SetParameter(d) /\ ~TypesRead(d)
      BY <3>3 DEF Serve, GetParameter, SendCommand, StartTracking, StopReads,
         StatusReads, Freshly, CountReads, RegisterWritten, TrackWritten,
         PositionWritten, CommandWritten, TypesWritten, Written
    <3>. QED BY <3>1, <3>2, <3>3
  <2>2. ASSUME NEW a, NEW f, NEW v, m_params' = [m_params EXCEPT ![a][f] = v]
        PROVE  \A b \in Axes : DOMAIN m_params'[b] = DOMAIN m_params[b]
    BY <2>2 DEF ShapeOK
  <2>. QED BY <2>1, <2>2 DEF RecordsOK, RegsOK
<1>4. /\ DOMAIN regs' = Axes
      /\ \A a \in Axes : {"cmdtick", "cmdduration", "count"} \subseteq DOMAIN regs'[a]
  <2>1. regs' = regs \/ \E a, r, v : regs' = [regs EXCEPT ![a][r] = v]
    <3>1. CASE RegisterWritten(d)
      BY <3>1 DEF RegisterWritten
    <3>2. CASE TrackWritten(d)
      <4>1. \E a, v : regs' = [regs EXCEPT ![a]["trackctrl"] = v]
        BY <3>2 DEF TrackWritten
      <4>. QED BY <4>1
    <3>3. CASE PositionWritten(d)
      <4>1. regs' = regs \/ \E a, v : regs' = [regs EXCEPT ![a]["count"] = v]
        BY <3>3 DEF PositionWritten, Loads
      <4>. QED BY <4>1
    <3>4. CASE CommandWritten(d)
      <4>1. \E a, v : regs' = [regs EXCEPT ![a]["cmdcontrol"] = v]
        BY <3>4 DEF CommandWritten
      <4>. QED BY <4>1
    <3>5. CASE /\ ~RegisterWritten(d) /\ ~TrackWritten(d)
               /\ ~PositionWritten(d) /\ ~CommandWritten(d)
      BY <3>5 DEF Serve, SetParameter, GetParameter, SendCommand, StartTracking, StopReads,
         StatusReads, Freshly, CountReads, TypesRead, TypesWritten, hardware
    <3>. QED BY <3>1, <3>2, <3>3, <3>4, <3>5
  <2>2. ASSUME NEW a, NEW r, NEW v, regs' = [regs EXCEPT ![a][r] = v]
        PROVE  DOMAIN regs' = Axes /\ \A b \in Axes : DOMAIN regs'[b] = DOMAIN regs[b]
    BY <2>2 DEF RecordsOK, RegsOK
  <2>. QED BY <2>1, <2>2 DEF RecordsOK, RegsOK
<1>5. \A e \in Drivers : "alone" \in DOMAIN call'[e]
  BY <1>2 DEF RecordsOK, Quiet
<1>. QED BY <1>2, <1>3, <1>4, <1>5 DEF RecordsOK, RegsOK

\* A call to run a command goes on, or is refused.
LEMMA CommandGoesOn ==
    ASSUME ShapeOK, RecordsOK, NEW d \in Drivers, Serve(d),
           NEW a \in Axes, NEW goto \in Bit, NEW p, NEW v, NEW f,
           ToCommand(todo[d], a, p, v, goto, f)
    PROVE  /\ call'[d] = Quiet \/ ToCommand(todo[d], a, p, v, goto, f)'
           /\ CommandWritten(d) /\ Step(d).c.go = 1 =>
                /\ Step(d).axis = a /\ Step(d).c.goto = goto /\ Step(d).c.forward = f
                /\ regs'[a].cmdtick = p /\ regs'[a].cmdduration = v
           /\ ~TrackWritten(d)
<1>. DEFINE setGoal == Set(a, Goal(goto), v)
            setPeriod == Set(a, "goto_period", p)
            setForward == Set(a, "goto_forward", f)
            send == Send(a, goto)
            tick == WriteReg(a, "cmdtick", p)
            duration == WriteReg(a, "cmdduration", v)
            go == WriteCommand(a, Go(goto, f))
            back == WriteCommand(a, NoCommand)
            m == m_params[a]
            G == Goal(goto)
<1>1. G \in {"target", "ncycles"}
  BY DEF Goal
<1>2. HandOn(setGoal) = <<>> /\ HandOn(setPeriod) = <<>> /\ HandOn(setForward) = <<>>
  BY <1>1 DEF HandOn, Set
<1>3. /\ setGoal.op = "set" /\ setPeriod.op = "set" /\ setForward.op = "set"
      /\ send.op = "send" /\ tick.op = "reg" /\ duration.op = "reg"
      /\ go.op = "command" /\ back.op = "command"
  BY DEF Set, Send, WriteReg, WriteCommand
<1>4. TrackWritten(d) => Head(todo[d]).op = "track"
  BY DEF TrackWritten, NextIs
<1>5. CommandWritten(d) => Head(todo[d]).op = "command"
  BY DEF CommandWritten, NextIs
<1>. DEFINE C1 == todo[d] = <<setGoal, setPeriod, setForward, send>>
            C2 == todo[d] = <<setPeriod, setForward, send>> /\ m[G] = v
            C3 == todo[d] = <<setForward, send>> /\ m[G] = v /\ m.goto_period = p
            C4 == /\ todo[d] = <<send>>
                  /\ m[G] = v /\ m.goto_period = p /\ m.goto_forward = f
            C5 == todo[d] = <<tick, duration, go, back>>
            C6 == todo[d] = <<duration, go, back>> /\ regs[a].cmdtick = p
            C7 == /\ todo[d] = <<go, back>>
                  /\ regs[a].cmdtick = p /\ regs[a].cmdduration = v
            C8 == todo[d] = <<back>>
<1>6. C1 \/ C2 \/ C3 \/ C4 \/ C5 \/ C6 \/ C7 \/ C8
  BY DEF ToCommand
<1>7. C1' \/ C2' \/ C3' \/ C4' \/ C5' \/ C6' \/ C7' \/ C8'
      => ToCommand(todo[d], a, p, v, goto, f)'
  BY DEF ToCommand
<1>. HIDE DEF setGoal, setPeriod, setForward, send, tick, duration, go, back, G
<1>8. CASE C1
  <2>1. Head(todo[d]) = setGoal /\ Tail(todo[d]) = <<setPeriod, setForward, send>>
    BY <1>8, LongTails
  <2>2. \/ call'[d] = Quiet
        \/ todo'[d] = <<>> \o <<setPeriod, setForward, send>> /\ m_params'[a][G] = v
    <3>1. G \in Fields
      BY <1>1 DEF Fields
    <3>2. Head(todo[d]) = Set(a, G, v)
      BY <2>1 DEF setGoal, G
    <3>3. HandOn(Set(a, G, v)) = <<>>
      BY <1>2 DEF setGoal, G
    <3>4. /\ \/ /\ ~Allowed(Set(a, G, v)) /\ m_params' = m_params
                /\ todo'[d] = <<>> /\ call'[d] = Quiet /\ answer'[d] = 0
             \/ /\ todo'[d] = HandOn(Set(a, G, v)) \o Tail(todo[d])
                /\ answer'[d] = answer[d] /\ m_params'[a][G] = v
                /\ \A g \in Fields : g # G => m_params'[a][g] = m_params[a][g]
          /\ \A b \in Axes \ {a} : m_params'[b] = m_params[b]
          /\ regs' = regs
      BY <3>1, <3>2, Sets
    <3>. QED BY <2>1, <3>1, <3>3, <3>4
  <2>3. call'[d] = Quiet \/ C2'
    BY <2>2, FourAlone
  <2>. QED BY <1>3, <1>4, <1>5, <1>7, <2>1, <2>3
<1>9. CASE C2
  <2>1. Head(todo[d]) = setPeriod /\ Tail(todo[d]) = <<setForward, send>>
    BY <1>9, LongTails
  <2>2. \/ call'[d] = Quiet
        \/ /\ todo'[d] = <<>> \o <<setForward, send>>
           /\ m_params'[a].goto_period = p /\ m_params'[a][G] = m[G]
    <3>1. "goto_period" \in Fields /\ G \in Fields /\ G # "goto_period"
      BY <1>1 DEF Fields
    <3>2. Head(todo[d]) = Set(a, "goto_period", p)
      BY <2>1 DEF setPeriod
    <3>3. HandOn(Set(a, "goto_period", p)) = <<>>
      BY <1>2 DEF setPeriod
    <3>4. /\ \/ /\ ~Allowed(Set(a, "goto_period", p)) /\ m_params' = m_params
                /\ todo'[d] = <<>> /\ call'[d] = Quiet /\ answer'[d] = 0
             \/ /\ todo'[d] = HandOn(Set(a, "goto_period", p)) \o Tail(todo[d])
                /\ answer'[d] = answer[d] /\ m_params'[a]["goto_period"] = p
                /\ \A g \in Fields : g # "goto_period" => m_params'[a][g] = m_params[a][g]
          /\ \A b \in Axes \ {a} : m_params'[b] = m_params[b]
          /\ regs' = regs
      BY <3>1, <3>2, Sets
    <3>. QED BY <2>1, <3>1, <3>3, <3>4
  <2>3. call'[d] = Quiet \/ C3'
    BY <1>9, <2>2, OneBefore
  <2>. QED BY <1>3, <1>4, <1>5, <1>7, <2>1, <2>3
<1>10. CASE C3
  <2>1. Head(todo[d]) = setForward /\ Tail(todo[d]) = <<send>>
    BY <1>10, Tails
  <2>2. \/ call'[d] = Quiet
        \/ /\ todo'[d] = <<>> \o <<send>> /\ m_params'[a].goto_forward = f
           /\ m_params'[a].goto_period = m.goto_period /\ m_params'[a][G] = m[G]
    <3>1. /\ "goto_forward" \in Fields /\ "goto_period" \in Fields
          /\ G \in Fields /\ G # "goto_forward"
      BY <1>1 DEF Fields
    <3>2. Head(todo[d]) = Set(a, "goto_forward", f)
      BY <2>1 DEF setForward
    <3>3. HandOn(Set(a, "goto_forward", f)) = <<>>
      BY <1>2 DEF setForward
    <3>4. /\ \/ /\ ~Allowed(Set(a, "goto_forward", f)) /\ m_params' = m_params
                /\ todo'[d] = <<>> /\ call'[d] = Quiet /\ answer'[d] = 0
             \/ /\ todo'[d] = HandOn(Set(a, "goto_forward", f)) \o Tail(todo[d])
                /\ answer'[d] = answer[d] /\ m_params'[a]["goto_forward"] = f
                /\ \A g \in Fields : g # "goto_forward" => m_params'[a][g] = m_params[a][g]
          /\ \A b \in Axes \ {a} : m_params'[b] = m_params[b]
          /\ regs' = regs
      BY <3>1, <3>2, Sets
    <3>. QED BY <2>1, <3>1, <3>3, <3>4
  <2>3. call'[d] = Quiet \/ C4'
    BY <1>10, <2>2, OneBefore
  <2>. QED BY <1>3, <1>4, <1>5, <1>7, <2>1, <2>3
<1>11. CASE C4
  <2>1. Head(todo[d]) = send /\ Tail(todo[d]) = <<>>
    BY <1>11, Tails
  <2>2. SendCommand(d) /\ Step(d).axis = a /\ Step(d).goto = goto
    BY <1>3, <2>1, ServesOnly DEF Step, send, Send
  <2>3. /\ SendWant(a, goto).cmdtick = p /\ SendWant(a, goto).cmdduration = v
        /\ SendWant(a, goto).goto = goto /\ SendWant(a, goto).forward = f
    BY <1>11 DEF SendWant, WantCommand, G
  <2>4. CASE Refuses(d)
    <3>1. call'[d] = Quiet
      BY <2>4, GoesTo DEF Refuses
    <3>. QED BY <1>3, <1>4, <1>5, <2>1, <3>1
  <2>5. CASE Goes(d, set_command(a, p, v, goto, f) \o Tail(todo[d]), answer[d])
    <3>1. set_command(a, p, v, goto, f) = <<tick, duration, go, back>>
      BY DEF set_command, tick, duration, go, back, Go
    <3>2. todo'[d] = <<tick, duration, go, back>> \o <<>>
      BY <2>1, <2>5, <3>1, GoesTo
    <3>3. C5'
      BY <3>2, FourAlone
    <3>. QED BY <1>3, <1>4, <1>5, <1>7, <2>1, <3>3
  <2>. QED BY <2>2, <2>3, <2>4, <2>5 DEF SendCommand
<1>12. CASE C5
  <2>1. Head(todo[d]) = tick /\ Tail(todo[d]) = <<duration, go, back>>
    BY <1>12, LongTails
  <2>2. RegisterWritten(d) /\ Step(d) = WriteReg(a, "cmdtick", p)
    BY <1>3, <2>1, ServesOnly DEF Step, tick
  <2>3. regs' = [regs EXCEPT ![a]["cmdtick"] = p]
    BY <2>2 DEF RegisterWritten, WriteReg
  <2>4. regs'[a].cmdtick = p
    BY <2>3 DEF RecordsOK, RegsOK
  <2>5. todo'[d] = <<duration, go, back>>
    BY <2>1, <2>2, GoesTo DEF RegisterWritten, Written, GoesOn
  <2>6. C6'
    BY <2>4, <2>5
  <2>. QED BY <1>3, <1>4, <1>5, <1>7, <2>1, <2>6
<1>13. CASE C6
  <2>1. Head(todo[d]) = duration /\ Tail(todo[d]) = <<go, back>>
    BY <1>13, LongTails
  <2>2. RegisterWritten(d) /\ Step(d) = WriteReg(a, "cmdduration", v)
    BY <1>3, <2>1, ServesOnly DEF Step, duration
  <2>3. regs' = [regs EXCEPT ![a]["cmdduration"] = v]
    BY <2>2 DEF RegisterWritten, WriteReg
  <2>4. regs'[a].cmdduration = v /\ regs'[a].cmdtick = p
    BY <1>13, <2>3 DEF RecordsOK, RegsOK
  <2>5. todo'[d] = <<go, back>>
    BY <2>1, <2>2, GoesTo DEF RegisterWritten, Written, GoesOn
  <2>6. C7'
    BY <2>4, <2>5
  <2>. QED BY <1>3, <1>4, <1>5, <1>7, <2>1, <2>6
<1>14. CASE C7
  <2>1. Head(todo[d]) = go /\ Tail(todo[d]) = <<back>>
    BY <1>14, Tails
  <2>2. CommandWritten(d) /\ Step(d) = WriteCommand(a, Go(goto, f))
    BY <1>3, <2>1, ServesOnly DEF Step, go
  <2>. DEFINE c == Go(goto, f)
  <2>. HIDE DEF c
  <2>3. regs' = [regs EXCEPT ![a]["cmdcontrol"] = c]
    <3>1. Step(d) = WriteCommand(a, c)
      BY <2>2 DEF c
    <3>2. Step(d).axis = a /\ Step(d).c = c
      BY <3>1 DEF WriteCommand
    <3>. QED BY <2>2, <3>2 DEF CommandWritten
  <2>4. regs'[a].cmdduration = v /\ regs'[a].cmdtick = p
    BY <1>14, <2>3 DEF RecordsOK, RegsOK
  <2>5. todo'[d] = <<back>>
    BY <2>1, <2>2, GoesTo DEF CommandWritten, Written, GoesOn
  <2>6. C8'
    BY <2>5
  <2>7. Step(d).axis = a /\ Step(d).c.goto = goto /\ Step(d).c.forward = f
    BY <2>2 DEF WriteCommand, Go
  <2>. QED BY <1>3, <1>4, <1>7, <2>1, <2>4, <2>6, <2>7
<1>15. CASE C8
  <2>1. Head(todo[d]) = back /\ Tail(todo[d]) = <<>>
    BY <1>15, Tails
  <2>2. CommandWritten(d) /\ Step(d) = WriteCommand(a, NoCommand)
    BY <1>3, <2>1, ServesOnly DEF Step, back
  <2>3. call'[d] = Quiet
    BY <2>1, <2>2, GoesTo DEF CommandWritten, Written, GoesOn
  <2>4. Step(d).c.go = 0
    BY <2>2 DEF WriteCommand, NoCommand
  <2>. QED BY <1>3, <1>4, <2>1, <2>3, <2>4
<1>. QED BY <1>6, <1>8, <1>9, <1>10, <1>11, <1>12, <1>13, <1>14, <1>15

\* A call to track goes on, or is refused.
LEMMA TrackGoesOn ==
    ASSUME ShapeOK, RecordsOK, NEW d \in Drivers, Serve(d),
           NEW a \in Axes, NEW p, NEW f, ToTrack(todo[d], a, p, f)
    PROVE  /\ call'[d] = Quiet \/ ToTrack(todo[d], a, p, f)'
           /\ TrackWritten(d) /\ Len(todo[d]) = 1 =>
                Step(d).axis = a /\ Step(d).word = <<1, p, f>>
           /\ ~CommandWritten(d)
<1>. DEFINE setPeriod == Set(a, "slew_period", p)
            setForward == Set(a, "slew_forward", f)
            start == Start(a)
            update == [op |-> "update", axis |-> a]
            track == WriteTrack(a, 1, p, f)
            Handed(x) == x = update \/ \E q, g : x = WriteTrack(a, 1, q, g)
            m == m_params[a]
<1>1. HandOn(setForward) = <<>> /\ HandOn(setPeriod) \in {<<>>, <<update>>}
  BY DEF HandOn, Set
<1>2. /\ setPeriod.op = "set" /\ setForward.op = "set" /\ start.op = "start"
      /\ update.op = "update" /\ track.op = "track"
      /\ \A q, g : WriteTrack(a, 1, q, g).op = "track"
  BY DEF Set, Start, WriteTrack
<1>3. TrackWritten(d) => Head(todo[d]).op = "track"
  BY DEF TrackWritten, NextIs
<1>4. CommandWritten(d) => Head(todo[d]).op = "command"
  BY DEF CommandWritten, NextIs
<1>. DEFINE T1 == todo[d] = <<setPeriod, setForward, start>>
            T2 == \E x : todo[d] = <<x, setForward, start>> /\ m.slew_period = p /\ Handed(x)
            T3 == todo[d] = <<setForward, start>> /\ m.slew_period = p
            T4 == todo[d] = <<start>> /\ m.slew_period = p /\ m.slew_forward = f
            T5 == todo[d] = <<track>>
<1>5. T1 \/ T2 \/ T3 \/ T4 \/ T5
  BY DEF ToTrack
<1>6. T1' \/ T2' \/ T3' \/ T4' \/ T5' => ToTrack(todo[d], a, p, f)'
  BY DEF ToTrack
<1>. HIDE DEF setPeriod, setForward, start, update, track
<1>7. CASE T1
  <2>1. Head(todo[d]) = setPeriod /\ Tail(todo[d]) = <<setForward, start>>
    BY <1>7, LongTails
  <2>2. \/ call'[d] = Quiet
        \/ /\ todo'[d] = HandOn(setPeriod) \o <<setForward, start>>
           /\ m_params'[a].slew_period = p
    <3>1. "slew_period" \in Fields
      BY DEF Fields
    <3>2. Head(todo[d]) = Set(a, "slew_period", p)
      BY <2>1 DEF setPeriod
    <3>4. /\ \/ /\ ~Allowed(Set(a, "slew_period", p)) /\ m_params' = m_params
                /\ todo'[d] = <<>> /\ call'[d] = Quiet /\ answer'[d] = 0
             \/ /\ todo'[d] = HandOn(Set(a, "slew_period", p)) \o Tail(todo[d])
                /\ answer'[d] = answer[d] /\ m_params'[a]["slew_period"] = p
                /\ \A g \in Fields : g # "slew_period" => m_params'[a][g] = m_params[a][g]
          /\ \A b \in Axes \ {a} : m_params'[b] = m_params[b]
          /\ regs' = regs
      BY <3>1, <3>2, Sets
    <3>. QED BY <2>1, <3>1, <3>4 DEF setPeriod
  <2>3. call'[d] = Quiet \/ T2' \/ T3'
    <3>1. CASE HandOn(setPeriod) = <<>>
      BY <2>2, <3>1, OneBefore
    <3>2. CASE HandOn(setPeriod) = <<update>>
      <4>1. \/ call'[d] = Quiet
            \/ /\ todo'[d] = <<update, setForward, start>>
               /\ m_params'[a].slew_period = p
        BY <2>2, <3>2, OneBefore
      <4>. QED BY <4>1
    <3>. QED BY <1>1, <3>1, <3>2
  <2>. QED BY <1>2, <1>3, <1>4, <1>6, <2>1, <2>3
<1>8. CASE T2
  <2>. PICK x : todo[d] = <<x, setForward, start>> /\ m.slew_period = p /\ Handed(x)
    BY <1>8
  <2>1. Head(todo[d]) = x /\ Tail(todo[d]) = <<setForward, start>> /\ Len(todo[d]) = 3
    BY LongTails
  <2>2. CASE x = update
    <3>1. StartTracking(d) /\ ~NextIs(d, "start") /\ Step(d).axis = a
      BY <1>2, <2>1, <2>2, ServesOnly DEF Step, NextIs, update
    <3>2. /\ m_params' = m_params
          /\ GoesOn(d) \/ Goes(d, enable_tracking(a) \o Tail(todo[d]), answer[d])
      BY <3>1 DEF StartTracking
    <3>3. CASE GoesOn(d)
      <4>1. T3'
        BY <2>1, <3>2, <3>3, GoesTo DEF GoesOn
      <4>. QED BY <1>2, <1>3, <1>4, <1>6, <2>1, <2>2, <4>1
    <3>4. CASE Goes(d, enable_tracking(a) \o Tail(todo[d]), answer[d])
      <4>. DEFINE w == WriteTrack(a, 1, m.slew_period, m.slew_forward)
      <4>1. enable_tracking(a) = <<w>> /\ Handed(w)
        BY DEF enable_tracking
      <4>. HIDE DEF w
      <4>2. todo'[d] = <<w>> \o <<setForward, start>>
        BY <2>1, <3>4, <4>1, GoesTo
      <4>3. todo'[d] = <<w, setForward, start>>
        BY <4>2, OneBefore
      <4>4. T2'
        BY <3>2, <4>1, <4>3
      <4>. QED BY <1>2, <1>3, <1>4, <1>6, <2>1, <2>2, <4>4
    <3>. QED BY <3>2, <3>3, <3>4
  <2>3. CASE \E q, g : x = WriteTrack(a, 1, q, g)
    <3>1. TrackWritten(d)
      BY <1>2, <2>1, <2>3, ServesOnly
    <3>2. T3'
      BY <2>1, <3>1, GoesTo DEF TrackWritten, Written, GoesOn
    <3>. QED BY <1>2, <1>4, <1>6, <2>1, <2>3, <3>2
  <2>. QED BY <2>2, <2>3
<1>9. CASE T3
  <2>1. Head(todo[d]) = setForward /\ Tail(todo[d]) = <<start>>
    BY <1>9, Tails
  <2>2. \/ call'[d] = Quiet
        \/ /\ todo'[d] = <<>> \o <<start>>
           /\ m_params'[a].slew_forward = f /\ m_params'[a].slew_period = m.slew_period
    <3>1. "slew_forward" \in Fields /\ "slew_period" \in Fields
      BY DEF Fields
    <3>2. Head(todo[d]) = Set(a, "slew_forward", f) /\ HandOn(Set(a, "slew_forward", f)) = <<>>
      BY <1>1, <2>1 DEF setForward
    <3>4. /\ \/ /\ ~Allowed(Set(a, "slew_forward", f)) /\ m_params' = m_params
                /\ todo'[d] = <<>> /\ call'[d] = Quiet /\ answer'[d] = 0
             \/ /\ todo'[d] = HandOn(Set(a, "slew_forward", f)) \o Tail(todo[d])
                /\ answer'[d] = answer[d] /\ m_params'[a]["slew_forward"] = f
                /\ \A g \in Fields : g # "slew_forward" => m_params'[a][g] = m_params[a][g]
          /\ \A b \in Axes \ {a} : m_params'[b] = m_params[b]
          /\ regs' = regs
      BY <3>1, <3>2, Sets
    <3>. QED BY <2>1, <3>1, <3>2, <3>4
  <2>3. call'[d] = Quiet \/ T4'
    BY <1>9, <2>2, OneBefore
  <2>. QED BY <1>2, <1>3, <1>4, <1>6, <2>1, <2>3
<1>10. CASE T4
  <2>1. Head(todo[d]) = start /\ Tail(todo[d]) = <<>>
    BY <1>10, Tails
  <2>2. StartTracking(d) /\ NextIs(d, "start") /\ Step(d).axis = a
    BY <1>2, <1>10, <2>1, NotEmpty, ServesOnly DEF Step, NextIs, Idle, start, Start
  <2>3. Refuses(d) \/ Goes(d, enable_tracking(a) \o Tail(todo[d]), answer[d])
    BY <2>2 DEF StartTracking
  <2>4. CASE Refuses(d)
    <3>1. call'[d] = Quiet
      BY <2>4, GoesTo DEF Refuses
    <3>. QED BY <1>2, <1>3, <1>4, <2>1, <3>1
  <2>5. CASE Goes(d, enable_tracking(a) \o Tail(todo[d]), answer[d])
    <3>1. enable_tracking(a) = <<track>>
      BY <1>10 DEF enable_tracking, track
    <3>2. todo'[d] = <<track>> \o <<>>
      BY <2>1, <2>5, <3>1, GoesTo
    <3>3. T5'
      BY <3>2, OneBefore
    <3>. QED BY <1>2, <1>3, <1>4, <1>6, <2>1, <3>3
  <2>. QED BY <2>3, <2>4, <2>5
<1>11. CASE T5
  <2>1. Head(todo[d]) = track /\ Tail(todo[d]) = <<>>
    BY <1>11, Tails
  <2>2. TrackWritten(d) /\ Step(d) = WriteTrack(a, 1, p, f)
    BY <1>2, <2>1, ServesOnly DEF Step, track
  <2>3. call'[d] = Quiet
    BY <2>1, <2>2, GoesTo DEF TrackWritten, Written, GoesOn
  <2>4. Step(d).axis = a /\ Step(d).word = <<1, p, f>>
    BY <2>2 DEF WriteTrack
  <2>. QED BY <1>2, <1>4, <2>1, <2>3, <2>4
<1>. QED BY <1>5, <1>7, <1>8, <1>9, <1>10, <1>11

-----------------------------------------------------------------------------
(* Motions are the ones that were wanted. *)

\* The step does not start another motion than the one wanted of d's call.
MovesAsTold(d) ==
    LET w == call[d].want
    IN  call[d].alone /\ w.kind # "none" =>
        /\ CommandWritten(d) /\ Step(d).c.go = 1 =>
             /\ w.kind = "command" /\ w.axis = Step(d).axis
             /\ regs'[w.axis].cmdtick = w.cmdtick
             /\ regs'[w.axis].cmdduration = w.cmdduration
             /\ Step(d).c.goto = w.goto /\ Step(d).c.forward = w.forward
        /\ TrackWritten(d) /\ Len(todo[d]) = 1 =>
             w.kind = "track" /\ w.axis = Step(d).axis /\ Step(d).word = w.word

\* It does not, where the invariant holds.
LEMMA WantedMoves ==
    ASSUME ShapeOK, WantsInv, NEW d \in Drivers
    PROVE  MovesAsTold(d)
<1>. SUFFICES ASSUME call[d].alone, call[d].want.kind # "none",
                     CommandWritten(d) \/ TrackWritten(d)
              PROVE  MovesAsTold(d)
  BY DEF MovesAsTold
<1>1. Serve(d) /\ RecordsOK /\ Fits(todo[d], call[d].want)
  BY DEF Serve, WantsInv, AsWanted
<1>2. ASSUME NEW a \in Axes, NEW goto \in Bit, NEW p, NEW v, NEW f,
             call[d].want = WantCommand(a, p, v, goto, f), ToCommand(todo[d], a, p, v, goto, f)
      PROVE  MovesAsTold(d)
  <2>1. /\ CommandWritten(d) /\ Step(d).c.go = 1 =>
             /\ Step(d).axis = a /\ Step(d).c.goto = goto /\ Step(d).c.forward = f
             /\ regs'[a].cmdtick = p /\ regs'[a].cmdduration = v
        /\ ~TrackWritten(d)
    BY <1>1, <1>2, CommandGoesOn
  <2>2. /\ call[d].want.kind = "command" /\ call[d].want.axis = a
        /\ call[d].want.cmdtick = p /\ call[d].want.cmdduration = v
        /\ call[d].want.goto = goto /\ call[d].want.forward = f
    BY <1>2 DEF WantCommand
  <2>. QED BY <2>1, <2>2 DEF MovesAsTold
<1>3. ASSUME NEW a \in Axes, NEW p, NEW f,
             call[d].want = WantTrack(a, p, f), ToTrack(todo[d], a, p, f)
      PROVE  MovesAsTold(d)
  <2>1. /\ TrackWritten(d) /\ Len(todo[d]) = 1 =>
             Step(d).axis = a /\ Step(d).word = <<1, p, f>>
        /\ ~CommandWritten(d)
    BY <1>1, <1>3, TrackGoesOn
  <2>2. /\ call[d].want.kind = "track" /\ call[d].want.axis = a
        /\ call[d].want.word = <<1, p, f>>
    BY <1>3 DEF WantTrack
  <2>. QED BY <2>1, <2>2 DEF MovesAsTold
<1>. QED BY <1>1, <1>2, <1>3 DEF Fits

\* A call that enters is to start what it wants, and nothing else.
LEMMA EntersWanted ==
    ASSUME ShapeOK, WantsInv, NEW d \in Drivers, NEW op, NEW script, NEW want,
           want.kind # "none" => Fits(script, want), Enter(d, op, script, want)
    PROVE  WantsInv'
<1>1. /\ todo' = [todo EXCEPT ![d] = script] /\ answer' = [answer EXCEPT ![d] = 1]
      /\ m_params' = m_params /\ regs' = regs
      /\ call' = [e \in Drivers |->
                    IF e = d THEN [want |-> want, alone |-> \A o \in Drivers : Idle(o)]
                    ELSE [call[e] EXCEPT !.alone = FALSE]]
  BY DEF Enter, hardware
<1>2. /\ \A e \in Drivers : "alone" \in DOMAIN call'[e]
      /\ \A e \in Drivers \ {d} : call'[e].alone = FALSE
      /\ call'[d].want = want /\ (call'[d].alone => \A o \in Drivers : Idle(o))
  BY <1>1 DEF WantsInv, RecordsOK
<1>3. RecordsOK'
  BY <1>1, <1>2 DEF WantsInv, RecordsOK, RegsOK
<1>4. todo'[d] = script /\ \A e \in Drivers \ {d} : todo'[e] = todo[e]
  BY <1>1 DEF ShapeOK
<1>5. AloneInv'
  BY <1>2, <1>4 DEF AloneInv, Idle
<1>6. Fits(script, want) => Fits(script, want)'
  BY <1>1 DEF Fits, ToCommand, ToTrack
<1>7. \A e \in Drivers : AsWanted(e)'
  BY <1>2, <1>4, <1>6 DEF AsWanted
<1>. QED BY <1>3, <1>5, <1>7 DEF WantsInv

\* A driver that goes on with its call still is.
LEMMA ServesWanted ==
    ASSUME ShapeOK, WantsInv, NEW d \in Drivers, Serve(d)
    PROVE  WantsInv'
<1>1. RecordsOK /\ AloneInv /\ todo[d] # <<>>
  BY Served DEF WantsInv
<1>2. /\ RecordsOK' /\ \A e \in Drivers \ {d} : call'[e] = call[e] /\ todo'[e] = todo[e]
      /\ call'[d] = Quiet \/ call'[d] = call[d]
  BY <1>1, Served, ServesRecords
<1>3. \A e \in Drivers \ {d} : ~call[e].alone
  BY <1>1 DEF AloneInv, Idle
<1>4. ~Quiet.alone
  BY DEF Quiet
<1>5. AloneInv'
  BY <1>1, <1>2, <1>3, <1>4 DEF AloneInv, Idle
<1>6. AsWanted(d)'
  <2>. SUFFICES ASSUME call'[d] # Quiet, call[d].alone, call[d].want.kind # "none"
                PROVE  AsWanted(d)'
    BY <1>2, <1>4 DEF AsWanted
  <2>1. call'[d] = call[d] /\ Fits(todo[d], call[d].want)
    BY <1>2 DEF WantsInv, AsWanted
  <2>2. ASSUME NEW a \in Axes, NEW goto \in Bit, NEW p, NEW v, NEW f,
               call[d].want = WantCommand(a, p, v, goto, f), ToCommand(todo[d], a, p, v, goto, f)
        PROVE  AsWanted(d)'
    <3>1. ToCommand(todo[d], a, p, v, goto, f)'
      BY <1>1, <2>2, CommandGoesOn
    <3>2. call'[d].want = WantCommand(a, p, v, goto, f)
      BY <2>1, <2>2
    <3>. QED BY <3>1, <3>2 DEF AsWanted, Fits
  <2>3. ASSUME NEW a \in Axes, NEW p, NEW f,
               call[d].want = WantTrack(a, p, f), ToTrack(todo[d], a, p, f)
        PROVE  AsWanted(d)'
    <3>1. ToTrack(todo[d], a, p, f)'
      BY <1>1, <2>3, TrackGoesOn
    <3>2. call'[d].want = WantTrack(a, p, f)
      BY <2>1, <2>3
    <3>. QED BY <3>1, <3>2 DEF AsWanted, Fits
  <2>. QED BY <2>1, <2>2, <2>3 DEF Fits
<1>7. \A e \in Drivers \ {d} : AsWanted(e)'
  BY <1>2, <1>3 DEF AsWanted
<1>. QED BY <1>2, <1>5, <1>6, <1>7 DEF WantsInv

\* The motions that clients of the drivers want are the ones their calls start.
LEMMA CallsWanted ==
    ASSUME ShapeOK, WantsInv, NEW d \in Drivers, NEW a \in Axes, Calls(d, a)
    PROVE  WantsInv'
<1>1. NoWant.kind = "none"
  BY DEF NoWant
<1>2. ASSUME NEW op, NEW script, Enter(d, op, script, NoWant) PROVE WantsInv'
  BY <1>1, <1>2, EntersWanted
<1>3. CASE SetLimits(d, a) \/ SetType(d, a) \/ StopMotion(d, a) \/ Position(d, a)
  BY <1>2, <1>3 DEF SetLimits, SetType, StopMotion, Position
<1>4. CASE SetPeriod(d, a) \/ SetDirection(d, a) \/ SetGoal(d, a)
  BY <1>2, <1>4 DEF SetPeriod, SetDirection, SetGoal
<1>5. CASE d = "ASCOM" /\ (GetStatus(a) \/ SwpInitialize(a))
  BY <1>2, <1>5 DEF GetStatus, SwpInitialize
<1>6. CASE d = "Focuser" /\ Enter("Focuser", "Initialize", FocuserInitialize, NoWant)
  BY <1>2, <1>6
<1>7. CASE StartMotion(d, a)
  <2>1. ASSUME NEW g \in Bit, Enter(d, "send_command", <<Send(a, g)>>, SendWant(a, g))
        PROVE  WantsInv'
    <3>. DEFINE m == m_params[a]
    <3>1. ToCommand(<<Send(a, g)>>, a, m.goto_period, m[Goal(g)], g, m.goto_forward)
      BY DEF ToCommand
    <3>2. Fits(<<Send(a, g)>>, SendWant(a, g))
      BY <3>1 DEF Fits, SendWant
    <3>. QED BY <2>1, <3>2, EntersWanted
  <2>2. CASE Enter(d, "start_tracking", <<Start(a)>>, StartWant(a))
    <3>. DEFINE m == m_params[a]
    <3>1. ToTrack(<<Start(a)>>, a, m.slew_period, m.slew_forward)
      BY DEF ToTrack
    <3>2. Fits(<<Start(a)>>, StartWant(a))
      BY <3>1 DEF Fits, StartWant
    <3>. QED BY <2>2, <3>2, EntersWanted
  <2>. QED BY <1>7, <2>1, <2>2 DEF StartMotion
<1>8. ASSUME NEW p \in Periods, NEW f \in Bit, d = "Focuser", FocuserSlewTo(p, f)
      PROVE  WantsInv'
  <2>. DEFINE script == << Set(focuser_id, "slew_period", p),
                           Set(focuser_id, "slew_forward", f), Start(focuser_id) >>
  <2>1. focuser_id \in Axes
    BY DEF focuser_id, Axes
  <2>2. ToTrack(script, focuser_id, p, f)
    BY DEF ToTrack
  <2>3. Enter(d, "FocuserSlewTo", script, WantTrack(focuser_id, p, f))
    BY <1>8 DEF FocuserSlewTo
  <2>. HIDE DEF script
  <2>4. Fits(script, WantTrack(focuser_id, p, f))
    BY <2>1, <2>2 DEF Fits
  <2>. QED BY <2>3, <2>4, EntersWanted
<1>9. ASSUME NEW p \in Periods, NEW f \in Bit, NEW v \in Counts, NEW g \in Bit,
             d = "Focuser", FocuserMove(v, p, f, g)
      PROVE  WantsInv'
  <2>. DEFINE script == << Set(focuser_id, Goal(g), v), Set(focuser_id, "goto_period", p),
                           Set(focuser_id, "goto_forward", f), Send(focuser_id, g) >>
  <2>1. focuser_id \in Axes
    BY DEF focuser_id, Axes
  <2>2. ToCommand(script, focuser_id, p, v, g, f)
    BY DEF ToCommand
  <2>3. Enter(d, "FocuserMove", script, WantCommand(focuser_id, p, v, g, f))
    BY <1>9 DEF FocuserMove
  <2>. HIDE DEF script
  <2>4. Fits(script, WantCommand(focuser_id, p, v, g, f))
    BY <2>1, <2>2 DEF Fits
  <2>. QED BY <2>3, <2>4, EntersWanted
<1>. QED BY <1>3, <1>4, <1>5, <1>6, <1>7, <1>8, <1>9 DEF Calls

\* A server that has just started runs no call.
LEMMA StartedWanted == JustStarted /\ RegsOK => WantsInv
<1>. SUFFICES ASSUME JustStarted, RegsOK PROVE WantsInv
  OBVIOUS
<1>1. /\ m_params = [a \in Axes |-> Constructed] /\ answer = [d \in Drivers |-> 1]
      /\ call = [d \in Drivers |-> Quiet]
  BY DEF JustStarted
<1>2. RecordsOK
  BY <1>1 DEF RecordsOK, Constructed, Fields, Quiet
<1>. QED BY <1>1, <1>2 DEF WantsInv, AloneInv, AsWanted, Quiet

\* The same of a restart, whose state is the next one.
LEMMA RestartWanted == JustStarted' /\ RegsOK' => WantsInv'
BY StartedWanted, PTL

\* A step of the drivers, or none.
LEMMA DriversWanted ==
    ASSUME ShapeOK, WantsInv, [NextDrivers]_vars
    PROVE  WantsInv'
<1>1. CASE Restart
  <2>1. JustStarted'
    BY <1>1 DEF Restart, Boots, JustStarted
  <2>2. RegsOK'
    BY <1>1 DEF Restart, hardware, WantsInv, RecordsOK, RegsOK
  <2>. QED BY <2>1, <2>2, RestartWanted
<1>2. ASSUME NEW d \in Drivers, Serve(d) PROVE WantsInv'
  BY <1>2, ServesWanted
<1>3. ASSUME NEW d \in Drivers, NEW a \in Axes, Calls(d, a) PROVE WantsInv'
  BY <1>3, CallsWanted
<1>4. CASE UNCHANGED vars \/ \E a \in Axes : AxisMoves(a) \/ AxisRests(a)
  <2>1. m_params' = m_params /\ todo' = todo /\ answer' = answer /\ call' = call
    BY <1>4 DEF vars, AxisMoves, AxisRests
  <2>2. regs' = regs \/ \E a, n : regs' = [regs EXCEPT ![a]["count"] = n]
    BY <1>4 DEF vars, hardware, AxisMoves, AxisRests
  <2>3. RegsOK' /\ \A a \in Axes : \A f \in {"cmdtick", "cmdduration"} : regs'[a][f] = regs[a][f]
    BY <2>2 DEF WantsInv, RecordsOK, RegsOK
  <2>4. RecordsOK' /\ AloneInv'
    BY <2>1, <2>3 DEF WantsInv, RecordsOK, AloneInv, Idle
  <2>5. \A a \in Axes : /\ m_params'[a] = m_params[a]
                        /\ regs'[a].cmdtick = regs[a].cmdtick
                        /\ regs'[a].cmdduration = regs[a].cmdduration
    BY <2>1, <2>3
  <2>6. ASSUME NEW d \in Drivers, NEW want, Fits(todo[d], want) PROVE Fits(todo[d], want)'
    <3>1. CASE \E a \in Axes, goto \in Bit : \E p, v, f :
                 want = WantCommand(a, p, v, goto, f) /\ ToCommand(todo[d], a, p, v, goto, f)
      <4>. PICK a \in Axes, goto \in Bit : \E p, v, f :
                 want = WantCommand(a, p, v, goto, f) /\ ToCommand(todo[d], a, p, v, goto, f)
        BY <3>1
      <4>. PICK p, v, f : want = WantCommand(a, p, v, goto, f)
                          /\ ToCommand(todo[d], a, p, v, goto, f)
        OBVIOUS
      <4>1. ToCommand(todo[d], a, p, v, goto, f)'
        BY <2>1, <2>5 DEF ToCommand
      <4>. QED BY <4>1 DEF Fits
    <3>2. CASE \E a \in Axes : \E p, f : want = WantTrack(a, p, f) /\ ToTrack(todo[d], a, p, f)
      BY <2>1, <3>2 DEF Fits, ToTrack
    <3>. QED BY <2>6, <3>1, <3>2 DEF Fits
  <2>7. \A d \in Drivers : AsWanted(d)'
    BY <2>1, <2>6 DEF WantsInv, AsWanted
  <2>. QED BY <2>4, <2>7 DEF WantsInv
<1>. QED BY <1>1, <1>2, <1>3, <1>4 DEF NextDrivers

-----------------------------------------------------------------------------
(* A handset that has no other clients beside it: what it has told the      *)
(* gateway is what is kept of the axis, in SkyTracker and in the gateway's   *)
(* own variables, and the count is where it was placed; but for the axis of  *)
(* the command under way.                                                    *)

Tales == [slew : Bit, period : [1..2 -> Nat], forward : [1..2 -> Bit], goal : Nat, goto : Bit]

\* Parameters m, and slew and increment of the gateway, are as t has them.
Agreed(m, t, slew, increment) ==
    /\ m.slew_period = t.period[2] /\ m.goto_period = t.period[1]
    /\ m.slew_forward = t.forward[2] /\ m.goto_forward = t.forward[1]
    /\ m[Goal(t.goto)] = t.goal /\ increment = t.goto /\ slew = t.slew

Kept(a, t) == Agreed(m_params[a], t, isSlew[a], isIncrement[a])

\* The count n is that of position p of the handset, once the gateway has started.
Offset0 == Center - (Steps \div 2)
CountAt(p) == (p - Offset0) % Word32
LiesAt(n, p) ==
    /\ p \in 0..CountEnd /\ CountAt(p) <= CountEnd
    /\ n = IF CountAt(p) = CountEnd THEN 0 ELSE CountAt(p)

CountKept(a) == placed[a] # -1 /\ a \in held => LiesAt(regs[a].count, placed[a])
AllKept == \A a \in MountAxes : Kept(a, told[a]) /\ CountKept(a)

\* What the gateway is to answer to c, and isIncrement after it.
Done(c, r) == c.letter \in {"j", "f", "a", "P"} \/ r = 1
IncrementAfter(c) ==
    IF c.letter = "S" THEN 1 ELSE IF c.letter = "H" THEN 0 ELSE isIncrement[c.axis]

\* What c has changed, if its call is over with result r.
CountAfter(c, ok) ==
    CASE c.letter = "F" -> ok
      [] c.letter = "E" /\ ok -> c.axis \in held => LiesAt(regs[c.axis].count, c.data)
      [] OTHER -> CountKept(c.axis)

Changed(c, r) ==
    LET a == c.axis
    IN  /\ IF Done(c, r) THEN Agreed(m_params[a], Tells(told[a], c), isSlew[a], IncrementAfter(c))
           ELSE Kept(a, told[a])
        /\ CountAfter(c, Done(c, r))
        /\ c.letter = "j" /\ a \in held => r = regs[a].count

\* The gateway waits for a call of command c: one that changes nothing kept
\* (Harmless), the one step of c that does, and what comes before and after.
Before(c) == Kept(c.axis, told[c.axis]) /\ CountKept(c.axis) /\ answer["ASCOM"] = 1
Is(letter, c, s) == pc = "call" /\ c.letter = letter /\ todo["ASCOM"] = s

Harmless(c) ==
    /\ pc = "call" /\ c.letter \in {"f", "a", "K", "L", "J"}
    /\ Spares(todo["ASCOM"], Fields \cup {"count"})
    /\ Kept(c.axis, told[c.axis]) /\ CountKept(c.axis)
AsksCount(c) == Is("j", c, <<ReadCount(c.axis)>>) /\ Before(c)
PutsCount(c) == Is("E", c, set_current_position(c.axis, CountAt(c.data))) /\ Before(c)
Initialises(c) ==
    /\ pc = "call" /\ c.letter = "F" /\ Spares(todo["ASCOM"], Fields \cup {"answer"})
    /\ Kept(c.axis, told[c.axis]) /\ answer["ASCOM"] = 1
SetsCycles(c) == Is("H", c, <<Set(c.axis, "ncycles", c.data)>>) /\ Before(c)
SetsTarget(c) == Is("S", c, <<Set(c.axis, "target", Larger(c.data, 2))>>) /\ Before(c)
Turns(c) ==
    LET a == c.axis
    IN  /\ Is("G", c, <<Set(a, Forward(SlewOf(c.data)), ForwardOf(c.data))>>)
        /\ answer["ASCOM"] = 1 /\ isSlew[a] = SlewOf(c.data) /\ CountKept(a)
        /\ Agreed(m_params[a], told[a], told[a].slew, isIncrement[a])
AsksLeast(c) == Is("I", c, <<Get(c.axis, "min")>>) /\ Before(c)
KnowsLeast(c) ==
    /\ Is("I", c, <<>>) /\ answer["ASCOM"] = MinPeriod
    /\ Kept(c.axis, told[c.axis]) /\ CountKept(c.axis)
NamesPeriod(c) ==
    /\ pc = "set" /\ c.letter = "I" /\ Before(c)
    /\ todo["ASCOM"] = <<Set(c.axis, Period(told[c.axis].slew),
                             Larger(TicksOf(c.data), MinPeriod))>>
HandsOn(c) ==
    /\ pc = "set" /\ c.letter = "I" /\ answer["ASCOM"] = 1
    /\ Spares(todo["ASCOM"], Fields \cup {"count", "answer"}) /\ Changed(c, 1)
CallOver(c) ==
    /\ pc = IF c.letter = "I" THEN "set" ELSE "call"
    /\ todo["ASCOM"] = <<>> /\ Changed(c, answer["ASCOM"])

Doing(c) ==
    \/ Harmless(c) \/ AsksCount(c) \/ PutsCount(c) \/ Initialises(c)
    \/ SetsCycles(c) \/ SetsTarget(c) \/ Turns(c)
    \/ AsksLeast(c) \/ KnowsLeast(c) \/ NamesPeriod(c) \/ HandsOn(c)
    \/ CallOver(c)

\* Other axes are as they were, but for the counts if c is to initialise.
OthersKept(c) == \A a \in MountAxes \ {c.axis} :
    Kept(a, told[a]) /\ (c.letter = "F" \/ CountKept(a))

Waits ==
    /\ pc \in Starting \cup {"read"} /\ toHandset = <<>> /\ AllKept
    /\ toGateway = IF asked = Nothing THEN <<>> ELSE <<asked>>

Works ==
    /\ pc \in {"call", "set"} /\ asked \in Known /\ cmd = asked
    /\ asked.letter \notin {"P", "s"}
    /\ toGateway = <<>> /\ toHandset = <<>>
    /\ OthersKept(asked) /\ Doing(asked)

Replied ==
    /\ pc = "read" /\ asked \in Known /\ toGateway = <<>>
    /\ OthersKept(asked)
    /\ \E ok \in BOOLEAN : \E n :
         /\ toHandset = <<[ok |-> ok, data |-> n]>>
         /\ Kept(asked.axis, IF ok THEN Tells(told[asked.axis], asked) ELSE told[asked.axis])
         /\ CountAfter(asked, ok)
         /\ asked.letter = "j" /\ asked.axis \in held => n = Shown(regs[asked.axis].count)

Unanswered ==
    /\ pc = "read" /\ asked \in Known /\ asked.letter = "s"
    /\ toGateway = <<>> /\ toHandset = <<>> /\ AllKept

Conversation == Waits \/ Works \/ Replied \/ Unanswered

\* The gateway has started, or is about to.
StartsUp ==
    /\ pc \in Starting =>
         /\ Spares(todo["ASCOM"], Fields) /\ \A a \in MountAxes : placed[a] = -1
         /\ pc = "start 3" /\ cmd.letter = "busy" =>
              \/ todo["ASCOM"] = <<Get(1, "steps")>>
              \/ todo["ASCOM"] = <<>> /\ answer["ASCOM"] = Steps
    /\ pc \in Starting \cup {"read", "call", "set"}
    /\ pc = "read" => Idle("ASCOM")
    /\ pc \notin {"start 1", "start 2", "start 3"} => rev = Steps

OnlyOne ==
    /\ IF up THEN Idle("SkyTracker") /\ Idle("Focuser")
       ELSE pc = "start 1" /\ cmd.letter = "none"
    /\ Spares(todo["SkyTracker"], Fields)

ValuesKept ==
    /\ told \in [MountAxes -> Tales] /\ DOMAIN placed = MountAxes
    /\ DOMAIN isSlew = MountAxes /\ DOMAIN isIncrement = MountAxes
    /\ \A a \in MountAxes : m_params[a].min = MinPeriod /\ m_params[a].steps = Steps

HandInv ==
    IF "handset" \in use.ops
    THEN ~trouble => OnlyOne /\ ValuesKept /\ StartsUp /\ Conversation
    ELSE asked = Nothing /\ toGateway = <<>>

-----------------------------------------------------------------------------
(* What commands tell. *)

\* The numbers of a command are in range.
LEMMA InRange ==
    \A n \in Nat : /\ SlewOf(n) \in Bit /\ ForwardOf(n) \in Bit /\ TicksOf(n) \in Nat
                   /\ Larger(n, 2) \in Nat /\ Larger(TicksOf(n), MinPeriod) \in Nat
<1>. SUFFICES ASSUME NEW n \in Nat
              PROVE  /\ SlewOf(n) \in Bit /\ ForwardOf(n) \in Bit /\ TicksOf(n) \in Nat
                     /\ Larger(n, 2) \in Nat /\ Larger(TicksOf(n), MinPeriod) \in Nat
  OBVIOUS
<1>1. SlewOf(n) \in Bit /\ ForwardOf(n) \in Bit /\ TicksOf(n) \in Nat
  BY DEF SlewOf, ForwardOf, TicksOf, Bit
<1>2. MinPeriod \in Nat
  BY SkyTrackerAssumption
<1>. QED BY <1>1, <1>2 DEF Larger

\* What a command of the handset carries fits the count.
LEMMA KnownData == \A c \in Known : c.data \in Nat /\ c.data \in 0..CountEnd
<1>. SUFFICES ASSUME NEW c \in Known PROVE c.data \in Nat /\ c.data \in 0..CountEnd
  OBVIOUS
<1>1. c.data \in Data
  BY DEF Known
<1>2. Data \subseteq 0..CountEnd
  BY GatewayAssumption
<1>3. CountEnd \in Nat
  BY SkyTrackerAssumption
<1>4. \A n \in Data : n \in Nat /\ n \in 0..CountEnd
  BY <1>2, <1>3
<1>. QED BY <1>1, <1>4, Zenon

\* What is kept after the setter of the command is what the handset has told
\* with it.
LEMMA Tellings ==
    ASSUME NEW c \in Known, NEW t \in Tales, NEW m, NEW n, NEW slew, NEW inc, NEW f, NEW v,
           n[f] = v, \A g \in Fields : g # f => n[g] = m[g]
    PROVE  /\ c.letter = "H" /\ f = "ncycles" /\ v = c.data /\ Agreed(m, t, slew, inc)
              => Agreed(n, Tells(t, c), slew, 0)
           /\ c.letter = "S" /\ f = "target" /\ v = Larger(c.data, 2) /\ Agreed(m, t, slew, inc)
              => Agreed(n, Tells(t, c), slew, 1)
           /\ /\ c.letter = "G" /\ f = Forward(SlewOf(c.data)) /\ v = ForwardOf(c.data)
              /\ Agreed(m, t, t.slew, inc)
              => Agreed(n, Tells(t, c), SlewOf(c.data), inc)
           /\ /\ c.letter = "I" /\ f = Period(t.slew)
              /\ v = Larger(TicksOf(c.data), MinPeriod) /\ Agreed(m, t, slew, inc)
              => Agreed(n, Tells(t, c), slew, inc)
<1>1. t.slew \in Bit /\ t.goto \in Bit /\ DOMAIN t.period = 1..2 /\ DOMAIN t.forward = 1..2
      /\ t = [slew |-> t.slew, period |-> t.period, forward |-> t.forward,
              goal |-> t.goal, goto |-> t.goto]
  BY DEF Tales
<1>2. CASE c.letter = "H" /\ f = "ncycles" /\ v = c.data /\ Agreed(m, t, slew, inc)
  <2>1. Tells(t, c) = [t EXCEPT !.goal = c.data, !.goto = 0]
    BY <1>2 DEF Tells
  <2>2. /\ Tells(t, c).period = t.period /\ Tells(t, c).forward = t.forward
        /\ Tells(t, c).slew = t.slew /\ Tells(t, c).goal = c.data /\ Tells(t, c).goto = 0
    BY <1>1, <2>1
  <2>. QED BY <1>2, <2>2 DEF Agreed, Fields, Goal
<1>3. CASE c.letter = "S" /\ f = "target" /\ v = Larger(c.data, 2) /\ Agreed(m, t, slew, inc)
  <2>1. Tells(t, c) = [t EXCEPT !.goal = Larger(c.data, 2), !.goto = 1]
    BY <1>3 DEF Tells
  <2>2. /\ Tells(t, c).period = t.period /\ Tells(t, c).forward = t.forward
        /\ Tells(t, c).slew = t.slew /\ Tells(t, c).goal = v /\ Tells(t, c).goto = 1
    BY <1>1, <1>3, <2>1
  <2>. QED BY <1>3, <2>2 DEF Agreed, Fields, Goal
<1>4. CASE /\ c.letter = "G" /\ f = Forward(SlewOf(c.data)) /\ v = ForwardOf(c.data)
           /\ Agreed(m, t, t.slew, inc)
  <2>. DEFINE s == SlewOf(c.data)
  <2>1. s \in Bit
    BY InRange, KnownData
  <2>2. Tells(t, c) = [t EXCEPT !.slew = s, !.forward[1 + s] = v]
    BY <1>4 DEF Tells
  <2>. HIDE DEF s
  <2>3. /\ Tells(t, c).period = t.period /\ Tells(t, c).slew = s
        /\ Tells(t, c).goal = t.goal /\ Tells(t, c).goto = t.goto
        /\ Tells(t, c).forward = [t.forward EXCEPT ![1 + s] = v]
    BY <1>1, <2>2
  <2>4. /\ s = 1 => Tells(t, c).forward[2] = v /\ Tells(t, c).forward[1] = t.forward[1]
        /\ s = 0 => Tells(t, c).forward[1] = v /\ Tells(t, c).forward[2] = t.forward[2]
    BY <1>1, <2>3
  <2>5. f = Forward(s)
    BY <1>4 DEF s
  <2>6. /\ s = 1 => f = "slew_forward"
        /\ s = 0 => f = "goto_forward"
    BY <2>5 DEF Forward
  <2>7. Agreed(n, Tells(t, c), s, inc)
    BY <1>4, <2>1, <2>3, <2>4, <2>6 DEF Agreed, Fields, Goal, Bit
  <2>. QED BY <1>4, <2>7 DEF s
<1>5. CASE /\ c.letter = "I" /\ f = Period(t.slew)
           /\ v = Larger(TicksOf(c.data), MinPeriod) /\ Agreed(m, t, slew, inc)
  <2>1. Tells(t, c) = [t EXCEPT !.period[1 + t.slew] = v]
    BY <1>5 DEF Tells
  <2>2. /\ Tells(t, c).forward = t.forward /\ Tells(t, c).slew = t.slew
        /\ Tells(t, c).goal = t.goal /\ Tells(t, c).goto = t.goto
        /\ Tells(t, c).period = [t.period EXCEPT ![1 + t.slew] = v]
    BY <1>1, <2>1
  <2>3. /\ t.slew = 1 => Tells(t, c).period[2] = v /\ Tells(t, c).period[1] = t.period[1]
        /\ t.slew = 0 => Tells(t, c).period[1] = v /\ Tells(t, c).period[2] = t.period[2]
    BY <1>1, <2>2
  <2>4. /\ t.slew = 1 => f = "slew_period"
        /\ t.slew = 0 => f = "goto_period"
    BY <1>5 DEF Period
  <2>. QED BY <1>1, <1>5, <2>2, <2>3, <2>4 DEF Agreed, Fields, Goal, Bit
<1>. QED BY <1>2, <1>3, <1>4, <1>5

\* The other commands tell nothing; all of them tell numbers in range.
LEMMA TellsMore ==
    ASSUME NEW c \in Known, NEW t \in Tales
    PROVE  /\ Tells(t, c) \in Tales
           /\ c.letter \notin {"G", "I", "H", "S"} => Tells(t, c) = t
<1>1. t = [slew |-> t.slew, period |-> t.period, forward |-> t.forward,
           goal |-> t.goal, goto |-> t.goto]
      /\ t.slew \in Bit /\ t.period \in [1..2 -> Nat] /\ t.forward \in [1..2 -> Bit]
      /\ t.goal \in Nat /\ t.goto \in Bit
  BY DEF Tales
<1>. DEFINE s == SlewOf(c.data) f == ForwardOf(c.data) p == Larger(TicksOf(c.data), MinPeriod)
            g == Larger(c.data, 2)
<1>2. s \in Bit /\ f \in Bit /\ p \in Nat /\ g \in Nat /\ c.data \in Nat
  <2>1. c.data \in Nat
    BY KnownData
  <2>. QED BY <2>1, InRange
<1>3. 0 \in Bit /\ 1 \in Bit /\ \A b \in Bit : 1 + b \in 1..2
  BY DEF Bit
<1>4. Tells(t, c) =
        CASE c.letter = "G" -> [t EXCEPT !.slew = s, !.forward[1 + s] = f]
          [] c.letter = "I" -> [t EXCEPT !.period[1 + t.slew] = p]
          [] c.letter = "H" -> [t EXCEPT !.goal = c.data, !.goto = 0]
          [] c.letter = "S" -> [t EXCEPT !.goal = g, !.goto = 1]
          [] OTHER -> t
  BY DEF Tells
<1>. HIDE DEF s, f, p, g
<1>5. c.letter \notin {"G", "I", "H", "S"} => Tells(t, c) = t
  BY <1>4
<1>6. CASE c.letter = "G"
  <2>1. Tells(t, c) = [t EXCEPT !.slew = s, !.forward[1 + s] = f]
    BY <1>4, <1>6
  <2>2. 1 + s \in 1..2
    BY <1>2, <1>3
  <2>3. [t.forward EXCEPT ![1 + s] = f] \in [1..2 -> Bit]
    BY <1>1, <1>2, <2>2
  <2>4. Tells(t, c) = [slew |-> s, period |-> t.period, goal |-> t.goal, goto |-> t.goto,
                       forward |-> [t.forward EXCEPT ![1 + s] = f]]
    BY <1>1, <2>1
  <2>. QED BY <1>1, <1>2, <1>6, <2>3, <2>4 DEF Tales
<1>7. CASE c.letter = "I"
  <2>1. Tells(t, c) = [t EXCEPT !.period[1 + t.slew] = p]
    BY <1>4, <1>7
  <2>. QED BY <1>1, <1>2, <1>3, <1>7, <2>1 DEF Tales
<1>8. CASE c.letter = "H"
  <2>1. Tells(t, c) = [t EXCEPT !.goal = c.data, !.goto = 0]
    BY <1>4, <1>8
  <2>. QED BY <1>1, <1>2, <1>3, <1>8, <2>1 DEF Tales
<1>9. CASE c.letter = "S"
  <2>1. Tells(t, c) = [t EXCEPT !.goal = g, !.goto = 1]
    BY <1>4, <1>9
  <2>. QED BY <1>1, <1>2, <1>3, <1>9, <2>1 DEF Tales
<1>. QED BY <1>5, <1>6, <1>7, <1>8, <1>9

-----------------------------------------------------------------------------
(* ASCOMInterface goes on with a command's call. *)

\* Agreement is on what is kept of the axis only.
LEMMA AgreedSame ==
    ASSUME NEW m, NEW n, \A f \in Fields : n[f] = m[f], NEW t, NEW slew, NEW inc,
           Agreed(m, t, slew, inc)
    PROVE  Agreed(n, t, slew, inc)
BY DEF Agreed, Fields, Goal

\* An axis that a step leaves alone, but for the count.
SameFields(a) == \A f \in Fields : m_params'[a][f] = m_params[a][f]

\* The gateway's variables, one by one.
LEMMA GatewaySame ==
    ASSUME UNCHANGED gatewayVars
    PROVE  /\ toGateway' = toGateway /\ toHandset' = toHandset /\ pc' = pc /\ cmd' = cmd
           /\ isSlew' = isSlew /\ isIncrement' = isIncrement /\ rev' = rev /\ asked' = asked
           /\ told' = told /\ placed' = placed /\ trouble' = trouble
BY DEF gatewayVars, link, locals

\* A step of neither keeps what the gateway has of the axis.
LEMMA AxisSame ==
    ASSUME UNCHANGED gatewayVars, NEW a \in MountAxes
    PROVE  /\ \A t : SameFields(a) /\ Kept(a, t) => Kept(a, t)'
           /\ SameFields(a) /\ Kept(a, told[a]) => Kept(a, told[a])'
           /\ SameCount(a) /\ CountKept(a) => CountKept(a)'
<1>1. isSlew' = isSlew /\ isIncrement' = isIncrement /\ told' = told /\ placed' = placed
  BY GatewaySame
<1>2. ASSUME NEW t, SameFields(a), Kept(a, t) PROVE Kept(a, t)'
  <2>1. Agreed(m_params'[a], t, isSlew[a], isIncrement[a])
    BY <1>2, AgreedSame DEF SameFields, Kept
  <2>. QED BY <1>1, <2>1 DEF Kept
<1>3. ASSUME SameFields(a), Kept(a, told[a]) PROVE Kept(a, told[a])'
  <2>1. Agreed(m_params'[a], told[a], isSlew[a], isIncrement[a])
    BY <1>3, AgreedSame DEF SameFields, Kept
  <2>. QED BY <1>1, <2>1 DEF Kept
<1>4. SameCount(a) /\ CountKept(a) => CountKept(a)'
  BY <1>1 DEF SameCount, CountKept, LiesAt, CountAt, Offset0, Word32, Word24
<1>. QED BY <1>2, <1>3, <1>4

\* What a command has changed stays, where the step leaves its axis alone.
LEMMA ChangedSame ==
    ASSUME UNCHANGED gatewayVars, NEW c, c.axis \in MountAxes, NEW r, Changed(c, r),
           SameFields(c.axis), SameCount(c.axis)
    PROVE  Changed(c, r)'
<1>. DEFINE a == c.axis
<1>1. isSlew' = isSlew /\ isIncrement' = isIncrement /\ told' = told /\ placed' = placed
  BY GatewaySame
<1>2. IncrementAfter(c)' = IncrementAfter(c)
  BY <1>1 DEF IncrementAfter
<1>3. /\ IF Done(c, r) THEN Agreed(m_params[a], Tells(told[a], c), isSlew[a], IncrementAfter(c))
         ELSE Kept(a, told[a])
      /\ CountAfter(c, Done(c, r)) /\ (c.letter = "j" /\ a \in held => r = regs[a].count)
  BY DEF Changed
<1>4. IF Done(c, r) THEN Agreed(m_params'[a], Tells(told'[a], c), isSlew'[a], IncrementAfter(c)')
      ELSE Kept(a, told[a])'
  <2>1. CASE Done(c, r)
    <3>1. Agreed(m_params'[a], Tells(told[a], c), isSlew[a], IncrementAfter(c))
      BY <1>3, <2>1, AgreedSame DEF SameFields
    <3>. QED BY <1>1, <1>2, <2>1, <3>1
  <2>2. CASE ~Done(c, r)
    BY <1>3, <2>2, AxisSame
  <2>. QED BY <2>1, <2>2
<1>5. CountAfter(c, Done(c, r))'
  <2>1. CountKept(a) => CountKept(a)'
    BY AxisSame
  <2>2. \A p : (a \in held => LiesAt(regs[a].count, p)) => (a \in held => LiesAt(regs[a].count, p))'
    BY DEF SameCount, LiesAt, CountAt, Offset0, Word32, Word24
  <2>. QED BY <1>3, <2>1, <2>2 DEF CountAfter, Done
<1>6. c.letter = "j" /\ a \in held' => r = regs'[a].count
  BY <1>3 DEF SameCount
<1>7. Done(c, r)' <=> Done(c, r)
  BY DEF Done
<1>. QED BY <1>4, <1>5, <1>6, <1>7 DEF Changed

\* A script that spares parameters, or the counts, keeps axes as they are.
LEMMA SparingSame ==
    ASSUME ShapeOK, RecordsOK, NEW F, Fields \subseteq F,
           NEW d \in Drivers, Spares(todo[d], F), Serve(d)
    PROVE  /\ \A a \in MountAxes : SameFields(a)
           /\ "count" \in F => \A a \in MountAxes : SameCount(a)
<1>1. /\ \A a \in Axes : \A f \in F \cap DOMAIN m_params[a] : m_params'[a][f] = m_params[a][f]
      /\ "count" \in F => \A a \in Axes : SameCount(a)
  BY ServesSparing
<1>2. \A a \in Axes : Fields \subseteq DOMAIN m_params[a]
  BY DEF RecordsOK
<1>3. MountAxes \subseteq Axes
  BY DEF MountAxes, Axes
<1>. QED BY <1>1, <1>2, <1>3 DEF SameFields

\* Steps that read, and the one that places the counter.
LEMMA CountsOnly ==
    ASSUME NEW d \in Drivers, Serve(d)
    PROVE  /\ Head(todo[d]).op = "count" => CountReads(d)
           /\ Head(todo[d]).op = "get" => GetParameter(d)
           /\ Head(todo[d]).op = "position" => PositionWritten(d)
BY DEF Serve, SetParameter, GetParameter, SendCommand, StartTracking, StopReads,
   StatusReads, Freshly, CountReads, RegisterWritten, TrackWritten, PositionWritten,
   CommandWritten, TypesRead, TypesWritten, NextIs

\* A parameter is read, and nothing else.
LEMMA Gets ==
    ASSUME ShapeOK, RecordsOK, NEW d \in Drivers, Serve(d), NEW a, NEW f,
           todo[d] = <<Get(a, f)>>
    PROVE  /\ todo'[d] = <<>> /\ answer'[d] = m_params[a][f]
           /\ m_params' = m_params /\ regs' = regs /\ held' = held
<1>1. Head(todo[d]) = Get(a, f) /\ Tail(todo[d]) = <<>>
  BY Tails
<1>2. GetParameter(d) /\ Step(d).axis = a /\ Step(d).field = f
  <2>1. Head(todo[d]).op = "get"
    BY <1>1 DEF Get
  <2>. QED BY <1>1, <2>1, CountsOnly DEF Step, Get
<1>3. Goes(d, <<>>, m_params[a][f])
  BY <1>1, <1>2 DEF GetParameter
<1>4. m_params' = m_params /\ regs' = regs /\ held' = held
  BY <1>2 DEF GetParameter, hardware, motion
<1>. QED BY <1>3, <1>4, GoesTo

\* A position of the handset is at some count.
LEMMA AtSomeCount == \A p \in 0..CountEnd : CountAt(p) \in Nat
<1>. SUFFICES ASSUME NEW p \in 0..CountEnd PROVE CountAt(p) \in Nat
  OBVIOUS
<1>1. CountEnd \in Nat /\ Center \in Int /\ Steps \in Nat
  BY SkyTrackerAssumption
<1>2. Offset0 \in Int /\ Word32 \in Nat \ {0}
  BY <1>1 DEF Offset0, Word32, Word24
<1>. QED BY <1>1, <1>2 DEF CountAt

\* The gateway's command goes on.
LEMMA DoingGoesOn ==
    ASSUME ShapeOK, RecordsOK, ValuesKept, rev = Steps, UNCHANGED gatewayVars,
           NEW c \in Known, Doing(c), OthersKept(c), Serve("ASCOM")
    PROVE  Doing(c)' /\ OthersKept(c)' /\ ValuesKept'
<1>. DEFINE a == c.axis
            t == told[a]
            s == todo["ASCOM"]
            r == answer["ASCOM"]
            Bare == /\ \A b \in MountAxes \ {a} : SameFields(b)
                    /\ c.letter = "F" \/ \A b \in MountAxes \ {a} : SameCount(b)
                    /\ \A b \in MountAxes : /\ m_params'[b].min = m_params[b].min
                                            /\ m_params'[b].steps = m_params[b].steps
<1>1. /\ pc' = pc /\ isSlew' = isSlew /\ isIncrement' = isIncrement /\ told' = told
      /\ placed' = placed
  BY GatewaySame
<1>2. /\ a \in MountAxes /\ a \in Axes /\ MountAxes \subseteq Axes
      /\ t \in Tales /\ "ASCOM" \in Drivers
  BY DEF Known, MountAxes, Axes, ValuesKept, Drivers
<1>3. "min" \in Fields /\ "steps" \in Fields
  BY DEF Fields
<1>4. Bare => OthersKept(c)' /\ ValuesKept'
  <2>. SUFFICES ASSUME Bare PROVE OthersKept(c)' /\ ValuesKept'
    OBVIOUS
  <2>1. OthersKept(c)'
    BY AxisSame DEF OthersKept
  <2>2. ValuesKept'
    BY <1>1 DEF ValuesKept
  <2>. QED BY <2>1, <2>2
<1>5. (\A b \in MountAxes : SameFields(b)) /\ (c.letter = "F" \/ \A b \in MountAxes : SameCount(b))
      => Bare
  BY <1>3 DEF SameFields
<1>6. m_params' = m_params /\ regs' = regs /\ held' = held
      => \A b \in MountAxes : SameFields(b) /\ SameCount(b)
  BY DEF SameFields, SameCount
<1>. USE DEF Before, Is, Harmless, AsksCount, PutsCount, Initialises, SetsCycles,
            SetsTarget, Turns, AsksLeast, KnowsLeast, NamesPeriod, HandsOn, CallOver
<1>7. \/ Harmless(c) \/ AsksCount(c) \/ PutsCount(c) \/ Initialises(c)
      \/ SetsCycles(c) \/ SetsTarget(c) \/ Turns(c) \/ AsksLeast(c)
      \/ KnowsLeast(c) \/ NamesPeriod(c) \/ HandsOn(c) \/ CallOver(c)
  BY DEF Doing
<1>8. Harmless(c)' \/ Initialises(c)' \/ KnowsLeast(c)' \/ HandsOn(c)' \/ CallOver(c)' => Doing(c)'
  BY DEF Doing
<1>9. s # <<>>
  BY <1>2, Served
<1>10. CASE Harmless(c)
  <2>. DEFINE F == Fields \cup {"count"}
  <2>1. Spares(s, F) /\ Fields \subseteq F /\ "count" \in F
    BY <1>10
  <2>. HIDE DEF F
  <2>2. (\A b \in MountAxes : SameFields(b)) /\ (\A b \in MountAxes : SameCount(b))
    BY <1>2, <2>1, SparingSame
  <2>3. Spares(s', F)
    BY <1>2, <2>1, ServesSparing
  <2>4. Kept(a, t)' /\ CountKept(a)'
    BY <1>2, <1>10, <2>2, AxisSame
  <2>5. Harmless(c)'
    BY <1>1, <1>10, <2>3, <2>4 DEF F
  <2>. QED BY <1>4, <1>5, <1>8, <2>2, <2>5
<1>11. CASE AsksCount(c)
  <2>1. Head(s) = ReadCount(a) /\ Tail(s) = <<>>
    BY <1>11, Tails
  <2>2. CountReads("ASCOM") /\ Step("ASCOM") = ReadCount(a)
    <3>1. Head(s).op = "count"
      BY <2>1 DEF ReadCount
    <3>. QED BY <2>1, <3>1, CountsOnly, <1>2 DEF Step
  <2>3. /\ s' = <<>> /\ r' = regs[a].count /\ m_params' = m_params /\ regs' = regs
        /\ held' = held
    <3>1. Goes("ASCOM", <<>>, regs[a].count)
      <4>1. Step("ASCOM").axis = a
        BY <2>2 DEF ReadCount
      <4>2. Goes("ASCOM", Tail(s), regs[Step("ASCOM").axis].count)
        BY <2>2 DEF CountReads
      <4>. QED BY <2>1, <4>1, <4>2
    <3>2. s' = <<>> /\ r' = regs[a].count
      BY <1>2, <3>1, GoesTo
    <3>. QED BY <2>2, <3>2 DEF CountReads, hardware, motion
  <2>4. \A b \in MountAxes : SameFields(b) /\ SameCount(b)
    BY <1>6, <2>3
  <2>5. CallOver(c)'
    <3>1. Kept(a, t)' /\ CountKept(a)'
      BY <1>2, <1>11, <2>4, AxisSame
    <3>2. Done(c, r') /\ Tells(t', c) = t' /\ IncrementAfter(c)' = isIncrement'[a]
      BY <1>1, <1>2, <1>11, TellsMore DEF Done, IncrementAfter
    <3>3. Changed(c, r)'
      BY <1>11, <2>3, <3>1, <3>2 DEF Changed, CountAfter, Kept, Done
    <3>. QED BY <1>1, <1>11, <2>3, <3>3
  <2>. QED BY <1>4, <1>5, <1>8, <2>4, <2>5
<1>12. CASE PutsCount(c)
  <2>. DEFINE v == CountAt(c.data)
              x == [op |-> "position", axis |-> a, value |-> v]
  <2>1. c.data \in 0..CountEnd /\ v \in Nat /\ CountEnd \in Nat
    BY KnownData, AtSomeCount, SkyTrackerAssumption
  <2>. HIDE DEF v
  <2>2. s = <<x>>
    BY <1>12 DEF set_current_position, v
  <2>3. Head(s) = x /\ Tail(s) = <<>>
    BY <2>2, Tails
  <2>4. PositionWritten("ASCOM") /\ Step("ASCOM").axis = a /\ Step("ASCOM").value = v
    <3>1. Head(s).op = "position"
      BY <2>3
    <3>. QED BY <1>2, <2>3, <3>1, CountsOnly DEF Step
  <2>5. m_params' = m_params
    BY <2>4 DEF PositionWritten, Written
  <2>6. /\ \A b \in MountAxes : SameFields(b)
        /\ \A b \in MountAxes \ {a} : SameCount(b)
    <3>1. /\ regs' = regs \/ \E w : regs' = [regs EXCEPT ![a]["count"] = w]
          /\ \A b \in MountAxes \ {a} : b \in held' <=> b \in held
      BY <2>4 DEF PositionWritten, Loads
    <3>. QED BY <1>2, <2>5, <3>1 DEF SameFields, SameCount, RecordsOK, RegsOK
  <2>7. Kept(a, t)'
    BY <1>2, <1>12, <2>6, AxisSame
  <2>8. Tells(t', c) = t' /\ IncrementAfter(c)' = isIncrement'[a]
    BY <1>1, <1>2, <1>12, TellsMore DEF IncrementAfter
  <2>9. ASSUME v > CountEnd PROVE CallOver(c)'
    <3>1. Goes("ASCOM", <<>>, 0) /\ regs' = regs /\ held' = held
      BY <2>4, <2>9 DEF PositionWritten, Refuses
    <3>2. s' = <<>> /\ r' = 0
      BY <1>2, <3>1, GoesTo
    <3>3. CountKept(a)'
      BY <1>2, <1>12, <3>1, AxisSame DEF SameCount
    <3>4. Changed(c, r)'
      BY <1>12, <2>7, <3>2, <3>3 DEF Changed, CountAfter, Done
    <3>. QED BY <1>1, <1>12, <3>2, <3>4
  <2>10. ASSUME ~(v > CountEnd) PROVE CallOver(c)'
    <3>1. /\ Goes("ASCOM", Tail(s), r)
          /\ \/ regs' = [regs EXCEPT ![a]["count"] = IF v = CountEnd THEN 0 ELSE v]
             \/ a \notin held'
      BY <2>4, <2>10 DEF PositionWritten, Written, GoesOn, Loads, Wrapped
    <3>2. s' = <<>> /\ r' = 1
      <4>1. Goes("ASCOM", <<>>, r)
        BY <2>3, <3>1
      <4>2. s' = <<>> /\ r' = r
        BY <1>2, <4>1, GoesTo
      <4>. QED BY <1>12, <4>2
    <3>3. a \in held' => regs'[a].count = IF v = CountEnd THEN 0 ELSE v
      BY <1>2, <3>1 DEF RecordsOK, RegsOK
    <3>4. a \in held' => LiesAt(regs'[a].count, c.data)
      BY <2>1, <2>10, <3>3 DEF LiesAt, v
    <3>5. Changed(c, r)'
      BY <1>1, <1>12, <2>7, <2>8, <3>2, <3>4 DEF Changed, CountAfter, Done, Kept
    <3>. QED BY <1>1, <1>12, <3>2, <3>5
  <2>11. Bare
    BY <1>3, <2>5, <2>6 DEF Bare
  <2>12. CallOver(c)'
    BY <2>9, <2>10
  <2>. QED BY <1>4, <1>8, <2>11, <2>12
<1>13. CASE Initialises(c)
  <2>. DEFINE F == Fields \cup {"answer"}
  <2>1. Spares(s, F) /\ Fields \subseteq F /\ "answer" \in F
    BY <1>13
  <2>. HIDE DEF F
  <2>2. \A b \in MountAxes : SameFields(b)
    BY <1>2, <2>1, SparingSame
  <2>3. Spares(s', F) /\ r' = r
    BY <1>2, <2>1, ServesSparing
  <2>4. Kept(a, t)'
    BY <1>2, <1>13, <2>2, AxisSame
  <2>5. Initialises(c)'
    BY <1>1, <1>13, <2>3, <2>4 DEF F
  <2>. QED BY <1>4, <1>5, <1>8, <1>13, <2>2, <2>5
<1>14. ASSUME NEW f \in Fields \ {"min", "steps"}, NEW v, s = <<Set(a, f, v)>>
       PROVE  /\ \/ /\ ~Allowed(Set(a, f, v)) /\ SameFields(a) /\ s' = <<>> /\ r' = 0
                 \/ /\ s' = HandOn(Set(a, f, v)) \o <<>> /\ r' = r
                    /\ m_params'[a][f] = v
                    /\ \A g \in Fields : g # f => m_params'[a][g] = m_params[a][g]
              /\ Bare /\ SameCount(a)
  <2>1. Head(s) = Set(a, f, v) /\ Tail(s) = <<>> /\ f \in Fields
    BY <1>14, Tails
  <2>2. /\ \/ /\ ~Allowed(Set(a, f, v)) /\ m_params' = m_params
              /\ todo'["ASCOM"] = <<>> /\ call'["ASCOM"] = Quiet /\ answer'["ASCOM"] = 0
           \/ /\ todo'["ASCOM"] = HandOn(Set(a, f, v)) \o Tail(todo["ASCOM"])
              /\ answer'["ASCOM"] = answer["ASCOM"] /\ m_params'[a][f] = v
              /\ \A g \in Fields : g # f => m_params'[a][g] = m_params[a][g]
        /\ \A b \in Axes \ {a} : m_params'[b] = m_params[b]
        /\ regs' = regs /\ held' = held
    BY <1>2, <2>1, Sets
  <2>3. Bare
    BY <1>2, <1>3, <1>14, <2>2 DEF Bare, SameFields, SameCount
  <2>. QED BY <2>1, <2>2, <2>3 DEF SameFields, SameCount
<1>15. ASSUME NEW f, f # "slew_period", NEW v
       PROVE  HandOn(Set(a, f, v)) = <<>> /\ <<>> \o <<>> = <<>>
  BY <1>15 DEF HandOn, Set
<1>16. ASSUME NEW f \in Fields \ {"min", "steps", "slew_period"}, NEW v, s = <<Set(a, f, v)>>
       PROVE  /\ \/ ~Allowed(Set(a, f, v)) /\ SameFields(a) /\ s' = <<>> /\ r' = 0
                 \/ /\ s' = <<>> /\ r' = r /\ m_params'[a][f] = v
                    /\ \A g \in Fields : g # f => m_params'[a][g] = m_params[a][g]
              /\ Bare /\ SameCount(a)
  BY <1>14, <1>15, <1>16
<1>17. ASSUME NEW u \in Nat, c.letter \in {"H", "S", "I"}, u = 0,
              Before(c), SameFields(a), SameCount(a)
       PROVE  Changed(c, u)'
  <2>1. Kept(a, t)' /\ CountKept(a)'
    BY <1>2, <1>17, AxisSame
  <2>2. ~Done(c, u)
    BY <1>17 DEF Done
  <2>. QED BY <1>1, <1>17, <2>1, <2>2 DEF Changed, CountAfter, Done
<1>18. ASSUME c.letter \in {"H", "S", "G", "I"}, CountKept(a), SameCount(a),
              Agreed(m_params'[a], Tells(t, c), isSlew[a], IncrementAfter(c))
       PROVE  Changed(c, 1)'
  <2>1. CountKept(a)'
    BY <1>2, <1>18, AxisSame
  <2>2. IncrementAfter(c)' = IncrementAfter(c)
    BY <1>1 DEF IncrementAfter
  <2>. QED BY <1>1, <1>18, <2>1, <2>2 DEF Changed, CountAfter, Done
<1>19. CASE SetsCycles(c)
  <2>. DEFINE f == "ncycles" v == c.data
  <2>1. f \in Fields \ {"min", "steps", "slew_period"}
    BY DEF Fields
  <2>2. /\ \/ ~Allowed(Set(a, f, v)) /\ SameFields(a) /\ s' = <<>> /\ r' = 0
           \/ /\ s' = <<>> /\ r' = r /\ m_params'[a][f] = v
              /\ \A g \in Fields : g # f => m_params'[a][g] = m_params[a][g]
        /\ Bare /\ SameCount(a)
    BY <1>16, <1>19, <2>1
  <2>3. CASE SameFields(a) /\ s' = <<>> /\ r' = 0
    <3>1. Changed(c, r)'
      BY <1>17, <1>19, <2>2, <2>3
    <3>2. CallOver(c)'
      BY <1>1, <1>19, <2>3, <3>1
    <3>. QED BY <1>4, <1>8, <2>2, <3>2
  <2>4. CASE /\ s' = <<>> /\ r' = r /\ m_params'[a][f] = v
             /\ \A g \in Fields : g # f => m_params'[a][g] = m_params[a][g]
    <3>1. Agreed(m_params'[a], Tells(t, c), isSlew[a], 0)
      BY <1>2, <1>19, <2>4, Tellings DEF Kept
    <3>2. Changed(c, r)'
      BY <1>18, <1>19, <2>2, <2>4, <3>1 DEF IncrementAfter
    <3>3. CallOver(c)'
      BY <1>1, <1>19, <2>4, <3>2
    <3>. QED BY <1>4, <1>8, <2>2, <3>3
  <2>. QED BY <2>2, <2>3, <2>4
<1>20. CASE SetsTarget(c)
  <2>. DEFINE f == "target" v == Larger(c.data, 2)
  <2>1. f \in Fields \ {"min", "steps", "slew_period"}
    BY DEF Fields
  <2>2. /\ \/ ~Allowed(Set(a, f, v)) /\ SameFields(a) /\ s' = <<>> /\ r' = 0
           \/ /\ s' = <<>> /\ r' = r /\ m_params'[a][f] = v
              /\ \A g \in Fields : g # f => m_params'[a][g] = m_params[a][g]
        /\ Bare /\ SameCount(a)
    BY <1>16, <1>20, <2>1
  <2>3. CASE SameFields(a) /\ s' = <<>> /\ r' = 0
    <3>1. Changed(c, r)'
      BY <1>17, <1>20, <2>2, <2>3
    <3>2. CallOver(c)'
      BY <1>1, <1>20, <2>3, <3>1
    <3>. QED BY <1>4, <1>8, <2>2, <3>2
  <2>4. CASE /\ s' = <<>> /\ r' = r /\ m_params'[a][f] = v
             /\ \A g \in Fields : g # f => m_params'[a][g] = m_params[a][g]
    <3>1. Agreed(m_params'[a], Tells(t, c), isSlew[a], 1)
      BY <1>2, <1>20, <2>4, Tellings DEF Kept
    <3>2. Changed(c, r)'
      BY <1>18, <1>20, <2>2, <2>4, <3>1 DEF IncrementAfter
    <3>3. CallOver(c)'
      BY <1>1, <1>20, <2>4, <3>2
    <3>. QED BY <1>4, <1>8, <2>2, <3>3
  <2>. QED BY <2>2, <2>3, <2>4
<1>21. CASE Turns(c)
  <2>. DEFINE f == Forward(SlewOf(c.data)) v == ForwardOf(c.data)
  <2>1. f \in Fields \ {"min", "steps", "slew_period"} /\ Allowed(Set(a, f, v))
    <3>1. f \in {"slew_forward", "goto_forward"}
      BY DEF Forward
    <3>. HIDE DEF f
    <3>. QED BY <3>1 DEF Fields, Allowed, Set
  <2>. HIDE DEF f, v
  <2>2. s = <<Set(a, f, v)>>
    BY <1>21 DEF f, v
  <2>3. /\ s' = <<>> /\ r' = r /\ m_params'[a][f] = v
        /\ \A g \in Fields : g # f => m_params'[a][g] = m_params[a][g]
        /\ Bare /\ SameCount(a)
    BY <1>16, <2>1, <2>2
  <2>4. Agreed(m_params'[a], Tells(t, c), isSlew[a], isIncrement[a])
    BY <1>2, <1>21, <2>3, Tellings DEF f, v
  <2>5. Changed(c, r)'
    BY <1>18, <1>21, <2>3, <2>4 DEF IncrementAfter
  <2>6. CallOver(c)'
    BY <1>1, <1>21, <2>3, <2>5
  <2>. QED BY <1>4, <1>8, <2>3, <2>6
<1>22. CASE AsksLeast(c)
  <2>1. s = <<Get(a, "min")>>
    BY <1>22
  <2>2. /\ s' = <<>> /\ r' = m_params[a].min /\ m_params' = m_params /\ regs' = regs
        /\ held' = held
    BY <1>2, <2>1, Gets
  <2>3. \A b \in MountAxes : SameFields(b) /\ SameCount(b)
    BY <1>6, <2>2
  <2>4. Kept(a, t)' /\ CountKept(a)'
    BY <1>2, <1>22, <2>3, AxisSame
  <2>5. KnowsLeast(c)'
    <3>1. m_params[a].min = MinPeriod
      BY <1>2 DEF ValuesKept
    <3>. QED BY <1>1, <1>22, <2>2, <2>4, <3>1
  <2>. QED BY <1>4, <1>5, <1>8, <2>3, <2>5
<1>23. CASE NamesPeriod(c)
  <2>. DEFINE f == Period(t.slew) v == Larger(TicksOf(c.data), MinPeriod)
  <2>1. f \in Fields \ {"min", "steps"}
    BY DEF Period, Fields
  <2>. HIDE DEF f, v
  <2>2. s = <<Set(a, f, v)>>
    BY <1>23 DEF f, v
  <2>3. /\ \/ ~Allowed(Set(a, f, v)) /\ SameFields(a) /\ s' = <<>> /\ r' = 0
           \/ /\ s' = HandOn(Set(a, f, v)) \o <<>> /\ r' = r
              /\ m_params'[a][f] = v
              /\ \A g \in Fields : g # f => m_params'[a][g] = m_params[a][g]
        /\ Bare /\ SameCount(a)
    BY <1>14, <2>1, <2>2
  <2>4. CASE SameFields(a) /\ s' = <<>> /\ r' = 0
    <3>1. Changed(c, r)'
      BY <1>17, <1>23, <2>3, <2>4
    <3>2. CallOver(c)'
      BY <1>1, <1>23, <2>4, <3>1
    <3>. QED BY <1>4, <1>8, <2>3, <3>2
  <2>5. CASE /\ s' = HandOn(Set(a, f, v)) \o <<>> /\ r' = r /\ m_params'[a][f] = v
             /\ \A g \in Fields : g # f => m_params'[a][g] = m_params[a][g]
    <3>1. Agreed(m_params'[a], Tells(t, c), isSlew[a], isIncrement[a])
      BY <1>2, <1>23, <2>5, Tellings DEF Kept, f, v
    <3>2. Changed(c, 1)'
      BY <1>18, <1>23, <2>3, <3>1 DEF IncrementAfter
    <3>. DEFINE F == Fields \cup {"count", "answer"}
    <3>3. Spares(HandOn(Set(a, f, v)) \o <<>>, F)
      BY SparesMotions, SparesEmpty, SparesJoin
    <3>4. HandsOn(c)'
      BY <1>1, <1>23, <2>5, <3>2, <3>3
    <3>. QED BY <1>4, <1>8, <2>3, <3>4
  <2>. QED BY <2>3, <2>4, <2>5
<1>24. CASE HandsOn(c)
  <2>. DEFINE F == Fields \cup {"count", "answer"}
  <2>1. Spares(s, F) /\ Fields \subseteq F /\ "count" \in F /\ "answer" \in F
    BY <1>24
  <2>. HIDE DEF F
  <2>2. (\A b \in MountAxes : SameFields(b)) /\ (\A b \in MountAxes : SameCount(b))
    BY <1>2, <2>1, SparingSame
  <2>3. Spares(s', F) /\ r' = r
    BY <1>2, <2>1, ServesSparing
  <2>4. Changed(c, 1)'
    BY <1>2, <1>24, <2>2, ChangedSame
  <2>5. HandsOn(c)'
    BY <1>1, <1>24, <2>3, <2>4 DEF F
  <2>. QED BY <1>4, <1>5, <1>8, <2>2, <2>5
<1>. QED BY <1>7, <1>9, <1>10, <1>11, <1>12, <1>13, <1>19, <1>20, <1>21, <1>22, <1>23, <1>24

-----------------------------------------------------------------------------
(* The drivers, where a handset is alone.                                    *)

\* No client but the handset calls, and nothing restarts the server.
LEMMA NoOthers ==
    ASSUME use.ops \subseteq {"handset", "again", "cut", "miss"}
    PROVE  ~Restart /\ \A d \in Drivers, a \in Axes : ~Calls(d, a)
<1>1. \A d, op, script, want :
        op \notin {"handset", "again", "cut", "miss"} => ~Enter(d, op, script, want)
  BY DEF Enter
<1>2. ~Restart
  BY DEF Restart
<1>3. ASSUME NEW d \in Drivers, NEW a \in Axes, Calls(d, a) PROVE FALSE
  <2>1. CASE SetLimits(d, a) \/ SetType(d, a) \/ StopMotion(d, a) \/ Position(d, a)
    BY <1>1, <2>1 DEF SetLimits, SetType, StopMotion, Position
  <2>2. CASE SetPeriod(d, a) \/ SetDirection(d, a) \/ SetGoal(d, a) \/ StartMotion(d, a)
    BY <1>1, <2>2 DEF SetPeriod, SetDirection, SetGoal, StartMotion
  <2>3. CASE GetStatus(a) \/ SwpInitialize(a)
    BY <1>1, <2>3 DEF GetStatus, SwpInitialize
  <2>4. CASE Enter("Focuser", "Initialize", FocuserInitialize, NoWant)
    BY <1>1, <2>4
  <2>5. CASE \E p \in Periods, f \in Bit :
               FocuserSlewTo(p, f) \/ \E v \in Counts, g \in Bit : FocuserMove(v, p, f, g)
    BY <1>1, <2>5 DEF FocuserSlewTo, FocuserMove
  <2>. QED BY <1>3, <2>1, <2>2, <2>3, <2>4, <2>5 DEF Calls
<1>. QED BY <1>2, <1>3

\* The drivers are ready when the constructor's last step is done.
LEMMA ReadyAtLast ==
    ASSUME ShapeOK, RecordsOK, NEW d \in Drivers, Serve(d), ~up, up',
           NEW S, todo[d] \in Seq(S)
    PROVE  todo'[d] = <<>>
<1>1. Written(d)
  <2>1. CASE SetParameter(d) \/ GetParameter(d) \/ SendCommand(d) \/ StartTracking(d)
    BY <2>1 DEF SetParameter, GetParameter, SendCommand, StartTracking
  <2>2. CASE StopReads(d) \/ StatusReads(d) \/ Freshly(d) \/ CountReads(d) \/ TypesRead(d)
    BY <2>2 DEF StopReads, StatusReads, Freshly, CountReads, TypesRead
  <2>3. CASE RegisterWritten(d) \/ TrackWritten(d) \/ CommandWritten(d) \/ TypesWritten(d)
    BY <2>3 DEF RegisterWritten, TrackWritten, CommandWritten, TypesWritten
  <2>4. CASE PositionWritten(d)
    BY <2>4 DEF PositionWritten
  <2>. QED BY <2>1, <2>2, <2>3, <2>4 DEF Serve
<1>2. Len(todo[d]) = 1 /\ todo'[d] = Tail(todo[d])
  BY <1>1, GoesTo DEF Written, GoesOn
<1>3. Len(Tail(todo[d])) = 0 /\ Tail(todo[d]) \in Seq(S)
  BY <1>2, Served, HeadTailProperties, LenProperties
<1>. QED BY <1>2, <1>3, EmptySeq

\* What holds of a handset that is alone, and sends nothing again.
AloneOnly == OnlyOne /\ ValuesKept /\ StartsUp /\ Conversation

\* While the server or the gateway starts, nothing that is told is disturbed.
LEMMA ServesStarting ==
    ASSUME TypesInv, RecordsOK, AloneOnly, UNCHANGED gatewayVars, pc \in Starting,
           NEW d \in Drivers, Serve(d), Spares(todo[d], Fields)
    PROVE  ValuesKept' /\ Conversation'
<1>1. \A a \in MountAxes : SameFields(a)
  BY SparingSame DEF TypesInv
<1>2. Waits
  BY DEF AloneOnly, Conversation, Works, Replied, Unanswered, Starting
<1>3. AllKept'
  <2>1. \A a \in MountAxes : Kept(a, told[a]) /\ placed[a] = -1
    BY <1>2 DEF Waits, AllKept, AloneOnly, StartsUp
  <2>2. \A a \in MountAxes : Kept(a, told[a])'
    BY <1>1, <2>1, AxisSame
  <2>. QED BY <2>1, <2>2, GatewaySame DEF AllKept, CountKept
<1>4. /\ toGateway' = toGateway /\ toHandset' = toHandset /\ pc' = pc
      /\ isSlew' = isSlew /\ isIncrement' = isIncrement /\ asked' = asked
      /\ told' = told /\ placed' = placed
  BY GatewaySame
<1>5. Waits'
  BY <1>2, <1>3, <1>4 DEF Waits
<1>6. ValuesKept'
  BY <1>1, <1>4 DEF AloneOnly, ValuesKept, SameFields, Fields
<1>. QED BY <1>5, <1>6 DEF Conversation

\* A read of the steps of a revolution.
LEMMA GetsSteps ==
    ASSUME ShapeOK, RecordsOK, ValuesKept, NEW d \in Drivers, Serve(d),
           todo[d] = <<Get(1, "steps")>>
    PROVE  todo'[d] = <<>> /\ answer'[d] = Steps
<1>1. todo'[d] = <<>> /\ answer'[d] = m_params[1]["steps"]
  BY Gets
<1>2. m_params[1].steps = Steps
  BY DEF ValuesKept, MountAxes
<1>. QED BY <1>1, <1>2

\* The drivers keep it so.
LEMMA ServesAlone ==
    ASSUME TypesInv, RecordsOK, AloneOnly, UNCHANGED gatewayVars, NEW d \in Drivers, Serve(d)
    PROVE  AloneOnly'
<1>0. ShapeOK
  BY DEF TypesInv
<1>1. /\ ShapeOK' /\ todo[d] # <<>> /\ (up => up')
      /\ \A e \in Drivers \ {d} : todo'[e] = todo[e]
  BY <1>0, Served
<1>2. /\ pc' = pc /\ cmd' = cmd /\ placed' = placed /\ rev' = rev /\ told' = told
      /\ toGateway' = toGateway /\ toHandset' = toHandset /\ asked' = asked
  BY GatewaySame
<1>3. Spares(todo["SkyTracker"], Fields)
  BY DEF AloneOnly, OnlyOne
<1>4. CASE ~up
  <2>1. /\ todo["ASCOM"] = <<>> /\ todo["Focuser"] = <<>>
        /\ pc = "start 1" /\ cmd.letter = "none"
    BY <1>4 DEF TypesInv, ConstructorInv, AloneOnly, OnlyOne
  <2>2. d = "SkyTracker"
    BY <1>1, <2>1 DEF Drivers
  <2>3. Spares(todo[d], Fields) /\ pc \in Starting
    BY <1>3, <2>1, <2>2 DEF Starting
  <2>4. ValuesKept' /\ Conversation'
    BY <2>3, ServesStarting
  <2>5. Spares(todo'[d], Fields)
    BY <1>0, <2>3, ServesSparing
  <2>6. todo'["ASCOM"] = <<>> /\ todo'["Focuser"] = <<>>
    BY <1>1, <2>1, <2>2 DEF Drivers
  <2>7. up' => todo'[d] = <<>>
    <3>1. todo[d] \in Seq(StepsOf(todo[d]))
      BY <2>3 DEF Spares
    <3>. QED BY <1>0, <1>4, <3>1, ReadyAtLast
  <2>8. OnlyOne'
    BY <1>2, <2>1, <2>2, <2>5, <2>6, <2>7 DEF OnlyOne, Idle
  <2>9. StartsUp'
    <3>1. Spares(todo'["ASCOM"], Fields)
      BY <2>6, SparesEmpty
    <3>2. pc \in Starting => \A a \in MountAxes : placed[a] = -1
      BY DEF AloneOnly, StartsUp
    <3>. QED BY <1>2, <2>1, <2>3, <3>1, <3>2 DEF StartsUp
  <2>. QED BY <2>4, <2>8, <2>9 DEF AloneOnly
<1>5. CASE up
  <2>1. d = "ASCOM" /\ todo["SkyTracker"] = <<>> /\ todo["Focuser"] = <<>>
    BY <1>1, <1>5 DEF AloneOnly, OnlyOne, Idle, Drivers
  <2>2. OnlyOne'
    <3>1. todo'["SkyTracker"] = todo["SkyTracker"] /\ todo'["Focuser"] = todo["Focuser"]
      BY <1>1, <2>1 DEF Drivers
    <3>. QED BY <1>1, <1>3, <1>5, <2>1, <3>1 DEF OnlyOne, Idle
  <2>3. pc # "read"
    BY <1>1, <2>1 DEF AloneOnly, StartsUp, Idle
  <2>4. CASE pc \in Starting
    <3>1. Spares(todo[d], Fields) /\ \A a \in MountAxes : placed[a] = -1
      BY <2>1, <2>4 DEF AloneOnly, StartsUp
    <3>2. ValuesKept' /\ Conversation'
      BY <2>4, <3>1, ServesStarting
    <3>3. Spares(todo'[d], Fields)
      BY <1>0, <3>1, ServesSparing
    <3>4. pc = "start 3" /\ cmd.letter = "busy" =>
            todo'["ASCOM"] = <<>> /\ answer'["ASCOM"] = Steps
      <4>. SUFFICES ASSUME pc = "start 3", cmd.letter = "busy"
                    PROVE  todo'[d] = <<>> /\ answer'[d] = Steps
        BY <2>1
      <4>1. todo[d] = <<Get(1, "steps")>>
        BY <1>1, <2>1, <2>4 DEF AloneOnly, StartsUp
      <4>2. ValuesKept
        BY DEF AloneOnly
      <4>. QED BY <1>0, <4>1, <4>2, GetsSteps
    <3>5. StartsUp'
      <4>1. /\ pc \in Starting \cup {"read", "call", "set"}
            /\ pc \notin {"start 1", "start 2", "start 3"} => rev = Steps
        BY DEF AloneOnly, StartsUp
      <4>. QED BY <1>2, <2>1, <2>3, <2>4, <3>1, <3>3, <3>4, <4>1 DEF StartsUp
    <3>. QED BY <2>2, <3>2, <3>5 DEF AloneOnly
  <2>5. CASE pc \notin Starting
    <3>1. pc \in {"call", "set"} /\ rev = Steps
      BY <2>3, <2>5 DEF AloneOnly, StartsUp, Starting
    <3>2. Works
      BY <3>1 DEF AloneOnly, Conversation, Waits, Replied, Unanswered, Starting
    <3>3. PICK c \in Known : c = asked /\ Doing(c) /\ OthersKept(c)
      BY <3>2 DEF Works
    <3>4. Doing(c)' /\ OthersKept(c)' /\ ValuesKept'
      <4>1. ValuesKept /\ Serve("ASCOM")
        BY <2>1 DEF AloneOnly
      <4>. QED BY <1>0, <3>1, <3>3, <4>1, DoingGoesOn
    <3>5. asked' = c
      BY <1>2, <3>3
    <3>6. Works'
      BY <1>2, <3>2, <3>4, <3>5 DEF Works
    <3>7. StartsUp'
      BY <1>2, <3>1, <2>5 DEF StartsUp, Starting
    <3>. QED BY <2>2, <3>4, <3>6, <3>7 DEF AloneOnly, Conversation
  <2>. QED BY <2>4, <2>5
<1>. QED BY <1>4, <1>5

-----------------------------------------------------------------------------
(* The gateway's own steps, where the handset is alone.                      *)

\* What is kept is as it was, where a step leaves the axes and the gateway's
\* variables alone.
LEMMA KeptStays ==
    ASSUME m_params' = m_params, \A a \in MountAxes : SameCount(a), isSlew' = isSlew,
           isIncrement' = isIncrement, told' = told, placed' = placed
    PROVE  /\ \A a : Kept(a, told[a]) => Kept(a, told[a])'
           /\ \A a \in MountAxes : CountKept(a) => CountKept(a)'
           /\ AllKept => AllKept'
           /\ ValuesKept => ValuesKept'
           /\ \A c : OthersKept(c) => OthersKept(c)'
<1>1. \A a : Kept(a, told[a]) => Kept(a, told[a])'
  BY DEF Kept, Agreed
<1>2. \A a \in MountAxes : CountKept(a) => CountKept(a)'
  BY DEF SameCount, CountKept, LiesAt, CountAt, Offset0, Word32, Word24
<1>3. ValuesKept => ValuesKept'
  BY DEF ValuesKept
<1>. QED BY <1>1, <1>2, <1>3 DEF AllKept, OthersKept

\* A counter that is not touched is as it was.
LEMMA Untouched == regs' = regs /\ held' = held => \A a \in MountAxes : SameCount(a)
BY DEF SameCount

\* The gateway asks ASCOMInterface for a call, and nothing else happens.
LEMMA AsksDo ==
    ASSUME ShapeOK, RecordsOK, NEW script, NEW want, Asks(script, want)
    PROVE  /\ up /\ up' = up /\ "handset" \in use.ops /\ use' = use
           /\ todo["ASCOM"] = <<>> /\ todo'["ASCOM"] = script /\ answer'["ASCOM"] = 1
           /\ todo'["SkyTracker"] = todo["SkyTracker"] /\ todo'["Focuser"] = todo["Focuser"]
           /\ m_params' = m_params /\ regs' = regs /\ held' = held
<1>1. "ASCOM" \in Drivers /\ "SkyTracker" \in Drivers /\ "Focuser" \in Drivers
  BY DEF Drivers
<1>. QED BY <1>1 DEF Asks, Enter, Idle, hardware, motion, ShapeOK, RecordsOK

\* Calls by which the gateway starts leave alone what is kept.
LEMMA StartCallsSpare == \A step \in Starting : Spares(StartCall(step), Fields)
<1>. SUFFICES ASSUME NEW step \in Starting PROVE Spares(StartCall(step), Fields)
  OBVIOUS
<1>1. "count" \notin Fields /\ "init" \notin Fields /\ "answer" \notin Fields
  BY DEF Fields
<1>2. /\ \A a : Spares(SwpCmdInitialize(a), Fields)
      /\ \A a, v : Spares(set_current_position(a, v), Fields)
  BY <1>1, SparesInitialize, SparesMotions
<1>3. Spares(<<Get(1, "steps")>>, Fields)
  <2>1. \A e \in Fields : ~Does(Get(1, "steps"), e)
    BY <1>1 DEF Does, Get
  <2>. QED BY <2>1, SparesStep
<1>4. CASE step \in {"start 1", "start 2"}
  BY <1>2, <1>4 DEF StartCall
<1>5. CASE step = "start 3"
  BY <1>3, <1>5 DEF StartCall
<1>6. CASE step \in {"start 4", "start 5"}
  BY <1>2, <1>6 DEF StartCall
<1>. QED BY <1>4, <1>5, <1>6 DEF Starting

\* The gateway starts.
LEMMA StartUpAlone ==
    ASSUME TypesInv, RecordsOK, AloneOnly, StartUp
    PROVE  AloneOnly'
<1>1. /\ pc \in Starting /\ cmd' = [cmd EXCEPT !.letter = "busy"]
      /\ Asks(StartCall(pc), NoWant)
      /\ toGateway' = toGateway /\ toHandset' = toHandset /\ pc' = pc
      /\ isSlew' = isSlew /\ isIncrement' = isIncrement /\ rev' = rev
      /\ asked' = asked /\ told' = told /\ placed' = placed
  BY DEF StartUp, link, locals
<1>2. /\ up /\ up' = up
      /\ todo'["ASCOM"] = StartCall(pc)
      /\ todo'["SkyTracker"] = todo["SkyTracker"] /\ todo'["Focuser"] = todo["Focuser"]
      /\ m_params' = m_params /\ regs' = regs /\ held' = held
  BY <1>1, AsksDo DEF TypesInv
<1>3. Waits
  BY <1>1 DEF AloneOnly, Conversation, Works, Replied, Unanswered, Starting
<1>4. AllKept' /\ ValuesKept'
  BY <1>1, <1>2, <1>3, KeptStays, Untouched DEF AloneOnly, Waits
<1>5. Waits'
  BY <1>1, <1>3, <1>4 DEF Waits
<1>6. OnlyOne'
  BY <1>2 DEF AloneOnly, OnlyOne, Idle
<1>7. StartsUp'
  <2>1. Spares(todo'["ASCOM"], Fields)
    BY <1>1, <1>2, StartCallsSpare
  <2>2. pc = "start 3" => todo'["ASCOM"] = <<Get(1, "steps")>>
    BY <1>2 DEF StartCall
  <2>3. /\ \A a \in MountAxes : placed[a] = -1
        /\ pc \notin {"start 1", "start 2", "start 3"} => rev = Steps
    BY <1>1 DEF AloneOnly, StartsUp
  <2>. QED BY <1>1, <2>1, <2>2, <2>3 DEF StartsUp, Starting
<1>. QED BY <1>4, <1>5, <1>6, <1>7 DEF AloneOnly, Conversation

\* A step of its start is done.
LEMMA StartedUpAlone ==
    ASSUME TypesInv, RecordsOK, AloneOnly, StartedUp
    PROVE  AloneOnly'
<1>1. /\ pc \in Starting /\ cmd.letter = "busy" /\ todo["ASCOM"] = <<>>
      /\ rev' = IF pc = "start 3" THEN answer["ASCOM"] ELSE rev
      /\ pc' = After(pc) /\ cmd' = Nothing
      /\ toGateway' = toGateway /\ toHandset' = toHandset
      /\ isSlew' = isSlew /\ isIncrement' = isIncrement
      /\ asked' = asked /\ told' = told /\ placed' = placed
      /\ todo' = todo /\ answer' = answer /\ m_params' = m_params /\ regs' = regs /\ up' = up
      /\ held' = held
  BY DEF StartedUp, link, vars, hardware, motion, Idle
<1>2. up
  BY <1>1 DEF AloneOnly, OnlyOne
<1>3. Waits
  BY <1>1 DEF AloneOnly, Conversation, Works, Replied, Unanswered, Starting
<1>4. AllKept' /\ ValuesKept'
  BY <1>1, <1>3, KeptStays, Untouched DEF AloneOnly, Waits
<1>5. /\ pc' \in Starting \cup {"read"} /\ pc' # "start 1"
      /\ pc = "start 1" => pc' = "start 2"
      /\ pc = "start 2" => pc' = "start 3"
  BY <1>1 DEF After, Starting
<1>6. Waits'
  BY <1>1, <1>3, <1>4, <1>5 DEF Waits
<1>7. OnlyOne'
  BY <1>1, <1>2 DEF AloneOnly, OnlyOne, Idle
<1>8. StartsUp'
  <2>1. /\ Spares(todo["ASCOM"], Fields) /\ \A a \in MountAxes : placed[a] = -1
        /\ pc = "start 3" => \/ todo["ASCOM"] = <<Get(1, "steps")>>
                             \/ answer["ASCOM"] = Steps
        /\ pc \notin {"start 1", "start 2", "start 3"} => rev = Steps
    BY <1>1 DEF AloneOnly, StartsUp
  <2>2. pc = "start 3" => rev' = Steps
    <3>1. <<Get(1, "steps")>> # <<>>
      BY NotEmpty
    <3>. QED BY <1>1, <2>1, <3>1
  <2>3. pc' \notin {"start 1", "start 2", "start 3"} => rev' = Steps
    BY <1>1, <1>5, <2>1, <2>2
  <2>4. cmd'.letter # "busy"
    BY <1>1 DEF Nothing
  <2>. QED BY <1>1, <1>5, <2>1, <2>3, <2>4 DEF StartsUp, Idle
<1>. QED BY <1>4, <1>6, <1>7, <1>8 DEF AloneOnly, Conversation

-----------------------------------------------------------------------------
\* What the gateway calls for a command, in terms of what it is to do.
LEMMA CallsSpare ==
    ASSUME NEW c \in Known
    PROVE  /\ c.letter \in {"f", "a", "K", "L", "J"} =>
                Spares(CallOf(c), Fields \cup {"count"})
           /\ c.letter = "F" => Spares(CallOf(c), Fields \cup {"answer"})
<1>1. "count" \notin Fields /\ "init" \notin Fields /\ "answer" \notin Fields
  BY DEF Fields
<1>. DEFINE F == Fields \cup {"count"}
<1>2. "answer" \notin F
  BY <1>1
<1>. HIDE DEF F
<1>3. /\ \A a : Spares(<<ReadStatus(a)>>, F)
      /\ \A a : Spares(<<Get(a, "steps")>>, F)
      /\ \A a : Spares(<<ReadStop(a)>>, F)
      /\ \A a : Spares(<<Start(a)>>, F)
      /\ \A a, g : Spares(<<Send(a, g)>>, F)
  <2>1. \A a, g, e : e # "answer" =>
          /\ ~Does(ReadStatus(a), e) /\ ~Does(Get(a, "steps"), e) /\ ~Does(ReadStop(a), e)
          /\ ~Does(Start(a), e) /\ ~Does(Send(a, g), e)
    BY DEF Does, ReadStatus, Get, ReadStop, Start, Send
  <2>2. \A x : (\A e \in F : ~Does(x, e)) => Spares(<<x>>, F)
    BY SparesStep
  <2>. QED BY <1>2, <2>1, <2>2
<1>4. CASE c.letter = "f"
  BY <1>3, <1>4 DEF CallOf, F
<1>5. CASE c.letter = "a"
  BY <1>3, <1>5 DEF CallOf, F
<1>6. CASE c.letter \in {"K", "L"}
  BY <1>3, <1>6 DEF CallOf, F
<1>7. CASE c.letter = "J"
  BY <1>3, <1>7 DEF CallOf, F
<1>8. CASE c.letter = "F"
  <2>1. Spares(SwpCmdInitialize(c.axis), Fields \cup {"answer"})
    BY <1>1, SparesInitialize
  <2>2. CallOf(c) = SwpCmdInitialize(c.axis)
    BY <1>8 DEF CallOf
  <2>. QED BY <1>8, <2>1, <2>2
<1>. QED BY <1>4, <1>5, <1>6, <1>7, <1>8

\* The gateway begins with a command.
LEMMA DoingBegins ==
    ASSUME ValuesKept, AllKept, NEW c \in Known, c.letter \notin {"P", "s"},
           rev = Steps, rev' = rev, pc' = "call",
           todo'["ASCOM"] = CallOf(c), answer'["ASCOM"] = 1,
           m_params' = m_params, regs' = regs, held' = held,
           isSlew' = IF c.letter = "G" THEN [isSlew EXCEPT ![c.axis] = SlewOf(c.data)] ELSE isSlew,
           isIncrement' = isIncrement, told' = told, placed' = placed
    PROVE  Doing(c)' /\ OthersKept(c)' /\ ValuesKept'
<1>. DEFINE a == c.axis
            t == told[a]
            s == todo["ASCOM"]
            r == answer["ASCOM"]
<1>1. c.letter \in {"j", "f", "a", "E", "F", "K", "L", "G", "I", "H", "S", "J"}
  BY GatewayAssumption DEF Known
<1>2. a \in MountAxes /\ t \in Tales /\ c.data \in Nat
  BY KnownData DEF Known, ValuesKept
<1>3. Kept(a, t) /\ CountKept(a) /\ \A b \in MountAxes : Kept(b, told[b]) /\ CountKept(b)
  BY <1>2 DEF AllKept
<1>4. ValuesKept'
  BY DEF ValuesKept
<1>5. \A b \in MountAxes \ {a} : isSlew'[b] = isSlew[b]
  BY DEF ValuesKept
<1>6. \A b : CountKept(b) => CountKept(b)'
  BY DEF CountKept, LiesAt, CountAt, Offset0, Word32, Word24
<1>7. \A b \in MountAxes \ {a} : Kept(b, told[b])'
  BY <1>3, <1>5 DEF Kept, Agreed
<1>8. OthersKept(c)'
  BY <1>3, <1>6, <1>7 DEF OthersKept
<1>9. CountKept(a)'
  BY <1>3, <1>6
<1>10. c.letter # "G" => Kept(a, t)'
  BY <1>3 DEF Kept, Agreed
<1>. USE DEF Before, Is, Harmless, AsksCount, PutsCount, Initialises, SetsCycles,
            SetsTarget, Turns, AsksLeast
<1>11. \/ Harmless(c)' \/ AsksCount(c)' \/ PutsCount(c)' \/ Initialises(c)'
       \/ SetsCycles(c)' \/ SetsTarget(c)' \/ Turns(c)' \/ AsksLeast(c)'
       => Doing(c)'
  BY DEF Doing
<1>12. CASE c.letter \in {"f", "a", "K", "L", "J"}
  <2>1. Spares(CallOf(c), Fields \cup {"count"})
    BY <1>12, CallsSpare
  <2>2. Harmless(c)'
    BY <1>9, <1>10, <1>12, <2>1
  <2>. QED BY <1>4, <1>8, <1>11, <2>2
<1>13. CASE c.letter = "j"
  <2>1. CallOf(c) = <<ReadCount(a)>>
    BY <1>13 DEF CallOf
  <2>2. AsksCount(c)'
    BY <1>9, <1>10, <1>13, <2>1
  <2>. QED BY <1>4, <1>8, <1>11, <2>2
<1>14. CASE c.letter = "E"
  <2>1. CallOf(c) = set_current_position(a, CountAt(c.data))
    BY <1>14 DEF CallOf, CountOf, CountAt, Offset, Offset0
  <2>2. set_current_position(a, CountAt(c.data))' = set_current_position(a, CountAt(c.data))
    BY DEF set_current_position, CountAt, Offset0, Word32, Word24
  <2>3. PutsCount(c)'
    BY <1>9, <1>10, <1>14, <2>1, <2>2
  <2>. QED BY <1>4, <1>8, <1>11, <2>3
<1>15. CASE c.letter = "F"
  <2>1. Spares(CallOf(c), Fields \cup {"answer"})
    BY <1>15, CallsSpare
  <2>2. Initialises(c)'
    BY <1>10, <1>15, <2>1
  <2>. QED BY <1>4, <1>8, <1>11, <2>2
<1>16. CASE c.letter = "H"
  <2>1. CallOf(c) = <<Set(a, "ncycles", c.data)>>
    BY <1>16 DEF CallOf
  <2>2. SetsCycles(c)'
    BY <1>9, <1>10, <1>16, <2>1
  <2>. QED BY <1>4, <1>8, <1>11, <2>2
<1>17. CASE c.letter = "S"
  <2>1. Target("ASCOM", c.data) = Larger(c.data, 2)
    BY <1>2 DEF Target, Larger
  <2>2. CallOf(c) = <<Set(a, "target", Target("ASCOM", c.data))>>
    BY <1>17 DEF CallOf
  <2>3. SetsTarget(c)'
    BY <1>9, <1>10, <1>17, <2>1, <2>2
  <2>. QED BY <1>4, <1>8, <1>11, <2>3
<1>18. CASE c.letter = "G"
  <2>1. CallOf(c) = <<Set(a, Forward(SlewOf(c.data)), ForwardOf(c.data))>>
    BY <1>18 DEF CallOf
  <2>2. isSlew'[a] = SlewOf(c.data)
    BY <1>2, <1>18 DEF ValuesKept
  <2>3. Agreed(m_params[a], t, t.slew, isIncrement[a])
    BY <1>3 DEF Kept, Agreed
  <2>4. Agreed(m_params[a], t, t.slew, isIncrement[a])'
    BY <2>3
  <2>5. Turns(c)'
    BY <1>9, <1>18, <2>1, <2>2, <2>4
  <2>. QED BY <1>4, <1>8, <1>11, <2>5
<1>19. CASE c.letter = "I"
  <2>1. CallOf(c) = <<Get(a, "min")>>
    BY <1>19 DEF CallOf
  <2>2. AsksLeast(c)'
    BY <1>9, <1>10, <1>19, <2>1
  <2>. QED BY <1>4, <1>8, <1>11, <2>2
<1>. QED BY <1>1, <1>12, <1>13, <1>14, <1>15, <1>16, <1>17, <1>18, <1>19

\* Between two commands, the handset and the gateway wait for each other.
LEMMA ReadyToRead ==
    ASSUME LinkOK, AloneOnly, pc = "read", toGateway # <<>>
    PROVE  AllKept /\ asked \in Known /\ toGateway = <<asked>> /\ toHandset = <<>>
<1>1. Waits
  BY DEF AloneOnly, Conversation, Works, Replied, Unanswered
<1>. QED BY <1>1 DEF Waits, LinkOK

\* The gateway reads a command, and obeys it.
LEMMA ReadAlone ==
    ASSUME TypesInv, RecordsOK, LinkOK, AloneOnly, Read
    PROVE  AloneOnly'
<1>1. /\ pc = "read" /\ toGateway # <<>> /\ Obey(Head(toGateway))
      /\ \E n \in 1..Len(toGateway) : toGateway' = SubSeq(toGateway, n + 1, Len(toGateway))
      /\ isIncrement' = isIncrement /\ rev' = rev
      /\ asked' = asked /\ told' = told /\ placed' = placed
  BY DEF Read
<1>2. AllKept /\ asked \in Known /\ toGateway = <<asked>> /\ toHandset = <<>>
  BY <1>1, ReadyToRead
<1>3. PICK c \in Known : c = asked
  BY <1>2
<1>4. Head(toGateway) = c
  BY <1>2, <1>3
<1>5. toGateway' = <<>>
  <2>1. Len(toGateway) = 1
    BY <1>2
  <2>2. toGateway' = SubSeq(toGateway, 2, 1)
    BY <1>1, <2>1
  <2>3. SubSeq(toGateway, 2, 1) = <<>>
    BY <1>2
  <2>. QED BY <2>2, <2>3
<1>6. up /\ rev = Steps /\ ValuesKept
  BY <1>1 DEF AloneOnly, OnlyOne, StartsUp
<1>7. CASE /\ c.letter \notin {"P", "s"}
           /\ Asks(CallOf(c), IF c.letter = "J" THEN ToldWant(c.axis) ELSE NoWant)
           /\ cmd' = c /\ pc' = "call"
           /\ isSlew' = IF c.letter = "G" THEN [isSlew EXCEPT ![c.axis] = SlewOf(c.data)]
                        ELSE isSlew
           /\ toHandset' = toHandset
  <2>1. /\ up' = up
        /\ todo'["ASCOM"] = CallOf(c) /\ answer'["ASCOM"] = 1
        /\ todo'["SkyTracker"] = todo["SkyTracker"] /\ todo'["Focuser"] = todo["Focuser"]
        /\ m_params' = m_params /\ regs' = regs /\ held' = held
    BY <1>7, AsksDo DEF TypesInv
  <2>2. Doing(c)' /\ OthersKept(c)' /\ ValuesKept'
    BY <1>1, <1>2, <1>6, <1>7, <2>1, DoingBegins
  <2>3. asked' = c
    BY <1>1, <1>3
  <2>4. Works'
    BY <1>2, <1>5, <1>7, <2>2, <2>3 DEF Works
  <2>5. OnlyOne'
    BY <1>6, <2>1 DEF AloneOnly, OnlyOne, Idle
  <2>6. StartsUp'
    BY <1>1, <1>6, <1>7 DEF StartsUp, Starting
  <2>. QED BY <2>2, <2>4, <2>5, <2>6 DEF AloneOnly, Conversation
<1>8. CASE /\ c.letter \in {"P", "s"}
           /\ toHandset' = IF c.letter = "P" THEN Append(toHandset, [ok |-> TRUE, data |-> 0])
                           ELSE toHandset
           /\ UNCHANGED <<vars, cmd, pc, isSlew>>
  <2>1. /\ todo' = todo /\ m_params' = m_params /\ regs' = regs /\ up' = up
        /\ pc' = pc /\ isSlew' = isSlew /\ held' = held
    BY <1>8 DEF vars, hardware, motion
  <2>2. AllKept' /\ ValuesKept'
    BY <1>1, <1>2, <1>6, <2>1, KeptStays, Untouched
  <2>3. OnlyOne'
    BY <2>1, <1>6 DEF AloneOnly, OnlyOne, Idle
  <2>4. StartsUp'
    BY <1>1, <1>6, <2>1 DEF AloneOnly, StartsUp, Starting, Idle
  <2>5. OthersKept(asked)'
    BY <2>2 DEF AllKept, OthersKept
  <2>6. CASE c.letter = "s"
    <3>1. Unanswered'
      BY <1>1, <1>2, <1>3, <1>5, <1>8, <2>1, <2>2, <2>6 DEF Unanswered
    <3>. QED BY <2>2, <2>3, <2>4, <3>1 DEF AloneOnly, Conversation
  <2>7. CASE c.letter = "P"
    <3>1. toHandset' = <<[ok |-> TRUE, data |-> 0]>>
      BY <1>2, <1>8, <2>7
    <3>2. c.axis \in MountAxes /\ told[c.axis] \in Tales
      BY <1>6 DEF Known, ValuesKept
    <3>3. Tells(told[c.axis], c) = told[c.axis]
      BY <2>7, <3>2, TellsMore
    <3>4. Kept(c.axis, Tells(told[c.axis], c))' /\ CountKept(c.axis)'
      <4>1. Kept(c.axis, told[c.axis])' /\ CountKept(c.axis)'
        BY <2>2, <3>2 DEF AllKept
      <4>2. Tells(told[c.axis], c)' = told'[c.axis]
        BY <1>1, <3>3
      <4>. QED BY <4>1, <4>2
    <3>5. CountAfter(c, TRUE)'
      BY <2>7, <3>4 DEF CountAfter
    <3>6. asked' = c
      BY <1>1, <1>3
    <3>7. Replied'
      BY <1>1, <1>5, <2>1, <2>5, <2>7, <3>1, <3>4, <3>5, <3>6 DEF Replied
    <3>. QED BY <2>2, <2>3, <2>4, <3>7 DEF AloneOnly, Conversation
  <2>. QED BY <1>8, <2>6, <2>7
<1>. QED BY <1>1, <1>4, <1>7, <1>8 DEF Obey

-----------------------------------------------------------------------------
\* Where its call is over, what a command was to change is changed; 'I' has
\* first been told the least period.
LEMMA DoingDone ==
    ASSUME ValuesKept, NEW c \in Known, Doing(c), todo["ASCOM"] = <<>>
    PROVE  /\ pc = "call" /\ c.letter = "I" =>
                /\ answer["ASCOM"] = MinPeriod
                /\ Kept(c.axis, told[c.axis]) /\ CountKept(c.axis)
           /\ pc = "set" \/ c.letter # "I" => Changed(c, answer["ASCOM"])
<1>. DEFINE a == c.axis
            t == told[a]
            s == todo["ASCOM"]
            r == answer["ASCOM"]
<1>. USE DEF Before, Is, Harmless, Initialises, KnowsLeast, HandsOn, CallOver
<1>1. \A x : <<x>> # <<>>
  BY NotEmpty
<1>2. \A b, v : set_current_position(b, v) # <<>>
  BY <1>1 DEF set_current_position
<1>3. Harmless(c) \/ Initialises(c) \/ KnowsLeast(c) \/ HandsOn(c) \/ CallOver(c)
  BY <1>1, <1>2 DEF Doing, AsksCount, PutsCount, SetsCycles, SetsTarget, Turns, AsksLeast,
     NamesPeriod
<1>4. a \in MountAxes /\ t \in Tales
  BY DEF Known, ValuesKept
<1>5. c.letter \in {"f", "a", "K", "L", "J", "F"} => Tells(t, c) = t
  BY <1>4, TellsMore
<1>6. CASE Harmless(c)
  <2>1. Agreed(m_params[a], Tells(t, c), isSlew[a], IncrementAfter(c))
    BY <1>5, <1>6 DEF Kept, IncrementAfter
  <2>2. CountAfter(c, Done(c, r))
    BY <1>6 DEF CountAfter
  <2>3. Changed(c, r)
    BY <1>6, <2>1, <2>2 DEF Changed
  <2>. QED BY <1>6, <2>3
<1>7. CASE Initialises(c)
  <2>1. Agreed(m_params[a], Tells(t, c), isSlew[a], IncrementAfter(c))
    BY <1>5, <1>7 DEF Kept, IncrementAfter
  <2>2. CountAfter(c, Done(c, r))
    BY <1>7 DEF CountAfter, Done
  <2>3. Changed(c, r)
    BY <1>7, <2>1, <2>2 DEF Changed
  <2>. QED BY <1>7, <2>3
<1>8. CASE KnowsLeast(c)
  BY <1>8
<1>9. CASE HandsOn(c)
  BY <1>9
<1>10. CASE CallOver(c)
  BY <1>10
<1>. QED BY <1>3, <1>6, <1>7, <1>8, <1>9, <1>10

\* The command under way is the handset's.
LEMMA WorkingOn ==
    ASSUME AloneOnly, pc \in {"call", "set"}
    PROVE  Works /\ rev = Steps /\ up /\ ValuesKept
<1>1. Works
  BY DEF AloneOnly, Conversation, Waits, Replied, Unanswered, Starting
<1>. QED BY <1>1 DEF AloneOnly, OnlyOne, StartsUp

\* 'I' has read the least period, and sets one.
LEMMA SetsPeriodAlone ==
    ASSUME TypesInv, RecordsOK, AloneOnly, SetsPeriod
    PROVE  AloneOnly'
<1>1. /\ pc = "call" /\ cmd.letter = "I" /\ todo["ASCOM"] = <<>>
      /\ Asks(<<Set(cmd.axis, Period(isSlew[cmd.axis]),
                    Larger(TicksOf(cmd.data), answer["ASCOM"]))>>, NoWant)
      /\ pc' = "set" /\ cmd' = cmd
      /\ toGateway' = toGateway /\ toHandset' = toHandset
      /\ isSlew' = isSlew /\ isIncrement' = isIncrement /\ rev' = rev
      /\ asked' = asked /\ told' = told /\ placed' = placed
  BY DEF SetsPeriod, link, locals, Idle
<1>2. Works /\ rev = Steps /\ up /\ ValuesKept
  BY <1>1, WorkingOn
<1>3. PICK c \in Known : c = asked
  BY <1>2 DEF Works
<1>4. cmd = c /\ c.letter = "I" /\ OthersKept(c) /\ Doing(c)
  BY <1>1, <1>2, <1>3 DEF Works
<1>. DEFINE a == c.axis
            t == told[a]
<1>5. answer["ASCOM"] = MinPeriod /\ Kept(a, t) /\ CountKept(a)
  BY <1>1, <1>2, <1>4, DoingDone
<1>6. isSlew[a] = t.slew
  BY <1>5 DEF Kept, Agreed
<1>7. /\ up' = up
      /\ todo'["ASCOM"] = <<Set(a, Period(t.slew), Larger(TicksOf(c.data), MinPeriod))>>
      /\ answer'["ASCOM"] = 1
      /\ todo'["SkyTracker"] = todo["SkyTracker"] /\ todo'["Focuser"] = todo["Focuser"]
      /\ m_params' = m_params /\ regs' = regs /\ held' = held
  <2>. DEFINE script == <<Set(cmd.axis, Period(isSlew[cmd.axis]),
                              Larger(TicksOf(cmd.data), answer["ASCOM"]))>>
  <2>1. script = <<Set(a, Period(t.slew), Larger(TicksOf(c.data), MinPeriod))>>
    BY <1>4, <1>5, <1>6
  <2>2. Asks(script, NoWant)
    BY <1>1
  <2>. HIDE DEF script
  <2>3. /\ up' = up
        /\ todo'["ASCOM"] = script
        /\ answer'["ASCOM"] = 1
        /\ todo'["SkyTracker"] = todo["SkyTracker"] /\ todo'["Focuser"] = todo["Focuser"]
        /\ m_params' = m_params /\ regs' = regs /\ held' = held
    BY <2>2, AsksDo DEF TypesInv
  <2>. QED BY <2>1, <2>3
<1>8. Kept(a, t)' /\ CountKept(a)' /\ OthersKept(c)' /\ ValuesKept'
  <2>1. a \in MountAxes
    BY DEF Known
  <2>. QED BY <1>1, <1>2, <1>4, <1>5, <1>7, <2>1, KeptStays, Untouched
<1>9. Doing(c)'
  <2>1. /\ pc' = "set" /\ c.letter = "I"
        /\ Kept(a, t)' /\ CountKept(a)' /\ answer'["ASCOM"] = 1
        /\ todo'["ASCOM"] = <<Set(a, Period(t'.slew), Larger(TicksOf(c.data), MinPeriod))>>
    BY <1>1, <1>4, <1>7, <1>8
  <2>. QED BY <2>1 DEF Doing, NamesPeriod, Before
<1>10. Works'
  <2>1. asked' = c /\ cmd' = c
    BY <1>1, <1>3, <1>4
  <2>. QED BY <1>1, <1>2, <1>3, <1>8, <1>9, <2>1 DEF Works
<1>11. OnlyOne'
  BY <1>2, <1>7 DEF AloneOnly, OnlyOne, Idle
<1>12. StartsUp'
  BY <1>1, <1>2 DEF StartsUp, Starting
<1>. QED BY <1>8, <1>10, <1>11, <1>12 DEF AloneOnly, Conversation

\* The gateway answers a command whose call is over.
LEMMA AnswersAlone ==
    ASSUME TypesInv, RecordsOK, AloneOnly, Answers
    PROVE  AloneOnly'
<1>. DEFINE r == answer["ASCOM"]
<1>1. /\ pc = "set" \/ (pc = "call" /\ cmd.letter # "I")
      /\ todo["ASCOM"] = <<>>
      /\ toHandset' = toHandset \o Reply(cmd, r)
      /\ isIncrement' = IF cmd.letter \in {"H", "S"} /\ r = 1
                        THEN [isIncrement EXCEPT ![cmd.axis] = IF cmd.letter = "S" THEN 1 ELSE 0]
                        ELSE isIncrement
      /\ pc' = "read" /\ cmd' = Nothing
      /\ toGateway' = toGateway /\ isSlew' = isSlew /\ rev' = rev
      /\ asked' = asked /\ told' = told /\ placed' = placed
      /\ todo' = todo /\ m_params' = m_params /\ regs' = regs /\ up' = up
      /\ held' = held
  BY DEF Answers, Idle, vars, hardware, motion
<1>2. Works /\ rev = Steps /\ up /\ ValuesKept
  BY <1>1, WorkingOn
<1>3. PICK c \in Known : c = asked
  BY <1>2 DEF Works
<1>4. /\ cmd = c /\ OthersKept(c) /\ Doing(c) /\ c.letter \notin {"P", "s"}
      /\ toHandset = <<>> /\ toGateway = <<>>
  BY <1>2, <1>3 DEF Works
<1>. DEFINE a == c.axis
<1>5. Changed(c, r)
  BY <1>1, <1>2, <1>4, DoingDone
<1>6. a \in MountAxes /\ DOMAIN isIncrement = MountAxes
  BY <1>2 DEF Known, ValuesKept
<1>7. PICK ok, n :
        /\ ok \in BOOLEAN /\ ok = Done(c, r)
        /\ n = IF c.letter = "j" THEN Shown(r) ELSE 0
  BY DEF Done
<1>8. toHandset' = <<[ok |-> ok, data |-> n]>>
  <2>1. /\ c.letter = "j" => ok = TRUE
        /\ c.letter # "j" => ok = (c.letter \in {"a", "f"} \/ r = 1)
    BY <1>4, <1>7 DEF Done
  <2>2. Reply(c, r) = <<[ok |-> ok, data |-> n]>>
    BY <1>7, <2>1 DEF Reply
  <2>. QED BY <1>1, <1>4, <2>2
<1>9. /\ \A b \in MountAxes \ {a} : isIncrement'[b] = isIncrement[b]
      /\ ok => isIncrement'[a] = IncrementAfter(c)
      /\ ~ok => isIncrement'[a] = isIncrement[a]
      /\ DOMAIN isIncrement' = MountAxes
  BY <1>1, <1>4, <1>6, <1>7 DEF IncrementAfter, Done
<1>10. \A b : CountKept(b) => CountKept(b)'
  BY <1>1 DEF CountKept, LiesAt, CountAt, Offset0, Word32, Word24
<1>11. OthersKept(c)'
  <2>1. \A b \in MountAxes \ {a} : Kept(b, told[b]) => Kept(b, told[b])'
    BY <1>1, <1>9 DEF Kept, Agreed
  <2>. QED BY <1>4, <1>10, <2>1 DEF OthersKept
<1>12. Kept(a, IF ok THEN Tells(told[a], c) ELSE told[a])'
  <2>1. CASE ok
    <3>1. Agreed(m_params[a], Tells(told[a], c), isSlew[a], IncrementAfter(c))
      BY <1>5, <1>7, <2>1 DEF Changed
    <3>2. Agreed(m_params'[a], Tells(told'[a], c), isSlew'[a], isIncrement'[a])
      BY <1>1, <1>9, <2>1, <3>1
    <3>. QED BY <2>1, <3>2 DEF Kept
  <2>2. CASE ~ok
    <3>1. Agreed(m_params[a], told[a], isSlew[a], isIncrement[a])
      BY <1>5, <1>7, <2>2 DEF Changed, Kept
    <3>2. Agreed(m_params'[a], told'[a], isSlew'[a], isIncrement'[a])
      BY <1>1, <1>9, <2>2, <3>1
    <3>. QED BY <2>2, <3>2 DEF Kept
  <2>. QED BY <1>7, <2>1, <2>2
<1>13. CountAfter(c, ok)'
  <2>1. CountAfter(c, ok)
    BY <1>5, <1>7 DEF Changed
  <2>2. \A p : (a \in held => LiesAt(regs[a].count, p)) => (a \in held => LiesAt(regs[a].count, p))'
    BY <1>1 DEF LiesAt, CountAt, Offset0, Word32, Word24
  <2>. QED BY <1>10, <2>1, <2>2 DEF CountAfter
<1>14. c.letter = "j" /\ a \in held' => n = Shown(regs[a].count)'
  <2>1. c.letter = "j" /\ a \in held => n = Shown(regs[a].count)
    BY <1>5, <1>7 DEF Changed
  <2>. QED BY <1>1, <2>1 DEF Shown, Offset, Word32, Word24
<1>15. Replied'
  <2>1. asked' = c
    BY <1>1, <1>3
  <2>. QED BY <1>1, <1>4, <1>7, <1>8, <1>11, <1>12, <1>13, <1>14, <2>1 DEF Replied
<1>16. OnlyOne'
  BY <1>1, <1>2 DEF AloneOnly, OnlyOne, Idle
<1>17. StartsUp'
  BY <1>1, <1>2 DEF StartsUp, Starting, Idle
<1>18. ValuesKept'
  BY <1>1, <1>2, <1>9 DEF ValuesKept
<1>. QED BY <1>15, <1>16, <1>17, <1>18 DEF AloneOnly, Conversation

-----------------------------------------------------------------------------
\* The handset asks.
LEMMA AskAlone ==
    ASSUME AloneOnly, NEW c \in Known, Ask(c)
    PROVE  AloneOnly'
<1>1. /\ asked = Nothing /\ asked' = c /\ toGateway' = Append(toGateway, c)
      /\ toHandset' = toHandset /\ pc' = pc /\ cmd' = cmd
      /\ isSlew' = isSlew /\ isIncrement' = isIncrement /\ rev' = rev
      /\ told' = told /\ placed' = placed
      /\ todo' = todo /\ answer' = answer /\ m_params' = m_params /\ regs' = regs /\ up' = up
      /\ held' = held
  BY DEF Ask, vars, hardware, motion, locals
<1>2. Nothing \notin Known
  BY GatewayAssumption DEF Known, Nothing
<1>3. Waits
  BY <1>1, <1>2 DEF AloneOnly, Conversation, Works, Replied, Unanswered
<1>4. AllKept' /\ ValuesKept'
  BY <1>1, <1>3, KeptStays, Untouched DEF AloneOnly, Waits
<1>5. toGateway' = <<c>>
  BY <1>1, <1>3 DEF Waits
<1>6. Waits'
  BY <1>1, <1>2, <1>3, <1>4, <1>5 DEF Waits
<1>7. OnlyOne'
  BY <1>1 DEF AloneOnly, OnlyOne, Idle
<1>8. StartsUp'
  BY <1>1 DEF AloneOnly, StartsUp, Starting, Idle
<1>. QED BY <1>4, <1>6, <1>7, <1>8 DEF AloneOnly, Conversation

\* The handset takes an answer.
LEMMA ReceiveAlone ==
    ASSUME AloneOnly, Receive
    PROVE  AloneOnly'
<1>1. /\ toHandset # <<>> /\ toHandset' = Tail(toHandset) /\ asked' = Nothing
      /\ IF Head(toHandset).ok /\ asked # Nothing
         THEN /\ told' = [told EXCEPT ![asked.axis] = Tells(told[asked.axis], asked)]
              /\ placed' = Places(asked)
         ELSE told' = told /\ placed' = placed
      /\ toGateway' = toGateway /\ pc' = pc /\ cmd' = cmd
      /\ isSlew' = isSlew /\ isIncrement' = isIncrement /\ rev' = rev
      /\ todo' = todo /\ answer' = answer /\ m_params' = m_params /\ regs' = regs /\ up' = up
      /\ held' = held
  BY DEF Receive, vars, hardware, motion, locals
<1>2. Nothing \notin Known
  BY GatewayAssumption DEF Known, Nothing
<1>3. Replied
  BY <1>1 DEF AloneOnly, Conversation, Waits, Works, Unanswered
<1>4. PICK c \in Known : c = asked /\ c # Nothing
  BY <1>2, <1>3 DEF Replied
<1>. DEFINE a == c.axis
            t == told[a]
<1>. PICK ok \in BOOLEAN :
       \E n : /\ toHandset = <<[ok |-> ok, data |-> n]>>
              /\ Kept(a, IF ok THEN Tells(t, c) ELSE t)
              /\ CountAfter(c, ok)
  BY <1>3, <1>4 DEF Replied
<1>5. PICK n :
        /\ toHandset = <<[ok |-> ok, data |-> n]>>
        /\ Kept(a, IF ok THEN Tells(t, c) ELSE t)
        /\ CountAfter(c, ok)
  OBVIOUS
<1>6. pc = "read" /\ toGateway = <<>> /\ OthersKept(c)
  BY <1>3, <1>4 DEF Replied
<1>7. ValuesKept /\ a \in MountAxes /\ t \in Tales
  BY DEF AloneOnly, ValuesKept, Known
<1>8. Head(toHandset).ok = ok /\ toHandset' = <<>>
  BY <1>1, <1>5
<1>9. Tells(t, c) \in Tales
  BY <1>7, TellsMore
<1>10. /\ told' \in [MountAxes -> Tales] /\ DOMAIN placed' = MountAxes
       /\ told'[a] = IF ok THEN Tells(t, c) ELSE t
       /\ \A b \in MountAxes \ {a} : told'[b] = told[b]
  BY <1>1, <1>4, <1>7, <1>8, <1>9 DEF ValuesKept, Places
<1>11. /\ ok => \A b \in MountAxes :
                  placed'[b] = IF c.letter = "F" THEN -1
                               ELSE IF c.letter = "E" /\ b = c.axis THEN c.data
                               ELSE placed[b]
       /\ ~ok => placed' = placed
  BY <1>1, <1>4, <1>8 DEF Places
<1>12. \A b \in MountAxes : Kept(b, told[b])'
  <2>1. Kept(a, told[a])'
    BY <1>1, <1>5, <1>10 DEF Kept, Agreed
  <2>2. \A b \in MountAxes \ {a} : Kept(b, told[b])'
    BY <1>1, <1>6, <1>10 DEF OthersKept, Kept, Agreed
  <2>. QED BY <2>1, <2>2
<1>13. \A b, p : LiesAt(regs[b].count, p) => LiesAt(regs[b].count, p)'
  BY <1>1 DEF LiesAt, CountAt, Offset0, Word32, Word24
<1>14. \A b \in MountAxes : CountKept(b)'
  <2>. SUFFICES ASSUME NEW b \in MountAxes, placed'[b] # -1, b \in held'
                PROVE  LiesAt(regs[b].count, placed[b])'
    BY DEF CountKept
  <2>1. CASE placed'[b] = placed[b] /\ CountKept(b)
    <3>1. LiesAt(regs[b].count, placed[b])
      BY <1>1, <2>1 DEF CountKept
    <3>2. \A p : LiesAt(regs[b].count, p) => LiesAt(regs'[b].count, p)
      BY <1>1
    <3>3. LiesAt(regs'[b].count, placed'[b])
      BY <2>1, <3>1, <3>2
    <3>. QED BY <3>3
  <2>2. CASE ok /\ b = a /\ c.letter = "E"
    <3>1. LiesAt(regs[b].count, c.data)
      BY <1>1, <1>5, <2>2 DEF CountAfter
    <3>2. placed'[b] = c.data
      BY <1>11, <2>2
    <3>. QED BY <1>1, <3>1, <3>2
  <2>3. CASE ok /\ c.letter = "F"
    BY <1>11, <2>3
  <2>4. CASE ok /\ b # a /\ c.letter # "F"
    <3>1. placed'[b] = placed[b]
      BY <1>11, <2>4
    <3>2. CountKept(b)
      BY <1>6, <2>4 DEF OthersKept
    <3>. QED BY <2>1, <3>1, <3>2
  <2>5. CASE ok /\ b = a /\ c.letter \notin {"E", "F"}
    <3>1. placed'[b] = placed[b]
      BY <1>11, <2>5
    <3>2. CountKept(b)
      BY <1>5, <2>5 DEF CountAfter
    <3>. QED BY <2>1, <3>1, <3>2
  <2>6. CASE ~ok
    <3>1. placed'[b] = placed[b]
      BY <1>11, <2>6
    <3>2. c.letter # "F" /\ CountKept(a)
      BY <1>5, <2>6 DEF CountAfter
    <3>3. CountKept(b)
      BY <1>6, <3>2 DEF OthersKept
    <3>. QED BY <2>1, <3>1, <3>3
  <2>. QED BY <2>2, <2>3, <2>4, <2>5, <2>6
<1>15. Waits'
  BY <1>1, <1>6, <1>8, <1>12, <1>14 DEF Waits, AllKept
<1>16. ValuesKept'
  BY <1>1, <1>7, <1>10 DEF ValuesKept
<1>17. OnlyOne'
  BY <1>1 DEF AloneOnly, OnlyOne, Idle
<1>18. StartsUp'
  BY <1>1, <1>6 DEF AloneOnly, StartsUp, Starting, Idle
<1>. QED BY <1>15, <1>16, <1>17, <1>18 DEF AloneOnly, Conversation

\* Nobody changes what clients use.
LEMMA UseStays == ASSUME [GatewayNext]_allVars PROVE use' = use
<1>1. CASE NextDrivers
  <2>1. CASE Restart
    BY <2>1 DEF Restart
  <2>2. ASSUME NEW d \in Drivers, Serve(d) PROVE use' = use
    <3>1. CASE SetParameter(d) \/ GetParameter(d) \/ SendCommand(d) \/ StartTracking(d)
      BY <3>1 DEF SetParameter, GetParameter, SendCommand, StartTracking, Goes, GoesOn, Refuses
    <3>2. CASE StopReads(d) \/ StatusReads(d) \/ Freshly(d) \/ CountReads(d) \/ TypesRead(d)
      BY <3>2 DEF StopReads, StatusReads, Freshly, CountReads, TypesRead, Goes, GoesOn, Refuses
    <3>3. CASE RegisterWritten(d) \/ TrackWritten(d) \/ CommandWritten(d) \/ TypesWritten(d)
      BY <3>3 DEF RegisterWritten, TrackWritten, CommandWritten, TypesWritten, Written, Goes, GoesOn
    <3>4. CASE PositionWritten(d)
      BY <3>4 DEF PositionWritten, Written, Goes, GoesOn, Refuses
    <3>. QED BY <2>2, <3>1, <3>2, <3>3, <3>4 DEF Serve
  <2>3. ASSUME NEW d \in Drivers, NEW a \in Axes, Calls(d, a) PROVE use' = use
    <3>1. \A e, op, script, want : Enter(e, op, script, want) => use' = use
      BY DEF Enter
    <3>2. CASE SetLimits(d, a) \/ SetType(d, a) \/ StopMotion(d, a) \/ Position(d, a)
      BY <3>1, <3>2 DEF SetLimits, SetType, StopMotion, Position
    <3>3. CASE SetPeriod(d, a) \/ SetDirection(d, a) \/ SetGoal(d, a) \/ StartMotion(d, a)
      BY <3>1, <3>3 DEF SetPeriod, SetDirection, SetGoal, StartMotion
    <3>4. CASE GetStatus(a) \/ SwpInitialize(a)
      BY <3>1, <3>4 DEF GetStatus, SwpInitialize
    <3>5. CASE Enter("Focuser", "Initialize", FocuserInitialize, NoWant)
      BY <3>1, <3>5
    <3>6. CASE \E p \in Periods, f \in Bit :
                 FocuserSlewTo(p, f) \/ \E v \in Counts, g \in Bit : FocuserMove(v, p, f, g)
      BY <3>1, <3>6 DEF FocuserSlewTo, FocuserMove
    <3>. QED BY <2>3, <3>2, <3>3, <3>4, <3>5, <3>6 DEF Calls
  <2>4. CASE \E a \in Axes : AxisMoves(a) \/ AxisRests(a)
    BY <2>4 DEF AxisMoves, AxisRests
  <2>. QED BY <1>1, <2>1, <2>2, <2>3, <2>4 DEF NextDrivers
<1>2. \A script, want : Asks(script, want) => use' = use
  BY DEF Asks, Enter
<1>3. \A c : Obey(c) => use' = use
  BY <1>2 DEF Obey, vars
<1>4. CASE StartUp \/ SetsPeriod
  BY <1>2, <1>4 DEF StartUp, SetsPeriod
<1>5. CASE Read \/ ReadCut
  BY <1>3, <1>5 DEF Read, ReadCut, vars
<1>6. CASE StartedUp \/ Answers \/ SendAgain \/ Receive
  BY <1>6 DEF StartedUp, Answers, SendAgain, Receive, vars
<1>7. CASE \E l \in Letters, a \in MountAxes, n \in Data :
             Ask([letter |-> l, axis |-> a, data |-> n])
  BY <1>7 DEF Ask, vars
<1>8. CASE UNCHANGED allVars
  BY <1>8 DEF allVars, vars
<1>. QED BY <1>1, <1>4, <1>5, <1>6, <1>7, <1>8 DEF GatewayNext, GatewayStep

-----------------------------------------------------------------------------
(* The handset, alone or in trouble, and motions that are as told.           *)

GatewayInv == TypesInv /\ LinkOK /\ WantsInv /\ HandInv /\ use \in Uses

\* A count that is no longer what it was set to shows in nothing that is kept.
LEMMA CountAfterSame ==
    ASSUME UNCHANGED gatewayVars, NEW c, c.axis \in MountAxes, NEW ok \in BOOLEAN,
           SameCount(c.axis), CountAfter(c, ok)
    PROVE  CountAfter(c, ok)'
<1>1. CountKept(c.axis) => CountKept(c.axis)'
  BY AxisSame
<1>2. (c.axis \in held => LiesAt(regs[c.axis].count, c.data))
      => (c.axis \in held => LiesAt(regs[c.axis].count, c.data))'
  BY DEF SameCount, LiesAt, CountAt, Offset0, Word32, Word24
<1>. QED BY <1>1, <1>2 DEF CountAfter

\* An axis moves, or rests, or nothing happens.
LEMMA MovesAlone ==
    ASSUME AloneOnly, UNCHANGED gatewayVars, todo' = todo, answer' = answer,
           m_params' = m_params, up' = up, \A a \in MountAxes : SameCount(a)
    PROVE  AloneOnly'
<1>1. /\ toGateway' = toGateway /\ toHandset' = toHandset /\ pc' = pc /\ cmd' = cmd
      /\ isSlew' = isSlew /\ isIncrement' = isIncrement /\ rev' = rev /\ asked' = asked
      /\ told' = told /\ placed' = placed
  BY GatewaySame
<1>2. OnlyOne' /\ StartsUp' /\ ValuesKept'
  BY <1>1 DEF AloneOnly, OnlyOne, StartsUp, ValuesKept, Idle
<1>3. /\ \A a : Kept(a, told[a]) => Kept(a, told[a])'
      /\ \A a \in MountAxes : CountKept(a) => CountKept(a)'
      /\ AllKept => AllKept'
      /\ \A c : OthersKept(c) => OthersKept(c)'
  BY <1>1, KeptStays
<1>4. \A a \in MountAxes : SameFields(a) /\ SameCount(a)
  BY DEF SameFields
<1>5. Waits => Waits'
  BY <1>1, <1>3 DEF Waits
<1>6. Unanswered => Unanswered'
  BY <1>1, <1>3 DEF Unanswered
<1>7. Replied => Replied'
  <2>. SUFFICES ASSUME Replied PROVE Replied'
    OBVIOUS
  <2>1. PICK c \in Known : c = asked
    BY DEF Replied
  <2>. DEFINE a == c.axis
  <2>. PICK ok \in BOOLEAN : \E n :
          /\ toHandset = <<[ok |-> ok, data |-> n]>>
          /\ Kept(a, IF ok THEN Tells(told[a], c) ELSE told[a])
          /\ CountAfter(c, ok)
          /\ c.letter = "j" /\ a \in held => n = Shown(regs[a].count)
    BY <2>1 DEF Replied
  <2>2. PICK n :
          /\ toHandset = <<[ok |-> ok, data |-> n]>>
          /\ Kept(a, IF ok THEN Tells(told[a], c) ELSE told[a])
          /\ CountAfter(c, ok)
          /\ c.letter = "j" /\ a \in held => n = Shown(regs[a].count)
    OBVIOUS
  <2>3. a \in MountAxes
    BY DEF Known
  <2>4. Kept(a, IF ok THEN Tells(told[a], c) ELSE told[a])'
    BY <1>1, <2>2 DEF Kept, Agreed
  <2>5. CountAfter(c, ok)'
    BY <1>4, <2>2, <2>3, CountAfterSame
  <2>6. c.letter = "j" /\ a \in held' => n = Shown(regs[a].count)'
    BY <1>1, <1>4, <2>2, <2>3 DEF SameCount, Shown, Offset, Word32, Word24
  <2>7. OthersKept(asked)' /\ asked' = c
    BY <1>1, <1>3, <2>1 DEF Replied
  <2>8. pc' = "read" /\ toGateway' = <<>> /\ toHandset' = <<[ok |-> ok, data |-> n]>>
    BY <1>1, <2>2 DEF Replied
  <2>. QED BY <2>1, <2>4, <2>5, <2>6, <2>7, <2>8 DEF Replied
<1>8. Works => Works'
  <2>. SUFFICES ASSUME Works PROVE Works'
    OBVIOUS
  <2>1. PICK c \in Known : c = asked /\ Doing(c)
    BY DEF Works
  <2>2. c.axis \in MountAxes
    BY DEF Known
  <2>3. ASSUME NEW r, Changed(c, r) PROVE Changed(c, r)'
    BY <1>4, <2>2, <2>3, ChangedSame
  <2>4. /\ Kept(c.axis, told[c.axis]) => Kept(c.axis, told[c.axis])'
        /\ CountKept(c.axis) => CountKept(c.axis)'
        /\ Before(c) => Before(c)'
    BY <1>3, <2>2 DEF Before
  <2>5. ASSUME HandsOn(c) \/ CallOver(c) PROVE Doing(c)'
    <3>1. HandsOn(c)' \/ CallOver(c)'
      BY <1>1, <2>3, <2>5 DEF HandsOn, CallOver
    <3>. QED BY <3>1 DEF Doing
  <2>6. ASSUME ~HandsOn(c), ~CallOver(c) PROVE Doing(c)'
    <3>1. \/ Harmless(c) \/ AsksCount(c) \/ PutsCount(c) \/ Initialises(c)
          \/ SetsCycles(c) \/ SetsTarget(c) \/ Turns(c) \/ AsksLeast(c)
          \/ KnowsLeast(c) \/ NamesPeriod(c)
      BY <2>1, <2>6 DEF Doing
    <3>2. \/ Harmless(c)' \/ AsksCount(c)' \/ PutsCount(c)' \/ Initialises(c)'
          \/ SetsCycles(c)' \/ SetsTarget(c)' \/ Turns(c)' \/ AsksLeast(c)'
          \/ KnowsLeast(c)' \/ NamesPeriod(c)'
      BY <1>1, <2>4, <3>1 DEF Is, Harmless, AsksCount, PutsCount, Initialises,
         SetsCycles, SetsTarget, Turns, AsksLeast, KnowsLeast, NamesPeriod, Agreed,
         CountAt, Offset0, Word32, Word24, set_current_position
    <3>. QED BY <3>2 DEF Doing
  <2>7. Doing(c)'
    BY <2>5, <2>6
  <2>. QED BY <1>1, <1>3, <2>1, <2>7 DEF Works
<1>. QED BY <1>2, <1>5, <1>6, <1>7, <1>8 DEF AloneOnly, Conversation

\* A handset that is alone stays so.
LEMMA StaysAlone ==
    ASSUME TypesInv, LinkOK, WantsInv, AloneOnly, [GatewayNext]_allVars, ~trouble',
           use.ops \subseteq {"handset", "again", "cut", "miss"}
    PROVE  AloneOnly'
<1>1. RecordsOK
  BY DEF WantsInv
<1>2. CASE NextDrivers /\ UNCHANGED gatewayVars
  <2>1. \/ \E d \in Drivers : Serve(d)
        \/ \E a \in Axes : AxisMoves(a) \/ AxisRests(a)
    BY <1>2, NoOthers DEF NextDrivers
  <2>2. CASE \E d \in Drivers : Serve(d)
    BY <1>1, <1>2, <2>2, ServesAlone
  <2>3. ASSUME NEW a \in Axes, AxisMoves(a) \/ AxisRests(a) PROVE AloneOnly'
    <3>1. /\ todo' = todo /\ answer' = answer /\ m_params' = m_params /\ up' = up
          /\ \/ regs' = regs /\ held' = held
             \/ /\ \E n : regs' = [regs EXCEPT ![a]["count"] = n]
                /\ held' = held \ {a}
      BY <2>3 DEF AxisMoves, AxisRests
    <3>2. \A b \in MountAxes : SameCount(b)
      BY <1>1, <3>1 DEF SameCount, RecordsOK, RegsOK, MountAxes, Axes
    <3>. QED BY <1>2, <3>1, <3>2, MovesAlone
  <2>. QED BY <2>1, <2>2, <2>3
<1>3. CASE StartUp
  BY <1>1, <1>3, StartUpAlone
<1>4. CASE StartedUp
  BY <1>1, <1>4, StartedUpAlone
<1>5. CASE Read
  BY <1>1, <1>5, ReadAlone
<1>6. CASE SetsPeriod
  BY <1>1, <1>6, SetsPeriodAlone
<1>7. CASE Answers
  BY <1>1, <1>7, AnswersAlone
<1>8. CASE ReadCut \/ SendAgain
  BY <1>8 DEF ReadCut, SendAgain
<1>9. CASE Receive
  BY <1>9, ReceiveAlone
<1>10. ASSUME NEW l \in Letters, NEW a \in MountAxes, NEW n \in Data,
              Ask([letter |-> l, axis |-> a, data |-> n])
       PROVE  AloneOnly'
  <2>. DEFINE c == [letter |-> l, axis |-> a, data |-> n]
  <2>1. c \in Known /\ Ask(c)
    BY <1>10 DEF Known
  <2>. HIDE DEF c
  <2>. QED BY <2>1, AskAlone
<1>11. CASE UNCHANGED allVars
  <2>1. /\ todo' = todo /\ answer' = answer /\ m_params' = m_params /\ up' = up
        /\ regs' = regs /\ held' = held /\ UNCHANGED gatewayVars
    BY <1>11 DEF allVars, vars, hardware, motion
  <2>. QED BY <2>1, Untouched, MovesAlone
<1>. QED BY <1>2, <1>3, <1>4, <1>5, <1>6, <1>7, <1>8, <1>9, <1>10, <1>11
         DEF GatewayNext, GatewayStep

\* Where no handset is used, the gateway is told nothing.
LEMMA NobodyAsks ==
    ASSUME "handset" \notin use.ops, asked = Nothing, toGateway = <<>>, [GatewayNext]_allVars
    PROVE  asked' = Nothing /\ toGateway' = <<>>
<1>1. \A script, want : ~Asks(script, want)
  BY DEF Asks, Enter
<1>2. CASE UNCHANGED gatewayVars
  BY <1>2, GatewaySame
<1>3. ~StartUp /\ ~SetsPeriod
  BY <1>1 DEF StartUp, SetsPeriod
<1>4. CASE StartedUp \/ Answers
  BY <1>4 DEF StartedUp, Answers, link
<1>5. ~Read /\ ~ReadCut /\ ~SendAgain
  BY DEF Read, ReadCut, SendAgain
<1>6. CASE Receive
  BY <1>6 DEF Receive
<1>7. \A c : ~Ask(c)
  BY DEF Ask
<1>. QED BY <1>2, <1>3, <1>4, <1>5, <1>6, <1>7 DEF GatewayNext, GatewayStep, allVars

\* No trouble is forgotten.
LEMMA TroubleStays == ASSUME [GatewayNext]_allVars, trouble PROVE trouble'
<1>1. CASE UNCHANGED gatewayVars
  BY <1>1, GatewaySame
<1>2. CASE StartUp \/ StartedUp \/ SetsPeriod \/ Answers
  BY <1>2 DEF StartUp, StartedUp, SetsPeriod, Answers
<1>3. CASE Read \/ ReadCut \/ SendAgain \/ Receive
  BY <1>3 DEF Read, ReadCut, SendAgain, Receive
<1>4. CASE \E l \in Letters, a \in MountAxes, n \in Data :
             Ask([letter |-> l, axis |-> a, data |-> n])
  BY <1>4 DEF Ask
<1>. QED BY <1>1, <1>2, <1>3, <1>4 DEF GatewayNext, GatewayStep, allVars

\* Every step keeps what the handset has told and placed.
LEMMA HandNext ==
    ASSUME HandsetAlone, GatewayInv, [GatewayNext]_allVars
    PROVE  HandInv'
<1>1. use' = use
  BY UseStays
<1>2. CASE "handset" \notin use.ops
  BY <1>1, <1>2, NobodyAsks DEF GatewayInv, HandInv
<1>3. CASE "handset" \in use.ops
  <2>. SUFFICES ASSUME ~trouble' PROVE AloneOnly'
    BY <1>1, <1>3 DEF HandInv, AloneOnly
  <2>1. ~trouble
    BY TroubleStays
  <2>2. AloneOnly
    BY <1>3, <2>1 DEF GatewayInv, HandInv, AloneOnly
  <2>3. use.ops \subseteq {"handset", "again", "cut", "miss"}
    BY <1>3 DEF HandsetAlone, GatewayInv
  <2>. QED BY <2>2, <2>3, StaysAlone DEF GatewayInv
<1>. QED BY <1>2, <1>3

\* What 'J' is to start is what its call starts.
LEMMA ObeysWanted ==
    ASSUME GatewayInv, pc = "read", toGateway # <<>>,
           NEW c, c.letter \in Letters, c.axis \in MountAxes, Obey(c)
    PROVE  WantsInv'
<1>1. CASE UNCHANGED vars
  BY <1>1, DriversWanted DEF GatewayInv, TypesInv
<1>2. ASSUME Asks(CallOf(c), IF c.letter = "J" THEN ToldWant(c.axis) ELSE NoWant)
      PROVE  WantsInv'
  <2>. DEFINE want == IF c.letter = "J" THEN ToldWant(c.axis) ELSE NoWant
              a == c.axis
              t == told[a]
  <2>1. want.kind # "none" => Fits(CallOf(c), want)
    <3>. SUFFICES ASSUME c.letter = "J", ~trouble, want = ToldWant(a)
                  PROVE  Fits(CallOf(c), ToldWant(a))
      BY DEF ToldWant, NoWant
    <3>1. "handset" \in use.ops
      BY DEF GatewayInv, HandInv
    <3>2. AloneOnly
      BY <3>1 DEF GatewayInv, HandInv, AloneOnly
    <3>3. Kept(a, t) /\ t \in Tales
      BY <3>2, ReadyToRead DEF GatewayInv, AllKept, AloneOnly, ValuesKept
    <3>4. a \in Axes /\ t.goto \in Bit /\ t.slew \in Bit
      BY <3>3 DEF MountAxes, Axes, Tales
    <3>5. /\ m_params[a].slew_period = t.period[2] /\ m_params[a].goto_period = t.period[1]
          /\ m_params[a].slew_forward = t.forward[2] /\ m_params[a].goto_forward = t.forward[1]
          /\ m_params[a][Goal(t.goto)] = t.goal /\ isIncrement[a] = t.goto /\ isSlew[a] = t.slew
      BY <3>3 DEF Kept, Agreed
    <3>6. CallOf(c) = IF isSlew[a] = 1 THEN <<Start(a)>> ELSE <<Send(a, isIncrement[a])>>
      BY DEF CallOf, StartKind
    <3>7. CASE t.slew = 1
      <4>1. ToTrack(<<Start(a)>>, a, t.period[2], t.forward[2])
        BY <3>5 DEF ToTrack
      <4>2. ToldWant(a) = WantTrack(a, t.period[2], t.forward[2]) /\ CallOf(c) = <<Start(a)>>
        BY <3>5, <3>6, <3>7 DEF ToldWant
      <4>. QED BY <3>4, <4>1, <4>2 DEF Fits
    <3>8. CASE t.slew # 1
      <4>1. ToCommand(<<Send(a, t.goto)>>, a, t.period[1], t.goal, t.goto, t.forward[1])
        BY <3>5 DEF ToCommand
      <4>2. /\ ToldWant(a) = WantCommand(a, t.period[1], t.goal, t.goto, t.forward[1])
            /\ CallOf(c) = <<Send(a, t.goto)>>
        BY <3>5, <3>6, <3>8 DEF ToldWant
      <4>. QED BY <3>4, <4>1, <4>2 DEF Fits
    <3>. QED BY <3>7, <3>8
  <2>2. Enter("ASCOM", "handset", CallOf(c), want) /\ "ASCOM" \in Drivers
    BY <1>2 DEF Asks, Drivers
  <2>. HIDE DEF want
  <2>3. ShapeOK /\ WantsInv
    BY DEF GatewayInv, TypesInv
  <2>. QED BY <2>1, <2>2, <2>3, EntersWanted
<1>. QED BY <1>1, <1>2 DEF Obey

\* Every call of the gateway is to start what it wants.
LEMMA WantsNext ==
    ASSUME GatewayInv, [GatewayNext]_allVars
    PROVE  WantsInv'
<1>1. ShapeOK /\ WantsInv
  BY DEF GatewayInv, TypesInv
<1>2. CASE NextDrivers \/ UNCHANGED vars
  BY <1>1, <1>2, DriversWanted
<1>3. \A script : Asks(script, NoWant) => WantsInv'
  <2>1. ASSUME NEW script, Asks(script, NoWant) PROVE WantsInv'
    <3>1. NoWant.kind = "none" /\ "ASCOM" \in Drivers
      BY DEF NoWant, Drivers
    <3>. QED BY <1>1, <2>1, <3>1, EntersWanted DEF Asks
  <2>. QED BY <2>1
<1>4. CASE StartUp \/ SetsPeriod
  BY <1>3, <1>4 DEF StartUp, SetsPeriod
<1>5. CASE Read
  <2>1. Head(toGateway) \in Known /\ pc = "read" /\ toGateway # <<>>
    BY <1>5 DEF Read, GatewayInv, LinkOK
  <2>2. Head(toGateway).letter \in Letters /\ Head(toGateway).axis \in MountAxes
    BY <2>1 DEF Known
  <2>. QED BY <1>5, <2>1, <2>2, ObeysWanted DEF Read
<1>6. CASE ReadCut
  <2>1. Head(toGateway) \in Known /\ pc = "read" /\ toGateway # <<>>
    BY <1>6 DEF ReadCut, GatewayInv, LinkOK
  <2>2. CASE UNCHANGED <<vars, toHandset, cmd, pc, isSlew>>
    BY <1>2, <2>2
  <2>3. ASSUME NEW n \in use.data, Obey([Head(toGateway) EXCEPT !.data = n])
        PROVE  WantsInv'
    <3>. DEFINE c == [Head(toGateway) EXCEPT !.data = n]
    <3>1. c.letter \in Letters /\ c.axis \in MountAxes
      BY <2>1 DEF Known
    <3>. HIDE DEF c
    <3>2. Obey(c)
      BY <2>3 DEF c
    <3>. QED BY <2>1, <3>1, <3>2, ObeysWanted
  <2>. QED BY <1>6, <2>2, <2>3 DEF ReadCut
<1>7. CASE StartedUp \/ Answers \/ SendAgain \/ Receive
  BY <1>2, <1>7 DEF StartedUp, Answers, SendAgain, Receive
<1>8. CASE \E l \in Letters, a \in MountAxes, n \in Data :
             Ask([letter |-> l, axis |-> a, data |-> n])
  BY <1>2, <1>8 DEF Ask
<1>. QED BY <1>2, <1>4, <1>5, <1>6, <1>7, <1>8 DEF GatewayNext, GatewayStep, allVars

-----------------------------------------------------------------------------
\* The handset begins with what SkyTracker is constructed with.
LEMMA BeginsAlone == GatewayInit => HandInv
<1>. SUFFICES ASSUME GatewayInit PROVE HandInv
  OBVIOUS
<1>0. \A a \in MountAxes : a \in Axes
  BY DEF MountAxes, Axes
<1>1. /\ m_params = [a \in Axes |-> Constructed] /\ regs = [a \in Axes |-> ResetRegs]
      /\ todo = [d \in Drivers |-> IF d = "SkyTracker" THEN Constructor ELSE <<>>]
      /\ up = FALSE
      /\ toGateway = <<>> /\ toHandset = <<>> /\ pc = "start 1" /\ cmd = Nothing
      /\ isSlew = [a \in MountAxes |-> 0] /\ isIncrement = [a \in MountAxes |-> 0]
      /\ asked = Nothing
      /\ told = [a \in MountAxes |->
                   [slew |-> 0, period |-> <<FirstPeriod, FirstPeriod>>,
                    forward |-> <<1, 1>>, goal |-> 0, goto |-> 0]]
      /\ placed = [a \in MountAxes |-> -1]
  BY DEF GatewayInit, Init
<1>2. todo["SkyTracker"] = Constructor /\ todo["ASCOM"] = <<>>
  BY <1>1 DEF Drivers
<1>3. Spares(Constructor, Fields)
  <2>1. "is_TMC" \notin Fields /\ "count" \notin Fields /\ "answer" \notin Fields
    BY DEF Fields
  <2>2. ASSUME NEW a PROVE Spares(set_motor_type(a, 1), Fields)
    <3>1. \A e \in Fields : ~Does(Set(a, "is_TMC", 1), e) /\ ~Does(ReadType(a, 1), e)
      BY <2>1 DEF Does, Set, ReadType
    <3>. QED BY <3>1, SparesSteps DEF set_motor_type
  <2>3. \A a, v : Spares(set_current_position(a, v), Fields)
    BY <2>1, SparesMotions
  <2>4. Spares(set_motor_type(0, 1) \o set_motor_type(1, 1), Fields)
    BY <2>2, SparesJoin
  <2>5. Spares(set_motor_type(0, 1) \o set_motor_type(1, 1) \o set_motor_type(2, 1), Fields)
    BY <2>2, <2>4, SparesJoin
  <2>6. Spares(set_motor_type(0, 1) \o set_motor_type(1, 1) \o set_motor_type(2, 1)
               \o set_current_position(0, Center), Fields)
    BY <2>3, <2>5, SparesJoin
  <2>. QED BY <2>3, <2>6, SparesJoin DEF Constructor
<1>4. OnlyOne
  BY <1>1, <1>2, <1>3 DEF OnlyOne, Nothing
<1>5. ValuesKept
  <2>1. FirstPeriod \in Nat /\ 0 \in Bit /\ 1 \in Bit
    BY SkyTrackerAssumption DEF Bit
  <2>2. <<FirstPeriod, FirstPeriod>> \in [1..2 -> Nat] /\ <<1, 1>> \in [1..2 -> Bit]
    BY <2>1
  <2>3. told \in [MountAxes -> Tales]
    BY <1>1, <2>1, <2>2 DEF Tales
  <2>4. \A a \in MountAxes : m_params[a] = Constructed
    BY <1>1, <1>0
  <2>5. \A a \in MountAxes : m_params[a].min = MinPeriod /\ m_params[a].steps = Steps
    BY <2>4 DEF Constructed
  <2>6. DOMAIN placed = MountAxes /\ DOMAIN isSlew = MountAxes /\ DOMAIN isIncrement = MountAxes
    BY <1>1
  <2>. QED BY <2>3, <2>5, <2>6 DEF ValuesKept
<1>6. StartsUp
  BY <1>1, <1>2, SparesEmpty DEF StartsUp, Nothing, Starting
<1>7. ASSUME NEW a \in MountAxes PROVE Kept(a, told[a]) /\ CountKept(a)
  <2>1. /\ told[a].slew = 0 /\ told[a].period = <<FirstPeriod, FirstPeriod>>
        /\ told[a].forward = <<1, 1>> /\ told[a].goal = 0 /\ told[a].goto = 0
        /\ isSlew[a] = 0 /\ isIncrement[a] = 0 /\ placed[a] = -1 /\ m_params[a] = Constructed
    BY <1>0, <1>1
  <2>. QED BY <2>1 DEF Kept, Agreed, CountKept, Constructed, Goal
<1>8. Waits
  BY <1>1, <1>7 DEF Waits, AllKept, Starting
<1>. QED BY <1>1, <1>4, <1>5, <1>6, <1>8 DEF HandInv, Conversation

\* The invariant holds at first, and every step keeps it.
LEMMA GatewayAlways ==
    ASSUME HandsetAlone
    PROVE  GatewaySpec => []GatewayInv
<1>1. GatewayInit => GatewayInv
  <2>. SUFFICES ASSUME GatewayInit PROVE GatewayInv
    OBVIOUS
  <2>1. TypesInv /\ use \in Uses /\ JustStarted
    BY StartedTypes DEF GatewayInit, Init, JustStarted
  <2>2. LinkOK
    <3>1. toGateway = <<>> /\ asked = Nothing
      BY DEF GatewayInit
    <3>2. <<>> \in Seq(Known)
      OBVIOUS
    <3>. QED BY <3>1, <3>2 DEF LinkOK
  <2>3. RegsOK
    BY DEF GatewayInit, Init, RegsOK, ResetRegs
  <2>. QED BY <2>1, <2>2, <2>3, StartedWanted, BeginsAlone DEF GatewayInv
<1>2. GatewayInv /\ [GatewayNext]_allVars => GatewayInv'
  <2>. SUFFICES ASSUME GatewayInv, [GatewayNext]_allVars PROVE GatewayInv'
    OBVIOUS
  <2>1. TypesInv' /\ LinkOK'
    BY GatewayNextTypes, GatewayNextLink DEF GatewayInv
  <2>2. (use \in Uses)'
    BY UseStays DEF GatewayInv
  <2>. QED BY <2>1, <2>2, HandNext, WantsNext DEF GatewayInv
<1>. QED BY <1>1, <1>2, PTL DEF GatewaySpec

\* A motion that no other driver's call met is the one that its client asked
\* for, the handset's too: what its commands have told the gateway, as far as
\* they were accepted, is what is in the registers when the word is written
\* that starts it (SwpCmdStartMotion, and the variables of ascom_server.cpp
\* that choose between its two calls).
THEOREM StartsAlwaysAsTold ==
    ASSUME HandsetAlone
    PROVE  GatewaySpec => StartsAsTold
<1>1. GatewayInv => \A d \in Drivers : MovesAsTold(d)
  BY WantedMoves DEF GatewayInv, TypesInv
<1>. QED BY <1>1, GatewayAlways, PTL DEF StartsAsTold, MovesAsTold

\* A number has itself for a remainder, or what is left to the modulus.
LEMMA SmallRemainder ==
    ASSUME NEW w \in Nat \ {0}
    PROVE  /\ \A n \in 0..(w - 1) : n % w = n
           /\ \A n \in Int : -w <= n /\ n < 0 => n % w = n + w
OBVIOUS

\* The counter that holds a position of the handset shows it, unless it has
\* turned over.
LEMMA ShownAsPlaced ==
    ASSUME rev = Steps, NEW p, p \in 0..CountEnd, CountAt(p) <= CountEnd
    PROVE  CountOf(p) = CountAt(p) /\ Shown(CountAt(p)) = p
<1>1. /\ CountEnd \in Nat \ {0} /\ Center \in 0..(CountEnd - 1)
      /\ Steps \in Nat /\ Steps < 2 * CountEnd
  BY SkyTrackerAssumption
<1>. DEFINE o == Offset0
<1>2. o \in Int /\ -CountEnd < o /\ o < CountEnd
  BY <1>1 DEF Offset0
<1>3. Offset = o
  BY DEF Offset, Offset0
<1>4. Word24 = CountEnd + 1 /\ Word32 = 4 * (CountEnd + 1)
  BY DEF Word24, Word32
<1>. HIDE DEF o
<1>5. p \in Nat /\ p <= CountEnd /\ CountEnd \in Nat
  BY <1>1
<1>6. CountAt(p) = (p - o) % Word32
  BY DEF CountAt, o
<1>7. CountOf(p) = CountAt(p)
  BY <1>3, <1>6 DEF CountOf
<1>8. Word32 \in Nat \ {0} /\ Word24 \in Nat \ {0}
  BY <1>4, <1>5
<1>9. p - o \in Int /\ p - o < Word32 /\ -Word32 <= p - o
  BY <1>2, <1>4, <1>5
<1>10. ~(p - o < 0)
  <2>. SUFFICES ASSUME p - o < 0 PROVE FALSE
    OBVIOUS
  <2>1. CountAt(p) = (p - o) + Word32
    BY <1>6, <1>8, <1>9, SmallRemainder
  <2>. QED BY <1>2, <1>4, <1>5, <2>1
<1>11. CountAt(p) = p - o
  <2>1. p - o \in 0..(Word32 - 1)
    BY <1>8, <1>9, <1>10
  <2>. QED BY <1>6, <1>8, <2>1, SmallRemainder
<1>12. Shown(CountAt(p)) = (p % Word32) % Word24
  <2>1. (p - o) + o = p
    BY <1>2, <1>5
  <2>. QED BY <1>3, <1>11, <2>1 DEF Shown
<1>13. p % Word32 = p /\ p % Word24 = p
  <2>1. p \in 0..(Word32 - 1) /\ p \in 0..(Word24 - 1)
    BY <1>4, <1>5
  <2>. QED BY <1>8, <2>1, SmallRemainder
<1>. QED BY <1>7, <1>12, <1>13

\* 'j' is answered with the position that the handset has set with 'E', if
\* the counter has taken it and has not moved since; only a counter that has turned over at
\* the last count shows the position of the first (CMD_GET_AXIS_POSITION and
\* CMD_SET_AXIS_POSITION of ascom_server.cpp, and the offset between them).
THEOREM AlwaysReadsBack ==
    ASSUME HandsetAlone
    PROVE  GatewaySpec => []ReadsBack
<1>1. GatewayInv => ReadsBack
  <2>. SUFFICES ASSUME GatewayInv, asked.letter = "j", toHandset # <<>>,
                       placed[asked.axis] # -1, ~trouble, asked.axis \in held
                PROVE  Head(toHandset).data = IF CountOf(placed[asked.axis]) = CountEnd
                                              THEN Shown(0) ELSE placed[asked.axis]
    BY DEF ReadsBack
  <2>1. AloneOnly
    BY DEF GatewayInv, HandInv, AloneOnly, Nothing
  <2>2. Replied /\ rev = Steps
    BY <2>1 DEF AloneOnly, StartsUp, Conversation, Waits, Works, Replied, Unanswered
  <2>. DEFINE a == asked.axis
              p == placed[a]
  <2>3. Head(toHandset).data = Shown(regs[a].count) /\ CountKept(a)
    BY <2>2 DEF Replied, CountAfter
  <2>4. LiesAt(regs[a].count, p)
    BY <2>3 DEF CountKept
  <2>5. /\ p \in 0..CountEnd /\ CountAt(p) <= CountEnd
        /\ regs[a].count = IF CountAt(p) = CountEnd THEN 0 ELSE CountAt(p)
    BY <2>4 DEF LiesAt
  <2>. HIDE DEF p
  <2>6. CountOf(p) = CountAt(p) /\ Shown(CountAt(p)) = p
    BY <2>2, <2>5, ShownAsPlaced
  <2>7. Head(toHandset).data = IF CountOf(p) = CountEnd THEN Shown(0) ELSE p
    BY <2>3, <2>5, <2>6
  <2>. QED BY <2>7 DEF p
<1>. QED BY <1>1, GatewayAlways, PTL
=============================================================================
