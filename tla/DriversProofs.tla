--------------------------- MODULE DriversProofs ---------------------------
(***************************************************************************)
(* DriverManager keeps its drivers in order for any number of sessions and *)
(* any drivers that can be made one after the other.                       *)
(***************************************************************************)
EXTENDS Drivers, SequenceTheorems, TLAPS

-----------------------------------------------------------------------------
(* The stack. *)

\* Leaving a call takes the last frame away.
LEMMA BelowFrames ==
    ASSUME stack \in Seq(Frames), stack # <<>>
    PROVE  /\ Len(stack) \in Nat /\ Len(stack) >= 1
           /\ Top \in Frames /\ Top = stack[Len(stack)]
           /\ Below \in Seq(Frames) /\ Len(Below) = Len(stack) - 1
           /\ \A i \in 1..(Len(stack) - 1) : Below[i] = stack[i]
           /\ Below = <<>> <=> Len(stack) = 1
<1>1. Len(stack) \in Nat /\ Len(stack) >= 1
  BY SMT
<1>2. Top \in Frames
  BY <1>1, SMT DEF Top
<1>3. /\ Below \in Seq(Frames) /\ Len(Below) = Len(stack) - 1
      /\ \A i \in 1..(Len(stack) - 1) : Below[i] = stack[i]
  <2>. DEFINE n == Len(stack) - 1
  <2>1. /\ n \in Nat /\ n \in Int /\ 1 \in Int
        /\ \A i \in 1..n : stack[i] \in Frames
    BY <1>1, SMT
  <2>2. /\ Below \in Seq(Frames) /\ Len(Below) = IF 1 <= n THEN n - 1 + 1 ELSE 0
        /\ \A i \in 1..(n - 1 + 1) : Below[i] = stack[1 + i - 1]
    <3>. HIDE DEF n
    <3>. QED BY <2>1, SubSeqProperties DEF Below, n
  <2>. HIDE DEF n, Below
  <2>3. /\ Len(Below) = n /\ \A i \in 1..n : Below[i] = stack[i]
    <3>1. n - 1 + 1 = n /\ \A i \in 1..n : 1 + i - 1 = i
      BY <2>1
    <3>. QED BY <2>1, <2>2, <3>1
  <2>. QED BY <2>2, <2>3 DEF n
<1>4. Below = <<>> <=> Len(Below) = 0
  BY <1>3, EmptySeq
<1>. QED BY <1>1, <1>2, <1>3, <1>4 DEF Top

\* A step of the last call changes only its frame.
LEMMA ContinueFrames ==
    ASSUME stack \in Seq(Frames), stack # <<>>,
           NEW at \in {"entering", "constructing", "allocating", "publishing"},
           NEW todo \in Seq(Devices)
    PROVE  /\ Continue(at, todo) \in Seq(Frames)
           /\ Len(Continue(at, todo)) = Len(stack)
           /\ \A i \in 1..(Len(stack) - 1) : Continue(at, todo)[i] = stack[i]
           /\ Continue(at, todo)[Len(stack)]
                = [device |-> Top.device, at |-> at, todo |-> todo]
<1>. DEFINE f == [device |-> Top.device, at |-> at, todo |-> todo]
<1>1. f \in Frames
  BY BelowFrames DEF Frames
<1>2. /\ Append(Below, f) \in Seq(Frames)
      /\ Len(Append(Below, f)) = Len(stack)
      /\ \A i \in 1..(Len(stack) - 1) : Append(Below, f)[i] = stack[i]
      /\ Append(Below, f)[Len(stack)] = f
  <2>. HIDE DEF f
  <2>. QED BY <1>1, BelowFrames, SMT
<1>. QED BY <1>1, <1>2 DEF Continue


\* The driver at the head of a frame is one its constructor uses.
LEMMA HeadUsed ==
    ASSUME NEW f \in Frames, FrameOK(f), f.todo # <<>>
    PROVE  /\ Head(f.todo) \in Devices /\ Tail(f.todo) \in Seq(Devices)
           /\ Uses(f.device, Head(f.todo)) /\ f.device \in Devices
           /\ Rank[Head(f.todo)] < Rank[f.device]
           /\ \A e \in Devices : Awaits(f, e) =>
                 \/ e = Head(f.todo)
                 \/ \E j \in 1..Len(Tail(f.todo)) : Tail(f.todo)[j] = e
           /\ \A j \in 1..Len(Tail(f.todo)) : Awaits(f, Tail(f.todo)[j])
<1>1. /\ f.todo \in Seq(Devices) /\ f.device \in Devices
      /\ Len(f.todo) \in Nat /\ Len(f.todo) >= 1
  BY SMT DEF Frames
<1>2. /\ Head(f.todo) = f.todo[1] /\ Head(f.todo) \in Devices
      /\ Tail(f.todo) \in Seq(Devices) /\ Len(Tail(f.todo)) = Len(f.todo) - 1
      /\ \A i \in 1..(Len(f.todo) - 1) : Tail(f.todo)[i] = f.todo[i + 1]
  BY <1>1, SMT
<1>3. Awaits(f, Head(f.todo))
  BY <1>1, <1>2 DEF Awaits
<1>4. Uses(f.device, Head(f.todo))
  BY <1>2, <1>3 DEF FrameOK
<1>5. Rank[Head(f.todo)] < Rank[f.device]
  BY <1>1, <1>4, DepsAssumption DEF Uses
<1>6. ASSUME NEW e \in Devices, Awaits(f, e), e # Head(f.todo)
      PROVE  \E j \in 1..Len(Tail(f.todo)) : Tail(f.todo)[j] = e
  <2>1. PICK k \in 1..Len(f.todo) : f.todo[k] = e
    BY <1>6 DEF Awaits
  <2>2. k # 1 /\ k - 1 \in 1..(Len(f.todo) - 1) /\ k - 1 + 1 = k
    BY <1>1, <1>2, <1>6, <2>1
  <2>3. Tail(f.todo)[k - 1] = e
    BY <1>2, <2>1, <2>2
  <2>. QED BY <1>2, <2>2, <2>3
<1>7. ASSUME NEW j \in 1..Len(Tail(f.todo)) PROVE Awaits(f, Tail(f.todo)[j])
  <2>1. j \in 1..(Len(f.todo) - 1) /\ j + 1 \in 1..Len(f.todo)
    BY <1>1, <1>2
  <2>. QED BY <1>2, <2>1 DEF Awaits
<1>. QED BY <1>1, <1>2, <1>4, <1>5, <1>6, <1>7

-----------------------------------------------------------------------------
(* The steps of alloc_driver. *)

\* The facts about the last call that every step uses.
LEMMA LastCall ==
    ASSUME DriversInv, NEW s \in Sessions, owner = s, stack # <<>>
    PROVE  /\ Len(stack) \in Nat /\ Len(stack) >= 1
           /\ Top = stack[Len(stack)] /\ Top \in Frames
           /\ Top.device \in Devices /\ Top.todo \in Seq(Devices)
           /\ FrameOK(Top) /\ pc[s] = "starting"
<1>1. /\ Len(stack) \in Nat /\ Len(stack) >= 1
      /\ Top = stack[Len(stack)] /\ Top \in Frames
  BY BelowFrames DEF DriversInv, TypeOK
<1>. QED BY <1>1 DEF DriversInv, StackOrdered, StackOwned, Frames

\* No other frame of the stack is of the driver of the last one.
LEMMA LastAlone ==
    ASSUME DriversInv, NEW s \in Sessions, owner = s, stack # <<>>
    PROVE  \A i \in 1..(Len(stack) - 1) :
              /\ stack[i] \in Frames /\ stack[i].device \in Devices
              /\ stack[i].device # Top.device
<1>1. Len(stack) \in Nat /\ Len(stack) >= 1 /\ Top = stack[Len(stack)]
  BY LastCall
<1>2. \A i \in 1..Len(stack) : stack[i] \in Frames
  BY SMT DEF DriversInv, TypeOK
<1>. SUFFICES ASSUME NEW i \in 1..(Len(stack) - 1)
              PROVE  /\ stack[i] \in Frames /\ stack[i].device \in Devices
                     /\ stack[i].device # Top.device
  OBVIOUS
<1>3. /\ i \in 1..Len(stack) /\ Len(stack) \in 1..Len(stack) /\ i < Len(stack)
      /\ stack[i] \in Frames /\ stack[Len(stack)] \in Frames
  BY <1>1, <1>2
<1>4. Rank[stack[Len(stack)].device] < Rank[stack[i].device]
  BY <1>3 DEF DriversInv, StackOrdered
<1>5. Rank[stack[i].device] \in Nat
  BY <1>3, DepsAssumption DEF Frames
<1>. QED BY <1>1, <1>3, <1>4, <1>5 DEF Frames

\* A step of the last call within its frame keeps the order.
LEMMA ContinueOrder ==
    ASSUME DriversInv, NEW s \in Sessions, owner = s, stack # <<>>,
           NEW at \in {"constructing", "publishing"}, NEW todo \in Seq(Devices),
           FrameOK([device |-> Top.device, at |-> at, todo |-> todo]),
           stack' = Continue(at, todo), is_started' = is_started
    PROVE  /\ StackOrdered'
           /\ stack' \in Seq(Frames) /\ Len(stack') = Len(stack)
           /\ \A i \in 1..(Len(stack) - 1) : stack'[i] = stack[i]
           /\ stack'[Len(stack)]
                = [device |-> Top.device, at |-> at, todo |-> todo]
<1>. DEFINE n == Len(stack)
            f == [device |-> Top.device, at |-> at, todo |-> todo]
<1>1. /\ n \in Nat /\ n >= 1 /\ Top = stack[n]
  BY LastCall
<1>2. /\ stack' \in Seq(Frames) /\ Len(stack') = n
      /\ \A i \in 1..(n - 1) : stack'[i] = stack[i]
      /\ stack'[n] = f
  BY ContinueFrames DEF DriversInv, TypeOK
<1>. HIDE DEF n
<1>3. \A i \in 1..n : stack'[i].device = stack[i].device
  BY <1>1, <1>2
<1>4. \A i, j \in 1..Len(stack') :
         i < j => Rank[stack'[j].device] < Rank[stack'[i].device]
  BY <1>2, <1>3 DEF DriversInv, StackOrdered, n
<1>5. \A i \in 1..Len(stack') : FrameOK(stack[i])'
  <2>1. \A i \in 1..(n - 1) : FrameOK(stack[i])
    BY <1>1 DEF DriversInv, StackOrdered, n
  <2>2. \A i \in 1..n : FrameOK(stack'[i])
    <3>. HIDE DEF f
    <3>. QED BY <1>1, <1>2, <2>1 DEF f
  <2>. QED BY <1>2, <2>2 DEF FrameOK
<1>6. \A i \in 1..(Len(stack') - 1) :
         /\ stack'[i].at = "allocating"
         /\ Head(stack'[i].todo) = stack'[i + 1].device
  <2>. SUFFICES ASSUME NEW i \in 1..(n - 1)
                PROVE  /\ stack'[i].at = "allocating"
                       /\ Head(stack'[i].todo) = stack'[i + 1].device
    BY <1>2
  <2>1. stack'[i] = stack[i] /\ i + 1 \in 1..n
    BY <1>1, <1>2
  <2>2. stack[i].at = "allocating" /\ Head(stack[i].todo) = stack[i + 1].device
    BY DEF DriversInv, StackOrdered, n
  <2>. QED BY <1>3, <2>1, <2>2
<1>7. Top' = f
  BY <1>2 DEF Top
<1>. QED BY <1>2, <1>4, <1>5, <1>6, <1>7 DEF StackOrdered, n

\* What such a step means for the frames of each driver.
LEMMA ContinueDevices ==
    ASSUME DriversInv, NEW s \in Sessions, owner = s, stack # <<>>,
           Len(stack') = Len(stack),
           \A i \in 1..(Len(stack) - 1) : stack'[i] = stack[i],
           stack'[Len(stack)].device = Top.device
    PROVE  /\ \A i \in 1..Len(stack) :
                 /\ stack'[i].device = stack[i].device
                 /\ stack[i].device = Top.device <=> i = Len(stack)
                 /\ stack[i].device # Top.device => stack'[i] = stack[i]
           /\ Len(stack) \in 1..Len(stack) /\ Top = stack[Len(stack)]
<1>1. Len(stack) \in Nat /\ Len(stack) >= 1 /\ Top = stack[Len(stack)]
  BY LastCall
<1>2. \A i \in 1..Len(stack) : i # Len(stack) => i \in 1..(Len(stack) - 1)
  BY <1>1
<1>3. \A i \in 1..(Len(stack) - 1) : stack[i].device # Top.device
  BY LastAlone
<1>. QED BY <1>1, <1>2, <1>3

\* A step that leaves the flags and the frames of a driver alone keeps them.
LEMMA OthersKept ==
    ASSUME NEW d \in Devices, DriverOK(d),
           is_starting'[d] = is_starting[d], constructions'[d] = constructions[d],
           is_started'[d] = is_started[d], device_list'[d] = device_list[d],
           driver_tuple'[d] = driver_tuple[d],
           \A e \in Devices : is_started[e] => is_started'[e],
           \A i \in 1..Len(stack) : stack[i].device = d =>
              i \in 1..Len(stack') /\ stack'[i] = stack[i],
           \A i \in 1..Len(stack') : stack'[i].device = d =>
              i \in 1..Len(stack) /\ stack'[i] = stack[i]
    PROVE  DriverOK(d)'
<1>. QED BY DEF DriverOK, Inside, Constructing

LEMMA ConstructKeeps ==
    ASSUME DriversInv, NEW s \in Sessions, Construct(s)
    PROVE  /\ stack' \in Seq(Frames) /\ StackOrdered' /\ FlagsOK'
           /\ stack' # <<>> /\ stack'[1].device = stack[1].device
<1>1. owner = s /\ stack # <<>> /\ Top.at = "entering" /\ ~is_started[Top.device]
  BY DEF Construct, Nested, Missing
<1>2. /\ Top \in Frames /\ Top.device \in Devices /\ Top.todo \in Seq(Devices)
      /\ FrameOK(Top)
  BY <1>1, LastCall
<1>3. FrameOK([device |-> Top.device, at |-> "constructing", todo |-> Top.todo])
  BY <1>2 DEF FrameOK, Awaits
<1>4. /\ StackOrdered' /\ stack' \in Seq(Frames) /\ Len(stack') = Len(stack)
      /\ \A i \in 1..(Len(stack) - 1) : stack'[i] = stack[i]
      /\ stack'[Len(stack)]
           = [device |-> Top.device, at |-> "constructing", todo |-> Top.todo]
  BY <1>1, <1>2, <1>3, ContinueOrder DEF Construct, managerVars
<1>5. /\ \A i \in 1..Len(stack) :
            /\ stack'[i].device = stack[i].device
            /\ stack[i].device = Top.device <=> i = Len(stack)
            /\ stack[i].device # Top.device => stack'[i] = stack[i]
      /\ Len(stack) \in 1..Len(stack) /\ Top = stack[Len(stack)]
  BY <1>1, <1>4, ContinueDevices
<1>6. /\ is_started' = is_started /\ device_list' = device_list
      /\ driver_tuple' = driver_tuple
      /\ is_starting' = [is_starting EXCEPT ![Top.device] = TRUE]
      /\ constructions' = [constructions EXCEPT ![Top.device] = @ + 1]
  BY DEF Construct, managerVars
<1>7. constructions[Top.device] = 0
  <2>1. constructions[Top.device] \in Nat /\ constructions[Top.device] <= 1
    BY <1>2 DEF DriversInv, TypeOK, FlagsOK, DriverOK
  <2>2. constructions[Top.device] # 1
    BY <1>1, <1>2, <1>5 DEF DriversInv, FlagsOK, DriverOK, Inside
  <2>. QED BY <2>1, <2>2
<1>8. ASSUME NEW d \in Devices, d # Top.device
      PROVE  /\ is_starting'[d] = is_starting[d]
             /\ constructions'[d] = constructions[d]
             /\ \A i \in 1..Len(stack) : stack'[i].device = d <=> stack[i].device = d
             /\ \A i \in 1..Len(stack) : stack[i].device = d => stack'[i] = stack[i]
  BY <1>5, <1>6, <1>8 DEF DriversInv, TypeOK
<1>9. is_starting'[Top.device] = TRUE /\ constructions'[Top.device] = 1
  BY <1>2, <1>6, <1>7 DEF DriversInv, TypeOK
<1>10. FlagsOK'
  <2>1. ASSUME NEW d \in Devices, d = Top.device PROVE DriverOK(d)'
    <3>1. DriverOK(d) /\ d = stack'[Len(stack)].device
      BY <1>4, <2>1 DEF DriversInv, FlagsOK
    <3>2. /\ ~is_started[d] /\ ~is_started'[d] /\ device_list'[d] = is_started'[d]
          /\ driver_tuple'[d] = driver_tuple[d]
          /\ is_starting'[d] /\ constructions'[d] = 1
      BY <1>1, <1>6, <1>9, <2>1, <3>1 DEF DriverOK
    <3>3. \A i \in 1..Len(stack) :
             /\ stack[i].device = d => stack[i].at = "entering"
             /\ stack'[i].device = d => stack'[i].at = "constructing"
      BY <1>1, <1>4, <1>5, <2>1
    <3>4. ~driver_tuple[d]
      BY <3>1, <3>2, <3>3 DEF DriverOK
    <3>. QED BY <1>4, <1>5, <3>1, <3>2, <3>3, <3>4 DEF DriverOK, Inside, Constructing
  <2>2. ASSUME NEW d \in Devices, d # Top.device PROVE DriverOK(d)'
    <3>1. DriverOK(d)
      BY DEF DriversInv, FlagsOK
    <3>2. /\ is_started'[d] = is_started[d] /\ device_list'[d] = device_list[d]
          /\ driver_tuple'[d] = driver_tuple[d]
          /\ \A e \in Devices : is_started[e] => is_started'[e]
      BY <1>6
    <3>3. /\ is_starting'[d] = is_starting[d]
          /\ constructions'[d] = constructions[d]
          /\ \A i \in 1..Len(stack) : stack'[i].device = d <=> stack[i].device = d
          /\ \A i \in 1..Len(stack) : stack[i].device = d => stack'[i] = stack[i]
      BY <1>8, <2>2
    <3>. QED BY <1>4, <3>1, <3>2, <3>3, OthersKept
  <2>. QED BY <2>1, <2>2 DEF FlagsOK
<1>11. 1 \in 1..Len(stack) /\ stack' # <<>>
  BY <1>1, <1>4, <1>5, LastCall
<1>. QED BY <1>4, <1>5, <1>10, <1>11

LEMMA ReferKeeps ==
    ASSUME DriversInv, NEW s \in Sessions, Refer(s)
    PROVE  /\ stack' \in Seq(Frames) /\ StackOrdered' /\ FlagsOK'
           /\ stack' # <<>> /\ stack'[1].device = stack[1].device
<1>1. owner = s /\ stack # <<>> /\ Top.at \in {"allocating", "constructing"}
  BY DEF Refer, Nested
<1>2. /\ Top \in Frames /\ Top.device \in Devices /\ Top.todo \in Seq(Devices)
      /\ FrameOK(Top)
  BY <1>1, LastCall
<1>3. Top.todo # <<>> /\ is_started[Head(Top.todo)]
  BY <1>1, <1>2 DEF Refer, Nested, NeedsFirst, FrameOK, DriversInv, StackOrdered
<1>. DEFINE f == [device |-> Top.device, at |-> "constructing", todo |-> Tail(Top.todo)]
<1>4. /\ Tail(Top.todo) \in Seq(Devices)
      /\ \A e \in Devices : Awaits(Top, e) => e = Head(Top.todo) \/ Awaits(f, e)
      /\ \A e \in Devices : Awaits(f, e) => Awaits(Top, e)
  BY <1>2, <1>3, HeadUsed DEF Awaits
<1>5. FrameOK(f)
  <2>1. f.device = Top.device /\ f.at = "constructing"
    OBVIOUS
  <2>. HIDE DEF f
  <2>. QED BY <1>2, <1>3, <1>4, <2>1 DEF FrameOK
<1>6. /\ StackOrdered' /\ stack' \in Seq(Frames) /\ Len(stack') = Len(stack)
      /\ \A i \in 1..(Len(stack) - 1) : stack'[i] = stack[i]
      /\ stack'[Len(stack)] = f
  BY <1>1, <1>2, <1>4, <1>5, ContinueOrder DEF Refer, managerVars
<1>7. /\ \A i \in 1..Len(stack) :
            /\ stack'[i].device = stack[i].device
            /\ stack[i].device = Top.device <=> i = Len(stack)
            /\ stack[i].device # Top.device => stack'[i] = stack[i]
      /\ Len(stack) \in 1..Len(stack) /\ Top = stack[Len(stack)]
  BY <1>1, <1>6, ContinueDevices
<1>8. UNCHANGED <<is_started, device_list, driver_tuple, is_starting, constructions>>
  BY DEF Refer, managerVars, containerVars
<1>9. FlagsOK'
  <2>1. ASSUME NEW d \in Devices, d = Top.device PROVE DriverOK(d)'
    <3>1. DriverOK(d)
      BY DEF DriversInv, FlagsOK
    <3>2. \A i \in 1..Len(stack) :
             /\ stack[i].device = d => stack[i].at \in {"allocating", "constructing"}
             /\ stack'[i].device = d => stack'[i].at = "constructing"
             /\ stack'[i].device = d <=> stack[i].device = d
      BY <1>1, <1>6, <1>7, <2>1
    <3>. QED BY <1>6, <1>8, <3>1, <3>2 DEF DriverOK, Inside, Constructing
  <2>2. ASSUME NEW d \in Devices, d # Top.device PROVE DriverOK(d)'
    <3>1. DriverOK(d)
      BY DEF DriversInv, FlagsOK
    <3>2. /\ \A i \in 1..Len(stack) : stack'[i].device = d <=> stack[i].device = d
          /\ \A i \in 1..Len(stack) : stack[i].device = d => stack'[i] = stack[i]
      BY <1>7, <2>2
    <3>. QED BY <1>6, <1>8, <3>1, <3>2, OthersKept
  <2>. QED BY <2>1, <2>2 DEF FlagsOK
<1>10. 1 \in 1..Len(stack) /\ stack' # <<>>
  BY <1>1, <1>6, <1>7, LastCall
<1>. QED BY <1>6, <1>7, <1>9, <1>10

LEMMA ConstructedKeeps ==
    ASSUME DriversInv, NEW s \in Sessions, Constructed(s)
    PROVE  /\ stack' \in Seq(Frames) /\ StackOrdered' /\ FlagsOK'
           /\ stack' # <<>> /\ stack'[1].device = stack[1].device
<1>1. owner = s /\ stack # <<>> /\ Top.at = "constructing" /\ Top.todo = <<>>
  BY DEF Constructed, Nested
<1>2. Top \in Frames /\ Top.device \in Devices /\ FrameOK(Top)
  BY <1>1, LastCall
<1>. DEFINE f == [device |-> Top.device, at |-> "publishing", todo |-> <<>>]
<1>3. FrameOK(f) /\ <<>> \in Seq(Devices)
  BY <1>1, <1>2 DEF FrameOK, Awaits
<1>4. /\ StackOrdered' /\ stack' \in Seq(Frames) /\ Len(stack') = Len(stack)
      /\ \A i \in 1..(Len(stack) - 1) : stack'[i] = stack[i]
      /\ stack'[Len(stack)] = f
  BY <1>1, <1>2, <1>3, ContinueOrder DEF Constructed, managerVars
<1>5. /\ \A i \in 1..Len(stack) :
            /\ stack'[i].device = stack[i].device
            /\ stack[i].device = Top.device <=> i = Len(stack)
            /\ stack[i].device # Top.device => stack'[i] = stack[i]
      /\ Len(stack) \in 1..Len(stack) /\ Top = stack[Len(stack)]
  BY <1>1, <1>4, ContinueDevices
<1>6. /\ UNCHANGED <<is_started, device_list, constructions>>
      /\ is_starting' = [is_starting EXCEPT ![Top.device] = FALSE]
      /\ driver_tuple' = [driver_tuple EXCEPT ![Top.device] = TRUE]
  BY DEF Constructed, managerVars
<1>7. FlagsOK'
  <2>1. ASSUME NEW d \in Devices, d = Top.device PROVE DriverOK(d)'
    <3>1. DriverOK(d)
      BY DEF DriversInv, FlagsOK
    <3>2. /\ ~is_starting'[d] /\ driver_tuple'[d]
      BY <1>6, <2>1 DEF DriversInv, TypeOK
    <3>3. \A i \in 1..Len(stack) :
             /\ stack[i].device = d => stack[i].at = "constructing"
             /\ stack'[i].device = d => stack'[i].at = "publishing"
             /\ stack'[i].device = d <=> i = Len(stack)
             /\ stack[i].device = d <=> i = Len(stack)
      BY <1>1, <1>4, <1>5, <2>1
    <3>. QED BY <1>4, <1>5, <1>6, <3>1, <3>2, <3>3 DEF DriverOK, Inside, Constructing
  <2>2. ASSUME NEW d \in Devices, d # Top.device PROVE DriverOK(d)'
    <3>1. DriverOK(d)
      BY DEF DriversInv, FlagsOK
    <3>2. is_starting'[d] = is_starting[d] /\ driver_tuple'[d] = driver_tuple[d]
      BY <1>6, <2>2 DEF DriversInv, TypeOK
    <3>3. /\ \A i \in 1..Len(stack) : stack'[i].device = d <=> stack[i].device = d
          /\ \A i \in 1..Len(stack) : stack[i].device = d => stack'[i] = stack[i]
      BY <1>5, <2>2
    <3>. QED BY <1>4, <1>6, <3>1, <3>2, <3>3, OthersKept
  <2>. QED BY <2>1, <2>2 DEF FlagsOK
<1>8. 1 \in 1..Len(stack) /\ stack' # <<>>
  BY <1>1, <1>4, <1>5, LastCall
<1>. QED BY <1>4, <1>5, <1>7, <1>8

\* A new call waits for every driver its constructor uses.
LEMMA NewFrame ==
    ASSUME NEW d \in Devices
    PROVE  /\ Frame(d) \in Frames /\ Frame(d).device = d
           /\ Frame(d).at = "entering" /\ Frame(d).todo = Deps[d]
           /\ FrameOK(Frame(d)) /\ ~Inside(Frame(d)) /\ ~Constructing(Frame(d))
<1>1. /\ Frame(d) \in Frames /\ Frame(d).device = d
      /\ Frame(d).at = "entering" /\ Frame(d).todo = Deps[d]
  BY DepsAssumption DEF Frame, Frames
<1>. QED BY <1>1 DEF FrameOK, Awaits, Uses, Inside, Constructing

\* The order when a constructor starts another.
LEMMA AllocOrder ==
    ASSUME DriversInv, NEW s \in Sessions, AllocFirst(s)
    PROVE  /\ stack' \in Seq(Frames) /\ StackOrdered'
           /\ Len(stack') = Len(stack) + 1
           /\ \A i \in 1..(Len(stack) - 1) : stack'[i] = stack[i]
           /\ stack'[Len(stack)].device = Top.device
           /\ stack'[Len(stack)].at = "allocating"
           /\ stack'[Len(stack) + 1].at = "entering"
<1>. DEFINE n == Len(stack)
            e == Head(Top.todo)
            f == [device |-> Top.device, at |-> "allocating", todo |-> Top.todo]
            q == Continue("allocating", Top.todo)
<1>1. /\ owner = s /\ stack # <<>> /\ Top.at = "constructing" /\ Top.todo # <<>>
      /\ is_started' = is_started
  BY DEF AllocFirst, Nested, managerVars
<1>2. /\ n \in Nat /\ n >= 1 /\ Top = stack[n] /\ Top \in Frames
      /\ Top.device \in Devices /\ Top.todo \in Seq(Devices) /\ FrameOK(Top)
  BY <1>1, LastCall
<1>3. e \in Devices /\ Rank[e] < Rank[Top.device]
  BY <1>1, <1>2, HeadUsed
<1>4. /\ q \in Seq(Frames) /\ Len(q) = n
      /\ \A i \in 1..(n - 1) : q[i] = stack[i]
      /\ q[n] = f
  BY <1>1, <1>2, ContinueFrames DEF DriversInv, TypeOK
<1>5. /\ stack' \in Seq(Frames) /\ Len(stack') = n + 1
      /\ \A i \in 1..n : stack'[i] = q[i]
      /\ stack'[n + 1] = Frame(e)
  <2>1. stack' = Append(q, Frame(e)) /\ Frame(e) \in Frames
    BY <1>3, NewFrame DEF AllocFirst
  <2>. HIDE DEF q, e, n
  <2>. QED BY <1>4, <2>1, AppendProperties
<1>. HIDE DEF n, q
<1>6. /\ \A i \in 1..(n - 1) : stack'[i] = stack[i]
      /\ stack'[n] = f /\ stack'[n + 1] = Frame(e)
  BY <1>2, <1>4, <1>5
<1>7. \A i \in 1..n : stack'[i].device = stack[i].device /\ stack[i] \in Frames
  <2>1. \A i \in 1..n : stack[i] \in Frames
    BY SMT DEF DriversInv, TypeOK, n
  <2>2. \A i \in 1..n : i # n => i \in 1..(n - 1)
    BY <1>2
  <2>. QED BY <1>2, <1>6, <2>1, <2>2
<1>8. \A i \in 1..n : Rank[e] < Rank[stack[i].device]
  <2>1. \A i \in 1..(n - 1) : Rank[Top.device] < Rank[stack[i].device]
    BY <1>2 DEF DriversInv, StackOrdered, n
  <2>2. \A i \in 1..n : Rank[stack[i].device] \in Nat
    BY <1>7, DepsAssumption DEF Frames
  <2>3. Rank[e] \in Nat /\ Rank[Top.device] \in Nat
    BY <1>2, <1>3, DepsAssumption
  <2>. HIDE DEF e
  <2>. QED BY <1>2, <1>3, <2>1, <2>2, <2>3
<1>9. \A i, j \in 1..Len(stack') :
         i < j => Rank[stack'[j].device] < Rank[stack'[i].device]
  <2>1. \A i, j \in 1..n : i < j => Rank[stack'[j].device] < Rank[stack'[i].device]
    BY <1>7 DEF DriversInv, StackOrdered, n
  <2>2. \A i \in 1..n : Rank[stack'[n + 1].device] < Rank[stack'[i].device]
    BY <1>3, <1>6, <1>7, <1>8, NewFrame
  <2>. QED BY <1>2, <1>5, <2>1, <2>2
<1>10. \A i \in 1..Len(stack') : FrameOK(stack[i])'
  <2>1. \A i \in 1..(n - 1) : FrameOK(stack[i])
    BY <1>2 DEF DriversInv, StackOrdered, n
  <2>2. FrameOK(f)
    BY <1>1, <1>2 DEF FrameOK, Awaits
  <2>3. FrameOK(Frame(e))
    BY <1>3, NewFrame
  <2>4. \A i \in 1..(n + 1) : FrameOK(stack'[i])
    <3>. HIDE DEF f
    <3>. QED BY <1>2, <1>6, <2>1, <2>2, <2>3
  <2>. QED BY <1>1, <1>5, <2>4 DEF FrameOK
<1>11. \A i \in 1..(Len(stack') - 1) :
         /\ stack'[i].at = "allocating"
         /\ Head(stack'[i].todo) = stack'[i + 1].device
  <2>1. ASSUME NEW i \in 1..(n - 1)
        PROVE  /\ stack'[i].at = "allocating"
               /\ Head(stack'[i].todo) = stack'[i + 1].device
    <3>1. stack'[i] = stack[i] /\ i + 1 \in 1..n
      BY <1>2, <1>6
    <3>2. stack[i].at = "allocating" /\ Head(stack[i].todo) = stack[i + 1].device
      BY DEF DriversInv, StackOrdered, n
    <3>. QED BY <1>7, <3>1, <3>2
  <2>2. stack'[n].at = "allocating" /\ Head(stack'[n].todo) = stack'[n + 1].device
    BY <1>3, <1>6, NewFrame
  <2>3. \A i \in 1..n : i # n => i \in 1..(n - 1)
    BY <1>2
  <2>4. Len(stack') - 1 = n
    BY <1>2, <1>5
  <2>. SUFFICES ASSUME NEW i \in 1..n
                PROVE  /\ stack'[i].at = "allocating"
                       /\ Head(stack'[i].todo) = stack'[i + 1].device
    BY <2>4
  <2>5. CASE i = n
    BY <2>2, <2>5
  <2>6. CASE i # n
    BY <2>1, <2>3, <2>6
  <2>. QED BY <2>5, <2>6
<1>12. Top'.at = "entering"
  BY <1>3, <1>5, NewFrame DEF Top
<1>. QED BY <1>3, <1>5, <1>6, <1>9, <1>10, <1>11, <1>12, NewFrame
         DEF StackOrdered, n

LEMMA AllocFirstKeeps ==
    ASSUME DriversInv, NEW s \in Sessions, AllocFirst(s)
    PROVE  /\ stack' \in Seq(Frames) /\ StackOrdered' /\ FlagsOK'
           /\ stack' # <<>> /\ stack'[1].device = stack[1].device
<1>1. /\ owner = s /\ stack # <<>> /\ Top.at = "constructing"
      /\ UNCHANGED <<is_started, device_list, driver_tuple, is_starting, constructions>>
  BY DEF AllocFirst, Nested, managerVars, containerVars
<1>2. Len(stack) \in Nat /\ Len(stack) >= 1 /\ Top = stack[Len(stack)]
  BY <1>1, LastCall
<1>3. /\ Len(stack') = Len(stack) + 1
      /\ \A i \in 1..(Len(stack) - 1) : stack'[i] = stack[i]
      /\ stack'[Len(stack)].device = Top.device
      /\ stack'[Len(stack)].at = "allocating"
      /\ stack'[Len(stack) + 1].at = "entering"
  BY AllocOrder
<1>4. /\ \A i \in 1..Len(stack) :
            /\ i \in 1..Len(stack')
            /\ stack'[i].device = stack[i].device
            /\ Inside(stack'[i]) <=> Inside(stack[i])
            /\ Constructing(stack'[i]) <=> Constructing(stack[i])
            /\ stack'[i].at = "publishing" <=> stack[i].at = "publishing"
      /\ \A i \in 1..Len(stack') : i \notin 1..Len(stack) =>
            stack'[i].at = "entering"
  BY <1>1, <1>2, <1>3 DEF Inside, Constructing
<1>5. ASSUME NEW d \in Devices PROVE DriverOK(d)'
  <2>1. DriverOK(d)
    BY DEF DriversInv, FlagsOK
  <2>. QED BY <1>1, <1>4, <2>1 DEF DriverOK, Inside, Constructing
<1>6. 1 \in 1..Len(stack) /\ stack' # <<>>
  BY <1>2, <1>3
<1>. QED BY <1>4, <1>5, <1>6, AllocOrder DEF FlagsOK

\* The order when a call ends; the caller's driver is there.
LEMMA LeaveOrder ==
    ASSUME DriversInv, NEW s \in Sessions, owner = s, stack # <<>>,
           stack' = Below, is_started'[Top.device],
           \A e \in Devices : is_started[e] => is_started'[e]
    PROVE  /\ stack' \in Seq(Frames) /\ StackOrdered'
           /\ Len(stack') = Len(stack) - 1
           /\ \A i \in 1..Len(stack') : stack'[i] = stack[i] /\ i \in 1..Len(stack)
           /\ \A i \in 1..Len(stack) : stack[i].device # Top.device =>
                 i \in 1..Len(stack')
           /\ \A i \in 1..Len(stack') : stack[i].device # Top.device
           /\ Len(stack) \in 1..Len(stack) /\ Top = stack[Len(stack)]
<1>. DEFINE n == Len(stack)
<1>1. /\ n \in Nat /\ n >= 1 /\ Top = stack[n] /\ Top \in Frames
      /\ Top.device \in Devices
  BY LastCall
<1>2. /\ stack' \in Seq(Frames) /\ Len(stack') = n - 1
      /\ \A i \in 1..(n - 1) : stack'[i] = stack[i]
      /\ \A i \in 1..(n - 1) : stack[i].device # Top.device
  BY BelowFrames, LastAlone DEF DriversInv, TypeOK
<1>. HIDE DEF n
<1>3. \A i \in 1..n : i # n => i \in 1..(n - 1)
  BY <1>1
<1>4. \A i, j \in 1..Len(stack') :
         i < j => Rank[stack'[j].device] < Rank[stack'[i].device]
  <2>1. \A i \in 1..(n - 1) : i \in 1..n
    BY <1>1
  <2>. QED BY <1>2, <2>1 DEF DriversInv, StackOrdered, n
<1>5. \A i \in 1..Len(stack') : FrameOK(stack[i])'
  <2>1. \A i \in 1..(n - 1) : FrameOK(stack[i])
    BY <1>1 DEF DriversInv, StackOrdered, n
  <2>2. \A i \in 1..(n - 1) : FrameOK(stack'[i])
    BY <1>2, <2>1
  <2>. QED BY <1>2, <2>2 DEF FrameOK
<1>6. \A i \in 1..(Len(stack') - 1) :
         /\ stack'[i].at = "allocating"
         /\ Head(stack'[i].todo) = stack'[i + 1].device
  <2>. SUFFICES ASSUME NEW i \in 1..(n - 2)
                PROVE  /\ stack'[i].at = "allocating"
                       /\ Head(stack'[i].todo) = stack'[i + 1].device
    BY <1>1, <1>2
  <2>1. i \in 1..(n - 1) /\ i + 1 \in 1..(n - 1)
    BY <1>1
  <2>2. stack[i].at = "allocating" /\ Head(stack[i].todo) = stack[i + 1].device
    BY <2>1 DEF DriversInv, StackOrdered, n
  <2>. QED BY <1>2, <2>1, <2>2
<1>7. ASSUME stack' # <<>> PROVE is_started'[Head(Top'.todo)]
  <2>1. Len(stack') \in Nat /\ Len(stack') # 0
    BY <1>2, <1>7, SMT
  <2>2. n - 1 \in 1..(n - 1) /\ n - 1 + 1 = n
    BY <1>1, <1>2, <2>1
  <2>3. Head(stack[n - 1].todo) = stack[n].device
    BY <2>2 DEF DriversInv, StackOrdered, n
  <2>4. Top' = stack[n - 1]
    BY <1>2, <2>2 DEF Top
  <2>. QED BY <1>1, <2>3, <2>4
<1>8. \A i \in 1..Len(stack) : stack[i].device # Top.device => i \in 1..Len(stack')
  BY <1>1, <1>2, <1>3 DEF n
<1>9. \A i \in 1..Len(stack') : i \in 1..Len(stack)
  BY <1>1, <1>2 DEF n
<1>10. Len(stack) \in 1..Len(stack)
  BY <1>1 DEF n
<1>. QED BY <1>1, <1>2, <1>4, <1>5, <1>6, <1>7, <1>8, <1>9, <1>10
         DEF StackOrdered, n

LEMMA AlreadyStartedKeeps ==
    ASSUME DriversInv, NEW s \in Sessions, AlreadyStarted(s)
    PROVE  stack' \in Seq(Frames) /\ StackOrdered' /\ FlagsOK'
<1>1. /\ owner = s /\ stack # <<>> /\ Top.at = "entering"
      /\ is_started[Top.device] /\ stack' = Below
      /\ UNCHANGED <<is_started, device_list, driver_tuple, is_starting, constructions>>
  BY DEF AlreadyStarted, Nested, Missing, Leave, managerVars, containerVars
<1>2. Top.device \in Devices
  BY <1>1, LastCall
<1>3. /\ stack' \in Seq(Frames) /\ StackOrdered'
      /\ \A i \in 1..Len(stack') : stack'[i] = stack[i] /\ i \in 1..Len(stack)
      /\ \A i \in 1..Len(stack) : stack[i].device # Top.device =>
            i \in 1..Len(stack')
      /\ \A i \in 1..Len(stack') : stack[i].device # Top.device
      /\ Len(stack) \in 1..Len(stack) /\ Top = stack[Len(stack)]
  BY <1>1, LeaveOrder
<1>4. ASSUME NEW d \in Devices, d = Top.device PROVE DriverOK(d)'
  <2>1. DriverOK(d) /\ is_started[d]
    BY <1>1, <1>4 DEF DriversInv, FlagsOK
  <2>2. \A i \in 1..Len(stack) : stack[i].device = d => ~Inside(stack[i])
    BY <2>1 DEF DriverOK
  <2>3. ~is_starting[d]
    BY <2>1, <2>2 DEF DriverOK, Inside, Constructing
  <2>4. \A i \in 1..Len(stack') : stack'[i].device # d
    BY <1>3, <1>4
  <2>. QED BY <1>1, <2>1, <2>3, <2>4 DEF DriverOK
<1>5. ASSUME NEW d \in Devices, d # Top.device PROVE DriverOK(d)'
  <2>1. DriverOK(d)
    BY DEF DriversInv, FlagsOK
  <2>. QED BY <1>1, <1>3, <1>5, <2>1, OthersKept
<1>. QED BY <1>3, <1>4, <1>5 DEF FlagsOK

LEMMA PublishKeeps ==
    ASSUME DriversInv, NEW s \in Sessions, Publish(s)
    PROVE  /\ stack' \in Seq(Frames) /\ StackOrdered' /\ FlagsOK'
           /\ \A e \in Devices : is_started[e] => is_started'[e]
           /\ is_started'[Top.device] /\ Top.device \in Devices
<1>1. /\ owner = s /\ stack # <<>> /\ Top.at = "publishing" /\ stack' = Below
      /\ UNCHANGED <<driver_tuple, is_starting, constructions>>
      /\ device_list' = [device_list EXCEPT ![Top.device] = TRUE]
      /\ is_started' = [is_started EXCEPT ![Top.device] = TRUE]
  BY DEF Publish, Nested, Leave, containerVars
<1>2. Top \in Frames /\ Top.device \in Devices /\ FrameOK(Top)
  BY <1>1, LastCall
<1>3. /\ \A e \in Devices : is_started[e] => is_started'[e]
      /\ is_started'[Top.device]
  BY <1>1, <1>2 DEF DriversInv, TypeOK
<1>4. /\ stack' \in Seq(Frames) /\ StackOrdered'
      /\ \A i \in 1..Len(stack') : stack'[i] = stack[i] /\ i \in 1..Len(stack)
      /\ \A i \in 1..Len(stack) : stack[i].device # Top.device =>
            i \in 1..Len(stack')
      /\ \A i \in 1..Len(stack') : stack[i].device # Top.device
      /\ Len(stack) \in 1..Len(stack) /\ Top = stack[Len(stack)]
  BY <1>1, <1>3, LeaveOrder
<1>5. ASSUME NEW d \in Devices, d = Top.device PROVE DriverOK(d)'
  <2>1. DriverOK(d)
    BY DEF DriversInv, FlagsOK
  <2>2. is_started'[d] /\ device_list'[d]
    BY <1>1, <1>5 DEF DriversInv, TypeOK
  <2>3. \A i \in 1..Len(stack') : stack'[i].device # d
    BY <1>4, <1>5
  <2>4. driver_tuple[d] /\ ~is_starting[d]
    <3>1. driver_tuple[d]
      BY <1>1, <1>4, <1>5, <2>1 DEF DriverOK
    <3>2. \A i \in 1..Len(stack) : stack[i].device = d => i = Len(stack)
      <4>1. \A i \in 1..Len(stack) : i # Len(stack) => i \in 1..(Len(stack) - 1)
        BY <1>1, LastCall
      <4>. QED BY <1>1, <1>5, <4>1, LastAlone
    <3>3. ~is_starting[d]
      BY <1>1, <1>4, <2>1, <3>2 DEF DriverOK, Constructing
    <3>. QED BY <3>1, <3>3
  <2>5. \A e \in Devices : Uses(d, e) => is_started'[e]
    <3>1. \A e \in Devices : ~Awaits(Top, e)
      BY <1>1, <1>2 DEF FrameOK, Awaits
    <3>. QED BY <1>2, <1>3, <1>5, <3>1 DEF FrameOK
  <2>. QED BY <1>1, <2>1, <2>2, <2>3, <2>4, <2>5 DEF DriverOK, Uses
<1>6. ASSUME NEW d \in Devices, d # Top.device PROVE DriverOK(d)'
  <2>1. DriverOK(d)
    BY DEF DriversInv, FlagsOK
  <2>2. is_started'[d] = is_started[d] /\ device_list'[d] = device_list[d]
    BY <1>1, <1>6 DEF DriversInv, TypeOK
  <2>. QED BY <1>1, <1>3, <1>4, <1>6, <2>1, <2>2, OthersKept
<1>. QED BY <1>2, <1>3, <1>4, <1>5, <1>6 DEF FlagsOK

-----------------------------------------------------------------------------
(* The sessions. *)

\* A step inside the outermost call leaves the sessions as they are.
LEMMA WithinOwned ==
    ASSUME DriversInv, NEW s \in Sessions, owner = s, stack # <<>>,
           stack' # <<>>, stack'[1].device = stack[1].device,
           UNCHANGED <<pc, command, seen, owner, is_started>>
    PROVE  StackOwned' /\ SeenOK'
<1>1. StackOwned'
  BY DEF DriversInv, StackOwned
<1>2. SeenOK'
  BY DEF DriversInv, SeenOK
<1>. QED BY <1>1, <1>2

\* The outermost call ends with the driver of the command.
LEMMA LeaveOwned ==
    ASSUME DriversInv, NEW s \in Sessions, owner = s, stack # <<>>, Leave(s),
           is_started'[Top.device], command' = command,
           \A e \in Devices : is_started[e] => is_started'[e],
           \A t \in Sessions : \A d \in seen'[t] : d \in seen[t] \/ d = Top.device
    PROVE  StackOwned' /\ SeenOK'
<1>1. /\ Len(stack) \in Nat /\ Len(stack) >= 1
      /\ Top = stack[Len(stack)] /\ pc[s] = "starting"
      /\ stack[1].device = command[s] /\ s # Nobody
  BY LastCall, DriversAssumption DEF DriversInv, StackOwned
<1>2. /\ Below = <<>> <=> Len(stack) = 1
      /\ \A i \in 1..(Len(stack) - 1) : Below[i] = stack[i]
  BY BelowFrames DEF DriversInv, TypeOK
<1>3. \A t \in Sessions : (pc[t] = "starting") <=> t = s
  BY DEF DriversInv, StackOwned
<1>4. stack' = Below
  BY DEF Leave
<1>5. CASE Below = <<>>
  <2>1. owner' = Nobody /\ pc' = [pc EXCEPT ![s] = "calling"]
    BY <1>5 DEF Leave, Go
  <2>2. \A t \in Sessions : pc'[t] = IF t = s THEN "calling" ELSE pc[t]
    BY <2>1 DEF DriversInv, TypeOK
  <2>3. StackOwned'
    BY <1>3, <1>4, <1>5, <2>1, <2>2, DriversAssumption DEF StackOwned
  <2>4. is_started'[command'[s]]
    BY <1>1, <1>2, <1>5
  <2>. QED BY <2>2, <2>3, <2>4 DEF DriversInv, SeenOK, TypeOK
<1>6. CASE Below # <<>>
  <2>1. owner' = owner /\ pc' = pc
    BY <1>6 DEF Leave
  <2>2. stack'[1] = stack[1] /\ stack' # <<>>
    <3>1. Len(stack) # 1
      BY <1>2, <1>6
    <3>2. \A n \in Nat : n >= 1 /\ n # 1 => 1 \in 1..(n - 1)
      OBVIOUS
    <3>3. 1 \in 1..(Len(stack) - 1)
      <4>1. Len(stack) \in Nat /\ Len(stack) >= 1
        BY <1>1
      <4>. QED BY <3>1, <3>2, <4>1
    <3>. QED BY <1>2, <1>4, <1>6, <3>3
  <2>3. StackOwned'
    BY <1>1, <1>3, <2>1, <2>2 DEF StackOwned
  <2>4. SeenOK'
    <3>1. \A t \in Sessions : \A d \in seen'[t] : is_started'[d]
      BY DEF DriversInv, SeenOK, TypeOK
    <3>2. ASSUME NEW t \in Sessions, pc'[t] \in {"calling", "waiting", "executing"}
          PROVE  is_started'[command'[t]]
      BY <2>1, <3>2 DEF DriversInv, SeenOK, TypeOK
    <3>. QED BY <3>1, <3>2 DEF SeenOK
  <2>. QED BY <2>3, <2>4
<1>. QED BY <1>5, <1>6

\* The test under the mutex is the start of a call for the command's driver.
LEMMA LockKeeps ==
    ASSUME DriversInv, NEW s \in Sessions, Lock(s)
    PROVE  DriversInv'
<1>. DEFINE f == Frame(command[s])
<1>1. /\ owner = Nobody /\ stack = <<>> /\ owner' = s /\ stack' = <<f>>
      /\ pc' = [pc EXCEPT ![s] = "starting"]
      /\ seen' = [seen EXCEPT ![s] = {d \in Devices : is_started[d]}]
      /\ UNCHANGED <<command, mutex, containerVars, managerVars, crashed>>
  BY DEF Lock, Go, DriversInv, StackOwned
<1>2. /\ command[s] \in Devices /\ f \in Frames /\ f.device = command[s]
      /\ f.at = "entering" /\ FrameOK(f)
  BY NewFrame DEF DriversInv, TypeOK
<1>. HIDE DEF f
<1>3. /\ stack' \in Seq(Frames) /\ Len(stack') = 1 /\ stack'[1] = f /\ stack' # <<>>
  BY <1>1, <1>2, SMT
<1>4. TypeOK'
  BY <1>1, <1>3 DEF DriversInv, TypeOK, containerVars, managerVars
<1>5. StackOwned'
  BY <1>1, <1>2, <1>3, DriversAssumption DEF DriversInv, TypeOK, StackOwned
<1>6. StackOrdered'
  <2>1. Top' = f
    BY <1>3 DEF Top
  <2>2. \A i \in 1..Len(stack') : FrameOK(stack'[i])
    BY <1>2, <1>3
  <2>3. \A i \in 1..Len(stack') : FrameOK(stack[i])'
    BY <1>1, <2>2 DEF FrameOK, managerVars
  <2>. QED BY <1>2, <1>3, <2>1, <2>3 DEF StackOrdered
<1>7. FlagsOK'
  <2>. SUFFICES ASSUME NEW d \in Devices PROVE DriverOK(d)'
    BY DEF FlagsOK
  <2>1. DriverOK(d) /\ Len(stack) = 0
    BY <1>1 DEF DriversInv, FlagsOK
  <2>2. \A i \in 1..Len(stack') : stack'[i].at = "entering"
    BY <1>2, <1>3
  <2>. QED BY <1>1, <2>1, <2>2
           DEF DriverOK, Inside, Constructing, containerVars, managerVars
<1>8. SeenOK'
  BY <1>1 DEF DriversInv, TypeOK, SeenOK, managerVars
<1>. QED BY <1>4, <1>5, <1>6, <1>7, <1>8 DEF DriversInv

LEMMA AllocKeeps ==
    ASSUME DriversInv, NEW s \in Sessions, Alloc(s)
    PROVE  DriversInv'
<1>1. CASE AlreadyStarted(s)
  <2>1. /\ owner = s /\ stack # <<>> /\ Leave(s) /\ is_started[Top.device]
        /\ UNCHANGED <<command, seen, mutex, containerVars, managerVars, crashed>>
    BY <1>1 DEF AlreadyStarted, Nested, Missing
  <2>2. stack' \in Seq(Frames) /\ StackOrdered' /\ FlagsOK'
    BY <1>1, AlreadyStartedKeeps
  <2>3. StackOwned' /\ SeenOK'
    BY <2>1, LeaveOwned DEF managerVars
  <2>4. TypeOK'
    BY <2>1, <2>2 DEF DriversInv, TypeOK, Leave, Go, containerVars, managerVars
  <2>. QED BY <2>2, <2>3, <2>4 DEF DriversInv
<1>2. CASE Construct(s)
  <2>1. /\ owner = s /\ stack # <<>>
        /\ UNCHANGED <<sessionVars, driver_tuple, managerVars, owner, crashed>>
    BY <1>2 DEF Construct, Nested
  <2>2. /\ stack' \in Seq(Frames) /\ StackOrdered' /\ FlagsOK'
        /\ stack' # <<>> /\ stack'[1].device = stack[1].device
    BY <1>2, ConstructKeeps
  <2>3. StackOwned' /\ SeenOK'
    BY <2>1, <2>2, WithinOwned DEF sessionVars, managerVars
  <2>4. TypeOK'
    <3>1. Top.device \in Devices
      BY <2>1, LastCall
    <3>. QED BY <1>2, <2>1, <2>2, <3>1
             DEF DriversInv, TypeOK, Construct, sessionVars, managerVars
  <2>. QED BY <2>2, <2>3, <2>4 DEF DriversInv
<1>3. CASE AllocFirst(s)
  <2>1. /\ owner = s /\ stack # <<>>
        /\ UNCHANGED <<sessionVars, containerVars, managerVars, owner, crashed>>
    BY <1>3 DEF AllocFirst, Nested
  <2>2. /\ stack' \in Seq(Frames) /\ StackOrdered' /\ FlagsOK'
        /\ stack' # <<>> /\ stack'[1].device = stack[1].device
    BY <1>3, AllocFirstKeeps
  <2>3. StackOwned' /\ SeenOK'
    BY <2>1, <2>2, WithinOwned DEF sessionVars, managerVars
  <2>4. TypeOK'
    BY <2>1, <2>2 DEF DriversInv, TypeOK, sessionVars, containerVars, managerVars
  <2>. QED BY <2>2, <2>3, <2>4 DEF DriversInv
<1>4. CASE Refer(s)
  <2>1. /\ owner = s /\ stack # <<>>
        /\ UNCHANGED <<sessionVars, containerVars, managerVars, owner, crashed>>
    BY <1>4 DEF Refer, Nested
  <2>2. /\ stack' \in Seq(Frames) /\ StackOrdered' /\ FlagsOK'
        /\ stack' # <<>> /\ stack'[1].device = stack[1].device
    BY <1>4, ReferKeeps
  <2>3. StackOwned' /\ SeenOK'
    BY <2>1, <2>2, WithinOwned DEF sessionVars, managerVars
  <2>4. TypeOK'
    BY <2>1, <2>2 DEF DriversInv, TypeOK, sessionVars, containerVars, managerVars
  <2>. QED BY <2>2, <2>3, <2>4 DEF DriversInv
<1>5. CASE Constructed(s)
  <2>1. /\ owner = s /\ stack # <<>>
        /\ is_starting' = [is_starting EXCEPT ![Top.device] = FALSE]
        /\ driver_tuple' = [driver_tuple EXCEPT ![Top.device] = TRUE]
        /\ UNCHANGED <<sessionVars, constructions, managerVars, owner, crashed>>
    BY <1>5 DEF Constructed, Nested
  <2>2. /\ stack' \in Seq(Frames) /\ StackOrdered' /\ FlagsOK'
        /\ stack' # <<>> /\ stack'[1].device = stack[1].device
    BY <1>5, ConstructedKeeps
  <2>3. StackOwned' /\ SeenOK'
    BY <2>1, <2>2, WithinOwned DEF sessionVars, managerVars
  <2>4. TypeOK'
    BY <2>1, <2>2 DEF DriversInv, TypeOK, sessionVars, managerVars
  <2>. QED BY <2>2, <2>3, <2>4 DEF DriversInv
<1>6. CASE Publish(s)
  <2>1. /\ owner = s /\ stack # <<>> /\ Leave(s)
        /\ device_list' = [device_list EXCEPT ![Top.device] = TRUE]
        /\ is_started' = [is_started EXCEPT ![Top.device] = TRUE]
        /\ seen' = [seen EXCEPT ![s] = @ \cup {Top.device}]
        /\ UNCHANGED <<command, mutex, containerVars, crashed>>
    BY <1>6 DEF Publish, Nested
  <2>2. /\ stack' \in Seq(Frames) /\ StackOrdered' /\ FlagsOK'
        /\ \A e \in Devices : is_started[e] => is_started'[e]
        /\ is_started'[Top.device] /\ Top.device \in Devices
    BY <1>6, PublishKeeps
  <2>3. \A t \in Sessions : \A d \in seen'[t] : d \in seen[t] \/ d = Top.device
    BY <2>1 DEF DriversInv, TypeOK
  <2>4. StackOwned' /\ SeenOK'
    BY <2>1, <2>2, <2>3, LeaveOwned
  <2>5. /\ is_started' \in [Devices -> BOOLEAN] /\ device_list' \in [Devices -> BOOLEAN]
        /\ seen' \in [Sessions -> SUBSET Devices]
    BY <2>1, <2>2 DEF DriversInv, TypeOK
  <2>6. /\ owner' \in Sessions \cup {Nobody}
        /\ pc' \in [Sessions -> {"idle", "testing", "locking", "starting", "calling",
                                 "waiting", "executing"}]
    BY <2>1 DEF DriversInv, TypeOK, Leave, Go
  <2>7. TypeOK'
    BY <2>1, <2>2, <2>5, <2>6 DEF DriversInv, TypeOK, containerVars
  <2>. QED BY <2>2, <2>4, <2>7 DEF DriversInv
<1>. QED BY <1>1, <1>2, <1>3, <1>4, <1>5, <1>6 DEF Alloc

\* A step outside alloc_driver leaves its calls and flags alone.
LEMMA QuietKeeps ==
    ASSUME DriversInv, UNCHANGED <<containerVars, managerVars, owner, stack>>
    PROVE  StackOrdered' /\ FlagsOK'
<1>1. StackOrdered'
  BY DEF DriversInv, StackOrdered, FrameOK, Top, managerVars
<1>2. FlagsOK'
  BY DEF DriversInv, FlagsOK, DriverOK, containerVars, managerVars
<1>. QED BY <1>1, <1>2

\* What a session does outside alloc_driver.
LEMMA SessionKeeps ==
    ASSUME DriversInv, NEW s \in Sessions,
           \/ \E d \in Devices : Receive(s, d)
           \/ TestStarted(s) \/ Call(s) \/ CallNull(s) \/ Execute(s) \/ Return(s)
    PROVE  DriversInv'
<1>1. UNCHANGED <<containerVars, managerVars, owner, stack>>
  BY DEF Receive, TestStarted, Call, CallNull, Execute, Return
<1>2. StackOrdered' /\ FlagsOK'
  BY <1>1, QuietKeeps
<1>3. CASE \E d \in Devices : Receive(s, d)
  <2>1. PICK d \in Devices : Receive(s, d)
    BY <1>3
  <2>2. TypeOK'
    BY <2>1 DEF Receive, Go, DriversInv, TypeOK, containerVars, managerVars
  <2>3. StackOwned' /\ SeenOK'
    BY <1>1, <2>1 DEF Receive, Go, DriversInv, TypeOK, StackOwned, SeenOK, managerVars
  <2>. QED BY <1>2, <2>2, <2>3 DEF DriversInv
<1>4. CASE TestStarted(s)
  <2>1. TypeOK'
    BY <1>4 DEF TestStarted, Go, DriversInv, TypeOK, containerVars, managerVars
  <2>2. StackOwned' /\ SeenOK'
    BY <1>1, <1>4
       DEF TestStarted, Go, DriversInv, TypeOK, StackOwned, SeenOK, managerVars
  <2>. QED BY <1>2, <2>1, <2>2 DEF DriversInv
<1>5. CASE Call(s)
  <2>1. TypeOK'
    BY <1>5 DEF Call, Go, DriversInv, TypeOK, containerVars, managerVars
  <2>2. StackOwned' /\ SeenOK'
    BY <1>1, <1>5
       DEF Call, Go, DriversInv, TypeOK, StackOwned, SeenOK, managerVars
  <2>. QED BY <1>2, <2>1, <2>2 DEF DriversInv
<1>6. CASE CallNull(s)
  BY <1>1, <1>2, <1>6
     DEF CallNull, DriversInv, TypeOK, StackOwned, SeenOK, sessionVars,
         containerVars, managerVars
<1>7. CASE Execute(s)
  <2>1. TypeOK'
    BY <1>7 DEF Execute, Go, DriversInv, TypeOK, containerVars, managerVars
  <2>2. StackOwned' /\ SeenOK'
    BY <1>1, <1>7
       DEF Execute, Go, DriversInv, TypeOK, StackOwned, SeenOK, managerVars
  <2>. QED BY <1>2, <2>1, <2>2 DEF DriversInv
<1>8. CASE Return(s)
  <2>1. TypeOK'
    BY <1>8 DEF Return, Go, DriversInv, TypeOK, containerVars, managerVars
  <2>2. StackOwned' /\ SeenOK'
    BY <1>1, <1>8
       DEF Return, Go, DriversInv, TypeOK, StackOwned, SeenOK, managerVars
  <2>. QED BY <1>2, <2>1, <2>2 DEF DriversInv
<1>. QED BY <1>3, <1>4, <1>5, <1>6, <1>7, <1>8

-----------------------------------------------------------------------------
(* The theorems. *)

LEMMA InitDrivers == Init => DriversInv
<1>. SUFFICES ASSUME Init PROVE DriversInv
  OBVIOUS
<1>1. TypeOK
  <2>1. /\ is_started \in [Devices -> BOOLEAN] /\ device_list \in [Devices -> BOOLEAN]
        /\ is_starting \in [Devices -> BOOLEAN] /\ driver_tuple \in [Devices -> BOOLEAN]
        /\ constructions \in [Devices -> Nat]
    <3>1. /\ is_started \in [Devices -> BOOLEAN] /\ is_starting \in [Devices -> BOOLEAN]
      BY DEF Init
    <3>2. device_list = is_started /\ driver_tuple = is_started
      BY DEF Init
    <3>3. constructions \in [Devices -> Nat]
      BY DEF Init
    <3>. QED BY <3>1, <3>2, <3>3
  <2>2. stack \in Seq(Frames)
    BY EmptySeq DEF Init
  <2>. QED BY <2>1, <2>2, DriversAssumption DEF Init, TypeOK
<1>2. StackOwned
  BY DriversAssumption DEF Init, StackOwned
<1>3. Len(stack) = 0
  BY DEF Init
<1>4. StackOrdered
  BY <1>3 DEF Init, StackOrdered
<1>5. FlagsOK
  <2>. SUFFICES ASSUME NEW d \in Devices PROVE DriverOK(d)
    BY DEF FlagsOK
  <2>1. \A e \in Devices : ~Uses(Common, e)
    BY DepsAssumption DEF Uses
  <2>2. /\ is_started[d] <=> d = Common
        /\ device_list[d] = is_started[d] /\ driver_tuple[d] = is_started[d]
        /\ ~is_starting[d]
        /\ constructions[d] = IF d = Common THEN 1 ELSE 0
    BY DEF Init
  <2>. QED BY <1>3, <2>1, <2>2 DEF DriverOK
<1>6. SeenOK
  BY DriversAssumption DEF Init, SeenOK
<1>. QED BY <1>1, <1>2, <1>4, <1>5, <1>6 DEF DriversInv

LEMMA NextDrivers == DriversInv /\ [Next]_vars => DriversInv'
<1>. SUFFICES ASSUME DriversInv, [Next]_vars PROVE DriversInv'
  OBVIOUS
<1>1. CASE Next
  <2>1. PICK s \in Sessions : Session(s) \/ \E d \in Devices : Receive(s, d)
    BY <1>1 DEF Next
  <2>. QED BY <2>1, LockKeeps, AllocKeeps, SessionKeeps DEF Session
<1>2. CASE UNCHANGED vars
  <2>1. UNCHANGED <<containerVars, managerVars, owner, stack>>
    BY <1>2 DEF vars
  <2>2. StackOrdered' /\ FlagsOK'
    BY <2>1, QuietKeeps
  <2>. QED BY <1>2, <2>2 DEF vars, sessionVars, containerVars, managerVars,
                             DriversInv, TypeOK, StackOwned, SeenOK
<1>. QED BY <1>1, <1>2

\* The nested calls of alloc_driver, the flags of DriverManager and of
\* DriverContainer, and what the sessions know of them agree, for any number of
\* sessions and any drivers without a circle.
THEOREM DriversInOrder == Spec => []DriversInv
<1>. QED BY InitDrivers, NextDrivers, PTL DEF Spec

\* Each constructor runs at most once (DriverContainer::alloc).
THEOREM DriversConstructedOnce == Spec => []ConstructedOnce
<1>1. DriversInv => ConstructedOnce
  BY DEF DriversInv, FlagsOK, DriverOK, ConstructedOnce
<1>. QED BY <1>1, DriversInOrder, PTL

\* A driver that runs a command (DriverManager::execute) is there, and so are
\* the drivers it uses.
THEOREM DriversReadyWhenUsed == Spec => []ReadyWhenUsed
<1>1. DriversInv => ReadyWhenUsed
  <2>. SUFFICES ASSUME DriversInv, NEW s \in Sessions,
                       pc[s] \in {"waiting", "executing"}
                PROVE  /\ driver_tuple[command[s]]
                       /\ \A i \in 1..Len(Deps[command[s]]) :
                             driver_tuple[Deps[command[s]][i]]
    BY DEF ReadyWhenUsed
  <2>. DEFINE d == command[s]
  <2>1. d \in Devices /\ is_started[d]
    BY DEF DriversInv, TypeOK, SeenOK
  <2>2. \A i \in 1..Len(Deps[d]) : Deps[d][i] \in Devices
    BY <2>1, DepsAssumption, SMT
  <2>. HIDE DEF d
  <2>3. \A e \in Devices : is_started[e] => driver_tuple[e]
    BY DEF DriversInv, FlagsOK, DriverOK
  <2>4. \A e \in Devices : Uses(d, e) => is_started[e]
    BY <2>1 DEF DriversInv, FlagsOK, DriverOK
  <2>5. \A i \in 1..Len(Deps[d]) : driver_tuple[Deps[d][i]]
    BY <2>2, <2>3, <2>4 DEF Uses
  <2>. QED BY <2>1, <2>3, <2>5 DEF d
<1>. QED BY <1>1, DriversInOrder, PTL

\* The two tests of DriverContainer::alloc, for a driver it has and for a circle
\* of drivers, never succeed.
THEOREM DriversNeverCircular == Spec => []NeverCircular
<1>1. DriversInv => NeverCircular
  <2>. SUFFICES ASSUME DriversInv, stack # <<>>, Top.at = "entering",
                       Missing(Top.device),
                       is_starting[Top.device] \/ driver_tuple[Top.device]
                PROVE  FALSE
    BY DEF NeverCircular
  <2>1. owner \in Sessions
    BY DEF DriversInv, TypeOK, StackOwned
  <2>2. /\ Len(stack) \in Nat /\ Len(stack) >= 1
        /\ Top = stack[Len(stack)] /\ Top.device \in Devices
    BY <2>1, LastCall
  <2>3. PICK i \in 1..Len(stack) : stack[i].device = Top.device /\ Inside(stack[i])
    BY <2>2 DEF DriversInv, FlagsOK, DriverOK, Constructing, Inside, Missing
  <2>4. i # Len(stack)
    BY <2>2, <2>3 DEF Inside
  <2>5. i \in 1..(Len(stack) - 1)
    BY <2>2, <2>4
  <2>. QED BY <2>1, <2>3, <2>5, LastAlone
<1>. QED BY <1>1, DriversInOrder, PTL

=============================================================================
