--------------------------- MODULE SessionsProofs ---------------------------
(***************************************************************************)
(* Sessions, for every number of clients, channels and workers: the        *)
(* SessionManager keeps its ids in order through every interleaving of the *)
(* session threads and the shutdown, and until a shutdown every session    *)
(* thread has the session it created.                                      *)
(***************************************************************************)
EXTENDS Sessions, FiniteSetTheorems, SequenceTheorems, TLAPS

-----------------------------------------------------------------------------
(* What the mutex says about the ids in hand. *)

\* While nobody is inside the manager no id is in hand and the count is exact.
LEMMA NobodyInside ==
    ASSUME TypeOK, MutexOK, main # "aborted", mutex = Nobody
    PROVE  InHand = {} /\ Miscount = 0
<1>1. \A c \in Clients : thread[c] \notin InManager
  BY ClientAssumption DEF MutexOK, Inside
<1>2. main \notin {"erasing", "returning"}
  BY ClientAssumption DEF MutexOK, Inside
<1>. QED BY <1>1, <1>2 DEF InHand, Miscount, InManager

\* One session thread inside the manager keeps everybody else out ...
LEMMA ThreadAlone ==
    ASSUME MutexOK, main # "aborted", NEW c \in Clients, thread[c] \in InManager
    PROVE  /\ mutex = c
           /\ \A d \in Clients : d # c => thread[d] \notin InManager
           /\ main \notin {"erasing", "returning"}
<1>1. mutex = c
  BY ClientAssumption DEF MutexOK, Inside
<1>. QED BY <1>1, ClientAssumption DEF MutexOK, Inside

\* ... and so does the main thread.
LEMMA MainAlone ==
    ASSUME MutexOK, main \in {"erasing", "returning"}
    PROVE  /\ mutex = Main
           /\ \A d \in Clients : thread[d] \notin InManager
<1>1. mutex = Main
  BY ClientAssumption DEF MutexOK, Inside
<1>. QED BY <1>1, ClientAssumption DEF MutexOK, Inside

\* While a session thread is inside, the id in hand can only be its own.
LEMMA ThreadInside ==
    ASSUME TypeOK, MutexOK, main # "aborted", NEW c \in Clients,
           thread[c] \in InManager
    PROVE  /\ InHand = IF thread[c] \in {"inserting", "returning"}
                       THEN {sid[c]} ELSE {}
           /\ Miscount = IF thread[c] = "counting" THEN -1
                         ELSE IF thread[c] = "returning" THEN 1 ELSE 0
<1>2. \A d \in Clients : d # c => thread[d] \notin InManager
  BY ThreadAlone
<1>3. main \notin {"erasing", "returning"}
  BY ThreadAlone
<1>4. {d \in Clients : thread[d] \in {"inserting", "returning"}}
        = IF thread[c] \in {"inserting", "returning"} THEN {c} ELSE {}
  BY <1>2 DEF InManager
<1>5. InHand = IF thread[c] \in {"inserting", "returning"} THEN {sid[c]} ELSE {}
  BY <1>3, <1>4 DEF InHand
<1>6. Miscount = IF thread[c] = "counting" THEN -1
                 ELSE IF thread[c] = "returning" THEN 1 ELSE 0
  BY <1>2, <1>3 DEF Miscount, InManager
<1>. QED BY <1>5, <1>6

\* While the main thread is inside, it can only be the id it is deleting.
LEMMA MainInside ==
    ASSUME TypeOK, MutexOK, main \in {"erasing", "returning"}
    PROVE  /\ InHand = IF main = "returning" THEN {First} ELSE {}
           /\ Miscount = IF main = "returning" THEN 1 ELSE 0
<1>2. \A d \in Clients : thread[d] \notin InManager
  BY MainAlone
<1>. QED BY <1>2 DEF InHand, Miscount, InManager

\* The id of a new session is a new one: neither allocated nor still reusable.
LEMMA NewIdIsFree ==
    ASSUME ManagerInv, main # "aborted", mutex = Nobody
    PROVE  /\ NewId \in SessionID
           /\ NewId \notin Allocated
           /\ StillReusable \in Seq(SessionID)
           /\ \A i \in 1..Len(StillReusable) :
                 i \in 1..Len(reusable_ids) /\ StillReusable[i] = reusable_ids[i]
           /\ \A i \in 1..Len(StillReusable) : StillReusable[i] # NewId
           /\ {StillReusable[i] : i \in 1..Len(StillReusable)} = Reusable \ {NewId}
           /\ Len(StillReusable) + 1 =
                IF reusable_ids = <<>> THEN 1 ELSE Len(reusable_ids)
           /\ Allocated \cup Reusable \cup {NewId} =
                0..(Cardinality(Allocated) + Len(StillReusable))
<1>0. InHand = {} /\ Miscount = 0
  BY NobodyInside DEF ManagerInv
<1>1. /\ Cardinality(Allocated) \in Nat /\ reusable_ids \in Seq(Nat)
      /\ Len(reusable_ids) \in Nat
  BY FS_CardinalityType DEF ManagerInv, TypeOK, SessionID
<1>2. /\ number_of_sessions = Cardinality(Allocated)
      /\ Allocated \cup Reusable
            = 0..(Cardinality(Allocated) + Len(reusable_ids) - 1)
      /\ Allocated \cap Reusable = {}
      /\ \A i, j \in 1..Len(reusable_ids) :
            i # j => reusable_ids[i] # reusable_ids[j]
  BY <1>0, <1>1 DEF ManagerInv, PoolInv, IdsGiven
<1>3. CASE reusable_ids = <<>>
  <2>1. Len(reusable_ids) = 0 /\ Reusable = {}
    BY <1>3 DEF Reusable
  <2>2. /\ NewId = number_of_sessions /\ StillReusable = <<>>
        /\ Len(StillReusable) = 0
    BY <1>3 DEF NewId, StillReusable
  <2>. QED BY <1>1, <1>2, <1>3, <2>1, <2>2, SMT DEF SessionID
<1>4. CASE reusable_ids # <<>>
  <2>. DEFINE k == Len(reusable_ids)
  <2>1. k \in Nat /\ k >= 1 /\ \A i \in 1..k : reusable_ids[i] \in Nat
    BY <1>1, <1>4, SMT
  <2>2. NewId = reusable_ids[k] /\ StillReusable = SubSeq(reusable_ids, 1, k - 1)
    BY <1>4 DEF NewId, StillReusable
  <2>3. /\ StillReusable \in Seq(Nat) /\ Len(StillReusable) = k - 1
        /\ \A i \in 1..(k - 1) : StillReusable[i] = reusable_ids[i]
    <3>1. \A i \in 1..(k - 1) : reusable_ids[i] \in Nat
      BY <2>1
    <3>2. k - 1 \in Int /\ 1 \in Int
      BY <2>1
    <3>. HIDE DEF k
    <3>3. /\ SubSeq(reusable_ids, 1, k - 1) \in Seq(Nat)
          /\ Len(SubSeq(reusable_ids, 1, k - 1)) = IF 1 <= k - 1 THEN k - 1 - 1 + 1 ELSE 0
          /\ \A i \in 1..(k - 1 - 1 + 1) :
                SubSeq(reusable_ids, 1, k - 1)[i] = reusable_ids[1 + i - 1]
      BY <3>1, <3>2, SubSeqProperties
    <3>. QED BY <2>1, <2>2, <3>3, SMT
  <2>4. NewId \in Reusable
    BY <2>1, <2>2 DEF Reusable
  <2>5. {StillReusable[i] : i \in 1..(k - 1)} = Reusable \ {NewId}
    BY <1>2, <2>1, <2>2, <2>3, SMT DEF Reusable
  <2>6. \A i \in 1..(k - 1) : StillReusable[i] # NewId
    BY <1>2, <2>1, <2>2, <2>3, SMT
  <2>7. NewId \in SessionID /\ NewId \notin Allocated
    BY <1>2, <2>1, <2>2, <2>4 DEF SessionID
  <2>8. \A i \in 1..(k - 1) :
           i \in 1..k /\ StillReusable[i] = reusable_ids[i]
    BY <2>1, <2>3, SMT
  <2>9. Allocated \cup Reusable \cup {NewId}
          = 0..(Cardinality(Allocated) + (k - 1))
    BY <1>1, <1>2, <2>1, <2>4, SMT
  <2>. QED BY <1>4, <2>1, <2>3, <2>5, <2>6, <2>7, <2>8, <2>9 DEF SessionID
<1>. QED BY <1>3, <1>4

-----------------------------------------------------------------------------
(* The pool. *)

\* A step that changes neither the manager's lists nor an actor that makes or
\* deletes a session keeps PoolInv.
LEMMA QuietPool ==
    ASSUME PoolInv, main # "aborted",
           UNCHANGED <<session_pool, reusable_ids, number_of_sessions>>,
           main = "returning" <=> main' = "returning",
           main = "returning" => ids' = ids,
           \A c \in Clients :
              \/ thread'[c] = thread[c] /\ sid'[c] = sid[c]
              \/ /\ thread[c] \notin {"inserting", "returning", "counting"}
                 /\ thread'[c] \notin {"inserting", "returning", "counting"}
    PROVE  PoolInv'
<1>1. InHand' = InHand
  <2>1. {d \in Clients : thread'[d] \in {"inserting", "returning"}}
          = {d \in Clients : thread[d] \in {"inserting", "returning"}}
    OBVIOUS
  <2>2. \A d \in Clients : thread[d] \in {"inserting", "returning"} => sid'[d] = sid[d]
    OBVIOUS
  <2>3. main = "returning" => First' = First
    BY DEF First
  <2>. QED BY <2>1, <2>2, <2>3 DEF InHand
<1>2. Miscount' = Miscount
  BY DEF Miscount
<1>. QED BY <1>1, <1>2 DEF PoolInv, IdsGiven, Allocated, Reusable

\* A session erased from the pool leaves its id in hand and the count one up.
LEMMA ErasePool ==
    ASSUME TypeOK, PoolInv, main # "aborted", NEW id \in Allocated,
           InHand = {}, Miscount = 0,
           session_pool' = Erase(id),
           UNCHANGED <<reusable_ids, number_of_sessions>>,
           InHand' = {id}, Miscount' = 1
    PROVE  PoolInv'
<1>1. Allocated' = Allocated \ {id}
  BY DEF Allocated, Erase
<1>2. /\ Cardinality(Allocated) \in Nat /\ Len(reusable_ids) \in Nat
      /\ Cardinality(Allocated') = Cardinality(Allocated) - 1
  <2>1. Cardinality(Allocated) \in Nat /\ Len(reusable_ids) \in Nat
    BY FS_CardinalityType DEF TypeOK
  <2>2. Cardinality(Allocated \ {id}) = Cardinality(Allocated) - 1
    BY FS_RemoveElement, id \in Allocated DEF TypeOK
  <2>. QED BY <1>1, <2>1, <2>2
<1>3. Reusable' = Reusable /\ Len(reusable_ids') = Len(reusable_ids)
  BY DEF Reusable
<1>4. /\ Allocated \cap Reusable = {}
      /\ Allocated \cup Reusable
            = 0..(Cardinality(Allocated) + Len(reusable_ids) - 1)
      /\ number_of_sessions = Cardinality(Allocated)
  BY <1>2 DEF PoolInv, IdsGiven
<1>5. /\ Allocated' \cap Reusable' = {}
      /\ InHand' \cap (Allocated' \cup Reusable') = {}
      /\ Allocated' \cup Reusable' \cup InHand' = Allocated \cup Reusable
  BY <1>1, <1>3, <1>4
<1>6. /\ IdsGiven' = Cardinality(Allocated) + Len(reusable_ids)
      /\ number_of_sessions' = Cardinality(Allocated') + Miscount'
  BY <1>2, <1>3, <1>4 DEF IdsGiven
<1>. QED BY <1>4, <1>5, <1>6 DEF PoolInv

\* The id in hand becomes reusable and the count exact again.
LEMMA ReturnPool ==
    ASSUME TypeOK, PoolInv, main # "aborted", NEW id \in SessionID,
           InHand = {id}, Miscount = 1,
           ReturnsId(id), UNCHANGED session_pool,
           InHand' = {}, Miscount' = 0
    PROVE  PoolInv'
<1>. DEFINE k == Len(reusable_ids)
<1>1. /\ k \in Nat /\ Len(reusable_ids') = k + 1
      /\ \A i \in 1..k : reusable_ids'[i] = reusable_ids[i]
      /\ reusable_ids'[k + 1] = id
  BY AppendProperties DEF TypeOK, ReturnsId
<1>2. Allocated' = Allocated /\ Cardinality(Allocated) \in Nat
  BY FS_CardinalityType DEF Allocated, TypeOK
<1>3. Reusable' = Reusable \cup {id}
  BY <1>1, SMT DEF Reusable
<1>4. id \notin Allocated /\ id \notin Reusable
  BY DEF PoolInv
<1>5. \A i \in 1..k : reusable_ids[i] # id
  BY <1>4 DEF Reusable
<1>6. \A i, j \in 1..(k + 1) : i # j => reusable_ids'[i] # reusable_ids'[j]
  BY <1>1, <1>5, SMT DEF PoolInv
<1>7. IdsGiven' = IdsGiven
  BY <1>1, <1>2, SMT DEF IdsGiven
<1>8. number_of_sessions' = Cardinality(Allocated') + Miscount'
  BY <1>2, SMT DEF ReturnsId, PoolInv
<1>. QED BY <1>1, <1>2, <1>3, <1>4, <1>6, <1>7, <1>8 DEF PoolInv

-----------------------------------------------------------------------------
(* Types. *)

\* A process that aborts changes nothing else.
LEMMA AbortType == TypeOK /\ Abort => TypeOK'
BY DEF TypeOK, Abort, Allocated, MainStates, listenerVars, managerVars

\* A fault stops its thread where it is.
LEMMA FaultTypes ==
    ASSUME TypeOK
    PROVE  /\ \A c \in Clients : Faults(c) => TypeOK'
           /\ MainFaults => TypeOK'
<1>1. ASSUME NEW c \in Clients, Faults(c) PROVE TypeOK'
  BY <1>1 DEF TypeOK, Faults, ThreadStates, Allocated, listenerVars, managerVars,
     mainVars
<1>2. ASSUME MainFaults PROVE TypeOK'
  BY <1>2 DEF TypeOK, MainFaults, MainStates, Allocated, listenerVars, managerVars
<1>. QED BY <1>1, <1>2

\* A session thread, or the client it serves, takes a step.
LEMMA SessionTypes ==
    ASSUME ManagerInv, main # "aborted", NEW c \in Clients, Client(c) \/ Session(c)
    PROVE  TypeOK'
<1>. USE ClientAssumption DEF ManagerInv, TypeOK, SessionID, ThreadStates,
         HasId, InManager, Go, listenerVars, managerVars, mainVars
<1>1. CASE Leave(c)
  BY <1>1, SMT DEF Leave, Allocated
<1>2. CASE RunLeaves(c)
  BY <1>2, SMT DEF RunLeaves, Allocated
<1>3. CASE Start(c)
  BY <1>3, SMT DEF Start, Allocated
<1>4. CASE Create(c)
  <2>. USE <1>4 DEF Create
  <2>1. NewId \in Nat /\ StillReusable \in Seq(Nat)
    BY NewIdIsFree
  <2>. HIDE DEF SessionID
  <2>. QED BY <2>1, SMT DEF Allocated, SessionID
<1>5. CASE Insert(c)
  <2>. USE <1>5 DEF Insert
  <2>1. Allocated' = Allocated \cup {sid[c]}
    BY DEF Allocated
  <2>2. IsFiniteSet(Allocated') /\ Allocated' \subseteq Nat
    <3>1. sid[c] \in Nat /\ Allocated \subseteq Nat /\ IsFiniteSet(Allocated)
      OBVIOUS
    <3>2. IsFiniteSet(Allocated \cup {sid[c]})
      BY <3>1, FS_AddElement
    <3>. QED BY <2>1, <3>1, <3>2
  <2>3. session_pool' \in [Allocated' -> Clients]
    BY <2>1 DEF Allocated
  <2>. QED BY <2>2, <2>3, SMT
<1>6. CASE Count(c)
  BY <1>6, SMT DEF Count, Allocated
<1>7. CASE LookUp(c)
  BY <1>7, SMT DEF LookUp, Allocated
<1>8. CASE LookUpFails(c)
  BY <1>8, AbortType, FaultTypes DEF LookUpFails
<1>9. CASE RunEnds(c)
  BY <1>9, SMT DEF RunEnds, Allocated
<1>10. CASE RunsFreed(c)
  <2>1. CASE Abort
    BY <2>1, AbortType
  <2>2. CASE /\ Go(c, "deleting")
             /\ UNCHANGED <<client, listenerVars, number_of_threads, sid,
                            socket, exit_signal, managerVars, mainVars>>
    BY <2>2, SMT DEF Allocated
  <2>3. CASE Faults(c)
    BY <2>3, FaultTypes
  <2>. QED BY <1>10, <2>1, <2>2, <2>3 DEF RunsFreed
<1>11. CASE Delete(c)
  <2>1. CASE FindsSession(c, sid[c]) /\ Go(c, "erasing")
    BY <1>11, <2>1, SMT DEF Delete, FindsSession, Allocated
  <2>2. CASE FindsNone(sid[c]) /\ Go(c, "leaving")
    BY <1>11, <2>2, SMT DEF Delete, FindsNone, Allocated
  <2>. QED BY <1>11, <2>1, <2>2 DEF Delete
<1>12. CASE EraseOwn(c)
  <2>. USE <1>12 DEF EraseOwn
  <2>1. Allocated' = Allocated \ {sid[c]}
    BY DEF Allocated, Erase
  <2>2. IsFiniteSet(Allocated') /\ Allocated' \subseteq Nat
    BY <2>1, FS_RemoveElement
  <2>3. session_pool' \in [Allocated' -> Clients]
    BY <2>1 DEF Allocated, Erase
  <2>. QED BY <2>2, <2>3, SMT
<1>13. CASE ReturnOwn(c)
  BY <1>13, SMT DEF ReturnOwn, ReturnsId, Allocated
<1>14. CASE Finish(c)
  BY <1>14, SMT DEF Finish, Allocated
<1>. QED BY <1>1, <1>2, <1>3, <1>4, <1>5, <1>6, <1>7, <1>8, <1>9, <1>10, <1>11,
   <1>12, <1>13, <1>14 DEF Client, Session

\* So does a listener ...
LEMMA ListenerTypes ==
    ASSUME ManagerInv, NEW ch \in Channels, Listener(ch)
    PROVE  TypeOK'
<1>. USE ClientAssumption DEF ManagerInv, TypeOK, SessionID, ThreadStates,
         Go, Listen, Allocated, listenerVars, managerVars, mainVars
<1>1. CASE TestExit(ch)
  BY <1>1, SMT DEF TestExit
<1>2. CASE TestAccepted(ch)
  BY <1>2, SMT DEF TestAccepted
<1>3. CASE Admit(ch)
  <2>1. thread' \in [Clients -> ThreadStates]
    BY <1>3 DEF Admit
  <2>2. listener' \in [Channels -> {"loop", "accepting", "testing", "admitting", "closed"}]
        /\ accepted' \in [Channels -> Clients \cup {Nobody}]
    BY <1>3 DEF Admit
  <2>. QED BY <1>3, <2>1, <2>2 DEF Admit
<1>4. CASE AcceptLost(ch) \/ AcceptWoken(ch)
  <2>1. NoDescriptor(ch)
    BY <1>4 DEF AcceptLost, AcceptWoken
  <2>. QED BY <2>1, SMT DEF NoDescriptor
<1>5. CASE \E c \in Clients : Accept(ch, c)
  BY <1>5, SMT DEF Accept
<1>. QED BY <1>1, <1>2, <1>3, <1>4, <1>5 DEF Listener, ListenerRuns

\* ... and the main thread.
LEMMA MainTypes ==
    ASSUME ManagerInv, main # "aborted", Interrupt \/ Shutdown
    PROVE  TypeOK'
<1>. USE ClientAssumption DEF ManagerInv, TypeOK, SessionID, MainStates,
         MainGoes, listenerVars, managerVars, mainVars
<1>1. CASE Interrupt
  BY <1>1, SMT DEF Interrupt, Allocated
<1>2. CASE CountsAll
  BY <1>2, SMT DEF CountsAll, Allocated
<1>3. CASE ListIds
  BY <1>3, SMT DEF ListIds, Allocated
<1>4. CASE ListingFails
  BY <1>4, AbortType, FaultTypes DEF ListingFails
<1>5. CASE DeleteFirst
  <2>1. CASE FindsSession(Main, First) /\ main' = "erasing" /\ UNCHANGED ids
    BY <1>5, <2>1, SMT DEF DeleteFirst, FindsSession, Allocated
  <2>2. CASE FindsNone(First) /\ main' = "deleting" /\ ids' = ids \ {First}
    <3>1. IsFiniteSet(ids') /\ ids' \subseteq Nat
      BY <2>2, FS_RemoveElement
    <3>. QED BY <1>5, <2>2, <3>1, SMT DEF DeleteFirst, FindsNone, Allocated
  <2>. QED BY <1>5, <2>1, <2>2 DEF DeleteFirst
<1>6. CASE EraseFirst
  <2>. USE <1>6 DEF EraseFirst
  <2>1. Allocated' = Allocated \ {First}
    BY DEF Allocated, Erase
  <2>2. IsFiniteSet(Allocated') /\ Allocated' \subseteq Nat
    BY <2>1, FS_RemoveElement
  <2>3. session_pool' \in [Allocated' -> Clients]
    BY <2>1 DEF Allocated, Erase
  <2>. QED BY <2>2, <2>3, SMT
<1>7. CASE ReturnFirst
  <2>. USE <1>7 DEF ReturnFirst
  <2>1. First \in Nat
    BY DEF MutexOK
  <2>2. IsFiniteSet(ids') /\ ids' \subseteq Nat
    BY FS_RemoveElement
  <2>. QED BY <2>1, <2>2, SMT DEF ReturnsId, Allocated
<1>8. CASE AllDeleted
  BY <1>8, SMT DEF AllDeleted, Allocated
<1>9. CASE CloseListeners
  BY <1>9, SMT DEF CloseListeners, Allocated
<1>10. CASE SignalSessions
  BY <1>10, SMT DEF SignalSessions, Allocated
<1>11. CASE SignallingFails
  BY <1>11, AbortType, FaultTypes DEF SignallingFails
<1>12. CASE \E ch \in Channels : ShutDown(ch)
  BY <1>12, SMT DEF ShutDown, Allocated
<1>13. CASE Join
  BY <1>13, SMT DEF Join, Allocated
<1>. QED BY <1>1, <1>2, <1>3, <1>4, <1>5, <1>6, <1>7, <1>8, <1>9, <1>10, <1>11,
   <1>12, <1>13 DEF Shutdown

-----------------------------------------------------------------------------
(* The mutex and the listeners. *)

\* The id delete_all is at depends only on the ids it has left.
LEMMA SameFirst == ids' = ids => First' = First
BY DEF First

\* A step of a session thread or its client keeps the mutex discipline.
LEMMA SessionMutex ==
    ASSUME ManagerInv, main # "aborted", NEW c \in Clients, Client(c) \/ Session(c)
    PROVE  MutexOK' /\ AdmitOK'
<1>. USE ClientAssumption DEF ManagerInv, TypeOK, MutexOK, AdmitOK, Inside,
         InManager, Allocated, Abort, Faults, MainFaults, Go, listenerVars,
         managerVars, mainVars
<1>0. ids' = ids => First' = First
  BY SameFirst
<1>1. CASE Leave(c)
  BY <1>1, <1>0, SMT DEF Leave
<1>2. CASE RunLeaves(c)
  BY <1>2, <1>0, SMT DEF RunLeaves
<1>3. CASE Start(c)
  BY <1>3, <1>0, SMT DEF Start
<1>4. CASE Create(c)
  BY <1>4, <1>0, SMT DEF Create
<1>5. CASE Insert(c)
  BY <1>5, <1>0, SMT DEF Insert, Allocated
<1>6. CASE Count(c)
  BY <1>6, <1>0, SMT DEF Count
<1>7. CASE LookUp(c)
  BY <1>7, <1>0, SMT DEF LookUp
<1>8. CASE LookUpFails(c)
  BY <1>8, <1>0, SMT DEF LookUpFails
<1>9. CASE RunEnds(c)
  BY <1>9, <1>0, SMT DEF RunEnds
<1>10. CASE RunsFreed(c)
  <2>1. CASE Abort
    BY <1>10, <2>1, <1>0, SMT DEF RunsFreed
  <2>2. CASE Faults(c)
    BY <1>10, <2>2, <1>0, SMT DEF RunsFreed
  <2>3. CASE Go(c, "deleting") /\ ~Abort /\ ~Faults(c)
    BY <1>10, <2>3, <1>0, SMT DEF RunsFreed
  <2>. QED BY <1>10, <2>1, <2>2, <2>3 DEF RunsFreed
<1>11. CASE Delete(c)
  BY <1>11, <1>0, SMT DEF Delete, FindsSession, FindsNone
<1>12. CASE EraseOwn(c)
  <2>1. mutex = c
    BY <1>12 DEF EraseOwn
  <2>2. \A d \in Clients : thread'[d] # "erasing"
    BY <1>12, <2>1, SMT DEF EraseOwn
  <2>3. main \notin {"erasing", "returning"} /\ main' = main
    BY <1>12, <2>1 DEF EraseOwn
  <2>4. \A a \in Clients \cup {Main} : Inside(a)' <=> mutex' = a
    BY <1>12, <2>1, SMT DEF EraseOwn
  <2>5. AdmitOK'
    BY <1>12, SMT DEF EraseOwn
  <2>. QED BY <2>2, <2>3, <2>4, <2>5
<1>13. CASE ReturnOwn(c)
  BY <1>13, <1>0, SMT DEF ReturnOwn, ReturnsId
<1>14. CASE Finish(c)
  BY <1>14, <1>0, SMT DEF Finish
<1>. QED BY <1>1, <1>2, <1>3, <1>4, <1>5, <1>6, <1>7, <1>8, <1>9, <1>10, <1>11,
   <1>12, <1>13, <1>14 DEF Client, Session

\* So does a step of a listener, which makes a thread only once ...
LEMMA ListenerMutex ==
    ASSUME ManagerInv, main # "aborted", NEW ch \in Channels, Listener(ch)
    PROVE  MutexOK' /\ AdmitOK'
<1>. USE ClientAssumption DEF ManagerInv, TypeOK, MutexOK, AdmitOK, Inside,
         InManager, Allocated, Abort, Faults, MainFaults, Go, listenerVars,
         managerVars, mainVars
<1>0. ids' = ids => First' = First
  BY SameFirst
<1>1. CASE TestExit(ch)
  BY <1>1, <1>0, SMT DEF TestExit, Listen
<1>2. CASE TestAccepted(ch)
  BY <1>2, <1>0, SMT DEF TestAccepted, Listen
<1>3. CASE Admit(ch)
  BY <1>3, <1>0, SMT DEF Admit, Listen
<1>4. CASE AcceptLost(ch) \/ AcceptWoken(ch)
  <2>1. NoDescriptor(ch)
    BY <1>4 DEF AcceptLost, AcceptWoken
  <2>. QED BY <1>0, <2>1, SMT DEF NoDescriptor, Listen
<1>5. CASE \E c \in Clients : Accept(ch, c)
  BY <1>5, <1>0, SMT DEF Accept, Listen
<1>. QED BY <1>1, <1>2, <1>3, <1>4, <1>5 DEF Listener, ListenerRuns

\* ... and one of the main thread.
LEMMA MainMutex ==
    ASSUME ManagerInv, main # "aborted", Interrupt \/ Shutdown
    PROVE  MutexOK' /\ AdmitOK'
<1>a. EraseFirst => \A d \in Clients : thread'[d] # "erasing"
  <2>1. main = "erasing" => \A d \in Clients : thread[d] # "erasing"
    BY MainAlone DEF ManagerInv, InManager
  <2>. QED BY <2>1 DEF EraseFirst, MainGoes
<1>. USE ClientAssumption DEF ManagerInv, TypeOK, MutexOK, AdmitOK, Inside,
         InManager, Allocated, Abort, Faults, MainFaults, Go, listenerVars,
         managerVars, mainVars
<1>0. ids' = ids => First' = First
  BY SameFirst
<1>1. CASE Interrupt
  BY <1>1, <1>0, SMT DEF Interrupt, MainGoes
<1>2. CASE CountsAll
  BY <1>2, <1>0, SMT DEF CountsAll, MainGoes
<1>3. CASE ListIds
  BY <1>3, <1>0, SMT DEF ListIds, MainGoes
<1>4. CASE ListingFails
  BY <1>4, <1>0, SMT DEF ListingFails, MainGoes
<1>5. CASE DeleteFirst
  BY <1>5, <1>0, SMT DEF DeleteFirst, FindsSession, FindsNone, MainGoes
<1>6. CASE EraseFirst
  <2>1. mutex = Main /\ First \in Nat
    BY <1>6 DEF EraseFirst, MainGoes, SessionID
  <2>2. \A d \in Clients : thread'[d] # "erasing"
    BY <1>a, <1>6
  <2>3. main' = "returning" /\ First' \in Nat
    BY <1>6, <1>0, <2>1 DEF EraseFirst, MainGoes
  <2>4. \A a \in Clients \cup {Main} : Inside(a)' <=> mutex' = a
    BY <1>6, <2>1, SMT DEF EraseFirst, MainGoes
  <2>5. AdmitOK'
    BY <1>6, SMT DEF EraseFirst
  <2>. QED BY <2>2, <2>3, <2>4, <2>5 DEF SessionID
<1>7. CASE ReturnFirst
  BY <1>7, <1>0, SMT DEF ReturnFirst, ReturnsId, MainGoes
<1>8. CASE AllDeleted
  BY <1>8, <1>0, SMT DEF AllDeleted, MainGoes
<1>9. CASE CloseListeners
  BY <1>9, <1>0, SMT DEF CloseListeners, MainGoes
<1>10. CASE SignalSessions
  BY <1>10, <1>0, SMT DEF SignalSessions, MainGoes
<1>11. CASE SignallingFails
  BY <1>11, <1>0, SMT DEF SignallingFails, MainGoes
<1>12. CASE \E ch \in Channels : ShutDown(ch)
  BY <1>12, <1>0, SMT DEF ShutDown, MainGoes
<1>13. CASE Join
  BY <1>13, <1>0, SMT DEF Join, MainGoes
<1>. QED BY <1>1, <1>2, <1>3, <1>4, <1>5, <1>6, <1>7, <1>8, <1>9, <1>10, <1>11,
   <1>12, <1>13 DEF Shutdown

-----------------------------------------------------------------------------
(* Every step keeps PoolInv. *)

\* A step of a session thread or its client keeps the ids in order.
LEMMA SessionPool ==
    ASSUME ManagerInv, main # "aborted", NEW c \in Clients, Client(c) \/ Session(c)
    PROVE  PoolInv'
<1>. USE DEF ManagerInv
<1>1. CASE Leave(c)
  BY <1>1, QuietPool DEF Leave, Go, managerVars, mainVars, TypeOK
<1>2. CASE RunLeaves(c)
  BY <1>2, QuietPool DEF RunLeaves, Go, managerVars, mainVars, TypeOK
<1>3. CASE Start(c)
  BY <1>3, QuietPool DEF Start, Go, managerVars, mainVars, TypeOK
<1>4. CASE Create(c)
  <2>. USE <1>4 DEF Create
  <2>0. InHand = {} /\ Miscount = 0
    BY NobodyInside
  <2>1. \A d \in Clients : thread[d] \notin InManager
    BY ClientAssumption DEF MutexOK, Inside
  <2>2. main' \notin {"erasing", "returning"}
    BY ClientAssumption DEF MutexOK, Inside, mainVars
  <2>3. thread'[c] = "inserting" /\ \A d \in Clients : d # c => thread'[d] = thread[d]
    BY DEF Go, TypeOK
  <2>4. {d \in Clients : thread'[d] \in {"inserting", "returning"}} = {c}
    BY <2>1, <2>3 DEF InManager
  <2>5. sid'[c] = NewId
    BY DEF TypeOK
  <2>6. InHand' = {NewId} /\ Miscount' = 0
    <3>1. InHand' = {NewId}
      BY <2>2, <2>4, <2>5 DEF InHand
    <3>2. \A d \in Clients : thread'[d] \notin {"counting", "returning"}
      BY <2>1, <2>3 DEF InManager
    <3>. QED BY <2>2, <3>1, <3>2 DEF Miscount
  <2>7. /\ Allocated' = Allocated
        /\ Reusable' = {StillReusable[i] : i \in 1..Len(StillReusable)}
        /\ IdsGiven' = Cardinality(Allocated) + Len(StillReusable) + 1
    BY <2>6 DEF Allocated, Reusable, IdsGiven
  <2>8. Cardinality(Allocated) \in Nat /\ Len(StillReusable) \in Nat
    BY NewIdIsFree, FS_CardinalityType DEF TypeOK
  <2>9. /\ Allocated' \cap Reusable' = {}
        /\ InHand' \cap (Allocated' \cup Reusable') = {}
        /\ Allocated' \cup Reusable' \cup InHand' = 0..(IdsGiven' - 1)
    <3>1. Allocated \cap Reusable = {}
      BY DEF PoolInv
    <3>2. Cardinality(Allocated) + Len(StillReusable) + 1 - 1
            = Cardinality(Allocated) + Len(StillReusable)
      BY <2>8
    <3>3. Reusable' = Reusable \ {NewId}
      BY <2>7, NewIdIsFree
    <3>4. NewId \notin Allocated
      BY NewIdIsFree
    <3>5. Allocated \cup Reusable \cup {NewId}
            = 0..(Cardinality(Allocated) + Len(StillReusable))
      BY NewIdIsFree
    <3>. HIDE DEF Create, ManagerInv
    <3>6. IdsGiven' - 1 = Cardinality(Allocated) + Len(StillReusable)
      BY <2>7, <2>8, <3>2, SMT
    <3>. QED BY <2>6, <2>7, <3>1, <3>3, <3>4, <3>5, <3>6
  <2>10. \A i, j \in 1..Len(reusable_ids') :
            i # j => reusable_ids'[i] # reusable_ids'[j]
    BY NewIdIsFree DEF PoolInv
  <2>11. number_of_sessions' = Cardinality(Allocated') + Miscount'
    BY <2>0, <2>6, <2>7, <2>8 DEF PoolInv
  <2>. QED BY <2>9, <2>10, <2>11 DEF PoolInv
<1>5. CASE Insert(c)
  <2>. USE <1>5 DEF Insert
  <2>1. /\ \A d \in Clients : d # c => thread[d] \notin InManager
        /\ main \notin {"erasing", "returning"}
    <3>1. thread[c] \in InManager
      BY DEF InManager
    <3>. QED BY <3>1, ThreadAlone
  <2>2. /\ \A d \in Clients : d # c => thread'[d] \notin InManager
        /\ main' \notin {"erasing", "returning"}
    BY <2>1 DEF Go, mainVars
  <2>3. /\ InHand = {sid[c]} /\ Miscount = 0
        /\ InHand' = {} /\ Miscount' = -1
    <3>1. InHand = {sid[c]} /\ Miscount = 0
      BY ThreadInside DEF InManager
    <3>2. thread'[c] = "counting"
      BY DEF Go, TypeOK
    <3>3. \A d \in Clients : thread'[d] \notin {"inserting", "returning"}
      BY <2>2, <3>2 DEF InManager
    <3>. QED BY <2>2, <3>1, <3>2, <3>3 DEF InHand, Miscount
  <2>4. Allocated' = Allocated \cup {sid[c]} /\ sid[c] \notin Allocated
    BY <2>3 DEF Allocated, PoolInv
  <2>5. /\ Cardinality(Allocated) \in Nat /\ Len(reusable_ids) \in Nat
        /\ Cardinality(Allocated') = Cardinality(Allocated) + 1
    <3>1. Cardinality(Allocated) \in Nat /\ Len(reusable_ids) \in Nat
      BY FS_CardinalityType DEF TypeOK
    <3>2. Cardinality(Allocated \cup {sid[c]}) = Cardinality(Allocated) + 1
      BY <2>4, FS_AddElement DEF TypeOK
    <3>. QED BY <2>4, <3>1, <3>2
  <2>6. Reusable' = Reusable
    BY DEF Reusable
  <2>7. IdsGiven' = IdsGiven
    <3>1. IdsGiven = Cardinality(Allocated) + Len(reusable_ids) + 1
      BY <2>3 DEF IdsGiven
    <3>2. IdsGiven' = Cardinality(Allocated') + Len(reusable_ids)
      BY <2>3, <2>5 DEF IdsGiven
    <3>. QED BY <2>5, <3>1, <3>2
  <2>. QED BY <2>3, <2>4, <2>5, <2>6, <2>7 DEF PoolInv
<1>6. CASE Count(c)
  <2>. USE <1>6 DEF Count
  <2>1. /\ \A d \in Clients : d # c => thread[d] \notin InManager
        /\ main \notin {"erasing", "returning"}
    <3>1. thread[c] \in InManager
      BY DEF InManager
    <3>. QED BY <3>1, ThreadAlone
  <2>2. /\ \A d \in Clients : d # c => thread'[d] \notin InManager
        /\ main' \notin {"erasing", "returning"}
    BY <2>1 DEF Go, mainVars
  <2>3. /\ InHand = {} /\ Miscount = -1
        /\ InHand' = {} /\ Miscount' = 0
    <3>1. InHand = {} /\ Miscount = -1
      BY ThreadInside DEF InManager
    <3>2. thread'[c] = "looking_up"
      BY DEF Go, TypeOK
    <3>3. \A d \in Clients : thread'[d] \notin {"inserting", "returning", "counting"}
      BY <2>2, <3>2 DEF InManager
    <3>. QED BY <2>2, <3>1, <3>3 DEF InHand, Miscount
  <2>4. /\ Allocated' = Allocated /\ Reusable' = Reusable
        /\ Cardinality(Allocated) \in Nat
    BY FS_CardinalityType DEF Allocated, Reusable, TypeOK
  <2>5. IdsGiven' = IdsGiven
    BY <2>3, <2>4 DEF IdsGiven
  <2>6. number_of_sessions' = Cardinality(Allocated') + Miscount'
    BY <2>3, <2>4 DEF PoolInv
  <2>. QED BY <2>3, <2>4, <2>5, <2>6 DEF PoolInv
<1>7. CASE LookUp(c)
  BY <1>7, QuietPool DEF LookUp, Go, managerVars, mainVars, TypeOK
<1>8. CASE LookUpFails(c)
  <2>1. CASE Abort
    BY <2>1 DEF Abort, PoolInv
  <2>2. CASE Faults(c)
    BY <1>8, <2>2, QuietPool DEF LookUpFails, Faults, managerVars, mainVars, TypeOK
  <2>. QED BY <1>8, <2>1, <2>2 DEF LookUpFails
<1>9. CASE RunEnds(c)
  BY <1>9, QuietPool DEF RunEnds, Go, managerVars, mainVars, TypeOK
<1>10. CASE RunsFreed(c)
  <2>1. CASE Abort
    BY <2>1 DEF Abort, PoolInv
  <2>2. CASE /\ Go(c, "deleting")
             /\ UNCHANGED <<client, listenerVars, number_of_threads, sid,
                            socket, exit_signal, managerVars, mainVars>>
    BY <1>10, <2>2, QuietPool DEF RunsFreed, Go, managerVars, mainVars
  <2>3. CASE Faults(c)
    BY <1>10, <2>3, QuietPool DEF RunsFreed, Faults, managerVars, mainVars, TypeOK
  <2>. QED BY <1>10, <2>1, <2>2, <2>3 DEF RunsFreed
<1>11. CASE Delete(c)
  <2>1. thread'[c] \in {"erasing", "leaving"}
    BY <1>11 DEF Delete, Go, TypeOK
  <2>. QED BY <1>11, <2>1, QuietPool DEF Delete, Go, mainVars, TypeOK
<1>12. CASE EraseOwn(c)
  <2>. USE <1>12 DEF EraseOwn
  <2>1. /\ \A d \in Clients : d # c => thread[d] \notin InManager
        /\ main \notin {"erasing", "returning"}
    <3>1. thread[c] \in InManager
      BY DEF InManager
    <3>. QED BY <3>1, ThreadAlone
  <2>2. /\ \A d \in Clients : d # c => thread'[d] \notin InManager
        /\ main' \notin {"erasing", "returning"}
    BY <2>1 DEF Go, mainVars
  <2>3. InHand = {} /\ Miscount = 0 /\ sid[c] \in Allocated
    BY ThreadInside DEF InManager, MutexOK
  <2>4. thread'[c] = "returning" /\ sid'[c] = sid[c]
    BY DEF Go, TypeOK
  <2>5. {d \in Clients : thread'[d] \in {"inserting", "returning"}} = {c}
    BY <2>2, <2>4 DEF InManager
  <2>6. InHand' = {sid[c]}
    BY <2>2, <2>4, <2>5 DEF InHand
  <2>7. Miscount' = 1
    BY <2>2, <2>4 DEF Miscount, InManager
  <2>. QED BY <2>3, <2>6, <2>7, ErasePool
<1>13. CASE ReturnOwn(c)
  <2>. USE <1>13 DEF ReturnOwn
  <2>1. /\ \A d \in Clients : d # c => thread[d] \notin InManager
        /\ main \notin {"erasing", "returning"}
    <3>1. thread[c] \in InManager
      BY DEF InManager
    <3>. QED BY <3>1, ThreadAlone
  <2>2. /\ \A d \in Clients : d # c => thread'[d] \notin InManager
        /\ main' \notin {"erasing", "returning"}
    BY <2>1 DEF Go, mainVars
  <2>3. InHand = {sid[c]} /\ Miscount = 1 /\ sid[c] \in SessionID
    BY ThreadInside DEF InManager, TypeOK
  <2>4. \A d \in Clients : thread'[d] \notin InManager
    BY <2>2 DEF Go, TypeOK, InManager
  <2>5. InHand' = {} /\ Miscount' = 0
    BY <2>2, <2>4 DEF InHand, Miscount, InManager
  <2>. QED BY <2>3, <2>5, ReturnPool
<1>14. CASE Finish(c)
  BY <1>14, QuietPool DEF Finish, Go, managerVars, mainVars, TypeOK
<1>. QED BY <1>1, <1>2, <1>3, <1>4, <1>5, <1>6, <1>7, <1>8, <1>9, <1>10, <1>11,
   <1>12, <1>13, <1>14 DEF Client, Session

\* A listener does not touch the manager.
LEMMA ListenerPool ==
    ASSUME ManagerInv, main # "aborted", NEW ch \in Channels, Listener(ch)
    PROVE  PoolInv'
<1>1. CASE Admit(ch)
  <2>1. accepted[ch] \in Clients /\ thread[accepted[ch]] = "none"
    BY <1>1 DEF Admit, ManagerInv, AdmitOK
  <2>. QED BY <1>1, <2>1, QuietPool
           DEF Admit, Go, managerVars, mainVars, ManagerInv, TypeOK
<1>2. CASE ~Admit(ch)
  BY <1>2, QuietPool DEF Listener, ListenerRuns, TestExit, TestAccepted,
     AcceptLost, AcceptWoken, NoDescriptor, Accept, managerVars, mainVars, ManagerInv
<1>. QED BY <1>1, <1>2

\* delete_all keeps the ids in order, whatever threads run beside it.
LEMMA MainPool ==
    ASSUME ManagerInv, main # "aborted", Interrupt \/ Shutdown
    PROVE  PoolInv'
<1>. USE DEF ManagerInv
<1>1. CASE Interrupt
  BY <1>1, QuietPool DEF Interrupt, MainGoes, managerVars
<1>2. CASE CountsAll
  <2>1. CASE main' = "aborted"
    BY <2>1 DEF PoolInv
  <2>2. CASE main' = "listing"
    BY <1>2, <2>2, QuietPool DEF CountsAll, managerVars
  <2>. QED BY <1>2, <2>1, <2>2 DEF CountsAll
<1>3. CASE ListIds
  BY <1>3, QuietPool DEF ListIds, MainGoes, managerVars
<1>4. CASE ListingFails
  <2>1. CASE Abort
    BY <2>1 DEF Abort, PoolInv
  <2>2. CASE MainFaults
    BY <1>4, <2>2, QuietPool DEF ListingFails, MainFaults, managerVars
  <2>. QED BY <1>4, <2>1, <2>2 DEF ListingFails
<1>5. CASE DeleteFirst
  BY <1>5, QuietPool DEF DeleteFirst
<1>6. CASE EraseFirst
  <2>. USE <1>6 DEF EraseFirst, MainGoes
  <2>1. /\ InHand = {} /\ Miscount = 0 /\ First \in Allocated
    BY MainInside DEF MutexOK
  <2>2. \A d \in Clients : thread'[d] \notin InManager
    BY ClientAssumption DEF MutexOK, Inside
  <2>3. First' = First
    BY SameFirst
  <2>4. InHand' = {First} /\ Miscount' = 1
    BY <2>2, <2>3 DEF InHand, Miscount, InManager
  <2>. QED BY <2>1, <2>4, ErasePool
<1>7. CASE ReturnFirst
  <2>. USE <1>7 DEF ReturnFirst, MainGoes
  <2>1. /\ InHand = {First} /\ Miscount = 1 /\ First \in SessionID
    BY MainInside DEF MutexOK
  <2>2. \A d \in Clients : thread'[d] \notin InManager
    BY ClientAssumption DEF MutexOK, Inside
  <2>3. InHand' = {} /\ Miscount' = 0
    BY <2>2 DEF InHand, Miscount, InManager
  <2>. QED BY <2>1, <2>3, ReturnPool
<1>8. CASE AllDeleted
  <2>1. CASE main' = "aborted"
    BY <2>1 DEF PoolInv
  <2>2. CASE main' = "closing"
    BY <1>8, <2>2, QuietPool DEF AllDeleted, managerVars
  <2>. QED BY <1>8, <2>1, <2>2 DEF AllDeleted
<1>9. CASE CloseListeners
  BY <1>9, QuietPool DEF CloseListeners, MainGoes, managerVars
<1>10. CASE SignalSessions
  BY <1>10, QuietPool DEF SignalSessions, MainGoes, managerVars
<1>11. CASE SignallingFails
  <2>1. CASE Abort
    BY <2>1 DEF Abort, PoolInv
  <2>2. CASE MainFaults
    BY <1>11, <2>2, QuietPool DEF SignallingFails, MainFaults, managerVars
  <2>. QED BY <1>11, <2>1, <2>2 DEF SignallingFails
<1>12. CASE \E ch \in Channels : ShutDown(ch)
  BY <1>12, QuietPool DEF ShutDown, MainGoes, managerVars
<1>13. CASE Join
  BY <1>13, QuietPool DEF Join, MainGoes, managerVars
<1>. QED BY <1>1, <1>2, <1>3, <1>4, <1>5, <1>6, <1>7, <1>8, <1>9, <1>10, <1>11,
   <1>12, <1>13 DEF Shutdown

-----------------------------------------------------------------------------
(* The theorems. *)

\* The server starts with no session and nobody inside the manager.
LEMMA InitManager == Init => ManagerInv
<1>. SUFFICES ASSUME Init PROVE ManagerInv
  OBVIOUS
<1>. USE ClientAssumption DEF Init, Allocated
<1>1. Allocated = {} /\ IsFiniteSet({}) /\ Cardinality({}) = 0
  BY FS_EmptySet
<1>2. TypeOK
  <2>1. session_pool \in [Allocated -> Clients]
    BY <1>1
  <2>2. reusable_ids \in Seq(SessionID)
    OBVIOUS
  <2>3. IsFiniteSet(ids) /\ IsFiniteSet(Allocated)
    BY <1>1
  <2>4. /\ number_of_threads \in [Channels -> Int] /\ sid \in [Clients -> SessionID]
        /\ thread \in [Clients -> ThreadStates]
        /\ accepted \in [Channels -> Clients \cup {Nobody}]
    BY DEF SessionID, ThreadStates
  <2>5. main \in MainStates /\ number_of_sessions \in Int /\ ids \subseteq SessionID
    BY DEF MainStates
  <2>. QED BY <1>1, <2>1, <2>2, <2>3, <2>4, <2>5 DEF TypeOK
<1>3. MutexOK
  BY DEF MutexOK, Inside, InManager
<1>4. AdmitOK
  BY DEF AdmitOK
<1>5. PoolInv
  <2>1. InHand = {} /\ Miscount = 0 /\ Reusable = {} /\ Len(reusable_ids) = 0
    BY DEF InHand, Miscount, Reusable
  <2>2. IdsGiven = 0
    BY <1>1, <2>1 DEF IdsGiven
  <2>3. number_of_sessions = Cardinality(Allocated) + Miscount
    BY <1>1, <2>1
  <2>4. 0..(IdsGiven - 1) = {}
    BY <2>2
  <2>. QED BY <1>1, <2>1, <2>3, <2>4 DEF PoolInv
<1>. QED BY <1>2, <1>3, <1>4, <1>5 DEF ManagerInv

\* ManagerInv is inductive.
LEMMA NextManager == ManagerInv /\ [Next]_vars => ManagerInv'
<1>. SUFFICES ASSUME ManagerInv, [Next]_vars PROVE ManagerInv'
  OBVIOUS
<1>1. CASE Next
  <2>0. main # "aborted"
    BY <1>1 DEF Next, Alive
  <2>1. ASSUME NEW c \in Clients, Client(c) \/ Session(c) PROVE ManagerInv'
    BY <2>0, <2>1, SessionTypes, SessionMutex, SessionPool DEF ManagerInv
  <2>2. ASSUME NEW ch \in Channels, Listener(ch) PROVE ManagerInv'
    BY <2>0, <2>2, ListenerTypes, ListenerMutex, ListenerPool DEF ManagerInv
  <2>3. ASSUME Interrupt \/ Shutdown PROVE ManagerInv'
    BY <2>0, <2>3, MainTypes, MainMutex, MainPool DEF ManagerInv
  <2>. QED BY <1>1, <2>1, <2>2, <2>3 DEF Next
<1>2. CASE UNCHANGED vars
  <2>1. ids' = ids => First' = First
    BY SameFirst
  <2>. USE <1>2 DEF vars, listenerVars, managerVars, mainVars, ManagerInv, Allocated
  <2>2. TypeOK'
    BY DEF TypeOK
  <2>3. MutexOK' /\ AdmitOK'
    BY <2>1 DEF MutexOK, AdmitOK, Inside
  <2>4. PoolInv'
    BY QuietPool DEF PoolInv
  <2>. QED BY <2>2, <2>3, <2>4
<1>. QED BY <1>1, <1>2

\* SessionManager keeps its ids: whatever threads come and go, no id is both
\* allocated and reusable, none is reusable twice, no gap is left, and the
\* count is the size of the pool (create_session, delete_session).
THEOREM IdsInOrder == Spec => []ManagerInv
<1>. QED BY InitManager, NextManager, PTL DEF Spec

\* While the server serves, a thread disturbs no session but its own.
LEMMA SessionOwn ==
    ASSUME ManagerInv, OwnSession, main = "serving", NEW c \in Clients,
           Client(c) \/ Session(c)
    PROVE  OwnSession'
<1>. USE DEF ManagerInv, TypeOK
<1>1. CASE Leave(c)
    BY <1>1, SMT DEF Leave, OwnSession, HasId, Go, Allocated, listenerVars,
     managerVars, mainVars
<1>2. CASE RunLeaves(c)
    BY <1>2, SMT DEF RunLeaves, OwnSession, HasId, Go, Allocated, listenerVars,
     managerVars, mainVars
<1>3. CASE Start(c)
    BY <1>3, SMT DEF Start, OwnSession, HasId, Go, Allocated, listenerVars,
     managerVars, mainVars
<1>4. CASE Create(c)
  BY <1>4, SMT DEF Create, OwnSession, HasId, Go, Allocated, mainVars
<1>5. CASE Insert(c)
  <2>. USE <1>5 DEF Insert
  <2>1. InHand = {sid[c]}
    BY ThreadInside DEF ManagerInv, InManager
  <2>2. sid[c] \notin Allocated
    BY <2>1 DEF ManagerInv, PoolInv
  <2>3. /\ Allocated' = Allocated \cup {sid[c]} /\ session_pool'[sid[c]] = c
        /\ \A i \in Allocated : session_pool'[i] = session_pool[i]
    BY <2>2 DEF Allocated
  <2>4. \A d \in Clients : d # c => thread'[d] = thread[d] /\ sid'[d] = sid[d]
    BY DEF Go, ManagerInv, TypeOK
  <2>5. sid'[c] = sid[c]
    OBVIOUS
  <2>6. client' = client /\ socket' = socket
    OBVIOUS
  <2>. QED BY <2>3, <2>4, <2>5, <2>6 DEF OwnSession, HasId
<1>6. CASE Count(c)
    BY <1>6, SMT DEF Count, OwnSession, HasId, Go, Allocated, listenerVars,
     managerVars, mainVars
<1>7. CASE LookUp(c)
    BY <1>7, SMT DEF LookUp, OwnSession, HasId, Go, Allocated, listenerVars,
     managerVars, mainVars
<1>8. CASE LookUpFails(c)
    BY <1>8, SMT DEF LookUpFails, Abort, Faults, OwnSession, HasId, Go, Allocated,
     listenerVars, managerVars, mainVars
<1>9. CASE RunEnds(c)
    BY <1>9, SMT DEF RunEnds, OwnSession, HasId, Go, Allocated, listenerVars,
     managerVars, mainVars
<1>10. CASE RunsFreed(c)
    BY <1>10, SMT DEF RunsFreed, Abort, Faults, IsAlive, OwnSession, HasId, Go, Allocated,
     listenerVars, managerVars, mainVars
<1>11. CASE Delete(c)
  <2>. USE <1>11 DEF Delete
  <2>1. sid[c] \in Allocated /\ session_pool[sid[c]] = c
    BY DEF OwnSession, HasId
  <2>2. thread'[c] = "erasing" /\ socket' = socket \ {c}
    BY <2>1 DEF FindsSession, FindsNone, Go, ManagerInv, TypeOK
  <2>3. \A d \in Clients : d # c => thread'[d] = thread[d]
    BY DEF Go
  <2>. QED BY <2>1, <2>2, <2>3 DEF OwnSession, HasId, Allocated
<1>12. CASE EraseOwn(c)
  <2>. USE <1>12 DEF EraseOwn
  <2>1. session_pool[sid[c]] = c
    BY DEF OwnSession, HasId
  <2>2. /\ Allocated' = Allocated \ {sid[c]}
        /\ \A i \in Allocated' : session_pool'[i] = session_pool[i]
    BY DEF Allocated, Erase
  <2>3. thread'[c] = "returning"
    BY DEF Go, ManagerInv, TypeOK
  <2>4. \A d \in Clients : d # c => thread'[d] = thread[d]
    BY DEF Go
  <2>5. \A d \in Clients : d # c /\ thread[d] \in HasId => sid[d] # sid[c]
    BY <2>1 DEF OwnSession
  <2>6. sid' = sid /\ client' = client /\ socket' = socket
    OBVIOUS
  <2>. QED BY <2>2, <2>3, <2>4, <2>5, <2>6 DEF OwnSession, HasId
<1>13. CASE ReturnOwn(c)
    BY <1>13, SMT DEF ReturnOwn, OwnSession, HasId, Go, Allocated, listenerVars,
     managerVars, mainVars
<1>14. CASE Finish(c)
    BY <1>14, SMT DEF Finish, OwnSession, HasId, Go, Allocated, listenerVars,
     managerVars, mainVars
<1>. QED BY <1>1, <1>2, <1>3, <1>4, <1>5, <1>6, <1>7, <1>8, <1>9, <1>10, <1>11,
   <1>12, <1>13, <1>14 DEF Client, Session

\* A connection that is accepted has its socket before it has a thread.
LEMMA ListenerOwn ==
    ASSUME ManagerInv, OwnSession, main = "serving", NEW ch \in Channels, Listener(ch)
    PROVE  OwnSession'
<1>. USE DEF ManagerInv, TypeOK, OwnSession, HasId, Allocated, Go, Listen,
         listenerVars, managerVars, mainVars
<1>1. CASE TestExit(ch) \/ TestAccepted(ch) \/ AcceptLost(ch) \/ AcceptWoken(ch)
  BY <1>1 DEF TestExit, TestAccepted, AcceptLost, AcceptWoken, NoDescriptor
<1>2. CASE Admit(ch)
  <2>1. accepted[ch] \in Clients /\ thread[accepted[ch]] = "none"
        /\ client[accepted[ch]] # "away"
    BY <1>2 DEF Admit, AdmitOK
  <2>. QED BY <1>2, <2>1, SMT DEF Admit
<1>3. CASE \E c \in Clients : Accept(ch, c)
  BY <1>3, SMT DEF Accept, AdmitOK
<1>. QED BY <1>1, <1>2, <1>3 DEF Listener, ListenerRuns

\* Until a shutdown starts each session thread finds and deletes its own
\* session, and its socket stays open until it does (session_thread_call).
THEOREM OwnSessionAlways == Spec => []OwnSession
<1>1. Init => OwnSession
  BY DEF Init, OwnSession, HasId
<1>2. ManagerInv /\ OwnSession /\ [Next]_vars => OwnSession'
  <2>. SUFFICES ASSUME ManagerInv, OwnSession, [Next]_vars PROVE OwnSession'
    OBVIOUS
  <2>1. CASE UNCHANGED vars
    BY <2>1 DEF vars, listenerVars, managerVars, mainVars, OwnSession, Allocated
  <2>2. CASE Next /\ main # "serving"
    <3>1. ASSUME NEW c \in Clients, Client(c) \/ Session(c) PROVE main' # "serving"
      BY <2>2, <3>1 DEF Client, Session, Leave, RunLeaves, Start, Create, Insert,
         Count, LookUp, LookUpFails, RunEnds, RunsFreed, Delete, EraseOwn,
         ReturnOwn, Finish, Abort, Faults, mainVars
    <3>2. ASSUME NEW ch \in Channels, Listener(ch) PROVE main' # "serving"
      BY <2>2, <3>2 DEF Listener, ListenerRuns, TestExit, TestAccepted, Admit,
         AcceptLost, AcceptWoken, NoDescriptor, Accept, mainVars
    <3>3. ASSUME Interrupt \/ Shutdown PROVE main' # "serving"
      BY <2>2, <3>3 DEF Interrupt, Shutdown, MainGoes, CountsAll, ListIds,
         ListingFails, DeleteFirst, EraseFirst, ReturnFirst, AllDeleted,
         CloseListeners, SignalSessions, SignallingFails, ShutDown, Join, Abort,
         MainFaults
    <3>4. main' # "serving"
      BY <2>2, <3>1, <3>2, <3>3 DEF Next
    <3>. QED BY <3>4 DEF OwnSession
  <2>3. CASE Next /\ main = "serving"
    <3>1. CASE Interrupt \/ Shutdown
      <4>1. main' # "serving"
                BY <2>3, <3>1 DEF Interrupt, Shutdown, MainGoes, CountsAll, ListIds,
           ListingFails,
           DeleteFirst, EraseFirst, ReturnFirst, AllDeleted, CloseListeners,
           SignalSessions, SignallingFails, ShutDown, Join
      <4>. QED BY <4>1 DEF OwnSession
    <3>2. CASE \E c \in Clients : Client(c) \/ Session(c)
      BY <2>3, <3>2, SessionOwn
    <3>3. CASE \E ch \in Channels : Listener(ch)
      BY <2>3, <3>3, ListenerOwn
    <3>. QED BY <2>3, <3>1, <3>2, <3>3 DEF Next
  <2>. QED BY <2>1, <2>2, <2>3
<1>. QED BY <1>1, <1>2, IdsInOrder, PTL DEF Spec
=============================================================================
