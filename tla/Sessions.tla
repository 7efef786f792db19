------------------------------ MODULE Sessions ------------------------------
(***************************************************************************)
(* The sessions of koheron-server (koheron-server/core): the listening     *)
(* channels, the session threads they detach, the SessionManager they      *)
(* share, and the shutdown that the main thread runs through after a       *)
(* signal.                                                                 *)
(*                                                                         *)
(* A session object is named by the client it serves.  create_session and  *)
(* delete_session hold the manager's mutex throughout, and are split where *)
(* code that does not take it (get_session, delete_all, exit_comm) sees    *)
(* the difference.                                                         *)
(***************************************************************************)
EXTENDS Integers, Sequences, FiniteSets

CONSTANTS
    Clients,      \* connections ever made, also: their sessions and threads
    Channels,     \* listening channels with worker connections > 0
    Via,          \* the channel each client uses
    Workers,      \* tcp_ / websocket_ / unix_socket_worker_connections
    Main,         \* the main thread
    Nobody

ASSUME ClientAssumption ==
    /\ IsFiniteSet(Clients)
    /\ Via \in [Clients -> Channels]
    /\ Workers \in [Channels -> Nat]
    /\ Main \notin Clients /\ Nobody \notin Clients /\ Main # Nobody

SessionID == Nat

VARIABLES
    client,             \* the peer of each connection
    listener,           \* where comm_thread_call is, per channel
    accepted,           \* its comm_fd: a client, or Nobody for -1
    number_of_threads,  \* per channel
    thread,             \* where session_thread_call is, per client
    sid,                \* its session id
    socket,             \* clients whose comm_fd is open
    exit_signal,        \* sessions told to leave their loop
    session_pool,       \* SessionManager: id -> session
    reusable_ids,
    number_of_sessions,
    mutex,              \* its holder
    main,               \* where Server::run is
    ids,                \* delete_all's copy of the ids still to delete
    shut,               \* channels whose listening socket is shut down
    exit_comm

listenerVars == <<listener, accepted>>
managerVars == <<session_pool, reusable_ids, number_of_sessions, mutex>>
mainVars == <<main, ids, shut, exit_comm>>
vars == <<client, listenerVars, number_of_threads, thread, sid, socket,
          exit_signal, managerVars, mainVars>>

-----------------------------------------------------------------------------

\* The process runs until main returns from run, or something aborts it.
Alive == main \notin {"exited", "aborted"}

Abort == /\ main' = "aborted"
         /\ UNCHANGED <<client, listenerVars, number_of_threads, thread, sid,
                        socket, exit_signal, managerVars, ids, shut, exit_comm>>

\* crash_signal_handler asks for the server's end and returns, and the access
\* that failed is made again: the thread gets no further.
Faults(c) == /\ thread' = [thread EXCEPT ![c] = "faulting"]
             /\ UNCHANGED <<client, listenerVars, number_of_threads, sid,
                            socket, exit_signal, managerVars, mainVars>>

MainFaults == /\ main' = "faulting"
              /\ UNCHANGED <<client, listenerVars, number_of_threads, thread,
                             sid, socket, exit_signal, managerVars, ids, shut,
                             exit_comm>>

Allocated == DOMAIN session_pool
Reusable == {reusable_ids[i] : i \in 1..Len(reusable_ids)}

Go(c, pc) == thread' = [thread EXCEPT ![c] = pc]
Listen(ch, pc) == listener' = [listener EXCEPT ![ch] = pc]

-----------------------------------------------------------------------------
(* Clients. *)

\* It closes its end of the connection.
Leave(c) ==
    /\ client[c] = "open"
    /\ client' = [client EXCEPT ![c] = "gone"]
    /\ UNCHANGED <<listenerVars, number_of_threads, thread, sid, socket,
                   exit_signal, managerVars, mainVars>>

-----------------------------------------------------------------------------
(* comm_thread_call. *)

\* while (!exit_comm.load())
TestExit(ch) ==
    /\ listener[ch] = "loop"
    /\ Listen(ch, IF exit_comm THEN "closed" ELSE "accepting")
    /\ UNCHANGED <<client, accepted, number_of_threads, thread, sid, socket,
                   exit_signal, managerVars, mainVars>>

\* open_communication returns a descriptor.
Accept(ch, c) ==
    /\ listener[ch] = "accepting" /\ ch \notin shut
    /\ Via[c] = ch /\ client[c] = "away"
    /\ client' = [client EXCEPT ![c] = "open"]
    /\ socket' = socket \cup {c}
    /\ accepted' = [accepted EXCEPT ![ch] = c]
    /\ Listen(ch, "testing")
    /\ UNCHANGED <<number_of_threads, thread, sid, exit_signal, managerVars,
                   mainVars>>

\* It blocks until a connection comes, which is Accept, or fails:
NoDescriptor(ch) ==
    /\ listener[ch] = "accepting"
    /\ accepted' = [accepted EXCEPT ![ch] = Nobody]
    /\ Listen(ch, "testing")
    /\ UNCHANGED <<client, number_of_threads, thread, sid, socket,
                   exit_signal, managerVars, mainVars>>

\* for a signal, a connection that did not last or an option that cannot be
\* set, on which the server cannot count, ...
AcceptLost(ch) == ch \notin shut /\ NoDescriptor(ch)

\* ... or because ::shutdown of the listening socket ends the wait; close, which
\* comes after it, would not.
WokenByClose(ch) == FALSE
Woken(ch) == ch \in shut
AcceptWoken(ch) == Woken(ch) /\ NoDescriptor(ch)

\* The second test of exit_comm, and the one of comm_fd.
TestAccepted(ch) ==
    /\ listener[ch] = "testing"
    /\ Listen(ch, IF exit_comm THEN "closed"
                  ELSE IF accepted[ch] = Nobody THEN "loop" ELSE "admitting")
    /\ UNCHANGED <<client, accepted, number_of_threads, thread, sid, socket,
                   exit_signal, managerVars, mainVars>>

is_max_threads(ch) == number_of_threads[ch] >= Workers[ch]

\* At the limit the listener drops comm_fd without closing it.
Admit(ch) ==
    /\ listener[ch] = "admitting"
    /\ IF is_max_threads(ch) THEN UNCHANGED thread
       ELSE Go(accepted[ch], "starting")
    /\ accepted' = [accepted EXCEPT ![ch] = Nobody]
    /\ Listen(ch, "loop")
    /\ UNCHANGED <<client, number_of_threads, sid, socket,
                   exit_signal, managerVars, mainVars>>

-----------------------------------------------------------------------------
(* SessionManager.  An actor is a session thread or Main. *)

\* delete_session(id) takes the lock; for an id that is not allocated there is
\* nothing more to do, otherwise it shuts down and closes the socket.
FindsSession(a, id) ==
    /\ mutex = Nobody /\ id \in Allocated
    /\ mutex' = a
    /\ socket' = socket \ {session_pool[id]}

FindsNone(id) ==
    /\ mutex = Nobody /\ id \notin Allocated
    /\ UNCHANGED <<mutex, socket>>

Erase(id) == [i \in Allocated \ {id} |-> session_pool[i]]

\* The id becomes reusable, the count goes down, the lock is released.
ReturnsId(id) ==
    /\ reusable_ids' = Append(reusable_ids, id)
    /\ number_of_sessions' = number_of_sessions - 1
    /\ mutex' = Nobody

\* The id of a new session, and the ids left to reuse.
NewId == IF reusable_ids = <<>> THEN number_of_sessions
         ELSE reusable_ids[Len(reusable_ids)]

StillReusableAll == reusable_ids
StillReusable == IF reusable_ids = <<>> THEN <<>>
                 ELSE SubSeq(reusable_ids, 1, Len(reusable_ids) - 1)

-----------------------------------------------------------------------------
(* session_thread_call. *)

Start(c) ==
    /\ thread[c] = "starting"
    /\ number_of_threads' = [number_of_threads EXCEPT ![Via[c]] = @ + 1]
    /\ Go(c, "creating")
    /\ UNCHANGED <<client, listenerVars, sid, socket, exit_signal,
                   managerVars, mainVars>>

\* create_session: the lock and the choice of an id ...
CreateUnlocked(c) ==
    /\ thread[c] = "creating"
    /\ mutex' = c
    /\ sid' = [sid EXCEPT ![c] = NewId]
    /\ reusable_ids' = StillReusable
    /\ Go(c, "inserting")
    /\ UNCHANGED <<client, listenerVars, number_of_threads, socket,
                   exit_signal, session_pool, number_of_sessions, mainVars>>

Create(c) ==
    /\ thread[c] = "creating" /\ mutex = Nobody
    /\ mutex' = c
    /\ sid' = [sid EXCEPT ![c] = NewId]
    /\ reusable_ids' = StillReusable
    /\ Go(c, "inserting")
    /\ UNCHANGED <<client, listenerVars, number_of_threads, socket,
                   exit_signal, session_pool, number_of_sessions, mainVars>>

\* ... session_pool.insert, which leaves an entry it finds alone ...
Insert(c) ==
    /\ thread[c] = "inserting"
    /\ session_pool' = [i \in Allocated \cup {sid[c]} |->
                            IF i \in Allocated THEN session_pool[i] ELSE c]
    /\ Go(c, "counting")
    /\ UNCHANGED <<client, listenerVars, number_of_threads, sid, socket,
                   exit_signal, reusable_ids, number_of_sessions, mutex,
                   mainVars>>

\* ... number_of_sessions++, and the lock is released.
Count(c) ==
    /\ thread[c] = "counting"
    /\ number_of_sessions' = number_of_sessions + 1
    /\ mutex' = Nobody
    /\ Go(c, "looking_up")
    /\ UNCHANGED <<client, listenerVars, number_of_threads, sid, socket,
                   exit_signal, session_pool, reusable_ids, mainVars>>

\* The map is being changed by the holder of the lock.
MapInFlux == \/ \E c \in Clients : thread[c] \in {"inserting", "erasing"}
             \/ main = "erasing"

\* get_session(sid), without the lock.  The map's at() throws, and so ends the
\* process, if the session has been deleted already; a lookup that runs into
\* an insertion or an erasure may find nothing too, or fault.
LookUp(c) ==
    /\ thread[c] = "looking_up" /\ sid[c] \in Allocated
    /\ Go(c, "running")
    /\ UNCHANGED <<client, listenerVars, number_of_threads, sid, socket,
                   exit_signal, managerVars, mainVars>>

LookUpFails(c) ==
    /\ thread[c] = "looking_up"
    /\ \/ (sid[c] \notin Allocated \/ MapInFlux) /\ Abort
       \/ MapInFlux /\ Faults(c)

IsAlive(c) == \E i \in Allocated : session_pool[i] = c

\* Session::run returns: nothing can be read any more ...
RunEndsSignalled(c) ==
    /\ thread[c] = "running" /\ IsAlive(c)
    /\ client[c] = "gone" /\ c \in exit_signal
    /\ Go(c, "deleting")
    /\ UNCHANGED <<client, listenerVars, number_of_threads, sid, socket,
                   exit_signal, managerVars, mainVars>>

RunEnds(c) ==
    /\ thread[c] = "running" /\ IsAlive(c)
    /\ client[c] = "gone" \/ c \notin socket
    /\ Go(c, "deleting")
    /\ UNCHANGED <<client, listenerVars, number_of_threads, sid, socket,
                   exit_signal, managerVars, mainVars>>

\* ... or the client sends a command and exit_signal is set.
RunLeaves(c) ==
    /\ thread[c] = "running" /\ IsAlive(c) /\ c \in exit_signal
    /\ Go(c, "deleting")
    /\ UNCHANGED <<client, listenerVars, number_of_threads, sid, socket,
                   exit_signal, managerVars, mainVars>>

\* It runs on in an object that was freed: it returns, or ends the process, or
\* faults.
RunsFreed(c) ==
    /\ thread[c] = "running" /\ ~IsAlive(c)
    /\ \/ /\ Go(c, "deleting")
          /\ UNCHANGED <<client, listenerVars, number_of_threads, sid, socket,
                         exit_signal, managerVars, mainVars>>
       \/ Abort
       \/ Faults(c)

\* delete_session(sid).
Delete(c) ==
    /\ thread[c] = "deleting"
    /\ \/ FindsSession(c, sid[c]) /\ Go(c, "erasing")
       \/ FindsNone(sid[c]) /\ Go(c, "leaving")
    /\ UNCHANGED <<client, listenerVars, number_of_threads, sid, exit_signal,
                   session_pool, reusable_ids, number_of_sessions, mainVars>>

EraseOwn(c) ==
    /\ thread[c] = "erasing"
    /\ session_pool' = Erase(sid[c])
    /\ Go(c, "returning")
    /\ UNCHANGED <<client, listenerVars, number_of_threads, sid, socket,
                   exit_signal, reusable_ids, number_of_sessions, mutex,
                   mainVars>>

ReturnOwn(c) ==
    /\ thread[c] = "returning"
    /\ ReturnsId(sid[c])
    /\ Go(c, "leaving")
    /\ UNCHANGED <<client, listenerVars, number_of_threads, sid, socket,
                   exit_signal, session_pool, mainVars>>

Finish(c) ==
    /\ thread[c] = "leaving"
    /\ number_of_threads' = [number_of_threads EXCEPT ![Via[c]] = @ - 1]
    /\ sid' = [sid EXCEPT ![c] = 0]
    /\ Go(c, "done")
    /\ UNCHANGED <<client, listenerVars, socket, exit_signal, managerVars,
                   mainVars>>

-----------------------------------------------------------------------------
(* Server::run after an interrupt: delete_all, then close_listeners. *)

MainGoes(from, to) == main = from /\ main' = to

Interrupt ==
    /\ MainGoes("serving", "deleting_all")
    /\ UNCHANGED <<client, listenerVars, number_of_threads, thread, sid,
                   socket, exit_signal, managerVars, ids, shut, exit_comm>>

\* The first assertion of delete_all.
CountsAll ==
    /\ main = "deleting_all"
    /\ main' = IF number_of_sessions = Cardinality(Allocated)
               THEN "listing" ELSE "aborted"
    /\ UNCHANGED <<client, listenerVars, number_of_threads, thread, sid,
                   socket, exit_signal, managerVars, ids, shut, exit_comm>>

\* get_session_ids, without the lock.
ListIds ==
    /\ main = "listing"
    /\ ids' = Allocated
    /\ main' = "deleting"
    /\ UNCHANGED <<client, listenerVars, number_of_threads, thread, sid,
                   socket, exit_signal, managerVars, shut, exit_comm>>

ListingFails == main = "listing" /\ MapInFlux /\ (Abort \/ MainFaults)

\* A map is walked in the order of its keys.
First == CHOOSE i \in ids : \A j \in ids : i <= j

DeleteFirst ==
    /\ main = "deleting" /\ ids # {}
    /\ \/ FindsSession(Main, First) /\ main' = "erasing" /\ UNCHANGED ids
       \/ FindsNone(First) /\ main' = "deleting" /\ ids' = ids \ {First}
    /\ UNCHANGED <<client, listenerVars, number_of_threads, thread, sid,
                   exit_signal, session_pool, reusable_ids,
                   number_of_sessions, shut, exit_comm>>

EraseFirst ==
    /\ MainGoes("erasing", "returning")
    /\ session_pool' = Erase(First)
    /\ UNCHANGED <<client, listenerVars, number_of_threads, thread, sid,
                   socket, exit_signal, reusable_ids, number_of_sessions,
                   mutex, ids, shut, exit_comm>>

ReturnFirst ==
    /\ MainGoes("returning", "deleting")
    /\ ReturnsId(First)
    /\ ids' = ids \ {First}
    /\ UNCHANGED <<client, listenerVars, number_of_threads, thread, sid,
                   socket, exit_signal, session_pool, shut, exit_comm>>

\* The second assertion of delete_all.
AllDeleted ==
    /\ main = "deleting" /\ ids = {}
    /\ main' = IF number_of_sessions = 0 THEN "closing" ELSE "aborted"
    /\ UNCHANGED <<client, listenerVars, number_of_threads, thread, sid,
                   socket, exit_signal, managerVars, ids, shut, exit_comm>>

CloseListeners ==
    /\ MainGoes("closing", "signalling")
    /\ exit_comm' = TRUE
    /\ UNCHANGED <<client, listenerVars, number_of_threads, thread, sid,
                   socket, exit_signal, managerVars, ids, shut>>

\* session_manager.exit_comm, which walks the map without the lock.
SignalSessions ==
    /\ MainGoes("signalling", "shutting")
    /\ exit_signal' = exit_signal \cup {session_pool[i] : i \in Allocated}
    /\ UNCHANGED <<client, listenerVars, number_of_threads, thread, sid,
                   socket, managerVars, ids, shut, exit_comm>>

SignallingFails == main = "signalling" /\ MapInFlux /\ (Abort \/ MainFaults)

\* listener.shutdown().
ShutDown(ch) ==
    /\ main = "shutting" /\ ch \notin shut
    /\ shut' = shut \cup {ch}
    /\ UNCHANGED <<client, listenerVars, number_of_threads, thread, sid, socket,
                   exit_signal, managerVars, main, ids, exit_comm>>

\* join_listeners_workers, and run returns; main then exits, and with it the
\* session threads.
Join ==
    /\ main = "shutting" /\ shut = Channels
    /\ \A ch \in Channels : listener[ch] = "closed"
    /\ main' = "exited"
    /\ UNCHANGED <<client, listenerVars, number_of_threads, thread, sid,
                   socket, exit_signal, managerVars, ids, shut, exit_comm>>

-----------------------------------------------------------------------------
Init == /\ client = [c \in Clients |-> "away"]
        /\ listener = [ch \in Channels |-> "loop"]
        /\ accepted = [ch \in Channels |-> Nobody]
        /\ number_of_threads = [ch \in Channels |-> 0]
        /\ thread = [c \in Clients |-> "none"]
        /\ sid = [c \in Clients |-> 0]
        /\ socket = {} /\ exit_signal = {}
        /\ session_pool = [i \in {} |-> Nobody]
        /\ reusable_ids = <<>>
        /\ number_of_sessions = 0
        /\ mutex = Nobody
        /\ main = "serving" /\ ids = {} /\ shut = {} /\ exit_comm = FALSE

Client(c) == Leave(c) \/ RunLeaves(c)

ListenerRuns(ch) == \/ TestExit(ch) \/ AcceptWoken(ch)
                    \/ TestAccepted(ch) \/ Admit(ch)
Listener(ch) == \/ ListenerRuns(ch) \/ AcceptLost(ch)
                \/ \E c \in Clients : Accept(ch, c)

Session(c) == \/ Start(c) \/ Create(c) \/ Insert(c) \/ Count(c)
              \/ LookUp(c) \/ LookUpFails(c)
              \/ RunEnds(c) \/ RunsFreed(c)
              \/ Delete(c) \/ EraseOwn(c) \/ ReturnOwn(c)
              \/ Finish(c)

Shutdown == \/ CountsAll \/ ListIds \/ ListingFails
            \/ DeleteFirst \/ EraseFirst \/ ReturnFirst \/ AllDeleted
            \/ CloseListeners \/ SignalSessions \/ SignallingFails
            \/ \E ch \in Channels : ShutDown(ch)
            \/ Join

Next == /\ Alive
        /\ \/ \E c \in Clients : Client(c) \/ Session(c)
           \/ \E ch \in Channels : Listener(ch)
           \/ Interrupt \/ Shutdown

\* The main thread looks for an interrupt over and over, and a fault is one.
SeesFault == Interrupt /\ \E c \in Clients : thread[c] = "faulting"

\* The operating system runs every thread that does not wait; clients and
\* signals come as they please, so that an accept may wait for ever.
Spec == /\ Init /\ [][Next]_vars
        /\ \A c \in Clients : WF_vars(Alive /\ Session(c))
        /\ \A ch \in Channels : WF_vars(Alive /\ ListenerRuns(ch))
        /\ WF_vars(Alive /\ (Shutdown \/ SeesFault))

-----------------------------------------------------------------------------
(* Properties. *)

HasId == {"counting", "looking_up", "running", "deleting", "erasing"}
InManager == {"inserting", "counting", "erasing", "returning"}
ThreadStates == {"none", "starting", "creating", "leaving", "done", "faulting"}
                    \cup HasId \cup InManager
MainStates == {"serving", "deleting_all", "listing", "deleting", "erasing",
               "returning", "closing", "signalling", "shutting", "exited",
               "aborted", "faulting"}

TypeOK ==
    /\ client \in [Clients -> {"away", "open", "gone"}]
    /\ listener \in [Channels -> {"loop", "accepting", "testing",
                                  "admitting", "closed"}]
    /\ accepted \in [Channels -> Clients \cup {Nobody}]
    /\ number_of_threads \in [Channels -> Int]
    /\ thread \in [Clients -> ThreadStates]
    /\ sid \in [Clients -> SessionID]
    /\ socket \subseteq Clients /\ exit_signal \subseteq Clients
    /\ Allocated \subseteq SessionID /\ IsFiniteSet(Allocated)
    /\ session_pool \in [Allocated -> Clients]
    /\ reusable_ids \in Seq(SessionID)
    /\ number_of_sessions \in Int
    /\ mutex \in Clients \cup {Main, Nobody}
    /\ main \in MainStates
    /\ ids \subseteq SessionID /\ IsFiniteSet(ids)
    /\ shut \subseteq Channels /\ exit_comm \in BOOLEAN

\* The mutex is held by the actor that is inside the manager, and only then,
\* so what delete_session looked up is there when it erases it.
Inside(a) == IF a = Main THEN main \in {"erasing", "returning"}
             ELSE thread[a] \in InManager
MutexOK == main # "aborted" =>
    /\ \A a \in Clients \cup {Main} : Inside(a) <=> mutex = a
    /\ \A c \in Clients : thread[c] = "erasing" => sid[c] \in Allocated
    /\ main = "erasing" => First \in Allocated
    /\ main = "returning" => First \in SessionID

\* The id that is in neither list while its session is made or deleted.
InHand == {sid[c] : c \in {d \in Clients : thread[d] \in {"inserting", "returning"}}}
             \cup IF main = "returning" THEN {First} ELSE {}

IdsGiven == Cardinality(Allocated) + Len(reusable_ids)
               + IF InHand = {} THEN 0 ELSE 1

Miscount == IF \E c \in Clients : thread[c] = "counting" THEN -1
            ELSE IF main = "returning"
                    \/ \E c \in Clients : thread[c] = "returning" THEN 1
            ELSE 0

\* SessionManager keeps its ids: no id is both allocated and reusable, or
\* reusable twice (the assertion in get_session_ids), the ids ever given out
\* are 0, 1, ... without a gap, and the count is the size of the pool.
PoolInv == main # "aborted" =>
    /\ \A i, j \in 1..Len(reusable_ids) :
          i # j => reusable_ids[i] # reusable_ids[j]
    /\ Allocated \cap Reusable = {}
    /\ InHand \cap (Allocated \cup Reusable) = {}
    /\ Allocated \cup Reusable \cup InHand = 0..(IdsGiven - 1)
    /\ number_of_sessions = Cardinality(Allocated) + Miscount

\* A thread is made once for a connection, by the listener that accepted it.
AdmitOK ==
    /\ \A c \in Clients : client[c] = "away" => thread[c] = "none"
    /\ \A ch \in Channels :
          /\ listener[ch] = "admitting" => accepted[ch] \in Clients
          /\ accepted[ch] \in Clients =>
               /\ thread[accepted[ch]] = "none"
               /\ client[accepted[ch]] # "away"
               /\ Via[accepted[ch]] = ch

ManagerInv == TypeOK /\ MutexOK /\ AdmitOK /\ PoolInv

\* Until the shutdown a thread that has a session has its own, whoever came
\* and went before: nobody else's thread deletes it or closes its socket.
OwnSession == main = "serving" =>
    \A c \in Clients :
        /\ thread[c] \in HasId =>
             sid[c] \in Allocated /\ session_pool[sid[c]] = c
        /\ client[c] # "away"
             /\ thread[c] \notin {"erasing", "returning", "leaving", "done"}
           => c \in socket

\* The session of a client that is gone comes to its end, or the server does,
\* unless the main thread has faulted.
DepartedForgotten ==
    \A c \in Clients :
        (client[c] = "gone" /\ thread[c] # "none")
            ~> (thread[c] = "done" \/ ~Alive \/ main = "faulting")

\* An interrupt ends the server, whatever connects meanwhile, and so does a
\* session's fault; unless the main thread itself faults, walking the map of
\* the sessions without the lock.
ShutdownEnds ==
    (main = "deleting_all" \/ \E c \in Clients : thread[c] = "faulting")
        ~> (~Alive \/ main = "faulting")

\* The assertion at the end of delete_all (session_manager.cpp:109).
NoSessionsLeft ==
    main = "deleting" /\ ids = {} => number_of_sessions = 0

=============================================================================
