-------------------------------- MODULE Wire --------------------------------
(***************************************************************************)
(* Calls of drivers' operations over TCP or a Unix socket.  A client       *)
(* (koheron-client.hpp, koheron.py) sends a header and the arguments as    *)
(* bytes and waits for a header and the result, if there is one.  Its      *)
(* session (session.hpp, session.cpp) reads the header, takes the mutex of *)
(* the driver and reads the arguments into members of the driver, pack by  *)
(* pack, under that mutex, in code that server.py generates; the operation *)
(* runs on these members and its result is sent back.                      *)
(*                                                                         *)
(* A socket gives a reader any part of what was written to it.  A client   *)
(* or the server may end at any time; what it wrote last may get lost.     *)
(* A socket is written to in one piece, for a blocking one takes all.      *)
(***************************************************************************)
EXTENDS Codec

CONSTANTS
    Clients,
    Python,             \* those that use koheron.py
    Ops,                \* the operations of all drivers
    Class(_), Func(_),  \* the ids of its driver and of itself
    Args(_),            \* its arguments' types
    Ret(_),             \* what it returns: nothing, one type, or a tuple of scalars
    Values(_, _),       \* the arguments a client calls it with
    AnyValues(_),       \* the arguments that memory may hold by chance
    Objects, Object0, Effect(_, _, _), Result(_, _, _),  \* what the drivers keep and do
    MaxCalls,           \* bound: how many calls each client makes
    Cuts                \* bound: a read that has so many may leave the rest, a client that
                        \* ends may have sent so many of its last bytes

ASSUME WireAssumption ==
    /\ Python \subseteq Clients /\ MaxCalls \in [Clients -> Nat] /\ Cuts \subseteq Nat
    /\ \A o, p \in Ops : Class(o) = Class(p) /\ Func(o) = Func(p) => o = p
    /\ \A o \in Ops : Class(o) \in 0..(Radix2 - 1) /\ Func(o) \in 0..(Radix2 - 1)

VARIABLES
    up,        \* the server runs
    client,    \* of each client: what it waits for, and what it has got of it
    toServer, toClient,   \* the bytes on the way
    session,   \* of each session: what it reads, and what it has got of it
    args,      \* members of the drivers: the arguments of each operation
    object,    \* what the drivers keep
    calls,     \* how many calls a client has made (for the bound)
    requests, answers, result   \* history: see RemoteCalls

vars == << up, client, toServer, toClient, session, args, object, calls,
           requests, answers, result >>

Return(op) == Ret(op) # <<>>
IsDynamic(op) == Return(op) /\ Ret(op)[1].kind = "vector"
Encoded(r) == build_command(Class(r.op), Func(r.op), Args(r.op), r.args)

\* Adjacent scalars are read together, each container for itself.
build_args_packs(op) ==
    LET add(packs, t) ==
          IF packs # <<>> /\ t.kind = "scalar" /\ Last(Last(packs)).kind = "scalar"
          THEN Append(Front(packs), Append(Last(packs), t))
          ELSE Append(packs, <<t>>)
    IN  FoldLeft(add, <<>>, Args(op))

Packs(op) == Len(build_args_packs(op))

\* The arguments before the k-th pack; and values v with those of this pack from w.
Before(op, k) == Len(FlattenSeq(SubSeq(build_args_packs(op), 1, k - 1)))
With(op, k, v, w) ==
    LET n == Before(op, k)
    IN  [i \in DOMAIN v |-> IF i \in (n + 1)..(n + Len(w)) THEN w[i - n] ELSE v[i]]
PackOf(op, k, v) ==
    SubSeq(v, Before(op, k) + 1, Before(op, k) + Len(build_args_packs(op)[k]))

\* Drivers and clients are typed: what is passed and returned is of the types
\* that the interface names.  Memory may hold any of it, pack by pack.
ASSUME TypesAssumption ==
    /\ Object0 \in Objects
    /\ \A o \in Ops :
        /\ Args(o) \in Seq(Types) /\ Ret(o) \in Seq(Types)
        /\ Len(Ret(o)) > 1 => \A i \in DOMAIN Ret(o) : Ret(o)[i].kind = "scalar"
        /\ AnyValues(o) # {} /\ \A v \in AnyValues(o) : Typed(Args(o), v)
        /\ \A c \in Clients : Values(c, o) \subseteq AnyValues(o)
        /\ \A v, w \in AnyValues(o), k \in 1..Packs(o) :
              With(o, k, v, PackOf(o, k, w)) \in AnyValues(o)
        /\ \A x \in Objects, v \in AnyValues(o) :
              /\ Effect(x, o, v) \in Objects
              /\ Return(o) => Typed(Ret(o), Result(x, o, v))

Pack(c) == build_args_packs(session[c].op)[session[c].pack]

\* How many bytes a read may give to one who has some and wants to have more.
Reads(buff, wanted, stream) ==
    { n \in 1..(wanted - Len(buff)) :
        /\ n <= Len(stream)
        /\ n \in {wanted - Len(buff), Len(stream)} \/ Len(buff) + n \in Cuts }

-----------------------------------------------------------------------------
(* The client. *)

Waiting(c) == client[c].pc \in {"fixed", "dynamic"}

\* recv_all: how many bytes the client waits for.
Expected(c) ==
    IF client[c].pc = "dynamic" THEN client[c].len
    ELSE HeaderSize + required_buffer_size(Ret(client[c].op))

\* An operation that returns nothing is not waited for.
Call(c, op, v) ==
    /\ client[c].pc = "idle" /\ calls[c] < MaxCalls[c]
    /\ calls' = [calls EXCEPT ![c] = @ + 1]
    /\ toServer' = [toServer EXCEPT ![c] =
                      IF up THEN @ \o Encoded([op |-> op, args |-> v]) ELSE @]
    /\ client' = [client EXCEPT ![c] =
                    [pc |-> IF Return(op) THEN "fixed" ELSE "idle",
                     op |-> op, buff |-> <<>>, len |-> 0]]
    /\ requests' = [requests EXCEPT ![c] =
                      IF up THEN Append(@, [op |-> op, args |-> v]) ELSE @]
    /\ UNCHANGED <<up, toClient, session, args, object, answers, result>>

\* ::recv gives some of the bytes that are there.
ClientReads(c) ==
    /\ Waiting(c)
    /\ \E n \in Reads(client[c].buff, Expected(c), toClient[c]) :
          /\ client' = [client EXCEPT ![c].buff = @ \o SubSeq(toClient[c], 1, n)]
          /\ toClient' = [toClient EXCEPT ![c] = SubSeq(@, n + 1, Len(@))]
    /\ UNCHANGED <<up, toServer, session, args, object, calls, requests, answers, result>>

Returned(c, v) ==
    /\ client' = [client EXCEPT ![c].pc = "idle", ![c].buff = <<>>]
    /\ result' = [result EXCEPT ![c] = v]
    /\ answers' = [answers EXCEPT ![c] = <<>>]

\* check_returned_header: the C++ client asserts, koheron.py does not look.
Checked(c) ==
    c \in Python \/ << ClassOf(client[c].buff), FuncOf(client[c].buff) >>
                      = << Class(client[c].op), Func(client[c].op) >>

command_deserializer(c) ==
    LET op == client[c].op
        b == client[c].buff
        payload == SubSeq(b, HeaderSize + 1, Len(b))
    IN  /\ Waiting(c) /\ Len(b) = Expected(c)
        /\ IF client[c].pc = "dynamic" THEN Returned(c, <<elements(Ret(op)[1].T, b)>>)
           ELSE IF ~Checked(c)
           THEN client' = [client EXCEPT ![c].pc = "aborted"] /\ UNCHANGED <<answers, result>>
           ELSE IF IsDynamic(op)
           THEN /\ client' = [client EXCEPT ![c].pc = "dynamic", ![c].buff = <<>>,
                                            ![c].len = extract("uint32_t", payload)]
                /\ UNCHANGED <<answers, result>>
           ELSE Returned(c, IF Ret(op)[1].kind = "array"
                            THEN <<elements(Ret(op)[1].T, payload)>>
                            ELSE deserialize(Ret(op), payload))
        /\ UNCHANGED <<up, toServer, toClient, session, args, object, calls, requests>>

\* Nothing is left to read from a server that ended.  The C++ client throws;
\* koheron.py compares the empty chunk with '', which bytes never equal, and
\* tries again.
ClientThrows(c) ==
    /\ Waiting(c) /\ ~up /\ toClient[c] = <<>> /\ Len(client[c].buff) < Expected(c)
    /\ c \notin Python
    /\ client' = [client EXCEPT ![c].pc = "closed"]
    /\ answers' = [answers EXCEPT ![c] = <<>>]
    /\ UNCHANGED <<up, toServer, toClient, session, args, object, calls, requests, result>>

\* It ends, of its own or not, and only a part of its last bytes was sent.
ClientEnds(c) ==
    /\ client[c].pc \in {"idle", "fixed", "dynamic"}
    /\ client' = [client EXCEPT ![c].pc = "closed"]
    /\ \E n \in {k \in Cuts \cup {0, Len(toServer[c])} : k <= Len(toServer[c])} :
          toServer' = [toServer EXCEPT ![c] = SubSeq(@, 1, n)]
    /\ toClient' = [toClient EXCEPT ![c] = <<>>]
    /\ answers' = [answers EXCEPT ![c] = <<>>]
    /\ UNCHANGED <<up, session, args, object, calls, requests, result>>

ClientStep(c) ==
    \/ \E op \in Ops : \E v \in Values(c, op) : Call(c, op, v)
    \/ ClientReads(c) \/ command_deserializer(c) \/ ClientThrows(c) \/ ClientEnds(c)

-----------------------------------------------------------------------------
(* The session. *)

Closed(c) == client[c].pc \in {"closed", "aborted"}
Reading(c) == session[c].pc \in {"header", "args", "payload"}

\* rcv_n_bytes: how many bytes the session waits for.
Wanted(c) == CASE session[c].pc = "header" -> HeaderSize
               [] session[c].pc = "args" -> required_buffer_size(Pack(c))
               [] session[c].pc = "payload" -> session[c].len

\* Mutant: the mutex is taken once the arguments are there.
MutexedToRun(c) == session[c].pc = "run"

\* execute holds the driver's mutex while it reads the arguments, too.
Mutexed(c) == session[c].pc \in {"args", "payload", "run"}

\* read gives some of the bytes that are there.
rcv_n_bytes(c) ==
    /\ Reading(c)
    /\ \E n \in Reads(session[c].buff, Wanted(c), toServer[c]) :
          /\ session' = [session EXCEPT ![c].buff = @ \o SubSeq(toServer[c], 1, n)]
          /\ toServer' = [toServer EXCEPT ![c] = SubSeq(@, n + 1, Len(@))]
    /\ UNCHANGED <<up, client, toClient, args, object, calls, requests, answers, result>>

Complete(c) == Reading(c) /\ Len(session[c].buff) = Wanted(c)
EndOfFile(c) == Closed(c) /\ toServer[c] = <<>>

\* A command that names no operation is refused; what follows is read as the
\* next header.
read_command(c) ==
    LET b == session[c].buff
        named == {o \in Ops : Class(o) = ClassOf(b) /\ Func(o) = FuncOf(b)}
    IN  /\ session[c].pc = "header" /\ Complete(c)
        /\ session' = [session EXCEPT ![c] =
             IF named = {} THEN [@ EXCEPT !.buff = <<>>]
             ELSE [@ EXCEPT !.pc = "lock", !.buff = <<>>, !.pack = 1,
                            !.op = CHOOSE o \in named : TRUE]]
        /\ UNCHANGED <<up, client, toServer, toClient, args, object, calls,
                       requests, answers, result>>

lock(c) ==
    /\ session[c].pc = "lock"
    /\ \A d \in Clients \ {c} : ~(Mutexed(d) /\ Class(session[d].op) = Class(session[c].op))
    /\ session' = [session EXCEPT ![c].pc = IF Packs(session[c].op) = 0 THEN "run" ELSE "args"]
    /\ UNCHANGED <<up, client, toServer, toClient, args, object, calls,
                   requests, answers, result>>

\* One pack of arguments goes to its members, and the session to the next.
Assign(c, v, garbled) ==
    LET op == session[c].op
    IN  /\ args' = [args EXCEPT ![op] = With(op, session[c].pack, @, v)]
        /\ session' = [session EXCEPT ![c].buff = <<>>, ![c].pack = @ + 1,
             ![c].pc = IF session[c].pack = Packs(op) THEN "run" ELSE "args",
             ![c].garbled = garbled]
        /\ UNCHANGED <<up, client, toServer, toClient, object, calls,
                       requests, answers, result>>

\* deserialize for scalars, recv for an array or a vector and its length.
recv_args(c) ==
    LET t == Pack(c)[1]
        b == session[c].buff
    IN  /\ session[c].pc \in {"args", "payload"} /\ Complete(c)
        /\ IF session[c].pc = "args" /\ t.kind = "vector"
           THEN /\ session' = [session EXCEPT ![c].pc = "payload", ![c].buff = <<>>,
                                 ![c].len = LET size == SizeOf[t.T]
                                            IN  (extract("uint32_t", b) \div size) * size]
                /\ UNCHANGED <<up, client, toServer, toClient, args, object, calls,
                               requests, answers, result>>
           ELSE Assign(c, IF t.kind = "scalar" THEN deserialize(Pack(c), b)
                          ELSE <<elements(t.T, b)>>, FALSE)

\* The client is gone: rcv_n_bytes gives 0, which only a negative number would
\* make an error, and the arguments are what the memory holds.
recv_nothing(c) ==
    LET op == session[c].op
    IN  /\ session[c].pc \in {"args", "payload"} /\ ~Complete(c) /\ EndOfFile(c)
        /\ \E v \in AnyValues(op) : Assign(c, PackOf(op, session[c].pack, v), TRUE)

\* The operation runs on the members, and the mutex is given back when its
\* result has been sent.
execute_operation(c) ==
    LET op == session[c].op
        reply == Result(object, op, args[op])
    IN  /\ session[c].pc = "run"
        /\ object' = Effect(object, op, args[op])
        /\ toClient' = [toClient EXCEPT ![c] =
             IF Return(op) /\ ~Closed(c)
             THEN @ \o build_command(Class(op), Func(op), Ret(op), reply) ELSE @]
        /\ answers' = [answers EXCEPT ![c] = IF Return(op) /\ ~Closed(c) THEN <<reply>> ELSE <<>>]
        /\ requests' = [requests EXCEPT ![c] = IF session[c].garbled THEN <<>> ELSE Tail(@)]
        /\ session' = [session EXCEPT ![c].pc = "header", ![c].garbled = FALSE]
        /\ UNCHANGED <<up, client, toServer, args, calls, result>>

SessionEnds(c) ==
    /\ session[c].pc = "header" /\ ~Complete(c) /\ EndOfFile(c)
    /\ session' = [session EXCEPT ![c].pc = "gone"]
    /\ requests' = [requests EXCEPT ![c] = <<>>]
    /\ UNCHANGED <<up, client, toServer, toClient, args, object, calls, answers, result>>

SessionStep(c) ==
    \/ rcv_n_bytes(c) \/ read_command(c) \/ lock(c) \/ recv_args(c) \/ recv_nothing(c)
    \/ execute_operation(c) \/ SessionEnds(c)

\* The server ends, and of the bytes to a client the last may get lost.
ServerEnds ==
    /\ up /\ up' = FALSE
    /\ session' = [c \in Clients |-> [session[c] EXCEPT !.pc = "gone"]]
    /\ toServer' = [c \in Clients |-> <<>>] /\ requests' = [c \in Clients |-> <<>>]
    /\ UNCHANGED <<client, toClient, args, object, calls, answers, result>>

BytesLost(c) ==
    /\ ~up
    /\ \E n \in 0..(Len(toClient[c]) - 1) :
          toClient' = [toClient EXCEPT ![c] = SubSeq(@, 1, n)]
    /\ answers' = [answers EXCEPT ![c] = <<>>]
    /\ UNCHANGED <<up, client, toServer, session, args, object, calls, requests, result>>

-----------------------------------------------------------------------------

Start == [pc |-> "header", op |-> CHOOSE o \in Ops : TRUE, buff |-> <<>>, pack |-> 1,
          len |-> 0, garbled |-> FALSE]

Init ==
    /\ up = TRUE
    /\ client = [c \in Clients |-> [pc |-> "idle", op |-> CHOOSE o \in Ops : TRUE,
                                    buff |-> <<>>, len |-> 0]]
    /\ toServer = [c \in Clients |-> <<>>] /\ toClient = [c \in Clients |-> <<>>]
    /\ session = [c \in Clients |-> Start]
    /\ args = [o \in Ops |-> CHOOSE v \in AnyValues(o) : TRUE]  \* written before read
    /\ object = Object0 /\ calls = [c \in Clients |-> 0]
    /\ requests = [c \in Clients |-> <<>>]
    /\ answers = [c \in Clients |-> <<>>] /\ result = [c \in Clients |-> <<>>]

Next == ServerEnds \/ \E c \in Clients : ClientStep(c) \/ SessionStep(c) \/ BytesLost(c)

\* What was sent arrives, a session and a client that waits go on, and a mutex
\* that is free is taken.  Nobody has to call or to end.
Fairness ==
    \A c \in Clients :
        /\ WF_vars(SessionStep(c))
        /\ WF_vars(ClientReads(c)) /\ WF_vars(command_deserializer(c)) /\ WF_vars(ClientThrows(c))

Spec == Init /\ [][Next]_vars /\ Fairness

-----------------------------------------------------------------------------
(* Properties. *)

\* What the session has yet to read of the request it is at.
Unread(c) ==
    LET r == requests[c][1]
        sent == Encoded(r)
        packs == SubSeq(build_args_packs(r.op), 1, session[c].pack - 1)
        read == command_serializer(FlattenSeq(packs), SubSeq(r.args, 1, Len(FlattenSeq(packs))))
        length == IF session[c].pc = "payload" THEN SizeOf["uint32_t"] ELSE 0
    IN  SubSeq(sent, HeaderSize + Len(read) + length + 1, Len(sent))

\* Client and session are in step: what the session has of the command it is
\* at, with what is on its way, is the rest of that command and the commands
\* called after it.  (The streams of session.cpp:44 and koheron-client.hpp:838,
\* which carry no mark of where a command begins.)
InStep ==
    \A c \in Clients :
        LET all(rs) == FlattenSeq([i \in DOMAIN rs |-> Encoded(rs[i])])
        IN  up /\ ~Closed(c) /\ session[c].pc # "gone" =>
              session[c].buff \o toServer[c] =
                IF session[c].pc = "header" THEN all(requests[c])
                ELSE IF session[c].pc = "run" THEN all(Tail(requests[c]))
                ELSE Unread(c) \o all(Tail(requests[c]))

\* The protocol keeps its promise: each call runs once, on its own arguments
\* whatever other sessions do to the same driver, and gets its own result.
Promise == INSTANCE RemoteCalls WITH
    Returns <- Return, present <- {c \in Clients : ~Closed(c)}
KeepsPromise == Promise!Spec

\* A call ends: its result comes, or the client learns that the server ended.
\* (The mutex is held while the arguments are read: other clients wait for
\* those of a client whose command is on the way.)
CallEnds == \A c \in Clients \ Python : Waiting(c) ~> ~Waiting(c) /\ client[c].pc # "aborted"
=============================================================================
