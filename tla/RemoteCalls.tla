---------------------------- MODULE RemoteCalls ----------------------------
(***************************************************************************)
(* What the protocol of koheron-server promises: a call of an operation    *)
(* runs once, at one moment between call and return, on the arguments the  *)
(* client gave, in the order of the client's calls, and what it returns is *)
(* what the client gets.  An operation that returns nothing may run after  *)
(* its call has returned.  The calls of a client that left are run or      *)
(* dropped, and of the last one that is run it may have sent a part only.  *)
(***************************************************************************)
EXTENDS Naturals, Sequences

CONSTANTS Clients, Ops, Returns(_), Values(_, _), AnyValues(_),
          Object0, Effect(_, _, _), Result(_, _, _)

VARIABLES
    object,     \* what the drivers keep
    requests,   \* of each client: its calls that have not run
    answers,    \* and the result of one that did and returns something
    result,     \* and what its last call returned
    present     \* the clients that are connected

vars == <<object, requests, answers, result, present>>

Init ==
    /\ object = Object0 /\ present = Clients
    /\ requests = [c \in Clients |-> <<>>]
    /\ answers = [c \in Clients |-> <<>>]
    /\ result = [c \in Clients |-> <<>>]

Call(c, op, v) ==
    /\ c \in present /\ answers[c] = <<>>
    /\ \A i \in DOMAIN requests[c] : ~Returns(requests[c][i].op)
    /\ requests' = [requests EXCEPT ![c] = Append(@, [op |-> op, args |-> v])]
    /\ UNCHANGED <<object, answers, result, present>>

Runs(c, op, v) ==
    /\ object' = Effect(object, op, v)
    /\ answers' = [answers EXCEPT ![c] = IF c \in present /\ Returns(op)
                                         THEN <<Result(object, op, v)>> ELSE <<>>]
    /\ UNCHANGED <<result, present>>

Run(c) ==
    /\ requests[c] # <<>>
    /\ Runs(c, Head(requests[c]).op, Head(requests[c]).args)
    /\ requests' = [requests EXCEPT ![c] = Tail(@)]

Return(c) ==
    /\ answers[c] # <<>>
    /\ result' = [result EXCEPT ![c] = Head(answers[c])]
    /\ answers' = [answers EXCEPT ![c] = <<>>]
    /\ UNCHANGED <<object, requests, present>>

Leave(c) ==
    /\ c \in present
    /\ present' = present \ {c}
    /\ answers' = [answers EXCEPT ![c] = <<>>]
    /\ UNCHANGED <<object, requests, result>>

RunPart(c) ==
    /\ c \notin present /\ requests[c] # <<>>
    /\ \E v \in AnyValues(Head(requests[c]).op) : Runs(c, Head(requests[c]).op, v)
    /\ requests' = [requests EXCEPT ![c] = <<>>]

Drop(c) ==
    /\ c \notin present
    /\ requests' = [requests EXCEPT ![c] = <<>>]
    /\ UNCHANGED <<object, answers, result, present>>

\* The server ends: what has not run is dropped.
Stop ==
    /\ requests' = [c \in Clients |-> <<>>]
    /\ \A c \in Clients : answers'[c] \in {answers[c], <<>>}
    /\ UNCHANGED <<object, result, present>>

Next ==
    \/ \E c \in Clients : \/ Run(c) \/ Return(c) \/ Leave(c) \/ RunPart(c) \/ Drop(c)
                          \/ \E op \in Ops : \E v \in Values(c, op) : Call(c, op, v)
    \/ Stop

Spec == Init /\ [][Next]_vars
=============================================================================
