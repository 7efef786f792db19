---------------------------- MODULE RegisterFile ----------------------------
(***************************************************************************)
(* What the path to the registers promises its users: one request at a     *)
(* time; a write puts its word into its register, and no other into any    *)
(* register, before it ends; a read returns what its register holds.       *)
(***************************************************************************)
CONSTANTS Requests,  \* [write, address, word]
          NoRequest,
          Initial    \* what the registers hold first

VARIABLES registers, request, done, returned

vars == <<registers, request, done, returned>>

Init == registers = Initial /\ request = NoRequest /\ done = FALSE /\ returned = 0

Ask == /\ request = NoRequest
       /\ request' \in Requests
       /\ UNCHANGED <<registers, done, returned>>

Pending(isWrite) == /\ request # NoRequest /\ ~done
                    /\ request.write = isWrite
                    /\ done' = TRUE

Write == /\ Pending(TRUE)
         /\ registers' = [registers EXCEPT ![request.address] = request.word]
         /\ UNCHANGED <<request, returned>>

Read == /\ Pending(FALSE)
        /\ returned' = registers[request.address]
        /\ UNCHANGED <<registers, request>>

End == /\ done
       /\ done' = FALSE /\ request' = NoRequest
       /\ UNCHANGED <<registers, returned>>

Next == Ask \/ Write \/ Read \/ End

Spec == Init /\ [][Next]_vars
=============================================================================
