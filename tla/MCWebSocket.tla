---------------------------- MODULE MCWebSocket ----------------------------
(* Commands of the three lengths that a frame tells apart, one of which fills *)
(* the buffer to just the smaller limit, and frames that no session serves: a *)
(* ping, an empty, a short and a long one, and a close.                       *)
EXTENDS WebSocket, Bitwise

MCCommands == { [class |-> 2, func |-> 0, args |-> <<>>],
                [class |-> 2, func |-> 1, args |-> <<-1, <<1>>>>],
                [class |-> 2, func |-> 1, args |-> <<0, <<1, 0, 0>>>>],
                [class |-> 2, func |-> 2, args |-> <<1>>] }
MCArgs(func) == CASE func = 0 -> <<>>
                  [] func = 1 -> <<Scalar("int8_t"), Vector("uint8_t")>>
                  [] func = 2 -> <<Scalar("uint32_t")>>
                  [] OTHER -> <<>>
MCMasks == {<<0, 0, 0, 0>>, <<1, 0, 0, 15>>}
MCXored(a, b) == a ^^ b
MCReply(func) == IF func = 1 THEN 9 ELSE 0
MCOdd == { [opcode |-> 9, len |-> 0], [opcode |-> 2, len |-> 0], [opcode |-> 2, len |-> 3],
           [opcode |-> 2, len |-> 17], [opcode |-> 8, len |-> 0] }
=============================================================================
