----------------------------- MODULE WebSocket -----------------------------
(***************************************************************************)
(* A session over a WebSocket (websocket.cpp, Session<WEBSOCK>): the       *)
(* handshake, frames read from the socket into read_str, a command taken   *)
(* from each, its reply put into a frame and written.  The client is a     *)
(* browser; the socket gives a reader, and takes from a writer, any part.  *)
(*                                                                         *)
(* The bits fin and mask are left out: the code stores them and looks at   *)
(* neither.  So is the sign of a payload's length.                         *)
(***************************************************************************)
EXTENDS Codec

CONSTANTS
    Commands,       \* what clients send: class, func, args
    Args(_),        \* the arguments' types of a func
    Reply(_),       \* the length of a command's reply, 0 for none
    Odd,            \* frames that are no commands: opcode and length
    Masks,          \* the masks that the browser chooses
    Xored(_, _),    \* exclusive or of two bytes
    MaxFrames,      \* bound: frames of the client
    Cuts,           \* bound: a read or a write of so many bytes may leave the rest
    SMALL_STREAM,   \* the longest payload whose length is in the header (125)
    MediumMax,      \* and the longest whose length takes two bytes (65535)
    WEBSOCK_READ_STR_LEN, Margin,   \* a longer payload than their difference (56)
    KOHERON_READ_STR_LEN,           \* and a buffer filled to here are refused
    WEBSOCK_SEND_BUF_LEN

ASSUME WebSocketAssumption ==
    /\ SMALL_STREAM \in Nat /\ MediumMax \in Nat /\ SMALL_STREAM <= MediumMax
    /\ SMALL_STREAM + 2 < Radix /\ MediumMax < Radix2
    /\ WEBSOCK_READ_STR_LEN \in Nat /\ Margin \in Nat /\ Margin >= 14
    /\ Margin <= WEBSOCK_READ_STR_LEN
    /\ \A a, b \in Byte : Xored(a, b) \in Byte /\ Xored(Xored(a, b), b) = a
    /\ Masks \subseteq [1..4 -> Byte] /\ Cuts \subseteq Nat

VARIABLES
    browser,      \* the client is there
    toServer, toClient,           \* bytes on the way
    exit_signal,
    pc,           \* where the session is
    read_str,     \* the bytes of the frame it reads
    expected,     \* and how many of them the current read wants
    header,       \* header_size, mask_offset, payload_size
    cmd,          \* the command's bytes, unmasked
    connection_closed,
    send_buf,     \* what remains to be written
    sent, executed, replied       \* history: commands, replies

vars == << browser, toServer, toClient, exit_signal, cmd, pc, read_str, expected, header,
           connection_closed, send_buf, sent, executed, replied >>

TEXT_FRAME == 1
BINARY_FRAME == 2
CONNECTION_CLOSE == 8

MEDIUM_STREAM == SMALL_STREAM + 1
BIG_STREAM == SMALL_STREAM + 2

Mask(payload, mask) == [i \in DOMAIN payload |-> Xored(payload[i], mask[((i - 1) % 4) + 1])]

\* Opcode, length and, of a long payload, its length in two or eight bytes.
set_send_header(opcode, data_len) ==
    CASE data_len <= SMALL_STREAM -> <<opcode, data_len>>
      [] data_len > SMALL_STREAM /\ data_len <= MediumMax ->
            <<opcode, MEDIUM_STREAM>> \o Append2(data_len)
      [] OTHER -> <<opcode, BIG_STREAM>> \o Append8(data_len)

-----------------------------------------------------------------------------
(* The browser. *)

Request(c) == build_command(c.class, c.func, Args(c.func), c.args)

\* What lengths eight bytes can hold.
Countable(n) == n \in Nat /\ n \div Radix4 < Radix4

\* An odd frame is one that no session serves.
ASSUME FramesAssumption ==
    /\ CONNECTION_CLOSE \in Byte
    /\ \A c \in Commands :
          /\ c = [class |-> c.class, func |-> c.func, args |-> c.args]
          /\ c.class \in 0..(Radix2 - 1) /\ c.func \in 0..(Radix2 - 1)
          /\ Args(c.func) \in Seq(Types) /\ Typed(Args(c.func), c.args)
          /\ Countable(Len(Request(c))) /\ Reply(c.func) \in Nat
    /\ \A f \in Odd :
          /\ f.opcode \in Byte /\ Countable(f.len)
          /\ \/ f.opcode \notin {TEXT_FRAME, BINARY_FRAME} \/ f.len < HeaderSize
             \/ f.len > WEBSOCK_READ_STR_LEN - Margin

NoCommand == [class |-> 0, func |-> 0, args |-> <<>>]

Frame(opcode, payload, mask) ==
    set_send_header(opcode, Len(payload)) \o mask \o Mask(payload, mask)

SendCommand(c, mask) ==
    /\ browser /\ pc \notin {"handshake", "refused", "over"} /\ Len(sent) < MaxFrames
    /\ toServer' = toServer \o Frame(BINARY_FRAME, Request(c), mask)
    /\ sent' = Append(sent, c)
    /\ UNCHANGED << browser, toClient, exit_signal, cmd, pc, read_str, expected, header,
                    connection_closed, send_buf, executed, replied >>

\* A frame that is refused, or closes the connection.
SendOdd(f) ==
    /\ browser /\ pc \notin {"handshake", "refused", "over"} /\ Len(sent) < MaxFrames
    /\ toServer' = toServer \o Frame(f.opcode, [i \in 1..f.len |-> 0], <<0, 0, 0, 0>>)
    /\ sent' = Append(sent, NoCommand)
    /\ UNCHANGED << browser, toClient, exit_signal, cmd, pc, read_str, expected, header,
                    connection_closed, send_buf, executed, replied >>

\* It leaves, and a part of what it sent last may never arrive.
Leave ==
    /\ browser /\ browser' = FALSE
    /\ \E n \in {k \in Cuts \cup {Len(toServer)} : k <= Len(toServer)} :
          toServer' = SubSeq(toServer, 1, n)
    /\ UNCHANGED << toClient, exit_signal, pc, read_str, expected, header, cmd,
                    connection_closed, send_buf, sent, executed, replied >>

-----------------------------------------------------------------------------
(* The session.  A frame of its own tells the client that the server exits. *)

Over(closed) ==
    /\ pc' = "over" /\ connection_closed' = closed
    /\ UNCHANGED << browser, toServer, toClient, exit_signal, cmd, read_str, expected, header,
                    send_buf, sent, executed, replied >>

\* run breaks its loop for exit_signal and returns for anything else.
Ends(closed) ==
    IF exit_signal /\ ~closed
    THEN /\ pc' = "exit" /\ send_buf' = set_send_header(CONNECTION_CLOSE, 0)
         /\ UNCHANGED << browser, toServer, toClient, exit_signal, cmd, read_str, expected,
                         header, connection_closed, sent, executed, replied >>
    ELSE Over(closed)

\* The server gets a signal to end.
Exit ==
    /\ ~exit_signal /\ exit_signal' = TRUE
    /\ UNCHANGED << browser, toServer, toClient, cmd, pc, read_str, expected, header,
                    connection_closed, send_buf, sent, executed, replied >>

Read(pc_, header_, n) ==
    /\ pc' = pc_ /\ header' = header_ /\ expected' = n
    /\ UNCHANGED << browser, toServer, toClient, exit_signal, cmd, read_str, connection_closed,
                    send_buf, sent, executed, replied >>

\* authenticate: one read has to give the whole request.
authenticate(whole) ==
    /\ pc = "handshake"
    /\ IF browser /\ whole THEN Read("header", header, 6)
       ELSE /\ pc' = "refused" /\ connection_closed' = ~browser
            /\ UNCHANGED << browser, toServer, toClient, exit_signal, cmd, read_str, expected,
                            header, send_buf, sent, executed, replied >>

Reading == pc \in {"header", "length", "payload"}

\* The bytes of a read into the buffer: any that are there, but no more than
\* are wanted.
read_n_bytes ==
    /\ Reading /\ expected > 0 /\ toServer # <<>>
    /\ \E n \in 1..expected :
          /\ n <= Len(toServer) /\ (n \in {expected, Len(toServer)} \/ n \in Cuts)
          /\ read_str' = read_str \o SubSeq(toServer, 1, n)
          /\ toServer' = SubSeq(toServer, n + 1, Len(toServer))
          /\ expected' = expected - n
    /\ UNCHANGED << browser, toClient, exit_signal, cmd, pc, header, connection_closed,
                    send_buf, sent, executed, replied >>

\* Mutant: noticed in the header only.
ConnectionClosedLate ==
    /\ pc = "header" /\ expected > 0 /\ toServer = <<>> /\ ~browser
    /\ Ends(TRUE)

\* The client is gone.  In the header this is noticed once more, in a read of
\* as many bytes as the last payload had.
ConnectionClosed ==
    /\ Reading /\ expected > 0 /\ toServer = <<>> /\ ~browser
    /\ Ends(TRUE)

\* The buffer is said to be full.
BufferFull == Len(read_str) = KOHERON_READ_STR_LEN

ReadDone == Reading /\ expected = 0

Refuse == Ends(FALSE)

\* Mutants: no limit; the limit of the smaller buffer.
ReadPayloadAny(size, offset, len) ==
    Read("payload", [header_size |-> size, mask_offset |-> offset, payload_size |-> len], len)

ReadPayloadSmall(size, offset, len) ==
    IF len > KOHERON_READ_STR_LEN - Margin THEN Refuse
    ELSE ReadPayloadAny(size, offset, len)

\* The payload comes next, unless it is too long.
ReadPayload(size, offset, len) ==
    IF len > WEBSOCK_READ_STR_LEN - Margin THEN Refuse
    ELSE Read("payload", [header_size |-> size, mask_offset |-> offset, payload_size |-> len],
              len)

read_header ==
    /\ pc = "header" /\ ReadDone
    /\ IF BufferFull THEN Refuse
       ELSE IF read_str[1] = CONNECTION_CLOSE
       THEN Ends(TRUE)
       ELSE IF read_str[1] \notin {TEXT_FRAME, BINARY_FRAME} THEN Refuse
       ELSE IF read_str[2] = MEDIUM_STREAM THEN Read("length", header, 2)
       ELSE IF read_str[2] = BIG_STREAM THEN Read("length", header, 8)
       ELSE ReadPayload(6, 2, read_str[2])

read_length ==
    /\ pc = "length" /\ ReadDone
    /\ IF BufferFull THEN Refuse
       ELSE IF read_str[2] = MEDIUM_STREAM
       THEN ReadPayload(8, 4, Extract2(SubSeq(read_str, 3, 4)))
       ELSE ReadPayload(14, 10, Extract8(SubSeq(read_str, 3, 10)))

\* Mutant: the bytes of the mask one further on.
UnmaskedShifted(b, mask) == [i \in DOMAIN b |-> Xored(b[i], mask[(i % 4) + 1])]

Unmasked(b, mask) == [i \in DOMAIN b |-> Xored(b[i], mask[((i - 1) % 4) + 1])]

decode_raw_stream_cmd ==
    /\ pc = "payload" /\ ReadDone
    /\ IF (BufferFull /\ header.payload_size > 0) \/ header.payload_size < HeaderSize
       THEN Refuse
       ELSE IF exit_signal THEN Ends(FALSE)
       ELSE /\ cmd' = Unmasked(SubSeq(read_str, header.header_size + 1, Len(read_str)),
                               SubSeq(read_str, header.mask_offset + 1, header.mask_offset + 4))
            /\ pc' = "execute"
            /\ UNCHANGED << browser, toServer, toClient, exit_signal, read_str, expected,
                            header, connection_closed, send_buf, sent, executed, replied >>

\* The next argument from the payload, of which s.at bytes have been read
\* (commands.hpp).
extract_arg(b, s, t) ==
    LET from == s.at + (IF t.kind = "vector" THEN SizeOf["uint32_t"] ELSE 0)
        n == IF t.kind = "vector"
             THEN extract("uint32_t", SubSeq(b, s.at + 1, from)) ELSE FixedSize(t)
        taken == SubSeq(b, from + 1, from + n)
    IN  [ at |-> from + n,
          args |-> Append(s.args, IF t.kind = "scalar" THEN extract(t.T, taken)
                                  ELSE elements(t.T, taken)) ]

extract_args(types, b) ==
    FoldLeft(LAMBDA s, t : extract_arg(b, s, t), [at |-> 0, args |-> <<>>], types).args

ReplyFrame(n) == set_send_header(BINARY_FRAME, n) \o [i \in 1..n |-> i % 2]
Sendable(n) == n > 0 /\ n + 10 <= WEBSOCK_SEND_BUF_LEN

\* The loop of run goes on with the next frame.
NextFrame ==
    /\ pc' = (IF exit_signal THEN "exit" ELSE IF connection_closed THEN "over" ELSE "header")
    /\ send_buf' = IF exit_signal /\ ~connection_closed
                   THEN set_send_header(CONNECTION_CLOSE, 0) ELSE <<>>
    /\ read_str' = <<>> /\ expected' = 6

\* A frame that is whole is a command.  A reply that is too long is not sent.
ExecuteCommand ==
    LET func == FuncOf(cmd)
        args == extract_args(Args(func), SubSeq(cmd, HeaderSize + 1, Len(cmd)))
    IN  /\ pc = "execute" /\ cmd' = <<>>
        /\ executed' = Append(executed, [class |-> ClassOf(cmd), func |-> func, args |-> args])
        /\ IF Sendable(Reply(func))
           THEN /\ replied' = Append(replied, Reply(func))
                /\ send_buf' = ReplyFrame(Reply(func)) /\ pc' = "send"
                /\ UNCHANGED <<read_str, expected>>
           ELSE NextFrame /\ UNCHANGED replied
        /\ UNCHANGED << browser, toServer, toClient, exit_signal, header,
                        connection_closed, sent >>

\* Mutant: what the socket does not take at once is not sent.
send_request_once ==
    /\ pc \in {"send", "exit"} /\ send_buf # <<>>
    /\ \E n \in {k \in Cuts \cup {Len(send_buf)} : k \in 1..Len(send_buf)} :
          toClient' = toClient \o SubSeq(send_buf, 1, n)
    /\ send_buf' = <<>>
    /\ UNCHANGED << browser, toServer, exit_signal, cmd, pc, read_str, expected, header,
                    connection_closed, sent, executed, replied >>

\* send_request: the socket takes a part; to a client that is gone it may take
\* it all the same.
send_request ==
    /\ pc \in {"send", "exit"} /\ send_buf # <<>>
    /\ \E n \in {k \in Cuts \cup {Len(send_buf)} : k \in 1..Len(send_buf)} :
          /\ toClient' = toClient \o SubSeq(send_buf, 1, n)
          /\ send_buf' = SubSeq(send_buf, n + 1, Len(send_buf))
    /\ UNCHANGED << browser, toServer, exit_signal, cmd, pc, read_str, expected, header,
                    connection_closed, sent, executed, replied >>

SendFails ==
    /\ pc \in {"send", "exit"} /\ send_buf # <<>> /\ ~browser
    /\ connection_closed' = TRUE /\ send_buf' = <<>>
    /\ UNCHANGED << browser, toServer, toClient, exit_signal, cmd, pc, read_str, expected, header,
                    sent, executed, replied >>

Sent ==
    /\ pc \in {"send", "exit"} /\ send_buf = <<>>
    /\ IF pc = "send" THEN NextFrame
       ELSE pc' = "over" /\ UNCHANGED <<send_buf, read_str, expected>>
    /\ UNCHANGED << browser, toServer, toClient, exit_signal, cmd, header, connection_closed,
                    sent, executed, replied >>

SessionStep ==
    \/ read_n_bytes \/ ConnectionClosed \/ read_header \/ read_length
    \/ decode_raw_stream_cmd \/ ExecuteCommand \/ send_request \/ SendFails \/ Sent

-----------------------------------------------------------------------------

Init ==
    /\ browser = TRUE /\ exit_signal = FALSE /\ connection_closed = FALSE
    /\ toServer = <<>> /\ toClient = <<>>
    /\ pc = "handshake" /\ read_str = <<>> /\ expected = 0 /\ cmd = <<>> /\ send_buf = <<>>
    /\ header = [header_size |-> 6, mask_offset |-> 2, payload_size |-> 0]
    /\ sent = <<>> /\ executed = <<>> /\ replied = <<>>

Next ==
    \/ \E c \in Commands, mask \in Masks : SendCommand(c, mask)
    \/ \E f \in Odd : SendOdd(f)
    \/ Leave \/ Exit
    \/ \E whole \in BOOLEAN : authenticate(whole)
    \/ SessionStep

\* The session's thread runs, and what was sent arrives.
Fairness == WF_vars(SessionStep) /\ WF_vars(\E whole \in BOOLEAN : authenticate(whole))

Spec == Init /\ [][Next]_vars /\ Fairness

-----------------------------------------------------------------------------
(* Properties. *)

\* Whatever parts the socket gives, the frames stay apart: the session runs the
\* client's commands with their arguments, in their order, each once, and
\* nothing it was not sent (websocket.cpp:161-374).
InOrder == IsPrefix(executed, sent)

\* No read may write past the end of read_str (websocket.cpp:343), also when
\* the frame's header says a length of its own.
InBuffer == Reading => Len(read_str) + expected <= WEBSOCK_READ_STR_LEN

\* The client gets the replies whole and in their order, however the socket
\* takes them, and a session that reads the next frame owes none
\* (websocket.cpp:386-412).
RepliesWhole ==
    LET all == FlattenSeq([i \in DOMAIN replied |-> ReplyFrame(replied[i])])
    IN  /\ browser /\ Reading => toClient = all
        /\ browser => IsPrefix(toClient, all \o set_send_header(CONNECTION_CLOSE, 0))

\* Its commands run if the client stays and sends nothing else, and the server
\* does not end; but not from a frame on that fills the buffer to just where
\* read_n_bytes takes it for full.
Undisturbed == browser /\ ~exit_signal /\ \A i \in DOMAIN sent : sent[i] # NoCommand
CommandsRun == Undisturbed ~> executed = sent \/ ~Undisturbed \/ BufferFull

\* A session whose client is gone ends, wherever it is.
SessionOver == ~browser ~> pc \in {"refused", "over"}
=============================================================================
