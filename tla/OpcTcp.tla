------------------------------- MODULE OpcTcp -------------------------------
(***************************************************************************)
(* One connection of the TCP server: the bytes of OPC commands on their    *)
(* way from a client, the receive buffer mongoose keeps, and event_handler,*)
(* which mongoose calls with NS_RECV after every read from the socket.     *)
(*                                                                         *)
(* A byte is a cell that knows its command and its place in it, so that    *)
(* the model can tell where the commands begin; the server cannot, and     *)
(* what it reads in the middle of a command may say anything.  The server  *)
(* thread serves the connections one after the other, and they share       *)
(* nothing but the frame store, so one connection is enough.               *)
(***************************************************************************)
EXTENDS Integers, Sequences

CONSTANTS
  HeaderSize,  \* sizeof(opc_cmd_t), 4 in the code
  Lengths,     \* the payload lengths of the commands clients send
  RecvSize,    \* the size of buf in ns_read_from_socket, 2048
  BufLimit,    \* 1e5
  MaxSent      \* bound: commands sent over one connection

ASSUME OpcAssumption ==
  /\ HeaderSize \in Nat \ {0} /\ RecvSize \in Nat \ {0}
  /\ Lengths \subseteq Nat
  /\ \A n \in Lengths : HeaderSize + n <= BufLimit
  /\ BufLimit \in Nat /\ MaxSent \in Nat

VARIABLES
  conn,        \* "none", "open", or "ended" once the client has closed its side
  sent,        \* ghost: the commands sent over the connection
  wire,        \* the bytes in the sockets
  recv_iobuf,
  send_iobuf,  \* config replies not yet written to the socket
  frames,      \* what was passed to set_next_frame_data, in order
  handled,     \* ghost: commands removed from the buffer
  cleared      \* ghost: whether bytes were thrown away

vars == <<conn, sent, wire, recv_iobuf, send_iobuf, frames, handled, cleared>>

(* Command 0 carries pixels; 255 with the right ids asks for the config;   *)
(* anything else only draws a warning.                                     *)
Kinds == {"pixels", "get_config", "other"}
Garbage == 0                \* a frame that is no client's

Bytes(i, len) == [j \in 1 .. HeaderSize + len |-> [cmd |-> i, at |-> j]]

(* The buffers of a connection grow as they are filled.                    *)
iobuf_init == <<>>
iobuf_append(io, bytes) == io \o bytes
iobuf_remove(io, n) == SubSeq(io, n + 1, Len(io))

Init ==
  /\ conn = "none"
  /\ sent = <<>> /\ wire = <<>>
  /\ recv_iobuf = iobuf_init /\ send_iobuf = 0
  /\ frames = <<>> /\ handled = 0 /\ cleared = FALSE

-----------------------------------------------------------------------------
(* The client.                                                             *)

Connect ==
  /\ conn = "none"
  /\ conn' = "open"
  /\ UNCHANGED <<sent, wire, recv_iobuf, send_iobuf, frames, handled, cleared>>

SendCommand ==
  /\ conn = "open" /\ Len(sent) < MaxSent
  /\ \E kind \in Kinds, len \in Lengths :
       /\ sent' = Append(sent, [kind |-> kind, len |-> len])
       /\ wire' = wire \o Bytes(Len(sent) + 1, len)
  /\ UNCHANGED <<conn, recv_iobuf, send_iobuf, frames, handled, cleared>>

ClientCloses ==
  /\ conn = "open"
  /\ conn' = "ended"
  /\ UNCHANGED <<sent, wire, recv_iobuf, send_iobuf, frames, handled, cleared>>

-----------------------------------------------------------------------------
(* The header the handler reads at the start of the buffer: that of the    *)
(* command there if one begins there, else whatever the bytes happen to be.*)
Headers(io) ==
  IF io[1].at = 1
    THEN {[cmd |-> io[1].cmd, kind |-> sent[io[1].cmd].kind, len |-> sent[io[1].cmd].len]}
    ELSE [cmd : {Garbage}, kind : Kinds, len : Lengths]

Complete(io, header) == Len(io) >= HeaderSize + header.len

(* Mutants of Fallback: nothing is thrown away, or one byte too early.     *)
KeepAlways(io) == io
FallbackAtLimit(io) == IF Len(io) >= BufLimit THEN <<>> ELSE io

(* More than 100k waiting is taken for misformed data and thrown away.     *)
Fallback(io) == IF Len(io) > BufLimit THEN <<>> ELSE io

ns_send(n) == send_iobuf' = send_iobuf + n

Handle(header) ==
  /\ frames' = IF header.kind = "pixels" THEN Append(frames, header.cmd) ELSE frames
  /\ ns_send(IF header.kind = "get_config" THEN 1 ELSE 0)
  /\ handled' = handled + 1

(* A mutant of EventHandler: only the payload of a command is removed.     *)
EventHandlerKeepsHeader(io) ==
  \/ /\ Len(io) < HeaderSize \/ \E header \in Headers(io) : ~Complete(io, header)
     /\ recv_iobuf' = Fallback(io)
     /\ cleared' = (cleared \/ Fallback(io) # io)
     /\ UNCHANGED <<frames, send_iobuf, handled>>
  \/ /\ Len(io) >= HeaderSize
     /\ \E header \in Headers(io) :
          /\ Complete(io, header)
          /\ Handle(header)
          /\ LET rest == iobuf_remove(io, header.len)
             IN  /\ recv_iobuf' = Fallback(rest)
                 /\ cleared' = (cleared \/ Fallback(rest) # rest)

(* event_handler on NS_RECV: at most one command, however many there are.  *)
EventHandler(io) ==
  \/ /\ Len(io) < HeaderSize \/ \E header \in Headers(io) : ~Complete(io, header)
     /\ recv_iobuf' = Fallback(io)
     /\ cleared' = (cleared \/ Fallback(io) # io)
     /\ UNCHANGED <<frames, send_iobuf, handled>>
  \/ /\ Len(io) >= HeaderSize
     /\ \E header \in Headers(io) :
          /\ Complete(io, header)
          /\ Handle(header)
          /\ LET rest == iobuf_remove(io, HeaderSize + header.len)
             IN  /\ recv_iobuf' = Fallback(rest)
                 /\ cleared' = (cleared \/ Fallback(rest) # rest)

(* ns_read_from_socket: some of the bytes that are there, up to RecvSize.  *)
ReadFromSocket ==
  /\ conn # "none"
  /\ \E n \in 1 .. RecvSize :
       /\ n <= Len(wire)
       /\ wire' = SubSeq(wire, n + 1, Len(wire))
       /\ EventHandler(iobuf_append(recv_iobuf, SubSeq(wire, 1, n)))
  /\ UNCHANGED <<conn, sent>>

(* The end of the stream is an error to ns_read_from_socket; ns_close_conn *)
(* frees both buffers with what they hold.                                 *)
CloseConn ==
  /\ conn = "ended" /\ wire = <<>>
  /\ conn' = "none"
  /\ recv_iobuf' = iobuf_init /\ send_iobuf' = 0
  /\ sent' = <<>> /\ frames' = <<>> /\ handled' = 0 /\ cleared' = FALSE
  /\ UNCHANGED wire

(* A reply is one byte: g_server_config.json is never filled in.           *)
WriteToSocket ==
  /\ conn # "none" /\ send_iobuf > 0
  /\ send_iobuf' = 0
  /\ UNCHANGED <<conn, sent, wire, recv_iobuf, frames, handled, cleared>>

Server == ReadFromSocket \/ CloseConn \/ WriteToSocket

Next == Connect \/ SendCommand \/ ClientCloses \/ Server

Spec == Init /\ [][Next]_vars

(* ns_server_poll runs for ever and reads every socket that has data.      *)
FairSpec == Spec /\ WF_vars(ReadFromSocket) /\ WF_vars(CloseConn) /\ WF_vars(WriteToSocket)

-----------------------------------------------------------------------------
Commands == [kind : Kinds, len : Lengths]
Cells == [cmd : 1 .. Len(sent), at : 1 .. BufLimit]

(* The bytes of the first i of the commands, and the pixel commands among  *)
(* the first i.                                                            *)
Stream(commands) ==
  LET stream[i \in 0 .. Len(commands)] ==
        IF i = 0 THEN <<>> ELSE stream[i - 1] \o Bytes(i, commands[i].len)
  IN  stream
PixelCommands(commands) ==
  LET pixels[i \in 0 .. Len(commands)] ==
        IF i = 0 THEN <<>>
        ELSE IF commands[i].kind = "pixels" THEN Append(pixels[i - 1], i) ELSE pixels[i - 1]
  IN  pixels

TypeOK ==
  /\ conn \in {"none", "open", "ended"}
  /\ sent \in Seq(Commands) /\ Len(sent) <= MaxSent
  /\ wire \in Seq(Cells) /\ recv_iobuf \in Seq(Cells)
  /\ Len(recv_iobuf) <= BufLimit
  /\ send_iobuf \in Nat /\ handled \in Nat /\ cleared \in BOOLEAN
  /\ frames \in Seq(Garbage .. MaxSent)

(* However the stream is cut into reads, no byte of it is lost, doubled or *)
(* moved: what was handled, what is buffered and what is still underway is *)
(* what the client sent, unless the buffer was cleared.                    *)
StreamIntact ==
  ~cleared => Stream(sent)[handled] \o recv_iobuf \o wire = Stream(sent)[Len(sent)]

(* The frames are the pixel commands handled, each once and in the order   *)
(* sent, unless the buffer was cleared.                                    *)
FramesInOrder == ~cleared => frames = PixelCommands(sent)[handled]

(* The connection implements OpcCommands: wherever the reads cut the       *)
(* stream the commands are carried out in their order, each with its own   *)
(* effect, and nothing is thrown away as long as the client keeps no more  *)
(* than BufLimit bytes waiting, in the buffer and in the sockets.          *)
Opc == INSTANCE OpcCommands WITH
  done <- handled, backlog <- Len(recv_iobuf) + Len(wire), replies <- send_iobuf,
  intact <- ~cleared, Limit <- BufLimit
CommandsInOrder == Opc!Spec

-----------------------------------------------------------------------------
(* What a comment and the README say and the code does not do.             *)

(* "Fallback to handle misformed data": a client all of whose commands are *)
(* well-formed never has its data thrown away.                             *)
WellFormedDataKept == ~cleared

(* "opc-compatible server": a command that has arrived is carried out.     *)
CommandsCarriedOut ==
  \A i \in 1 .. MaxSent :
    Len(sent) >= i /\ ~cleared ~> handled >= i \/ cleared \/ conn # "open"
=============================================================================
