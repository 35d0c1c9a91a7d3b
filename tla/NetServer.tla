------------------------------ MODULE NetServer ------------------------------
(***************************************************************************)
(* The poll loop of the network library, over all the connections of OPC:  *)
(* the doubly linked list it keeps them in, the descriptor sets it hands   *)
(* to select, and the three passes over the list that serve and close.     *)
(* Blocks of memory and descriptors are used again after they are given    *)
(* back.  What a connection says is the business of OpcTcp; here a read     *)
(* brings one command, and every command asks for an answer.               *)
(***************************************************************************)
EXTENDS Integers, FiniteSetsExt, SequencesExt

CONSTANTS
  Client,      \* each of them connects at most once
  Deaf,        \* clients whose window is full after Room answers
  Resetting,   \* clients that may be reset
  Conn,        \* blocks for struct ns_connection
  NULL,
  Descriptors, \* how many descriptors the process has for connections
  Commands,    \* bound: how many commands each client sends
  Room         \* answers that fit on their way to a deaf client

ASSUME NetAssumption ==
  /\ Deaf \subseteq Client /\ Resetting \subseteq Client
  /\ IsFiniteSet(Conn) /\ NULL \notin Conn
  /\ Descriptors \in Nat \ {0} /\ Commands \in [Client -> Nat] /\ Room \in Nat

VARIABLES
  phase,       \* where ns_server_poll is
  conn,        \* its loop variable, in the passes over the list
  list,        \* active_connections, and next and prev of every block
  struct,      \* the rest of every block: sock, CLOSE_IMMEDIATELY, send_iobuf.len
  read_set, write_set,
  backlog,     \* of the listening socket
  client,      \* "away", "queued", "open", "finished" writing, or "gone"
  sock,        \* the descriptor of each client's connection, 0 when it has none
  sent,        \* how many commands each client sent
  inbox,       \* how many of them nobody has read
  answers      \* how many answers were written to it

listVars == <<list, struct>>
clientVars == <<backlog, client, inbox, sent>>
vars == <<phase, conn, list, struct, read_set, write_set, backlog, client, sock, inbox, sent,
          answers>>

Listening == 0                  \* its member in read_set
Fd == 1 .. Descriptors
Free == [sock |-> 0, close |-> FALSE, send |-> 0]

(* What a pass over the list meets, and where it stands after n - 1 steps; *)
(* it gets further than there are blocks only in a circle.                 *)
Steps == 1 .. Cardinality(Conn) + 1
Walk[n \in Steps] ==
  IF n = 1 THEN list.head ELSE IF Walk[n - 1] = NULL THEN NULL ELSE list.next[Walk[n - 1]]
Listed == {Walk[n] : n \in Steps} \ {NULL}

Allocated == {p \in Conn : struct[p] # Free}
ClientAt(s) == CHOOSE c \in Client : sock[c] = s

Init ==
  /\ phase = "poll" /\ conn = NULL
  /\ list = [head |-> NULL, next |-> [p \in Conn |-> NULL], prev |-> [p \in Conn |-> NULL]]
  /\ struct = [p \in Conn |-> Free]
  /\ read_set = {} /\ write_set = {}
  /\ backlog = <<>>
  /\ client = [c \in Client |-> "away"]
  /\ sock = [c \in Client |-> 0]
  /\ sent = [c \in Client |-> 0] /\ inbox = [c \in Client |-> 0] /\ answers = [c \in Client |-> 0]

-----------------------------------------------------------------------------
(* The list.                                                               *)

ns_add_conn(l, p) ==
  [head |-> p,
   next |-> [l.next EXCEPT ![p] = l.head],
   prev |-> [q \in Conn |-> CASE q = p -> NULL [] q = l.head -> p [] OTHER -> l.prev[q]]]

(* What a freed block holds is nobody's; NULL stands for it.               *)
RemoveForgetsPrev(l, p) ==                     \* a mutant of ns_remove_conn
  [head |-> IF l.prev[p] = NULL THEN l.next[p] ELSE l.head,
   next |-> [q \in Conn |-> CASE q = p -> NULL
                             [] q = l.prev[p] -> l.next[p]
                             [] OTHER -> l.next[q]],
   prev |-> [l.prev EXCEPT ![p] = NULL]]

ns_remove_conn(l, p) ==
  [head |-> IF l.prev[p] = NULL THEN l.next[p] ELSE l.head,
   next |-> [q \in Conn |-> CASE q = p -> NULL
                             [] q = l.prev[p] -> l.next[p]
                             [] OTHER -> l.next[q]],
   prev |-> [q \in Conn |-> CASE q = p -> NULL
                             [] q = l.next[p] -> l.prev[p]
                             [] OTHER -> l.prev[q]]]

(* All of ps are closed, one after the other.                              *)
CloseConns(ps) ==
  /\ list' = FoldSet(LAMBDA p, l : ns_remove_conn(l, p), list, ps)
  /\ struct' = [p \in Conn |-> IF p \in ps THEN Free ELSE struct[p]]
  /\ sock' = [c \in Client |-> IF \E p \in ps : struct[p].sock = sock[c] THEN 0 ELSE sock[c]]

-----------------------------------------------------------------------------
(* The server.                                                             *)

(* The sets for select; a connection to be closed that has nothing to send *)
(* is closed here already, after its socket went into the set.             *)
Sending == {p \in Listed : struct[p].send > 0}
ReadSet == {Listening} \cup {struct[p].sock : p \in Listed}
WriteSet == {struct[p].sock : p \in Sending}
ClosedAtOnce == {p \in Listed \ Sending : struct[p].close}

Open(s) == \E c \in Client : sock[c] = s
Readable(s) ==
  IF s = Listening THEN backlog # <<>>
  ELSE LET c == ClientAt(s) IN inbox[c] > 0 \/ client[c] \in {"finished", "gone"}
Writable(s) ==
  LET c == ClientAt(s) IN client[c] = "gone" \/ c \notin Deaf \/ answers[c] < Room

(* Nothing but the server changes what the sets are built from, so they are*)
(* built when select returns.  It returns with what is ready, or times out;*)
(* a descriptor that was closed would make it fail.                        *)
Poll ==
  /\ phase = "poll" /\ phase' = "accept"
  /\ read_set' = {s \in ReadSet : ClosedAtOnce = {} /\ Readable(s)}
  /\ write_set' = {s \in WriteSet : ClosedAtOnce = {} /\ Writable(s)}
  /\ CloseConns(ClosedAtOnce)
  /\ UNCHANGED <<conn, clientVars, answers>>

(* One connection is accepted in a turn; the lowest free descriptor is its *)
(* own.  Without a descriptor accept fails, without memory the connection  *)
(* is closed again.                                                        *)
FreeFds == {s \in Fd : ~Open(s)}

AcceptConn(c, p) ==
  /\ list' = ns_add_conn(list, p)
  /\ struct' = [struct EXCEPT ![p] = [Free EXCEPT !.sock = Min(FreeFds)]]
  /\ sock' = [sock EXCEPT ![c] = Min(FreeFds)]
  /\ client' = [client EXCEPT ![c] = IF @ = "queued" THEN "open" ELSE @]
  /\ conn' = p

AcceptNever ==                            \* a mutant of Accept
  /\ phase = "accept" /\ phase' = "serve"
  /\ conn' = list.head
  /\ UNCHANGED <<listVars, sock, backlog, client, read_set, write_set, inbox, sent, answers>>

Accept ==
  /\ phase = "accept" /\ phase' = "serve"
  /\ \/ /\ Listening \notin read_set \/ FreeFds = {}
        /\ conn' = list.head
        /\ UNCHANGED <<listVars, sock, backlog, client>>
     \/ /\ Listening \in read_set /\ FreeFds # {} /\ Allocated # Conn
        /\ backlog' = Tail(backlog)
        /\ AcceptConn(Head(backlog), CHOOSE p \in Conn : p \notin Allocated)
     \/ /\ Listening \in read_set /\ FreeFds # {}
        /\ backlog' = Tail(backlog)
        /\ client' = [client EXCEPT ![Head(backlog)] = "gone"]
        /\ conn' = list.head
        /\ UNCHANGED <<listVars, sock>>
  /\ UNCHANGED <<read_set, write_set, inbox, sent, answers>>

(* No bytes because the stream has ended or is broken; that there are none *)
(* yet is no error.                                                        *)
ns_is_error(c) == client[c] \in {"finished", "gone"}

(* recv brings a command, the end of the stream, or an error; the command  *)
(* goes to event_handler, which may answer it.                             *)
ns_read_from_socket(p) ==
  LET c == ClientAt(struct[p].sock)
  IN  \/ /\ inbox[c] > 0
         /\ struct' = [struct EXCEPT ![p].send = @ + 1]
         /\ inbox' = [inbox EXCEPT ![c] = @ - 1]
      \/ /\ inbox[c] = 0
         /\ struct' = [struct EXCEPT ![p].close = ns_is_error(c)]
         /\ UNCHANGED inbox

ServeRead ==
  /\ phase = "serve" /\ conn # NULL
  /\ phase' = "write"
  /\ IF struct[conn].sock \in read_set
       THEN ns_read_from_socket(conn)
       ELSE UNCHANGED <<struct, inbox>>
  /\ UNCHANGED <<conn, list, read_set, write_set, backlog, client, sock, sent, answers>>

(* send takes what there is room for; to a client that is gone it fails.   *)
ns_write_to_socket(p) ==
  LET c == ClientAt(struct[p].sock)
      n == IF c \in Deaf THEN Min({struct[p].send, Room - answers[c]}) ELSE struct[p].send
  IN  \/ /\ client[c] = "gone"
         /\ struct' = [struct EXCEPT ![p].close = TRUE]
         /\ UNCHANGED answers
      \/ /\ client[c] # "gone"
         /\ struct' = [struct EXCEPT ![p].send = @ - n]
         /\ answers' = [answers EXCEPT ![c] = @ + n]

ServeWriteUnlessClosing ==                     \* a mutant of ServeWrite
  /\ phase = "write"
  /\ phase' = "serve" /\ conn' = list.next[conn]
  /\ IF struct[conn].sock \in write_set /\ ~struct[conn].close
       THEN ns_write_to_socket(conn)
       ELSE UNCHANGED <<struct, answers>>
  /\ UNCHANGED <<list, read_set, write_set, clientVars, sock>>

ServeWrite ==
  /\ phase = "write"
  /\ phase' = "serve" /\ conn' = list.next[conn]
  /\ IF struct[conn].sock \in write_set
       THEN ns_write_to_socket(conn)
       ELSE UNCHANGED <<struct, answers>>
  /\ UNCHANGED <<list, read_set, write_set, clientVars, sock>>

CloseOnlyFirst ==                              \* a mutant of CloseFlagged
  /\ phase = "serve" /\ conn = NULL /\ phase' = "poll"
  /\ LET flagged == {p \in Listed : struct[p].close}
     IN  CloseConns(IF flagged = {} THEN {} ELSE {CHOOSE p \in flagged : TRUE})
  /\ read_set' = {} /\ write_set' = {}
  /\ UNCHANGED <<conn, clientVars, answers>>

CloseKeepsSending ==                           \* a mutant of CloseFlagged
  /\ phase = "serve" /\ conn = NULL /\ phase' = "poll"
  /\ CloseConns({p \in Listed : struct[p].close /\ struct[p].send = 0})
  /\ read_set' = {} /\ write_set' = {}
  /\ UNCHANGED <<conn, clientVars, answers>>

(* The last pass; then ns_server_poll returns and is called anew.          *)
CloseFlagged ==
  /\ phase = "serve" /\ conn = NULL /\ phase' = "poll"
  /\ CloseConns({p \in Listed : struct[p].close})
  /\ read_set' = {} /\ write_set' = {}
  /\ UNCHANGED <<conn, clientVars, answers>>

ns_server_poll ==
  Poll \/ Accept \/ ServeRead \/ ServeWrite \/ CloseFlagged

-----------------------------------------------------------------------------
(* The clients.                                                            *)

serverVars == <<phase, conn, listVars, read_set, write_set, sock, answers>>

Connect(c) ==
  /\ client[c] = "away"
  /\ client' = [client EXCEPT ![c] = "queued"]
  /\ backlog' = Append(backlog, c)
  /\ UNCHANGED <<serverVars, inbox, sent>>

Send(c) ==
  /\ client[c] \in {"queued", "open"} /\ sent[c] < Commands[c]
  /\ sent' = [sent EXCEPT ![c] = @ + 1]
  /\ inbox' = [inbox EXCEPT ![c] = @ + 1]
  /\ UNCHANGED <<serverVars, backlog, client>>

(* It stops writing and still reads, or it is reset.                       *)
Finish(c) ==
  /\ client[c] \in {"queued", "open"}
  /\ client' = [client EXCEPT ![c] = "finished"]
  /\ UNCHANGED <<serverVars, backlog, inbox, sent>>

Reset(c) ==
  /\ c \in Resetting /\ client[c] \in {"queued", "open", "finished"}
  /\ client' = [client EXCEPT ![c] = "gone"]
  /\ inbox' = [inbox EXCEPT ![c] = 0]
  /\ UNCHANGED <<serverVars, backlog, sent>>

Next == ns_server_poll \/ \E c \in Client : Connect(c) \/ Send(c) \/ Finish(c) \/ Reset(c)

Spec == Init /\ [][Next]_vars

(* The loop of tcp_server_thread runs for ever.                            *)
FairSpec == Spec /\ WF_vars(ns_server_poll)

-----------------------------------------------------------------------------
TypeOK ==
  /\ phase \in {"poll", "accept", "serve", "write"}
  /\ conn \in Conn \cup {NULL}
  /\ list \in [head : Conn \cup {NULL}, next : [Conn -> Conn \cup {NULL}],
               prev : [Conn -> Conn \cup {NULL}]]
  /\ struct \in [Conn -> [sock : {0} \cup Fd, close : BOOLEAN, send : Nat]]
  /\ read_set \subseteq Fd \cup {Listening} /\ write_set \subseteq Fd
  /\ backlog \in Seq(Client)
  /\ client \in [Client -> {"away", "queued", "open", "finished", "gone"}]
  /\ sock \in [Client -> {0} \cup Fd]
  /\ inbox \in [Client -> Nat]
  /\ sent \in [Client -> Nat] /\ answers \in [Client -> Nat]

(* s runs through the list, in both directions.                            *)
Chained(s) ==
  LET At(i) == IF i \in DOMAIN s THEN s[i] ELSE NULL
  IN  /\ list.head = At(1)
      /\ \A i \in DOMAIN s : list.next[s[i]] = At(i + 1) /\ list.prev[s[i]] = At(i - 1)

(* The list runs through every allocated block once, in both directions,   *)
(* and these are the owners of the open descriptors: none is lost, none is *)
(* closed twice, and the pass stands on one of them.                       *)
ListIntact ==
  /\ \E s \in SetToSeqs(Allocated) : Chained(s)
  /\ Listed = Allocated /\ conn \in Allocated \cup {NULL}
  /\ {struct[p].sock : p \in Allocated} = {sock[c] : c \in Client} \ {0}
  /\ \A p, q \in Allocated : struct[p].sock = struct[q].sock => p = q

(* Whatever the passes take for ready is open and ready, also when a       *)
(* connection was accepted in the same turn, whose descriptor may have been*)
(* another's before; and no connection is closed between the building of   *)
(* the sets and select.                                                    *)
SetsAreCurrent ==
  /\ phase = "poll" => ClosedAtOnce = {}
  /\ \A s \in (read_set \cup write_set) \ {Listening} : Open(s)
  /\ (phase = "serve" /\ conn # NULL /\ struct[conn].sock \in read_set)
       => Readable(struct[conn].sock)

(* A client that stops writing but goes on reading gets every answer       *)
(* before its connection is closed, if it has room for them: the pass      *)
(* that finds the end of the stream still writes.                          *)
AnswersBeforeClose ==
  [][\A p \in Conn :
       (struct[p].sock # 0 /\ struct'[p].sock = 0) =>
         LET c == ClientAt(struct[p].sock)
         IN  client[c] = "gone" \/ c \in Deaf \/ struct[p].send = 0]_vars

(* A connection whose client finished or went away is closed in the end,   *)
(* also when its answers could not be written.                             *)
NoLeak ==
  \A c \in Client : (client[c] \in {"finished", "gone"} /\ sock[c] # 0) ~> sock[c] = 0

(* Who is in the backlog is taken from it, if descriptors come free again  *)
(* and again.                                                              *)
QueuedAccepted ==
  []<>(FreeFds # {}) => \A c \in Client : (client[c] = "queued") ~> (client[c] # "queued")
=============================================================================
