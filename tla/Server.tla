------------------------------- MODULE Server -------------------------------
(***************************************************************************)
(* The matchmaking server of client/src/server.c with the part of the      *)
(* event loop it runs in (client/lib/cblib.c) and the handling of what one *)
(* recv() returned (client/src/protocol.c), together with its clients and  *)
(* their TCP connections.  The server is one thread: an action of it is    *)
(* one callback, or one message handled by a callback; clients and network *)
(* act in between.                                                         *)
(***************************************************************************)
EXTENDS FdTable, Sequences, FiniteSets

CONSTANTS Clients,      \* clients, numbered in the order in which they connect
          None,         \* no client
          Fds,          \* descriptors a connection can get
          Listener,     \* socket_fd
          OnAcceptable, \* callback of the listening socket
          Kinds,        \* the messages clients send
          LeavesEarly,  \* whether clients are impatient and may leave before they have a peer
          Hasty,        \* clients that acknowledge a peer before they have one
          Aborting,     \* clients that may break their connection off
          MaxOpen,      \* bound on the connections at a time
          MaxSent       \* bound on the messages of a client

ASSUME FdsAssumption ==
  /\ Fds \subseteq Nat \ {0}
  /\ Listener \in Nat /\ Listener > 0 /\ Listener \notin Fds
  /\ \E f, g \in Fds : f # g   \* one for each slot
  /\ FD_SETSIZE > 2

ASSUME ClientsAssumption ==
  /\ Clients \subseteq Nat /\ None \notin Clients
  /\ Kinds \subseteq {"register", "wrong_password", "heartbeat", "other", "peer_select_ack"}
  /\ LeavesEarly \in BOOLEAN /\ Hasty \subseteq Clients /\ Aborting \subseteq Clients
  /\ MaxOpen \in Nat /\ MaxSent \in Nat

(* The CONNECTION_COUNT entries of connections; handle_tcp_message is called
   with the slot as its argument. *)
Slots == 0 .. 1

ASSUME CallbackAssumption == Dummy \notin Slots /\ OnAcceptable \notin Slots \cup {Dummy}

VARIABLES
  connections, \* the slots
  table,       \* cb, read_fds and maxfd
  pc,          \* "select", "walk", "drain", or the signal the process died of
  rset,        \* the descriptors select() found ready
  idx,         \* where the walk through cb is
  fd,          \* the descriptor whose messages are handled
  buffer,      \* the complete messages in its buffer
  backlog,     \* connections that wait for accept()
  socket,      \* the client behind an open descriptor
  inbox,       \* what a client has sent and the server has not received
  sent,        \* how many messages a client has sent
  phase,       \* "new", "connected" or "closed", by the client's doing
  sentTo,      \* everything the server has sent to a client
  shut,        \* clients the server sends nothing more to: shutdown(SHUT_WR)
  unwelcome,   \* clients that were sent something after they had closed
  broken,      \* connections that were reset
  failed       \* resets no call has reported yet

loop == <<pc, rset, idx, fd, buffer>>
peers == <<backlog, inbox, sent, phase>>
output == <<sentTo, shut, unwelcome>>
resets == <<broken, failed>>
vars == <<connections, table, loop, socket, peers, output, resets>>

Alive == pc \in {"select", "walk", "drain"}

Init ==
  /\ connections = [s \in Slots |->
                      [fd |-> -1, registered |-> FALSE, conn_send |-> FALSE, name |-> None]]
  /\ table = register_fd_callback(init_cblib, Listener, OnAcceptable)
  /\ pc = "select" /\ rset = {} /\ idx = 0 /\ fd = -1 /\ buffer = <<>>
  /\ backlog = <<>> /\ socket = [f \in Fds |-> None]
  /\ inbox = [c \in Clients |-> <<>>] /\ sent = [c \in Clients |-> 0]
  /\ phase = [c \in Clients |-> "new"]
  /\ sentTo = [c \in Clients |-> <<>>]
  /\ shut = {} /\ unwelcome = {} /\ broken = {} /\ failed = {}

\* get_conn, as the set of at most one slot.
get_conn(f) == {s \in Slots : /\ connections[s].fd = f
                              /\ \A r \in Slots : r < s => connections[r].fd # f}

-----------------------------------------------------------------------------
(***************************************************************************)
(* Sending.  k collects what the send() and shutdown() calls of a callback *)
(* do.  send_message() prints an error and goes on, which is so on a closed *)
(* descriptor and on the first call after a reset: a pending ECONNRESET is  *)
(* reported to whatever call comes first.  After that, on a connection that *)
(* the client had closed before its host reset it, and on a socket that is  *)
(* shut down, send() raises SIGPIPE and the process ends.                   *)
(***************************************************************************)
IsOpen(f) == f \in Fds /\ socket[f] # None

Kernel == [sentTo |-> sentTo, shut |-> shut, unwelcome |-> unwelcome, failed |-> failed,
           alive |-> TRUE]

send_message(k, f, msg) ==
  IF ~k.alive \/ ~IsOpen(f) THEN k
  ELSE IF socket[f] \in k.failed THEN [k EXCEPT !.failed = @ \ {socket[f]}]
  ELSE IF socket[f] \in k.shut \cup broken THEN [k EXCEPT !.alive = FALSE]
  ELSE [k EXCEPT !.sentTo[socket[f]] = Append(@, msg),
                 !.unwelcome = @ \cup {c \in {socket[f]} : phase[c] = "closed"}]

Shutdown(k, f) ==
  IF k.alive /\ IsOpen(f) THEN [k EXCEPT !.shut = @ \cup {socket[f]}] ELSE k

Commit(k) ==
  /\ sentTo' = k.sentTo
  /\ shut' = k.shut
  /\ unwelcome' = k.unwelcome
  /\ failed' = k.failed
  /\ pc' = IF k.alive THEN pc ELSE "SIGPIPE"

-----------------------------------------------------------------------------
(***************************************************************************)
(* The clients and the network.  What they do to a connection is modelled  *)
(* as long as the server has it open.                                      *)
(***************************************************************************)
IsConnected(c) == \/ \E f \in Fds : socket[f] = c
                  \/ \E i \in 1 .. Len(backlog) : backlog[i] = c

HasPeer(c) == \E i \in 1 .. Len(sentTo[c]) : sentTo[c][i].type = "peer_select"

\* A client has one connection.
Connect(c) ==
  /\ Alive /\ phase[c] = "new"
  /\ \A d \in Clients : d < c => phase[d] # "new"
  /\ Cardinality({d \in Clients : IsConnected(d)}) < MaxOpen
  /\ backlog' = Append(backlog, c)
  /\ phase' = [phase EXCEPT ![c] = "connected"]
  /\ UNCHANGED <<connections, table, loop, socket, inbox, sent, output, resets>>

IsRegistered(c) == \E i \in 1 .. Len(sentTo[c]) : sentTo[c][i].type = "registration_ack"

\* A patient client waits for the answer to each message until it is registered,
\* and keeps its last message for the registration.
IsPatient(c, kind) ==
  kind # "peer_select_ack" =>
    /\ ~IsRegistered(c) /\ sent[c] = Len(sentTo[c])
    /\ kind # "register" => sent[c] + 1 < MaxSent

\* A hasty client acknowledges a peer that it does not have, and goes on sending.
ClientSend(c, kind) ==
  /\ Alive /\ phase[c] = "connected" /\ IsConnected(c)
  /\ sent[c] < MaxSent
  /\ kind = "peer_select_ack" => HasPeer(c) \/ c \in Hasty
  /\ LeavesEarly \/ IsPatient(c, kind)
  /\ inbox' = [inbox EXCEPT ![c] = Append(@, kind)]
  /\ sent' = [sent EXCEPT ![c] = @ + 1]
  /\ UNCHANGED <<connections, table, loop, socket, backlog, phase, output, resets>>

\* The client closes; what it sent before is still delivered.
Leave(c) ==
  /\ Alive /\ phase[c] = "connected" /\ IsConnected(c)
  /\ LeavesEarly \/ HasPeer(c)
  /\ phase' = [phase EXCEPT ![c] = "closed"]
  /\ UNCHANGED <<connections, table, loop, socket, backlog, inbox, sent, output, resets>>

\* The client breaks the connection off; unread data may be lost.
Abort(c) ==
  /\ Alive /\ phase[c] = "connected" /\ IsConnected(c)
  /\ c \in Aborting
  /\ phase' = [phase EXCEPT ![c] = "closed"]
  /\ broken' = broken \cup {c}
  /\ failed' = failed \cup {c}
  /\ \/ UNCHANGED inbox
     \/ inbox' = [inbox EXCEPT ![c] = <<>>]
  /\ UNCHANGED <<connections, table, loop, socket, backlog, sent, output>>

\* The host of a client that has closed refuses what the server sent to it.
Reset(c) ==
  /\ Alive /\ c \in unwelcome \ broken /\ IsConnected(c)
  /\ broken' = broken \cup {c}
  /\ UNCHANGED <<connections, table, loop, socket, peers, output, failed>>

-----------------------------------------------------------------------------
(***************************************************************************)
(* handle_event.  The server starts no timer, so select() blocks until a   *)
(* descriptor is ready; it fails on a set with a closed descriptor, and    *)
(* then leaves any ready set behind.  rset, idx and fd are locals: outside *)
(* their blocks they have the values of Init.                              *)
(***************************************************************************)
IsReadable(f) ==
  IF f = Listener THEN backlog # <<>>
  ELSE LET c == socket[f] IN inbox[c] # <<>> \/ phase[c] = "closed" \/ c \in broken

Watched == {f \in table.read_fds : f <= table.maxfd}
ReadyFds == {f \in Watched : (f = Listener \/ IsOpen(f)) /\ IsReadable(f)}
BadFds == {f \in Watched : f # Listener /\ ~IsOpen(f)}

Select ==
  /\ pc = "select"
  /\ \/ BadFds = {} /\ ReadyFds # {} /\ rset' = ReadyFds
     \/ BadFds # {} /\ rset' \in SUBSET table.read_fds
  /\ pc' = "walk" /\ idx' = 0
  /\ UNCHANGED <<connections, table, fd, buffer, socket, peers, output, resets>>

WalkEnds ==
  /\ pc = "walk" /\ Pending(table, rset, idx) = {}
  /\ pc' = "select" /\ rset' = {} /\ idx' = 0
  /\ UNCHANGED <<connections, table, fd, buffer, socket, peers, output, resets>>

\* The walk has come to entry i and calls its callback.
Calls(i, callback) ==
  /\ pc = "walk" /\ Pending(table, rset, idx) # {}
  /\ i = First(Pending(table, rset, idx))
  /\ table.cb[i].callback = callback

-----------------------------------------------------------------------------
(***************************************************************************)
(* on_acceptable.                                                          *)
(***************************************************************************)
LowestFree == CHOOSE f \in Fds : /\ socket[f] = None
                                 /\ \A g \in Fds : socket[g] = None => f <= g

OnAcceptableSlot(i) ==
  /\ Calls(i, OnAcceptable)
  /\ backlog # <<>>
  /\ \E s \in get_conn(-1) :
       /\ socket' = [socket EXCEPT ![LowestFree] = Head(backlog)]
       /\ connections' = [connections EXCEPT ![s].fd = LowestFree,
                                             ![s].registered = FALSE,
                                             ![s].conn_send = FALSE]
       /\ table' = register_fd_callback(table, LowestFree, s)
  /\ backlog' = Tail(backlog)
  /\ idx' = i + 1
  /\ UNCHANGED <<pc, rset, fd, buffer, inbox, sent, phase, output, resets>>

\* No slot is free: get_conn returned NULL, which is written through.
OnAcceptableNoSlot(i) ==
  /\ Calls(i, OnAcceptable)
  /\ backlog # <<>>
  /\ get_conn(-1) = {}
  /\ backlog' = Tail(backlog)
  /\ pc' = "SIGSEGV"
  /\ UNCHANGED <<connections, table, rset, idx, fd, buffer, socket,
                 inbox, sent, phase, output, resets>>

-----------------------------------------------------------------------------
(***************************************************************************)
(* handle_tcp_message.                                                     *)
(***************************************************************************)
\* Mutant: the callback stays.
close_connection_KeepsCallback(f) ==
  /\ connections' = [s \in Slots |-> IF s \in get_conn(f)
                                     THEN [connections[s] EXCEPT !.fd = -1, !.registered = FALSE,
                                                                 !.conn_send = FALSE]
                                     ELSE connections[s]]
  /\ socket' = [socket EXCEPT ![f] = None]
  /\ UNCHANGED table

close_connection(f) ==
  \/ /\ get_conn(f) # {}
     /\ connections' = [s \in Slots |-> IF s \in get_conn(f)
                                        THEN [connections[s] EXCEPT !.fd = -1,
                                                                    !.registered = FALSE,
                                                                    !.conn_send = FALSE]
                                        ELSE connections[s]]
     /\ table' = deregister_fd_callback(table, f)
     /\ socket' = [socket EXCEPT ![f] = None]
  \/ /\ get_conn(f) = {}
     /\ UNCHANGED <<connections, table, socket>>

\* recv() on the connection of slot s at entry i, and what it finds.
Receives(i, s) == Calls(i, s) /\ IsOpen(connections[s].fd)

Peer(s) == socket[connections[s].fd]

\* The first n messages are in the buffer; the rest has not come yet.
ReceiveData(i, s) ==
  /\ Receives(i, s)
  /\ \E n \in 1 .. Len(inbox[Peer(s)]) :
       /\ buffer' = SubSeq(inbox[Peer(s)], 1, n)
       /\ inbox' = [inbox EXCEPT ![Peer(s)] = SubSeq(@, n + 1, Len(@))]
  /\ fd' = connections[s].fd
  /\ idx' = i
  /\ pc' = "drain"
  /\ UNCHANGED <<connections, table, rset, socket, backlog, sent, phase, output, resets>>

ReceiveError(i, s) ==
  /\ Receives(i, s)
  /\ inbox[Peer(s)] = <<>> /\ Peer(s) \in failed
  /\ failed' = failed \ {Peer(s)}
  /\ idx' = i + 1
  /\ UNCHANGED <<connections, table, pc, rset, fd, buffer, socket, peers, output, broken>>

ReceiveEnd(i, s) ==
  /\ Receives(i, s)
  /\ inbox[Peer(s)] = <<>> /\ Peer(s) \notin failed
  /\ phase[Peer(s)] = "closed" \/ Peer(s) \in broken
  /\ close_connection(connections[s].fd)
  /\ idx' = i + 1
  /\ UNCHANGED <<pc, rset, fd, buffer, peers, output, resets>>

DrainEnds ==
  /\ pc = "drain" /\ buffer = <<>>
  /\ pc' = "walk" /\ idx' = idx + 1 /\ fd' = -1
  /\ UNCHANGED <<connections, table, rset, buffer, socket, peers, output, resets>>

-----------------------------------------------------------------------------
(***************************************************************************)
(* handle_incoming_message: the callbacks of server.c, for the next        *)
(* message of the buffer.                                                  *)
(***************************************************************************)
Handles(kind) ==
  /\ pc = "drain" /\ buffer # <<>> /\ Head(buffer) = kind
  /\ buffer' = Tail(buffer)
  /\ UNCHANGED <<rset, idx, fd, peers, broken>>

\* peer_select_msg
peer_select_msg(conn, start) == [type |-> "peer_select", name |-> conn.name, start |-> start]

CanPair(conns) == \A s \in Slots : conns[s].registered /\ ~conns[s].conn_send

\* Mutant: both clients are told to start.
Introduce_BothStart(k, a, b) ==
  Shutdown(Shutdown(send_message(send_message(k, b.fd, peer_select_msg(a, 1)),
                                 a.fd, peer_select_msg(b, 1)),
                    a.fd),
           b.fd)

\* Each client is told the other one, the first connection starting second.
Introduce(k, a, b) ==
  Shutdown(Shutdown(send_message(send_message(k, b.fd, peer_select_msg(a, 0)),
                                 a.fd, peer_select_msg(b, 1)),
                    a.fd),
           b.fd)

connect_clients(conns, k) ==
  IF CanPair(conns)
  THEN /\ connections' = [s \in Slots |-> [conns[s] EXCEPT !.conn_send = TRUE]]
       /\ Commit(Introduce(k, conns[0], conns[1]))
  ELSE /\ connections' = conns
       /\ Commit(k)

\* Mutant: the test for a second registration is missing.
Unregistered_Any(f) == get_conn(f)

\* The slot of a connection that has not registered yet.
Unregistered(f) == {s \in get_conn(f) : ~connections[s].registered}

OnRegistrationIgnored ==
  /\ Handles("register") \/ Handles("wrong_password")
  /\ Unregistered(fd) = {}
  /\ UNCHANGED <<connections, table, pc, socket, output, failed>>

OnRegistrationRejected ==
  /\ Handles("wrong_password")
  /\ Unregistered(fd) # {}
  /\ Commit(send_message(Kernel, fd, [type |-> "registration_error_ack"]))
  /\ UNCHANGED <<connections, table, socket>>

OnRegistrationAccepted ==
  /\ Handles("register")
  /\ \E s \in Unregistered(fd) :
       connect_clients([connections EXCEPT ![s].registered = TRUE, ![s].name = socket[fd]],
                       send_message(Kernel, fd, [type |-> "registration_ack"]))
  /\ UNCHANGED <<table, socket>>

OnPeerSelectAck ==
  /\ Handles("peer_select_ack")
  /\ close_connection(fd)
  /\ UNCHANGED <<pc, output, failed>>

OnHeartbeat ==
  /\ Handles("heartbeat")
  /\ Commit(send_message(Kernel, fd, [type |-> "heartbeat_ack"]))
  /\ UNCHANGED <<connections, table, socket>>

\* on_default, and the default branch for an unknown type.
OnDefault ==
  /\ Handles("other")
  /\ Commit(send_message(Kernel, fd, [type |-> "error"]))
  /\ UNCHANGED <<connections, table, socket>>

-----------------------------------------------------------------------------
Message == \/ OnRegistrationIgnored
           \/ OnRegistrationRejected
           \/ OnRegistrationAccepted
           \/ OnPeerSelectAck
           \/ OnHeartbeat
           \/ OnDefault

HandleEvent ==
  \/ Select
  \/ WalkEnds
  \/ DrainEnds
  \/ Message
  \/ \E i \in Index : \/ OnAcceptableSlot(i)
                      \/ OnAcceptableNoSlot(i)
                      \/ \E s \in Slots : \/ ReceiveData(i, s)
                                          \/ ReceiveError(i, s)
                                          \/ ReceiveEnd(i, s)

Environment == \E c \in Clients : \/ Connect(c)
                                  \/ \E kind \in Kinds : ClientSend(c, kind)
                                  \/ Leave(c)
                                  \/ Abort(c)
                                  \/ Reset(c)

Next == HandleEvent \/ Environment

Spec == Init /\ [][Next]_vars
=============================================================================
