--------------------------- MODULE ServerPairing ---------------------------
(* What the matchmaking server promises its clients and itself.             *)
EXTENDS Server

Replies == [type : {"registration_ack", "registration_error_ack", "heartbeat_ack", "error"}]
            \cup [type : {"peer_select"}, name : Clients, start : 0 .. 1]

TypeOK ==
  /\ connections \in [Slots -> [fd : Fds \cup {-1}, registered : BOOLEAN,
                                conn_send : BOOLEAN, name : Clients \cup {None}]]
  /\ table \in [cb : [Index -> [fd : Fds \cup {-1, Listener},
                                callback : Slots \cup {OnAcceptable, Dummy}]],
                read_fds : SUBSET (Fds \cup {Listener}),
                maxfd : Fds \cup {-1, Listener}]
  /\ pc \in {"select", "walk", "drain", "SIGPIPE", "SIGSEGV"}
  /\ rset \subseteq Fds \cup {Listener}
  /\ idx \in 0 .. FD_SETSIZE
  /\ fd \in Fds \cup {-1}
  /\ buffer \in Seq(Kinds)
  /\ backlog \in Seq(Clients)
  /\ socket \in [Fds -> Clients \cup {None}]
  /\ inbox \in [Clients -> Seq(Kinds)]
  /\ sent \in [Clients -> 0 .. MaxSent]
  /\ phase \in [Clients -> {"new", "connected", "closed"}]
  /\ sentTo \in [Clients -> Seq(Replies)]
  /\ shut \subseteq Clients /\ unwelcome \subseteq Clients
  /\ broken \subseteq Clients /\ failed \subseteq Clients

-----------------------------------------------------------------------------
(* The slots of server.c, the table of cblib.c and the open descriptors tell
   the same story after every callback, although numbers are reused: a
   descriptor is open exactly when one slot and one entry hold it, and the
   entry's callback has that slot as its argument. *)
SlotsMatchTable ==
  /\ TypeOK
  /\ Consistent(table)
  /\ Registered(table) = {Listener} \cup {f \in Fds : socket[f] # None}
  /\ \A s \in Slots : LET f == connections[s].fd IN
       f # -1 => \E i \in Index : table.cb[i] = [fd |-> f, callback |-> s]
  /\ \A i \in Index : LET e == table.cb[i] IN
       e.fd \in Fds => e.callback \in Slots /\ connections[e.callback].fd = e.fd

(* No callback of the walk through the ready set blocks the server: what it
   calls recv() or accept() on is ready, whatever the callbacks before it in
   the same round have closed and opened. *)
NeverBlocks ==
  pc = "walk" =>
    \A i \in Pending(table, rset, idx) :
      LET f == table.cb[i].fd IN (f = Listener \/ IsOpen(f)) /\ IsReadable(f)

-----------------------------------------------------------------------------
Sent(c, type) == {i \in 1 .. Len(sentTo[c]) : sentTo[c][i].type = type}

(* Pairs are mutual: a client is told one peer, itself never, and that peer is
   told, if it is told anyone, this client and the other part in the game, so one
   of the two starts.  This is what lets the game client assume a single starter.
   Only a peer that has broken its connection off may be told no one: then the
   error of the send() is printed and the other client is told all the same. *)
PairsAreMutual ==
  \A c \in Clients :
    /\ Cardinality(Sent(c, "peer_select")) <= 1
    /\ \A i \in Sent(c, "peer_select") : LET m == sentTo[c][i] IN
         /\ m.name # c
         /\ \A j \in Sent(m.name, "peer_select") :
              sentTo[m.name][j] = [type |-> "peer_select", name |-> c, start |-> 1 - m.start]
         /\ Alive /\ m.name \notin broken => Sent(m.name, "peer_select") # {}

(* A connection is told at most once that it is registered, and of a peer only
   after that. *)
RegisteredOnceThenPaired ==
  \A c \in Clients :
    /\ Cardinality(Sent(c, "registration_ack")) <= 1
    /\ \A j \in Sent(c, "peer_select") : \E i \in Sent(c, "registration_ack") : i < j

-----------------------------------------------------------------------------
(***************************************************************************)
(* Liveness.  handle_events serves for ever.  The clients that have no peer *)
(* yet are patient: each connects, registers, and leaves or acknowledges    *)
(* once it has its peer.                                                    *)
(***************************************************************************)
FairSpec ==
  /\ Spec
  /\ WF_vars(HandleEvent)
  /\ \A c \in Clients : /\ WF_vars(Connect(c))
                        /\ WF_vars(ClientSend(c, "register"))
                        /\ WF_vars(Leave(c) \/ ClientSend(c, "peer_select_ack"))

(* Every client that registers gets a peer in the end, also when its first
   partner in the slots was already paired with another. *)
EveryoneGetsAPeer == \A c \in Clients : <>HasPeer(c)

(* The connection of a client that has closed is given back. *)
ClosedIsReleased ==
  \A c \in Clients : phase[c] = "closed" ~> (~IsConnected(c) \/ ~Alive)
=============================================================================
