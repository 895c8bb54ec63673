---------------------------- MODULE SelectServer ----------------------------
(***************************************************************************)
(* The two servers built around select(): tcp_discard_server.c, and        *)
(* tcp_daytime_server.c, which also sends the time and shuts the           *)
(* connection down for writing as soon as it has accepted it.  A           *)
(* descriptor stands for its client: a client has one connection at a      *)
(* time, and a descriptor closed in a round is not given out again before  *)
(* the next one.                                                           *)
(***************************************************************************)
EXTENDS Integers, Sequences, FiniteSets

CONSTANTS Clients,      \* numbered in the order in which they first connect
          NONE,         \* -1 in connection_fds
          MAX_FDS,
          MaxConnects,  \* bound on the connections
          MaxData       \* bound on the pieces of data not yet received

ASSUME ConstantsAssumption ==
  /\ Clients \subseteq Nat /\ NONE \notin Clients
  /\ MAX_FDS \in Nat \ {0}
  /\ MaxConnects \in Nat /\ MaxData \in Nat

Slots == 0 .. MAX_FDS - 1

VARIABLES
  daytime,    \* which of the two servers is run
  \* the server
  connection_fds, count_connections,
  rset,       \* what select() has marked
  listening,  \* whether it has marked parent_fd
  pc,         \* "select", "accept", "recv" or "exited"
  slot,       \* the slot looked at in "recv"
  \* the connections
  backlog,    \* not yet accepted
  data,       \* pieces that wait for the server
  text,       \* what waits for the client: "none", "time"
  broken,     \* whether the server's side has met a reset
  \* the clients
  client,     \* "out", "open", "finished" after its FIN, "closed"
  told,       \* whether it has read the time on this connection
  connects    \* connections so far

server == <<daytime, connection_fds, count_connections, rset, listening, pc, slot>>
clients == <<client, told, connects>>
vars == <<server, backlog, data, text, broken, clients>>

Init ==
  /\ daytime \in BOOLEAN
  /\ connection_fds = [i \in Slots |-> NONE] /\ count_connections = 0
  /\ rset = {} /\ listening = FALSE /\ pc = "select" /\ slot = 0
  /\ backlog = <<>>
  /\ data = [c \in Clients |-> 0] /\ text = [c \in Clients |-> "none"]
  /\ broken = [c \in Clients |-> FALSE]
  /\ client = [c \in Clients |-> "out"] /\ told = [c \in Clients |-> FALSE]
  /\ connects = 0

Held == {connection_fds[i] : i \in Slots} \ {NONE}

InBacklog(c) == \E i \in 1 .. Len(backlog) : backlog[i] = c

-----------------------------------------------------------------------------
(***************************************************************************)
(* The clients.                                                            *)
(***************************************************************************)
Connect(c) ==
  /\ client[c] \in {"out", "closed"} /\ c \notin Held /\ ~InBacklog(c)
  /\ connects < MaxConnects
  /\ \A d \in Clients : d < c => client[d] # "out"
  /\ connects' = connects + 1
  /\ client' = [client EXCEPT ![c] = "open"]
  /\ told' = [told EXCEPT ![c] = FALSE]
  /\ backlog' = Append(backlog, c)
  /\ data' = [data EXCEPT ![c] = 0] /\ text' = [text EXCEPT ![c] = "none"]
  /\ broken' = [broken EXCEPT ![c] = FALSE]
  /\ UNCHANGED server

SendData(c) ==
  /\ client[c] = "open" /\ data[c] < MaxData /\ (c \in Held \/ InBacklog(c))
  /\ data' = [data EXCEPT ![c] = @ + 1]
  /\ UNCHANGED <<server, backlog, text, broken, clients>>

ReadTime(c) ==
  /\ client[c] \in {"open", "finished"} /\ text[c] = "time"
  /\ text' = [text EXCEPT ![c] = "none"] /\ told' = [told EXCEPT ![c] = TRUE]
  /\ UNCHANGED <<server, backlog, data, broken, client, connects>>

Finish(c) ==
  /\ client[c] = "open" /\ (c \in Held \/ InBacklog(c))
  /\ client' = [client EXCEPT ![c] = "finished"]
  /\ UNCHANGED <<server, backlog, data, text, broken, told, connects>>

\* A client that closes with the time unread resets the connection.
Close(c) ==
  /\ client[c] \in {"open", "finished"}
  /\ client' = [client EXCEPT ![c] = "closed"]
  /\ broken' = [broken EXCEPT ![c] = text[c] = "time"]
  /\ text' = [text EXCEPT ![c] = "none"]
  /\ UNCHANGED <<server, backlog, data, told, connects>>

\* After the server has exited nothing more is looked at.
ClientStep(c) == /\ pc # "exited"
                 /\ Connect(c) \/ SendData(c) \/ ReadTime(c) \/ Finish(c) \/ Close(c)

-----------------------------------------------------------------------------
(***************************************************************************)
(* The loop of main().  The wrappers of Socket.c end the process on every  *)
(* error.                                                                  *)
(***************************************************************************)
Readable(c) == data[c] > 0 \/ client[c] \in {"finished", "closed"} \/ broken[c]

\* Mutant: break in place of continue at a free slot.
Watched_ToFirstFree ==
  {connection_fds[i] : i \in {k \in Slots : \A j \in 0 .. k : connection_fds[j] # NONE}}

Watched == Held

\* Mutant: FD_ZERO is missing.
Marked_Kept == rset \cup {c \in Watched : Readable(c)}

Marked == {c \in Watched : Readable(c)}

Select ==
  /\ pc = "select"
  /\ backlog # <<>> \/ Marked # {}
  /\ rset' = Marked /\ listening' = (backlog # <<>>)
  /\ pc' = "accept"
  /\ UNCHANGED <<daytime, connection_fds, count_connections, slot, backlog, data, text, broken, clients>>

NothingToAccept ==
  /\ pc = "accept" /\ ~listening
  /\ pc' = "recv"
  /\ UNCHANGED <<daytime, connection_fds, count_connections, rset, listening, slot,
                 backlog, data, text, broken, clients>>

HasRoom == count_connections < MAX_FDS

FirstFree(i) == connection_fds[i] = NONE /\ \A j \in 0 .. i - 1 : connection_fds[j] # NONE

\* Mutant: the text is not sent when the client has sent something first.
Send_UnlessData(c) ==
  \/ /\ ~broken[c]
     /\ text' = [text EXCEPT ![c] = IF client[c] = "closed" \/ data[c] > 0 THEN @ ELSE "time"]
     /\ broken' = [broken EXCEPT ![c] = client[c] = "closed"]
     /\ pc' = "recv"
  \/ /\ client[c] = "closed"
     /\ pc' = "exited"
     /\ UNCHANGED <<text, broken>>

\* Send and Shutdown.  The answer to data for a client that has closed is a
\* reset; Shutdown fails if the reset arrives first.
Send(c) ==
  \/ /\ ~broken[c]
     /\ text' = [text EXCEPT ![c] = IF client[c] = "closed" THEN @ ELSE "time"]
     /\ broken' = [broken EXCEPT ![c] = client[c] = "closed"]
     /\ pc' = "recv"
  \/ /\ client[c] = "closed"
     /\ pc' = "exited"
     /\ UNCHANGED <<text, broken>>

\* With HasRoom there is a free slot; without one the server would be stuck.
Accept ==
  /\ pc = "accept" /\ listening /\ backlog # <<>> /\ HasRoom
  /\ \E i \in Slots :
       /\ FirstFree(i)
       /\ connection_fds' = [connection_fds EXCEPT ![i] = Head(backlog)]
  /\ count_connections' = count_connections + 1
  /\ backlog' = Tail(backlog)
  /\ IF daytime THEN Send(Head(backlog))
                ELSE pc' = "recv" /\ UNCHANGED <<text, broken>>
  /\ UNCHANGED <<daytime, rset, listening, slot, data, clients>>

Refuse ==
  /\ pc = "accept" /\ listening /\ backlog # <<>> /\ ~HasRoom
  /\ backlog' = Tail(backlog)
  /\ pc' = "recv"
  /\ UNCHANGED <<daytime, connection_fds, count_connections, rset, listening, slot, data, text, broken, clients>>

\* The slot at hand if it holds a marked connection, NONE otherwise.
Current == IF pc = "recv" /\ connection_fds[slot] \in rset THEN connection_fds[slot] ELSE NONE

NextSlot == /\ slot' = (slot + 1) % MAX_FDS
            /\ pc' = IF slot + 1 \in Slots THEN "recv" ELSE "select"

SkipSlot ==
  /\ pc = "recv" /\ Current = NONE
  /\ NextSlot
  /\ UNCHANGED <<daytime, connection_fds, count_connections, rset, listening,
                 backlog, data, text, broken, clients>>

\* All that has arrived fits into the buffer.
RecvData ==
  /\ Current # NONE /\ data[Current] > 0
  /\ data' = [data EXCEPT ![Current] = 0]
  /\ NextSlot
  /\ UNCHANGED <<daytime, connection_fds, count_connections, rset, listening,
                 backlog, text, broken, clients>>

\* Mutant: the count is not decremented.
Uncounted_Kept == count_connections

Uncounted == count_connections - 1

RecvEnd ==
  /\ Current # NONE /\ data[Current] = 0 /\ client[Current] \in {"finished", "closed"}
  /\ connection_fds' = [connection_fds EXCEPT ![slot] = NONE]
  /\ count_connections' = Uncounted
  /\ NextSlot
  /\ UNCHANGED <<daytime, rset, listening, backlog, data, text, broken, clients>>

\* Recv fails on a reset.
RecvFails ==
  /\ Current # NONE /\ broken[Current]
  /\ pc' = "exited"
  /\ UNCHANGED <<daytime, connection_fds, count_connections, rset, listening, slot,
                 backlog, data, text, broken, clients>>

ServerStep == \/ Select \/ NothingToAccept \/ Accept \/ Refuse
              \/ SkipSlot \/ RecvData \/ RecvEnd \/ RecvFails

Next == ServerStep \/ \E c \in Clients : ClientStep(c)

Spec == Init /\ [][Next]_vars

(* The server runs whenever it is not blocked in a call.  Nobody makes the
   clients do anything, except that they read what has arrived. *)
FairSpec ==
  /\ Spec
  /\ WF_vars(ServerStep)
  /\ \A c \in Clients : WF_vars(pc # "exited" /\ ReadTime(c))
=============================================================================
