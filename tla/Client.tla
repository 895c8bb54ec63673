------------------------------- MODULE Client -------------------------------
(***************************************************************************)
(* Two processes of client/src/client.c playing one game over UDP.         *)
(*                                                                         *)
(* Each client keeps its own copy of the board (FourLib), numbers its own  *)
(* moves, retransmits each move until it is acknowledged and accepts the   *)
(* moves of its peer in sequence.  A callback of the event loop runs to    *)
(* completion, so each callback is one action; the callbacks of the two    *)
(* processes interleave freely.                                            *)
(*                                                                         *)
(* Time is abstract: the retransmission timer of a queued move may fire    *)
(* whenever the move is still queued.  The uint32_t counters cannot wrap   *)
(* because the board fills up first; only next_expected_sequence - 1 can,  *)
(* and is computed modulo SeqModulus.                                      *)
(***************************************************************************)
EXTENDS FourLib, Sequences, SequencesExt

CONSTANTS
  A, B,           \* the two client processes
  Starters,       \* the clients started with command line argument start = 1
  SeqModulus,     \* sequence numbers are uint32_t: 2^32
  Reordering,     \* may the network deliver datagrams out of order?
  Lossy,          \* may it lose them?
  Duplicating,    \* may it duplicate them?
  QueueCap,       \* datagrams a socket's receive queue holds
  RetransmitCap   \* bound: timers fire and datagrams are duplicated only
                  \* while fewer than this many are queued at the receiver

Peers == {A, B}

ASSUME ClientAssumption ==
  /\ A # B
  /\ Starters \subseteq Peers
  /\ SeqModulus \in Nat \ {0}
  /\ Reordering \in BOOLEAN /\ Lossy \in BOOLEAN /\ Duplicating \in BOOLEAN
  /\ QueueCap \in Nat /\ RetransmitCap \in Nat

VARIABLES
  state,                     \* whose turn the client believes it is
  next_sequence,             \* number of its next own move
  next_expected_sequence,    \* number of the next move of its peer
  un_ack_column_messages,    \* its moves that wait for an acknowledgement
  board,                     \* the arrays of 4clib.c
  process,                   \* "running", or how exit(0) was reached
  net,                       \* datagrams queued at each client's socket
  sent,                      \* history: the columns each client has played
  accepted                   \* history: the columns it accepted as its peer's

local == <<state, next_sequence, next_expected_sequence,
           un_ack_column_messages, board, process>>
history == <<sent, accepted>>
vars == <<local, net, history>>

Other(p) == IF p = A THEN B ELSE A

\* struct MessageColumn and struct MessageColumnAck.
ColumnMessage == [type : {"column"}, sequence : Nat, column : ColumnIndex]
ColumnAck == [type : {"ack"}, sequence : Nat]

\* struct un_ack_column_message; its timer runs as long as it is queued.
UnAcked == [sequence : Nat, column : ColumnIndex]

Running(p) == process[p] = "running"
-----------------------------------------------------------------------------
(***************************************************************************)
(* The network and the sockets (external).  A datagram that finds the      *)
(* receive queue full is dropped; one for a process that has exited stays  *)
(* queued here and is never received.                                      *)
(***************************************************************************)
Enqueue(queue, m) == IF Len(queue) < QueueCap THEN Append(queue, m) ELSE queue

\* send_message by p, whose socket is connected to its peer.
Send(p, m) == net' = [net EXCEPT ![Other(p)] = Enqueue(@, m)]

\* The datagrams a recv of p may return next.
Deliverable(p) == IF Reordering THEN 1 .. Len(net[p])
                                ELSE {i \in 1 .. Len(net[p]) : i = 1}

Recv(p, i) == net' = [net EXCEPT ![p] = RemoveAt(@, i)]

RecvAndSend(p, i, m) == net' = [net EXCEPT ![p] = RemoveAt(@, i),
                                          ![Other(p)] = Enqueue(@, m)]

Lose(p) == /\ Lossy
           /\ \E i \in Deliverable(p) : Recv(p, i)
           /\ UNCHANGED <<local, history>>

Duplicate(p) == /\ Duplicating
                /\ Len(net[p]) < RetransmitCap
                /\ \E i \in Deliverable(p) :
                      net' = [net EXCEPT ![p] = InsertAt(@, i, @[i])]
                /\ UNCHANGED <<local, history>>
-----------------------------------------------------------------------------
(***************************************************************************)
(* start_client                                                            *)
(***************************************************************************)
Init ==
  /\ state = [p \in Peers |-> IF p \in Starters THEN "TURN" ELSE "WAIT"]
  /\ next_sequence = [p \in Peers |-> 0]
  /\ next_expected_sequence = [p \in Peers |-> 0]
  /\ un_ack_column_messages = [p \in Peers |-> {}]
  /\ board = [p \in Peers |-> init_4clib]
  /\ process = [p \in Peers |-> "running"]
  /\ net = [p \in Peers |-> <<>>]
  /\ sent = [p \in Peers |-> <<>>]
  /\ accepted = [p \in Peers |-> <<>>]

\* The datagram transmit_column_message builds from a queued move.
ColumnDatagram(u) == [type |-> "column", sequence |-> u.sequence, column |-> u.column]

AckDatagram(sequence) == [type |-> "ack", sequence |-> sequence]

\* Mutant: one timer for the whole queue, which sends its head again.
TransmitColumnMessage_Head(p, u) ==
  /\ Running(p)
  /\ u \in un_ack_column_messages[p]
  /\ \A v \in un_ack_column_messages[p] : u.sequence <= v.sequence
  /\ Len(net[Other(p)]) < RetransmitCap
  /\ Send(p, ColumnDatagram(u))
  /\ UNCHANGED <<local, history>>

\* transmit_column_message as the callback of the queued move's timer.
TransmitColumnMessage(p, u) ==
  /\ Running(p)
  /\ u \in un_ack_column_messages[p]
  /\ Len(net[Other(p)]) < RetransmitCap
  /\ Send(p, ColumnDatagram(u))
  /\ UNCHANGED <<local, history>>

\* send_column_message: queue the move, transmit it, count it.
SendColumnMessage(p, move) ==
  LET u == [sequence |-> next_sequence[p], column |-> move]
  IN  /\ un_ack_column_messages' = [un_ack_column_messages EXCEPT ![p] = @ \cup {u}]
      /\ Send(p, ColumnDatagram(u))
      /\ next_sequence' = [next_sequence EXCEPT ![p] = @ + 1]
      /\ sent' = [sent EXCEPT ![p] = Append(@, move)]

\* Mutants: the game goes on after a win; the one who moves keeps the turn.
EndOrContinue_PlayOn(p, outcome, next) ==
  state' = [state EXCEPT ![p] = next] /\ UNCHANGED process

EndOrContinue_MoverKeepsTurn(p, outcome, next) ==
  \/ winner(board'[p]) /\ process' = [process EXCEPT ![p] = outcome] /\ UNCHANGED state
  \/ /\ ~winner(board'[p])
     /\ state' = [state EXCEPT ![p] = IF next = "TURN_ACK" THEN @ ELSE next]
     /\ UNCHANGED process

\* What both players do after a move: exit(0) on a winning line.
EndOrContinue(p, outcome, next) ==
  \/ /\ winner(board'[p])
     /\ process' = [process EXCEPT ![p] = outcome]
     /\ UNCHANGED state
  \/ /\ ~winner(board'[p])
     /\ state' = [state EXCEPT ![p] = next]
     /\ UNCHANGED process

\* Mutant: the user may type a move at any time.
MayMove_AnyTime(p) == TRUE

MayMove(p) == state[p] = "TURN"

(* on_stdin.  A line typed out of turn or with an invalid column changes
   nothing.  A winning move ends the process right after its first
   transmission. *)
OnStdin(p, move) ==
  /\ Running(p)
  /\ MayMove(p)
  /\ valid_move(board[p], move)
  /\ board' = [board EXCEPT ![p] = make_move(@, move, PLAYER_1)]
  /\ SendColumnMessage(p, move)
  /\ EndOrContinue(p, "won", "TURN_ACK")
  /\ UNCHANGED <<next_expected_sequence, accepted>>
-----------------------------------------------------------------------------
(***************************************************************************)
(* on_column_message, one action per way through the callback.             *)
(***************************************************************************)

\* The datagram a callback of p is called with.
ReceivesColumn(p, i) == Running(p) /\ i \in Deliverable(p) /\ net[p][i].type = "column"
ReceivesAck(p, i) == Running(p) /\ i \in Deliverable(p) /\ net[p][i].type = "ack"

\* Mutants: a repeated move counts as new; a later move counts as the next.
IsExpected_Repeated(p, m) == m.sequence <= next_expected_sequence[p]
IsExpected_Later(p, m) == m.sequence >= next_expected_sequence[p]

IsExpected(p, m) == m.sequence = next_expected_sequence[p]

\* Mutant: the missing move itself is acknowledged.
LastAccepted_Missing(p) == next_expected_sequence[p]

\* The number of the last accepted move; before the first one it wraps.
LastAccepted(p) == (next_expected_sequence[p] - 1) % SeqModulus

\* A move is missing: the last accepted one is acknowledged again.
OnColumnGap(p, i) ==
  /\ ReceivesColumn(p, i)
  /\ net[p][i].sequence > next_expected_sequence[p]
  /\ RecvAndSend(p, i, AckDatagram(LastAccepted(p)))
  /\ UNCHANGED <<local, history>>

\* Mutant: a move accepted before is acknowledged again.
OnColumnOld_Acknowledged(p, i) ==
  /\ ReceivesColumn(p, i)
  /\ net[p][i].sequence < next_expected_sequence[p]
  /\ RecvAndSend(p, i, AckDatagram(net[p][i].sequence))
  /\ UNCHANGED <<local, history>>

\* A move accepted before is ignored, and not acknowledged again.
OnColumnOld(p, i) ==
  /\ ReceivesColumn(p, i)
  /\ net[p][i].sequence < next_expected_sequence[p]
  /\ Recv(p, i)
  /\ UNCHANGED <<local, history>>

\* What an expected move does before its column is looked at.
AcceptColumn(p, i) ==
  /\ ReceivesColumn(p, i)
  /\ IsExpected(p, net[p][i])
  /\ next_expected_sequence' = [next_expected_sequence EXCEPT ![p] = @ + 1]
  /\ RecvAndSend(p, i, AckDatagram(net[p][i].sequence))
  /\ accepted' = [accepted EXCEPT ![p] = Append(@, net[p][i].column)]
  /\ UNCHANGED <<next_sequence, un_ack_column_messages, sent>>

\* The expected move is not possible on the own board; it stays acknowledged.
OnColumnInvalid(p, i) ==
  /\ AcceptColumn(p, i)
  /\ ~valid_move(board[p], net[p][i].column)
  /\ UNCHANGED <<state, board, process>>

OnColumnMove(p, i) ==
  /\ AcceptColumn(p, i)
  /\ valid_move(board[p], net[p][i].column)
  /\ board' = [board EXCEPT ![p] = make_move(@, net[p][i].column, PLAYER_2)]
  /\ EndOrContinue(p, "lost", "TURN")

Acknowledges(m, u) == u.sequence = m.sequence

(* on_column_ack_message.  The acknowledged move leaves the queue and its
   timer is stopped and deleted; an acknowledgement of nothing is ignored. *)
OnColumnAck(p, i) ==
  /\ ReceivesAck(p, i)
  /\ \E u \in un_ack_column_messages[p] :
       /\ Acknowledges(net[p][i], u)
       /\ un_ack_column_messages' = [un_ack_column_messages EXCEPT ![p] = @ \ {u}]
  /\ state' = [state EXCEPT ![p] = "WAIT"]
  /\ Recv(p, i)
  /\ UNCHANGED <<next_sequence, next_expected_sequence, board, process, history>>

OnColumnAckUnknown(p, i) ==
  /\ ReceivesAck(p, i)
  /\ ~ \E u \in un_ack_column_messages[p] : Acknowledges(net[p][i], u)
  /\ Recv(p, i)
  /\ UNCHANGED <<local, history>>
-----------------------------------------------------------------------------
HandleUdpMessage(p, i) == \/ OnColumnGap(p, i)
                          \/ OnColumnOld(p, i)
                          \/ OnColumnInvalid(p, i)
                          \/ OnColumnMove(p, i)
                          \/ OnColumnAck(p, i)
                          \/ OnColumnAckUnknown(p, i)

Next == \E p \in Peers :
          \/ \E move \in ColumnIndex : OnStdin(p, move)
          \/ \E u \in un_ack_column_messages[p] : TransmitColumnMessage(p, u)
          \/ \E i \in 1 .. Len(net[p]) : HandleUdpMessage(p, i)
          \/ Lose(p)
          \/ Duplicate(p)

Spec == Init /\ [][Next]_vars
=============================================================================
