--------------------------- MODULE ClientDelivery ---------------------------
(***************************************************************************)
(* What the clients of client.c promise about the delivery of moves,       *)
(* whoever was started as the starter and whatever the network does.       *)
(***************************************************************************)
EXTENDS Client

TypeOK ==
  /\ state \in [Peers -> {"TURN", "TURN_ACK", "WAIT"}]
  /\ next_sequence \in [Peers -> Nat]
  /\ next_expected_sequence \in [Peers -> Nat]
  /\ un_ack_column_messages \in [Peers -> SUBSET UnAcked]
  /\ board \in [Peers -> Board]
  /\ process \in [Peers -> {"running", "won", "lost"}]
  /\ net \in [Peers -> Seq(ColumnMessage \cup ColumnAck)]
  /\ sent \in [Peers -> Seq(ColumnIndex)]
  /\ accepted \in [Peers -> Seq(ColumnIndex)]

(* Each move is accepted at most once and in the order it was made, although
   it is retransmitted until an acknowledgement arrives. *)
ExactlyOnceInOrder ==
  \A p \in Peers : IsPrefix(accepted[Other(p)], sent[p])

(* A move leaves the retransmission queue only after the peer accepted it. *)
AckedWasAccepted ==
  \A p \in Peers : \A k \in 0 .. (next_sequence[p] - 1) :
    \/ \E u \in un_ack_column_messages[p] : u.sequence = k
    \/ k < next_expected_sequence[Other(p)]

-----------------------------------------------------------------------------
(***************************************************************************)
(* The two directions as channels.                                         *)
(***************************************************************************)
FromA == INSTANCE Channel WITH Payload <- ColumnIndex, sent <- sent[A], accepted <- accepted[B]
FromB == INSTANCE Channel WITH Payload <- ColumnIndex, sent <- sent[B], accepted <- accepted[A]

(* Over datagrams that are lost, duplicated and reordered, the clients give
   each other a reliable channel of moves in each direction. *)
ReliableChannels == FromA!CSpec /\ FromB!CSpec

-----------------------------------------------------------------------------
(***************************************************************************)
(* Why: a datagram or a queued move carries a move that was made, under    *)
(* its number.                                                             *)
(***************************************************************************)
IsMoveOf(p, m) == /\ m.sequence < next_sequence[p]
                  /\ m.column = sent[p][m.sequence + 1]

\* The datagrams that can be under way to p.
Datagrams(p) == {m \in ColumnMessage : IsMoveOf(Other(p), m)} \cup ColumnAck

(* The counters count the moves, and only moves that were made are queued, in
   flight or accepted. *)
DeliveryInv ==
  \A p \in Peers :
    /\ Len(sent[p]) = next_sequence[p]
    /\ Len(accepted[p]) = next_expected_sequence[p]
    /\ next_expected_sequence[p] <= next_sequence[Other(p)]
    /\ \A k \in 1 .. Len(accepted[p]) : accepted[p][k] = sent[Other(p)][k]
    /\ \A u \in un_ack_column_messages[p] : IsMoveOf(p, u)
    /\ net[p] \in Seq(Datagrams(p))
=============================================================================
