------------------------------ MODULE Framing ------------------------------
(***************************************************************************)
(* Messages on a TCP connection as client/src/protocol.c sends and cuts    *)
(* them out again: send_message, and the reassembly in handle_tcp_message  *)
(* over a buffer that keeps what recv() returned between two calls.        *)
(*                                                                         *)
(* A byte is the pair of its message and its place in it.  The four bytes  *)
(* of a header are known by their places; a header that is put together    *)
(* from other bytes has whatever length those bytes happen to spell.       *)
(***************************************************************************)
EXTENDS Integers, Sequences

CONSTANTS Lengths,      \* values of the length field that are sent
          BuffSize,     \* buff_size
          Width,        \* 2^16, the range of a uint16_t
          MaxMessages,  \* bound on the messages sent
          MaxLinks      \* bound on the connections that use the buffer in turn

ASSUME BoundsAssumption ==
  /\ Lengths \subseteq Nat /\ BuffSize \in Nat /\ Width \in Nat
  /\ MaxMessages \in Nat /\ MaxLinks \in Nat \ {0}

VARIABLES
  sent,       \* the length fields of the messages sent, a history variable
  wire,       \* bytes sent and not yet received
  buffer,     \* data[0 .. filled_size - 1]
  delivered,  \* the messages handed to handle_incoming_message
  parsing,    \* whether handle_tcp_message is in its loop
  peerOpen,   \* whether the peer has the connection open
  open,       \* whether it is open here
  links       \* connections so far

vars == <<sent, wire, buffer, delivered, parsing, peerOpen, open, links>>

-----------------------------------------------------------------------------
padded_message_size(size) == IF size % 4 = 0 THEN size ELSE size + (4 - (size % 4))

\* What send_message puts on the wire: its size is a uint16_t.
SentSize(length) == padded_message_size((4 + length) % Width)

\* The lengths for which the sizes of sender and receiver agree and fit.
IsModest(length) == 4 + length < Width /\ padded_message_size(4 + length) <= BuffSize

\* The messages of protocol.h are much shorter than a buffer.
ASSUME LengthsAssumption == \A length \in Lengths : IsModest(length)

Bytes(k, size) == [j \in 1 .. size |-> <<k, j - 1>>]

Init ==
  /\ sent = <<>> /\ wire = <<>> /\ buffer = <<>> /\ delivered = <<>>
  /\ parsing = FALSE /\ peerOpen = TRUE /\ open = TRUE /\ links = 1

\* The peer calls send_message.
SendMessage(length) ==
  /\ peerOpen /\ Len(sent) < MaxMessages
  /\ sent' = Append(sent, length)
  /\ wire' = wire \o Bytes(Len(sent) + 1, SentSize(length))
  /\ UNCHANGED <<buffer, delivered, parsing, peerOpen, open, links>>

PeerCloses ==
  /\ peerOpen
  /\ peerOpen' = FALSE
  /\ UNCHANGED <<sent, wire, buffer, delivered, parsing, open, links>>

\* The peer breaks off: what is on its way is lost from some byte on.  Of a
\* connection with a successor this is left out, because the buffer keeps the
\* half message and its bytes are read with those of the next connection.
BreaksOff == links = MaxLinks

PeerBreaksOff ==
  /\ peerOpen /\ BreaksOff
  /\ \E n \in 0 .. (Len(wire) - 1) : wire' = SubSeq(wire, 1, n)
  /\ peerOpen' = FALSE
  /\ UNCHANGED <<sent, buffer, delivered, parsing, open, links>>

\* The buffer of a closed connection serves the next one.
Reconnect ==
  /\ ~open /\ links < MaxLinks
  /\ open' = TRUE /\ peerOpen' = TRUE /\ wire' = <<>>
  /\ links' = links + 1
  /\ UNCHANGED <<sent, buffer, delivered, parsing>>

-----------------------------------------------------------------------------
(***************************************************************************)
(* handle_tcp_message.                                                     *)
(***************************************************************************)
\* Mutant: the room already taken is not subtracted.
Room_Whole == BuffSize

Room == BuffSize - Len(buffer)

RecvData ==
  /\ open /\ ~parsing
  /\ \E n \in 1 .. Len(wire) :
       /\ n <= Room
       /\ buffer' = buffer \o SubSeq(wire, 1, n)
       /\ wire' = SubSeq(wire, n + 1, Len(wire))
  /\ parsing' = TRUE
  /\ UNCHANGED <<sent, delivered, peerOpen, open, links>>

\* recv() returns 0 at the end of the stream, and also when asked for 0 bytes.
AtEnd == (~peerOpen /\ wire = <<>>) \/ (wire # <<>> /\ Room = 0)

RecvNothing ==
  /\ open /\ ~parsing /\ AtEnd
  /\ open' = FALSE
  /\ UNCHANGED <<sent, wire, buffer, delivered, parsing, peerOpen, links>>

\* Mutant: one byte more is waited for.
HasHeader_More == Len(buffer) > 4

HasHeader == Len(buffer) >= 4

IsHeader == \A j \in 1 .. 4 : buffer[j] = <<buffer[1][1], j - 1>>

HeaderLengths == IF IsHeader THEN {sent[buffer[1][1]]} ELSE Lengths

Consumed(length) == padded_message_size(4 + length)

\* Mutant: the padding is not waited for.
IsWhole_Unpadded(length) == Len(buffer) >= 4 + length

IsWhole(length) == Len(buffer) >= padded_message_size(4 + length)

ParseMessage ==
  /\ parsing /\ HasHeader
  /\ \E length \in HeaderLengths :
       /\ IsWhole(length)
       /\ delivered' = Append(delivered, SubSeq(buffer, 1, 4 + length))
       /\ buffer' = SubSeq(buffer, Consumed(length) + 1, Len(buffer))
  /\ UNCHANGED <<sent, wire, parsing, peerOpen, open, links>>

\* Mutant: the loop ends after every message.
LoopEnds_Once == TRUE

LoopEnds == HasHeader => \E length \in HeaderLengths : ~IsWhole(length)

ParseEnds ==
  /\ parsing /\ LoopEnds
  /\ parsing' = FALSE
  /\ UNCHANGED <<sent, wire, buffer, delivered, peerOpen, open, links>>

HandleTcpMessage == RecvData \/ RecvNothing \/ ParseMessage \/ ParseEnds

Next == \/ HandleTcpMessage
        \/ \E length \in Lengths : SendMessage(length)
        \/ PeerCloses
        \/ PeerBreaksOff
        \/ Reconnect

Spec == Init /\ [][Next]_vars

(* The event loop calls handle_tcp_message while the socket is readable. *)
FairSpec == Spec /\ WF_vars(HandleTcpMessage)

-----------------------------------------------------------------------------
(* The buffer is never written behind its end: what recv() is asked for leaves
   room for what the calls before have kept. *)
TypeOK ==
  /\ sent \in Seq(Lengths)
  /\ \A i \in 1 .. Len(wire) : wire[i][1] \in 1 .. Len(sent)
  /\ Len(buffer) <= BuffSize
  /\ parsing \in BOOLEAN /\ peerOpen \in BOOLEAN /\ open \in BOOLEAN
  /\ links \in 1 .. MaxLinks

(* A message as its receiver should see it: header and data, no padding. *)
Messages == [k \in 1 .. Len(sent) |-> Bytes(k, 4 + sent[k])]

Chan == INSTANCE Channel WITH
          Payload <- {Bytes(k, 4 + length) : k \in 1 .. MaxMessages, length \in Lengths},
          sent <- Messages, accepted <- delivered

(* However recv() cuts the stream into pieces, the messages come out whole, in
   order and once each, also when the buffer serves one connection after
   another, and of one that breaks off those that were complete. *)
IsChannel == Chan!CSpec

(* A connection is taken for closed only after the peer has ended it and all
   that arrived was handled: nothing, or less than a message, stays behind. *)
ClosedAfterLast ==
  ~open => /\ ~peerOpen /\ wire = <<>>
           /\ LoopEnds
           /\ ~BreaksOff => Len(delivered) = Len(sent)

(* Every message is handled without waiting for a later one, unless its
   connection breaks off. *)
EveryMessageHandled ==
  \A k \in 1 .. MaxMessages :
    Len(sent) >= k ~> (Len(delivered) >= k \/ (BreaksOff /\ ~peerOpen))
=============================================================================
