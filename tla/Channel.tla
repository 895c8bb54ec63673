------------------------------ MODULE Channel ------------------------------
(***************************************************************************)
(* What the sequence numbers, acknowledgements and timers of client.c are  *)
(* for: a channel that accepts what was sent, once each and in order.      *)
(***************************************************************************)
EXTENDS Sequences, Naturals

CONSTANT Payload

VARIABLES
  sent,      \* what the sending client has sent
  accepted   \* what the receiving client has accepted

cvars == <<sent, accepted>>

CInit == sent = <<>> /\ accepted = <<>>

SendNext(c) == sent' = Append(sent, c) /\ UNCHANGED accepted

AcceptNext == /\ Len(accepted) < Len(sent)
              /\ accepted' = Append(accepted, sent[Len(accepted) + 1])
              /\ UNCHANGED sent

CNext == AcceptNext \/ \E c \in Payload : SendNext(c)

CSpec == CInit /\ [][CNext]_cvars
=============================================================================
