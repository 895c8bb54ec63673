---------------------------- MODULE MCTwoStarters ----------------------------
(* Both clients started with start = 1: their first moves cross.  Heartbeats
   go to and fro beside them. *)
EXTENDS ClientHeartbeat
=============================================================================
