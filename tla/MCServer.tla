------------------------------ MODULE MCServer ------------------------------
(* Small descriptor sets for Server. *)
EXTENDS ServerPairing

MCListener == 3
MCFds == 4 .. 6
=============================================================================
