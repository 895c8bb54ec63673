----------------------------- MODULE MCFdCalls -----------------------------
(* More descriptors than entries, so that the table runs full. *)
EXTENDS FdCalls

MCFds == 0 .. 4
=============================================================================
