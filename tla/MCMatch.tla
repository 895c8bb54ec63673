------------------------------ MODULE MCMatch ------------------------------
(* Every game on a small board; see the .cfg file. *)
EXTENDS Match
=============================================================================
