------------------------------ MODULE MCClient ------------------------------
(* Small instances of a game with one starter; see the .cfg files. *)
EXTENDS ClientGame
=============================================================================
