--------------------------- MODULE MCSelectServer ---------------------------
(* Three clients for the two places of a server.                             *)
EXTENDS SelectServing
=============================================================================
