--------------------------- MODULE MCTcpSessions ---------------------------
(* Two addresses, and sizes that relate as on the machines the programs run  *)
(* on: MESSAGE_SIZE is 9216 and BUFFER_SIZE 65536, and the kernel holds a    *)
(* whole buffer in either direction.                                         *)
EXTENDS TcpSessions

ASSUME BuffersAssumption == BuffersFit

\* More than both directions, the server and the client hold together.
ASSUME TypedAssumption ==
  MaxTyped >= UpSize + BUFFER_SIZE + DownSize + MESSAGE_SIZE
=============================================================================
