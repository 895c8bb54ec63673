---------------------------- MODULE TcpSessions ----------------------------
(* What holds of a session of a client program with any of the servers.      *)
EXTENDS TcpClients

\* Two messages fit into a buffer, and a buffer into the kernel in either
\* direction: MESSAGE_SIZE is 9216 and BUFFER_SIZE 65536.
BuffersFit ==
  /\ 2 * MESSAGE_SIZE <= BUFFER_SIZE
  /\ BUFFER_SIZE <= UpSize /\ BUFFER_SIZE <= DownSize
  /\ LINE_LENGTH <= DownSize

\* What of the bytes read from stdin is not yet on the way to a.
ToSend(a) == IF pc # "send" \/ a \notin to THEN 0
             ELSE IF a = First(to) THEN rest ELSE message

(* Every connection carries its own stream: an echo is neither longer nor
   shorter than what was typed, however sends are cut on either side, a client
   of chargen has whole lines of its own thread, and no thread of the server
   takes or sends bytes of another connection. *)
StreamIsExact ==
  ~gone => \A a \in sockets :
    /\ service = "echo" =>
         typed = ToSend(a) + up[a] + (bytes[a] - sent[a]) + down[a] + stdout[a]
    /\ service = "chargen" =>
         down[a] + stdout[a] = LINE_LENGTH * line_number[a] + sent[a]

(* The blocking sends of a client and a thread never wait for each other. *)
NoMutualBlock ==
  \A a \in Addresses :
    ~ /\ pc = "send" /\ a = First(to) /\ up[a] = UpSize
      /\ thread[a] = "send" /\ down[a] = DownSize

(* A client that ends by itself ends no server: only one that is interrupted, or
   that finds one of its addresses closed, leaves bytes behind that reset the
   connection and with it end the process for all clients. *)
ServerSurvives == server = "exited" => pc = "exited"

(* Once the user types no more, every byte has come back from every address,
   whether or not he closes stdin. *)
EverythingComesBack ==
  <>[](service = "echo" /\ pc # "exited" => \A a \in Addresses : thread[a] # "none" => stdout[a] = typed)

(* After the end of stdin client and server come to their end, and so does the
   server after the end of a client that was interrupted. *)
SessionEnds ==
  ~stdin_open \/ gone ~> \/ server = "exited"
                          \/ /\ pc \in {"done", "exited"}
                             /\ \A a \in Addresses : thread[a] \in {"none", "closed"}
=============================================================================
