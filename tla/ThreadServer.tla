---------------------------- MODULE ThreadServer ----------------------------
(***************************************************************************)
(* The servers of Praktikum3 from the side of one program that connects to *)
(* them, possibly through several addresses at once: the servers with a    *)
(* thread for every connection, tcp_echo_server_thread.c and               *)
(* tcp_echo_server_thread_chargen.c, and those around select(),            *)
(* tcp_discard_server.c and tcp_daytime_server.c.  A connection is named   *)
(* by its address, and so is the thread that is created for it.  Bytes are *)
(* counted; what the kernel holds of them in each direction is limited.    *)
(***************************************************************************)
EXTENDS Integers, Sequences, FiniteSetsExt

CONSTANTS Addresses,    \* of the host, numbered
          NONE,         \* no descriptor
          BUFFER_SIZE,  \* of a recv, in all programs
          LINE_LENGTH,  \* of a line of chargen, with its end
          UpSize,       \* what the kernel holds on the way to the server
          DownSize,     \* and on the way to the client
          MaxLines      \* bound on the lines chargen sends to a client

ASSUME ServerAssumption ==
  /\ Addresses \subseteq Nat \ {0} /\ Addresses # {} /\ NONE \notin Addresses
  /\ BUFFER_SIZE \in Nat \ {0} /\ LINE_LENGTH \in Nat \ {0}
  /\ UpSize \in Nat \ {0} /\ DownSize \in Nat \ {0} /\ MaxLines \in Nat

VARIABLES
  service,        \* the program that serves all addresses
  server,         \* "running", or "exited" by a wrapper of Socket.c
  backlog,        \* connections not yet accepted
  client_fd,      \* of main(): accepted, its thread not yet created
  thread,         \* where a thread is: "none", "start", "select", "recv", "send", "closed"
  fd,             \* its client_fd
  wset,           \* whether select() found its descriptor writable
  bytes, sent,    \* how many it has to send, and how many of them it has sent
  line_number,
  up, down,       \* bytes on the way to the server, to the client
  upEnd, downEnd, \* the FIN behind them
  gone,           \* whether the client's process has ended
  reset           \* whether its host has answered with a reset

main == <<backlog, client_fd>>
local == <<fd, wset, bytes, sent, line_number>>
ends == <<upEnd, downEnd, gone, reset>>
serverVars == <<service, server, main, thread, local, up, down, ends>>

Of(x) == [a \in Addresses |-> x]

InitServer ==
  /\ service \in {"echo", "chargen", "discard", "daytime"}
  /\ backlog = <<>> /\ client_fd = NONE
  /\ thread = Of("none") /\ fd = Of(NONE) /\ wset = Of(FALSE)
  /\ bytes = Of(0) /\ sent = Of(0) /\ line_number = Of(0)
  /\ up = Of(0) /\ down = Of(0) /\ upEnd = Of(FALSE) /\ downEnd = Of(FALSE)
  /\ server = "running" /\ gone = FALSE /\ reset = Of(FALSE)

Least(m, n) == Min({m, n})

Goes(a, place) == thread' = [thread EXCEPT ![a] = place]

-----------------------------------------------------------------------------
(***************************************************************************)
(* main() of the thread servers, and handleThread.                         *)
(***************************************************************************)
HasThreads == service \in {"echo", "chargen"}

Accept ==
  /\ HasThreads /\ client_fd = NONE /\ backlog # <<>>
  /\ client_fd' = Head(backlog) /\ backlog' = Tail(backlog)
  /\ UNCHANGED <<service, server, thread, local, up, down, ends>>

\* malloc, and pthread_create with a pointer to a copy of client_fd.
CreateThread ==
  /\ client_fd # NONE
  /\ Goes(client_fd, "start")
  /\ client_fd' = NONE
  /\ UNCHANGED <<service, server, backlog, local, up, down, ends>>

\* Mutant: the pointer is to the variable of main(), which goes on.
Argument_Shared(a) == IF client_fd # NONE THEN client_fd ELSE a

Argument(a) == a

HandleThread(a) ==
  /\ thread[a] = "start"
  /\ fd' = [fd EXCEPT ![a] = Argument(a)]
  /\ Goes(a, IF service = "echo" THEN "recv" ELSE "select")
  /\ UNCHANGED <<service, server, main, wset, bytes, sent, line_number, up, down, ends>>

-----------------------------------------------------------------------------
(***************************************************************************)
(* handle() of the echo server and chargen_main().                         *)
(***************************************************************************)
HasEnded(c) == up[c] = 0 /\ upEnd[c] /\ ~reset[c]

\* Recv takes what has arrived, up to the size of its buffer.
Taken(c) == Least(BUFFER_SIZE, up[c])

EchoRecv(a) ==
  /\ service = "echo" /\ thread[a] = "recv" /\ up[fd[a]] > 0
  /\ bytes' = [bytes EXCEPT ![a] = Taken(fd[a])]
  /\ up' = [up EXCEPT ![fd[a]] = @ - Taken(fd[a])]
  /\ Goes(a, "send")
  /\ UNCHANGED <<service, server, main, fd, wset, sent, line_number, down, ends>>

Readable(c) == up[c] > 0 \/ upEnd[c] \/ reset[c]

\* The low-water mark of a socket is longer than a line.
HasRoom(c) == DownSize - down[c] >= LINE_LENGTH

Writable(a) == (HasRoom(fd[a]) /\ line_number[a] < MaxLines) \/ reset[fd[a]]

ChargenSelect(a) ==
  /\ thread[a] = "select"
  /\ Readable(fd[a]) \/ Writable(a)
  /\ Goes(a, IF Readable(fd[a]) THEN "recv" ELSE "send")
  /\ wset' = [wset EXCEPT ![a] = Writable(a)]
  /\ bytes' = [bytes EXCEPT ![a] = LINE_LENGTH]
  /\ UNCHANGED <<service, server, main, fd, sent, line_number, up, down, ends>>

\* What is received is thrown away.
ChargenRecv(a) ==
  /\ service = "chargen" /\ thread[a] = "recv" /\ up[fd[a]] > 0
  /\ up' = [up EXCEPT ![fd[a]] = @ - Taken(fd[a])]
  /\ Goes(a, IF wset[a] THEN "send" ELSE "select")
  /\ UNCHANGED <<service, server, main, local, down, ends>>

Unsent(a) == bytes[a] - sent[a]

\* A host whose process has ended answers data with a reset.
Deliver(c, n) ==
  /\ down' = [down EXCEPT ![c] = IF gone THEN @ ELSE @ + n]
  /\ reset' = [reset EXCEPT ![c] = gone]

\* Send blocks while the kernel has no room, and may take a part.
Send(a) ==
  /\ thread[a] = "send" /\ down[fd[a]] < DownSize /\ ~reset[fd[a]]
  /\ \E n \in 1 .. Least(Unsent(a), DownSize - down[fd[a]]) :
       /\ Deliver(fd[a], n)
       /\ \/ /\ sent[a] + n < bytes[a]
             /\ sent' = [sent EXCEPT ![a] = @ + n]
             /\ UNCHANGED <<thread, bytes, line_number>>
          \/ /\ sent[a] + n >= bytes[a]
             /\ sent' = [sent EXCEPT ![a] = 0] /\ bytes' = [bytes EXCEPT ![a] = 0]
             /\ line_number' = [line_number EXCEPT ![a] = IF service = "echo" THEN @ ELSE @ + 1]
             /\ Goes(a, IF service = "echo" THEN "recv" ELSE "select")
  /\ UNCHANGED <<service, server, main, fd, wset, up, upEnd, downEnd, gone>>

Close(a) ==
  /\ thread[a] = "recv" /\ HasEnded(fd[a])
  /\ downEnd' = [downEnd EXCEPT ![fd[a]] = TRUE]
  /\ Goes(a, "closed")
  /\ UNCHANGED <<service, server, main, local, up, down, upEnd, gone, reset>>

\* Recv or Send fails, and with it the process.
WrapperExits(a) ==
  /\ thread[a] \in {"recv", "send"} /\ reset[fd[a]]
  /\ server' = "exited"
  /\ UNCHANGED <<service, main, thread, local, up, down, ends>>

ThreadStep(a) == \/ HandleThread(a) \/ EchoRecv(a) \/ ChargenSelect(a) \/ ChargenRecv(a)
                 \/ Send(a) \/ Close(a) \/ WrapperExits(a)

-----------------------------------------------------------------------------
(***************************************************************************)
(* The servers around select().  They have the places for all addresses;   *)
(* SelectServer models their loop.  The text of the time is one byte.      *)
(***************************************************************************)
SelectAccept ==
  /\ ~HasThreads /\ backlog # <<>>
  /\ backlog' = Tail(backlog)
  /\ Goes(Head(backlog), "recv") /\ fd' = [fd EXCEPT ![Head(backlog)] = Head(backlog)]
  /\ IF service = "daytime"
     THEN /\ Deliver(Head(backlog), 1)
          /\ downEnd' = [downEnd EXCEPT ![Head(backlog)] = TRUE]
     ELSE UNCHANGED <<down, downEnd, reset>>
  /\ UNCHANGED <<service, server, client_fd, wset, bytes, sent, line_number, up, upEnd, gone>>

SelectRecv(a) ==
  /\ ~HasThreads /\ thread[a] = "recv" /\ up[a] > 0
  /\ up' = [up EXCEPT ![a] = @ - Taken(a)]
  /\ UNCHANGED <<service, server, main, thread, local, down, ends>>

ServerStep == \/ Accept \/ CreateThread \/ SelectAccept
              \/ \E a \in Addresses : SelectRecv(a)
=============================================================================
