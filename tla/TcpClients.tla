----------------------------- MODULE TcpClients -----------------------------
(***************************************************************************)
(* tcp_client.c, which connects to one address, and                        *)
(* tcp_client_with_dns.c, which connects to all addresses of a host, sends *)
(* every message to each of them and goes on until the last one has        *)
(* closed, in a session with a server of ThreadServer.  Both use blocking  *)
(* calls and exit when one fails.                                          *)
(***************************************************************************)
EXTENDS ThreadServer

CONSTANTS MESSAGE_SIZE,  \* of a read from stdin
          MaxTyped       \* bound on the bytes typed

ASSUME ClientAssumption ==
  MESSAGE_SIZE \in Nat \ {0} /\ MaxTyped \in Nat

STDIN == 0

VARIABLES
  program,           \* "tcp_client" or "with_dns"
  refused,           \* addresses nobody listens at
  pc,                \* "connect", "select", "read", "send", "recv", "drain", "done", "exited"
  sockets,           \* open connections of which the end has not been received
  fdset,             \* what select() has marked and is not yet looked at
  stdin_open,
  to,                \* the connections the message is still to be sent to
  message, rest,     \* its length, and what is left of it for the first of them
  typed,             \* bytes read for an echo, a history variable
  stdout             \* bytes written, by connection

clientVars == <<program, refused, pc, sockets, fdset, stdin_open, to, message, rest, typed, stdout>>
vars == <<serverVars, clientVars>>

First(S) == Min(S)

Init ==
  /\ InitServer
  /\ program \in {"tcp_client", "with_dns"} /\ refused \in SUBSET Addresses
  /\ pc = "connect" /\ sockets = {} /\ fdset = {} /\ stdin_open = TRUE
  /\ to = (IF program = "tcp_client" THEN {First(Addresses)} ELSE Addresses)
  /\ message = 0 /\ rest = 0
  /\ typed = 0 /\ stdout = Of(0)

-----------------------------------------------------------------------------
(***************************************************************************)
(* create_sockets: one connection after the other.                         *)
(***************************************************************************)
Connect ==
  /\ pc = "connect" /\ First(to) \notin refused
  /\ backlog' = Append(backlog, First(to))
  /\ sockets' = sockets \cup {First(to)}
  /\ to' = to \ {First(to)}
  /\ pc' = IF to' = {} THEN "select" ELSE "connect"
  /\ UNCHANGED <<program, refused, fdset, stdin_open, message, rest, typed, stdout,
                 service, server, client_fd, thread, local, up, down, ends>>

\* The kernel closes what the process has open, with a reset if bytes are unread.
ProcessEnds(place) ==
  /\ pc' = place /\ gone' = TRUE
  /\ upEnd' = [a \in Addresses |-> upEnd[a] \/ a \in sockets \/ thread[a] # "none"]
  /\ reset' = [a \in Addresses |-> down[a] > 0]
  /\ down' = Of(0)
  /\ fdset' = {} /\ to' = {} /\ message' = 0 /\ rest' = 0
  /\ UNCHANGED <<program, refused, sockets, stdin_open, typed, stdout,
                 service, server, main, thread, local, up, downEnd>>

ConnectFails ==
  /\ pc = "connect" /\ First(to) \in refused
  /\ ProcessEnds("exited")

\* The user ends the program, wherever it is.
Interrupt ==
  /\ pc \notin {"done", "exited"}
  /\ ProcessEnds("exited")

-----------------------------------------------------------------------------
(***************************************************************************)
(* The loops of main().  tcp_client.c looks at its connection before it    *)
(* reads from stdin, tcp_client_with_dns.c afterwards.                     *)
(***************************************************************************)
Ready == {a \in sockets : down[a] > 0 \/ downEnd[a]}

AfterSelect == IF program = "tcp_client" THEN "recv" ELSE "read"
AfterRead == IF program = "tcp_client" THEN "select" ELSE "recv"
AfterRecv == IF program = "tcp_client" THEN "read" ELSE "select"

\* What the user types, or the end of stdin, is there when select() marks it.
SelectWith(typing) ==
  /\ pc = "select" /\ sockets # {}
  /\ fdset' = Ready \cup typing
  /\ pc' = AfterSelect
  /\ UNCHANGED <<program, refused, sockets, stdin_open, to, message, rest, typed, stdout, serverVars>>

Select == Ready # {} /\ SelectWith({})

SelectStdin == stdin_open /\ SelectWith({STDIN})

\* Mutant: read() is given the size of the whole buffer.
MessageLengths_Whole == 1 .. BUFFER_SIZE

MessageLengths == 1 .. MESSAGE_SIZE

ReadStdin(n) ==
  /\ pc = "read" /\ STDIN \in fdset /\ typed + n <= MaxTyped
  /\ message' = n /\ rest' = n
  /\ typed' = IF service = "echo" THEN typed + n ELSE typed
  /\ to' = IF program = "tcp_client" THEN {First(Addresses)} ELSE sockets
  /\ fdset' = fdset \ {STDIN}
  /\ pc' = "send"
  /\ UNCHANGED <<program, refused, sockets, stdin_open, stdout, serverVars>>

NoRead ==
  /\ pc = "read" /\ STDIN \notin fdset
  /\ pc' = AfterRead
  /\ UNCHANGED <<program, refused, sockets, fdset, stdin_open, to, message, rest, typed, stdout, serverVars>>

\* Send blocks until the kernel has taken all of the message.
SendMessage ==
  /\ pc = "send" /\ up[First(to)] < UpSize
  /\ \E n \in 1 .. Least(rest, UpSize - up[First(to)]) :
       /\ up' = [up EXCEPT ![First(to)] = @ + n]
       /\ to' = IF n < rest THEN to ELSE to \ {First(to)}
       /\ rest' = IF n < rest THEN rest - n ELSE IF to' = {} THEN 0 ELSE message
       /\ message' = IF to' = {} THEN 0 ELSE message
       /\ pc' = IF to' = {} THEN AfterRead ELSE "send"
  /\ UNCHANGED <<program, refused, sockets, fdset, stdin_open, typed, stdout,
                 service, server, main, thread, local, down, ends>>

\* Mutant: nothing is received after the end of stdin.
AfterShutdown_Done == "done"

AfterShutdown == IF program = "with_dns" THEN "recv" ELSE IF sockets = {} THEN "select" ELSE "drain"

\* Mutant: SHUT_RD in place of SHUT_WR.
Shut_Reading(a) == upEnd[a]

Shut(a) == upEnd[a] \/ a \in sockets

ShutdownAll ==
  /\ pc = "read" /\ STDIN \in fdset
  /\ stdin_open' = FALSE
  /\ upEnd' = [a \in Addresses |-> Shut(a)]
  /\ fdset' = fdset \ {STDIN}
  /\ pc' = AfterShutdown
  /\ UNCHANGED <<program, refused, sockets, to, message, rest, typed, stdout,
                 service, server, main, thread, local, up, down, downEnd, gone, reset>>

WriteStdout(a) ==
  /\ down[a] > 0
  /\ stdout' = [stdout EXCEPT ![a] = @ + Least(BUFFER_SIZE, down[a])]
  /\ down' = [down EXCEPT ![a] = @ - Least(BUFFER_SIZE, down[a])]

\* The first of the connections that are still marked.
Marked == First(fdset \ {STDIN})

Receives == pc = "recv" /\ fdset \ {STDIN} # {}

RecvAndWrite ==
  /\ Receives
  /\ WriteStdout(Marked)
  /\ fdset' = fdset \ {Marked}
  /\ UNCHANGED <<program, refused, pc, sockets, stdin_open, to, message, rest, typed,
                 service, server, main, thread, local, up, ends>>

\* tcp_client.c closes only after its loop.
RecvEnd ==
  /\ Receives /\ down[Marked] = 0
  /\ sockets' = sockets \ {Marked}
  /\ upEnd' = [upEnd EXCEPT ![Marked] = @ \/ program = "with_dns"]
  /\ fdset' = fdset \ {Marked}
  /\ UNCHANGED <<program, refused, pc, stdin_open, to, message, rest, typed, stdout,
                 service, server, main, thread, local, up, down, downEnd, gone, reset>>

NoRecv ==
  /\ pc = "recv" /\ fdset \ {STDIN} = {}
  /\ pc' = AfterRecv
  /\ UNCHANGED <<program, refused, sockets, fdset, stdin_open, to, message, rest, typed, stdout, serverVars>>

\* tcp_client.c after it has shut down its side.
Drain ==
  /\ pc = "drain"
  /\ \/ /\ \E a \in sockets : WriteStdout(a)
        /\ UNCHANGED sockets
     \/ /\ \E a \in sockets : down[a] = 0 /\ downEnd[a]
        /\ sockets' = {} /\ UNCHANGED <<down, stdout>>
  /\ pc' = IF sockets' = {} THEN "select" ELSE "drain"
  /\ UNCHANGED <<program, refused, fdset, stdin_open, to, message, rest, typed,
                 service, server, main, thread, local, up, ends>>

\* Mutant: the client leaves when stdin is closed.
Ends_WithStdin ==
  /\ pc = "select" /\ (sockets = {} \/ ~stdin_open)
  /\ ProcessEnds("done")

\* No connection is left to receive from.
Ends ==
  /\ pc = "select" /\ sockets = {}
  /\ ProcessEnds("done")

ClientStep == \/ Connect \/ ConnectFails \/ Select \/ (\E n \in MessageLengths : ReadStdin(n)) \/ NoRead \/ SendMessage
              \/ ShutdownAll \/ RecvAndWrite \/ RecvEnd \/ NoRecv \/ Drain \/ Ends

-----------------------------------------------------------------------------
ServedBy(a) == server = "running" /\ ThreadStep(a) /\ UNCHANGED clientVars

Serving == server = "running" /\ ServerStep /\ UNCHANGED clientVars

Next == \/ ClientStep \/ SelectStdin \/ Interrupt
        \/ Serving \/ \E a \in Addresses : ServedBy(a)

Spec == Init /\ [][Next]_vars

(* The client, main() and every thread are stopped only by their blocking
   calls; the user need never type or close anything. *)
FairSpec ==
  /\ Spec
  /\ WF_vars(ClientStep)
  /\ WF_vars(Serving)
  /\ \A a \in Addresses : WF_vars(ServedBy(a))
=============================================================================
