--------------------------- MODULE SessionProofs ---------------------------
(* Proofs about a session of a client program with a server, for any        *)
(* addresses and sizes.                                                     *)
EXTENDS TcpSessions, SequenceTheorems, WellFoundedInduction, TLAPS

(***************************************************************************)
(* The invariant.                                                          *)
(***************************************************************************)
ClientTyped ==
  /\ program \in {"tcp_client", "with_dns"}
  /\ pc \in {"connect", "select", "read", "send", "recv", "drain", "done", "exited"}
  /\ sockets \subseteq Addresses
  /\ fdset \subseteq Addresses \cup {STDIN}
  /\ to \subseteq Addresses
  /\ message \in Nat /\ rest \in Nat /\ typed \in Nat
  /\ stdout \in [Addresses -> Nat]
  /\ gone = (pc \in {"done", "exited"})

ThreadTyped ==
  /\ thread \in [Addresses -> {"none", "start", "select", "recv", "send", "closed"}]
  /\ fd \in [Addresses -> Addresses \cup {NONE}]
  /\ wset \in [Addresses -> BOOLEAN]
  /\ bytes \in [Addresses -> Nat] /\ sent \in [Addresses -> Nat]
  /\ line_number \in [Addresses -> Nat]

LinkTyped ==
  /\ service \in {"echo", "chargen", "discard", "daytime"}
  /\ up \in [Addresses -> Nat] /\ down \in [Addresses -> Nat]
  /\ upEnd \in [Addresses -> BOOLEAN] /\ downEnd \in [Addresses -> BOOLEAN]
  /\ reset \in [Addresses -> BOOLEAN] /\ gone \in BOOLEAN

Typed == ClientTyped /\ ThreadTyped /\ LinkTyped

\* Where a connection is before it has a thread.
Queued(a) == \E i \in 1 .. Len(backlog) : backlog[i] = a

Waiting(a) == Queued(a) \/ client_fd = a

WaitingOnce ==
  /\ backlog \in Seq(Addresses) /\ client_fd \in Addresses \cup {NONE}
  /\ \A i, j \in 1 .. Len(backlog) : backlog[i] = backlog[j] => i = j
  /\ client_fd # NONE => HasThreads /\ ~Queued(client_fd)
  /\ \A a \in Addresses : Waiting(a) => thread[a] = "none"

(* What a thread has in its hands; its descriptor is its own. *)
ThreadOK(a) ==
  /\ thread[a] \notin {"none", "start"} => fd[a] = a
  /\ thread[a] \in {"none", "start"} => bytes[a] = 0 /\ sent[a] = 0 /\ line_number[a] = 0
  /\ thread[a] = "none" => down[a] = 0
  /\ service = "echo" =>
       /\ thread[a] # "select"
       /\ thread[a] = "send" => sent[a] < bytes[a] /\ bytes[a] <= BUFFER_SIZE
       /\ thread[a] # "send" => bytes[a] = 0 /\ sent[a] = 0
  /\ service = "chargen" =>
       /\ thread[a] = "send" => bytes[a] = LINE_LENGTH /\ sent[a] < LINE_LENGTH
       /\ thread[a] = "recv" => bytes[a] = LINE_LENGTH
       /\ thread[a] # "send" => sent[a] = 0
  /\ ~HasThreads => thread[a] \in {"none", "recv", "closed"}
  /\ downEnd[a] => thread[a] = "closed" \/ (service = "daytime" /\ thread[a] = "recv")
  /\ up[a] <= UpSize /\ down[a] <= DownSize

(* A connection that will still be read from or written to, and an address the
   client has not come to. *)
IsServed(a) == Waiting(a) \/ (HasThreads /\ thread[a] \in {"start", "select", "recv", "send"})

Unused(a) == ~Waiting(a) /\ thread[a] = "none" /\ up[a] = 0 /\ stdout[a] = 0 /\ a \notin sockets

(* Only the end of the client resets a connection, and one that it leaves by
   itself has nothing left to read or to write. *)
LinkOK(a) ==
  /\ ~gone => ~reset[a]
  /\ ~gone /\ IsServed(a) => a \in sockets
  /\ ~gone /\ a \notin sockets => down[a] = 0
  /\ pc = "connect" /\ a \in to => Unused(a)
  /\ pc = "done" => ~reset[a] /\ ~IsServed(a)

ClientOK ==
  /\ pc = "connect" => typed = 0 /\ to # {} /\ fdset = {}
  /\ program = "tcp_client" =>
       /\ sockets \subseteq {First(Addresses)} /\ to \subseteq {First(Addresses)}
       /\ pc \in {"read", "send", "drain"} => fdset \subseteq {STDIN}
  /\ program = "with_dns" =>
       /\ pc = "read" => sockets # {}
       /\ pc # "drain"
  /\ \A a \in fdset \ {STDIN} : a \in sockets /\ (down[a] > 0 \/ downEnd[a])
  /\ pc = "send" => to # {} /\ 1 <= rest /\ rest <= message /\ message <= MESSAGE_SIZE

(* How much the client may still send to a before it receives from a again. *)
Budget(a) ==
  IF program = "tcp_client"
  THEN CASE pc = "recv" -> IF a \in fdset THEN 0 ELSE MESSAGE_SIZE
         [] pc = "read" -> MESSAGE_SIZE
         [] pc = "send" -> ToSend(a)
         [] OTHER -> 0
  ELSE CASE pc = "recv" -> IF a \in fdset THEN 0 ELSE MESSAGE_SIZE
         [] pc = "read" -> IF a \in fdset THEN MESSAGE_SIZE ELSE 2 * MESSAGE_SIZE
         [] pc = "send" -> IF a \in fdset THEN ToSend(a) ELSE ToSend(a) + MESSAGE_SIZE
         [] OTHER -> MESSAGE_SIZE

InHand(a) == IF thread[a] = "send" THEN Unsent(a) ELSE 0

(* When a thread may block, its client can still send all that it will. *)
RoomOK(a) ==
  ~gone =>
  /\ down[a] + InHand(a) > DownSize => up[a] + Budget(a) <= UpSize
  /\ service = "chargen" =>
       /\ thread[a] = "recv" /\ wset[a] => down[a] + LINE_LENGTH <= DownSize
       /\ thread[a] = "send" => down[a] + Unsent(a) <= DownSize

StreamOK(a) ==
  ~gone /\ a \in sockets =>
  /\ service = "echo" =>
       typed = ToSend(a) + up[a] + (bytes[a] - sent[a]) + down[a] + stdout[a]
  /\ service = "chargen" =>
       down[a] + stdout[a] = LINE_LENGTH * line_number[a] + sent[a]

ConnectionOK(a) == ThreadOK(a) /\ LinkOK(a) /\ StreamOK(a)

SessionInv ==
  /\ Typed /\ WaitingOnce /\ ClientOK
  /\ \A a \in Addresses : ConnectionOK(a)
  /\ ServerSurvives

RoomInv == \A a \in Addresses : RoomOK(a)

-----------------------------------------------------------------------------
(***************************************************************************)
(* Minima, and what the client may still send.                             *)
(***************************************************************************)
LEMMA LeastNatural ==
  ASSUME NEW S \in SUBSET Nat, S # {}
  PROVE  \E m \in S : \A n \in S : m <= n
<1>1. PICK m \in S : \A n \in S : ~ (<<n, m>> \in OpToRel(<, Nat))
  BY NatLessThanWellFounded, WFMin
<1>2. \A n \in S : ~ (n < m)
  BY <1>1 DEF OpToRel
<1>. QED  BY <1>2

LEMMA FirstIn ==
  ASSUME NEW S \in SUBSET Addresses, S # {}
  PROVE  First(S) \in S
<1>1. \E m \in S : \A n \in S : m <= n
  BY LeastNatural, ServerAssumption
<1>. QED  BY <1>1 DEF First, Min

LEMMA FirstOfOne ==
  ASSUME NEW S \in SUBSET Addresses, S # {}, NEW x, S \subseteq {x}
  PROVE  First(S) = x /\ S = {x}
BY FirstIn

LEMMA LeastIs ==
  ASSUME NEW m \in Nat, NEW n \in Nat
  PROVE  /\ Least(m, n) \in Nat /\ Least(m, n) <= m /\ Least(m, n) <= n
         /\ m <= n => Least(m, n) = m
         /\ n <= m => Least(m, n) = n
<1>1. Least(m, n) \in {m, n} /\ \A y \in {m, n} : Least(m, n) <= y
  <2>1. \E x \in {m, n} : \A y \in {m, n} : x <= y
    BY m <= n \/ n <= m
  <2>. QED  BY <2>1 DEF Least, Min
<1>. QED  BY <1>1

LEMMA StdinIsNoAddress == STDIN \notin Addresses
BY ServerAssumption DEF STDIN

LEMMA Sizes ==
  /\ BUFFER_SIZE \in Nat \ {0} /\ LINE_LENGTH \in Nat \ {0} /\ MESSAGE_SIZE \in Nat \ {0}
  /\ UpSize \in Nat \ {0} /\ DownSize \in Nat \ {0}
BY ServerAssumption, ClientAssumption

LEMMA BudgetIs ==
  ASSUME SessionInv, NEW a \in Addresses
  PROVE  /\ ToSend(a) \in Nat /\ ToSend(a) <= MESSAGE_SIZE
         /\ Budget(a) \in Nat /\ Budget(a) <= 2 * MESSAGE_SIZE
<1>1. rest \in Nat /\ message \in Nat /\ MESSAGE_SIZE \in Nat
  BY Sizes DEF SessionInv, Typed, ClientTyped
<1>2. pc = "send" => rest <= message /\ message <= MESSAGE_SIZE
  BY DEF SessionInv, ClientOK
<1>3. ToSend(a) \in Nat /\ ToSend(a) <= MESSAGE_SIZE
  BY <1>1, <1>2 DEF ToSend
<1>. QED  BY <1>1, <1>3 DEF Budget

-----------------------------------------------------------------------------
(***************************************************************************)
(* What a step leaves alone.                                               *)
(***************************************************************************)
SameAt(b) ==
  /\ UNCHANGED <<thread[b], fd[b], wset[b], bytes[b], sent[b], line_number[b]>>
  /\ UNCHANGED <<up[b], down[b], downEnd[b], reset[b], stdout[b]>>
  /\ Waiting(b)' <=> Waiting(b)

LEMMA SameConnection ==
  ASSUME SessionInv, NEW b \in Addresses, SameAt(b), UNCHANGED <<service, gone, clientVars>>
  PROVE  ConnectionOK(b)' /\ (RoomOK(b) => RoomOK(b)')
<1>1. ConnectionOK(b)
  BY DEF SessionInv
<1>2. ThreadOK(b)'
  BY <1>1 DEF ConnectionOK, ThreadOK, SameAt, HasThreads
<1>3. LinkOK(b)'
  BY <1>1 DEF ConnectionOK, LinkOK, SameAt, IsServed, Unused, HasThreads, clientVars
<1>4. ToSend(b)' = ToSend(b) /\ Budget(b)' = Budget(b)
  BY DEF ToSend, Budget, clientVars
<1>5. StreamOK(b)'
  BY <1>1, <1>4 DEF ConnectionOK, StreamOK, SameAt, clientVars
<1>6. RoomOK(b) => RoomOK(b)'
  BY <1>4 DEF RoomOK, SameAt, InHand, Unsent
<1>. QED  BY <1>2, <1>3, <1>5, <1>6 DEF ConnectionOK

\* What is waiting is known by backlog and client_fd.
LEMMA SameWaiting ==
  ASSUME SessionInv, UNCHANGED <<service, main>>,
         \A b \in Addresses : thread[b] = "none" => thread'[b] = "none"
  PROVE  WaitingOnce' /\ \A b \in Addresses : Waiting(b)' <=> Waiting(b)
<1>1. \A b : Waiting(b)' <=> Waiting(b)
  BY DEF Waiting, Queued, main
<1>. QED  BY <1>1 DEF SessionInv, WaitingOnce, Queued, main, HasThreads

(* What is to be shown of a step of the server at one connection. *)
LEMMA ServerStepKeeps ==
  ASSUME SessionInv, NEW a \in Addresses, UNCHANGED <<service, gone, clientVars>>,
         ThreadTyped', LinkTyped', WaitingOnce',
         \A b \in Addresses \ {a} : SameAt(b),
         down[a] <= down'[a], downEnd[a] => downEnd'[a],
         ConnectionOK(a)', BuffersFit /\ RoomOK(a) => RoomOK(a)',
         UNCHANGED server
  PROVE  SessionInv' /\ (BuffersFit /\ RoomInv => RoomInv')
<1>1. \A b \in Addresses : ConnectionOK(b)'
  BY SameConnection
<1>2. BuffersFit /\ RoomInv => RoomInv'
  BY SameConnection DEF RoomInv
<1>3. ClientTyped'
  BY DEF SessionInv, Typed, ClientTyped, clientVars
<1>4. /\ program' = program /\ pc' = pc /\ sockets' = sockets /\ fdset' = fdset /\ to' = to
      /\ message' = message /\ rest' = rest /\ typed' = typed
  BY DEF clientVars
<1>5. \A b \in fdset \ {STDIN} : b \in sockets /\ (down'[b] > 0 \/ downEnd'[b])
  <2>1. down \in [Addresses -> Nat] /\ down' \in [Addresses -> Nat]
    BY DEF SessionInv, Typed, LinkTyped
  <2>2. \A b \in fdset \ {STDIN} : b \in Addresses /\ b \in sockets /\ (down[b] > 0 \/ downEnd[b])
    BY DEF SessionInv, Typed, ClientTyped, ClientOK
  <2>. QED  BY <2>1, <2>2 DEF SameAt
<1>6. ClientOK'
  BY <1>4, <1>5 DEF SessionInv, ClientOK
<1>7. ServerSurvives'
  BY <1>4 DEF SessionInv, ServerSurvives
<1>. QED  BY <1>1, <1>2, <1>3, <1>6, <1>7 DEF SessionInv, Typed

-----------------------------------------------------------------------------
(***************************************************************************)
(* The steps of main() and of the servers around select().                 *)
(***************************************************************************)
\* The first of the backlog leaves it.
LEMMA FirstLeaves ==
  ASSUME SessionInv, backlog # <<>>, backlog' = Tail(backlog)
  PROVE  /\ Head(backlog) \in Addresses /\ Queued(Head(backlog))
         /\ backlog' \in Seq(Addresses)
         /\ \A i, j \in 1 .. Len(backlog') : backlog'[i] = backlog'[j] => i = j
         /\ \A b : Queued(b)' <=> Queued(b) /\ b # Head(backlog)
<1>0. PICK h : h = Head(backlog)
  OBVIOUS
<1>1. PICK L \in Nat : L = Len(backlog) /\ h = Head(backlog)
  BY <1>0 DEF SessionInv, WaitingOnce
<1>2. backlog \in Seq(Addresses) /\ L \in Nat \ {0} /\ h = backlog[1] /\ h \in Addresses
  BY <1>1 DEF SessionInv, WaitingOnce
<1>3. /\ backlog' \in Seq(Addresses) /\ Len(backlog') = L - 1
      /\ \A i \in 1 .. L - 1 : backlog'[i] = backlog[i + 1]
  BY <1>1, <1>2
<1>4. \A i, j \in 1 .. L : backlog[i] = backlog[j] => i = j
  BY <1>1 DEF SessionInv, WaitingOnce
<1>5. \A b : Queued(b)' <=> \E i \in 1 .. L - 1 : backlog[i + 1] = b
  BY <1>3 DEF Queued
<1>6. \A b : Queued(b) <=> \E i \in 1 .. L : backlog[i] = b
  BY <1>1 DEF Queued
<1>7. ASSUME NEW b, Queued(b)'
      PROVE  Queued(b) /\ b # h
  <2>1. PICK i \in 1 .. L - 1 : backlog[i + 1] = b
    BY <1>5, <1>7
  <2>2. i + 1 \in 1 .. L /\ 1 \in 1 .. L /\ i + 1 # 1
    BY <1>2
  <2>. QED  BY <2>1, <2>2, <1>2, <1>4, <1>6
<1>8. ASSUME NEW b, Queued(b), b # h
      PROVE  Queued(b)'
  <2>1. PICK i \in 1 .. L : backlog[i] = b
    BY <1>6, <1>8
  <2>2. i # 1
    BY <2>1, <1>2, <1>8
  <2>3. i - 1 \in 1 .. L - 1 /\ (i - 1) + 1 = i
    BY <2>2, <1>2
  <2>. QED  BY <1>5, <2>1, <2>3
<1>9. Queued(h)
  BY <1>2, <1>6
<1>10. ASSUME NEW i \in 1 .. L - 1, NEW j \in 1 .. L - 1, backlog'[i] = backlog'[j]
       PROVE  i = j
  <2>1. i + 1 \in 1 .. L /\ j + 1 \in 1 .. L /\ backlog[i + 1] = backlog[j + 1]
    BY <1>2, <1>3, <1>10
  <2>. QED  BY <2>1, <1>4
<1>. QED  BY <1>1, <1>2, <1>3, <1>7, <1>8, <1>9, <1>10

LEMMA AcceptKeeps ==
  ASSUME SessionInv, Accept, UNCHANGED clientVars
  PROVE  SessionInv' /\ (BuffersFit /\ RoomInv => RoomInv')
<1>1. PICK h : h = Head(backlog)
  OBVIOUS
<1>2. backlog # <<>> /\ backlog' = Tail(backlog) /\ client_fd' = h /\ client_fd = NONE
  BY <1>1 DEF Accept
<1>3. /\ h \in Addresses /\ Queued(h) /\ backlog' \in Seq(Addresses)
      /\ \A i, j \in 1 .. Len(backlog') : backlog'[i] = backlog'[j] => i = j
      /\ \A b : Queued(b)' <=> Queued(b) /\ b # h
  BY <1>1, <1>2, FirstLeaves
<1>4. \A b \in Addresses : Waiting(b)' <=> Waiting(b)
  BY <1>2, <1>3, ServerAssumption DEF Waiting
<1>5. thread' = thread /\ HasThreads' /\ ~Queued(h)'
  BY <1>3 DEF Accept, HasThreads
<1>6. WaitingOnce'
  BY <1>2, <1>3, <1>4, <1>5 DEF SessionInv, WaitingOnce
<1>7. \A b \in Addresses : SameAt(b)
  BY <1>4 DEF SameAt, Accept, local, ends, clientVars
<1>8. ConnectionOK(h)' /\ (RoomOK(h) => RoomOK(h)')
  BY <1>3, <1>7, SameConnection DEF Accept, ends
<1>9. ThreadTyped' /\ LinkTyped'
  BY DEF Accept, SessionInv, Typed, ThreadTyped, LinkTyped, local, ends
<1>10. down[h] <= down'[h] /\ downEnd'[h] = downEnd[h]
  BY <1>3, <1>7 DEF SameAt, SessionInv, Typed, LinkTyped
<1>. QED  BY <1>3, <1>6, <1>7, <1>8, <1>9, <1>10, ServerStepKeeps DEF Accept, ends

LEMMA CreateThreadKeeps ==
  ASSUME SessionInv, CreateThread, UNCHANGED clientVars
  PROVE  SessionInv' /\ (BuffersFit /\ RoomInv => RoomInv')
<1>1. PICK c : c = client_fd
  OBVIOUS
<1>2. /\ c \in Addresses /\ HasThreads /\ ~Queued(c) /\ Waiting(c) /\ thread[c] = "none"
      /\ client_fd' = NONE /\ backlog' = backlog
  BY <1>1 DEF CreateThread, SessionInv, WaitingOnce, Waiting
<1>3. thread'[c] = "start" /\ \A b \in Addresses \ {c} : thread'[b] = thread[b]
  BY <1>1, <1>2 DEF CreateThread, Goes, SessionInv, Typed, ThreadTyped
<1>4. \A b \in Addresses : Waiting(b)' <=> Waiting(b) /\ b # c
  BY <1>1, <1>2, ServerAssumption DEF Waiting, Queued
<1>5. WaitingOnce'
  BY <1>2, <1>3, <1>4 DEF SessionInv, WaitingOnce
<1>6. \A b \in Addresses \ {c} : SameAt(b)
  BY <1>3, <1>4 DEF SameAt, CreateThread, local, ends, clientVars
<1>7. /\ UNCHANGED <<fd[c], bytes[c], sent[c], line_number[c], up[c], down[c], downEnd[c], reset[c], stdout[c]>>
      /\ UNCHANGED <<service, gone, wset>>
  BY DEF CreateThread, local, ends, clientVars
<1>8. ConnectionOK(c)
  BY <1>2 DEF SessionInv
<1>9. ThreadOK(c)'
  BY <1>2, <1>3, <1>7, <1>8 DEF ConnectionOK, ThreadOK, HasThreads
<1>10. LinkOK(c)'
  BY <1>2, <1>3, <1>7, <1>8 DEF ConnectionOK, LinkOK, IsServed, Unused, HasThreads, clientVars
<1>11. ToSend(c)' = ToSend(c) /\ Budget(c)' = Budget(c)
  BY DEF ToSend, Budget, clientVars
<1>12. StreamOK(c)'
  BY <1>7, <1>8, <1>11 DEF ConnectionOK, StreamOK, clientVars
<1>13. RoomOK(c) => RoomOK(c)'
  BY <1>2, <1>3, <1>7, <1>11 DEF RoomOK, InHand
<1>14. ThreadTyped' /\ LinkTyped'
  BY DEF CreateThread, Goes, SessionInv, Typed, ThreadTyped, LinkTyped, local, ends
<1>15. down[c] <= down'[c]
  BY <1>2, <1>7 DEF SessionInv, Typed, LinkTyped
<1>. QED  BY <1>2, <1>5, <1>6, <1>7, <1>9, <1>10, <1>12, <1>13, <1>14, <1>15, ServerStepKeeps
          DEF ConnectionOK, CreateThread

\* What is delivered to the client's host.
LEMMA Delivered ==
  ASSUME SessionInv, NEW c \in Addresses, NEW n \in Nat, Deliver(c, n)
  PROVE  /\ down' \in [Addresses -> Nat] /\ reset' \in [Addresses -> BOOLEAN]
         /\ down'[c] = (IF gone THEN down[c] ELSE down[c] + n) /\ reset'[c] = gone
         /\ \A b \in Addresses \ {c} : down'[b] = down[b] /\ reset'[b] = reset[b]
<1>1. PICK m : m = IF gone THEN down[c] ELSE down[c] + n
  OBVIOUS
<1>2. down \in [Addresses -> Nat] /\ reset \in [Addresses -> BOOLEAN] /\ gone \in BOOLEAN /\ m \in Nat
  BY <1>1 DEF SessionInv, Typed, LinkTyped
<1>3. down' = [down EXCEPT ![c] = m] /\ reset' = [reset EXCEPT ![c] = gone]
  BY <1>1, <1>2 DEF Deliver
<1>. QED  BY <1>1, <1>2, <1>3

LEMMA SelectAcceptKeeps ==
  ASSUME SessionInv, SelectAccept, UNCHANGED clientVars
  PROVE  SessionInv' /\ (BuffersFit /\ RoomInv => RoomInv')
<1>1. PICK h : h = Head(backlog)
  OBVIOUS
<1>2. /\ backlog # <<>> /\ backlog' = Tail(backlog) /\ ~HasThreads
      /\ client_fd' = client_fd /\ client_fd = NONE
  BY DEF SelectAccept, SessionInv, WaitingOnce
<1>3. /\ h \in Addresses /\ Queued(h) /\ backlog' \in Seq(Addresses)
      /\ \A i, j \in 1 .. Len(backlog') : backlog'[i] = backlog'[j] => i = j
      /\ \A b : Queued(b)' <=> Queued(b) /\ b # h
  BY <1>1, <1>2, FirstLeaves
<1>4. \A b \in Addresses : Waiting(b)' <=> Waiting(b) /\ b # h
  BY <1>2, <1>3, ServerAssumption DEF Waiting
<1>5. /\ thread'[h] = "recv" /\ fd'[h] = h
      /\ \A b \in Addresses \ {h} : thread'[b] = thread[b] /\ fd'[b] = fd[b]
  BY <1>1, <1>3 DEF SelectAccept, Goes, SessionInv, Typed, ThreadTyped
<1>6. /\ \A b \in Addresses \ {h} : UNCHANGED <<down[b], downEnd[b], reset[b]>>
      /\ \/ down'[h] = down[h]
         \/ down'[h] = down[h] + 1 /\ ~gone
      /\ downEnd[h] => downEnd'[h]
      /\ downEnd'[h] => service = "daytime" \/ downEnd[h]
      /\ reset'[h] => gone \/ reset[h]
  BY <1>1, <1>3 DEF SelectAccept, Deliver, SessionInv, Typed, LinkTyped
<1>7. /\ UNCHANGED <<bytes[h], sent[h], line_number[h], up[h], stdout[h]>>
      /\ UNCHANGED <<service, gone, wset>>
  BY DEF SelectAccept, clientVars
<1>8. \A b \in Addresses \ {h} : SameAt(b)
  BY <1>4, <1>5, <1>6 DEF SameAt, SelectAccept, clientVars
<1>9. WaitingOnce'
  BY <1>2, <1>3, <1>4, <1>5 DEF SessionInv, WaitingOnce
<1>10. ConnectionOK(h) /\ thread[h] = "none" /\ Waiting(h)
  BY <1>3 DEF SessionInv, WaitingOnce, Waiting
<1>11. down[h] = 0 /\ down'[h] \in {0, 1} /\ (down'[h] = 1 => ~gone) /\ bytes[h] = 0 /\ sent[h] = 0
  BY <1>6, <1>10 DEF ConnectionOK, ThreadOK
<1>12. ThreadOK(h)'
  BY <1>2, <1>5, <1>6, <1>7, <1>10, <1>11, Sizes DEF ConnectionOK, ThreadOK, HasThreads
<1>13. pc # "done" /\ (~gone => h \in sockets)
  BY <1>10 DEF ConnectionOK, LinkOK, IsServed
<1>14. LinkOK(h)'
  BY <1>2, <1>4, <1>5, <1>6, <1>7, <1>10, <1>13
     DEF ConnectionOK, LinkOK, IsServed, Unused, HasThreads, clientVars
<1>15. StreamOK(h)'
  BY <1>2, <1>7 DEF StreamOK, HasThreads
<1>16. RoomOK(h)'
  BY <1>2, <1>5, <1>7, <1>11, Sizes DEF RoomOK, InHand, HasThreads
<1>17. ThreadTyped'
  BY <1>1, <1>3 DEF SelectAccept, Goes, SessionInv, Typed, ThreadTyped
<1>18. LinkTyped'
  <2>1. down' \in [Addresses -> Nat] /\ reset' \in [Addresses -> BOOLEAN]
    BY <1>1, <1>3, Delivered DEF SelectAccept, SessionInv, Typed, LinkTyped
  <2>2. downEnd' \in [Addresses -> BOOLEAN]
    BY <1>1, <1>3 DEF SelectAccept, SessionInv, Typed, LinkTyped
  <2>. QED  BY <2>1, <2>2 DEF SelectAccept, SessionInv, Typed, LinkTyped
<1>. QED  BY <1>3, <1>6, <1>7, <1>8, <1>9, <1>11, <1>12, <1>14, <1>15, <1>16, <1>17, <1>18, ServerStepKeeps
          DEF ConnectionOK, SelectAccept

(* The steps of a thread or of a loop at one connection, which waits neither
   before nor after them. *)
LEMMA WaitsNoLonger ==
  ASSUME SessionInv, NEW a \in Addresses, thread[a] # "none", UNCHANGED <<service, main>>,
         thread'[a] # "none", \A b \in Addresses \ {a} : thread'[b] = thread[b]
  PROVE  WaitingOnce' /\ ~Waiting(a) /\ \A b \in Addresses : Waiting(b)' <=> Waiting(b)
<1>1. \A b \in Addresses : thread[b] = "none" => thread'[b] = "none"
  OBVIOUS
<1>2. ~Waiting(a)
  BY DEF SessionInv, WaitingOnce
<1>. QED  BY <1>1, <1>2, SameWaiting

(* What a recv() takes of what has arrived. *)
LEMMA TakenIs ==
  ASSUME SessionInv, NEW a \in Addresses
  PROVE  /\ Taken(a) \in Nat /\ Taken(a) <= up[a] /\ Taken(a) <= BUFFER_SIZE
         /\ Taken(a) = up[a] \/ Taken(a) = BUFFER_SIZE
<1>1. up[a] \in Nat /\ BUFFER_SIZE \in Nat
  BY Sizes DEF SessionInv, Typed, LinkTyped
<1>2. /\ BUFFER_SIZE <= up[a] => Taken(a) = BUFFER_SIZE
      /\ up[a] <= BUFFER_SIZE => Taken(a) = up[a]
  BY <1>1, LeastIs DEF Taken
<1>. QED  BY <1>1, <1>2

LEMMA SelectRecvKeeps ==
  ASSUME SessionInv, NEW a \in Addresses, SelectRecv(a), UNCHANGED clientVars
  PROVE  SessionInv' /\ (BuffersFit /\ RoomInv => RoomInv')
<1>1. /\ WaitingOnce' /\ \A b \in Addresses : Waiting(b)' <=> Waiting(b)
  BY WaitsNoLonger DEF SelectRecv
<1>2. PICK n \in Nat : n = Taken(a) /\ n <= up[a]
  BY TakenIs
<1>3. up'[a] = up[a] - n /\ up[a] \in Nat /\ \A b \in Addresses \ {a} : up'[b] = up[b]
  BY <1>2 DEF SelectRecv, SessionInv, Typed, LinkTyped
<1>4. /\ UNCHANGED <<thread, local, down, downEnd, reset, stdout, service, gone, server>>
      /\ ~HasThreads /\ thread[a] = "recv"
  BY DEF SelectRecv, ends, clientVars
<1>5. \A b \in Addresses \ {a} : SameAt(b)
  BY <1>1, <1>3, <1>4 DEF SameAt, local
<1>6. ConnectionOK(a)
  BY DEF SessionInv
<1>7. ThreadOK(a)'
  BY <1>2, <1>3, <1>4, <1>6, Sizes DEF ConnectionOK, ThreadOK, HasThreads, local
<1>8. LinkOK(a)'
  BY <1>1, <1>4, <1>6 DEF ConnectionOK, LinkOK, IsServed, Unused, HasThreads, clientVars
<1>9. StreamOK(a)'
  BY <1>4 DEF StreamOK, HasThreads
<1>10. Budget(a)' = Budget(a) /\ Budget(a) \in Nat
  BY BudgetIs DEF Budget, ToSend, clientVars
<1>11. RoomOK(a) => RoomOK(a)'
  BY <1>2, <1>3, <1>4, <1>10, Sizes DEF RoomOK, InHand, HasThreads
<1>12. ThreadTyped' /\ LinkTyped'
  <2>1. up' \in [Addresses -> Nat]
    BY <1>2, <1>3 DEF SelectRecv, SessionInv, Typed, LinkTyped
  <2>. QED  BY <2>1 DEF SelectRecv, SessionInv, Typed, ThreadTyped, LinkTyped, local, ends
<1>13. down[a] <= down'[a]
  BY <1>4 DEF SessionInv, Typed, LinkTyped
<1>. QED  BY <1>1, <1>4, <1>5, <1>7, <1>8, <1>9, <1>11, <1>12, <1>13, ServerStepKeeps DEF ConnectionOK

-----------------------------------------------------------------------------
(***************************************************************************)
(* The steps of a thread.                                                  *)
(***************************************************************************)
LEMMA HandleThreadKeeps ==
  ASSUME SessionInv, NEW a \in Addresses, HandleThread(a), UNCHANGED <<server, clientVars>>
  PROVE  SessionInv' /\ (BuffersFit /\ RoomInv => RoomInv')
<1>1. ConnectionOK(a) /\ thread[a] = "start"
  BY DEF SessionInv, HandleThread
<1>2. HasThreads
  BY <1>1 DEF ConnectionOK, ThreadOK
<1>3. /\ thread'[a] = (IF service = "echo" THEN "recv" ELSE "select") /\ fd'[a] = a
      /\ \A b \in Addresses \ {a} : thread'[b] = thread[b] /\ fd'[b] = fd[b]
  BY DEF HandleThread, Goes, Argument, SessionInv, Typed, ThreadTyped
<1>4. /\ UNCHANGED <<wset, bytes, sent, line_number, up, down, downEnd, reset, stdout>>
      /\ UNCHANGED <<service, gone, main>>
  BY DEF HandleThread, ends, clientVars
<1>5. WaitingOnce' /\ \A b \in Addresses : Waiting(b)' <=> Waiting(b)
  BY <1>1, <1>3, <1>4, WaitsNoLonger
<1>6. \A b \in Addresses \ {a} : SameAt(b)
  BY <1>3, <1>4, <1>5 DEF SameAt
<1>7. ThreadOK(a)'
  BY <1>1, <1>2, <1>3, <1>4 DEF ConnectionOK, ThreadOK, HasThreads
<1>8. LinkOK(a)'
  BY <1>1, <1>2, <1>3, <1>4, <1>5 DEF ConnectionOK, LinkOK, IsServed, Unused, HasThreads, clientVars
<1>9. ToSend(a)' = ToSend(a) /\ Budget(a)' = Budget(a)
  BY DEF ToSend, Budget, clientVars
<1>10. StreamOK(a)'
  BY <1>1, <1>4, <1>9 DEF ConnectionOK, StreamOK, clientVars
<1>11. RoomOK(a) => RoomOK(a)'
  BY <1>1, <1>2, <1>3, <1>4, <1>9 DEF RoomOK, InHand, HasThreads
<1>12. ThreadTyped' /\ LinkTyped'
  BY <1>4 DEF HandleThread, Goes, Argument, SessionInv, Typed, ThreadTyped, LinkTyped, ends
<1>13. down[a] <= down'[a]
  BY <1>4 DEF SessionInv, Typed, LinkTyped
<1>. QED  BY <1>4, <1>5, <1>6, <1>7, <1>8, <1>10, <1>11, <1>12, <1>13, ServerStepKeeps DEF ConnectionOK

(* What is taken from the way up is in hand, and makes room for two messages. *)
LEMMA EchoRecvKeeps ==
  ASSUME SessionInv, NEW a \in Addresses, EchoRecv(a), UNCHANGED <<server, clientVars>>
  PROVE  SessionInv' /\ (BuffersFit /\ RoomInv => RoomInv')
<1>1. ConnectionOK(a) /\ thread[a] = "recv" /\ fd[a] = a /\ service = "echo" /\ up[a] > 0
  BY DEF SessionInv, EchoRecv, ConnectionOK, ThreadOK
<1>2. PICK n \in Nat : n = Taken(a) /\ n <= up[a] /\ 0 < n /\ n <= BUFFER_SIZE
                       /\ (n = up[a] \/ n = BUFFER_SIZE)
  BY <1>1, TakenIs, Sizes
<1>3. /\ up'[a] = up[a] - n /\ bytes'[a] = n /\ thread'[a] = "send"
      /\ \A b \in Addresses \ {a} : thread'[b] = thread[b] /\ up'[b] = up[b] /\ bytes'[b] = bytes[b]
  BY <1>1, <1>2 DEF EchoRecv, Goes, SessionInv, Typed, ThreadTyped, LinkTyped
<1>4. /\ UNCHANGED <<fd, wset, sent, line_number, down, downEnd, reset, stdout>>
      /\ UNCHANGED <<service, gone, main>>
  BY DEF EchoRecv, ends, clientVars
<1>5. WaitingOnce' /\ \A b \in Addresses : Waiting(b)' <=> Waiting(b)
  BY <1>1, <1>3, <1>4, WaitsNoLonger
<1>6. \A b \in Addresses \ {a} : SameAt(b)
  BY <1>3, <1>4, <1>5 DEF SameAt
<1>7. /\ up[a] \in Nat /\ down[a] \in Nat /\ stdout[a] \in Nat /\ bytes[a] = 0 /\ sent[a] = 0 /\ typed \in Nat
      /\ up[a] <= UpSize
  BY <1>1 DEF SessionInv, Typed, ThreadTyped, LinkTyped, ClientTyped, ConnectionOK, ThreadOK
<1>8. ThreadOK(a)'
  BY <1>1, <1>2, <1>3, <1>4, <1>7, Sizes DEF ConnectionOK, ThreadOK, HasThreads
<1>9. LinkOK(a)'
  BY <1>1, <1>3, <1>4, <1>5 DEF ConnectionOK, LinkOK, IsServed, Unused, HasThreads, clientVars
<1>10. /\ ToSend(a)' = ToSend(a) /\ Budget(a)' = Budget(a)
       /\ ToSend(a) \in Nat /\ Budget(a) \in Nat /\ Budget(a) <= 2 * MESSAGE_SIZE
  BY BudgetIs DEF ToSend, Budget, clientVars
<1>11. StreamOK(a)'
  BY <1>1, <1>2, <1>3, <1>4, <1>7, <1>10 DEF ConnectionOK, StreamOK, clientVars
<1>12. BuffersFit => up'[a] + Budget(a)' <= UpSize
  BY <1>2, <1>3, <1>7, <1>10, Sizes DEF BuffersFit
<1>13. BuffersFit => RoomOK(a)'
  BY <1>1, <1>4, <1>12 DEF RoomOK
<1>14. up' \in [Addresses -> Nat] /\ bytes' \in [Addresses -> Nat]
  BY <1>1, <1>2, <1>3 DEF EchoRecv, SessionInv, Typed, ThreadTyped, LinkTyped
<1>15. ThreadTyped' /\ LinkTyped'
  BY <1>14 DEF EchoRecv, Goes, SessionInv, Typed, ThreadTyped, LinkTyped, ends
<1>16. down[a] <= down'[a]
  BY <1>4, <1>7
<1>. QED  BY <1>4, <1>5, <1>6, <1>8, <1>9, <1>11, <1>13, <1>15, <1>16, ServerStepKeeps DEF ConnectionOK

LEMMA ChargenSelectKeeps ==
  ASSUME SessionInv, NEW a \in Addresses, ChargenSelect(a), UNCHANGED <<server, clientVars>>
  PROVE  SessionInv' /\ (BuffersFit /\ RoomInv => RoomInv')
<1>1. /\ ConnectionOK(a) /\ thread[a] = "select" /\ fd[a] = a
      /\ Readable(a) \/ Writable(a)
  BY DEF SessionInv, ChargenSelect, ConnectionOK, ThreadOK
<1>2. service = "chargen" /\ sent[a] = 0
  BY <1>1 DEF ConnectionOK, ThreadOK, HasThreads
<1>3. /\ thread'[a] = (IF Readable(a) THEN "recv" ELSE "send") /\ bytes'[a] = LINE_LENGTH
      /\ wset'[a] = Writable(a)
      /\ \A b \in Addresses \ {a} : thread'[b] = thread[b] /\ bytes'[b] = bytes[b] /\ wset'[b] = wset[b]
  BY <1>1 DEF ChargenSelect, Goes, SessionInv, Typed, ThreadTyped
<1>4. /\ UNCHANGED <<fd, sent, line_number, up, down, downEnd, reset, stdout>>
      /\ UNCHANGED <<service, gone, main>>
  BY DEF ChargenSelect, ends, clientVars
<1>5. WaitingOnce' /\ \A b \in Addresses : Waiting(b)' <=> Waiting(b)
  BY <1>1, <1>3, <1>4, WaitsNoLonger
<1>6. \A b \in Addresses \ {a} : SameAt(b)
  BY <1>3, <1>4, <1>5 DEF SameAt
<1>7. down[a] \in Nat /\ up[a] \in Nat /\ down[a] <= DownSize
  BY <1>1 DEF SessionInv, Typed, LinkTyped, ConnectionOK, ThreadOK
<1>8. ThreadOK(a)'
  BY <1>1, <1>2, <1>3, <1>4, Sizes DEF ConnectionOK, ThreadOK, HasThreads
<1>9. LinkOK(a)'
  BY <1>1, <1>2, <1>3, <1>4, <1>5 DEF ConnectionOK, LinkOK, IsServed, Unused, HasThreads, clientVars
<1>10. ToSend(a)' = ToSend(a) /\ Budget(a)' = Budget(a)
  BY DEF ToSend, Budget, clientVars
<1>11. StreamOK(a)'
  BY <1>1, <1>2, <1>4, <1>10 DEF ConnectionOK, StreamOK, clientVars
<1>12. ~gone /\ Writable(a) => down[a] + LINE_LENGTH <= DownSize
  BY <1>1, <1>7, Sizes DEF Writable, HasRoom, ConnectionOK, LinkOK
<1>13. thread'[a] = "send" => Writable(a) /\ Unsent(a)' = LINE_LENGTH
  BY <1>1, <1>2, <1>3, <1>4, Sizes DEF Unsent
<1>14. RoomOK(a)'
  BY <1>2, <1>3, <1>4, <1>7, <1>12, <1>13, Sizes DEF RoomOK, InHand
<1>15. ThreadTyped' /\ LinkTyped'
  <2>1. Writable(a) \in BOOLEAN
    BY <1>1, <1>2 DEF Writable, SessionInv, Typed, LinkTyped
  <2>. QED  BY <1>1, <2>1, Sizes DEF ChargenSelect, Goes, SessionInv, Typed, ThreadTyped, LinkTyped, ends
<1>16. down[a] <= down'[a]
  BY <1>4, <1>7
<1>. QED  BY <1>4, <1>5, <1>6, <1>8, <1>9, <1>11, <1>14, <1>15, <1>16, ServerStepKeeps DEF ConnectionOK

LEMMA ChargenRecvKeeps ==
  ASSUME SessionInv, NEW a \in Addresses, ChargenRecv(a), UNCHANGED <<server, clientVars>>
  PROVE  SessionInv' /\ (BuffersFit /\ RoomInv => RoomInv')
<1>1. /\ ConnectionOK(a) /\ thread[a] = "recv" /\ fd[a] = a /\ service = "chargen"
      /\ bytes[a] = LINE_LENGTH /\ sent[a] = 0
  BY DEF SessionInv, ChargenRecv, ConnectionOK, ThreadOK
<1>2. PICK n \in Nat : n = Taken(a) /\ n <= up[a]
  BY TakenIs
<1>3. /\ up'[a] = up[a] - n /\ thread'[a] = (IF wset[a] THEN "send" ELSE "select")
      /\ \A b \in Addresses \ {a} : thread'[b] = thread[b] /\ up'[b] = up[b]
  BY <1>1, <1>2 DEF ChargenRecv, Goes, SessionInv, Typed, ThreadTyped, LinkTyped
<1>4. /\ UNCHANGED <<fd, wset, bytes, sent, line_number, down, downEnd, reset, stdout>>
      /\ UNCHANGED <<service, gone, main>>
  BY DEF ChargenRecv, local, ends, clientVars
<1>5. WaitingOnce' /\ \A b \in Addresses : Waiting(b)' <=> Waiting(b)
  BY <1>1, <1>3, <1>4, WaitsNoLonger
<1>6. \A b \in Addresses \ {a} : SameAt(b)
  BY <1>3, <1>4, <1>5 DEF SameAt
<1>7. down[a] \in Nat /\ up[a] \in Nat /\ down[a] <= DownSize /\ up[a] <= UpSize
  BY <1>1 DEF SessionInv, Typed, LinkTyped, ConnectionOK, ThreadOK
<1>8. ThreadOK(a)'
  BY <1>1, <1>2, <1>3, <1>4, <1>7, Sizes DEF ConnectionOK, ThreadOK, HasThreads
<1>9. LinkOK(a)'
  BY <1>1, <1>3, <1>4, <1>5 DEF ConnectionOK, LinkOK, IsServed, Unused, HasThreads, clientVars
<1>10. ToSend(a)' = ToSend(a)
  BY DEF ToSend, clientVars
<1>11. StreamOK(a)'
  BY <1>1, <1>4, <1>10 DEF ConnectionOK, StreamOK, clientVars
<1>12. Unsent(a)' = LINE_LENGTH
  BY <1>1, <1>4, Sizes DEF Unsent
<1>13. RoomOK(a) => RoomOK(a)'
  BY <1>1, <1>3, <1>4, <1>7, <1>12, Sizes DEF RoomOK, InHand
<1>14. ThreadTyped' /\ LinkTyped'
  <2>1. up' \in [Addresses -> Nat]
    BY <1>1, <1>2, <1>3, <1>7 DEF ChargenRecv, SessionInv, Typed, LinkTyped
  <2>. QED  BY <2>1 DEF ChargenRecv, Goes, SessionInv, Typed, ThreadTyped, LinkTyped, local, ends
<1>15. down[a] <= down'[a]
  BY <1>4, <1>7
<1>. QED  BY <1>4, <1>5, <1>6, <1>8, <1>9, <1>11, <1>13, <1>14, <1>15, ServerStepKeeps DEF ConnectionOK

(* A part of what is in hand goes on its way, or the last of it. *)
LEMMA SendKeeps ==
  ASSUME SessionInv, NEW a \in Addresses, Send(a), UNCHANGED <<server, clientVars>>
  PROVE  SessionInv' /\ (BuffersFit /\ RoomInv => RoomInv')
<1>1. /\ ConnectionOK(a) /\ thread[a] = "send" /\ fd[a] = a /\ down[a] < DownSize
  BY DEF SessionInv, Send, ConnectionOK, ThreadOK
<1>2. HasThreads /\ sent[a] < bytes[a]
  BY <1>1 DEF ConnectionOK, ThreadOK, HasThreads, SessionInv, Typed, LinkTyped
<1>3. /\ down[a] \in Nat /\ up[a] \in Nat /\ stdout[a] \in Nat /\ bytes[a] \in Nat /\ sent[a] \in Nat
      /\ line_number[a] \in Nat /\ typed \in Nat /\ up[a] <= UpSize /\ gone \in BOOLEAN
  BY <1>1 DEF SessionInv, Typed, ClientTyped, ThreadTyped, LinkTyped, ConnectionOK, ThreadOK
<1>4. PICK n \in 1 .. Least(Unsent(a), DownSize - down[a]) :
       /\ Deliver(a, n)
       /\ \/ /\ sent[a] + n < bytes[a]
             /\ sent' = [sent EXCEPT ![a] = @ + n]
             /\ UNCHANGED <<thread, bytes, line_number>>
          \/ /\ sent[a] + n >= bytes[a]
             /\ sent' = [sent EXCEPT ![a] = 0] /\ bytes' = [bytes EXCEPT ![a] = 0]
             /\ line_number' = [line_number EXCEPT ![a] = IF service = "echo" THEN @ ELSE @ + 1]
             /\ Goes(a, IF service = "echo" THEN "recv" ELSE "select")
  BY <1>1 DEF Send
<1>5. n \in Nat \ {0} /\ n <= bytes[a] - sent[a] /\ down[a] + n <= DownSize
  <2>1. /\ bytes[a] - sent[a] \in Nat /\ DownSize - down[a] \in Nat
    BY <1>1, <1>2, <1>3, Sizes
  <2>2. PICK m \in Nat, k \in Nat : m = bytes[a] - sent[a] /\ k = DownSize - down[a]
    BY <2>1
  <2>3. n \in 1 .. Least(m, k)
    BY <1>4, <2>2 DEF Unsent
  <2>4. Least(m, k) \in Nat /\ Least(m, k) <= m /\ Least(m, k) <= k
    BY LeastIs
  <2>. QED  BY <1>1, <1>3, <2>2, <2>3, <2>4, Sizes
<1>6. /\ down' \in [Addresses -> Nat] /\ reset' \in [Addresses -> BOOLEAN]
      /\ down'[a] = (IF gone THEN down[a] ELSE down[a] + n) /\ reset'[a] = gone
      /\ \A b \in Addresses \ {a} : down'[b] = down[b] /\ reset'[b] = reset[b]
  BY <1>4, <1>5, Delivered
<1>7. /\ UNCHANGED <<fd, wset, up, upEnd, downEnd, stdout>>
      /\ UNCHANGED <<service, gone, main>>
  BY DEF Send, clientVars
<1>8. \A b \in Addresses \ {a} :
        UNCHANGED <<thread[b], bytes[b], sent[b], line_number[b]>>
  BY <1>4 DEF Goes, SessionInv, Typed, ThreadTyped
<1>9. \/ /\ sent[a] + n < bytes[a] /\ sent'[a] = sent[a] + n
         /\ thread'[a] = "send" /\ bytes'[a] = bytes[a] /\ line_number'[a] = line_number[a]
      \/ /\ sent[a] + n = bytes[a] /\ sent'[a] = 0 /\ bytes'[a] = 0
         /\ line_number'[a] = (IF service = "echo" THEN line_number[a] ELSE line_number[a] + 1)
         /\ thread'[a] = IF service = "echo" THEN "recv" ELSE "select"
  BY <1>1, <1>3, <1>4, <1>5 DEF Goes, SessionInv, Typed, ThreadTyped
<1>10. thread'[a] \in {"send", "recv", "select"}
  BY <1>9
<1>11. WaitingOnce' /\ \A b \in Addresses : Waiting(b)' <=> Waiting(b)
  BY <1>1, <1>7, <1>8, <1>10, WaitsNoLonger
<1>12. \A b \in Addresses \ {a} : SameAt(b)
  BY <1>6, <1>7, <1>8, <1>11 DEF SameAt
<1>13. service \in {"echo", "chargen"}
  BY <1>2 DEF HasThreads
<1>14. ThreadOK(a)'
  BY <1>1, <1>3, <1>5, <1>6, <1>7, <1>9, <1>13 DEF ConnectionOK, ThreadOK, HasThreads
<1>15. IsServed(a) /\ (~gone => a \in sockets)
  BY <1>1, <1>2 DEF IsServed, ConnectionOK, LinkOK
<1>16. LinkOK(a)'
  BY <1>1, <1>2, <1>6, <1>7, <1>10, <1>11, <1>15
     DEF ConnectionOK, LinkOK, IsServed, Unused, HasThreads, clientVars
<1>17. /\ ToSend(a)' = ToSend(a) /\ Budget(a)' = Budget(a)
       /\ ToSend(a) \in Nat /\ Budget(a) \in Nat
  BY BudgetIs DEF ToSend, Budget, clientVars
<1>18. StreamOK(a)'
  <2>1. PICK p \in Nat, q \in Nat :
          p = LINE_LENGTH * line_number[a] /\ q = LINE_LENGTH * line_number'[a]
    BY <1>3, <1>9, Sizes
  <2>2. line_number'[a] = line_number[a] + 1 => q = p + LINE_LENGTH
    BY <1>3, <2>1, Sizes
  <2>3. service = "chargen" => bytes[a] = LINE_LENGTH
    BY <1>1 DEF ConnectionOK, ThreadOK
  <2>4. ~gone /\ a \in sockets /\ service = "chargen" => down[a] + stdout[a] = p + sent[a]
    BY <1>1, <2>1 DEF ConnectionOK, StreamOK
  <2>5. ~gone /\ a \in sockets /\ service = "chargen" => down'[a] + stdout[a] = q + sent'[a]
    BY <1>3, <1>5, <1>6, <1>9, <2>1, <2>2, <2>3, <2>4, Sizes
  <2>6. ~gone /\ a \in sockets /\ service = "echo" =>
          typed = ToSend(a) + up[a] + (bytes[a] - sent[a]) + down[a] + stdout[a]
    BY <1>1 DEF ConnectionOK, StreamOK
  <2>7. ~gone /\ a \in sockets /\ service = "echo" =>
          typed = ToSend(a) + up[a] + (bytes'[a] - sent'[a]) + down'[a] + stdout[a]
    BY <1>3, <1>5, <1>6, <1>9, <1>17, <2>6
  <2>. QED  BY <1>7, <1>17, <2>1, <2>5, <2>7 DEF StreamOK, clientVars
<1>19. RoomOK(a) => RoomOK(a)'
  <2>1. ~gone => down'[a] + InHand(a)' = down[a] + InHand(a)
    BY <1>1, <1>3, <1>5, <1>6, <1>7, <1>9 DEF InHand, Unsent
  <2>2. thread'[a] = "send" => InHand(a)' = Unsent(a)'
    BY DEF InHand
  <2>3. InHand(a) = Unsent(a)
    BY <1>1 DEF InHand
  <2>. QED  BY <1>1, <1>7, <1>9, <1>17, <2>1, <2>2, <2>3 DEF RoomOK
<1>20. ThreadTyped'
  <2>1. sent' \in [Addresses -> Nat] /\ bytes' \in [Addresses -> Nat]
    BY <1>3, <1>4, <1>5 DEF SessionInv, Typed, ThreadTyped
  <2>2. line_number' \in [Addresses -> Nat]
    BY <1>3, <1>4 DEF SessionInv, Typed, ThreadTyped
  <2>3. thread' \in [Addresses -> {"none", "start", "select", "recv", "send", "closed"}]
    BY <1>4 DEF Goes, SessionInv, Typed, ThreadTyped
  <2>. QED  BY <1>7, <2>1, <2>2, <2>3 DEF SessionInv, Typed, ThreadTyped
<1>21. LinkTyped' /\ down[a] <= down'[a]
  BY <1>3, <1>5, <1>6, <1>7 DEF SessionInv, Typed, LinkTyped
<1>. QED  BY <1>7, <1>11, <1>12, <1>14, <1>16, <1>18, <1>19, <1>20, <1>21, ServerStepKeeps DEF ConnectionOK

LEMMA CloseKeeps ==
  ASSUME SessionInv, NEW a \in Addresses, Close(a), UNCHANGED <<server, clientVars>>
  PROVE  SessionInv' /\ (BuffersFit /\ RoomInv => RoomInv')
<1>1. ConnectionOK(a) /\ thread[a] = "recv" /\ fd[a] = a
  BY DEF SessionInv, Close, ConnectionOK, ThreadOK
<1>2. /\ thread'[a] = "closed" /\ downEnd'[a] = TRUE
      /\ \A b \in Addresses \ {a} : thread'[b] = thread[b] /\ downEnd'[b] = downEnd[b]
  BY <1>1 DEF Close, Goes, SessionInv, Typed, ThreadTyped, LinkTyped
<1>3. /\ UNCHANGED <<fd, wset, bytes, sent, line_number, up, down, reset, stdout>>
      /\ UNCHANGED <<service, gone, main>>
  BY DEF Close, local, clientVars
<1>4. WaitingOnce' /\ ~Waiting(a) /\ \A b \in Addresses : Waiting(b)' <=> Waiting(b)
  BY <1>1, <1>2, <1>3, WaitsNoLonger
<1>5. \A b \in Addresses \ {a} : SameAt(b)
  BY <1>2, <1>3, <1>4 DEF SameAt
<1>6. ThreadOK(a)'
  BY <1>1, <1>2, <1>3 DEF ConnectionOK, ThreadOK, HasThreads
<1>7. LinkOK(a)'
  BY <1>1, <1>2, <1>3, <1>4 DEF ConnectionOK, LinkOK, IsServed, Unused, HasThreads, clientVars
<1>8. ToSend(a)' = ToSend(a) /\ Budget(a)' = Budget(a)
  BY DEF ToSend, Budget, clientVars
<1>9. StreamOK(a)'
  BY <1>1, <1>3, <1>8 DEF ConnectionOK, StreamOK, clientVars
<1>10. RoomOK(a) => RoomOK(a)'
  BY <1>1, <1>2, <1>3, <1>8 DEF RoomOK, InHand
<1>11. ThreadTyped' /\ LinkTyped'
  BY <1>1 DEF Close, Goes, SessionInv, Typed, ThreadTyped, LinkTyped, local
<1>12. down[a] <= down'[a]
  BY <1>3 DEF SessionInv, Typed, LinkTyped
<1>13. downEnd[a] => downEnd'[a]
  BY <1>2
<1>. QED  BY <1>3, <1>4, <1>5, <1>6, <1>7, <1>9, <1>10, <1>11, <1>12, <1>13, ServerStepKeeps DEF ConnectionOK

(* Only a client that was interrupted resets a connection somebody reads from
   or writes to. *)
LEMMA WrapperExitsKeeps ==
  ASSUME SessionInv, NEW a \in Addresses, WrapperExits(a), UNCHANGED clientVars
  PROVE  SessionInv' /\ (BuffersFit /\ RoomInv => RoomInv')
<1>1. ConnectionOK(a) /\ reset[a] /\ fd[a] = a
  BY DEF SessionInv, WrapperExits, ConnectionOK, ThreadOK
<1>2. pc = "exited"
  BY <1>1 DEF ConnectionOK, LinkOK, SessionInv, Typed, ClientTyped
<1>3. \A b \in Addresses : Waiting(b)' <=> Waiting(b)
  BY DEF WrapperExits, Waiting, Queued, main
<1>4. \A b \in Addresses : SameAt(b)
  BY <1>3 DEF SameAt, WrapperExits, local, ends, clientVars
<1>5. UNCHANGED <<service, gone, main, thread>>
  BY DEF WrapperExits, ends
<1>6. WaitingOnce'
  BY <1>5, SameWaiting
<1>7. (\A b \in Addresses : ConnectionOK(b)') /\ (RoomInv => RoomInv')
  BY <1>4, <1>5, SameConnection DEF RoomInv
<1>8. Typed'
  BY DEF WrapperExits, SessionInv, Typed, ClientTyped, ThreadTyped, LinkTyped, local, ends, clientVars
<1>9. ClientOK'
  BY DEF WrapperExits, SessionInv, ClientOK, ends, clientVars
<1>10. ServerSurvives'
  BY <1>2 DEF ServerSurvives, clientVars
<1>. QED  BY <1>6, <1>7, <1>8, <1>9, <1>10 DEF SessionInv

-----------------------------------------------------------------------------
(***************************************************************************)
(* The steps of the client.                                                *)
(***************************************************************************)

(* What they leave alone. *)
LEMMA ClientLeaves ==
  ASSUME SessionInv, UNCHANGED <<service, server, main, thread, local>>
  PROVE  /\ WaitingOnce' /\ ThreadTyped'
         /\ \A b \in Addresses : (Waiting(b)' <=> Waiting(b)) /\ (IsServed(b)' <=> IsServed(b))
<1>1. WaitingOnce' /\ \A b \in Addresses : Waiting(b)' <=> Waiting(b)
  BY SameWaiting
<1>2. ThreadTyped'
  BY DEF SessionInv, Typed, ThreadTyped, local
<1>. QED  BY <1>1, <1>2 DEF IsServed, HasThreads

LEMMA ThreadIsLeft ==
  ASSUME SessionInv, UNCHANGED <<service, thread, local>>, NEW b \in Addresses,
         up'[b] <= UpSize, down'[b] <= DownSize, thread[b] = "none" => down'[b] = 0,
         downEnd'[b] => downEnd[b]
  PROVE  ThreadOK(b)'
BY DEF SessionInv, ConnectionOK, ThreadOK, HasThreads, local

LEMMA ConnectKeeps ==
  ASSUME SessionInv, Connect
  PROVE  SessionInv' /\ (BuffersFit /\ RoomInv => RoomInv')
<1>1. PICK f : f = First(to)
  OBVIOUS
<1>2. /\ pc = "connect" /\ typed = 0 /\ to # {} /\ to \subseteq Addresses /\ fdset = {} /\ ~gone
      /\ sockets \subseteq Addresses
  BY DEF Connect, SessionInv, ClientOK, Typed, ClientTyped
<1>3. f \in to /\ f \in Addresses
  BY <1>1, <1>2, FirstIn
<1>4. /\ backlog' = Append(backlog, f) /\ sockets' = sockets \cup {f} /\ to' = to \ {f}
      /\ pc' = IF to' = {} THEN "select" ELSE "connect"
  BY <1>1 DEF Connect
<1>5. /\ UNCHANGED <<program, refused, fdset, stdin_open, message, rest, typed, stdout>>
      /\ UNCHANGED <<service, server, client_fd, thread, local, up, down, ends>>
  BY DEF Connect
<1>6. Unused(f) /\ ConnectionOK(f)
  BY <1>2, <1>3 DEF SessionInv, ConnectionOK, LinkOK
<1>7. \A b \in Addresses : Queued(b)' <=> Queued(b) \/ b = f
  <2>1. PICK L \in Nat : L = Len(backlog)
    BY DEF SessionInv, WaitingOnce
  <2>2. /\ Len(backlog') = L + 1 /\ backlog'[L + 1] = f /\ \A i \in 1 .. L : backlog'[i] = backlog[i]
    BY <1>3, <1>4, <2>1, AppendProperties DEF SessionInv, WaitingOnce
  <2>3. 1 .. L + 1 = (1 .. L) \cup {L + 1}
    OBVIOUS
  <2>. QED  BY <2>1, <2>2, <2>3 DEF Queued
<1>8. \A b \in Addresses : Waiting(b)' <=> Waiting(b) \/ b = f
  BY <1>5, <1>7 DEF Waiting
<1>9. WaitingOnce'
  <2>1. PICK L \in Nat : L = Len(backlog)
    BY DEF SessionInv, WaitingOnce
  <2>2. /\ backlog' \in Seq(Addresses)
        /\ Len(backlog') = L + 1 /\ backlog'[L + 1] = f /\ \A i \in 1 .. L : backlog'[i] = backlog[i]
    BY <1>3, <1>4, <2>1, AppendProperties DEF SessionInv, WaitingOnce
  <2>3. \A i \in 1 .. L : backlog[i] # f
    BY <1>6, <2>1 DEF Unused, Waiting, Queued
  <2>4. \A i \in 1 .. L + 1 : i \in 1 .. L \/ i = L + 1
    OBVIOUS
  <2>5. \A i, j \in 1 .. L + 1 : backlog'[i] = backlog'[j] => i = j
    BY <2>1, <2>2, <2>3, <2>4 DEF SessionInv, WaitingOnce
  <2>6. client_fd # NONE => HasThreads' /\ ~Queued(client_fd)'
    BY <1>5, <1>6, <1>7 DEF SessionInv, WaitingOnce, Unused, Waiting, HasThreads
  <2>7. \A b \in Addresses : Waiting(b)' => thread'[b] = "none"
    BY <1>5, <1>6, <1>8 DEF SessionInv, WaitingOnce, Unused
  <2>. QED  BY <1>5, <2>2, <2>5, <2>6, <2>7 DEF SessionInv, WaitingOnce
<1>10. Typed'
  <2>1. ClientTyped'
    BY <1>2, <1>3, <1>4, <1>5 DEF SessionInv, Typed, ClientTyped, ends
  <2>2. ThreadTyped' /\ LinkTyped'
    BY <1>5 DEF SessionInv, Typed, ThreadTyped, LinkTyped, local, ends
  <2>. QED  BY <2>1, <2>2 DEF Typed
<1>11. ClientOK'
  <2>1. program = "tcp_client" => f \in {First(Addresses)}
    BY <1>3 DEF SessionInv, ClientOK
  <2>. QED  BY <1>2, <1>4, <1>5, <2>1 DEF SessionInv, ClientOK, Typed, ClientTyped
<1>12. \A b \in Addresses : ThreadOK(b)'
  BY <1>5 DEF SessionInv, ConnectionOK, ThreadOK, HasThreads, local, ends
<1>13. \A b \in Addresses : LinkOK(b)'
  <2>. SUFFICES ASSUME NEW b \in Addresses PROVE LinkOK(b)'
    OBVIOUS
  <2>1. LinkOK(b)
    BY DEF SessionInv, ConnectionOK
  <2>2. IsServed(b)' <=> IsServed(b) \/ b = f
    BY <1>5, <1>8 DEF IsServed, HasThreads
  <2>3. b # f /\ Unused(b) => Unused(b)'
    BY <1>4, <1>5, <1>8 DEF Unused
  <2>. QED  BY <1>2, <1>4, <1>5, <1>6, <2>1, <2>2, <2>3 DEF LinkOK, ends
<1>14. \A b : ToSend(b) = 0 /\ ToSend(b)' = 0 /\ Budget(b)' = Budget(b)
  BY <1>2, <1>4, <1>5 DEF ToSend, Budget
<1>15. \A b \in Addresses : StreamOK(b)'
  <2>. SUFFICES ASSUME NEW b \in Addresses PROVE StreamOK(b)'
    OBVIOUS
  <2>1. CASE b = f
    <3>1. /\ bytes[f] = 0 /\ sent[f] = 0 /\ line_number[f] = 0 /\ down[f] = 0 /\ up[f] = 0 /\ stdout[f] = 0
      BY <1>6 DEF Unused, ConnectionOK, ThreadOK
    <3>2. LINE_LENGTH * line_number[f] = 0
      BY <3>1, Sizes
    <3>. QED  BY <1>2, <1>5, <1>14, <2>1, <3>1, <3>2 DEF StreamOK, local
  <2>2. CASE b # f
    BY <1>2, <1>4, <1>5, <1>14, <2>2 DEF SessionInv, ConnectionOK, StreamOK, local, ends
  <2>. QED  BY <2>1, <2>2
<1>16. RoomInv => RoomInv'
  BY <1>5, <1>14 DEF RoomInv, RoomOK, InHand, Unsent, local, ends
<1>17. ServerSurvives'
  BY <1>2, <1>5 DEF SessionInv, ServerSurvives
<1>. QED  BY <1>9, <1>10, <1>11, <1>12, <1>13, <1>15, <1>16, <1>17 DEF SessionInv, ConnectionOK

(* What the kernel closes for a process that ends. *)
LEMMA EndKeeps ==
  ASSUME SessionInv, NEW place \in {"done", "exited"}, ProcessEnds(place),
         place = "done" => sockets = {} /\ ~gone, server = "exited" => place = "exited"
  PROVE  SessionInv' /\ RoomInv'
<1>1. /\ pc' = place /\ gone' = TRUE /\ down' = [a \in Addresses |-> 0]
      /\ reset' = [a \in Addresses |-> down[a] > 0]
      /\ fdset' = {} /\ to' = {} /\ message' = 0 /\ rest' = 0
      /\ UNCHANGED <<program, refused, sockets, stdin_open, typed, stdout>>
      /\ UNCHANGED <<service, server, main, thread, local, up, downEnd>>
  BY DEF ProcessEnds, Of
<1>2. WaitingOnce' /\ ThreadTyped' /\ \A b \in Addresses : IsServed(b)' <=> IsServed(b)
  BY <1>1, ClientLeaves
<1>3. ClientTyped'
  BY <1>1 DEF SessionInv, Typed, ClientTyped
<1>4. LinkTyped'
  BY <1>1 DEF ProcessEnds, SessionInv, Typed, LinkTyped
<1>5. ClientOK'
  BY <1>1 DEF SessionInv, ClientOK
<1>6. ASSUME NEW b \in Addresses
      PROVE  ConnectionOK(b)' /\ RoomOK(b)'
  <2>1. ConnectionOK(b) /\ up[b] <= UpSize
    BY DEF SessionInv, ConnectionOK, ThreadOK
  <2>2. ThreadOK(b)'
    BY <1>1, <2>1, ThreadIsLeft, Sizes
  <2>3. place = "done" => ~(down[b] > 0) /\ ~IsServed(b)
    BY <2>1 DEF ConnectionOK, LinkOK
  <2>4. LinkOK(b)'
    BY <1>1, <1>2, <2>3 DEF LinkOK
  <2>. QED  BY <1>1, <2>2, <2>4 DEF ConnectionOK, StreamOK, RoomOK
<1>7. ServerSurvives'
  BY <1>1 DEF ServerSurvives
<1>. QED  BY <1>2, <1>3, <1>4, <1>5, <1>6, <1>7 DEF SessionInv, Typed, RoomInv

LEMMA EndsKeep ==
  ASSUME SessionInv, ConnectFails \/ Interrupt \/ Ends
  PROVE  SessionInv' /\ RoomInv'
<1>1. CASE ConnectFails \/ Interrupt
  BY <1>1, EndKeeps DEF ConnectFails, Interrupt
<1>2. CASE Ends
  <2>1. pc = "select" /\ sockets = {} /\ ~gone /\ server # "exited"
    BY <1>2 DEF Ends, SessionInv, Typed, ClientTyped, ServerSurvives
  <2>. QED  BY <1>2, <2>1, EndKeeps DEF Ends
<1>. QED  BY <1>1, <1>2

(* What is to be shown of a step that calls nothing but select() and read(). *)
LEMMA LoopStepKeeps ==
  ASSUME SessionInv, UNCHANGED <<program, sockets, stdout>>,
         UNCHANGED <<service, server, main, thread, local, up, down, downEnd, gone, reset>>,
         upEnd' \in [Addresses -> BOOLEAN],
         pc \notin {"connect", "done", "exited"}, pc' \notin {"connect", "done", "exited"},
         ClientTyped', ClientOK',
         \A b \in sockets : service = "echo" => typed' - ToSend(b)' = typed - ToSend(b),
         \A b \in Addresses : /\ ToSend(b)' \in Nat /\ Budget(b)' \in Nat
                              /\ \/ Budget(b)' <= Budget(b)
                                 \/ BuffersFit => down[b] + InHand(b) <= DownSize
  PROVE  SessionInv' /\ (BuffersFit /\ RoomInv => RoomInv')
<1>0. ~gone
  BY DEF SessionInv, Typed, ClientTyped
<1>1. WaitingOnce' /\ ThreadTyped' /\ \A b \in Addresses : IsServed(b)' <=> IsServed(b)
  BY ClientLeaves
<1>2. LinkTyped'
  BY DEF SessionInv, Typed, LinkTyped
<1>3. ASSUME NEW b \in Addresses
      PROVE  ConnectionOK(b)' /\ (BuffersFit /\ RoomOK(b) => RoomOK(b)')
  <2>1. ConnectionOK(b)
    BY DEF SessionInv
  <2>2. /\ up[b] \in Nat /\ down[b] \in Nat /\ bytes[b] \in Nat /\ sent[b] \in Nat /\ stdout[b] \in Nat
        /\ typed \in Nat /\ typed' \in Nat /\ ToSend(b) \in Nat /\ Budget(b) \in Nat
    BY BudgetIs DEF SessionInv, Typed, ClientTyped, ThreadTyped, LinkTyped
  <2>3. ThreadOK(b)'
    BY <2>1, ThreadIsLeft DEF ConnectionOK, ThreadOK
  <2>4. LinkOK(b)'
    BY <1>0, <1>1, <2>1 DEF ConnectionOK, LinkOK
  <2>5. StreamOK(b)'
    <3>. SUFFICES ASSUME b \in sockets PROVE StreamOK(b)'
      BY DEF StreamOK
    <3>0. PICK t \in Nat, u \in Nat : t = ToSend(b) /\ u = ToSend(b)'
      BY <2>2
    <3>1. service = "echo" =>
            typed' = ToSend(b)' + up[b] + (bytes[b] - sent[b]) + down[b] + stdout[b]
      <4>1. service = "echo" =>
              typed = t + up[b] + (bytes[b] - sent[b]) + down[b] + stdout[b]
        BY <1>0, <2>1, <3>0 DEF ConnectionOK, StreamOK
      <4>2. service = "echo" => typed' - u = typed - t
        BY <3>0
      <4>3. service = "echo" =>
              typed' = u + up[b] + (bytes[b] - sent[b]) + down[b] + stdout[b]
        BY <2>2, <3>0, <4>1, <4>2
      <4>. QED  BY <3>0, <4>3
    <3>. QED  BY <1>0, <2>1, <3>1 DEF ConnectionOK, StreamOK, local
  <2>6. BuffersFit /\ RoomOK(b) => RoomOK(b)'
    <3>1. InHand(b)' = InHand(b) /\ Unsent(b)' = Unsent(b)
      BY DEF InHand, Unsent, local
    <3>2. InHand(b) \in Int
      BY <2>2 DEF InHand, Unsent
    <3>3. up[b] + Budget(b) <= UpSize /\ Budget(b)' <= Budget(b) => up[b] + Budget(b)' <= UpSize
      BY <2>2, Sizes
    <3>. QED  BY <1>0, <2>2, <3>1, <3>2, <3>3, Sizes DEF RoomOK, local
  <2>. QED  BY <2>3, <2>4, <2>5, <2>6 DEF ConnectionOK
<1>4. ServerSurvives'
  BY <1>0 DEF SessionInv, Typed, ClientTyped, ServerSurvives
<1>. QED  BY <1>1, <1>2, <1>3, <1>4 DEF SessionInv, Typed, RoomInv

(* A thread that has nothing to take back finds room for all that it holds. *)
LEMMA EmptyHasRoom ==
  ASSUME SessionInv, NEW b \in Addresses, down[b] = 0, BuffersFit
  PROVE  down[b] + InHand(b) <= DownSize
<1>1. bytes[b] \in Nat /\ sent[b] \in Nat
  BY DEF SessionInv, Typed, ThreadTyped
<1>2. thread[b] = "send" => bytes[b] <= BUFFER_SIZE \/ bytes[b] = LINE_LENGTH
  BY DEF SessionInv, ConnectionOK, ThreadOK, HasThreads, Typed, LinkTyped
<1>. QED  BY <1>1, <1>2, Sizes DEF InHand, Unsent, BuffersFit

\* What select() has not marked is empty.
LEMMA SelectKeeps ==
  ASSUME SessionInv, NEW typing \in {{}, {STDIN}}, SelectWith(typing)
  PROVE  SessionInv' /\ (BuffersFit /\ RoomInv => RoomInv')
<1>1. /\ pc = "select" /\ sockets # {} /\ fdset' = Ready \cup typing
      /\ pc' = IF program = "tcp_client" THEN "recv" ELSE "read"
      /\ UNCHANGED <<program, refused, sockets, stdin_open, to, message, rest, typed, stdout, serverVars>>
  BY DEF SelectWith, AfterSelect
<1>2. ~gone /\ sockets \subseteq Addresses /\ MESSAGE_SIZE \in Nat
  BY <1>1, Sizes DEF SessionInv, Typed, ClientTyped
<1>3. UNCHANGED <<gone, down, downEnd>>
  BY <1>1 DEF serverVars, ends
<1>4. ClientTyped'
  BY <1>1, <1>2, <1>3 DEF Ready, SessionInv, Typed, ClientTyped
<1>5. \A b \in fdset' \ {STDIN} : b \in sockets' /\ (down'[b] > 0 \/ downEnd'[b])
  BY <1>1, <1>3 DEF Ready
<1>6. ClientOK'
  BY <1>1, <1>5 DEF SessionInv, ClientOK, Typed, ClientTyped
<1>7. \A b : ToSend(b) = 0 /\ ToSend(b)' = 0
  BY <1>1 DEF ToSend
<1>8. ASSUME NEW b \in Addresses
      PROVE  /\ Budget(b)' \in Nat
             /\ \/ Budget(b)' <= Budget(b)
                \/ BuffersFit => down[b] + InHand(b) <= DownSize
  <2>1. Budget(b)' \in Nat
    BY <1>1, <1>2 DEF Budget
  <2>2. CASE b \in fdset'
    BY <1>1, <1>2, <2>2 DEF Budget
  <2>3. CASE b \notin fdset'
    <3>1. down[b] \in Nat
      BY DEF SessionInv, Typed, LinkTyped
    <3>2. down[b] = 0
      BY <1>1, <1>2, <2>3, <3>1 DEF Ready, SessionInv, ConnectionOK, LinkOK
    <3>. QED  BY <2>1, <3>2, EmptyHasRoom
  <2>. QED  BY <2>1, <2>2, <2>3
<1>9. typed' - 0 = typed - 0
  BY <1>1
<1>. QED  BY <1>1, <1>4, <1>6, <1>7, <1>8, <1>9, LoopStepKeeps DEF serverVars, ends, SessionInv, Typed, LinkTyped

(* What is read is to be sent to each connection. *)
LEMMA ReadStdinKeeps ==
  ASSUME SessionInv, NEW n \in MessageLengths, ReadStdin(n)
  PROVE  SessionInv' /\ (BuffersFit /\ RoomInv => RoomInv')
<1>1. /\ pc = "read" /\ pc' = "send" /\ message' = n /\ rest' = n /\ fdset' = fdset \ {STDIN}
      /\ typed' = (IF service = "echo" THEN typed + n ELSE typed)
      /\ to' = (IF program = "tcp_client" THEN {First(Addresses)} ELSE sockets)
      /\ UNCHANGED <<program, refused, sockets, stdin_open, stdout, serverVars>>
  BY DEF ReadStdin
<1>2. n \in Nat /\ 1 <= n /\ n <= MESSAGE_SIZE /\ MESSAGE_SIZE \in Nat
  BY Sizes DEF MessageLengths
<1>3. /\ program \in {"tcp_client", "with_dns"} /\ sockets \subseteq Addresses /\ typed \in Nat
      /\ fdset \subseteq Addresses \cup {STDIN}
      /\ program = "tcp_client" => sockets \subseteq {First(Addresses)} /\ fdset \subseteq {STDIN}
      /\ program = "with_dns" => sockets # {}
  BY <1>1 DEF SessionInv, Typed, ClientTyped, ClientOK
<1>4. First(Addresses) \in Addresses
  BY FirstIn, ServerAssumption
<1>5. to' \subseteq Addresses /\ to' # {} /\ sockets \subseteq to'
  BY <1>1, <1>3, <1>4
<1>6. UNCHANGED <<gone, service, down, downEnd>>
  BY <1>1 DEF serverVars, ends
<1>7. ClientTyped'
  BY <1>1, <1>2, <1>3, <1>5, <1>6 DEF SessionInv, Typed, ClientTyped
<1>8. ClientOK'
  BY <1>1, <1>2, <1>3, <1>5, <1>6 DEF SessionInv, ClientOK
<1>9. \A b \in Addresses : ToSend(b) = 0 /\ ToSend(b)' \in {0, n} /\ (b \in to' => ToSend(b)' = n)
  BY <1>1 DEF ToSend
<1>10. \A b \in Addresses : Budget(b)' \in Nat /\ Budget(b)' <= Budget(b)
  <2>. SUFFICES ASSUME NEW b \in Addresses PROVE Budget(b)' \in Nat /\ Budget(b)' <= Budget(b)
    OBVIOUS
  <2>1. ToSend(b)' \in Nat /\ ToSend(b)' <= MESSAGE_SIZE
    BY <1>2, <1>9
  <2>2. b \in fdset' <=> b \in fdset
    BY <1>1, StdinIsNoAddress
  <2>. QED  BY <1>1, <1>2, <2>1, <2>2 DEF Budget
<1>11. \A b \in sockets : service = "echo" => typed' - ToSend(b)' = typed - ToSend(b)
  BY <1>1, <1>2, <1>3, <1>5, <1>9
<1>12. \A b \in Addresses : ToSend(b)' \in Nat
  BY <1>2, <1>9
<1>. QED  BY <1>1, <1>7, <1>8, <1>10, <1>11, <1>12, LoopStepKeeps DEF serverVars, ends, SessionInv, Typed, LinkTyped

LEMMA NoReadKeeps ==
  ASSUME SessionInv, NoRead
  PROVE  SessionInv' /\ (BuffersFit /\ RoomInv => RoomInv')
<1>1. /\ pc = "read" /\ STDIN \notin fdset
      /\ pc' = IF program = "tcp_client" THEN "select" ELSE "recv"
      /\ UNCHANGED <<program, refused, sockets, fdset, stdin_open, to, message, rest, typed, stdout, serverVars>>
  BY DEF NoRead, AfterRead
<1>2. UNCHANGED <<gone, down, downEnd>>
  BY <1>1 DEF serverVars, ends
<1>3. ClientTyped'
  BY <1>1, <1>2 DEF SessionInv, Typed, ClientTyped
<1>4. ClientOK'
  BY <1>1, <1>2 DEF SessionInv, ClientOK
<1>5. \A b : ToSend(b) = 0 /\ ToSend(b)' = 0
  BY <1>1 DEF ToSend
<1>6. \A b \in Addresses : Budget(b)' \in Nat /\ Budget(b)' <= Budget(b)
  BY <1>1, Sizes DEF Budget
<1>. QED  BY <1>1, <1>3, <1>4, <1>5, <1>6, LoopStepKeeps DEF serverVars, ends, SessionInv, Typed, LinkTyped

LEMMA NoRecvKeeps ==
  ASSUME SessionInv, NoRecv
  PROVE  SessionInv' /\ (BuffersFit /\ RoomInv => RoomInv')
<1>1. /\ pc = "recv" /\ fdset \ {STDIN} = {}
      /\ pc' = IF program = "tcp_client" THEN "read" ELSE "select"
      /\ UNCHANGED <<program, refused, sockets, fdset, stdin_open, to, message, rest, typed, stdout, serverVars>>
  BY DEF NoRecv, AfterRecv
<1>2. UNCHANGED <<gone, down, downEnd>>
  BY <1>1 DEF serverVars, ends
<1>3. ClientTyped'
  BY <1>1, <1>2 DEF SessionInv, Typed, ClientTyped
<1>4. ClientOK'
  BY <1>1, <1>2 DEF SessionInv, ClientOK
<1>5. \A b : ToSend(b) = 0 /\ ToSend(b)' = 0
  BY <1>1 DEF ToSend
<1>6. \A b \in Addresses : b \notin fdset
  BY <1>1, StdinIsNoAddress
<1>7. \A b \in Addresses : Budget(b)' \in Nat /\ Budget(b)' <= Budget(b)
  BY <1>1, <1>6, Sizes DEF Budget
<1>. QED  BY <1>1, <1>3, <1>4, <1>5, <1>7, LoopStepKeeps DEF serverVars, ends, SessionInv, Typed, LinkTyped

(* shutdown() of the sending side changes nothing that has been sent. *)
LEMMA ShutdownKeeps ==
  ASSUME SessionInv, ShutdownAll
  PROVE  SessionInv' /\ (BuffersFit /\ RoomInv => RoomInv')
<1>1. /\ pc = "read" /\ fdset' = fdset \ {STDIN} /\ pc' \in {"recv", "select", "drain"}
      /\ program = "tcp_client" => pc' \in {"select", "drain"}
      /\ program = "with_dns" => pc' = "recv"
      /\ UNCHANGED <<program, refused, sockets, to, message, rest, typed, stdout>>
      /\ UNCHANGED <<service, server, main, thread, local, up, down, downEnd, gone, reset>>
  BY DEF ShutdownAll, AfterShutdown
<1>2. upEnd' \in [Addresses -> BOOLEAN]
  BY DEF ShutdownAll, Shut, SessionInv, Typed, LinkTyped
<1>3. ClientTyped'
  BY <1>1 DEF SessionInv, Typed, ClientTyped
<1>4. ClientOK'
  BY <1>1 DEF SessionInv, ClientOK
<1>5. \A b : ToSend(b) = 0 /\ ToSend(b)' = 0
  BY <1>1 DEF ToSend
<1>6. \A b \in Addresses : Budget(b)' \in Nat /\ Budget(b)' <= Budget(b)
  <2>. SUFFICES ASSUME NEW b \in Addresses PROVE Budget(b)' \in Nat /\ Budget(b)' <= Budget(b)
    OBVIOUS
  <2>1. b \in fdset' <=> b \in fdset
    BY <1>1, StdinIsNoAddress
  <2>2. program \in {"tcp_client", "with_dns"}
    BY DEF SessionInv, Typed, ClientTyped
  <2>. QED  BY <1>1, <2>1, <2>2, Sizes DEF Budget
<1>. QED  BY <1>1, <1>2, <1>3, <1>4, <1>5, <1>6, LoopStepKeeps

(* What is sent is no longer to be sent. *)
LEMMA SendMessageKeeps ==
  ASSUME SessionInv, SendMessage
  PROVE  SessionInv' /\ (BuffersFit /\ RoomInv => RoomInv')
<1>1. PICK f : f = First(to)
  OBVIOUS
<1>2. /\ pc = "send" /\ to # {} /\ to \subseteq Addresses /\ ~gone /\ program \in {"tcp_client", "with_dns"}
      /\ rest \in Nat /\ message \in Nat /\ 1 <= rest /\ rest <= message /\ message <= MESSAGE_SIZE
      /\ program = "tcp_client" => to \subseteq {First(Addresses)}
      /\ MESSAGE_SIZE \in Nat /\ typed \in Nat
  BY Sizes DEF SendMessage, SessionInv, ClientOK, Typed, ClientTyped
<1>3. f \in to /\ f \in Addresses
  BY <1>1, <1>2, FirstIn
<1>4. up \in [Addresses -> Nat] /\ up[f] \in Nat /\ up[f] < UpSize
  BY <1>1, <1>3 DEF SendMessage, SessionInv, Typed, LinkTyped
<1>5. PICK n \in 1 .. Least(rest, UpSize - up[f]) :
       /\ up' = [up EXCEPT ![f] = @ + n]
       /\ to' = IF n < rest THEN to ELSE to \ {f}
       /\ rest' = IF n < rest THEN rest - n ELSE IF to' = {} THEN 0 ELSE message
       /\ message' = IF to' = {} THEN 0 ELSE message
       /\ pc' = IF to' = {} THEN AfterRead ELSE "send"
  BY <1>1 DEF SendMessage
<1>6. n \in Nat \ {0} /\ n <= rest /\ up[f] + n <= UpSize
  <2>1. PICK k \in Nat : k = UpSize - up[f]
    BY <1>4, Sizes
  <2>2. Least(rest, k) \in Nat /\ Least(rest, k) <= rest /\ Least(rest, k) <= k
    BY <1>2, <2>1, LeastIs
  <2>3. n \in 1 .. Least(rest, k)
    BY <1>5, <2>1
  <2>. QED  BY <1>2, <1>4, <2>1, <2>2, <2>3, Sizes
<1>7. /\ UNCHANGED <<program, refused, sockets, fdset, stdin_open, typed, stdout>>
      /\ UNCHANGED <<service, server, main, thread, local, down, ends>>
  BY DEF SendMessage
<1>8. up'[f] = up[f] + n /\ (\A b \in Addresses \ {f} : up'[b] = up[b]) /\ up' \in [Addresses -> Nat]
  BY <1>3, <1>4, <1>5, <1>6
<1>9. /\ to' \subseteq to /\ (to' = {} => n = rest)
      /\ n < rest => to' = to /\ rest' = rest - n /\ message' = message
      /\ n = rest => to' = to \ {f}
      /\ to' # {} => pc' = "send" /\ message' = message
      /\ n = rest /\ to' # {} => rest' = message
      /\ to' = {} => rest' = 0 /\ message' = 0 /\ pc' = (IF program = "tcp_client" THEN "select" ELSE "recv")
  BY <1>2, <1>3, <1>5, <1>6 DEF AfterRead
<1>10. ToSend(f) = rest /\ ToSend(f)' = rest - n
  <2>1. CASE n < rest
    BY <1>1, <1>2, <1>3, <1>9, <2>1 DEF ToSend
  <2>2. CASE n = rest
    BY <1>1, <1>2, <1>3, <1>9, <2>2 DEF ToSend
  <2>. QED  BY <1>2, <1>6, <2>1, <2>2
<1>11. \A b \in Addresses \ {f} : ToSend(b)' = ToSend(b)
  <2>. SUFFICES ASSUME NEW b \in Addresses \ {f} PROVE ToSend(b)' = ToSend(b)
    OBVIOUS
  <2>1. ToSend(b) = IF b \in to THEN message ELSE 0
    BY <1>1, <1>2 DEF ToSend
  <2>2. CASE n < rest
    BY <1>1, <1>9, <1>3, <2>1, <2>2 DEF ToSend
  <2>3. CASE n = rest /\ to' = {}
    <3>1. b \notin to
      BY <1>9, <2>3
    <3>2. pc' # "send"
      BY <1>9, <2>3
    <3>. QED  BY <2>1, <3>1, <3>2 DEF ToSend
  <2>4. CASE n = rest /\ to' # {}
    BY <1>9, <2>1, <2>4 DEF ToSend
  <2>. QED  BY <1>2, <1>6, <2>2, <2>3, <2>4
<1>12. WaitingOnce' /\ ThreadTyped' /\ \A b \in Addresses : IsServed(b)' <=> IsServed(b)
  BY <1>7, ClientLeaves
<1>13. ClientTyped'
  <2>1. rest' \in Nat /\ message' \in Nat /\ to' \subseteq Addresses
    BY <1>2, <1>6, <1>9
  <2>2. pc' \in {"send", "select", "recv"}
    BY <1>9
  <2>. QED  BY <1>2, <1>7, <2>1, <2>2 DEF SessionInv, Typed, ClientTyped, ends
<1>14. ClientOK'
  <2>1. pc' = "send" => to' # {} /\ 1 <= rest' /\ rest' <= message' /\ message' <= MESSAGE_SIZE
    BY <1>2, <1>6, <1>9
  <2>2. pc' \in {"send", "select", "recv"} /\ (program = "with_dns" => pc' # "drain")
    BY <1>9
  <2>3. program = "tcp_client" => sockets \subseteq {First(Addresses)} /\ to' \subseteq {First(Addresses)}
                                  /\ fdset \subseteq {STDIN}
    BY <1>2, <1>9 DEF SessionInv, ClientOK
  <2>. QED  BY <1>7, <2>1, <2>2, <2>3 DEF SessionInv, ClientOK, ends
<1>15. LinkTyped'
  BY <1>7, <1>8 DEF SessionInv, Typed, LinkTyped, ends
<1>16. ASSUME NEW b \in Addresses
       PROVE  ConnectionOK(b)' /\ (RoomOK(b) => RoomOK(b)')
  <2>1. ConnectionOK(b)
    BY DEF SessionInv
  <2>2. /\ up[b] \in Nat /\ down[b] \in Nat /\ bytes[b] \in Nat /\ sent[b] \in Nat /\ stdout[b] \in Nat
    BY DEF SessionInv, Typed, ClientTyped, ThreadTyped, LinkTyped
  <2>3. PICK t \in Nat, u \in Nat : t = ToSend(b) /\ u = ToSend(b)'
    BY <1>2, <1>6, <1>10, <1>11, BudgetIs
  <2>4. up'[b] \in Nat /\ up'[b] + u = up[b] + t /\ up'[b] <= UpSize
    <3>1. CASE b = f
      BY <1>2, <1>4, <1>6, <1>8, <1>10, <2>3, <3>1, Sizes
    <3>2. CASE b # f
      BY <1>8, <1>11, <2>1, <2>2, <2>3, <3>2 DEF ConnectionOK, ThreadOK
    <3>. QED  BY <3>1, <3>2
  <2>5. ThreadOK(b)'
    BY <1>7, <2>1, <2>4, ThreadIsLeft DEF ConnectionOK, ThreadOK, ends
  <2>6. pc' \notin {"connect", "done"}
    BY <1>9
  <2>7. LinkOK(b)'
    BY <1>7, <1>12, <2>1, <2>6 DEF ConnectionOK, LinkOK, ends
  <2>8. StreamOK(b)'
    <3>1. ~gone /\ b \in sockets /\ service = "echo" =>
            typed = t + up[b] + (bytes[b] - sent[b]) + down[b] + stdout[b]
      BY <2>1, <2>3 DEF ConnectionOK, StreamOK
    <3>2. ~gone /\ b \in sockets /\ service = "echo" =>
            typed = u + up'[b] + (bytes[b] - sent[b]) + down[b] + stdout[b]
      BY <1>2, <2>2, <2>3, <2>4, <3>1
    <3>. QED  BY <1>7, <2>1, <2>3, <3>2 DEF ConnectionOK, StreamOK, local, ends
  <2>9. \E m \in Nat : Budget(b) = t + m /\ Budget(b)' = u + m
    <3>1. CASE program = "tcp_client"
      <4>1. Budget(b) = t + 0
        BY <1>2, <2>3, <3>1 DEF Budget
      <4>2. to' = {} => u = 0
        BY <1>9, <2>3 DEF ToSend
      <4>3. Budget(b)' = u + 0
        BY <1>7, <1>9, <2>3, <3>1, <4>2 DEF Budget
      <4>. QED  BY <4>1, <4>3
    <3>2. CASE program = "with_dns"
      <4>1. PICK m \in Nat : m = IF b \in fdset THEN 0 ELSE MESSAGE_SIZE
        BY <1>2
      <4>2. Budget(b) = t + m
        BY <1>2, <2>3, <3>2, <4>1 DEF Budget
      <4>3. to' = {} => u = 0
        BY <1>9, <2>3, <3>2 DEF ToSend
      <4>4. Budget(b)' = u + m
        BY <1>2, <1>7, <1>9, <2>3, <3>2, <4>1, <4>3 DEF Budget
      <4>. QED  BY <4>2, <4>4
    <3>. QED  BY <1>2, <3>1, <3>2
  <2>10. up'[b] + Budget(b)' = up[b] + Budget(b)
    BY <2>2, <2>3, <2>4, <2>9
  <2>11. InHand(b)' = InHand(b) /\ Unsent(b)' = Unsent(b)
    BY <1>7 DEF InHand, Unsent, local
  <2>12. RoomOK(b) => RoomOK(b)'
    BY <1>7, <2>10, <2>11 DEF RoomOK, local, ends
  <2>. QED  BY <2>5, <2>7, <2>8, <2>12 DEF ConnectionOK
<1>17. ServerSurvives'
  BY <1>2, <1>7 DEF SessionInv, ServerSurvives
<1>. QED  BY <1>12, <1>13, <1>14, <1>15, <1>16, <1>17 DEF SessionInv, Typed, RoomInv

(* What is received is written: it leaves the way down, or all of it does when
   it fits into the buffer. *)
LEMMA Written ==
  ASSUME SessionInv, NEW a \in Addresses, WriteStdout(a)
  PROVE  \E k \in Nat :
           /\ k <= down[a] /\ (k = down[a] \/ k = BUFFER_SIZE)
           /\ down'[a] = down[a] - k /\ stdout'[a] = stdout[a] + k
           /\ \A b \in Addresses \ {a} : down'[b] = down[b] /\ stdout'[b] = stdout[b]
           /\ down' \in [Addresses -> Nat] /\ stdout' \in [Addresses -> Nat]
<1>1. down \in [Addresses -> Nat] /\ stdout \in [Addresses -> Nat] /\ down[a] \in Nat /\ BUFFER_SIZE \in Nat
  BY Sizes DEF SessionInv, Typed, ClientTyped, LinkTyped
<1>2. PICK k \in Nat : k = Least(BUFFER_SIZE, down[a])
  BY <1>1, LeastIs
<1>3. k <= down[a] /\ (k = down[a] \/ k = BUFFER_SIZE)
  <2>1. BUFFER_SIZE <= down[a] \/ down[a] <= BUFFER_SIZE
    BY <1>1
  <2>. QED  BY <1>1, <1>2, <2>1, LeastIs
<1>4. down' = [down EXCEPT ![a] = @ - k] /\ stdout' = [stdout EXCEPT ![a] = @ + k]
  BY <1>2 DEF WriteStdout
<1>. QED  BY <1>1, <1>3, <1>4

(* What writing does to the connection it reads from. *)
LEMMA WriteKeepsConnection ==
  ASSUME SessionInv, NEW a \in sockets, WriteStdout(a), ~gone,
         pc \in {"recv", "drain"}, pc' \in {"recv", "drain", "select"},
         UNCHANGED <<to, typed, sockets, service, server, main, thread, local, up, ends>>
  PROVE  /\ ConnectionOK(a)'
         /\ down'[a] <= down[a]
         /\ BuffersFit /\ RoomOK(a) => down'[a] + InHand(a)' <= DownSize
<1>1. a \in Addresses
  BY DEF SessionInv, Typed, ClientTyped
<1>2. PICK k \in Nat :
           /\ k <= down[a] /\ (k = down[a] \/ k = BUFFER_SIZE)
           /\ down'[a] = down[a] - k /\ stdout'[a] = stdout[a] + k
  BY <1>1, Written
<1>3. ConnectionOK(a)
  BY <1>1 DEF SessionInv
<1>4. /\ up[a] \in Nat /\ down[a] \in Nat /\ bytes[a] \in Nat /\ sent[a] \in Nat /\ stdout[a] \in Nat
      /\ line_number[a] \in Nat /\ up[a] <= UpSize /\ down[a] <= DownSize
  BY <1>1, <1>3 DEF SessionInv, Typed, ClientTyped, ThreadTyped, LinkTyped, ConnectionOK, ThreadOK
<1>5. down'[a] \in Nat /\ down'[a] <= down[a] /\ down'[a] + stdout'[a] = down[a] + stdout[a]
  BY <1>2, <1>4
<1>6. ThreadOK(a)'
  <2>1. down'[a] <= DownSize /\ (down[a] = 0 => down'[a] = 0)
    BY <1>4, <1>5, Sizes
  <2>. QED  BY <1>1, <1>3, <1>4, <2>1, ThreadIsLeft DEF ConnectionOK, ThreadOK, ends
<1>7. IsServed(a)' <=> IsServed(a)
  BY <1>1, ClientLeaves
<1>8. LinkOK(a)'
  BY <1>3, <1>7 DEF ConnectionOK, LinkOK, ends
<1>9. StreamOK(a)'
  <2>1. ToSend(a) = 0 /\ ToSend(a)' = 0
    BY DEF ToSend
  <2>2. PICK p \in Nat : p = LINE_LENGTH * line_number[a]
    BY <1>4, Sizes
  <2>3. service = "chargen" => down[a] + stdout[a] = p + sent[a]
    BY <1>3, <2>2 DEF ConnectionOK, StreamOK
  <2>4. service = "chargen" => down'[a] + stdout'[a] = p + sent[a]
    BY <1>5, <2>3
  <2>5. service = "echo" => typed = up[a] + (bytes[a] - sent[a]) + down[a] + stdout[a]
    BY <1>3, <1>4, <2>1 DEF ConnectionOK, StreamOK
  <2>6. service = "echo" => typed = 0 + up[a] + (bytes[a] - sent[a]) + down'[a] + stdout'[a]
    BY <1>2, <1>4, <2>5
  <2>. QED  BY <2>1, <2>2, <2>4, <2>6 DEF StreamOK, local
<1>10. InHand(a)' = InHand(a) /\ InHand(a) \in Int
  BY <1>4 DEF InHand, Unsent, local
<1>11. BuffersFit /\ RoomOK(a) => down'[a] + InHand(a)' <= DownSize
  <2>. SUFFICES ASSUME BuffersFit, RoomOK(a) PROVE down'[a] + InHand(a) <= DownSize
    BY <1>10
  <2>1. CASE thread[a] # "send"
    BY <1>4, <1>5, <2>1, Sizes DEF InHand
  <2>2. CASE thread[a] = "send" /\ service = "echo"
    <3>1. InHand(a) <= BUFFER_SIZE
      BY <1>3, <1>4, <2>2, Sizes DEF InHand, Unsent, ConnectionOK, ThreadOK
    <3>. QED  BY <1>2, <1>4, <1>5, <1>10, <3>1, Sizes DEF BuffersFit
  <2>3. CASE thread[a] = "send" /\ service = "chargen"
    <3>1. down[a] + InHand(a) <= DownSize
      BY <2>3 DEF RoomOK, InHand
    <3>. QED  BY <1>4, <1>5, <1>10, <3>1, Sizes
  <2>4. thread[a] = "send" => service \in {"echo", "chargen"}
    BY <1>3 DEF ConnectionOK, ThreadOK, HasThreads
  <2>. QED  BY <2>1, <2>2, <2>3, <2>4
<1>. QED  BY <1>5, <1>6, <1>8, <1>9, <1>11 DEF ConnectionOK

(* A connection that the client does not touch. *)
LEMMA OtherConnection ==
  ASSUME SessionInv, NEW b \in Addresses, ~gone,
         pc \in {"recv", "drain"}, pc' \in {"recv", "drain", "select"},
         UNCHANGED <<program, to, typed, service, server, main, thread, local, up, gone, reset>>,
         UNCHANGED <<down[b], downEnd[b], stdout[b]>>,
         b \in sockets' <=> b \in sockets, Budget(b)' = Budget(b) \/ Budget(b)' = 0
  PROVE  ConnectionOK(b)' /\ (RoomOK(b) => RoomOK(b)')
<1>1. ConnectionOK(b)
  BY DEF SessionInv
<1>2. up[b] \in Nat /\ up[b] <= UpSize
  BY <1>1 DEF SessionInv, Typed, LinkTyped, ConnectionOK, ThreadOK
<1>3. ThreadOK(b)'
  BY <1>1, <1>2, ThreadIsLeft DEF ConnectionOK, ThreadOK
<1>4. IsServed(b)' <=> IsServed(b)
  BY ClientLeaves
<1>5. LinkOK(b)'
  BY <1>1, <1>4 DEF ConnectionOK, LinkOK
<1>6. ToSend(b) = 0 /\ ToSend(b)' = 0
  BY DEF ToSend
<1>7. StreamOK(b)'
  BY <1>1, <1>6 DEF ConnectionOK, StreamOK, local
<1>8. InHand(b)' = InHand(b) /\ Unsent(b)' = Unsent(b)
  BY DEF InHand, Unsent, local
<1>9. RoomOK(b) => RoomOK(b)'
  BY <1>2, <1>8, Sizes DEF RoomOK, local
<1>. QED  BY <1>3, <1>5, <1>7, <1>9 DEF ConnectionOK

LEMMA RecvAndWriteKeeps ==
  ASSUME SessionInv, RecvAndWrite
  PROVE  SessionInv' /\ (BuffersFit /\ RoomInv => RoomInv')
<1>1. PICK m : m = Marked
  OBVIOUS
<1>2. /\ pc = "recv" /\ fdset \ {STDIN} # {} /\ WriteStdout(m) /\ fdset' = fdset \ {m}
      /\ UNCHANGED <<program, refused, pc, sockets, stdin_open, to, message, rest, typed>>
      /\ UNCHANGED <<service, server, main, thread, local, up, ends>>
  BY <1>1 DEF RecvAndWrite, Receives
<1>3. UNCHANGED <<upEnd, downEnd, gone, reset>> /\ ~gone
  BY <1>2 DEF ends, SessionInv, Typed, ClientTyped
<1>4. m \in fdset \ {STDIN} /\ m \in Addresses /\ m \in sockets
  <2>1. fdset \ {STDIN} \subseteq Addresses
    BY DEF SessionInv, Typed, ClientTyped
  <2>. QED  BY <1>1, <1>2, <2>1, FirstIn DEF Marked, SessionInv, ClientOK
<1>5. /\ down' \in [Addresses -> Nat] /\ stdout' \in [Addresses -> Nat]
      /\ \A b \in Addresses \ {m} : down'[b] = down[b] /\ stdout'[b] = stdout[b]
  BY <1>2, <1>4, Written
<1>6. WaitingOnce' /\ ThreadTyped'
  BY <1>2, ClientLeaves
<1>7. ClientTyped' /\ LinkTyped'
  BY <1>2, <1>3, <1>5 DEF SessionInv, Typed, ClientTyped, LinkTyped
<1>8. ClientOK'
  <2>1. \A b \in fdset' \ {STDIN} : b \in sockets' /\ (down'[b] > 0 \/ downEnd'[b])
    <3>. SUFFICES ASSUME NEW b \in fdset' \ {STDIN}
                  PROVE  b \in sockets' /\ (down'[b] > 0 \/ downEnd'[b])
      OBVIOUS
    <3>1. b \in fdset \ {STDIN} /\ b # m
      BY <1>2
    <3>2. b \in Addresses
      BY <3>1 DEF SessionInv, Typed, ClientTyped
    <3>. QED  BY <1>2, <1>3, <1>5, <3>1, <3>2 DEF SessionInv, ClientOK
  <2>. QED  BY <1>2, <2>1 DEF SessionInv, ClientOK
<1>9. ASSUME NEW b \in Addresses \ {m}
      PROVE  ConnectionOK(b)' /\ (RoomOK(b) => RoomOK(b)')
  <2>1. Budget(b)' = Budget(b)
    BY <1>2 DEF Budget
  <2>. QED  BY <1>2, <1>3, <1>5, <2>1, OtherConnection
<1>10. /\ ConnectionOK(m)' /\ down'[m] <= down[m]
       /\ BuffersFit /\ RoomOK(m) => down'[m] + InHand(m)' <= DownSize
  BY <1>2, <1>3, <1>4, WriteKeepsConnection
<1>11. BuffersFit /\ RoomOK(m) => RoomOK(m)'
  <2>1. /\ down[m] \in Nat /\ down'[m] \in Nat /\ Unsent(m) \in Int /\ InHand(m)' \in Int
    BY <1>2, <1>4, <1>5 DEF Unsent, InHand, local, SessionInv, Typed, ThreadTyped, LinkTyped
  <2>2. Unsent(m)' = Unsent(m)
    BY <1>2 DEF Unsent, local
  <2>. QED  BY <1>2, <1>3, <1>10, <2>1, <2>2, Sizes DEF RoomOK, local
<1>12. ServerSurvives'
  BY <1>2 DEF SessionInv, ServerSurvives
<1>. QED  BY <1>6, <1>7, <1>8, <1>9, <1>10, <1>11, <1>12 DEF SessionInv, Typed, RoomInv

(* A connection of which the end has come is served no longer. *)
LEMMA EndedIsClosed ==
  ASSUME SessionInv, NEW a \in Addresses, downEnd[a]
  PROVE  /\ ~IsServed(a) /\ (service = "daytime" \/ thread[a] = "closed")
         /\ thread[a] # "send" /\ (service = "chargen" => thread[a] # "recv")
<1>1. thread[a] = "closed" \/ (service = "daytime" /\ thread[a] = "recv")
  BY DEF SessionInv, ConnectionOK, ThreadOK
<1>2. ~Waiting(a)
  BY <1>1 DEF SessionInv, WaitingOnce
<1>. QED  BY <1>1, <1>2 DEF IsServed, HasThreads

\* What becomes of it when the client has read the end.
LEMMA LeftConnection ==
  ASSUME SessionInv, NEW a \in Addresses, ~gone, down[a] = 0, downEnd[a], a \notin sockets',
         pc \in {"recv", "drain"}, pc' \in {"recv", "drain", "select"},
         UNCHANGED <<service, server, main, thread, local, up, down, downEnd, gone, reset>>
  PROVE  ConnectionOK(a)' /\ RoomOK(a)'
<1>1. ConnectionOK(a) /\ up[a] <= UpSize
  BY DEF SessionInv, ConnectionOK, ThreadOK
<1>2. ThreadOK(a)'
  BY <1>1, ThreadIsLeft, Sizes
<1>3. ~IsServed(a)'
  BY EndedIsClosed, ClientLeaves
<1>4. LinkOK(a)'
  BY <1>1, <1>3 DEF ConnectionOK, LinkOK
<1>5. StreamOK(a)'
  BY DEF StreamOK
<1>6. thread[a] # "send" /\ (service = "chargen" => thread[a] # "recv")
  BY EndedIsClosed
<1>7. RoomOK(a)'
  BY <1>6, Sizes DEF RoomOK, InHand
<1>. QED  BY <1>2, <1>4, <1>5, <1>7 DEF ConnectionOK

LEMMA RecvEndKeeps ==
  ASSUME SessionInv, RecvEnd
  PROVE  SessionInv' /\ (BuffersFit /\ RoomInv => RoomInv')
<1>1. PICK m : m = Marked
  OBVIOUS
<1>2. /\ pc = "recv" /\ fdset \ {STDIN} # {} /\ down[m] = 0
      /\ sockets' = sockets \ {m} /\ fdset' = fdset \ {m}
      /\ UNCHANGED <<program, refused, pc, stdin_open, to, message, rest, typed, stdout>>
      /\ UNCHANGED <<service, server, main, thread, local, up, down, downEnd, gone, reset>>
  BY <1>1 DEF RecvEnd, Receives
<1>3. ~gone /\ sockets \subseteq Addresses
  BY <1>2 DEF SessionInv, Typed, ClientTyped
<1>4. m \in fdset \ {STDIN} /\ m \in Addresses /\ m \in sockets /\ downEnd[m]
  <2>1. fdset \ {STDIN} \subseteq Addresses
    BY DEF SessionInv, Typed, ClientTyped
  <2>2. m \in fdset \ {STDIN}
    BY <1>1, <1>2, <2>1, FirstIn DEF Marked
  <2>. QED  BY <1>2, <2>1, <2>2 DEF SessionInv, ClientOK
<1>5. WaitingOnce' /\ ThreadTyped'
  BY <1>2, ClientLeaves
<1>6. ClientTyped'
  BY <1>2, <1>3 DEF SessionInv, Typed, ClientTyped
<1>7. LinkTyped'
  <2>1. upEnd' \in [Addresses -> BOOLEAN]
    BY DEF RecvEnd, SessionInv, Typed, LinkTyped
  <2>. QED  BY <1>2, <2>1 DEF SessionInv, Typed, LinkTyped
<1>8. ClientOK'
  BY <1>2, <1>4 DEF SessionInv, ClientOK
<1>9. ASSUME NEW b \in Addresses \ {m}
      PROVE  ConnectionOK(b)' /\ (RoomOK(b) => RoomOK(b)')
  <2>1. Budget(b)' = Budget(b)
    BY <1>2 DEF Budget
  <2>. QED  BY <1>2, <1>3, <2>1, OtherConnection
<1>10. ConnectionOK(m)' /\ RoomOK(m)'
  BY <1>2, <1>3, <1>4, LeftConnection
<1>11. ServerSurvives'
  BY <1>2 DEF SessionInv, ServerSurvives
<1>. QED  BY <1>5, <1>6, <1>7, <1>8, <1>9, <1>10, <1>11 DEF SessionInv, Typed, RoomInv

(* tcp_client.c has one connection. *)
LEMMA DrainKeeps ==
  ASSUME SessionInv, Drain
  PROVE  SessionInv' /\ (BuffersFit /\ RoomInv => RoomInv')
<1>1. /\ pc = "drain" /\ pc' \in {"drain", "select"} /\ program = "tcp_client"
      /\ UNCHANGED <<program, refused, fdset, stdin_open, to, message, rest, typed>>
      /\ UNCHANGED <<service, server, main, thread, local, up, ends>>
  BY DEF Drain, SessionInv, ClientOK, Typed, ClientTyped
<1>2. UNCHANGED <<upEnd, downEnd, gone, reset>> /\ ~gone
  BY <1>1 DEF ends, SessionInv, Typed, ClientTyped
<1>3. PICK a \in sockets : \/ WriteStdout(a) /\ UNCHANGED sockets
                           \/ /\ down[a] = 0 /\ downEnd[a] /\ sockets' = {}
                              /\ UNCHANGED <<down, stdout>>
  BY DEF Drain
<1>4. a \in Addresses /\ sockets = {a} /\ fdset \subseteq {STDIN}
  BY <1>1 DEF SessionInv, ClientOK, Typed, ClientTyped
<1>5. /\ sockets' \subseteq sockets
      /\ down' \in [Addresses -> Nat] /\ stdout' \in [Addresses -> Nat]
      /\ \A b \in Addresses \ {a} : down'[b] = down[b] /\ stdout'[b] = stdout[b]
  BY <1>3, <1>4, Written DEF SessionInv, Typed, ClientTyped, LinkTyped
<1>6. WaitingOnce' /\ ThreadTyped'
  BY <1>1, ClientLeaves
<1>7. ClientTyped' /\ LinkTyped'
  BY <1>1, <1>2, <1>5 DEF SessionInv, Typed, ClientTyped, LinkTyped
<1>8. ClientOK'
  BY <1>1, <1>4, <1>5 DEF SessionInv, ClientOK
<1>9. \A b : Budget(b) = 0 /\ Budget(b)' = 0
  BY <1>1 DEF Budget
<1>10. ASSUME NEW b \in Addresses \ {a}
       PROVE  ConnectionOK(b)' /\ (RoomOK(b) => RoomOK(b)')
  BY <1>1, <1>2, <1>4, <1>5, <1>9, OtherConnection
<1>11. ConnectionOK(a)' /\ (RoomOK(a) => RoomOK(a)')
  <2>1. CASE WriteStdout(a) /\ UNCHANGED sockets
    <3>1. ConnectionOK(a)' /\ down'[a] <= down[a]
      BY <1>1, <1>2, <1>3, <2>1, WriteKeepsConnection
    <3>2. /\ down[a] \in Nat /\ down'[a] \in Nat /\ Unsent(a) \in Int /\ up[a] \in Nat
      BY <1>4, <1>5 DEF Unsent, SessionInv, Typed, ThreadTyped, LinkTyped
    <3>3. Unsent(a)' = Unsent(a) /\ up[a] <= UpSize
      BY <1>1, <1>4 DEF Unsent, local, SessionInv, ConnectionOK, ThreadOK
    <3>4. RoomOK(a) => RoomOK(a)'
      BY <1>1, <1>2, <1>9, <3>1, <3>2, <3>3, Sizes DEF RoomOK, local
    <3>. QED  BY <3>1, <3>4
  <2>2. CASE down[a] = 0 /\ downEnd[a] /\ sockets' = {} /\ UNCHANGED <<down, stdout>>
    BY <1>1, <1>2, <1>4, <2>2, LeftConnection
  <2>. QED  BY <1>3, <2>1, <2>2
<1>12. ServerSurvives'
  BY <1>1, <1>2 DEF SessionInv, Typed, ClientTyped, ServerSurvives
<1>. QED  BY <1>6, <1>7, <1>8, <1>10, <1>11, <1>12 DEF SessionInv, Typed, RoomInv

-----------------------------------------------------------------------------
(***************************************************************************)
(* The theorems.                                                           *)
(***************************************************************************)
LEMMA SessionInit == Init => SessionInv /\ RoomInv
<1>. SUFFICES ASSUME Init PROVE SessionInv /\ RoomInv
  OBVIOUS
<1>1. /\ service \in {"echo", "chargen", "discard", "daytime"} /\ backlog = <<>> /\ client_fd = NONE
      /\ \A a \in Addresses :
           /\ thread[a] = "none" /\ fd[a] = NONE /\ wset[a] = FALSE
           /\ bytes[a] = 0 /\ sent[a] = 0 /\ line_number[a] = 0
           /\ up[a] = 0 /\ down[a] = 0 /\ ~upEnd[a] /\ ~downEnd[a] /\ ~reset[a] /\ stdout[a] = 0
      /\ server = "running" /\ gone = FALSE
  BY DEF Init, InitServer, Of
<1>2. /\ program \in {"tcp_client", "with_dns"} /\ pc = "connect" /\ sockets = {} /\ fdset = {}
      /\ to = (IF program = "tcp_client" THEN {First(Addresses)} ELSE Addresses)
      /\ message = 0 /\ rest = 0 /\ typed = 0
  BY DEF Init
<1>3. to \subseteq Addresses /\ to # {}
  BY <1>2, FirstIn, ServerAssumption
<1>4. ClientTyped /\ ThreadTyped /\ LinkTyped
  <2>1. ClientTyped
    <3>1. stdout \in [Addresses -> Nat]
      BY DEF Init, Of
    <3>2. gone = (pc \in {"done", "exited"})
      <4>1. gone = FALSE /\ (pc \in {"done", "exited"}) = FALSE
        BY <1>1, <1>2
      <4>. QED  BY ONLY <4>1
    <3>. QED  BY <1>2, <1>3, <3>1, <3>2 DEF ClientTyped
  <2>2. ThreadTyped
    BY DEF ThreadTyped, Init, InitServer, Of
  <2>3. LinkTyped
    BY DEF LinkTyped, Init, InitServer, Of
  <2>. QED  BY <2>1, <2>2, <2>3
<1>5. \A a \in Addresses : ~Waiting(a)
  BY <1>1, ServerAssumption DEF Waiting, Queued
<1>6. WaitingOnce
  BY <1>1, <1>5 DEF WaitingOnce
<1>7. ClientOK
  BY <1>2, <1>3 DEF ClientOK
<1>8. ASSUME NEW a \in Addresses
      PROVE  ConnectionOK(a) /\ RoomOK(a)
  <2>1. ThreadOK(a)
    BY <1>1, Sizes DEF ThreadOK
  <2>2. LinkOK(a)
    BY <1>1, <1>2, <1>5 DEF LinkOK, IsServed, Unused
  <2>3. StreamOK(a)
    BY <1>2 DEF StreamOK
  <2>4. RoomOK(a)
    BY <1>1, Sizes DEF RoomOK, InHand
  <2>. QED  BY <2>1, <2>2, <2>3, <2>4 DEF ConnectionOK
<1>9. ServerSurvives
  BY <1>1 DEF ServerSurvives
<1>. QED  BY <1>4, <1>6, <1>7, <1>8, <1>9 DEF SessionInv, Typed, RoomInv

LEMMA ClientStepKeeps ==
  ASSUME SessionInv, ClientStep \/ SelectStdin \/ Interrupt
  PROVE  SessionInv' /\ (BuffersFit /\ RoomInv => RoomInv')
<1>1. CASE Connect
  BY <1>1, ConnectKeeps
<1>2. CASE ConnectFails \/ Interrupt \/ Ends
  BY <1>2, EndsKeep
<1>3. CASE Select
  BY <1>3, SelectKeeps DEF Select
<1>4. CASE SelectStdin
  BY <1>4, SelectKeeps DEF SelectStdin
<1>5. CASE \E n \in MessageLengths : ReadStdin(n)
  BY <1>5, ReadStdinKeeps
<1>6. CASE NoRead
  BY <1>6, NoReadKeeps
<1>7. CASE SendMessage
  BY <1>7, SendMessageKeeps
<1>8. CASE ShutdownAll
  BY <1>8, ShutdownKeeps
<1>9. CASE RecvAndWrite
  BY <1>9, RecvAndWriteKeeps
<1>10. CASE RecvEnd
  BY <1>10, RecvEndKeeps
<1>11. CASE NoRecv
  BY <1>11, NoRecvKeeps
<1>12. CASE Drain
  BY <1>12, DrainKeeps
<1>. QED  BY <1>1, <1>2, <1>3, <1>4, <1>5, <1>6, <1>7, <1>8, <1>9, <1>10, <1>11, <1>12 DEF ClientStep

LEMMA ServerKeeps ==
  ASSUME SessionInv, Serving \/ \E a \in Addresses : ServedBy(a)
  PROVE  SessionInv' /\ (BuffersFit /\ RoomInv => RoomInv')
<1>1. CASE Serving
  <2>1. CASE Accept
    BY <1>1, <2>1, AcceptKeeps DEF Serving
  <2>2. CASE CreateThread
    BY <1>1, <2>2, CreateThreadKeeps DEF Serving
  <2>3. CASE SelectAccept
    BY <1>1, <2>3, SelectAcceptKeeps DEF Serving
  <2>4. CASE \E a \in Addresses : SelectRecv(a)
    BY <1>1, <2>4, SelectRecvKeeps DEF Serving
  <2>. QED  BY <1>1, <2>1, <2>2, <2>3, <2>4 DEF Serving, ServerStep
<1>2. ASSUME NEW a \in Addresses, ServedBy(a)
      PROVE  SessionInv' /\ (BuffersFit /\ RoomInv => RoomInv')
  <2>0. ThreadStep(a) /\ UNCHANGED clientVars
    BY <1>2 DEF ServedBy
  <2>1. CASE HandleThread(a)
    BY <2>0, <2>1, HandleThreadKeeps DEF HandleThread
  <2>2. CASE EchoRecv(a)
    BY <2>0, <2>2, EchoRecvKeeps DEF EchoRecv
  <2>3. CASE ChargenSelect(a)
    BY <2>0, <2>3, ChargenSelectKeeps DEF ChargenSelect
  <2>4. CASE ChargenRecv(a)
    BY <2>0, <2>4, ChargenRecvKeeps DEF ChargenRecv
  <2>5. CASE Send(a)
    BY <2>0, <2>5, SendKeeps DEF Send
  <2>6. CASE Close(a)
    BY <2>0, <2>6, CloseKeeps DEF Close
  <2>7. CASE WrapperExits(a)
    BY <2>0, <2>7, WrapperExitsKeeps
  <2>. QED  BY <2>0, <2>1, <2>2, <2>3, <2>4, <2>5, <2>6, <2>7 DEF ThreadStep
<1>. QED  BY <1>1, <1>2

LEMMA NothingKeeps ==
  ASSUME SessionInv, UNCHANGED vars
  PROVE  SessionInv' /\ (RoomInv => RoomInv')
<1>1. UNCHANGED <<service, server, main, thread, local, up, down, ends>> /\ UNCHANGED clientVars
  BY DEF vars, serverVars
<1>2. \A b \in Addresses : SameAt(b)
  BY <1>1 DEF SameAt, Waiting, Queued, main, local, ends, clientVars
<1>3. (\A b \in Addresses : ConnectionOK(b)') /\ (RoomInv => RoomInv')
  BY <1>1, <1>2, SameConnection DEF RoomInv, ends
<1>4. WaitingOnce'
  BY <1>1, SameWaiting
<1>5. Typed'
  BY <1>1 DEF SessionInv, Typed, ClientTyped, ThreadTyped, LinkTyped, local, ends, clientVars
<1>6. ClientOK' /\ ServerSurvives'
  BY <1>1 DEF SessionInv, ClientOK, ServerSurvives, ends, clientVars
<1>. QED  BY <1>3, <1>4, <1>5, <1>6 DEF SessionInv

LEMMA SessionStep ==
  SessionInv /\ [Next]_vars => SessionInv' /\ (BuffersFit /\ RoomInv => RoomInv')
<1>. SUFFICES ASSUME SessionInv, [Next]_vars
              PROVE  SessionInv' /\ (BuffersFit /\ RoomInv => RoomInv')
  OBVIOUS
<1>. QED  BY ClientStepKeeps, ServerKeeps, NothingKeeps DEF Next

LEMMA SessionInvariant == Spec => []SessionInv
BY SessionInit, SessionStep, PTL DEF Spec

(* For all sizes, also where a send may be cut anywhere: what was typed, or the
   lines of the connection's own thread, is on the way, in the thread's hands,
   or on the screen, and nothing else is. *)
THEOREM StreamsAreExact == Spec => []StreamIsExact
<1>1. SessionInv => StreamIsExact
  <2>. SUFFICES ASSUME SessionInv, ~gone, NEW a \in sockets
                PROVE  StreamOK(a)
    BY DEF StreamIsExact, StreamOK
  <2>. QED  BY DEF SessionInv, ConnectionOK, Typed, ClientTyped
<1>. QED  BY <1>1, SessionInvariant, PTL

(* The process of the server ends only when a client was interrupted, or found
   an address closed, with bytes unread (WrapperExits). *)
THEOREM OnlyResetsEndTheServer == Spec => []ServerSurvives
<1>1. SessionInv => ServerSurvives
  BY DEF SessionInv
<1>. QED  BY <1>1, SessionInvariant, PTL

(* When two messages fit into a buffer and a buffer into the kernel, no send of
   a client and a thread that answers it block at the same time: what the client
   will still send before it receives has room whenever the thread has none. *)
THEOREM SendsNeverBlockEachOther == ASSUME BuffersFit PROVE Spec => []NoMutualBlock
<1>1. SessionInv /\ RoomInv /\ [Next]_vars => SessionInv' /\ RoomInv'
  BY SessionStep
<1>2. SessionInv /\ RoomInv => NoMutualBlock
  <2>. SUFFICES ASSUME SessionInv, RoomInv, NEW a \in Addresses,
                       pc = "send", a = First(to), up[a] = UpSize, thread[a] = "send", down[a] = DownSize
                PROVE  FALSE
    BY DEF NoMutualBlock
  <2>1. ~gone /\ to # {} /\ to \subseteq Addresses /\ rest \in Nat /\ 1 <= rest
    BY DEF SessionInv, Typed, ClientTyped, ClientOK
  <2>2. a \in to
    BY <2>1, FirstIn
  <2>3. ToSend(a) = rest
    BY <2>2 DEF ToSend
  <2>4. Budget(a) \in Nat /\ rest <= Budget(a)
    BY <2>1, <2>3, BudgetIs, Sizes DEF Budget
  <2>5. sent[a] < bytes[a] /\ sent[a] \in Nat /\ bytes[a] \in Nat
    BY Sizes DEF SessionInv, ConnectionOK, ThreadOK, HasThreads, Typed, LinkTyped, ThreadTyped
  <2>6. down[a] + InHand(a) > DownSize
    BY <2>5, Sizes DEF InHand, Unsent
  <2>7. up[a] + Budget(a) <= UpSize
    BY <2>1, <2>6 DEF RoomInv, RoomOK
  <2>. QED  BY <2>1, <2>4, <2>7, Sizes
<1>. QED  BY <1>1, <1>2, SessionInit, PTL DEF Spec
=============================================================================
