------------------------ MODULE SelectServingProofs ------------------------
(***************************************************************************)
(* Proofs about the discard and the daytime server, for any clients, any   *)
(* number of places and any number of connections.                         *)
(***************************************************************************)
EXTENDS SelectServing, FiniteSetTheorems, TLAPS

TypeOK ==
  /\ connection_fds \in [Slots -> Clients \cup {NONE}]
  /\ count_connections \in Nat
  /\ pc \in {"select", "accept", "recv", "exited"}
  /\ slot \in Slots
  /\ backlog \in Seq(Clients)
  /\ data \in [Clients -> Nat]
  /\ client \in [Clients -> {"out", "open", "finished", "closed"}]
  /\ broken \in [Clients -> BOOLEAN]
  /\ rset \subseteq Clients /\ listening \in BOOLEAN

(* A client has one connection: a place or an entry of the backlog. *)
OncePerClient ==
  /\ \A i, j \in Slots : connection_fds[i] = connection_fds[j] /\ connection_fds[i] # NONE => i = j
  /\ \A i, j \in 1 .. Len(backlog) : backlog[i] = backlog[j] => i = j
  /\ \A i \in 1 .. Len(backlog) : backlog[i] \notin Held

CountIsRight ==
  /\ IsFiniteSet(Held)
  /\ count_connections = Cardinality(Held)
  /\ count_connections <= MAX_FDS

(* What select() has marked stays readable until its slot is reached. *)
MarkedIsReadable ==
  /\ pc \in {"select", "accept"} => slot = 0
  /\ pc = "accept" => /\ listening => backlog # <<>>
                      /\ rset \subseteq Held
                      /\ \A c \in rset : Readable(c)
  /\ pc = "recv" => \A i \in Slots : i >= slot /\ connection_fds[i] \in rset
                                       => Readable(connection_fds[i])

SInv == TypeOK /\ OncePerClient /\ CountIsRight /\ MarkedIsReadable

LEMMA SlotsAreNumbers == Slots \subseteq Nat /\ 0 \in Slots /\ NONE \notin Clients
BY ConstantsAssumption DEF Slots

LEMMA InitSInv == Init => SInv
<1> SUFFICES ASSUME Init
             PROVE  SInv
  OBVIOUS
<1>1. Held = {}
  BY DEF Init, Held
<1>2. TypeOK
  BY SlotsAreNumbers DEF Init, TypeOK
<1>3. OncePerClient
  BY DEF Init, OncePerClient
<1>4. CountIsRight
  BY <1>1, FS_EmptySet, ConstantsAssumption DEF Init, CountIsRight
<1>5. MarkedIsReadable
  BY DEF Init, MarkedIsReadable
<1>. QED  BY <1>2, <1>3, <1>4, <1>5 DEF SInv

-----------------------------------------------------------------------------
(* The clients do not touch the places, and nothing that can be read becomes
   unreadable before the server reads it. *)
LEMMA HeldUnchanged == connection_fds' = connection_fds => Held' = Held
BY DEF Held

LEMMA ClientKeepsReadable ==
  ASSUME SInv, NEW c \in Clients, ClientStep(c), NEW d \in Held, Readable(d)
  PROVE  Readable(d)'
<1>1. d \in Clients
  BY DEF Held, SInv, TypeOK
<1>2. CASE Connect(c)
  <2>1. d # c
    BY <1>2 DEF Connect
  <2>. QED  BY <1>1, <1>2, <2>1 DEF Connect, Readable, SInv, TypeOK
<1>3. CASE SendData(c)
  BY <1>1, <1>3 DEF SendData, Readable, SInv, TypeOK, clients
<1>4. CASE ReadTime(c)
  BY <1>1, <1>4 DEF ReadTime, Readable
<1>5. CASE Finish(c)
  BY <1>1, <1>5 DEF Finish, Readable, SInv, TypeOK
<1>6. CASE Close(c)
  BY <1>1, <1>6 DEF Close, Readable, SInv, TypeOK
<1>. QED  BY <1>2, <1>3, <1>4, <1>5, <1>6 DEF ClientStep

LEMMA ClientKeepsSInv ==
  ASSUME SInv, NEW c \in Clients, ClientStep(c)
  PROVE  SInv'
<1>1. UNCHANGED server
  BY DEF ClientStep, Connect, SendData, ReadTime, Finish, Close
<1>2. Held' = Held
  BY <1>1, HeldUnchanged DEF server
<1>3. /\ backlog' = backlog \/ (Connect(c) /\ backlog' = Append(backlog, c))
      /\ Connect(c) => c \notin Held /\ \A i \in 1 .. Len(backlog) : backlog[i] # c
  BY DEF ClientStep, Connect, SendData, ReadTime, Finish, Close, InBacklog
<1>4. backlog \in Seq(Clients)
  BY DEF SInv, TypeOK
<1>5. TypeOK'
  <2>1. backlog' \in Seq(Clients)
    BY <1>3, <1>4
  <2>2. /\ \/ data' = data
           \/ data' = [data EXCEPT ![c] = 0]
           \/ data' = [data EXCEPT ![c] = @ + 1]
        /\ \/ client' = client
           \/ \E x \in {"open", "finished", "closed"} : client' = [client EXCEPT ![c] = x]
    BY DEF ClientStep, Connect, SendData, ReadTime, Finish, Close, clients
  <2>3. \/ broken' = broken
        \/ \E b \in BOOLEAN : broken' = [broken EXCEPT ![c] = b]
    BY DEF ClientStep, Connect, SendData, ReadTime, Finish, Close
  <2>4. broken' \in [Clients -> BOOLEAN]
    BY <2>3 DEF SInv, TypeOK
  <2>5. data' \in [Clients -> Nat] /\ client' \in [Clients -> {"out", "open", "finished", "closed"}]
    <3>1. data \in [Clients -> Nat] /\ client \in [Clients -> {"out", "open", "finished", "closed"}]
      BY DEF SInv, TypeOK
    <3>2. data' \in [Clients -> Nat]
      BY <2>2, <3>1
    <3>3. client' \in [Clients -> {"out", "open", "finished", "closed"}]
      BY <2>2, <3>1
    <3>. QED  BY <3>2, <3>3
  <2>. QED  BY <1>1, <2>1, <2>4, <2>5 DEF SInv, TypeOK, server
<1>6. OncePerClient'
  <2>1. CASE backlog' = backlog
    BY <1>1, <1>2, <2>1 DEF SInv, OncePerClient, server
  <2>2. CASE Connect(c) /\ backlog' = Append(backlog, c)
    <3>1. /\ Len(backlog') = Len(backlog) + 1
          /\ backlog'[Len(backlog) + 1] = c
          /\ \A i \in 1 .. Len(backlog) : backlog'[i] = backlog[i] /\ backlog[i] # c
      BY <1>3, <1>4, <2>2
    <3>2. \A i, j \in 1 .. Len(backlog') : backlog'[i] = backlog'[j] => i = j
      BY <1>4, <3>1 DEF SInv, OncePerClient
    <3>3. \A i \in 1 .. Len(backlog') : backlog'[i] \notin Held
      BY <1>3, <1>4, <2>2, <3>1 DEF SInv, OncePerClient
    <3>. QED  BY <1>1, <1>2, <3>2, <3>3 DEF SInv, OncePerClient, server
  <2>. QED  BY <1>3, <2>1, <2>2
<1>7. CountIsRight'
  BY <1>1, <1>2 DEF SInv, CountIsRight, server
<1>8. MarkedIsReadable'
  <2>1. backlog # <<>> => backlog' # <<>>
    BY <1>3, <1>4
  <2>2. \A i \in Slots : connection_fds[i] \in rset => connection_fds[i] \in Held
    BY SlotsAreNumbers DEF SInv, TypeOK, Held
  <2>3. \A d \in Held : Readable(d) => Readable(d)'
    BY ClientKeepsReadable
  <2>. QED  BY <1>1, <1>2, <2>1, <2>2, <2>3 DEF SInv, MarkedIsReadable, server
<1>. QED  BY <1>5, <1>6, <1>7, <1>8 DEF SInv

-----------------------------------------------------------------------------
(* The server: a place is filled from the backlog and emptied at the slot that
   is looked at. *)
LEMMA SelectKeepsSInv ==
  ASSUME SInv, Select
  PROVE  SInv'
<1>1. Held' = Held
  BY HeldUnchanged DEF Select
<1>2. Marked \subseteq Clients /\ Marked \subseteq Held /\ \A c \in Marked : Readable(c)
  BY DEF Marked, Watched, Held, SInv, TypeOK
<1>3. \A c \in Clients : Readable(c) => Readable(c)'
  BY DEF Select, Readable, clients
<1>4. TypeOK'
  <2>1. listening' \in BOOLEAN
    BY DEF Select
  <2>. QED  BY <1>2, <2>1 DEF SInv, TypeOK, Select, clients
<1>5. OncePerClient'
  BY <1>1 DEF SInv, OncePerClient, Select
<1>6. CountIsRight'
  BY <1>1 DEF SInv, CountIsRight, Select
<1>7. MarkedIsReadable'
  BY <1>1, <1>2, <1>3 DEF SInv, MarkedIsReadable, Select
<1>. QED  BY <1>4, <1>5, <1>6, <1>7 DEF SInv

LEMMA TailOfBacklog ==
  ASSUME SInv, backlog # <<>>
  PROVE  /\ Head(backlog) \in Clients /\ Head(backlog) \notin Held
         /\ Tail(backlog) \in Seq(Clients)
         /\ \A i, j \in 1 .. Len(Tail(backlog)) : Tail(backlog)[i] = Tail(backlog)[j] => i = j
         /\ \A i \in 1 .. Len(Tail(backlog)) : /\ Tail(backlog)[i] \notin Held
                                               /\ Tail(backlog)[i] # Head(backlog)
<1>1. backlog \in Seq(Clients)
  BY DEF SInv, TypeOK
<1>2. /\ Head(backlog) = backlog[1] /\ 1 \in 1 .. Len(backlog)
      /\ Len(Tail(backlog)) = Len(backlog) - 1
      /\ \A i \in 1 .. Len(Tail(backlog)) : Tail(backlog)[i] = backlog[i + 1] /\ i + 1 \in 1 .. Len(backlog)
  BY <1>1
<1>. QED  BY <1>1, <1>2 DEF SInv, OncePerClient

LEMMA AcceptKeepsSInv ==
  ASSUME SInv, Accept
  PROVE  SInv'
<1> DEFINE c == Head(backlog)
<1>1. PICK i \in Slots : FirstFree(i) /\ connection_fds' = [connection_fds EXCEPT ![i] = c]
  BY DEF Accept
<1>2. connection_fds[i] = NONE /\ connection_fds \in [Slots -> Clients \cup {NONE}]
  BY <1>1 DEF FirstFree, SInv, TypeOK
<1>3. /\ c \in Clients /\ c \notin Held /\ c # NONE
      /\ Tail(backlog) \in Seq(Clients)
  BY TailOfBacklog, SlotsAreNumbers DEF Accept
<1>4. /\ connection_fds'[i] = c
      /\ \A j \in Slots : j # i => connection_fds'[j] = connection_fds[j]
      /\ \A j \in Slots : connection_fds[j] # c
  BY <1>1, <1>2, <1>3 DEF Held
<1>5. Held' = Held \cup {c}
  <2>1. \A x \in Held' : x \in Held \cup {c}
    BY <1>4 DEF Held
  <2>2. c \in Held'
    BY <1>3, <1>4 DEF Held
  <2>3. \A x \in Held : x \in Held'
    BY <1>2, <1>4 DEF Held
  <2>. QED  BY <2>1, <2>2, <2>3
<1>6. /\ backlog' = Tail(backlog) /\ count_connections' = count_connections + 1
      /\ count_connections < MAX_FDS /\ pc = "accept" /\ pc' \in {"recv", "exited"}
      /\ UNCHANGED <<rset, listening, slot, data, client>>
      /\ broken' = broken \/ \E b \in BOOLEAN : broken' = [broken EXCEPT ![c] = b]
  BY DEF Accept, HasRoom, Send, clients
<1>7. TypeOK'
  <2>1. connection_fds' \in [Slots -> Clients \cup {NONE}]
    BY <1>1, <1>2, <1>3
  <2>2. broken' \in [Clients -> BOOLEAN]
    BY <1>6 DEF SInv, TypeOK
  <2>. HIDE DEF c
  <2>. QED  BY <1>3, <1>6, <2>1, <2>2 DEF SInv, TypeOK
<1>8. OncePerClient'
  <2>1. \A j, k \in Slots : connection_fds'[j] = connection_fds'[k] /\ connection_fds'[j] # NONE => j = k
    <3>. HIDE DEF c
    <3>. QED  BY <1>4 DEF SInv, OncePerClient
  <2>2. /\ \A j, k \in 1 .. Len(backlog') : backlog'[j] = backlog'[k] => j = k
        /\ \A j \in 1 .. Len(backlog') : backlog'[j] \notin Held'
    BY <1>5, <1>6, TailOfBacklog DEF Accept
  <2>. QED  BY <2>1, <2>2 DEF OncePerClient
<1>9. CountIsRight'
  <2>. HIDE DEF c
  <2>. QED  BY <1>3, <1>5, <1>6, FS_AddElement, ConstantsAssumption DEF SInv, TypeOK, CountIsRight
<1>10. MarkedIsReadable'
  <2>1. \A j \in Slots : connection_fds'[j] \in rset' => j # i
    BY <1>3, <1>4, <1>6 DEF SInv, MarkedIsReadable
  <2>2. \A d \in Clients : d # c /\ Readable(d) => Readable(d)'
    BY <1>6 DEF Readable, SInv, TypeOK
  <2>3. ASSUME NEW j \in Slots, connection_fds'[j] \in rset'
        PROVE  Readable(connection_fds[j])'
    <3>1. PICK d \in Clients : d = connection_fds'[j] /\ d = connection_fds[j] /\ d \in rset /\ d # c
      BY <1>4, <1>6, <2>1, <2>3 DEF SInv, TypeOK
    <3>2. Readable(d)
      BY <1>6, <3>1 DEF SInv, TypeOK, MarkedIsReadable
    <3>. HIDE DEF c
    <3>3. Readable(d)'
      BY <2>2, <3>1, <3>2
    <3>. QED  BY <3>1, <3>3 DEF Readable
  <2>. HIDE DEF c
  <2>. QED  BY <1>6, <2>3 DEF SInv, MarkedIsReadable
<1>. QED  BY <1>7, <1>8, <1>9, <1>10 DEF SInv

LEMMA RefuseKeepsSInv ==
  ASSUME SInv, Refuse
  PROVE  SInv'
<1>1. Held' = Held
  BY HeldUnchanged DEF Refuse
<1>2. TypeOK'
  BY TailOfBacklog DEF SInv, TypeOK, Refuse, clients
<1>3. OncePerClient'
  BY <1>1, TailOfBacklog DEF SInv, OncePerClient, Refuse
<1>4. CountIsRight'
  BY <1>1 DEF SInv, CountIsRight, Refuse
<1>5. \A c \in Clients : Readable(c) => Readable(c)'
  BY DEF Refuse, Readable, clients
<1>6. \A i \in Slots : connection_fds[i] \in rset => connection_fds[i] \in Clients
  BY DEF SInv, TypeOK
<1>7. MarkedIsReadable'
  BY <1>5, <1>6 DEF SInv, MarkedIsReadable, Refuse
<1>. QED  BY <1>2, <1>3, <1>4, <1>7 DEF SInv

(* A step of the server that leaves places, backlog and clients alone, before
   the slots are looked at or at the end of the process. *)
LEMMA QuietStepKeepsSInv ==
  ASSUME SInv, NothingToAccept \/ RecvFails
  PROVE  SInv'
<1>1. Held' = Held
  BY HeldUnchanged DEF NothingToAccept, RecvFails
<1>2. TypeOK'
  BY DEF SInv, TypeOK, NothingToAccept, RecvFails, clients
<1>3. OncePerClient'
  BY <1>1 DEF SInv, OncePerClient, NothingToAccept, RecvFails
<1>4. CountIsRight'
  BY <1>1 DEF SInv, CountIsRight, NothingToAccept, RecvFails
<1>5. \A c \in Clients : Readable(c) => Readable(c)'
  BY DEF NothingToAccept, RecvFails, Readable, clients
<1>6. \A i \in Slots : connection_fds[i] \in rset => connection_fds[i] \in Clients
  BY DEF SInv, TypeOK
<1>7. MarkedIsReadable'
  <2>1. CASE NothingToAccept
    BY <1>5, <1>6, <2>1 DEF SInv, MarkedIsReadable, NothingToAccept
  <2>2. CASE RecvFails
    BY <2>2 DEF SInv, MarkedIsReadable, RecvFails
  <2>. QED  BY <2>1, <2>2
<1>. QED  BY <1>2, <1>3, <1>4, <1>7 DEF SInv

LEMMA NextSlotMoves ==
  ASSUME SInv, NextSlot
  PROVE  /\ slot' \in Slots
         /\ \/ pc' = "recv" /\ slot' = slot + 1
            \/ pc' = "select" /\ slot' = 0
<1>1. slot \in 0 .. MAX_FDS - 1 /\ MAX_FDS \in Nat /\ MAX_FDS > 0
  BY ConstantsAssumption DEF SInv, TypeOK, Slots
<1>2. CASE slot + 1 < MAX_FDS
  <2>1. (slot + 1) % MAX_FDS = slot + 1
    BY <1>1, <1>2
  <2>. QED  BY <1>1, <1>2, <2>1 DEF NextSlot, Slots
<1>3. CASE slot + 1 = MAX_FDS
  <2>1. MAX_FDS % MAX_FDS = 0
    BY <1>1
  <2>. QED  BY <1>1, <1>3, <2>1 DEF NextSlot, Slots
<1>. QED  BY <1>1, <1>2, <1>3

(* What the pass over the slots needs: what is left of it stays readable. *)
LEMMA RestStaysReadable ==
  ASSUME SInv, NextSlot, pc = "recv", rset' = rset, backlog' = backlog, listening' = listening,
         \A i \in Slots : i # slot => connection_fds'[i] = connection_fds[i],
         \A i \in Slots : i > slot /\ connection_fds[i] \in rset
                            => (Readable(connection_fds[i]) => \E d \in Clients : d = connection_fds[i] /\ Readable(d)')
  PROVE  MarkedIsReadable'
<1>1. CASE pc' = "recv" /\ slot' = slot + 1
  <2>1. ASSUME NEW i \in Slots, i >= slot + 1, connection_fds'[i] \in rset
        PROVE  Readable(connection_fds[i])'
    <3>1. i > slot /\ i # slot /\ i >= slot
      BY <2>1, SlotsAreNumbers DEF SInv, TypeOK
    <3>2. PICK d \in Clients : d = connection_fds[i] /\ Readable(d)'
      BY <1>1, <2>1, <3>1 DEF SInv, MarkedIsReadable
    <3>3. d = connection_fds'[i]
      BY <3>1, <3>2
    <3>. QED  BY <3>2, <3>3 DEF Readable
  <2>. QED  BY <1>1, <2>1 DEF MarkedIsReadable
<1>2. CASE pc' = "select" /\ slot' = 0
  BY <1>2 DEF MarkedIsReadable
<1>. QED  BY <1>1, <1>2, NextSlotMoves

LEMMA SkipSlotKeepsSInv ==
  ASSUME SInv, SkipSlot
  PROVE  SInv'
<1>1. NextSlot /\ pc = "recv" /\ UNCHANGED <<connection_fds, count_connections, rset, listening, backlog, data, broken, client>>
  BY DEF SkipSlot, clients
<1>2. Held' = Held
  BY <1>1, HeldUnchanged
<1>3. TypeOK'
  BY <1>1, NextSlotMoves DEF SInv, TypeOK
<1>4. OncePerClient'
  BY <1>1, <1>2 DEF SInv, OncePerClient
<1>5. CountIsRight'
  BY <1>1, <1>2 DEF SInv, CountIsRight
<1>6. \A d \in Clients : Readable(d) => Readable(d)'
  BY <1>1 DEF Readable
<1>7. \A i \in Slots : connection_fds[i] \in rset => connection_fds[i] \in Clients
  BY DEF SInv, TypeOK
<1>8. MarkedIsReadable'
  BY <1>1, <1>6, <1>7, RestStaysReadable
<1>. QED  BY <1>3, <1>4, <1>5, <1>8 DEF SInv

LEMMA CurrentIsAtSlot ==
  ASSUME SInv, Current # NONE
  PROVE  /\ pc = "recv" /\ Current = connection_fds[slot] /\ Current \in rset
         /\ Current \in Clients /\ Current \in Held
         /\ \A i \in Slots : i # slot => connection_fds[i] # Current
BY DEF Current, Held, SInv, TypeOK, OncePerClient

LEMMA RecvDataKeepsSInv ==
  ASSUME SInv, RecvData
  PROVE  SInv'
<1> DEFINE c == Current
<1>1. /\ NextSlot /\ data' = [data EXCEPT ![c] = 0]
      /\ UNCHANGED <<connection_fds, count_connections, rset, listening, backlog, broken, client>>
  BY DEF RecvData, clients
<1>2. Held' = Held
  BY <1>1, HeldUnchanged
<1>3. /\ c \in Clients /\ pc = "recv"
      /\ \A i \in Slots : i # slot => connection_fds[i] # c
  BY CurrentIsAtSlot DEF RecvData
<1>. HIDE DEF c
<1>4. TypeOK'
  <2>1. data' \in [Clients -> Nat]
    BY <1>1 DEF SInv, TypeOK
  <2>. QED  BY <1>1, <2>1, NextSlotMoves DEF SInv, TypeOK
<1>5. OncePerClient'
  BY <1>1, <1>2 DEF SInv, OncePerClient
<1>6. CountIsRight'
  BY <1>1, <1>2 DEF SInv, CountIsRight
<1>7. \A d \in Clients : d # c /\ Readable(d) => Readable(d)'
  BY <1>1 DEF Readable, SInv, TypeOK
<1>8. \A i \in Slots : i > slot /\ connection_fds[i] \in rset
                         => connection_fds[i] \in Clients /\ connection_fds[i] # c
  BY <1>3, SlotsAreNumbers DEF SInv, TypeOK
<1>9. MarkedIsReadable'
  BY <1>1, <1>3, <1>7, <1>8, RestStaysReadable
<1>. QED  BY <1>4, <1>5, <1>6, <1>9 DEF SInv

LEMMA RecvEndKeepsSInv ==
  ASSUME SInv, RecvEnd
  PROVE  SInv'
<1> DEFINE c == Current
<1>1. /\ NextSlot /\ connection_fds' = [connection_fds EXCEPT ![slot] = NONE]
      /\ count_connections' = count_connections - 1
      /\ UNCHANGED <<rset, listening, backlog, data, broken, client>>
  BY DEF RecvEnd, Uncounted, clients
<1>2. /\ c \in Clients /\ c \in Held /\ pc = "recv" /\ c = connection_fds[slot] /\ c # NONE
      /\ \A i \in Slots : i # slot => connection_fds[i] # c
  BY CurrentIsAtSlot DEF RecvEnd
<1>3. connection_fds \in [Slots -> Clients \cup {NONE}] /\ slot \in Slots
  BY DEF SInv, TypeOK
<1>. HIDE DEF c
<1>4. /\ connection_fds'[slot] = NONE
      /\ \A i \in Slots : i # slot => connection_fds'[i] = connection_fds[i]
  BY <1>1, <1>3
<1>5. Held' = Held \ {c}
  <2>1. \A x \in Held' : x \in Held \ {c}
    BY <1>2, <1>3, <1>4 DEF Held
  <2>2. ASSUME NEW x \in Held \ {c}
        PROVE  x \in Held'
    <3>1. PICK i \in Slots : x = connection_fds[i] /\ x # NONE
      BY DEF Held
    <3>2. i # slot
      BY <1>2, <3>1
    <3>. QED  BY <1>4, <3>1, <3>2 DEF Held
  <2>. QED  BY <2>1, <2>2
<1>6. /\ IsFiniteSet(Held') /\ Cardinality(Held') = Cardinality(Held) - 1
      /\ Cardinality(Held') \in Nat
  BY <1>2, <1>5, FS_RemoveElement, FS_CardinalityType DEF SInv, CountIsRight
<1>7. count_connections' = Cardinality(Held') /\ count_connections' \in Nat /\ count_connections' <= MAX_FDS
  BY <1>1, <1>6, ConstantsAssumption DEF SInv, TypeOK, CountIsRight
<1>8. TypeOK'
  <2>1. connection_fds' \in [Slots -> Clients \cup {NONE}]
    BY <1>1, <1>3
  <2>. QED  BY <1>1, <1>7, <2>1, NextSlotMoves DEF SInv, TypeOK
<1>9. OncePerClient'
  <2>1. \A i, j \in Slots : connection_fds'[i] = connection_fds'[j] /\ connection_fds'[i] # NONE => i = j
    BY <1>4 DEF SInv, OncePerClient
  <2>. QED  BY <1>1, <1>5, <2>1 DEF SInv, OncePerClient
<1>10. CountIsRight'
  BY <1>6, <1>7 DEF CountIsRight
<1>11. \A d \in Clients : Readable(d) => Readable(d)'
  BY <1>1 DEF Readable
<1>12. \A i \in Slots : connection_fds[i] \in rset => connection_fds[i] \in Clients
  BY SlotsAreNumbers DEF SInv, TypeOK
<1>13. MarkedIsReadable'
  BY <1>1, <1>2, <1>4, <1>11, <1>12, RestStaysReadable
<1>. QED  BY <1>8, <1>9, <1>10, <1>13 DEF SInv

-----------------------------------------------------------------------------
LEMMA NextKeepsSInv == SInv /\ [Next]_vars => SInv'
<1> SUFFICES ASSUME SInv, [Next]_vars
             PROVE  SInv'
  OBVIOUS
<1>1. CASE ServerStep
  BY <1>1, SelectKeepsSInv, AcceptKeepsSInv, RefuseKeepsSInv, QuietStepKeepsSInv,
     SkipSlotKeepsSInv, RecvDataKeepsSInv, RecvEndKeepsSInv DEF ServerStep
<1>2. ASSUME NEW c \in Clients, ClientStep(c)
      PROVE  SInv'
  BY <1>2, ClientKeepsSInv
<1>3. CASE UNCHANGED vars
  <2>1. Held' = Held
    BY <1>3, HeldUnchanged DEF vars, server
  <2>2. TypeOK' /\ OncePerClient' /\ CountIsRight'
    BY <1>3, <2>1 DEF SInv, TypeOK, OncePerClient, CountIsRight, vars, server, clients
  <2>3. MarkedIsReadable'
    BY <1>3, <2>1 DEF SInv, MarkedIsReadable, Readable, vars, server, clients
  <2>. QED  BY <2>2, <2>3 DEF SInv
<1>. QED  BY <1>1, <1>2, <1>3 DEF Next

LEMMA AlwaysSInv == Spec => []SInv
BY InitSInv, NextKeepsSInv, PTL DEF Spec

(* The one thread never waits for a single client: every Accept and Recv that
   follows select() finds what select() has seen. *)
THEOREM NeverWaitsForOne == Spec => []NeverBlocks
<1>1. SInv => NeverBlocks
  <2> SUFFICES ASSUME SInv
               PROVE  NeverBlocks
    OBVIOUS
  <2>1. Current # NONE => Readable(Current)
    BY CurrentIsAtSlot, SlotsAreNumbers DEF SInv, TypeOK, MarkedIsReadable
  <2>. QED  BY <2>1 DEF SInv, MarkedIsReadable, NeverBlocks
<1>. QED  BY <1>1, AlwaysSInv, PTL

(* Over any number of connects and closes no place of the server is lost: a
   client is turned away only when all of them are taken. *)
THEOREM NoPlaceIsLost == Spec => RefusedOnlyWhenFull
<1>1. SInv /\ [Next]_vars => [Refuse => Cardinality(Held) = MAX_FDS]_vars
  BY ConstantsAssumption DEF SInv, TypeOK, CountIsRight, Refuse, HasRoom
<1>. QED  BY <1>1, AlwaysSInv, PTL DEF Spec, RefusedOnlyWhenFull
=============================================================================
