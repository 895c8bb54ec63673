------------------------ MODULE ServerPairingProofs ------------------------
(***************************************************************************)
(* Proofs about the matchmaking server, for any number of clients that     *)
(* send what they like and leave when they like: pairs are mutual, a       *)
(* client is registered once and paired after that, the slots and the      *)
(* table tell the same story, and no callback blocks.                      *)
(***************************************************************************)
EXTENDS ServerPairing, FdTableProofs, FiniteSetTheorems

-----------------------------------------------------------------------------
(* What a client has been told. *)
Histories == [Clients -> Seq(Replies)]

Told(S, c, type) == {i \in 1 .. Len(S[c]) : S[c][i].type = type}

Tell(S, c, msg) == [S EXCEPT ![c] = Append(@, msg)]

LEMMA TellAdds ==
  ASSUME NEW S \in Histories, NEW c \in Clients, NEW msg \in Replies
  PROVE  /\ Tell(S, c, msg) \in Histories
         /\ \A d \in Clients : d # c => Tell(S, c, msg)[d] = S[d]
         /\ \A d \in Clients : \A i \in 1 .. Len(S[d]) :
              i \in 1 .. Len(Tell(S, c, msg)[d]) /\ Tell(S, c, msg)[d][i] = S[d][i]
         /\ Len(S[c]) + 1 \in 1 .. Len(Tell(S, c, msg)[c])
         /\ Tell(S, c, msg)[c][Len(S[c]) + 1] = msg
         /\ \A d \in Clients : \A type : Told(S, d, type) \subseteq Told(Tell(S, c, msg), d, type)
         /\ \A type : msg.type # type => Told(Tell(S, c, msg), c, type) = Told(S, c, type)
         /\ msg.type = "registration_ack" =>
              Told(Tell(S, c, msg), c, "registration_ack") = Told(S, c, "registration_ack") \cup {Len(S[c]) + 1}
         /\ msg.type = "peer_select" =>
              Told(Tell(S, c, msg), c, "peer_select") = Told(S, c, "peer_select") \cup {Len(S[c]) + 1}
<1> DEFINE U == Tell(S, c, msg)
<1>1. U \in Histories
  BY DEF Tell, Histories
<1>2. \A d \in Clients : S[d] \in Seq(Replies) /\ (d # c => U[d] = S[d])
  BY DEF Tell, Histories
<1>3. S[c] \in Seq(Replies) /\ U[c] = Append(S[c], msg)
  BY DEF Tell, Histories
<1>. HIDE DEF U
<1>4. /\ Len(U[c]) = Len(S[c]) + 1 /\ Len(S[c]) \in Nat
      /\ U[c][Len(S[c]) + 1] = msg
      /\ \A i \in 1 .. Len(S[c]) : U[c][i] = S[c][i]
  BY <1>3
<1>5. \A d \in Clients : \A i \in 1 .. Len(S[d]) : i \in 1 .. Len(U[d]) /\ U[d][i] = S[d][i]
  BY <1>2, <1>4
<1>6. \A d \in Clients : \A type : Told(S, d, type) \subseteq Told(U, d, type)
  BY <1>5 DEF Told
<1>7. \A i \in 1 .. Len(U[c]) : i \in 1 .. Len(S[c]) \/ i = Len(S[c]) + 1
  BY <1>4
<1>8. \A type : msg.type # type => Told(U, c, type) = Told(S, c, type)
  BY <1>4, <1>7 DEF Told
<1>9. \A type : msg.type = type => Told(U, c, type) = Told(S, c, type) \cup {Len(S[c]) + 1}
  BY <1>4, <1>7 DEF Told
<1>10. /\ msg.type = "registration_ack" =>
           Told(U, c, "registration_ack") = Told(S, c, "registration_ack") \cup {Len(S[c]) + 1}
       /\ msg.type = "peer_select" =>
           Told(U, c, "peer_select") = Told(S, c, "peer_select") \cup {Len(S[c]) + 1}
  BY <1>9
<1>. QED  BY <1>1, <1>2, <1>4, <1>5, <1>6, <1>8, <1>10 DEF U

PeerMessage(c, start) == [type |-> "peer_select", name |-> c, start |-> start]

(* What is true of the histories whatever becomes of the server: one
   acknowledgement, one peer after it, and a peer that is told one is told this
   client and the other part. *)
Sane(S) ==
  /\ \A c \in Clients, type \in {"registration_ack", "peer_select"} :
       \A i, j \in Told(S, c, type) : i = j
  /\ \A c \in Clients : \A j \in Told(S, c, "peer_select") :
       /\ \E i \in Told(S, c, "registration_ack") : i < j
       /\ S[c][j].name \in Clients /\ S[c][j].name # c
       /\ \A i \in Told(S, S[c][j].name, "peer_select") :
            S[S[c][j].name][i] = PeerMessage(c, 1 - S[c][j].start)

(* The peers that clients are told are told one too, but for those in L. *)
Answered(S, L) ==
  \A c \in Clients : \A i \in Told(S, c, "peer_select") :
    S[c][i].name \in L \/ Told(S, S[c][i].name, "peer_select") # {}

(* A history with one more message, none of an earlier message's kind and
   client, keeps what it had. *)
LEMMA SaneIsKept ==
  ASSUME NEW S \in Histories, NEW U \in Histories, Sane(S),
         \A d \in Clients : Told(U, d, "peer_select") = Told(S, d, "peer_select"),
         \A d \in Clients : Told(S, d, "registration_ack") \subseteq Told(U, d, "registration_ack"),
         \A d \in Clients : \A i, j \in Told(U, d, "registration_ack") : i = j,
         \A d \in Clients : \A i \in Told(S, d, "peer_select") : U[d][i] = S[d][i]
  PROVE  Sane(U) /\ \A L : Answered(S, L) => Answered(U, L)
<1>1. \A d \in Clients : \A i \in Told(S, d, "peer_select") : S[d][i].name \in Clients
  BY DEF Sane
<1>2. \A d \in Clients : \A i, j \in Told(U, d, "peer_select") : i = j
  BY DEF Sane
<1>3. ASSUME NEW d \in Clients, NEW j \in Told(U, d, "peer_select")
      PROVE  /\ \E i \in Told(U, d, "registration_ack") : i < j
             /\ U[d][j].name \in Clients /\ U[d][j].name # d
             /\ \A i \in Told(U, U[d][j].name, "peer_select") :
                  U[U[d][j].name][i] = PeerMessage(d, 1 - U[d][j].start)
  <2>1. j \in Told(S, d, "peer_select") /\ U[d][j] = S[d][j]
    BY <1>3
  <2>2. PICK n \in Clients : n = S[d][j].name
    BY <1>1, <2>1
  <2>3. /\ \E i \in Told(S, d, "registration_ack") : i < j
        /\ n # d
        /\ \A i \in Told(S, n, "peer_select") : S[n][i] = PeerMessage(d, 1 - S[d][j].start)
    BY <2>1, <2>2 DEF Sane
  <2>. QED  BY <2>1, <2>2, <2>3
<1>4. \A L : Answered(S, L) => Answered(U, L)
  BY <1>1 DEF Answered
<1>. QED  BY <1>2, <1>3, <1>4 DEF Sane

(* A message of another kind changes nothing. *)
LEMMA OtherMessageKeeps ==
  ASSUME NEW S \in Histories, NEW c \in Clients, NEW msg \in Replies,
         msg.type \notin {"registration_ack", "peer_select"}, Sane(S)
  PROVE  /\ Sane(Tell(S, c, msg)) /\ \A L : Answered(S, L) => Answered(Tell(S, c, msg), L)
         /\ \A d \in Clients, type \in {"registration_ack", "peer_select"} :
              Told(Tell(S, c, msg), d, type) = Told(S, d, type)
<1> DEFINE U == Tell(S, c, msg)
<1>1. \A d \in Clients, type \in {"registration_ack", "peer_select"} : Told(U, d, type) = Told(S, d, type)
  <2>1. \A d \in Clients : \A type : d # c => Told(U, d, type) = Told(S, d, type)
    BY TellAdds DEF Told
  <2>2. \A type \in {"registration_ack", "peer_select"} : Told(U, c, type) = Told(S, c, type)
    BY TellAdds
  <2>. QED  BY <2>1, <2>2
<1>2. \A d \in Clients : \A type : \A i \in Told(S, d, type) : U[d][i] = S[d][i]
  BY TellAdds DEF Told
<1>3. U \in Histories
  BY TellAdds
<1>. HIDE DEF U
<1>4. \A d \in Clients : \A i, j \in Told(U, d, "registration_ack") : i = j
  BY <1>1 DEF Sane
<1>5. Sane(U) /\ \A L : Answered(S, L) => Answered(U, L)
  BY <1>1, <1>2, <1>3, <1>4, SaneIsKept
<1>. QED  BY <1>1, <1>5 DEF U

(* The first acknowledgement of a registration. *)
LEMMA RegistrationAckKeeps ==
  ASSUME NEW S \in Histories, NEW c \in Clients, NEW msg \in Replies,
         msg.type = "registration_ack", Sane(S),
         Told(S, c, "registration_ack") = {}
  PROVE  /\ Sane(Tell(S, c, msg)) /\ \A L : Answered(S, L) => Answered(Tell(S, c, msg), L)
         /\ \A d \in Clients : Told(Tell(S, c, msg), d, "peer_select") = Told(S, d, "peer_select")
         /\ \A d \in Clients : d # c => Told(Tell(S, c, msg), d, "registration_ack") = Told(S, d, "registration_ack")
         /\ Told(Tell(S, c, msg), c, "registration_ack") # {}
<1> DEFINE U == Tell(S, c, msg)
<1>1. \A d \in Clients : Told(U, d, "peer_select") = Told(S, d, "peer_select")
  <2>1. \A d \in Clients : d # c => Told(U, d, "peer_select") = Told(S, d, "peer_select")
    BY TellAdds DEF Told
  <2>2. Told(U, c, "peer_select") = Told(S, c, "peer_select")
    BY TellAdds
  <2>. QED  BY <2>1, <2>2
<1>2. \A d \in Clients : \A type : \A i \in Told(S, d, type) : U[d][i] = S[d][i]
  BY TellAdds DEF Told
<1>3. \A d \in Clients : d # c => Told(U, d, "registration_ack") = Told(S, d, "registration_ack")
  BY TellAdds DEF Told
<1>4. Told(U, c, "registration_ack") = {Len(S[c]) + 1}
  <2>1. Told(U, c, "registration_ack") = Told(S, c, "registration_ack") \cup {Len(S[c]) + 1}
    BY TellAdds
  <2>. HIDE DEF U
  <2>. QED  BY <2>1
<1>5. U \in Histories
  BY TellAdds
<1>. HIDE DEF U
<1>6. \A d \in Clients : /\ Told(S, d, "registration_ack") \subseteq Told(U, d, "registration_ack")
                         /\ \A i, j \in Told(U, d, "registration_ack") : i = j
  BY <1>3, <1>4 DEF Sane
<1>7. Sane(U) /\ \A L : Answered(S, L) => Answered(U, L)
  BY <1>1, <1>2, <1>5, <1>6, SaneIsKept
<1>. QED  BY <1>1, <1>3, <1>4, <1>7 DEF U

(* One of the two messages of an introduction, to a client that is acknowledged
   and has no peer.  Whoever was told c before is n, in the other part, and so is
   what n was told before. *)
LEMMA OneIsTold ==
  ASSUME NEW S \in Histories, NEW c \in Clients, NEW n \in Clients, n # c, NEW start \in 0 .. 1,
         NEW msg \in Replies, msg = PeerMessage(n, start), Sane(S),
         Told(S, c, "registration_ack") # {}, Told(S, c, "peer_select") = {},
         \A d \in Clients : \A i \in Told(S, d, "peer_select") :
           S[d][i].name = c => d = n /\ S[d][i].start = 1 - start,
         \A i \in Told(S, n, "peer_select") : S[n][i] = PeerMessage(c, 1 - start),
         NEW U, U = Tell(S, c, msg)
  PROVE  /\ U \in Histories /\ Sane(U)
         /\ Told(U, c, "peer_select") # {}
         /\ \A i \in Told(U, c, "peer_select") : U[c][i] = PeerMessage(n, start)
         /\ \A d \in Clients : d # c => U[d] = S[d] /\ Told(U, d, "peer_select") = Told(S, d, "peer_select")
         /\ \A d \in Clients : Told(U, d, "registration_ack") = Told(S, d, "registration_ack")
         /\ \A L : Answered(S, L) => Answered(U, L \cup {n})
<1>0. msg.type = "peer_select" /\ msg.name = n /\ msg.start = start /\ start = 1 - (1 - start)
  BY DEF PeerMessage
<1>1. /\ U \in Histories /\ U[c][Len(S[c]) + 1] = msg
      /\ \A d \in Clients : d # c => U[d] = S[d]
  <2>1. Tell(S, c, msg) \in Histories
    BY TellAdds
  <2>2. Tell(S, c, msg)[c][Len(S[c]) + 1] = msg
    BY TellAdds
  <2>3. \A d \in Clients : d # c => Tell(S, c, msg)[d] = S[d]
    BY TellAdds
  <2>. QED  BY <2>1, <2>2, <2>3
<1>2. Told(U, c, "peer_select") = {Len(S[c]) + 1}
  <2>1. Told(Tell(S, c, msg), c, "peer_select") = Told(S, c, "peer_select") \cup {Len(S[c]) + 1}
    BY <1>0, TellAdds
  <2>. QED  BY <2>1
<1>3. \A d \in Clients : d # c => \A type : Told(U, d, type) = Told(S, d, type)
  BY <1>1 DEF Told
<1>4. \A d \in Clients : Told(U, d, "registration_ack") = Told(S, d, "registration_ack")
  <2>1. Told(U, c, "registration_ack") = Told(S, c, "registration_ack")
    BY <1>0, TellAdds
  <2>. QED  BY <1>3, <2>1
<1>5. \E i \in Told(U, c, "registration_ack") : i < Len(S[c]) + 1
  <2>1. PICK i \in Told(S, c, "registration_ack") : TRUE
    OBVIOUS
  <2>2. i \in 1 .. Len(S[c]) /\ Len(S[c]) \in Nat
    BY DEF Told, Histories
  <2>. QED  BY <1>4, <2>2
<1>6. ASSUME NEW d \in Clients, NEW type \in {"registration_ack", "peer_select"},
             NEW i \in Told(U, d, type), NEW j \in Told(U, d, type)
      PROVE  i = j
  <2>1. CASE d = c /\ type = "peer_select"
    BY <1>2, <1>6, <2>1
  <2>2. CASE ~ (d = c /\ type = "peer_select")
    <3>1. Told(U, d, type) = Told(S, d, type)
      BY <1>3, <1>4, <2>2
    <3>. QED  BY <1>6, <3>1 DEF Sane
  <2>. QED  BY <2>1, <2>2
<1>7. ASSUME NEW d \in Clients, NEW j \in Told(U, d, "peer_select")
      PROVE  /\ \E i \in Told(U, d, "registration_ack") : i < j
             /\ U[d][j].name \in Clients /\ U[d][j].name # d
             /\ \A i \in Told(U, U[d][j].name, "peer_select") :
                  U[U[d][j].name][i] = PeerMessage(d, 1 - U[d][j].start)
  <2>1. CASE d = c
    <3>1. U[d][j] = msg /\ j = Len(S[c]) + 1
      BY <1>1, <1>2, <1>7, <2>1
    <3>2. Told(U, n, "peer_select") = Told(S, n, "peer_select") /\ U[n] = S[n]
      BY <1>1, <1>3
    <3>3. \E i \in Told(U, d, "registration_ack") : i < j
      BY <1>5, <2>1, <3>1
    <3>4. U[d][j].name = n /\ U[d][j].start = start
      BY <1>0, <3>1
    <3>5. \A i \in Told(U, n, "peer_select") : U[n][i] = PeerMessage(d, 1 - start)
      BY <2>1, <3>2
    <3>. QED  BY <2>1, <3>3, <3>4, <3>5
  <2>2. CASE d # c
    <3>1. U[d] = S[d] /\ j \in Told(S, d, "peer_select")
      BY <1>1, <1>3, <1>7, <2>2
    <3>2. PICK p \in Clients : p = S[d][j].name
      BY <3>1 DEF Sane
    <3>3. /\ \E i \in Told(S, d, "registration_ack") : i < j
          /\ p # d /\ \A i \in Told(S, p, "peer_select") : S[p][i] = PeerMessage(d, 1 - S[d][j].start)
      BY <3>1, <3>2 DEF Sane
    <3>4. ASSUME NEW i \in Told(U, p, "peer_select")
          PROVE  U[p][i] = PeerMessage(d, 1 - S[d][j].start)
      <4>1. CASE p = c
        <5>1. d = n /\ S[d][j].start = 1 - start
          BY <3>1, <3>2, <4>1
        <5>2. U[p][i] = msg
          BY <1>1, <1>2, <3>4, <4>1
        <5>. QED  BY <1>0, <5>1, <5>2
      <4>2. CASE p # c
        BY <1>1, <1>3, <3>3, <3>4, <4>2
      <4>. QED  BY <4>1, <4>2
    <3>. QED  BY <1>4, <3>1, <3>2, <3>3, <3>4
  <2>. QED  BY <2>1, <2>2
<1>8. ASSUME NEW L, Answered(S, L)
      PROVE  Answered(U, L \cup {n})
  <2> SUFFICES ASSUME NEW d \in Clients, NEW i \in Told(U, d, "peer_select")
               PROVE  U[d][i].name \in L \cup {n} \/ Told(U, U[d][i].name, "peer_select") # {}
    BY DEF Answered
  <2>1. CASE d = c
    BY <1>0, <1>1, <1>2, <2>1
  <2>2. CASE d # c
    <3>1. PICK p \in Clients : p = S[d][i].name
      BY <1>3, <2>2 DEF Sane
    <3>2. p \in L \/ Told(S, p, "peer_select") # {}
      BY <1>3, <1>8, <2>2, <3>1 DEF Answered
    <3>3. p # c => Told(U, p, "peer_select") = Told(S, p, "peer_select")
      BY <1>3
    <3>4. Told(U, c, "peer_select") # {}
      BY <1>2
    <3>. QED  BY <1>1, <2>2, <3>1, <3>2, <3>3, <3>4
  <2>. QED  BY <2>1, <2>2
<1>9. Sane(U)
  BY <1>6, <1>7 DEF Sane
<1>. QED  BY <1>0, <1>1, <1>2, <1>3, <1>4, <1>8, <1>9

-----------------------------------------------------------------------------
(* A send() to c that leaves k: the message is told, which a broken connection
   excludes, or it is not, which a living server knows of broken ones only. *)
Attempt(S, k, c, msg) ==
  \/ k.sentTo = S /\ (k.alive => c \in broken)
  \/ k.sentTo = Tell(S, c, msg) /\ c \notin broken

(* A send() that fails on a broken connection is only printed, so a registered
   client that was reset may have no acknowledgement. *)
Acknowledged(S, c) == Told(S, c, "registration_ack") # {} \/ c \in broken

Introducible(S, c) ==
  /\ Acknowledged(S, c)
  /\ Told(S, c, "peer_select") = {}

(* The introduction of two registered clients that have no peer, each of which
   may have been reset. *)
LEMMA IntroductionKeeps ==
  ASSUME NEW S \in Histories, NEW a \in Clients, NEW b \in Clients, a # b,
         Sane(S), Answered(S, broken), Introducible(S, a), Introducible(S, b),
         NEW k1, Attempt(S, k1, b, PeerMessage(a, 0)),
         NEW k2, Attempt(k1.sentTo, k2, a, PeerMessage(b, 1)), k2.alive => k1.alive
  PROVE  /\ k2.sentTo \in Histories /\ Sane(k2.sentTo)
         /\ k2.alive => Answered(k2.sentTo, broken)
         /\ \A d \in Clients : Told(k2.sentTo, d, "registration_ack") = Told(S, d, "registration_ack")
         /\ \A d \in Clients : d \notin {a, b} => k2.sentTo[d] = S[d]
<1>0. PICK toB \in Replies, toA \in Replies : toB = PeerMessage(a, 0) /\ toA = PeerMessage(b, 1)
  BY DEF PeerMessage, Replies
<1>1. \A c \in {a, b} : c \notin broken =>
        \A d \in Clients : \A i \in Told(S, d, "peer_select") : S[d][i].name # c
  BY DEF Answered, Introducible, Acknowledged
<1>2. PICK U, V : U = k1.sentTo /\ V = k2.sentTo
  OBVIOUS
<1>3. /\ U \in Histories /\ Sane(U) /\ Answered(U, broken \cup {a})
      /\ \A i \in Told(U, b, "peer_select") : U[b][i] = PeerMessage(a, 0)
      /\ \A d \in Clients : d # b => U[d] = S[d] /\ Told(U, d, "peer_select") = Told(S, d, "peer_select")
      /\ \A d \in Clients : Told(U, d, "registration_ack") = Told(S, d, "registration_ack")
      /\ k1.alive => Told(U, b, "peer_select") # {} \/ b \in broken
  <2>1. CASE U = S /\ (k1.alive => b \in broken)
    BY <2>1 DEF Answered, Introducible, Acknowledged
  <2>2. CASE U = Tell(S, b, toB) /\ b \notin broken
    <3>1. \A i \in Told(S, a, "peer_select") : S[a][i] = PeerMessage(b, 1 - 0)
      BY DEF Introducible
    <3>2. Told(S, b, "registration_ack") # {} /\ Told(S, b, "peer_select") = {}
      BY <2>2 DEF Introducible, Acknowledged
    <3>3. 0 \in 0 .. 1
      OBVIOUS
    <3>. QED  BY <1>0, <1>1, <2>2, <3>1, <3>2, <3>3, OneIsTold
  <2>. QED  BY <1>0, <1>2, <2>1, <2>2 DEF Attempt
<1>4. CASE V = U /\ (k2.alive => a \in broken)
  <2>1. k2.alive => Answered(V, broken)
    BY <1>3, <1>4 DEF Answered
  <2>. QED  BY <1>2, <1>3, <1>4, <2>1
<1>5. CASE V = Tell(U, a, toA) /\ a \notin broken
  <2>1. Told(U, a, "registration_ack") # {} /\ Told(U, a, "peer_select") = {}
    BY <1>3, <1>5 DEF Introducible, Acknowledged
  <2>2. \A i \in Told(U, b, "peer_select") : U[b][i] = PeerMessage(a, 1 - 1)
    BY <1>3
  <2>3. \A d \in Clients : \A i \in Told(U, d, "peer_select") :
          U[d][i].name = a => d = b /\ U[d][i].start = 1 - 1
    BY <1>1, <1>3, <1>5 DEF PeerMessage
  <2>4. /\ V \in Histories /\ Sane(V) /\ Answered(V, (broken \cup {a}) \cup {b})
        /\ Told(V, a, "peer_select") # {}
        /\ \A d \in Clients : d # a => V[d] = U[d] /\ Told(V, d, "peer_select") = Told(U, d, "peer_select")
        /\ \A d \in Clients : Told(V, d, "registration_ack") = Told(U, d, "registration_ack")
    <3>1. 1 \in 0 .. 1
      OBVIOUS
    <3>. QED  BY <1>0, <1>3, <1>5, <2>1, <2>2, <2>3, <3>1, OneIsTold
  <2>5. k2.alive => Told(V, b, "peer_select") # {} \/ b \in broken
    BY <1>3, <2>4
  <2>6. k2.alive => Answered(V, broken)
    BY <2>4, <2>5 DEF Answered
  <2>. QED  BY <1>2, <1>3, <2>4, <2>6
<1>. QED  BY <1>0, <1>2, <1>4, <1>5 DEF Attempt

-----------------------------------------------------------------------------
(* The inductive invariant. *)
Connections == [fd : Fds \cup {-1}, registered : BOOLEAN,
                conn_send : BOOLEAN, name : Clients \cup {None}]

PType ==
  /\ connections \in [Slots -> Connections]
  /\ socket \in [Fds -> Clients \cup {None}]
  /\ backlog \in Seq(Clients)
  /\ phase \in [Clients -> {"new", "connected", "closed"}]
  /\ sentTo \in Histories /\ shut \subseteq Clients /\ unwelcome \subseteq Clients
  /\ pc \in {"select", "walk", "drain", "SIGPIPE", "SIGSEGV"}
  /\ pc = "drain" => fd \in Fds
  /\ broken \subseteq Clients /\ failed \subseteq broken

(* Open descriptors and slots in use are the same, and each has its client. *)
SlotsAreSockets ==
  /\ \A s \in Slots : connections[s].fd # -1 => socket[connections[s].fd] # None
  /\ \A r, s \in Slots : connections[r].fd = connections[s].fd /\ connections[r].fd # -1 => r = s
  /\ \A f \in Fds : socket[f] # None => \E s \in Slots : connections[s].fd = f
  /\ \A f, g \in Fds : socket[f] = socket[g] /\ socket[f] # None => f = g
  /\ \A s \in Slots : connections[s].registered =>
       connections[s].fd # -1 /\ connections[s].name = socket[connections[s].fd]

(* A client that is not accepted yet has no descriptor and was told nothing. *)
Fresh(c) == sentTo[c] = <<>> /\ \A f \in Fds : socket[f] # c

NewAreFresh ==
  /\ \A i, j \in 1 .. Len(backlog) : backlog[i] = backlog[j] => i = j
  /\ \A i \in 1 .. Len(backlog) : phase[backlog[i]] # "new" /\ Fresh(backlog[i])
  /\ \A c \in Clients : phase[c] = "new" => Fresh(c)

(* What the slots remember is what their clients were told. *)
SlotsMatchHistories ==
  \A s \in Slots :
    /\ connections[s].fd # -1 /\ ~connections[s].registered =>
         /\ Told(sentTo, socket[connections[s].fd], "registration_ack") = {}
         /\ Told(sentTo, socket[connections[s].fd], "peer_select") = {}
    /\ connections[s].registered =>
         /\ Acknowledged(sentTo, connections[s].name)
         /\ ~connections[s].conn_send => Told(sentTo, connections[s].name, "peer_select") = {}

PInv ==
  /\ PType /\ SlotsAreSockets /\ NewAreFresh
  /\ Sane(sentTo)
  /\ Alive => Answered(sentTo, broken) /\ SlotsMatchHistories

LEMMA Basics ==
  /\ Slots = {0, 1} /\ None \notin Clients /\ Fds \subseteq Nat /\ -1 \notin Fds
  /\ \A S \in Histories, c \in Clients : \A type : S[c] = <<>> => Told(S, c, type) = {}
BY ClientsAssumption, FdsAssumption DEF Slots, Told

LEMMA InitPInv == Init => PInv
<1> SUFFICES ASSUME Init
             PROVE  PInv
  OBVIOUS
<1>1. PType
  BY Basics DEF Init, PType, Histories, Connections
<1>2. SlotsAreSockets
  BY DEF Init, SlotsAreSockets
<1>3. NewAreFresh
  BY Basics DEF Init, NewAreFresh, Fresh
<1>4. \A c \in Clients : \A type : Told(sentTo, c, type) = {}
  BY <1>1, Basics DEF Init, PType
<1>5. Sane(sentTo) /\ Answered(sentTo, broken)
  BY <1>4 DEF Sane, Answered
<1>6. SlotsMatchHistories
  BY DEF Init, SlotsMatchHistories
<1>. QED  BY <1>1, <1>2, <1>3, <1>5, <1>6 DEF PInv

-----------------------------------------------------------------------------
(* Steps that tell nobody anything. *)
LEMMA SameHistories ==
  ASSUME PInv, UNCHANGED sentTo, broken \subseteq broken'
  PROVE  Sane(sentTo)' /\ (Alive => Answered(sentTo, broken)')
<1>1. PICK S, L : S = sentTo /\ L = broken /\ sentTo' = S /\ L \subseteq broken'
  OBVIOUS
<1>2. Sane(S) /\ (Alive => Answered(S, L))
  BY <1>1 DEF PInv
<1>3. Sane(sentTo)'
  BY <1>1, <1>2 DEF Sane, Told, PeerMessage
<1>4. Alive => Answered(sentTo, broken)'
  BY <1>1, <1>2 DEF Answered, Told
<1>. QED  BY <1>3, <1>4

(* Steps that leave slots, descriptors and histories alone. *)
LEMMA QuietKeepsPInv ==
  ASSUME PInv, UNCHANGED <<connections, socket, backlog, sentTo, shut, unwelcome>>,
         phase' \in [Clients -> {"new", "connected", "closed"}],
         \A c \in Clients : phase'[c] = "new" <=> phase[c] = "new",
         pc' \in {"select", "walk", "drain", "SIGPIPE", "SIGSEGV"},
         Alive' => Alive,
         pc' = "drain" => fd' \in Fds,
         broken \subseteq broken', broken' \subseteq Clients, failed' \subseteq broken'
  PROVE  PInv'
<1>1. PType'
  BY DEF PInv, PType
<1>2. SlotsAreSockets'
  BY DEF PInv, SlotsAreSockets
<1>3. NewAreFresh'
  <2>1. \A i \in 1 .. Len(backlog) : backlog[i] \in Clients
    BY DEF PInv, PType
  <2>. QED  BY <2>1 DEF PInv, NewAreFresh, Fresh
<1>4. Sane(sentTo)'
  BY SameHistories
<1>5. Alive' => Answered(sentTo, broken)'
  BY SameHistories
<1>6. Alive' => SlotsMatchHistories'
  BY DEF PInv, SlotsMatchHistories, Acknowledged, Told
<1>. QED  BY <1>1, <1>2, <1>3, <1>4, <1>5, <1>6 DEF PInv

LEMMA QuietActions ==
  ASSUME PInv,
         \/ Select \/ WalkEnds \/ DrainEnds \/ OnRegistrationIgnored
         \/ \E i \in Index, s \in Slots : ReceiveData(i, s) \/ ReceiveError(i, s)
         \/ \E c \in Clients : \/ Leave(c) \/ Abort(c) \/ Reset(c)
                               \/ \E kind \in Kinds : ClientSend(c, kind)
         \/ UNCHANGED vars
  PROVE  PInv'
<1>0. phase \in [Clients -> {"new", "connected", "closed"}] /\ (pc = "drain" => fd \in Fds)
      /\ pc \in {"select", "walk", "drain", "SIGPIPE", "SIGSEGV"}
      /\ broken \subseteq Clients /\ failed \subseteq broken
  BY DEF PInv, PType
<1>1. CASE Select \/ WalkEnds \/ DrainEnds
  <2>1. /\ UNCHANGED <<connections, socket, backlog, sentTo, shut, unwelcome, phase, broken, failed>>
        /\ Alive /\ pc' \in {"select", "walk"}
    BY <1>1 DEF Select, WalkEnds, DrainEnds, Alive, peers, output, resets
  <2>. QED  BY <1>0, <2>1, QuietKeepsPInv
<1>2. CASE OnRegistrationIgnored
  <2>1. /\ UNCHANGED <<connections, socket, backlog, sentTo, shut, unwelcome, phase, fd, pc, broken, failed>>
        /\ Alive' = Alive
    BY <1>2 DEF OnRegistrationIgnored, Handles, peers, output, Alive
  <2>. QED  BY <1>0, <2>1, QuietKeepsPInv
<1>3. ASSUME NEW i \in Index, NEW s \in Slots, ReceiveData(i, s)
      PROVE  PInv'
  <2>1. /\ UNCHANGED <<connections, socket, backlog, sentTo, shut, unwelcome, phase, broken, failed>>
        /\ Alive /\ pc' = "drain" /\ fd' \in Fds
    BY <1>3 DEF ReceiveData, Receives, Calls, IsOpen, output, resets, Alive
  <2>. QED  BY <1>0, <2>1, QuietKeepsPInv
<1>4. ASSUME NEW i \in Index, NEW s \in Slots, ReceiveError(i, s)
      PROVE  PInv'
  <2>1. /\ UNCHANGED <<connections, socket, backlog, sentTo, shut, unwelcome, phase, fd, pc, broken>>
        /\ Alive' = Alive /\ failed' \subseteq failed
    BY <1>4 DEF ReceiveError, peers, output, Alive
  <2>. QED  BY <1>0, <2>1, QuietKeepsPInv
<1>5. ASSUME NEW c \in Clients, Leave(c) \/ Abort(c)
      PROVE  PInv'
  <2>1. /\ UNCHANGED <<connections, socket, backlog, sentTo, shut, unwelcome, fd, pc>>
        /\ phase[c] = "connected" /\ phase' = [phase EXCEPT ![c] = "closed"]
        /\ Alive' = Alive
        /\ broken \subseteq broken' /\ broken' \subseteq broken \cup {c} /\ failed' \subseteq broken'
    BY <1>0, <1>5 DEF Leave, Abort, output, loop, resets, Alive
  <2>. QED  BY <1>0, <2>1, QuietKeepsPInv
<1>6. ASSUME NEW c \in Clients, Reset(c) \/ \E kind \in Kinds : ClientSend(c, kind)
      PROVE  PInv'
  <2>1. /\ UNCHANGED <<connections, socket, backlog, sentTo, shut, unwelcome, phase, fd, pc>>
        /\ Alive' = Alive
        /\ broken \subseteq broken' /\ broken' \subseteq broken \cup {c} /\ failed' \subseteq broken'
    BY <1>0, <1>6 DEF Reset, ClientSend, output, loop, peers, resets, Alive
  <2>. QED  BY <1>0, <2>1, QuietKeepsPInv
<1>7. CASE UNCHANGED vars
  <2>1. /\ UNCHANGED <<connections, socket, backlog, sentTo, shut, unwelcome, phase, fd, pc, broken, failed>>
        /\ Alive' = Alive
    BY <1>7 DEF vars, output, loop, peers, resets, Alive
  <2>. QED  BY <1>0, <2>1, QuietKeepsPInv
<1>. QED  BY <1>1, <1>2, <1>3, <1>4, <1>5, <1>6, <1>7

-----------------------------------------------------------------------------
(* Connections come and go. *)
LEMMA ConnectKeepsPInv ==
  ASSUME PInv, NEW c \in Clients, Connect(c)
  PROVE  PInv'
<1>1. /\ UNCHANGED <<connections, socket, sentTo, shut, unwelcome, fd, pc, broken, failed>>
      /\ phase[c] = "new" /\ phase' = [phase EXCEPT ![c] = "connected"]
      /\ backlog' = Append(backlog, c)
      /\ Alive' = Alive
  BY DEF Connect, output, loop, resets, Alive
<1>2. backlog \in Seq(Clients) /\ phase \in [Clients -> {"new", "connected", "closed"}]
  BY DEF PInv, PType
<1>3. PType'
  BY <1>1, <1>2 DEF PInv, PType, Connections
<1>4. SlotsAreSockets'
  BY <1>1 DEF PInv, SlotsAreSockets
<1>5. /\ Len(backlog') = Len(backlog) + 1 /\ backlog'[Len(backlog) + 1] = c
      /\ \A i \in 1 .. Len(backlog) : backlog'[i] = backlog[i] /\ backlog[i] \in Clients /\ backlog[i] # c
  BY <1>1, <1>2 DEF PInv, NewAreFresh
<1>6. \A i \in 1 .. Len(backlog') : i \in 1 .. Len(backlog) \/ i = Len(backlog) + 1
  BY <1>2, <1>5
<1>7. \A d : Fresh(d)' = Fresh(d)
  BY <1>1 DEF Fresh
<1>8. NewAreFresh'
  <2>1. \A i, j \in 1 .. Len(backlog') : backlog'[i] = backlog'[j] => i = j
    BY <1>5, <1>6 DEF PInv, NewAreFresh
  <2>2. \A i \in 1 .. Len(backlog') : /\ phase'[backlog'[i]] # "new"
                                      /\ sentTo[backlog'[i]] = <<>> /\ \A f \in Fds : socket[f] # backlog'[i]
    BY <1>1, <1>2, <1>5, <1>6 DEF PInv, NewAreFresh, Fresh
  <2>3. \A d \in Clients : phase'[d] = "new" => sentTo[d] = <<>> /\ \A f \in Fds : socket[f] # d
    BY <1>1, <1>2 DEF PInv, NewAreFresh, Fresh
  <2>. QED  BY <1>1, <2>1, <2>2, <2>3 DEF NewAreFresh, Fresh
<1>9. Sane(sentTo)'
  BY <1>1, SameHistories
<1>10. Alive' => Answered(sentTo, broken)'
  BY <1>1, SameHistories
<1>11. Alive' => SlotsMatchHistories'
  <2>1. Alive => SlotsMatchHistories
    BY DEF PInv
  <2>2. SlotsMatchHistories => SlotsMatchHistories'
    BY <1>1 DEF SlotsMatchHistories, Acknowledged, Told
  <2>. QED  BY <1>1, <2>1, <2>2
<1>. QED  BY <1>3, <1>4, <1>8, <1>9, <1>10, <1>11 DEF PInv

LEMMA DescriptorIsFree ==
  ASSUME PInv, NEW s \in Slots, connections[s].fd = -1
  PROVE  LowestFree \in Fds /\ socket[LowestFree] = None
<1> DEFINE Free == {f \in Fds : socket[f] = None}
<1>1. PICK f \in Fds, g \in Fds : f # g
  BY FdsAssumption
<1>2. Free # {}
  <2>1. \A r \in Slots : connections[r].fd # -1 => r = 1 - s
    BY Basics
  <2>2. socket[f] = None \/ socket[g] = None
    BY <1>1, <2>1, Basics DEF PInv, SlotsAreSockets
  <2>. QED  BY <2>2
<1>3. Free \in SUBSET Nat
  BY Basics
<1>. HIDE DEF Free
<1>4. PICK f0 \in Free : \A h \in Free : ~ (<<h, f0>> \in OpToRel(<, Nat))
  BY <1>2, <1>3, NatLessThanWellFounded, WFMin
<1>5. \A h \in Free : f0 <= h
  <2>1. \A h \in Free : ~ (h < f0)
    BY <1>3, <1>4 DEF OpToRel
  <2>. QED  BY <1>3, <2>1
<1>6. /\ f0 \in Fds /\ socket[f0] = None
      /\ \A h \in Fds : socket[h] = None => f0 <= h
  BY <1>5 DEF Free
<1>. QED  BY <1>6 DEF LowestFree

(* The backlog without its first client, who may now be accepted. *)
LEMMA HeadOfBacklog ==
  ASSUME PInv, backlog # <<>>
  PROVE  /\ Head(backlog) \in Clients /\ Fresh(Head(backlog)) /\ phase[Head(backlog)] # "new"
         /\ Tail(backlog) \in Seq(Clients)
         /\ \A i, j \in 1 .. Len(Tail(backlog)) : Tail(backlog)[i] = Tail(backlog)[j] => i = j
         /\ \A i \in 1 .. Len(Tail(backlog)) :
              /\ Tail(backlog)[i] \in Clients /\ Tail(backlog)[i] # Head(backlog)
              /\ phase[Tail(backlog)[i]] # "new" /\ Fresh(Tail(backlog)[i])
<1>1. backlog \in Seq(Clients)
  BY DEF PInv, PType, Connections
<1>2. /\ Head(backlog) = backlog[1] /\ 1 \in 1 .. Len(backlog)
      /\ Len(Tail(backlog)) = Len(backlog) - 1
      /\ \A i \in 1 .. Len(Tail(backlog)) : Tail(backlog)[i] = backlog[i + 1] /\ i + 1 \in 1 .. Len(backlog)
  BY <1>1
<1>. QED  BY <1>1, <1>2 DEF PInv, NewAreFresh

LEMMA NoSlotKeepsPInv ==
  ASSUME PInv, NEW i \in Index, OnAcceptableNoSlot(i)
  PROVE  PInv'
<1>1. /\ UNCHANGED <<connections, socket, sentTo, shut, unwelcome, phase, broken, failed>>
      /\ pc' = "SIGSEGV" /\ backlog # <<>> /\ backlog' = Tail(backlog) /\ ~Alive'
  BY DEF OnAcceptableNoSlot, output, resets, Alive
<1>2. PType'
  BY <1>1, HeadOfBacklog DEF PInv, PType
<1>3. SlotsAreSockets'
  BY <1>1 DEF PInv, SlotsAreSockets
<1>4. NewAreFresh'
  BY <1>1, HeadOfBacklog DEF PInv, NewAreFresh, Fresh
<1>5. Sane(sentTo)'
  BY <1>1, SameHistories
<1>. QED  BY <1>1, <1>2, <1>3, <1>4, <1>5 DEF PInv

(* What a callback does to one slot and one descriptor. *)
Sets(s, f) ==
  /\ connections'[s].fd = f /\ connections'[s].registered = FALSE
  /\ \A r \in Slots : r # s => connections'[r] = connections[r]
  /\ connections' \in [Slots -> Connections]

Opens(f, c) ==
  /\ socket'[f] = c /\ \A g \in Fds : g # f => socket'[g] = socket[g]
  /\ socket' \in [Fds -> Clients \cup {None}]

LEMMA AcceptEffect ==
  ASSUME PInv, NEW i \in Index, OnAcceptableSlot(i)
  PROVE  \E s \in Slots, f \in Fds :
           /\ connections[s].fd = -1 /\ socket[f] = None
           /\ table' = register_fd_callback(table, f, s)
           /\ Sets(s, f) /\ Opens(f, Head(backlog))
<1>0. PICK f, c : f = LowestFree /\ c = Head(backlog)
  OBVIOUS
<1>1. PICK s \in Slots :
        /\ connections[s].fd = -1
        /\ socket' = [socket EXCEPT ![f] = c]
        /\ connections' = [connections EXCEPT ![s].fd = f, ![s].registered = FALSE, ![s].conn_send = FALSE]
        /\ table' = register_fd_callback(table, f, s)
  BY <1>0 DEF OnAcceptableSlot, get_conn
<1>2. f \in Fds /\ socket[f] = None
  BY <1>0, <1>1, DescriptorIsFree
<1>3. c \in Clients
  BY <1>0, HeadOfBacklog DEF OnAcceptableSlot
<1>4. Opens(f, c)
  BY <1>1, <1>2, <1>3 DEF PInv, PType, Opens
<1>5. Sets(s, f)
  <2>1. connections \in [Slots -> Connections]
    BY DEF PInv, PType
  <2>2. PICK new : new = [connections[s] EXCEPT !.fd = f, !.registered = FALSE, !.conn_send = FALSE]
    OBVIOUS
  <2>3. connections[s] \in Connections
    BY <2>1
  <2>4. new \in Connections /\ new.fd = f /\ new.registered = FALSE
    BY <1>2, <2>2, <2>3 DEF Connections
  <2>5. connections' = [connections EXCEPT ![s] = new]
    BY <1>1, <2>1, <2>2
  <2>. QED  BY <2>1, <2>4, <2>5 DEF Sets
<1>. QED  BY <1>0, <1>1, <1>2, <1>4, <1>5

LEMMA AcceptKeepsPInv ==
  ASSUME PInv, NEW i \in Index, OnAcceptableSlot(i)
  PROVE  PInv'
<1>0. PICK c : c = Head(backlog)
  OBVIOUS
<1>1. PICK s \in Slots, f \in Fds :
        connections[s].fd = -1 /\ socket[f] = None /\ Sets(s, f) /\ Opens(f, c)
  BY <1>0, AcceptEffect
<1>2. /\ backlog # <<>> /\ backlog' = Tail(backlog)
      /\ UNCHANGED <<sentTo, shut, unwelcome, phase, pc, fd, broken, failed>>
      /\ Alive' = Alive
  BY DEF OnAcceptableSlot, output, resets, Alive
<1>3. f \in Fds /\ socket[f] = None /\ f # -1
  BY <1>1, Basics
<1>4. c \in Clients /\ c # None /\ Fresh(c) /\ phase[c] # "new"
  BY <1>0, <1>2, HeadOfBacklog, Basics
<1>5. /\ socket'[f] = c /\ \A g \in Fds : g # f => socket'[g] = socket[g]
      /\ socket' \in [Fds -> Clients \cup {None}]
  BY <1>1 DEF Opens
<1>6. /\ connections'[s].fd = f /\ connections'[s].registered = FALSE
      /\ \A r \in Slots : r # s => connections'[r] = connections[r]
      /\ connections' \in [Slots -> Connections]
  BY <1>1 DEF Sets
<1>7. \A r \in Slots : connections[r].fd # f
  BY <1>3 DEF PInv, SlotsAreSockets
<1>8. PType'
  BY <1>2, <1>5, <1>6, HeadOfBacklog DEF PInv, PType
<1>9. SlotsAreSockets'
  <2>1. \A r \in Slots : connections'[r].fd # -1 => socket'[connections'[r].fd] # None
    BY <1>3, <1>4, <1>5, <1>6, <1>7 DEF PInv, SlotsAreSockets, PType, Connections
  <2>2. \A q, r \in Slots : connections'[q].fd = connections'[r].fd /\ connections'[q].fd # -1 => q = r
    BY <1>6, <1>7 DEF PInv, SlotsAreSockets
  <2>3. \A g \in Fds : socket'[g] # None => \E r \in Slots : connections'[r].fd = g
    <3> SUFFICES ASSUME NEW g \in Fds, socket'[g] # None, g # f
                 PROVE  \E r \in Slots : connections'[r].fd = g
      BY <1>6
    <3>1. PICK r \in Slots : connections[r].fd = g
      BY <1>5 DEF PInv, SlotsAreSockets
    <3>2. r # s
      BY <1>1, <3>1, Basics
    <3>. QED  BY <1>6, <3>1, <3>2
  <2>4. \A g, h \in Fds : socket'[g] = socket'[h] /\ socket'[g] # None => g = h
    BY <1>4, <1>5 DEF PInv, SlotsAreSockets, Fresh
  <2>5. \A r \in Slots : connections'[r].registered =>
          connections'[r].fd # -1 /\ connections'[r].name = socket'[connections'[r].fd]
    <3> SUFFICES ASSUME NEW r \in Slots, connections'[r].registered
                 PROVE  connections'[r].fd # -1 /\ connections'[r].name = socket'[connections'[r].fd]
      OBVIOUS
    <3>1. r # s /\ connections'[r] = connections[r] /\ connections[r].registered
      BY <1>6
    <3>2. connections[r].fd \in Fds /\ connections[r].fd # f
      BY <1>7, <3>1 DEF PInv, PType, SlotsAreSockets, Connections
    <3>3. connections[r].name = socket[connections[r].fd]
      BY <3>1 DEF PInv, SlotsAreSockets
    <3>4. connections[r].fd # -1
      BY <3>2, Basics
    <3>. QED  BY <1>5, <3>1, <3>2, <3>3, <3>4
  <2>. QED  BY <2>1, <2>2, <2>3, <2>4, <2>5 DEF SlotsAreSockets
<1>10. NewAreFresh'
  <2>1. \A d \in Clients : d # c /\ Fresh(d) => sentTo[d] = <<>> /\ \A g \in Fds : socket'[g] # d
    BY <1>3, <1>5 DEF Fresh
  <2>2. \A d \in Clients : phase[d] = "new" => d # c /\ Fresh(d)
    BY <1>4 DEF PInv, NewAreFresh
  <2>. QED  BY <1>0, <1>2, <2>1, <2>2, HeadOfBacklog DEF NewAreFresh, Fresh
<1>11. Sane(sentTo)'
  BY <1>2, SameHistories
<1>12. Alive' => Answered(sentTo, broken)'
  BY <1>2, SameHistories
<1>13. ASSUME Alive
       PROVE  SlotsMatchHistories'
  <2>1. \A type : Told(sentTo, c, type) = {}
    BY <1>4, Basics DEF Fresh, PInv, PType
  <2>2. ASSUME NEW r \in Slots, connections'[r].fd # -1, ~connections'[r].registered
        PROVE  /\ Told(sentTo, socket'[connections'[r].fd], "registration_ack") = {}
               /\ Told(sentTo, socket'[connections'[r].fd], "peer_select") = {}
    <3>1. CASE r = s
      BY <1>5, <1>6, <2>1, <3>1
    <3>2. CASE r # s
      <4>1. socket'[connections'[r].fd] = socket[connections[r].fd]
        BY <1>5, <1>6, <1>7, <2>2, <3>2 DEF PInv, PType, Connections
      <4>. QED  BY <1>6, <1>13, <2>2, <3>2, <4>1 DEF PInv, SlotsMatchHistories
    <3>. QED  BY <3>1, <3>2
  <2>3. ASSUME NEW r \in Slots, connections'[r].registered
        PROVE  /\ Acknowledged(sentTo, connections'[r].name)
               /\ ~connections'[r].conn_send => Told(sentTo, connections'[r].name, "peer_select") = {}
    <3>1. r # s
      BY <1>6, <2>3
    <3>. QED  BY <1>6, <1>13, <2>3, <3>1 DEF PInv, SlotsMatchHistories
  <2>. QED  BY <1>2, <2>2, <2>3 DEF SlotsMatchHistories, Acknowledged, Told
<1>. QED  BY <1>2, <1>8, <1>9, <1>10, <1>11, <1>12, <1>13 DEF PInv

LEMMA CloseEffect ==
  ASSUME PInv, NEW f \in Fds, close_connection(f)
  PROVE  \/ UNCHANGED <<connections, table, socket>>
         \/ \E s \in Slots : /\ connections[s].fd = f
                             /\ table' = deregister_fd_callback(table, f)
                             /\ Sets(s, -1) /\ Opens(f, None)
<1>0. f # -1
  BY Basics
<1>1. CASE get_conn(f) = {}
  BY <1>1 DEF close_connection
<1>2. CASE get_conn(f) # {}
  <2>1. PICK s \in get_conn(f) : TRUE
    BY <1>2
  <2>2. s \in Slots /\ connections[s].fd = f /\ get_conn(f) = {s}
    BY <1>0, <2>1 DEF get_conn, PInv, SlotsAreSockets
  <2>3. /\ connections' = [r \in Slots |-> IF r \in get_conn(f)
                             THEN [connections[r] EXCEPT !.fd = -1, !.registered = FALSE, !.conn_send = FALSE]
                             ELSE connections[r]]
        /\ socket' = [socket EXCEPT ![f] = None]
        /\ table' = deregister_fd_callback(table, f)
    BY <1>2 DEF close_connection
  <2>4. Sets(s, -1)
    <3>1. connections \in [Slots -> Connections]
      BY DEF PInv, PType
    <3>2. PICK new : new = [connections[s] EXCEPT !.fd = -1, !.registered = FALSE, !.conn_send = FALSE]
      OBVIOUS
    <3>3. connections[s] \in Connections
      BY <2>2, <3>1
    <3>4. new \in Connections /\ new.fd = -1 /\ new.registered = FALSE
      BY <3>2, <3>3 DEF Connections
    <3>5. connections' = [connections EXCEPT ![s] = new]
      BY <2>2, <2>3, <3>1, <3>2
    <3>. QED  BY <2>2, <3>1, <3>4, <3>5 DEF Sets
  <2>5. Opens(f, None)
    BY <2>3 DEF PInv, PType, Opens
  <2>. QED  BY <2>2, <2>3, <2>4, <2>5
<1>. QED  BY <1>1, <1>2

LEMMA CloseKeepsPInv ==
  ASSUME PInv, NEW f \in Fds, close_connection(f),
         UNCHANGED <<backlog, sentTo, shut, unwelcome, phase, pc, fd, broken, failed>>
  PROVE  PInv'
<1>0. Alive' = Alive /\ f # -1
  BY Basics DEF Alive
<1>1. CASE UNCHANGED <<connections, table, socket>>
  BY <1>0, <1>1, QuietKeepsPInv DEF PInv, PType
<1>2. ASSUME NEW s \in Slots, connections[s].fd = f, Sets(s, -1), Opens(f, None)
      PROVE  PInv'
  <2>2. connections[s].fd = f /\ \A r \in Slots : r # s => connections[r].fd # f
    BY <1>0, <1>2 DEF PInv, SlotsAreSockets
  <2>4. /\ connections'[s].fd = -1 /\ connections'[s].registered = FALSE
        /\ \A r \in Slots : r # s => connections'[r] = connections[r]
        /\ connections' \in [Slots -> Connections]
    BY <1>2 DEF Sets
  <2>5. /\ socket'[f] = None /\ \A g \in Fds : g # f => socket'[g] = socket[g]
        /\ socket' \in [Fds -> Clients \cup {None}]
    BY <1>2 DEF Opens
  <2>6. \A r \in Slots : connections'[r].fd # -1 =>
          /\ r # s /\ connections'[r] = connections[r] /\ connections[r].fd \in Fds
          /\ socket'[connections'[r].fd] = socket[connections[r].fd]
    BY <2>2, <2>4, <2>5 DEF PInv, PType, Connections
  <2>7. \A r \in Slots : connections'[r].registered => connections'[r].fd # -1 /\ connections[r].registered
    BY <2>4 DEF PInv, SlotsAreSockets
  <2>8. PType'
    BY <2>4, <2>5 DEF PInv, PType
  <2>9. SlotsAreSockets'
    <3>1. \A r \in Slots : connections'[r].fd # -1 => socket'[connections'[r].fd] # None
      BY <2>6 DEF PInv, SlotsAreSockets
    <3>2. \A q, r \in Slots : connections'[q].fd = connections'[r].fd /\ connections'[q].fd # -1 => q = r
      BY <2>6 DEF PInv, SlotsAreSockets
    <3>3. \A g \in Fds : socket'[g] # None => \E r \in Slots : connections'[r].fd = g
      BY <2>2, <2>4, <2>5 DEF PInv, SlotsAreSockets
    <3>4. \A g, h \in Fds : socket'[g] = socket'[h] /\ socket'[g] # None => g = h
      BY <2>5 DEF PInv, SlotsAreSockets
    <3>5. \A r \in Slots : connections'[r].registered =>
            connections'[r].fd # -1 /\ connections'[r].name = socket'[connections'[r].fd]
      BY <2>6, <2>7 DEF PInv, SlotsAreSockets
    <3>. QED  BY <3>1, <3>2, <3>3, <3>4, <3>5 DEF SlotsAreSockets
  <2>10. NewAreFresh'
    <3>1. \A d \in Clients : Fresh(d) => sentTo[d] = <<>> /\ \A g \in Fds : socket'[g] # d
      BY <2>5, Basics DEF Fresh
    <3>2. \A k \in 1 .. Len(backlog) : backlog[k] \in Clients
      BY DEF PInv, PType
    <3>. QED  BY <3>1, <3>2 DEF PInv, NewAreFresh, Fresh
  <2>11. Sane(sentTo)'
    BY SameHistories
  <2>12. Alive' => Answered(sentTo, broken)'
    BY <1>0, SameHistories
  <2>13. Alive' => SlotsMatchHistories'
    <3>1. Alive => SlotsMatchHistories
      BY DEF PInv
    <3>2. \A c : \A type : Told(sentTo', c, type) = Told(sentTo, c, type)
      BY DEF Told
    <3>3. \A r \in Slots : connections'[r].registered => connections'[r] = connections[r]
      BY <2>6, <2>7
    <3>4. SlotsMatchHistories => SlotsMatchHistories'
      BY <2>6, <2>7, <3>2, <3>3 DEF SlotsMatchHistories, Acknowledged
    <3>. QED  BY <1>0, <3>1, <3>4
  <2>. QED  BY <2>8, <2>9, <2>10, <2>11, <2>12, <2>13 DEF PInv
<1>. QED  BY <1>1, <1>2, CloseEffect

-----------------------------------------------------------------------------
(* Sending. *)
Kernels == [sentTo : Histories, shut : SUBSET Clients, unwelcome : SUBSET Clients,
            failed : SUBSET broken, alive : BOOLEAN]

LEMMA KernelIsTyped ==
  ASSUME PInv
  PROVE  Kernel \in Kernels /\ Kernel.sentTo = sentTo /\ Kernel.alive
BY DEF PInv, PType, Kernel, Kernels

(* One send(): it is nothing on a closed descriptor and an attempt otherwise. *)
LEMMA SendCases ==
  ASSUME PInv, NEW k \in Kernels, NEW f, NEW msg \in Replies
  PROVE  /\ send_message(k, f, msg) \in Kernels
         /\ send_message(k, f, msg).alive => k.alive
         /\ ~IsOpen(f) \/ ~k.alive => send_message(k, f, msg).sentTo = k.sentTo
         /\ IsOpen(f) => Attempt(k.sentTo, send_message(k, f, msg), socket[f], msg)
<1>1. CASE ~k.alive \/ ~IsOpen(f)
  <2>1. send_message(k, f, msg) = k
    BY <1>1 DEF send_message
  <2>. QED  BY <1>1, <2>1 DEF Attempt
<1>2. CASE k.alive /\ IsOpen(f) /\ socket[f] \in k.failed
  <2>1. send_message(k, f, msg) = [k EXCEPT !.failed = @ \ {socket[f]}]
    BY <1>2 DEF send_message
  <2>2. k.failed \ {socket[f]} \in SUBSET broken /\ socket[f] \in broken
    BY <1>2 DEF Kernels
  <2>3. PICK k2 : k2 = [k EXCEPT !.failed = @ \ {socket[f]}]
    OBVIOUS
  <2>4. k2 \in Kernels /\ k2.sentTo = k.sentTo /\ k2.alive = k.alive
    BY <2>2, <2>3 DEF Kernels
  <2>. QED  BY <1>2, <2>1, <2>2, <2>3, <2>4 DEF Attempt
<1>3. CASE k.alive /\ IsOpen(f) /\ socket[f] \notin k.failed /\ socket[f] \in k.shut \cup broken
  <2>1. send_message(k, f, msg) = [k EXCEPT !.alive = FALSE]
    BY <1>3 DEF send_message
  <2>2. PICK dead : dead = [k EXCEPT !.alive = FALSE]
    OBVIOUS
  <2>3. dead \in Kernels /\ dead.sentTo = k.sentTo /\ ~dead.alive
    BY <2>2 DEF Kernels
  <2>. QED  BY <1>3, <2>1, <2>2, <2>3 DEF Attempt
<1>4. CASE k.alive /\ IsOpen(f) /\ socket[f] \notin k.failed /\ socket[f] \notin k.shut \cup broken
  <2>1. PICK c \in Clients : c = socket[f]
    BY <1>4 DEF IsOpen, PInv, PType
  <2>2. PICK T \in Histories : T = Tell(k.sentTo, c, msg)
    BY TellAdds DEF Kernels
  <2>3. PICK w \in SUBSET Clients : w = k.unwelcome \cup {d \in {c} : phase[d] = "closed"}
    BY DEF Kernels
  <2>4. send_message(k, f, msg) = [k EXCEPT !.sentTo = T, !.unwelcome = w]
    BY <1>4, <2>1, <2>2, <2>3 DEF send_message, Kernels, Tell
  <2>5. PICK k2 : k2 = [k EXCEPT !.sentTo = T, !.unwelcome = w]
    OBVIOUS
  <2>6. k2 \in Kernels /\ k2.sentTo = T /\ k2.alive = k.alive
    BY <2>5 DEF Kernels
  <2>. QED  BY <1>4, <2>1, <2>2, <2>4, <2>5, <2>6 DEF Attempt
<1>. QED  BY <1>1, <1>2, <1>3, <1>4

LEMMA ShutdownCases ==
  ASSUME PInv, NEW k \in Kernels, NEW f
  PROVE  /\ Shutdown(k, f) \in Kernels
         /\ Shutdown(k, f).sentTo = k.sentTo
         /\ Shutdown(k, f).alive = k.alive
<1>1. CASE ~ (k.alive /\ IsOpen(f))
  <2>1. Shutdown(k, f) = k
    BY <1>1 DEF Shutdown
  <2>. QED  BY <2>1
<1>2. CASE k.alive /\ IsOpen(f)
  <2>0. socket[f] \in Clients
    BY <1>2 DEF IsOpen, PInv, PType
  <2>1. PICK w \in SUBSET Clients : w = k.shut \cup {socket[f]}
    <3>1. k.shut \in SUBSET Clients
      BY DEF Kernels
    <3>. QED  BY <2>0, <3>1
  <2>2. PICK k2 : k2 = [k EXCEPT !.shut = w]
    OBVIOUS
  <2>3. Shutdown(k, f) = k2
    BY <1>2, <2>1, <2>2 DEF Shutdown
  <2>4. k2 \in Kernels /\ k2.sentTo = k.sentTo /\ k2.alive = k.alive
    BY <2>2 DEF Kernels
  <2>. QED  BY <2>3, <2>4
<1>. QED  BY <1>1, <1>2

(* What has to be shown of a callback that sends and marks slots. *)
LEMMA OutputKeepsPInv ==
  ASSUME PInv, NEW k \in Kernels, Commit(k), UNCHANGED <<socket, backlog, phase, fd, broken>>,
         connections' \in [Slots -> Connections],
         \A s \in Slots : /\ connections'[s].fd = connections[s].fd
                          /\ connections'[s].registered =>
                               /\ connections[s].fd # -1
                               /\ connections'[s].name = socket[connections[s].fd],
         \A c \in Clients : Fresh(c) => k.sentTo[c] = <<>>,
         Sane(k.sentTo),
         k.alive => Answered(k.sentTo, broken) /\ SlotsMatchHistories'
  PROVE  PInv'
<1>1. /\ sentTo' = k.sentTo /\ shut' = k.shut /\ unwelcome' = k.unwelcome
      /\ failed' = k.failed /\ pc' = IF k.alive THEN pc ELSE "SIGPIPE"
  BY DEF Commit
<1>2. PType'
  BY <1>1 DEF PInv, PType, Kernels
<1>3. SlotsAreSockets'
  BY DEF PInv, SlotsAreSockets
<1>4. NewAreFresh'
  <2>1. \A i \in 1 .. Len(backlog) : backlog[i] \in Clients
    BY DEF PInv, PType
  <2>2. \A c \in Clients : Fresh(c) => Fresh(c)'
    BY <1>1 DEF Fresh
  <2>. QED  BY <2>1, <2>2 DEF PInv, NewAreFresh
<1>5. Sane(sentTo)'
  <2>1. PICK S : S = k.sentTo /\ sentTo' = S /\ Sane(S)
    BY <1>1
  <2>. QED  BY <2>1 DEF Sane, Told, PeerMessage
<1>6. Alive' => k.alive
  BY <1>1 DEF Alive
<1>7. Alive' => Answered(sentTo, broken)'
  <2>1. PICK S, L : S = k.sentTo /\ sentTo' = S /\ L = broken /\ broken' = L /\ (k.alive => Answered(S, L))
    BY <1>1
  <2>. QED  BY <1>6, <2>1 DEF Answered, Told
<1>. QED  BY <1>2, <1>3, <1>4, <1>5, <1>6, <1>7 DEF PInv

(* The answers that are neither an acknowledged registration nor a peer. *)
LEMMA AnswerKeepsPInv ==
  ASSUME PInv, Alive, NEW msg \in Replies, msg.type \notin {"registration_ack", "peer_select"},
         Commit(send_message(Kernel, fd, msg)),
         UNCHANGED <<connections, socket, backlog, phase, fd, broken>>
  PROVE  PInv'
<1>1. PICK k : k = send_message(Kernel, fd, msg)
  OBVIOUS
<1>2. k \in Kernels /\ Commit(k)
  BY <1>1, KernelIsTyped, SendCases
<1>3. k.sentTo = sentTo \/ (IsOpen(fd) /\ k.sentTo = Tell(sentTo, socket[fd], msg))
  <2>1. Kernel.sentTo = sentTo /\ (~IsOpen(fd) => k.sentTo = Kernel.sentTo)
        /\ (IsOpen(fd) => Attempt(Kernel.sentTo, k, socket[fd], msg))
    BY <1>1, KernelIsTyped, SendCases
  <2>. QED  BY <2>1 DEF Attempt
<1>4. sentTo \in Histories /\ Sane(sentTo) /\ Answered(sentTo, broken) /\ SlotsMatchHistories
  BY DEF PInv, PType
<1>5. IsOpen(fd) => socket[fd] \in Clients /\ fd \in Fds
  BY DEF IsOpen, PInv, PType
<1>6. /\ Sane(k.sentTo) /\ Answered(k.sentTo, broken)
      /\ \A d \in Clients, type \in {"registration_ack", "peer_select"} :
           Told(k.sentTo, d, type) = Told(sentTo, d, type)
  <2>1. CASE k.sentTo = sentTo
    BY <1>4, <2>1
  <2>2. CASE IsOpen(fd) /\ k.sentTo = Tell(sentTo, socket[fd], msg)
    BY <1>4, <1>5, <2>2, OtherMessageKeeps
  <2>. QED  BY <1>3, <2>1, <2>2
<1>7. \A c \in Clients : Fresh(c) => k.sentTo[c] = <<>>
  BY <1>3, <1>4, <1>5, TellAdds DEF Fresh
<1>8. sentTo' = k.sentTo
  BY <1>2 DEF Commit
<1>9. \A s \in Slots : connections[s].fd # -1 => socket[connections[s].fd] \in Clients
  BY DEF PInv, PType, Connections, SlotsAreSockets
<1>10. SlotsMatchHistories'
  <2> SUFFICES ASSUME NEW s \in Slots
               PROVE  /\ connections[s].fd # -1 /\ ~connections[s].registered =>
                           /\ Told(k.sentTo, socket[connections[s].fd], "registration_ack") = {}
                           /\ Told(k.sentTo, socket[connections[s].fd], "peer_select") = {}
                      /\ connections[s].registered =>
                           /\ Told(k.sentTo, connections[s].name, "registration_ack") # {} \/ connections[s].name \in broken
                           /\ ~connections[s].conn_send => Told(k.sentTo, connections[s].name, "peer_select") = {}
    BY <1>8 DEF SlotsMatchHistories, Acknowledged
  <2>1. connections[s].registered => connections[s].fd # -1 /\ connections[s].name \in Clients
    BY <1>9 DEF PInv, SlotsAreSockets
  <2>. QED  BY <1>4, <1>6, <1>9, <2>1 DEF SlotsMatchHistories, Acknowledged
<1>11. connections \in [Slots -> Connections]
  BY DEF PInv, PType
<1>. QED  BY <1>2, <1>6, <1>7, <1>10, <1>11, OutputKeepsPInv DEF PInv, SlotsAreSockets

LEMMA OtherCallbacksKeepPInv ==
  ASSUME PInv, OnRegistrationRejected \/ OnHeartbeat \/ OnDefault
  PROVE  PInv'
<1>1. PICK msg : /\ msg \in {[type |-> "registration_error_ack"], [type |-> "heartbeat_ack"], [type |-> "error"]}
                 /\ Commit(send_message(Kernel, fd, msg))
  BY DEF OnRegistrationRejected, OnHeartbeat, OnDefault
<1>2. msg \in Replies /\ msg.type \notin {"registration_ack", "peer_select"}
  BY <1>1 DEF Replies
<1>3. Alive /\ UNCHANGED <<connections, socket, backlog, phase, fd, broken>>
  BY DEF OnRegistrationRejected, OnHeartbeat, OnDefault, Handles, peers, Alive
<1>. QED  BY <1>1, <1>2, <1>3, AnswerKeepsPInv

LEMMA ClosingCallbacksKeepPInv ==
  ASSUME PInv, OnPeerSelectAck \/ \E i \in Index, s \in Slots : ReceiveEnd(i, s)
  PROVE  PInv'
<1>1. CASE OnPeerSelectAck
  <2>1. /\ close_connection(fd) /\ pc = "drain"
        /\ UNCHANGED <<backlog, sentTo, shut, unwelcome, phase, pc, fd, broken, failed>>
    BY <1>1 DEF OnPeerSelectAck, Handles, peers, output
  <2>2. fd \in Fds
    BY <2>1 DEF PInv, PType
  <2>. QED  BY <2>1, <2>2, CloseKeepsPInv
<1>2. ASSUME NEW i \in Index, NEW s \in Slots, ReceiveEnd(i, s)
      PROVE  PInv'
  <2>1. /\ close_connection(connections[s].fd) /\ connections[s].fd \in Fds
        /\ UNCHANGED <<backlog, sentTo, shut, unwelcome, phase, pc, fd, broken, failed>>
    BY <1>2 DEF ReceiveEnd, Receives, IsOpen, peers, output, resets
  <2>. QED  BY <2>1, CloseKeepsPInv
<1>. QED  BY <1>1, <1>2

-----------------------------------------------------------------------------
(* on_registration with the right password. *)
Matches(conns, S) ==
  \A s \in Slots :
    /\ conns[s].fd # -1 /\ ~conns[s].registered =>
         /\ Told(S, socket[conns[s].fd], "registration_ack") = {}
         /\ Told(S, socket[conns[s].fd], "peer_select") = {}
    /\ conns[s].registered =>
         /\ Acknowledged(S, conns[s].name)
         /\ ~conns[s].conn_send => Told(S, conns[s].name, "peer_select") = {}

WithName(s, c) == [connections EXCEPT ![s].registered = TRUE, ![s].name = c]

LEMMA RegisteringMatches ==
  ASSUME PInv, Alive, NEW s \in Slots, connections[s].fd = fd, fd \in Fds, ~connections[s].registered,
         NEW msg \in Replies, msg.type = "registration_ack",
         NEW conns, conns = WithName(s, socket[fd]),
         NEW S, S = Tell(sentTo, socket[fd], msg) \/ (S = sentTo /\ socket[fd] \in broken)
  PROVE  /\ S \in Histories /\ Sane(S) /\ Answered(S, broken) /\ Matches(conns, S)
         /\ conns \in [Slots -> Connections]
         /\ \A r \in Slots : conns[r].fd = connections[r].fd
         /\ \A r \in Slots : conns[r].registered =>
              connections[r].fd # -1 /\ conns[r].name = socket[connections[r].fd]
         /\ \A c \in Clients : Fresh(c) => S[c] = <<>>
<1>1. PICK c \in Clients : c = socket[fd]
  BY Basics DEF PInv, PType, SlotsAreSockets
<1>2. connections \in [Slots -> Connections] /\ connections[s] \in Connections /\ sentTo \in Histories
  BY DEF PInv, PType
<1>3. PICK new : new = [connections[s] EXCEPT !.registered = TRUE, !.name = c]
  OBVIOUS
<1>4. new \in Connections /\ new.fd = fd /\ new.registered = TRUE /\ new.name = c
  BY <1>2, <1>3 DEF Connections
<1>5. conns = [connections EXCEPT ![s] = new]
  BY <1>1, <1>2, <1>3 DEF WithName
<1>6. /\ conns \in [Slots -> Connections] /\ conns[s] = new
      /\ \A r \in Slots : r # s => conns[r] = connections[r]
  BY <1>2, <1>4, <1>5
<1>7. fd # -1 /\ \A r \in Slots : r # s => connections[r].fd # fd
  BY Basics DEF PInv, SlotsAreSockets
<1>8. \A r \in Slots : r # s /\ connections[r].fd # -1 =>
        socket[connections[r].fd] \in Clients /\ socket[connections[r].fd] # c
  BY <1>1, <1>2, <1>7 DEF PInv, PType, SlotsAreSockets, Connections
<1>9. Told(sentTo, c, "registration_ack") = {} /\ Told(sentTo, c, "peer_select") = {}
  BY <1>1, <1>7 DEF PInv, SlotsMatchHistories
<1>10. /\ S \in Histories /\ Sane(S) /\ Answered(S, broken)
       /\ \A d \in Clients : Told(S, d, "peer_select") = Told(sentTo, d, "peer_select")
       /\ \A d \in Clients : d # c => Told(S, d, "registration_ack") = Told(sentTo, d, "registration_ack")
       /\ Acknowledged(S, c)
  <2>1. Sane(sentTo) /\ Answered(sentTo, broken)
    BY DEF PInv
  <2>2. CASE S = Tell(sentTo, c, msg)
    BY <1>2, <1>9, <2>1, <2>2, RegistrationAckKeeps, TellAdds DEF Acknowledged
  <2>3. CASE S = sentTo /\ c \in broken
    BY <1>2, <2>1, <2>3 DEF Acknowledged
  <2>. QED  BY <1>1, <2>2, <2>3
<1>11. Matches(conns, S)
  <2> SUFFICES ASSUME NEW r \in Slots
               PROVE  /\ conns[r].fd # -1 /\ ~conns[r].registered =>
                           /\ Told(S, socket[conns[r].fd], "registration_ack") = {}
                           /\ Told(S, socket[conns[r].fd], "peer_select") = {}
                      /\ conns[r].registered =>
                           /\ Acknowledged(S, conns[r].name)
                           /\ ~conns[r].conn_send => Told(S, conns[r].name, "peer_select") = {}
    BY DEF Matches
  <2>1. CASE r = s
    BY <1>4, <1>6, <1>9, <1>10, <2>1
  <2>2. CASE r # s
    <3>1. connections[r].registered =>
            connections[r].fd # -1 /\ connections[r].name = socket[connections[r].fd]
      BY DEF PInv, SlotsAreSockets
    <3>2. conns[r] = connections[r]
      BY <1>6, <2>2
    <3>3. connections[r].fd # -1 =>
            /\ Told(S, socket[connections[r].fd], "registration_ack")
                 = Told(sentTo, socket[connections[r].fd], "registration_ack")
            /\ Told(S, socket[connections[r].fd], "peer_select")
                 = Told(sentTo, socket[connections[r].fd], "peer_select")
      BY <1>8, <1>10, <2>2
    <3>. QED  BY <3>1, <3>2, <3>3 DEF PInv, SlotsMatchHistories, Acknowledged
  <2>. QED  BY <2>1, <2>2
<1>12. \A r \in Slots : /\ conns[r].fd = connections[r].fd
                        /\ conns[r].registered => /\ connections[r].fd # -1
                                                  /\ conns[r].name = socket[connections[r].fd]
  BY <1>1, <1>4, <1>6, <1>7 DEF PInv, SlotsAreSockets
<1>13. \A d \in Clients : Fresh(d) => S[d] = <<>>
  BY <1>1, <1>2, TellAdds DEF Fresh
<1>. QED  BY <1>6, <1>10, <1>11, <1>12, <1>13

LEMMA PeerMessageIsReply == \A c \in Clients, n \in 0 .. 1 : PeerMessage(c, n) \in Replies
BY DEF Replies, PeerMessage

(* The two attempts of an introduction; the shutdowns say nothing. *)
Introduced(K, k, a, b) ==
  /\ K \in Kernels
  /\ ~k.alive => K.sentTo = k.sentTo
  /\ K.alive => k.alive
  /\ \E k1, k2 : /\ Attempt(k.sentTo, k1, b, PeerMessage(a, 0))
                 /\ Attempt(k1.sentTo, k2, a, PeerMessage(b, 1))
                 /\ k2.alive => k1.alive
                 /\ K.sentTo = k2.sentTo /\ K.alive = k2.alive

LEMMA IntroduceCases ==
  ASSUME PInv, NEW k \in Kernels, NEW x \in Connections, NEW y \in Connections,
         IsOpen(x.fd), IsOpen(y.fd), x.name = socket[x.fd], y.name = socket[y.fd]
  PROVE  Introduced(Introduce(k, x, y), k, x.name, y.name)
<1>1. x.name \in Clients /\ y.name \in Clients
  BY DEF IsOpen, PInv, PType
<1>2. PICK toY \in Replies, toX \in Replies :
        /\ toY = peer_select_msg(x, 0) /\ toY = PeerMessage(x.name, 0)
        /\ toX = peer_select_msg(y, 1) /\ toX = PeerMessage(y.name, 1)
  <2>1. peer_select_msg(x, 0) = PeerMessage(x.name, 0) /\ peer_select_msg(y, 1) = PeerMessage(y.name, 1)
    BY DEF peer_select_msg, PeerMessage
  <2>. QED  BY <1>1, <2>1, PeerMessageIsReply
<1>3. PICK k1 : k1 = send_message(k, y.fd, toY)
  OBVIOUS
<1>4. /\ k1 \in Kernels /\ (k1.alive => k.alive) /\ (~k.alive => k1.sentTo = k.sentTo)
      /\ Attempt(k.sentTo, k1, y.name, toY)
  BY <1>3, SendCases
<1>5. PICK k2 : k2 = send_message(k1, x.fd, toX)
  OBVIOUS
<1>6. /\ k2 \in Kernels /\ (k2.alive => k1.alive) /\ (~k1.alive => k2.sentTo = k1.sentTo)
      /\ Attempt(k1.sentTo, k2, x.name, toX)
  BY <1>4, <1>5, SendCases
<1>7. PICK k3 : k3 = Shutdown(k2, x.fd)
  OBVIOUS
<1>8. k3 \in Kernels /\ k3.sentTo = k2.sentTo /\ k3.alive = k2.alive
  BY <1>6, <1>7, ShutdownCases
<1>9. PICK k4 : k4 = Shutdown(k3, y.fd)
  OBVIOUS
<1>10. k4 \in Kernels /\ k4.sentTo = k3.sentTo /\ k4.alive = k3.alive
  BY <1>8, <1>9, ShutdownCases
<1>11. Introduce(k, x, y) = k4
  BY <1>2, <1>3, <1>5, <1>7, <1>9 DEF Introduce
<1>. QED  BY <1>2, <1>4, <1>6, <1>8, <1>10, <1>11 DEF Introduced

LEMMA RegistrationKeepsPInv ==
  ASSUME PInv, OnRegistrationAccepted
  PROVE  PInv'
<1>1. PICK msg \in Replies : msg = [type |-> "registration_ack"] /\ msg.type = "registration_ack"
  <2>1. [type |-> "registration_ack"] \in Replies
    BY DEF Replies
  <2>. QED  BY <2>1
<1>2. PICK s \in Unregistered(fd) :
        connect_clients(WithName(s, socket[fd]), send_message(Kernel, fd, msg))
  BY <1>1 DEF OnRegistrationAccepted, WithName
<1>3. PICK conns, k : /\ conns = WithName(s, socket[fd])
                      /\ k = send_message(Kernel, fd, msg)
                      /\ connect_clients(conns, k)
  BY <1>2
<1>4. Alive /\ fd \in Fds /\ UNCHANGED <<socket, backlog, phase, fd, broken>>
  BY DEF OnRegistrationAccepted, Handles, peers, Alive, PInv, PType
<1>5. s \in Slots /\ connections[s].fd = fd /\ ~connections[s].registered
  BY <1>2 DEF Unregistered, get_conn
<1>6. PICK S : /\ S = Tell(sentTo, socket[fd], msg) \/ (S = sentTo /\ socket[fd] \in broken)
               /\ k \in Kernels
               /\ k.sentTo = S \/ (k.sentTo = sentTo /\ ~k.alive)
  <2>1. IsOpen(fd)
    BY <1>4, <1>5, Basics DEF IsOpen, PInv, SlotsAreSockets
  <2>2. k \in Kernels /\ Attempt(sentTo, k, socket[fd], msg)
    BY <1>3, <2>1, KernelIsTyped, SendCases
  <2>. QED  BY <2>2 DEF Attempt
<1>7. /\ S \in Histories /\ Sane(S) /\ Answered(S, broken) /\ Matches(conns, S)
      /\ conns \in [Slots -> Connections]
      /\ \A c \in Clients : Fresh(c) => S[c] = <<>>
  BY <1>1, <1>3, <1>4, <1>5, <1>6, RegisteringMatches
<1>8. /\ \A r \in Slots : conns[r].fd = connections[r].fd
      /\ \A r \in Slots : conns[r].registered =>
           connections[r].fd # -1 /\ conns[r].name = socket[connections[r].fd]
  BY <1>1, <1>3, <1>4, <1>5, <1>6, RegisteringMatches
<1>9. k \in Kernels /\ k.sentTo \in {sentTo, S} /\ (k.alive => k.sentTo = S)
  BY <1>6
<1>10. sentTo \in Histories /\ Sane(sentTo) /\ \A c \in Clients : Fresh(c) => sentTo[c] = <<>>
  BY DEF PInv, PType, Fresh
<1>11. CASE ~CanPair(conns)
  <2>1. connections' = conns /\ Commit(k)
    BY <1>3, <1>11 DEF connect_clients
  <2>2. sentTo' = k.sentTo
    BY <2>1 DEF Commit
  <2>3. k.alive => Answered(k.sentTo, broken) /\ SlotsMatchHistories'
    <3>1. k.alive => SlotsMatchHistories'
      BY <1>4, <1>7, <1>9, <2>1, <2>2 DEF SlotsMatchHistories, Matches, Acknowledged
    <3>. QED  BY <1>7, <1>9, <3>1
  <2>4. Sane(k.sentTo) /\ \A c \in Clients : Fresh(c) => k.sentTo[c] = <<>>
    BY <1>7, <1>9, <1>10
  <2>. QED  BY <1>4, <1>7, <1>8, <1>9, <2>1, <2>3, <2>4, OutputKeepsPInv
<1>12. CASE CanPair(conns)
  <2>1. /\ connections' = [r \in Slots |-> [conns[r] EXCEPT !.conn_send = TRUE]]
        /\ Commit(Introduce(k, conns[0], conns[1]))
    BY <1>3, <1>12 DEF connect_clients
  <2>2. \A r \in Slots : /\ conns[r].registered /\ ~conns[r].conn_send /\ conns[r] \in Connections
                         /\ conns[r].fd \in Fds /\ conns[r].fd = connections[r].fd
                         /\ conns[r].name = socket[conns[r].fd]
    <3>1. \A r \in Slots : conns[r].registered /\ ~conns[r].conn_send
      BY <1>12 DEF CanPair
    <3>2. \A r \in Slots : conns[r] \in Connections
      BY <1>7
    <3>. QED  BY <1>8, <3>1, <3>2 DEF Connections
  <2>3. \A r \in Slots : IsOpen(conns[r].fd) /\ conns[r].name \in Clients
    BY <2>2, Basics DEF IsOpen, PInv, PType, SlotsAreSockets
  <2>4. 0 \in Slots /\ 1 \in Slots
    BY DEF Slots
  <2>5. PICK a \in Clients, b \in Clients : a = conns[0].name /\ b = conns[1].name
    BY <2>3, <2>4
  <2>6. a # b
    <3>1. connections[0].fd # connections[1].fd
      BY <2>2, <2>4, Basics DEF PInv, SlotsAreSockets
    <3>. QED  BY <2>2, <2>3, <2>4, <2>5, <3>1 DEF IsOpen, PInv, SlotsAreSockets
  <2>7. Introducible(S, a) /\ Introducible(S, b)
    BY <1>7, <2>2, <2>4, <2>5 DEF Matches, Introducible
  <2>8. PICK K : K = Introduce(k, conns[0], conns[1])
    OBVIOUS
  <2>9. Introduced(K, k, a, b)
    <3>1. PICK x \in Connections, y \in Connections : x = conns[0] /\ y = conns[1]
      BY <2>2, <2>4
    <3>2. /\ IsOpen(x.fd) /\ IsOpen(y.fd) /\ x.name = a /\ y.name = b
          /\ x.name = socket[x.fd] /\ y.name = socket[y.fd]
      BY <2>2, <2>3, <2>4, <2>5, <3>1
    <3>3. Introduced(Introduce(k, x, y), k, x.name, y.name)
      BY <1>9, <3>2, IntroduceCases
    <3>. QED  BY <2>8, <3>1, <3>2, <3>3
  <2>10. \A c \in Clients : Fresh(c) => c \notin {a, b}
    BY <2>2, <2>4, <2>5 DEF Fresh
  <2>11. ASSUME k.sentTo = S
         PROVE  /\ Sane(K.sentTo) /\ (K.alive => Answered(K.sentTo, broken))
                /\ \A c \in Clients : Fresh(c) => K.sentTo[c] = <<>>
                /\ \A d \in Clients : Told(K.sentTo, d, "registration_ack") = Told(S, d, "registration_ack")
    <3>1. PICK k1, k2 : /\ Attempt(S, k1, b, PeerMessage(a, 0))
                        /\ Attempt(k1.sentTo, k2, a, PeerMessage(b, 1))
                        /\ k2.alive => k1.alive
                        /\ K.sentTo = k2.sentTo /\ K.alive = k2.alive
      BY <2>9, <2>11 DEF Introduced
    <3>2. /\ k2.sentTo \in Histories /\ Sane(k2.sentTo) /\ (k2.alive => Answered(k2.sentTo, broken))
          /\ \A d \in Clients : Told(k2.sentTo, d, "registration_ack") = Told(S, d, "registration_ack")
          /\ \A d \in Clients : d \notin {a, b} => k2.sentTo[d] = S[d]
      BY <1>7, <2>6, <2>7, <3>1, IntroductionKeeps
    <3>. QED  BY <1>7, <2>10, <3>1, <3>2
  <2>12. ASSUME k.sentTo # S
         PROVE  /\ Sane(K.sentTo) /\ ~K.alive
                /\ \A c \in Clients : Fresh(c) => K.sentTo[c] = <<>>
    <3>1. K.sentTo = sentTo /\ ~K.alive
      BY <1>6, <2>9, <2>12 DEF Introduced
    <3>. QED  BY <1>10, <3>1
  <2>13. K \in Kernels
    BY <2>9 DEF Introduced
  <2>14. Sane(K.sentTo) /\ (\A c \in Clients : Fresh(c) => K.sentTo[c] = <<>>)
         /\ (K.alive => Answered(K.sentTo, broken))
         /\ (K.alive => \A d \in Clients :
               Told(K.sentTo, d, "registration_ack") = Told(S, d, "registration_ack"))
    BY <2>11, <2>12
  <2>15. /\ connections' \in [Slots -> Connections]
         /\ \A r \in Slots : /\ connections'[r].fd = connections[r].fd
                              /\ connections'[r].registered /\ connections'[r].conn_send
                              /\ connections'[r].name = conns[r].name
    <3>1. \A r \in Slots : /\ [conns[r] EXCEPT !.conn_send = TRUE] \in Connections
                           /\ [conns[r] EXCEPT !.conn_send = TRUE].fd = conns[r].fd
                           /\ [conns[r] EXCEPT !.conn_send = TRUE].registered
                           /\ [conns[r] EXCEPT !.conn_send = TRUE].conn_send
                           /\ [conns[r] EXCEPT !.conn_send = TRUE].name = conns[r].name
      BY <2>2 DEF Connections
    <3>. QED  BY <2>1, <2>2, <3>1
  <2>16. Commit(K) /\ sentTo' = K.sentTo
    BY <2>1, <2>8 DEF Commit
  <2>17. K.alive => SlotsMatchHistories'
    <3>1. K.alive => \A r \in Slots : Told(K.sentTo, connections'[r].name, "registration_ack") # {}
                                    \/ connections'[r].name \in broken
      BY <2>2, <2>3, <2>14, <2>15, <1>7 DEF Matches, Acknowledged
    <3>. QED  BY <1>4, <2>15, <2>16, <3>1 DEF SlotsMatchHistories, Acknowledged
  <2>18. \A r \in Slots : connections[r].fd # -1 /\ connections'[r].name = socket[connections[r].fd]
    BY <2>2, <2>15, <1>8
  <2>. QED  BY <1>4, <2>13, <2>14, <2>15, <2>16, <2>17, <2>18, OutputKeepsPInv
<1>. QED  BY <1>11, <1>12

-----------------------------------------------------------------------------
LEMMA NextKeepsPInv ==
  ASSUME PInv, [Next]_vars
  PROVE  PInv'
<1>1. CASE HandleEvent
  BY <1>1, QuietActions, OtherCallbacksKeepPInv, RegistrationKeepsPInv, ClosingCallbacksKeepPInv,
     AcceptKeepsPInv, NoSlotKeepsPInv DEF HandleEvent, Message
<1>2. CASE Environment
  BY <1>2, QuietActions, ConnectKeepsPInv DEF Environment
<1>3. CASE UNCHANGED vars
  BY <1>3, QuietActions
<1>. QED  BY <1>1, <1>2, <1>3 DEF Next

THEOREM PInvHolds == Spec => []PInv
<1>1. Init => PInv
  BY InitPInv
<1>2. PInv /\ [Next]_vars => PInv'
  BY NextKeepsPInv
<1>. QED  BY <1>1, <1>2, PTL DEF Spec

LEMMA AtMostOne ==
  ASSUME NEW T, \A i, j \in T : i = j
  PROVE  Cardinality(T) <= 1
<1>1. CASE T = {}
  BY <1>1, FS_EmptySet
<1>2. CASE T # {}
  <2>1. PICK i \in T : TRUE
    BY <1>2
  <2>2. T = {i}
    BY <2>1
  <2>3. Cardinality({i}) = 1
    BY FS_Singleton
  <2>. QED  BY <2>2, <2>3
<1>. QED  BY <1>1, <1>2

(* connect_clients introduces two clients to each other and to no one else, for
   whatever clients do and however connections end: one peer each, not oneself,
   with the opposite part, and told too unless its connection was reset. *)
THEOREM PairingIsMutual == Spec => []PairsAreMutual
<1>1. PInv => PairsAreMutual
  <2> SUFFICES ASSUME PInv, NEW c \in Clients
               PROVE  /\ Cardinality(Told(sentTo, c, "peer_select")) <= 1
                      /\ \A i \in Told(sentTo, c, "peer_select") :
                           /\ sentTo[c][i].name # c
                           /\ \A j \in Told(sentTo, sentTo[c][i].name, "peer_select") :
                                sentTo[sentTo[c][i].name][j] = PeerMessage(c, 1 - sentTo[c][i].start)
                           /\ Alive /\ sentTo[c][i].name \notin broken =>
                                Told(sentTo, sentTo[c][i].name, "peer_select") # {}
    BY DEF PairsAreMutual, Sent, Told, PeerMessage
  <2>1. \A i, j \in Told(sentTo, c, "peer_select") : i = j
    BY DEF PInv, Sane
  <2>2. \A i \in Told(sentTo, c, "peer_select") :
          /\ sentTo[c][i].name # c
          /\ \A j \in Told(sentTo, sentTo[c][i].name, "peer_select") :
               sentTo[sentTo[c][i].name][j] = PeerMessage(c, 1 - sentTo[c][i].start)
    BY DEF PInv, Sane
  <2>3. Alive => Answered(sentTo, broken)
    BY DEF PInv
  <2>. QED  BY <2>1, <2>2, <2>3, AtMostOne DEF Answered
<1>. QED  BY <1>1, PInvHolds, PTL

(* on_registration acknowledges a connection once, and connect_clients sends a
   peer only to a connection that was acknowledged. *)
THEOREM RegistrationIsOnce == Spec => []RegisteredOnceThenPaired
<1>1. PInv => RegisteredOnceThenPaired
  <2> SUFFICES ASSUME PInv, NEW c \in Clients
               PROVE  /\ Cardinality(Told(sentTo, c, "registration_ack")) <= 1
                      /\ \A j \in Told(sentTo, c, "peer_select") :
                           \E i \in Told(sentTo, c, "registration_ack") : i < j
    BY DEF RegisteredOnceThenPaired, Sent, Told
  <2>1. \A i, j \in Told(sentTo, c, "registration_ack") : i = j
    BY DEF PInv, Sane
  <2>. QED  BY <2>1, AtMostOne DEF PInv, Sane
<1>. QED  BY <1>1, PInvHolds, PTL

-----------------------------------------------------------------------------
(* The slots, the table and the descriptors. *)
Watchable == Fds \cup {Listener}

Handlers == Slots \cup {OnAcceptable}

Story ==
  /\ Sound(Watchable, Handlers, table)
  /\ Registered(table) = {Listener} \cup {f \in Fds : socket[f] # None}
  /\ \A s \in Slots : connections[s].fd # -1 =>
       \E i \in Index : table.cb[i] = [fd |-> connections[s].fd, callback |-> s]
  /\ \A i \in Index : table.cb[i].fd \in Fds =>
       table.cb[i].callback \in Slots /\ connections[table.cb[i].callback].fd = table.cb[i].fd
  /\ table.cb[0] = [fd |-> Listener, callback |-> OnAcceptable]

LEMMA WatchableBasics ==
  /\ Watchable \subseteq Nat /\ Listener \in Watchable /\ Listener # -1 /\ Listener \notin Fds
  /\ \A f \in Fds : f \in Watchable /\ f > 0 /\ f # -1
  /\ OnAcceptable \in Handlers /\ \A s \in Slots : s \in Handlers
  /\ FD_SETSIZE \in Nat /\ {0, 1, 2} \subseteq Index
BY FdsAssumption, FdSetSizeAssumption DEF Watchable, Handlers, Index

LEMMA WrittenRegisters ==
  ASSUME NEW D, NEW C, NEW t, Sound(D, C, t), NEW i \in Index, NEW f \in D, NEW callback \in C,
         t.cb[i].fd = -1, Entries(t, f) = {}
  PROVE  /\ Sound(D, C, Written(t, i, f, callback))
         /\ Registered(Written(t, i, f, callback)) = Registered(t) \cup {f}
         /\ Written(t, i, f, callback).cb[i] = [fd |-> f, callback |-> callback]
         /\ \A j \in Index : j # i => Written(t, i, f, callback).cb[j] = t.cb[j]
<1> DEFINE u == Written(t, i, f, callback)
<1>1. Sound(D, C, u)
  BY WrittenIsSound
<1>2. u.read_fds = t.read_fds \cup {f}
  BY DEF Written
<1>3. u.read_fds = Registered(u) /\ t.read_fds = Registered(t)
  BY <1>1 DEF Sound, Consistent
<1>4. u.cb[i] = [fd |-> f, callback |-> callback] /\ \A j \in Index : j # i => u.cb[j] = t.cb[j]
  BY FdsAreNumbers DEF Written
<1>. QED  BY <1>1, <1>2, <1>3, <1>4

LEMMA ClearedUnregisters ==
  ASSUME NEW D, NEW C, NEW t, Sound(D, C, t), NEW i \in Index, NEW f \in D, t.cb[i].fd = f
  PROVE  /\ Sound(D, C, Cleared(t, i, f))
         /\ Registered(Cleared(t, i, f)) = Registered(t) \ {f}
         /\ Cleared(t, i, f).cb[i] = Unused
         /\ \A j \in Index : j # i => Cleared(t, i, f).cb[j] = t.cb[j]
<1> DEFINE u == Cleared(t, i, f)
<1>1. Sound(D, C, u)
  BY ClearedIsSound
<1>2. u.read_fds = t.read_fds \ {f}
  BY DEF Cleared
<1>3. u.read_fds = Registered(u) /\ t.read_fds = Registered(t)
  BY <1>1 DEF Sound, Consistent
<1>4. u.cb[i] = Unused /\ \A j \in Index : j # i => u.cb[j] = t.cb[j]
  BY FdsAreNumbers DEF Cleared, ClearEntry
<1>. QED  BY <1>1, <1>2, <1>3, <1>4

LEMMA InitStory == Init => Story
<1> SUFFICES ASSUME Init
             PROVE  Story
  OBVIOUS
<1>1. /\ Sound(Watchable, Handlers, init_cblib)
      /\ \A i \in Index : init_cblib.cb[i] = Unused /\ init_cblib.cb[i].fd = -1
      /\ Registered(init_cblib) = {}
  BY WatchableBasics, InitSound DEF init_cblib, Unused, Registered
<1>2. Entries(init_cblib, -1) = Index /\ Entries(init_cblib, Listener) = {}
  BY <1>1, WatchableBasics DEF Entries
<1>3. First(Index) = 0
  <2>1. First(Index) \in Index /\ \A i \in Index : First(Index) <= i
    BY WatchableBasics, FirstIsLeast
  <2>. QED  BY <2>1, WatchableBasics DEF Index
<1>4. table = Written(init_cblib, 0, Listener, OnAcceptable)
  <2>1. table = Enter(init_cblib, Listener, OnAcceptable)
    BY FdsAssumption DEF Init, register_fd_callback
  <2>. QED  BY <1>2, <1>3, <2>1, WatchableBasics DEF Enter, Add, Written
<1>5. /\ Sound(Watchable, Handlers, table) /\ Registered(table) = {Listener}
      /\ table.cb[0] = [fd |-> Listener, callback |-> OnAcceptable]
      /\ \A j \in Index : j # 0 => table.cb[j] = Unused
  BY <1>1, <1>2, <1>4, WatchableBasics, WrittenRegisters
<1>6. (\A s \in Slots : connections[s].fd = -1) /\ \A f \in Fds : socket[f] = None
  BY DEF Init
<1>7. \A i \in Index : table.cb[i].fd \notin Fds
  BY <1>5, WatchableBasics DEF Unused
<1>. QED  BY <1>5, <1>6, <1>7 DEF Story

LEMMA QuietStory ==
  ASSUME Story, UNCHANGED <<table, socket>>, \A s \in Slots : connections'[s].fd = connections[s].fd
  PROVE  Story'
BY DEF Story, Sound, TablesOver, Consistent, Registered, Watchable, Handlers

(* There is room in the table for the connection of a free slot. *)
LEMMA FreeEntry ==
  ASSUME Story, NEW s \in Slots, connections[s].fd = -1
  PROVE  Entries(table, -1) # {}
<1> SUFFICES ASSUME \A i \in Index : table.cb[i].fd # -1
             PROVE  FALSE
  BY DEF Entries
<1>1. \A i \in Index : table.cb[i].fd \in Watchable
  BY DEF Story, Sound, TablesOver
<1>2. table.cb[0].fd = Listener /\ \A i, j \in Index : table.cb[i].fd = table.cb[j].fd => i = j
  BY DEF Story, Sound, Consistent
<1>3. \A i \in {1, 2} : table.cb[i].fd \in Fds
  BY <1>1, <1>2, WatchableBasics DEF Watchable
<1>4. \A i \in {1, 2} : /\ table.cb[i].callback \in Slots
                        /\ connections[table.cb[i].callback].fd = table.cb[i].fd
                        /\ table.cb[i].callback # s
  BY <1>3, WatchableBasics DEF Story
<1>5. table.cb[1].callback = table.cb[2].callback
  BY <1>4 DEF Slots
<1>6. table.cb[1].fd = table.cb[2].fd
  BY <1>4, <1>5
<1>. QED  BY <1>2, <1>6, WatchableBasics

(* After on_acceptable an entry that was free holds the connection. *)
LEMMA AcceptTable ==
  ASSUME PInv, Story, NEW i \in Index, OnAcceptableSlot(i)
  PROVE  \E s \in Slots, f \in Fds, j \in Index :
           /\ connections[s].fd = -1 /\ socket[f] = None /\ table.cb[j].fd = -1
           /\ Sets(s, f) /\ Opens(f, Head(backlog))
           /\ Sound(Watchable, Handlers, table') /\ Registered(table') = Registered(table) \cup {f}
           /\ table'.cb[j] = [fd |-> f, callback |-> s]
           /\ \A k \in Index : k # j => table'.cb[k] = table.cb[k]
<1>1. PICK s \in Slots, f \in Fds :
        /\ connections[s].fd = -1 /\ socket[f] = None
        /\ table' = register_fd_callback(table, f, s)
        /\ Sets(s, f) /\ Opens(f, Head(backlog))
  BY AcceptEffect
<1>2. Entries(table, f) = {}
  <2>1. f \notin Registered(table)
    BY <1>1, WatchableBasics DEF Story
  <2>. QED  BY <2>1, WatchableBasics DEF Registered, Entries
<1>3. table' = Enter(table, f, s)
  <2>1. f \in Nat /\ f > 0
    BY FdsAssumption
  <2>. QED  BY <1>1, <2>1 DEF register_fd_callback
<1>4. PICK j \in Index : table.cb[j].fd = -1 /\ table' = Written(table, j, f, s)
  <2>1. First(Entries(table, -1)) \in Index /\ table.cb[First(Entries(table, -1))].fd = -1
    BY <1>1, FreeEntry, FirstIsLeast DEF Entries
  <2>. QED  BY <1>1, <1>2, <1>3, <2>1, FreeEntry DEF Enter, Add, Written
<1>5. /\ Sound(Watchable, Handlers, table') /\ Registered(table') = Registered(table) \cup {f}
      /\ table'.cb[j] = [fd |-> f, callback |-> s]
      /\ \A k \in Index : k # j => table'.cb[k] = table.cb[k]
  BY <1>2, <1>4, WatchableBasics, WrittenRegisters DEF Story
<1>. QED  BY <1>1, <1>4, <1>5

LEMMA AcceptKeepsStory ==
  ASSUME PInv, Story, NEW i \in Index, OnAcceptableSlot(i)
  PROVE  Story'
<1>1. PICK s \in Slots, f \in Fds, j \in Index :
        /\ connections[s].fd = -1 /\ socket[f] = None /\ table.cb[j].fd = -1
        /\ Sets(s, f) /\ Opens(f, Head(backlog))
        /\ Sound(Watchable, Handlers, table') /\ Registered(table') = Registered(table) \cup {f}
        /\ table'.cb[j] = [fd |-> f, callback |-> s]
        /\ \A k \in Index : k # j => table'.cb[k] = table.cb[k]
  BY AcceptTable
<1>2. /\ connections'[s].fd = f /\ \A r \in Slots : r # s => connections'[r] = connections[r]
      /\ socket'[f] # None /\ \A g \in Fds : g # f => socket'[g] = socket[g]
  <2>1. Head(backlog) \in Clients
    BY HeadOfBacklog DEF OnAcceptableSlot
  <2>. QED  BY <1>1, <2>1, Basics DEF Sets, Opens
<1>3. Registered(table') = {Listener} \cup {g \in Fds : socket'[g] # None}
  BY <1>1, <1>2 DEF Story
<1>4. \A r \in Slots : connections'[r].fd # -1 =>
        \E k \in Index : table'.cb[k] = [fd |-> connections'[r].fd, callback |-> r]
  <2> TAKE r \in Slots
  <2> HAVE connections'[r].fd # -1
  <2>1. CASE r = s
    BY <1>1, <1>2, <2>1
  <2>2. CASE r # s
    <3>1. PICK k \in Index : table.cb[k] = [fd |-> connections[r].fd, callback |-> r]
      BY <1>2, <2>2 DEF Story
    <3>2. k # j
      BY <1>1, <1>2, <2>2, <3>1
    <3>. QED  BY <1>1, <1>2, <2>2, <3>1, <3>2
  <2>. QED  BY <2>1, <2>2
<1>5. \A k \in Index : table'.cb[k].fd \in Fds =>
        table'.cb[k].callback \in Slots /\ connections'[table'.cb[k].callback].fd = table'.cb[k].fd
  <2> TAKE k \in Index
  <2> HAVE table'.cb[k].fd \in Fds
  <2>1. CASE k = j
    BY <1>1, <1>2, <2>1
  <2>2. CASE k # j
    <3>1. PICK r \in Slots : table.cb[k].callback = r /\ connections[r].fd = table.cb[k].fd
      BY <1>1, <2>2 DEF Story
    <3>2. r # s
      BY <1>1, <2>2, <3>1, WatchableBasics
    <3>. QED  BY <1>1, <1>2, <2>2, <3>1, <3>2
  <2>. QED  BY <2>1, <2>2
<1>6. table'.cb[0] = [fd |-> Listener, callback |-> OnAcceptable]
  <2>1. j # 0
    BY <1>1, WatchableBasics DEF Story
  <2>. QED  BY <1>1, <2>1, WatchableBasics DEF Story
<1>7. Sound(Watchable, Handlers, table)' /\ Registered(table)' = Registered(table')
  BY <1>1 DEF Sound, TablesOver, Consistent, Registered, Watchable, Handlers
<1>. QED  BY <1>3, <1>4, <1>5, <1>6, <1>7 DEF Story

(* After close_connection the entry of the descriptor is free. *)
LEMMA CloseTable ==
  ASSUME PInv, Story, NEW f \in Fds, close_connection(f)
  PROVE  \/ UNCHANGED <<connections, table, socket>>
         \/ \E s \in Slots, i \in Index :
              /\ connections[s].fd = f /\ table.cb[i].fd = f
              /\ Sets(s, -1) /\ Opens(f, None)
              /\ Sound(Watchable, Handlers, table') /\ Registered(table') = Registered(table) \ {f}
              /\ table'.cb[i] = Unused /\ \A j \in Index : j # i => table'.cb[j] = table.cb[j]
<1> SUFFICES ASSUME NEW s \in Slots, connections[s].fd = f,
                    table' = deregister_fd_callback(table, f), Sets(s, -1), Opens(f, None)
             PROVE  \E i \in Index :
                      /\ table.cb[i].fd = f
                      /\ Sound(Watchable, Handlers, table') /\ Registered(table') = Registered(table) \ {f}
                      /\ table'.cb[i] = Unused /\ \A j \in Index : j # i => table'.cb[j] = table.cb[j]
  BY CloseEffect
<1>1. f \in Nat /\ f > 0 /\ f # -1 /\ f \in Watchable
  BY FdsAssumption DEF Watchable
<1>2. table' = Remove(table, f)
  BY <1>1 DEF deregister_fd_callback
<1>3. Sound(Watchable, Handlers, table)
  BY DEF Story
<1>4. Entries(table, f) # {}
  <2>1. PICK j \in Index : table.cb[j] = [fd |-> connections[s].fd, callback |-> s]
    BY <1>1 DEF Story
  <2>. QED  BY <2>1 DEF Entries
<1>5. PICK i \in Index : table.cb[i].fd = f /\ Remove(table, f) = Cleared(table, i, f)
  BY <1>1, <1>3, <1>4, RemoveCases
<1>. QED  BY <1>1, <1>2, <1>3, <1>5, ClearedUnregisters

LEMMA CloseKeepsStory ==
  ASSUME PInv, Story, NEW f \in Fds, close_connection(f)
  PROVE  Story'
<1>1. CASE UNCHANGED <<connections, table, socket>>
  BY <1>1, QuietStory
<1>2. ASSUME NEW s \in Slots, NEW i \in Index,
             connections[s].fd = f, table.cb[i].fd = f, Sets(s, -1), Opens(f, None),
             Sound(Watchable, Handlers, table'), Registered(table') = Registered(table) \ {f},
             table'.cb[i] = Unused, \A j \in Index : j # i => table'.cb[j] = table.cb[j]
      PROVE  Story'
  <2>0. f # -1 /\ f # Listener
    BY WatchableBasics
  <2>1. /\ connections'[s].fd = -1 /\ \A r \in Slots : r # s => connections'[r] = connections[r]
        /\ socket'[f] = None /\ \A g \in Fds : g # f => socket'[g] = socket[g]
    BY <1>2 DEF Sets, Opens
  <2>2. Registered(table') = {Listener} \cup {g \in Fds : socket'[g] # None}
    BY <1>2, <2>0, <2>1 DEF Story
  <2>3. \A r \in Slots : connections'[r].fd # -1 =>
          \E k \in Index : table'.cb[k] = [fd |-> connections'[r].fd, callback |-> r]
    <3> TAKE r \in Slots
    <3> HAVE connections'[r].fd # -1
    <3>1. r # s /\ connections'[r] = connections[r]
      BY <2>1
    <3>2. connections[r].fd # f
      BY <1>2, <2>0, <3>1 DEF PInv, SlotsAreSockets
    <3>3. PICK k \in Index : table.cb[k] = [fd |-> connections[r].fd, callback |-> r]
      BY <3>1 DEF Story
    <3>4. k # i
      BY <1>2, <3>2, <3>3
    <3>. QED  BY <1>2, <3>1, <3>3, <3>4
  <2>4. \A k \in Index : table'.cb[k].fd \in Fds =>
          table'.cb[k].callback \in Slots /\ connections'[table'.cb[k].callback].fd = table'.cb[k].fd
    <3> TAKE k \in Index
    <3> HAVE table'.cb[k].fd \in Fds
    <3>1. k # i /\ table'.cb[k] = table.cb[k]
      BY <1>2, WatchableBasics DEF Unused
    <3>2. PICK r \in Slots : table.cb[k].callback = r /\ connections[r].fd = table.cb[k].fd
      BY <3>1 DEF Story
    <3>3. table.cb[k].fd # f
      BY <1>2, <2>0, <3>1 DEF Story, Sound, Consistent
    <3>4. r # s
      BY <1>2, <3>2, <3>3
    <3>. QED  BY <2>1, <3>1, <3>2, <3>4
  <2>5. table'.cb[0] = [fd |-> Listener, callback |-> OnAcceptable]
    <3>1. i # 0
      BY <1>2, <2>0 DEF Story
    <3>. QED  BY <1>2, <3>1, WatchableBasics DEF Story
  <2>6. Sound(Watchable, Handlers, table)' /\ Registered(table)' = Registered(table')
    BY <1>2 DEF Sound, TablesOver, Consistent, Registered, Watchable, Handlers
  <2>. QED  BY <2>2, <2>3, <2>4, <2>5, <2>6 DEF Story
<1>. QED  BY <1>1, <1>2, CloseTable

LEMMA RegistrationKeepsFds ==
  ASSUME PInv, OnRegistrationAccepted
  PROVE  \A r \in Slots : connections'[r].fd = connections[r].fd
<1>1. PICK s \in Slots : connect_clients(WithName(s, socket[fd]),
                                        send_message(Kernel, fd, [type |-> "registration_ack"]))
  BY DEF OnRegistrationAccepted, Unregistered, get_conn, WithName
<1>2. PICK conns : conns = WithName(s, socket[fd])
  OBVIOUS
<1>3. /\ \A r \in Slots : conns[r].fd = connections[r].fd
      /\ conns \in [Slots -> [fd : Fds \cup {-1}, registered : BOOLEAN, conn_send : BOOLEAN,
                              name : {socket[fd]} \cup Clients \cup {None}]]
  <2>1. connections \in [Slots -> Connections] /\ connections[s] \in Connections
    BY DEF PInv, PType
  <2>2. PICK n : n = socket[fd]
    OBVIOUS
  <2>3. PICK new : new = [connections[s] EXCEPT !.registered = TRUE, !.name = n]
    OBVIOUS
  <2>4. /\ new \in [fd : Fds \cup {-1}, registered : BOOLEAN, conn_send : BOOLEAN,
                  name : {n} \cup Clients \cup {None}]
        /\ new.fd = connections[s].fd
    BY <2>1, <2>3 DEF Connections
  <2>5. conns = [connections EXCEPT ![s] = new]
    BY <1>2, <2>1, <2>2, <2>3 DEF WithName
  <2>. QED  BY <2>1, <2>2, <2>4, <2>5 DEF Connections
<1>4. CASE ~CanPair(conns)
  BY <1>1, <1>2, <1>3, <1>4 DEF connect_clients
<1>5. CASE CanPair(conns)
  <2>1. connections' = [r \in Slots |-> [conns[r] EXCEPT !.conn_send = TRUE]]
    BY <1>1, <1>2, <1>5 DEF connect_clients
  <2>. QED  BY <1>3, <2>1
<1>. QED  BY <1>4, <1>5

LEMMA NextKeepsStory ==
  ASSUME PInv, Story, [Next]_vars
  PROVE  Story'
<1>1. CASE Select \/ WalkEnds \/ DrainEnds \/ UNCHANGED vars
  BY <1>1, QuietStory DEF Select, WalkEnds, DrainEnds, vars
<1>2. CASE OnRegistrationIgnored \/ OnRegistrationRejected \/ OnHeartbeat \/ OnDefault
  BY <1>2, QuietStory DEF OnRegistrationIgnored, OnRegistrationRejected, OnHeartbeat, OnDefault
<1>3. CASE OnRegistrationAccepted
  BY <1>3, RegistrationKeepsFds, QuietStory DEF OnRegistrationAccepted
<1>4. CASE OnPeerSelectAck
  <2>1. close_connection(fd) /\ fd \in Fds
    BY <1>4 DEF OnPeerSelectAck, Handles, PInv, PType
  <2>. QED  BY <2>1, CloseKeepsStory
<1>5. ASSUME NEW i \in Index, OnAcceptableSlot(i) \/ OnAcceptableNoSlot(i)
      PROVE  Story'
  BY <1>5, AcceptKeepsStory, QuietStory DEF OnAcceptableNoSlot
<1>6. ASSUME NEW i \in Index, NEW s \in Slots, ReceiveData(i, s) \/ ReceiveError(i, s)
      PROVE  Story'
  BY <1>6, QuietStory DEF ReceiveData, ReceiveError
<1>7. ASSUME NEW i \in Index, NEW s \in Slots, ReceiveEnd(i, s)
      PROVE  Story'
  <2>1. close_connection(connections[s].fd) /\ connections[s].fd \in Fds
    BY <1>7 DEF ReceiveEnd, Receives, IsOpen
  <2>. QED  BY <2>1, CloseKeepsStory
<1>8. CASE Environment
  BY <1>8, QuietStory DEF Environment, Connect, ClientSend, Leave, Abort, Reset
<1>. QED  BY <1>1, <1>2, <1>3, <1>4, <1>5, <1>6, <1>7, <1>8 DEF Next, HandleEvent, Message

-----------------------------------------------------------------------------
(* The types of what PInv leaves out. *)
LocalType ==
  /\ rset \subseteq Watchable /\ idx \in 0 .. FD_SETSIZE /\ fd \in Fds \cup {-1}
  /\ buffer \in Seq(Kinds) /\ inbox \in [Clients -> Seq(Kinds)] /\ sent \in [Clients -> 0 .. MaxSent]
  /\ pc = "drain" => idx \in Index

(* The entry whose callback is called. *)
LEMMA CalledEntry ==
  ASSUME NEW i \in Index, NEW callback, Calls(i, callback)
  PROVE  /\ pc = "walk" /\ i >= idx /\ Dispatches(table, rset, i) /\ table.cb[i].callback = callback
         /\ i \in 0 .. FD_SETSIZE /\ i + 1 \in 0 .. FD_SETSIZE
<1>1. i \in Pending(table, rset, idx)
  <2>1. Pending(table, rset, idx) \in SUBSET Index
    BY DEF Pending
  <2>. QED  BY <2>1, FirstIsLeast DEF Calls
<1>. QED  BY <1>1, FdSetSizeAssumption DEF Pending, Calls, Index

(* The callback of a slot is called at the entry of its descriptor. *)
LEMMA CalledSlot ==
  ASSUME Story, NEW i \in Index, NEW s \in Slots, Calls(i, s)
  PROVE  table.cb[i].fd \in Fds /\ connections[s].fd = table.cb[i].fd
<1>1. Dispatches(table, rset, i) /\ table.cb[i].callback = s
  BY CalledEntry
<1>2. s # OnAcceptable
  BY CallbackAssumption
<1>3. table.cb[i].fd # -1 /\ table.cb[i].fd \in Watchable \cup {-1}
  BY <1>1 DEF Dispatches, Story, Sound, TablesOver
<1>4. table.cb[i].fd # Listener
  <2> SUFFICES ASSUME table.cb[i].fd = Listener
               PROVE  FALSE
    OBVIOUS
  <2>1. table.cb[0] = [fd |-> Listener, callback |-> OnAcceptable] /\ 0 \in Index
    BY WatchableBasics DEF Story
  <2>2. i = 0
    BY <1>3, <2>1 DEF Story, Sound, Consistent
  <2>. QED  BY <1>1, <1>2, <2>1, <2>2
<1>5. table.cb[i].fd \in Fds
  BY <1>3, <1>4 DEF Watchable
<1>. QED  BY <1>1, <1>5 DEF Story

LEMMA WatchedAreOpen ==
  ASSUME Story
  PROVE  BadFds = {} /\ table.read_fds \subseteq Watchable /\ ReadyFds \subseteq table.read_fds
<1>1. table.read_fds = {Listener} \cup {f \in Fds : socket[f] # None}
  BY DEF Story, Sound, Consistent
<1>. QED  BY <1>1 DEF BadFds, ReadyFds, Watched, IsOpen, Watchable

LEMMA NextKeepsLocalType ==
  ASSUME PInv, Story, LocalType, [Next]_vars
  PROVE  LocalType'
<1>0. MaxSent \in Nat /\ FD_SETSIZE \in Nat
  BY ClientsAssumption, WatchableBasics
<1>1. CASE Select
  <2>1. rset' \subseteq Watchable
    BY <1>1, WatchedAreOpen DEF Select
  <2>. QED  BY <1>0, <1>1, <2>1 DEF Select, LocalType, peers, Watchable
<1>2. CASE WalkEnds \/ UNCHANGED vars
  BY <1>0, <1>2 DEF WalkEnds, LocalType, peers, loop, vars, Watchable
<1>3. CASE DrainEnds
  <2>1. idx' \in 0 .. FD_SETSIZE
    BY <1>0, <1>3 DEF DrainEnds, LocalType, Index
  <2>. QED  BY <1>0, <1>3, <2>1 DEF DrainEnds, LocalType, peers, Watchable
<1>4. CASE Message
  <2>1. /\ buffer # <<>> /\ buffer' = Tail(buffer)
        /\ UNCHANGED <<rset, idx, fd, inbox, sent>> /\ pc = "drain"
    BY <1>4 DEF Message, OnRegistrationIgnored, OnRegistrationRejected, OnRegistrationAccepted,
                OnPeerSelectAck, OnHeartbeat, OnDefault, Handles, peers
  <2>2. buffer' \in Seq(Kinds)
    BY <2>1 DEF LocalType
  <2>. QED  BY <2>1, <2>2 DEF LocalType, Watchable
<1>5. ASSUME NEW i \in Index, OnAcceptableSlot(i)
      PROVE  LocalType'
  BY <1>5, CalledEntry DEF OnAcceptableSlot, LocalType, Watchable
<1>6. ASSUME NEW i \in Index, OnAcceptableNoSlot(i)
      PROVE  LocalType'
  BY <1>6 DEF OnAcceptableNoSlot, LocalType, Watchable
<1>7. ASSUME NEW i \in Index, NEW s \in Slots, ReceiveData(i, s)
      PROVE  LocalType'
  <2>1. PICK c \in Clients : c = Peer(s)
    BY <1>7 DEF ReceiveData, Receives, IsOpen, Peer, PInv, PType
  <2>2. PICK n \in 1 .. Len(inbox[c]) : /\ buffer' = SubSeq(inbox[c], 1, n)
                                       /\ inbox' = [inbox EXCEPT ![c] = SubSeq(@, n + 1, Len(@))]
    BY <1>7, <2>1 DEF ReceiveData
  <2>3. inbox[c] \in Seq(Kinds)
    BY DEF LocalType
  <2>4. SubSeq(inbox[c], 1, n) \in Seq(Kinds) /\ SubSeq(inbox[c], n + 1, Len(inbox[c])) \in Seq(Kinds)
    BY <2>3
  <2>5. fd' \in Fds /\ idx' = i /\ UNCHANGED <<rset, sent>>
    BY <1>7 DEF ReceiveData, Receives, IsOpen
  <2>6. idx' \in 0 .. FD_SETSIZE /\ idx' \in Index
    BY <1>7, <2>5, CalledEntry DEF ReceiveData, Receives
  <2>7. inbox' \in [Clients -> Seq(Kinds)]
    BY <2>2, <2>4 DEF LocalType
  <2>. QED  BY <2>2, <2>4, <2>5, <2>6, <2>7 DEF LocalType, Watchable
<1>8. ASSUME NEW i \in Index, NEW s \in Slots, ReceiveError(i, s)
      PROVE  LocalType'
  <2>1. i + 1 \in 0 .. FD_SETSIZE /\ pc = "walk"
    BY <1>8, CalledEntry DEF ReceiveError, Receives
  <2>. QED  BY <1>8, <2>1 DEF ReceiveError, LocalType, peers, Watchable
<1>9. ASSUME NEW i \in Index, NEW s \in Slots, ReceiveEnd(i, s)
      PROVE  LocalType'
  <2>1. i + 1 \in 0 .. FD_SETSIZE /\ pc = "walk"
    BY <1>9, CalledEntry DEF ReceiveEnd, Receives
  <2>. QED  BY <1>9, <2>1 DEF ReceiveEnd, LocalType, peers, Watchable
<1>10. ASSUME NEW c \in Clients, NEW kind \in Kinds, ClientSend(c, kind)
       PROVE  LocalType'
  <2>1. inbox' = [inbox EXCEPT ![c] = Append(@, kind)] /\ sent' = [sent EXCEPT ![c] = @ + 1] /\ sent[c] < MaxSent
        /\ UNCHANGED <<rset, idx, fd, buffer>>
    BY <1>10 DEF ClientSend, loop
  <2>2. Append(inbox[c], kind) \in Seq(Kinds)
    <3>1. inbox[c] \in Seq(Kinds)
      BY DEF LocalType
    <3>. QED  BY <3>1
  <2>4. sent[c] + 1 \in 0 .. MaxSent
    <3>1. sent[c] \in 0 .. MaxSent
      BY DEF LocalType
    <3>. QED  BY <1>0, <2>1, <3>1
  <2>3. inbox' \in [Clients -> Seq(Kinds)] /\ sent' \in [Clients -> 0 .. MaxSent]
    BY <2>1, <2>2, <2>4 DEF LocalType
  <2>. QED  BY <1>10, <2>1, <2>3 DEF ClientSend, loop, LocalType, Watchable
<1>11. ASSUME NEW c \in Clients, Connect(c) \/ Leave(c) \/ Reset(c)
       PROVE  LocalType'
  BY <1>11 DEF Connect, Leave, Reset, LocalType, loop, peers, PInv, PType, Watchable
<1>12. ASSUME NEW c \in Clients, Abort(c)
       PROVE  LocalType'
  <2>1. inbox' \in [Clients -> Seq(Kinds)]
    <3>1. <<>> \in Seq(Kinds)
      OBVIOUS
    <3>2. CASE UNCHANGED inbox
      BY <3>2 DEF LocalType
    <3>3. CASE inbox' = [inbox EXCEPT ![c] = <<>>]
      BY <3>1, <3>3 DEF LocalType
    <3>. QED  BY <1>12, <3>2, <3>3 DEF Abort
  <2>. QED  BY <1>12, <2>1 DEF Abort, LocalType, loop, Watchable
<1>. QED  BY <1>1, <1>2, <1>3, <1>4, <1>5, <1>6, <1>7, <1>8, <1>9, <1>10, <1>11, <1>12
          DEF Next, HandleEvent, Environment

LEMMA InitLocalType == Init => LocalType
<1> SUFFICES ASSUME Init
             PROVE  LocalType
  OBVIOUS
<1>1. <<>> \in Seq(Kinds) /\ 0 \in 0 .. MaxSent /\ 0 \in 0 .. FD_SETSIZE
  BY ClientsAssumption, WatchableBasics
<1>. QED  BY <1>1 DEF Init, LocalType, Watchable

-----------------------------------------------------------------------------
(* What the walk through the ready set still has before it is ready. *)
Ready(f) == (f = Listener \/ IsOpen(f)) /\ IsReadable(f)

Served(from) == \A i \in Index : i >= from /\ Dispatches(table, rset, i) => Ready(table.cb[i].fd)

Serving ==
  /\ pc = "walk" => Served(idx)
  /\ pc = "drain" => Served(idx + 1)
  /\ pc = "walk" /\ idx = 0 => rset \subseteq Registered(table)

(* What a client or the network does makes nothing unready. *)
LEMMA EnvironmentKeepsReady ==
  ASSUME PInv, LocalType, Environment, NEW f \in Watchable, Ready(f)
  PROVE  Ready(f)'
<1>1. UNCHANGED socket /\ \A c \in Clients : phase[c] = "closed" => phase'[c] = "closed"
  BY DEF Environment, Connect, ClientSend, Leave, Abort, Reset, peers, output, PInv, PType
<1>2. broken \subseteq broken'
  BY DEF Environment, Connect, ClientSend, Leave, Abort, Reset, resets
<1>3. backlog # <<>> => backlog' # <<>>
  <2>1. \A c \in Clients : Append(backlog, c) # <<>>
    BY DEF PInv, PType
  <2>. QED  BY <2>1 DEF Environment, Connect, ClientSend, Leave, Abort, Reset, peers
<1>4. \A c \in Clients : inbox[c] # <<>> => inbox'[c] # <<>> \/ phase'[c] = "closed"
  <2>1. ASSUME NEW d \in Clients, NEW kind \in Kinds, ClientSend(d, kind)
        PROVE  \A c \in Clients : inbox[c] # <<>> => inbox'[c] # <<>>
    <3>1. inbox' = [inbox EXCEPT ![d] = Append(@, kind)] /\ inbox \in [Clients -> Seq(Kinds)]
      BY <2>1 DEF ClientSend, LocalType
    <3>2. Append(inbox[d], kind) # <<>>
      BY <3>1
    <3>. QED  BY <3>1, <3>2
  <2>2. ASSUME NEW d \in Clients, Abort(d)
        PROVE  \A c \in Clients : inbox[c] # <<>> => inbox'[c] # <<>> \/ phase'[c] = "closed"
    <3>1. phase'[d] = "closed" /\ \A c \in Clients : c # d => inbox'[c] = inbox[c]
      BY <2>2 DEF Abort, PInv, PType, LocalType
    <3>. QED  BY <3>1
  <2>3. ASSUME NEW d \in Clients, Connect(d) \/ Leave(d) \/ Reset(d)
        PROVE  UNCHANGED inbox
    BY <2>3 DEF Connect, Leave, Reset, peers
  <2>. QED  BY <2>1, <2>2, <2>3 DEF Environment
<1>5. CASE f = Listener
  BY <1>3, <1>5 DEF Ready, IsReadable
<1>6. CASE f # Listener
  <2>1. f \in Fds /\ socket[f] # None /\ socket[f] \in Clients
    BY <1>6 DEF Ready, IsOpen, PInv, PType
  <2>. QED  BY <1>1, <1>2, <1>4, <1>6, <2>1 DEF Ready, IsOpen, IsReadable
<1>. QED  BY <1>5, <1>6

LEMMA SelectServes ==
  ASSUME Story, Select
  PROVE  Serving'
<1>1. rset' = ReadyFds /\ rset' \subseteq table.read_fds /\ table' = table /\ pc' = "walk"
  BY WatchedAreOpen DEF Select
<1>2. \A f \in rset' : Ready(f)' <=> Ready(f)
  BY DEF Select, Ready, IsOpen, IsReadable, peers, resets
<1>3. \A f \in rset' : Ready(f)
  BY <1>1 DEF ReadyFds, Ready
<1>4. Registered(table)' = Registered(table) /\ table.read_fds = Registered(table)
  BY <1>1 DEF Registered, Story, Sound, Consistent
<1>. QED  BY <1>1, <1>2, <1>3, <1>4 DEF Serving, Served, Dispatches

LEMMA ServedLater ==
  ASSUME LocalType, NEW n \in Nat, NEW m \in Nat, m >= n, Served(n)
  PROVE  Served(m)
<1>1. \A i \in Index : i >= m => i >= n
  BY FdSetSizeAssumption DEF Index
<1>. QED  BY <1>1 DEF Served

(* A callback that leaves the table alone and makes nothing unready. *)
LEMMA SameTableServes ==
  ASSUME Story, NEW n \in Nat, Served(n), UNCHANGED <<table, rset>>,
         \A i \in Index : \A f :
           i >= n /\ Dispatches(table, rset, i) /\ f = table.cb[i].fd /\ Ready(f) => Ready(f)'
  PROVE  Served(n)'
<1> SUFFICES ASSUME NEW i \in Index, i >= n, Dispatches(table', rset', i)
             PROVE  Ready(table.cb[i].fd)'
  BY DEF Served
<1>1. PICK f : f = table.cb[i].fd
  OBVIOUS
<1>2. Ready(f)'
  BY <1>1 DEF Served
<1>3. f = table'.cb[i].fd
  BY <1>1
<1>. QED  BY <1>2, <1>3

LEMMA SameInputsSameReady ==
  ASSUME UNCHANGED <<socket, backlog, inbox, phase, broken>>, NEW f, Ready(f)
  PROVE  Ready(f)'
BY DEF Ready, IsOpen, IsReadable

LEMMA CloseServes ==
  ASSUME PInv, Story, NEW f \in Fds, close_connection(f), UNCHANGED <<rset, peers, broken>>,
         NEW n \in Nat, Served(n)
  PROVE  Served(n)'
<1>0. UNCHANGED <<backlog, inbox, phase, broken>>
  BY DEF peers
<1>1. CASE UNCHANGED <<connections, table, socket>>
  BY <1>0, <1>1, SameInputsSameReady, SameTableServes
<1>2. ASSUME NEW s \in Slots, NEW i \in Index,
             table.cb[i].fd = f, Opens(f, None),
             table'.cb[i] = Unused, \A j \in Index : j # i => table'.cb[j] = table.cb[j]
      PROVE  Served(n)'
  <2> SUFFICES ASSUME NEW k \in Index, k >= n, Dispatches(table', rset', k)
               PROVE  Ready(table.cb[k].fd)'
    BY DEF Served
  <2>1. k # i /\ table'.cb[k] = table.cb[k]
    BY <1>2 DEF Dispatches, Unused
  <2>2. Dispatches(table, rset, k) /\ Ready(table.cb[k].fd)
    BY <2>1 DEF Dispatches, Served
  <2>3. PICK g : g = table.cb[k].fd
    OBVIOUS
  <2>4. g # f
    BY <1>2, <2>1, <2>3, WatchableBasics DEF Story, Sound, Consistent
  <2>5. Ready(g)'
    BY <1>0, <1>2, <2>2, <2>3, <2>4 DEF Ready, IsOpen, IsReadable, Opens
  <2>6. g = table'.cb[k].fd
    BY <2>1, <2>3
  <2>. QED  BY <2>5, <2>6
<1>. QED  BY <1>1, <1>2, CloseTable

LEMMA AcceptServes ==
  ASSUME PInv, Story, LocalType, Serving, NEW i \in Index, OnAcceptableSlot(i)
  PROVE  Serving'
<1>1. /\ pc = "walk" /\ i >= idx /\ Dispatches(table, rset, i) /\ table.cb[i].callback = OnAcceptable
      /\ Calls(i, OnAcceptable)
  BY CalledEntry DEF OnAcceptableSlot
<1>2. table.cb[i].fd = Listener
  <2>1. table.cb[i].fd # -1 /\ table.cb[i].fd \in Watchable \cup {-1}
    BY <1>1 DEF Dispatches, Story, Sound, TablesOver
  <2>2. table.cb[i].fd \notin Fds
    BY <1>1, CallbackAssumption DEF Story
  <2>. QED  BY <2>1, <2>2 DEF Watchable
<1>3. i = 0
  <2>1. table.cb[0].fd = Listener /\ 0 \in Index
    BY WatchableBasics DEF Story
  <2>. QED  BY <1>2, <2>1, WatchableBasics DEF Story, Sound, Consistent
<1>4. idx = 0 /\ rset \subseteq Registered(table) /\ Served(0)
  <2>1. idx = 0
    BY <1>1, <1>3 DEF LocalType
  <2>. QED  BY <1>1, <2>1 DEF Serving
<1>5. PICK s \in Slots, f \in Fds, j \in Index :
        /\ socket[f] = None /\ Opens(f, Head(backlog))
        /\ table'.cb[j] = [fd |-> f, callback |-> s]
        /\ \A k \in Index : k # j => table'.cb[k] = table.cb[k]
  BY AcceptTable
<1>6. f \notin rset
  BY <1>4, <1>5, WatchableBasics DEF Story
<1>7. pc' = "walk" /\ idx' = 1 /\ rset' = rset /\ UNCHANGED <<inbox, phase, broken>>
  BY <1>1, <1>3 DEF OnAcceptableSlot, resets
<1>8. ASSUME NEW k \in Index, k >= 1, Dispatches(table', rset', k)
      PROVE  Ready(table.cb[k].fd)'
  <2>1. k # j /\ table'.cb[k] = table.cb[k]
    BY <1>5, <1>6, <1>7, <1>8 DEF Dispatches
  <2>2. k >= 0 /\ Dispatches(table, rset, k)
    BY <1>7, <1>8, <2>1 DEF Dispatches, Index
  <2>3. Ready(table.cb[k].fd)
    BY <1>4, <2>2 DEF Served
  <2>4. PICK g : g = table.cb[k].fd
    OBVIOUS
  <2>5. g # Listener
    <3>1. k # 0
      BY <1>8 DEF Index
    <3>. QED  BY <1>2, <1>3, <2>4, <3>1, WatchableBasics DEF Story, Sound, Consistent
  <2>6. g \in Fds /\ socket[g] # None
    BY <2>3, <2>4, <2>5 DEF Ready, IsOpen
  <2>7. Ready(g)'
    BY <1>5, <1>7, <2>3, <2>4, <2>5, <2>6 DEF Ready, IsOpen, IsReadable, Opens
  <2>8. g = table'.cb[k].fd
    BY <2>1, <2>4
  <2>. QED  BY <2>7, <2>8
<1>9. Served(1)'
  BY <1>8 DEF Served
<1>. QED  BY <1>7, <1>9 DEF Serving

(* The messages of one client are taken from the others' by no one. *)
LEMMA ReceivingServes ==
  ASSUME PInv, Story, LocalType, Serving, NEW i \in Index, NEW s \in Slots, ReceiveData(i, s)
  PROVE  Serving'
<1>1. /\ pc = "walk" /\ i >= idx /\ Calls(i, s) /\ pc' = "drain" /\ idx' = i
      /\ UNCHANGED <<table, rset, socket, backlog, phase, broken>>
  BY CalledEntry DEF ReceiveData, Receives, resets
<1>2. Served(i + 1)
  BY <1>1, ServedLater DEF Serving, LocalType, Index
<1>3. table.cb[i].fd \in Fds /\ connections[s].fd = table.cb[i].fd
  BY <1>1, CalledSlot
<1>4. PICK c \in Clients : c = socket[table.cb[i].fd]
  BY <1>3 DEF ReceiveData, Receives, IsOpen, PInv, PType
<1>5. \A d \in Clients : d # c => inbox'[d] = inbox[d]
  <2>1. PICK new : inbox' = [inbox EXCEPT ![c] = new]
    BY <1>3, <1>4 DEF ReceiveData, Peer
  <2>. QED  BY <2>1 DEF LocalType
<1>6. ASSUME NEW j \in Index, NEW f, j >= i + 1, Dispatches(table, rset, j), f = table.cb[j].fd, Ready(f)
      PROVE  Ready(f)'
  <2>1. f # table.cb[i].fd
    <3>1. j # i
      BY <1>6 DEF Index
    <3>. QED  BY <1>3, <1>6, <3>1, WatchableBasics DEF Story, Sound, Consistent
  <2>2. CASE f = Listener
    BY <1>1, <1>6, <2>2 DEF Ready, IsReadable
  <2>3. CASE f # Listener
    <3>1. f \in Fds /\ socket[f] \in Clients /\ socket[f] # None
      BY <1>6, <2>3 DEF Ready, IsOpen, PInv, PType
    <3>2. socket[f] # c
      BY <1>3, <1>4, <2>1, <3>1 DEF PInv, SlotsAreSockets
    <3>. QED  BY <1>1, <1>5, <1>6, <3>1, <3>2 DEF Ready, IsOpen, IsReadable
  <2>. QED  BY <2>2, <2>3
<1>7. i + 1 \in Nat
  BY DEF Index
<1>8. Served(i + 1)'
  BY <1>1, <1>2, <1>6, <1>7, SameTableServes
<1>. QED  BY <1>1, <1>8 DEF Serving, Served

LEMMA NextKeepsServing ==
  ASSUME PInv, Story, LocalType, Serving, [Next]_vars
  PROVE  Serving'
<1>0. idx \in Nat /\ idx + 1 \in Nat /\ \A i \in Index : i + 1 \in Nat /\ i + 1 # 0
  BY WatchableBasics DEF LocalType, Index
<1>1. CASE Select
  BY <1>1, SelectServes
<1>2. CASE WalkEnds
  BY <1>2 DEF WalkEnds, Serving
<1>3. CASE DrainEnds
  <2>1. pc = "drain" /\ pc' = "walk" /\ idx' = idx + 1 /\ UNCHANGED <<table, rset, socket, backlog, inbox, phase, broken>>
    BY <1>3 DEF DrainEnds, peers, resets
  <2>2. PICK n \in Nat : n = idx + 1 /\ n # 0 /\ Served(n)
    BY <1>0, <2>1 DEF Serving, LocalType
  <2>3. Served(n)'
    BY <2>1, <2>2, SameTableServes, SameInputsSameReady
  <2>. QED  BY <2>1, <2>2, <2>3 DEF Serving
<1>4. CASE OnRegistrationIgnored \/ OnRegistrationRejected \/ OnRegistrationAccepted \/ OnHeartbeat \/ OnDefault
  <2>1. pc = "drain" /\ pc' \in {"drain", "SIGPIPE"}
        /\ UNCHANGED <<table, rset, idx, socket, backlog, inbox, phase, broken>>
    BY <1>4 DEF OnRegistrationIgnored, OnRegistrationRejected, OnRegistrationAccepted, OnHeartbeat,
                OnDefault, Handles, connect_clients, Commit, peers
  <2>2. Served(idx + 1)
    BY <2>1 DEF Serving
  <2>3. Served(idx + 1)'
    BY <1>0, <2>1, <2>2, SameTableServes, SameInputsSameReady
  <2>. QED  BY <2>1, <2>3 DEF Serving
<1>5. CASE OnPeerSelectAck
  <2>1. pc = "drain" /\ pc' = "drain" /\ UNCHANGED <<rset, idx, peers, broken>> /\ close_connection(fd) /\ fd \in Fds
    BY <1>5 DEF OnPeerSelectAck, Handles, PInv, PType
  <2>2. Served(idx + 1)
    BY <2>1 DEF Serving
  <2>3. Served(idx + 1)'
    BY <1>0, <2>1, <2>2, CloseServes
  <2>. QED  BY <2>1, <2>3 DEF Serving
<1>6. ASSUME NEW i \in Index, OnAcceptableSlot(i) \/ OnAcceptableNoSlot(i)
      PROVE  Serving'
  BY <1>6, AcceptServes DEF OnAcceptableNoSlot, Serving
<1>7. ASSUME NEW i \in Index, NEW s \in Slots, ReceiveData(i, s)
      PROVE  Serving'
  BY <1>7, ReceivingServes
<1>8. ASSUME NEW i \in Index, NEW s \in Slots, ReceiveError(i, s)
      PROVE  Serving'
  <2>1. /\ pc = "walk" /\ pc' = "walk" /\ i >= idx /\ idx' = i + 1
        /\ UNCHANGED <<table, rset, socket, backlog, inbox, phase, broken>>
    BY <1>8, CalledEntry DEF ReceiveError, Receives, peers
  <2>2. Served(i + 1)
    BY <1>0, <2>1, ServedLater DEF Serving, Index
  <2>3. Served(i + 1)'
    BY <1>0, <2>1, <2>2, SameTableServes, SameInputsSameReady
  <2>. QED  BY <1>0, <2>1, <2>3 DEF Serving, Served
<1>9. ASSUME NEW i \in Index, NEW s \in Slots, ReceiveEnd(i, s)
      PROVE  Serving'
  <2>1. /\ pc = "walk" /\ pc' = "walk" /\ i >= idx /\ idx' = i + 1
        /\ UNCHANGED <<rset, peers, broken>>
        /\ close_connection(connections[s].fd) /\ connections[s].fd \in Fds
    BY <1>9, CalledEntry DEF ReceiveEnd, Receives, IsOpen, resets
  <2>2. Served(i + 1)
    BY <1>0, <2>1, ServedLater DEF Serving, Index
  <2>3. Served(i + 1)'
    BY <1>0, <2>1, <2>2, CloseServes
  <2>. QED  BY <1>0, <2>1, <2>3 DEF Serving, Served
<1>10. CASE Environment
  <2>1. UNCHANGED <<table, rset, pc, idx>>
    BY <1>10 DEF Environment, Connect, ClientSend, Leave, Abort, Reset, loop
  <2>2. ASSUME NEW n \in Nat, Served(n)
        PROVE  Served(n)'
    <3>1. \A i \in Index : \A f : f = table.cb[i].fd /\ Ready(f) => f \in Watchable
      BY DEF Ready, IsOpen, Watchable
    <3>. QED  BY <1>10, <2>1, <2>2, <3>1, EnvironmentKeepsReady, SameTableServes
  <2>3. Registered(table)' = Registered(table)
    BY <2>1 DEF Registered
  <2>4. (pc = "walk" => Served(idx)') /\ (pc = "drain" => Served(idx + 1)')
    <3>1. PICK n \in Nat, m \in Nat : n = idx /\ m = idx + 1
      BY <1>0
    <3>2. (Served(n) => Served(n)') /\ (Served(m) => Served(m)')
      BY <2>2
    <3>3. (pc = "walk" => Served(n)') /\ (pc = "drain" => Served(m)')
      BY <3>1, <3>2 DEF Serving
    <3>. QED  BY <2>1, <3>1, <3>3
  <2>. QED  BY <2>1, <2>3, <2>4 DEF Serving, Served
<1>11. CASE UNCHANGED vars
  <2>1. UNCHANGED <<table, rset, pc, idx, socket, backlog, inbox, phase, broken>>
    BY <1>11 DEF vars, loop, peers, resets
  <2>2. ASSUME NEW n \in Nat, Served(n)
        PROVE  Served(n)'
    BY <2>1, <2>2, SameTableServes, SameInputsSameReady
  <2>3. Registered(table)' = Registered(table)
    BY <2>1 DEF Registered
  <2>4. (pc = "walk" => Served(idx)') /\ (pc = "drain" => Served(idx + 1)')
    <3>1. PICK n \in Nat, m \in Nat : n = idx /\ m = idx + 1
      BY <1>0
    <3>2. (Served(n) => Served(n)') /\ (Served(m) => Served(m)')
      BY <2>2
    <3>3. (pc = "walk" => Served(n)') /\ (pc = "drain" => Served(m)')
      BY <3>1, <3>2 DEF Serving
    <3>. QED  BY <2>1, <3>1, <3>3
  <2>. QED  BY <2>1, <2>3, <2>4 DEF Serving, Served
<1>. QED  BY <1>1, <1>2, <1>3, <1>4, <1>5, <1>6, <1>7, <1>8, <1>9, <1>10, <1>11
          DEF Next, HandleEvent, Message

-----------------------------------------------------------------------------
SInv == PInv /\ Story /\ LocalType /\ Serving

THEOREM SInvHolds == Spec => []SInv
<1>1. Init => SInv
  BY InitPInv, InitStory, InitLocalType DEF SInv, Init, Serving
<1>2. SInv /\ [Next]_vars => SInv'
  BY NextKeepsPInv, NextKeepsStory, NextKeepsLocalType, NextKeepsServing DEF SInv
<1>. QED  BY <1>1, <1>2, PTL DEF Spec

(* on_acceptable, close_connection and the calls of cblib.c they make keep the
   slots, the table and the open descriptors in step, however often a number is
   used again. *)
THEOREM SlotsAndTableAgree == Spec => []SlotsMatchTable
<1>1. SInv => TypeOK
  <2> SUFFICES ASSUME SInv
               PROVE  TypeOK
    OBVIOUS
  <2>1. /\ connections \in [Slots -> [fd : Fds \cup {-1}, registered : BOOLEAN,
                                      conn_send : BOOLEAN, name : Clients \cup {None}]]
        /\ pc \in {"select", "walk", "drain", "SIGPIPE", "SIGSEGV"}
        /\ backlog \in Seq(Clients) /\ socket \in [Fds -> Clients \cup {None}]
        /\ phase \in [Clients -> {"new", "connected", "closed"}]
        /\ sentTo \in [Clients -> Seq(Replies)] /\ shut \subseteq Clients /\ unwelcome \subseteq Clients
        /\ broken \subseteq Clients /\ failed \subseteq Clients
    BY DEF SInv, PInv, PType, Connections, Histories
  <2>2. /\ rset \subseteq Fds \cup {Listener} /\ idx \in 0 .. FD_SETSIZE /\ fd \in Fds \cup {-1}
        /\ buffer \in Seq(Kinds) /\ inbox \in [Clients -> Seq(Kinds)]
        /\ sent \in [Clients -> 0 .. MaxSent]
    BY DEF SInv, LocalType, Watchable
  <2>3. table \in [cb : [Index -> [fd : Fds \cup {-1, Listener},
                                   callback : Slots \cup {OnAcceptable, Dummy}]],
                   read_fds : SUBSET (Fds \cup {Listener}),
                   maxfd : Fds \cup {-1, Listener}]
    <3>1. table \in TablesOver(Watchable, Handlers)
      BY DEF SInv, Story, Sound
    <3>2. /\ Watchable \cup {-1} = Fds \cup {-1, Listener}
          /\ Handlers \cup {Dummy} = Slots \cup {OnAcceptable, Dummy}
          /\ Watchable = Fds \cup {Listener}
      BY DEF Watchable, Handlers
    <3>. QED  BY <3>1, <3>2 DEF TablesOver
  <2>. QED  BY <2>1, <2>2, <2>3 DEF TypeOK
<1>2. SInv => SlotsMatchTable
  BY <1>1 DEF SInv, Story, Sound, SlotsMatchTable
<1>. QED  BY <1>2, SInvHolds, PTL

(* What handle_event still has to serve in a round stays ready while earlier
   callbacks of the round close and open descriptors, so that no accept() and
   no recv() of the server blocks. *)
THEOREM ServerNeverBlocks == Spec => []NeverBlocks
<1>1. SInv => NeverBlocks
  BY DEF SInv, Serving, Served, NeverBlocks, Pending, Ready
<1>. QED  BY <1>1, SInvHolds, PTL
=============================================================================
