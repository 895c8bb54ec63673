----------------------------- MODULE ClientGame -----------------------------
(***************************************************************************)
(* The properties of a game between two clients of which exactly one was   *)
(* started as the starter, as server.c arranges it.                        *)
(***************************************************************************)
EXTENDS ClientDelivery

ASSUME OneStarter == Starters = {A}

-----------------------------------------------------------------------------
(***************************************************************************)
(* Safety, whatever the network does.                                      *)
(***************************************************************************)

(* The clients never both take it to be their turn, however late or often
   columns and acknowledgements arrive. *)
AtMostOneTurn ==
  ~ \A p \in Peers : Running(p) /\ state[p] = "TURN"

(* No queued datagram skips a move, so the branch that asks for a missing
   one is never needed, and the move a client expects is always possible on
   its board, so the branch "Invalid Move!" of on_column_message is not
   taken. *)
ExpectedMoveIsValid ==
  \A p \in Peers : \A i \in 1 .. Len(net[p]) :
    (Running(p) /\ net[p][i].type = "column") =>
      /\ net[p][i].sequence <= next_expected_sequence[p]
      /\ net[p][i].sequence = next_expected_sequence[p]
           => valid_move(board[p], net[p][i].column)

(* Once both have accepted each other's moves they look at the same board. *)
BoardsAgree ==
  (\A p \in Peers : next_expected_sequence[p] = next_sequence[Other(p)])
    => board[A] = Mirror(board[B])

(* At most one client announces that it won, and a client announces that it
   lost only when the other one has announced that it won. *)
OutcomesAgree ==
  /\ ~ \A p \in Peers : process[p] = "won"
  /\ \A p \in Peers : process[p] = "lost" => process[Other(p)] = "won"

(* Together the clients play one alternating game on one board.  The game's
   board is the one of the client that knows more moves, seen from A, and it
   is A's move when A has seen an answer to each of its moves. *)
MovesKnown(p) == next_sequence[p] + next_expected_sequence[p]

GameBoard == IF MovesKnown(A) >= MovesKnown(B) THEN board[A] ELSE Mirror(board[B])

GameTurn == IF next_sequence[A] = next_sequence[B] THEN PLAYER_1 ELSE PLAYER_2

Game == INSTANCE Match WITH game <- GameBoard, turn <- GameTurn

PlaysOneGame == Game!MSpec
-----------------------------------------------------------------------------
(***************************************************************************)
(* Why it holds: the inductive invariant of a game with one starter.       *)
(***************************************************************************)

(* Moves and acceptances alternate: A moves, B accepts, B moves, A accepts. *)
OrderInv ==
  /\ next_expected_sequence[A] <= next_sequence[B]
  /\ next_sequence[B] <= next_expected_sequence[B]
  /\ next_expected_sequence[B] <= next_sequence[A]
  /\ next_sequence[A] <= next_expected_sequence[A] + 1

(* A client that runs believes it is its turn only when it has accepted an
   answer to all its moves, and in the case of B the opening move. *)
TurnInv ==
  /\ (Running(A) /\ state[A] = "TURN") => next_sequence[A] = next_expected_sequence[A]
  /\ (Running(B) /\ state[B] = "TURN") => next_expected_sequence[B] = next_sequence[B] + 1

(* An acknowledgement under way is one of an accepted move. *)
AcksOfAccepted(p) ==
  ColumnMessage \cup {m \in ColumnAck : m.sequence < next_expected_sequence[Other(p)]}

AckInv == \A p \in Peers : net[p] \in Seq(AcksOfAccepted(p))

(* Is p's last move not yet accepted? *)
Ahead(p) == next_sequence[p] = next_expected_sequence[Other(p)] + 1

(* The boards are the same game, or one is exactly one move behind the other
   and that move is possible on it. *)
BoardInv ==
  /\ (~Ahead(A) /\ ~Ahead(B)) => board[A] = Mirror(board[B])
  /\ \A p \in Peers : Ahead(p) =>
       LET move == sent[p][next_sequence[p]]
       IN  /\ valid_move(board[Other(p)], move)
           /\ board[p] = make_move(Mirror(board[Other(p)]), move, PLAYER_1)

(* A client ends exactly when it sees a winning line, the winner before the
   loser. *)
OutcomeInv ==
  \A p \in Peers :
    /\ Running(p) <=> ~winner(board[p])
    /\ process[p] = "won" => Ahead(p) \/ process[Other(p)] = "lost"
    /\ process[p] = "lost" => process[Other(p)] = "won"

GameInv == /\ TypeOK
           /\ DeliveryInv
           /\ OrderInv
           /\ TurnInv
           /\ AckInv
           /\ AckedWasAccepted
           /\ BoardInv
           /\ OutcomeInv
-----------------------------------------------------------------------------
(***************************************************************************)
(* What holds on a network that keeps the order of datagrams.              *)
(***************************************************************************)

(* The client that is to move, by the moves it knows, also believes so; with
   the guard of on_stdin this is what keeps the game from locking up. *)
ToMove(p) ==
  next_sequence[p] = next_expected_sequence[p] - (IF p \in Starters THEN 0 ELSE 1)

ToMoveHasTurn ==
  \A p \in Peers : (Running(p) /\ ToMove(p)) => state[p] = "TURN"

(* A turn that was announced with "Your turn" ends only with the client's own
   move: no late acknowledgement takes it away. *)
TurnKept ==
  [][\A p \in Peers : (state[p] = "TURN" /\ state'[p] # "TURN")
                         => next_sequence'[p] = next_sequence[p] + 1]_vars

(* Why: of the datagrams under way to a client, the acknowledgements of moves
   that it still repeats come before the column that gives it the turn. *)
LateAcks(p) ==
  {m \in ColumnAck : \E u \in un_ack_column_messages[p] : Acknowledges(m, u)}

ExpectedColumns(p) == {m \in ColumnMessage : IsExpected(p, m)}

ComeBefore(X, Y, s) == \A i, j \in 1 .. Len(s) : (s[i] \in X /\ s[j] \in Y) => i < j

InOrder(p) ==
  /\ ComeBefore(LateAcks(p), ExpectedColumns(p), net[p])
  /\ (Running(p) /\ state[p] = "TURN") => \A i \in 1 .. Len(net[p]) : net[p][i] \notin LateAcks(p)
  /\ (Running(p) /\ ToMove(p)) => state[p] = "TURN"

InOrderInv == \A p \in Peers : InOrder(p)
-----------------------------------------------------------------------------
(***************************************************************************)
(* Liveness.  The event loop of cblib.c keeps serving the socket and the   *)
(* timers; nothing is assumed of the users.                                *)
(***************************************************************************)
ReceivesExpected(p) == \E i \in 1 .. Len(net[p]) : OnColumnMove(p, i)

ReceivesAny(p) == \E i \in 1 .. Len(net[p]) : HandleUdpMessage(p, i)

TimerFires(p, k) ==
  \E u \in un_ack_column_messages[p] : u.sequence = k /\ TransmitColumnMessage(p, u)

MaxMoves == NUMBER_OF_ROWS * NUMBER_OF_COLUMNS

(* Every timer fires again and again (strongly fair, because RetransmitCap may
   disable it for a while), a client keeps reading its socket, and a datagram
   that is sent again and again is not lost for ever. *)
FairSpec ==
  /\ Spec
  /\ \A p \in Peers : /\ WF_vars(ReceivesAny(p))
                      /\ SF_vars(ReceivesExpected(p))
                      /\ \A k \in 0 .. (MaxMoves \div 2) : SF_vars(TimerFires(p, k))

(* A move reaches the peer even when datagrams are lost, unless one of the two
   processes ends first. *)
MoveIsDelivered ==
  \A p \in Peers, k \in 1 .. (MaxMoves \div 2 + 1) :
    next_sequence[p] = k
      ~> (next_expected_sequence[Other(p)] >= k \/ \E q \in Peers : ~Running(q))
=============================================================================
