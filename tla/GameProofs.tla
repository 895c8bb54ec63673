----------------------------- MODULE GameProofs -----------------------------
(***************************************************************************)
(* Proofs about the game, on boards of any size.  First the board itself:  *)
(* moves stay on it, the two players' mirrored views of it agree on moves  *)
(* and wins, and winner() sees each line and nothing else.  Then the       *)
(* clients.  For any starters and any network: TypeOK and DeliveryInv are  *)
(* inductive, and with them each direction implements a reliable channel,  *)
(* whatever the heartbeats on the same sockets do.  For a game with one    *)
(* starter: GameInv is inductive, and the clients agree on the turn, on    *)
(* the board and on the outcome; over a network that keeps the order, no   *)
(* turn is lost.                                                           *)
(***************************************************************************)
EXTENDS ClientGame, ClientHeartbeat, Match, FiniteSetTheorems, SequenceTheorems, TLAPS

-----------------------------------------------------------------------------
(***************************************************************************)
(* The board.                                                              *)
(***************************************************************************)

(* The board the program starts with is a board. *)
LEMMA InitBoard == init_4clib \in Board
BY BoardAssumption DEF init_4clib, Board, Cells, RowIndex, ColumnIndex

(* A valid move by either player keeps every disc on the board. *)
LEMMA MoveOnBoard ==
  ASSUME NEW b \in Board, NEW c, valid_move(b, c), NEW player \in {PLAYER_1, PLAYER_2}
  PROVE  make_move(b, c, player) \in Board
<1>1. c \in ColumnIndex /\ b.next_row[c] \in 0 .. NUMBER_OF_ROWS /\ b.next_row[c] < NUMBER_OF_ROWS
  BY DEF valid_move, Board
<1>2. b.next_row[c] + 1 \in 0 .. NUMBER_OF_ROWS
  BY <1>1, BoardAssumption
<1>3. [b.next_row EXCEPT ![c] = @ + 1] \in [ColumnIndex -> 0 .. NUMBER_OF_ROWS]
  BY <1>1, <1>2 DEF Board
<1>4. [b.field EXCEPT ![<<b.next_row[c], c>>] = player]
        \in [Cells -> {PLAYER_1, Empty, PLAYER_2}]
  BY <1>1 DEF Board
<1>. QED  BY <1>3, <1>4 DEF make_move, Board

(* The cells winner() compares are all on the board. *)
LEMMA LinesOnBoard == \A line \in Lines : line \subseteq Cells
<1>1. Reach \in Nat /\ NUMBER_OF_ROWS \in Nat /\ NUMBER_OF_COLUMNS \in Nat
  BY BoardAssumption DEF Reach
<1>2. \A line \in Horizontal : line \subseteq Cells
  BY <1>1 DEF Horizontal, Cells, RowIndex, ColumnIndex
<1>3. \A line \in Rising : line \subseteq Cells
  BY <1>1 DEF Rising, Cells, RowIndex, ColumnIndex
<1>4. \A line \in Vertical : line \subseteq Cells
  BY <1>1 DEF Vertical, Cells, RowIndex, ColumnIndex
<1>5. \A line \in Falling : line \subseteq Cells
  BY <1>1 DEF Falling, Cells, RowIndex, ColumnIndex
<1>. QED  BY <1>2, <1>3, <1>4, <1>5 DEF Lines

(* A line has a cell: winner() never finds one on an empty board. *)
LEMMA InitNoWinner == ~winner(init_4clib)
<1>1. Reach \in Nat
  BY BoardAssumption DEF Reach
<1>2. \A line \in Lines : \E cell \in line : cell \in Cells
  <2>1. 0 \in 0 .. Reach
    BY <1>1
  <2>2. ASSUME NEW line \in Horizontal PROVE \E cell : cell \in line
    <3>1. PICK i \in RowIndex,
               j \in 0 .. (NUMBER_OF_COLUMNS - 1 - Reach) :
            line = {<<i, j + d>> : d \in 0 .. Reach}
      BY DEF Horizontal
    <3>. QED  BY <2>1, <3>1
  <2>3. ASSUME NEW line \in Rising PROVE \E cell : cell \in line
    <3>1. PICK i \in 0 .. (NUMBER_OF_ROWS - 1 - Reach),
               j \in 0 .. (NUMBER_OF_COLUMNS - 1 - Reach) :
            line = {<<i + d, j + d>> : d \in 0 .. Reach}
      BY DEF Rising
    <3>. QED  BY <2>1, <3>1
  <2>4. ASSUME NEW line \in Vertical PROVE \E cell : cell \in line
    <3>1. PICK i \in 0 .. (NUMBER_OF_ROWS - 1 - Reach),
               j \in ColumnIndex :
            line = {<<i + d, j>> : d \in 0 .. Reach}
      BY DEF Vertical
    <3>. QED  BY <2>1, <3>1
  <2>5. ASSUME NEW line \in Falling PROVE \E cell : cell \in line
    <3>1. PICK i \in 0 .. (NUMBER_OF_ROWS - 1 - Reach),
               j \in Reach .. (NUMBER_OF_COLUMNS - 1) :
            line = {<<i + d, j - d>> : d \in 0 .. Reach}
      BY DEF Falling
    <3>. QED  BY <2>1, <3>1
  <2>6. \A line \in Lines : \E cell : cell \in line
    BY <2>2, <2>3, <2>4, <2>5 DEF Lines
  <2>. QED  BY <2>6, LinesOnBoard
<1>. QED  BY <1>2 DEF winner, HasLine, init_4clib, PLAYER_1, PLAYER_2, Empty

-----------------------------------------------------------------------------
(* The other player's view of a board is a board. *)
LEMMA MirrorBoard == \A b \in Board : Mirror(b) \in Board
<1>. SUFFICES ASSUME NEW b \in Board PROVE Mirror(b) \in Board
  OBVIOUS
<1>1. \A cell \in Cells : -b.field[cell] \in {PLAYER_1, Empty, PLAYER_2}
  BY DEF Board, PLAYER_1, PLAYER_2, Empty
<1>. QED  BY <1>1 DEF Mirror, Board

(* The other player's view of the other player's view is the own one. *)
LEMMA MirrorTwice == \A b \in Board : Mirror(Mirror(b)) = b
<1>. SUFFICES ASSUME NEW b \in Board PROVE Mirror(Mirror(b)) = b
  OBVIOUS
<1>1. \A cell \in Cells : -(-b.field[cell]) = b.field[cell]
  BY DEF Board, PLAYER_1, PLAYER_2, Empty
<1>2. [cell \in Cells |-> -(-b.field[cell])] = b.field
  BY <1>1 DEF Board
<1>3. b = [field |-> b.field, next_row |-> b.next_row]
  BY DEF Board
<1>. QED  BY <1>2, <1>3 DEF Mirror

(* Both players may drop a disc in the same columns. *)
LEMMA MirrorValid == \A b, c : valid_move(Mirror(b), c) <=> valid_move(b, c)
BY DEF Mirror, valid_move

(* A move by one player is, seen by the other, a move by its opponent. *)
LEMMA MirrorMove ==
  ASSUME NEW b \in Board, NEW c, valid_move(b, c)
  PROVE  Mirror(make_move(b, c, PLAYER_2)) = make_move(Mirror(b), c, PLAYER_1)
<1>1. <<b.next_row[c], c>> \in Cells
  BY BoardAssumption DEF valid_move, Board, Cells, RowIndex
<1>2. [cell \in Cells |-> -([b.field EXCEPT ![<<b.next_row[c], c>>] = PLAYER_2])[cell]]
        = [[cell \in Cells |-> -b.field[cell]] EXCEPT ![<<b.next_row[c], c>>] = PLAYER_1]
  BY <1>1 DEF Board, PLAYER_1, PLAYER_2, Empty
<1>. QED  BY <1>2 DEF Mirror, make_move

(* A line for one player is, seen by the other, a line for its opponent. *)
LEMMA MirrorWinner == \A b \in Board : winner(Mirror(b)) <=> winner(b)
<1>. SUFFICES ASSUME NEW b \in Board PROVE winner(Mirror(b)) <=> winner(b)
  OBVIOUS
<1>1. \A cell \in Cells : /\ Mirror(b).field[cell] = PLAYER_1 <=> b.field[cell] = PLAYER_2
                          /\ Mirror(b).field[cell] = PLAYER_2 <=> b.field[cell] = PLAYER_1
  BY DEF Mirror, Board, PLAYER_1, PLAYER_2, Empty
<1>2. HasLine(Mirror(b), PLAYER_1) <=> HasLine(b, PLAYER_2)
  BY <1>1, LinesOnBoard DEF HasLine
<1>3. HasLine(Mirror(b), PLAYER_2) <=> HasLine(b, PLAYER_1)
  BY <1>1, LinesOnBoard DEF HasLine
<1>. QED  BY <1>2, <1>3 DEF winner

-----------------------------------------------------------------------------
(***************************************************************************)
(* The lines winner() compares.                                            *)
(***************************************************************************)

(* Each of the four loop nests compares lines in one direction. *)
LEMMA LinesAreRays ==
  ASSUME NEW line \in Lines
  PROVE  \E cell \in Cells, dir \in Directions : line = Ray(cell, dir) /\ line \subseteq Cells
<1>0. line \subseteq Cells
  BY LinesOnBoard
<1>1. Reach \in Nat /\ Reach = InARow - 1 /\ NUMBER_OF_ROWS \in Nat /\ NUMBER_OF_COLUMNS \in Nat
  BY BoardAssumption DEF Reach
<1>2. CASE line \in Horizontal
  <2>1. PICK i \in RowIndex, j \in 0 .. (NUMBER_OF_COLUMNS - 1 - Reach) :
          line = {<<i, j + d>> : d \in 0 .. Reach}
    BY <1>2 DEF Horizontal
  <2>2. <<i, j>> \in Cells /\ <<0, 1>> \in Directions
    BY <1>1 DEF Cells, RowIndex, ColumnIndex, Directions
  <2>3. line = Ray(<<i, j>>, <<0, 1>>)
    BY <1>1, <2>1 DEF Ray, RowIndex
  <2>. QED  BY <1>0, <2>2, <2>3
<1>3. CASE line \in Rising
  <2>1. PICK i \in 0 .. (NUMBER_OF_ROWS - 1 - Reach), j \in 0 .. (NUMBER_OF_COLUMNS - 1 - Reach) :
          line = {<<i + d, j + d>> : d \in 0 .. Reach}
    BY <1>3 DEF Rising
  <2>2. <<i, j>> \in Cells /\ <<1, 1>> \in Directions
    BY <1>1 DEF Cells, RowIndex, ColumnIndex, Directions
  <2>3. line = Ray(<<i, j>>, <<1, 1>>)
    BY <1>1, <2>1 DEF Ray
  <2>. QED  BY <1>0, <2>2, <2>3
<1>4. CASE line \in Vertical
  <2>1. PICK i \in 0 .. (NUMBER_OF_ROWS - 1 - Reach), j \in ColumnIndex :
          line = {<<i + d, j>> : d \in 0 .. Reach}
    BY <1>4 DEF Vertical
  <2>2. <<i, j>> \in Cells /\ <<1, 0>> \in Directions
    BY <1>1 DEF Cells, RowIndex, ColumnIndex, Directions
  <2>3. line = Ray(<<i, j>>, <<1, 0>>)
    BY <1>1, <2>1 DEF Ray, ColumnIndex
  <2>. QED  BY <1>0, <2>2, <2>3
<1>5. CASE line \in Falling
  <2>1. PICK i \in 0 .. (NUMBER_OF_ROWS - 1 - Reach), j \in Reach .. (NUMBER_OF_COLUMNS - 1) :
          line = {<<i + d, j - d>> : d \in 0 .. Reach}
    BY <1>5 DEF Falling
  <2>2. <<i, j>> \in Cells /\ <<1, -1>> \in Directions
    BY <1>1 DEF Cells, RowIndex, ColumnIndex, Directions
  <2>3. line = Ray(<<i, j>>, <<1, -1>>)
    BY <1>1, <2>1 DEF Ray
  <2>. QED  BY <1>0, <2>2, <2>3
<1>. QED  BY <1>2, <1>3, <1>4, <1>5 DEF Lines

(* A line on the board in any of the eight directions is compared: one of the
   four families starts at its one end or at its other. *)
LEMMA RaysAreLines ==
  ASSUME NEW cell \in Cells, NEW dir \in Directions, Ray(cell, dir) \subseteq Cells
  PROVE  Ray(cell, dir) \in Lines
<1>1. Reach \in Nat /\ Reach = InARow - 1 /\ NUMBER_OF_ROWS \in Nat /\ NUMBER_OF_COLUMNS \in Nat
  BY BoardAssumption DEF Reach
<1>2. PICK r \in RowIndex, c \in ColumnIndex : cell = <<r, c>>
  BY DEF Cells
<1>3. PICK x \in {-1, 0, 1}, y \in {-1, 0, 1} : dir = <<x, y>> /\ ~(x = 0 /\ y = 0)
  BY DEF Directions
<1>4. r \in Int /\ c \in Int
  BY <1>1 DEF RowIndex, ColumnIndex
<1>5. Ray(cell, dir) = {<<r + d * x, c + d * y>> : d \in 0 .. Reach}
  BY <1>1, <1>2, <1>3 DEF Ray
<1>6. r + Reach * x \in RowIndex /\ c + Reach * y \in ColumnIndex
  <2>1. Reach \in 0 .. Reach
    BY <1>1
  <2>2. <<r + Reach * x, c + Reach * y>> \in Cells
    BY <1>5, <2>1
  <2>. QED  BY <2>2 DEF Cells
<1>7. CASE x = 0 /\ y = 1
  <2>1. Ray(cell, dir) = {<<r, c + d>> : d \in 0 .. Reach}
    BY <1>1, <1>4, <1>5, <1>7
  <2>2. r \in RowIndex /\ c \in 0 .. (NUMBER_OF_COLUMNS - 1 - Reach)
    BY <1>1, <1>4, <1>6, <1>7 DEF RowIndex, ColumnIndex
  <2>. QED  BY <2>1, <2>2 DEF Lines, Horizontal
<1>8. CASE x = 0 /\ y = -1
  <2>1. Ray(cell, dir) = {<<r, (c - Reach) + d>> : d \in 0 .. Reach}
    <3>1. \A d \in 0 .. Reach : /\ Reach - d \in 0 .. Reach
                               /\ <<r + d * x, c + d * y>> = <<r, (c - Reach) + (Reach - d)>>
                               /\ <<r, (c - Reach) + d>> = <<r + (Reach - d) * x, c + (Reach - d) * y>>
      BY <1>1, <1>4, <1>8
    <3>2. \A p \in Ray(cell, dir) : p \in {<<r, (c - Reach) + d>> : d \in 0 .. Reach}
      BY <1>5, <3>1
    <3>3. \A d \in 0 .. Reach : <<r, (c - Reach) + d>> \in Ray(cell, dir)
      BY <1>5, <3>1
    <3>. QED  BY <3>2, <3>3
  <2>2. r \in RowIndex /\ c - Reach \in 0 .. (NUMBER_OF_COLUMNS - 1 - Reach)
    BY <1>1, <1>4, <1>6, <1>8 DEF RowIndex, ColumnIndex
  <2>. QED  BY <2>1, <2>2 DEF Lines, Horizontal
<1>9. CASE x = 1 /\ y = 1
  <2>1. Ray(cell, dir) = {<<r + d, c + d>> : d \in 0 .. Reach}
    BY <1>1, <1>4, <1>5, <1>9
  <2>2. r \in 0 .. (NUMBER_OF_ROWS - 1 - Reach) /\ c \in 0 .. (NUMBER_OF_COLUMNS - 1 - Reach)
    BY <1>1, <1>4, <1>6, <1>9 DEF RowIndex, ColumnIndex
  <2>. QED  BY <2>1, <2>2 DEF Lines, Rising
<1>10. CASE x = -1 /\ y = -1
  <2>1. Ray(cell, dir) = {<<(r - Reach) + d, (c - Reach) + d>> : d \in 0 .. Reach}
    <3>1. \A d \in 0 .. Reach : /\ Reach - d \in 0 .. Reach
                               /\ <<r + d * x, c + d * y>> = <<(r - Reach) + (Reach - d), (c - Reach) + (Reach - d)>>
                               /\ <<(r - Reach) + d, (c - Reach) + d>> = <<r + (Reach - d) * x, c + (Reach - d) * y>>
      BY <1>1, <1>4, <1>10
    <3>2. \A p \in Ray(cell, dir) : p \in {<<(r - Reach) + d, (c - Reach) + d>> : d \in 0 .. Reach}
      BY <1>5, <3>1
    <3>3. \A d \in 0 .. Reach : <<(r - Reach) + d, (c - Reach) + d>> \in Ray(cell, dir)
      BY <1>5, <3>1
    <3>. QED  BY <3>2, <3>3
  <2>2. r - Reach \in 0 .. (NUMBER_OF_ROWS - 1 - Reach) /\ c - Reach \in 0 .. (NUMBER_OF_COLUMNS - 1 - Reach)
    BY <1>1, <1>4, <1>6, <1>10 DEF RowIndex, ColumnIndex
  <2>. QED  BY <2>1, <2>2 DEF Lines, Rising
<1>11. CASE x = 1 /\ y = 0
  <2>1. Ray(cell, dir) = {<<r + d, c>> : d \in 0 .. Reach}
    BY <1>1, <1>4, <1>5, <1>11
  <2>2. r \in 0 .. (NUMBER_OF_ROWS - 1 - Reach) /\ c \in ColumnIndex
    BY <1>1, <1>4, <1>6, <1>11 DEF RowIndex, ColumnIndex
  <2>. QED  BY <2>1, <2>2 DEF Lines, Vertical
<1>12. CASE x = -1 /\ y = 0
  <2>1. Ray(cell, dir) = {<<(r - Reach) + d, c>> : d \in 0 .. Reach}
    <3>1. \A d \in 0 .. Reach : /\ Reach - d \in 0 .. Reach
                               /\ <<r + d * x, c + d * y>> = <<(r - Reach) + (Reach - d), c>>
                               /\ <<(r - Reach) + d, c>> = <<r + (Reach - d) * x, c + (Reach - d) * y>>
      BY <1>1, <1>4, <1>12
    <3>2. \A p \in Ray(cell, dir) : p \in {<<(r - Reach) + d, c>> : d \in 0 .. Reach}
      BY <1>5, <3>1
    <3>3. \A d \in 0 .. Reach : <<(r - Reach) + d, c>> \in Ray(cell, dir)
      BY <1>5, <3>1
    <3>. QED  BY <3>2, <3>3
  <2>2. r - Reach \in 0 .. (NUMBER_OF_ROWS - 1 - Reach) /\ c \in ColumnIndex
    BY <1>1, <1>4, <1>6, <1>12 DEF RowIndex, ColumnIndex
  <2>. QED  BY <2>1, <2>2 DEF Lines, Vertical
<1>13. CASE x = 1 /\ y = -1
  <2>1. Ray(cell, dir) = {<<r + d, c - d>> : d \in 0 .. Reach}
    BY <1>1, <1>4, <1>5, <1>13
  <2>2. r \in 0 .. (NUMBER_OF_ROWS - 1 - Reach) /\ c \in Reach .. (NUMBER_OF_COLUMNS - 1)
    BY <1>1, <1>4, <1>6, <1>13 DEF RowIndex, ColumnIndex
  <2>. QED  BY <2>1, <2>2 DEF Lines, Falling
<1>14. CASE x = -1 /\ y = 1
  <2>1. Ray(cell, dir) = {<<(r - Reach) + d, (c + Reach) - d>> : d \in 0 .. Reach}
    <3>1. \A d \in 0 .. Reach : /\ Reach - d \in 0 .. Reach
                               /\ <<r + d * x, c + d * y>> = <<(r - Reach) + (Reach - d), (c + Reach) - (Reach - d)>>
                               /\ <<(r - Reach) + d, (c + Reach) - d>> = <<r + (Reach - d) * x, c + (Reach - d) * y>>
      BY <1>1, <1>4, <1>14
    <3>2. \A p \in Ray(cell, dir) : p \in {<<(r - Reach) + d, (c + Reach) - d>> : d \in 0 .. Reach}
      BY <1>5, <3>1
    <3>3. \A d \in 0 .. Reach : <<(r - Reach) + d, (c + Reach) - d>> \in Ray(cell, dir)
      BY <1>5, <3>1
    <3>. QED  BY <3>2, <3>3
  <2>2. r - Reach \in 0 .. (NUMBER_OF_ROWS - 1 - Reach) /\ c + Reach \in Reach .. (NUMBER_OF_COLUMNS - 1)
    BY <1>1, <1>4, <1>6, <1>14 DEF RowIndex, ColumnIndex
  <2>. QED  BY <2>1, <2>2 DEF Lines, Falling
<1>. QED  BY <1>3, <1>7, <1>8, <1>9, <1>10, <1>11, <1>12, <1>13, <1>14

-----------------------------------------------------------------------------
(***************************************************************************)
(* A match.                                                                *)
(***************************************************************************)

MTypeOK == game \in Board /\ turn \in {PLAYER_1, PLAYER_2}

LEMMA MatchTyped == (MInit => MTypeOK) /\ (MTypeOK /\ [MNext]_mvars => MTypeOK')
<1>1. MInit => MTypeOK
  BY InitBoard DEF MInit, MTypeOK
<1>2. ASSUME MTypeOK, NEW c \in ColumnIndex, Drop(c) PROVE MTypeOK'
  BY <1>2, MoveOnBoard DEF MTypeOK, Drop, Opponent
<1>. QED  BY <1>1, <1>2 DEF MNext, mvars, MTypeOK

(* What a move writes: one cell of the column, which was above its discs. *)
LEMMA MoveWrites ==
  ASSUME NEW b \in Board, NEW c, valid_move(b, c), NEW player \in {PLAYER_1, PLAYER_2}
  PROVE  LET new == <<b.next_row[c], c>>
         IN  /\ new \in Cells
             /\ \A cell \in Cells :
                  make_move(b, c, player).field[cell] = IF cell = new THEN player ELSE b.field[cell]
             /\ \A d \in ColumnIndex :
                  make_move(b, c, player).next_row[d] = b.next_row[d] + (IF d = c THEN 1 ELSE 0)
<1>1. c \in ColumnIndex /\ b.next_row[c] \in RowIndex
  BY BoardAssumption DEF valid_move, Board, RowIndex
<1>2. \A d \in ColumnIndex : b.next_row[d] \in Int
  BY BoardAssumption DEF Board
<1>. QED  BY <1>1, <1>2 DEF make_move, Board, Cells

(* A move completes no line of the other player. *)
LEMMA OtherLinesStay ==
  ASSUME NEW b \in Board, NEW c, valid_move(b, c), NEW player \in {PLAYER_1, PLAYER_2},
         HasLine(make_move(b, c, player), Opponent(player))
  PROVE  HasLine(b, Opponent(player))
<1>1. PICK line \in Lines :
        \A cell \in line : make_move(b, c, player).field[cell] = Opponent(player)
  BY DEF HasLine
<1>2. Opponent(player) # player
  BY DEF Opponent, PLAYER_1, PLAYER_2
<1>3. \A cell \in line : b.field[cell] = Opponent(player)
  <2>1. PICK new, after : new = <<b.next_row[c], c>> /\ after = make_move(b, c, player)
    OBVIOUS
  <2>2. \A cell \in Cells : after.field[cell] = IF cell = new THEN player ELSE b.field[cell]
    BY <2>1, MoveWrites
  <2>. QED  BY <1>1, <1>2, <2>1, <2>2, LinesOnBoard
<1>. QED  BY <1>3 DEF HasLine

(* The line that winner() finds after a move is the mover's: each client may
   announce "you won" or "you lost" without looking whose line it is. *)
THEOREM AWinIsTheMovers == MSpec => []WinIsTheMovers
<1>1. MInit => WinIsTheMovers
  BY InitNoWinner DEF MInit, WinIsTheMovers
<1>2. MTypeOK /\ WinIsTheMovers /\ [MNext]_mvars => WinIsTheMovers'
  <2>. SUFFICES ASSUME MTypeOK, WinIsTheMovers, [MNext]_mvars PROVE WinIsTheMovers'
    OBVIOUS
  <2>1. CASE UNCHANGED mvars
    BY <2>1 DEF mvars, WinIsTheMovers
  <2>2. ASSUME NEW c \in ColumnIndex, Drop(c) PROVE WinIsTheMovers'
    <3>1. /\ ~HasLine(game, PLAYER_1) /\ ~HasLine(game, PLAYER_2)
          /\ game' = make_move(game, c, turn) /\ turn' = Opponent(turn)
          /\ game \in Board /\ valid_move(game, c) /\ turn \in {PLAYER_1, PLAYER_2}
      BY <2>2 DEF Drop, winner, MTypeOK
    <3>2. ~HasLine(game', turn')
      BY <3>1, OtherLinesStay DEF Opponent
    <3>3. {turn', Opponent(turn')} = {PLAYER_1, PLAYER_2}
      BY <3>1 DEF Opponent, PLAYER_1, PLAYER_2
    <3>. QED  BY <3>2, <3>3 DEF WinIsTheMovers, winner
  <2>. QED  BY <2>1, <2>2 DEF MNext
<1>. QED  BY <1>1, <1>2, MatchTyped, PTL DEF MSpec

\* The cells with a player's discs.
DiscCells(b, player) == {cell \in Cells : b.field[cell] = player}

\* next_row is the height of each column.
Stacked(b) == \A c \in ColumnIndex, r \in RowIndex : b.field[<<r, c>>] # Empty <=> r < b.next_row[c]

\* The first player has as many discs as the other, and one more after its move.
DiscsCounted ==
  /\ IsFiniteSet(DiscCells(game, PLAYER_1)) /\ IsFiniteSet(DiscCells(game, PLAYER_2))
  /\ Cardinality(DiscCells(game, PLAYER_1)) - Cardinality(DiscCells(game, PLAYER_2))
       = (IF turn = PLAYER_1 THEN 0 ELSE 1)

StackInv == MTypeOK /\ Stacked(game) /\ DiscsCounted

(* A move puts one disc on top of a column. *)
LEMMA MoveStacks ==
  ASSUME NEW b \in Board, Stacked(b), NEW c, valid_move(b, c),
         NEW player \in {PLAYER_1, PLAYER_2}
  PROVE  /\ Stacked(make_move(b, c, player))
         /\ DiscCells(make_move(b, c, player), player)
              = DiscCells(b, player) \cup {<<b.next_row[c], c>>}
         /\ <<b.next_row[c], c>> \notin DiscCells(b, player)
         /\ DiscCells(make_move(b, c, player), Opponent(player)) = DiscCells(b, Opponent(player))
<1>1. PICK row, new : row = b.next_row[c] /\ new = <<row, c>>
  OBVIOUS
<1>2. PICK after : after = make_move(b, c, player)
  OBVIOUS
<1>3. /\ new \in Cells /\ c \in ColumnIndex /\ row \in RowIndex
      /\ \A cell \in Cells : after.field[cell] = IF cell = new THEN player ELSE b.field[cell]
      /\ \A d \in ColumnIndex : after.next_row[d] = b.next_row[d] + (IF d = c THEN 1 ELSE 0)
  BY <1>1, <1>2, MoveWrites DEF Cells, valid_move
<1>4. player # Empty /\ Opponent(player) # player /\ Opponent(player) # Empty
  BY DEF Opponent, PLAYER_1, PLAYER_2, Empty
<1>5. row \in Int /\ ~(row < row) /\ b.field[new] = Empty
  BY <1>1, <1>3 DEF Stacked, RowIndex
<1>6. ASSUME NEW d \in ColumnIndex, NEW r \in RowIndex
      PROVE  after.field[<<r, d>>] # Empty <=> r < after.next_row[d]
  <2>1. r \in Int /\ b.next_row[d] \in Int /\ <<r, d>> \in Cells
        /\ (b.field[<<r, d>>] # Empty <=> r < b.next_row[d])
    BY BoardAssumption DEF Board, RowIndex, Stacked, Cells
  <2>2. CASE <<r, d>> = new
    <3>1. r = row /\ d = c
      BY <1>1, <2>2
    <3>2. r < after.next_row[d] /\ after.field[<<r, d>>] = player
      BY <1>1, <1>3, <1>5, <2>2, <3>1
    <3>. QED  BY <1>4, <3>2
  <2>3. CASE <<r, d>> # new
    <3>1. after.field[<<r, d>>] = b.field[<<r, d>>]
      BY <1>3, <2>1, <2>3
    <3>2. d = c => r # row
      BY <1>1, <2>3
    <3>3. r < b.next_row[d] <=> r < after.next_row[d]
      BY <1>1, <1>3, <2>1, <3>2
    <3>. QED  BY <2>1, <3>1, <3>3
  <2>. QED  BY <2>2, <2>3
<1>7. /\ DiscCells(after, player) = DiscCells(b, player) \cup {new}
      /\ new \notin DiscCells(b, player)
      /\ DiscCells(after, Opponent(player)) = DiscCells(b, Opponent(player))
  BY <1>3, <1>4, <1>5 DEF DiscCells
<1>. QED  BY <1>1, <1>2, <1>6, <1>7 DEF Stacked

LEMMA StackInvariant == MSpec => []StackInv
<1>1. MInit => StackInv
  <2>. SUFFICES ASSUME MInit PROVE StackInv
    OBVIOUS
  <2>1. game = init_4clib /\ turn = PLAYER_1
    BY DEF MInit
  <2>2. DiscCells(game, PLAYER_1) = {} /\ DiscCells(game, PLAYER_2) = {}
    BY <2>1 DEF DiscCells, init_4clib, Empty, PLAYER_1, PLAYER_2
  <2>3. DiscsCounted
    BY <2>1, <2>2, FS_EmptySet DEF DiscsCounted
  <2>4. Stacked(game)
    BY <2>1 DEF Stacked, init_4clib, Cells, RowIndex
  <2>. QED  BY <2>3, <2>4, MatchTyped DEF StackInv
<1>2. StackInv /\ [MNext]_mvars => StackInv'
  <2>. SUFFICES ASSUME StackInv, [MNext]_mvars PROVE StackInv'
    OBVIOUS
  <2>1. CASE UNCHANGED mvars
    BY <2>1 DEF mvars, StackInv, MTypeOK, DiscsCounted
  <2>2. ASSUME NEW c \in ColumnIndex, Drop(c) PROVE StackInv'
    <3>1. /\ game' = make_move(game, c, turn) /\ turn' = Opponent(turn)
          /\ game \in Board /\ valid_move(game, c) /\ turn \in {PLAYER_1, PLAYER_2}
          /\ Stacked(game)
      BY <2>2 DEF Drop, StackInv, MTypeOK
    <3>2. PICK new : new = <<game.next_row[c], c>>
      OBVIOUS
    <3>3. /\ Stacked(game')
          /\ DiscCells(game', turn) = DiscCells(game, turn) \cup {new}
          /\ new \notin DiscCells(game, turn)
          /\ DiscCells(game', Opponent(turn)) = DiscCells(game, Opponent(turn))
      BY <3>1, <3>2, MoveStacks
    <3>4. /\ \A player \in {PLAYER_1, PLAYER_2} :
               /\ IsFiniteSet(DiscCells(game, player))
               /\ Cardinality(DiscCells(game, player)) \in Nat
          /\ Cardinality(DiscCells(game, PLAYER_1)) - Cardinality(DiscCells(game, PLAYER_2))
               = (IF turn = PLAYER_1 THEN 0 ELSE 1)
      BY FS_CardinalityType DEF StackInv, DiscsCounted
    <3>5. /\ IsFiniteSet(DiscCells(game', turn))
          /\ Cardinality(DiscCells(game', turn)) = Cardinality(DiscCells(game, turn)) + 1
      <4>1. PICK S : S = DiscCells(game, turn)
        OBVIOUS
      <4>2. IsFiniteSet(S \cup {new}) /\ Cardinality(S \cup {new}) = Cardinality(S) + 1
        BY <3>1, <3>3, <3>4, <4>1, FS_AddElement
      <4>. QED  BY <3>3, <4>1, <4>2
    <3>6. DiscsCounted'
      <4>1. CASE turn = PLAYER_1
        <5>1. Opponent(turn) = PLAYER_2 /\ PLAYER_2 # PLAYER_1
          BY <4>1 DEF Opponent, PLAYER_1, PLAYER_2
        <5>2. /\ IsFiniteSet(DiscCells(game', PLAYER_1)) /\ IsFiniteSet(DiscCells(game', PLAYER_2))
              /\ Cardinality(DiscCells(game', PLAYER_1)) - Cardinality(DiscCells(game', PLAYER_2)) = 1
          <6>1. /\ DiscCells(game', PLAYER_2) = DiscCells(game, PLAYER_2)
                /\ IsFiniteSet(DiscCells(game', PLAYER_1))
                /\ Cardinality(DiscCells(game', PLAYER_1)) = Cardinality(DiscCells(game, PLAYER_1)) + 1
            BY <3>3, <3>5, <4>1, <5>1
          <6>2. /\ IsFiniteSet(DiscCells(game, PLAYER_2))
                /\ Cardinality(DiscCells(game, PLAYER_2)) \in Nat /\ Cardinality(DiscCells(game, PLAYER_1)) \in Nat
            BY <3>4
          <6>3. Cardinality(DiscCells(game, PLAYER_1)) - Cardinality(DiscCells(game, PLAYER_2)) = 0
            BY <3>4, <4>1, <5>1
          <6>. QED  BY <6>1, <6>2, <6>3
        <5>. QED  BY <3>1, <4>1, <5>1, <5>2 DEF DiscsCounted
      <4>2. CASE turn = PLAYER_2
        <5>1. Opponent(turn) = PLAYER_1 /\ PLAYER_2 # PLAYER_1
          BY <4>2 DEF Opponent, PLAYER_1, PLAYER_2
        <5>2. /\ IsFiniteSet(DiscCells(game', PLAYER_1)) /\ IsFiniteSet(DiscCells(game', PLAYER_2))
              /\ Cardinality(DiscCells(game', PLAYER_1)) - Cardinality(DiscCells(game', PLAYER_2)) = 0
          <6>1. /\ DiscCells(game', PLAYER_1) = DiscCells(game, PLAYER_1)
                /\ IsFiniteSet(DiscCells(game', PLAYER_2))
                /\ Cardinality(DiscCells(game', PLAYER_2)) = Cardinality(DiscCells(game, PLAYER_2)) + 1
            BY <3>3, <3>5, <4>2, <5>1
          <6>2. /\ IsFiniteSet(DiscCells(game, PLAYER_1))
                /\ Cardinality(DiscCells(game, PLAYER_1)) \in Nat /\ Cardinality(DiscCells(game, PLAYER_2)) \in Nat
            BY <3>4
          <6>3. Cardinality(DiscCells(game, PLAYER_1)) - Cardinality(DiscCells(game, PLAYER_2)) = 1
            BY <3>4, <4>2, <5>1
          <6>. QED  BY <6>1, <6>2, <6>3
        <5>. QED  BY <3>1, <4>2, <5>1, <5>2 DEF DiscsCounted
      <4>. QED  BY <3>1, <4>1, <4>2
    <3>. QED  BY <3>1, <3>3, <3>6, MatchTyped, <2>2 DEF StackInv, MNext
  <2>. QED  BY <2>1, <2>2 DEF MNext
<1>. QED  BY <1>1, <1>2, PTL DEF MSpec

(* The two arrays of 4clib.c tell the same story: next_row[c] is the height of
   the pile in column c of field, and the discs are those of alternate moves. *)
THEOREM FieldAndRowsAgree == MSpec => []DiscsStack
<1>1. StackInv => DiscsStack
  BY DEF StackInv, Stacked, DiscsCounted, DiscCells, DiscsStack
<1>. QED  BY <1>1, StackInvariant, PTL

(* The four loop nests of winner() compare each line of the board, of any size,
   in any of the eight directions, and nothing that is not one. *)
THEOREM WinnerIsALine == MSpec => []WinnerSeesEveryLine
<1>1. WinnerSeesEveryLine
  <2>1. ASSUME NEW player \in {PLAYER_1, PLAYER_2}, HasLine(game, player)
        PROVE  \E cell \in Cells, dir \in Directions :
                 /\ Ray(cell, dir) \subseteq Cells
                 /\ \A c \in Ray(cell, dir) : game.field[c] = player
    BY <2>1, LinesAreRays DEF HasLine
  <2>2. ASSUME NEW cell \in Cells, NEW dir \in Directions, NEW player \in {PLAYER_1, PLAYER_2},
               Ray(cell, dir) \subseteq Cells,
               \A c \in Ray(cell, dir) : game.field[c] = player
        PROVE  HasLine(game, player)
    BY <2>2, RaysAreLines DEF HasLine
  <2>. QED  BY <2>1, <2>2 DEF WinnerSeesEveryLine, winner
<1>. QED  BY <1>1, PTL

-----------------------------------------------------------------------------
(***************************************************************************)
(* The socket queues.                                                      *)
(***************************************************************************)

(* A sequence of elements of a set is one of any larger set. *)
LEMMA SeqLarger ==
  ASSUME NEW S, NEW T, S \subseteq T, NEW s \in Seq(S)
  PROVE  s \in Seq(T)
OBVIOUS

(* Receiving or losing a datagram leaves a queue of the others. *)
LEMMA RemoveAtSeq ==
  ASSUME NEW S, NEW s \in Seq(S), NEW i \in 1 .. Len(s)
  PROVE  RemoveAt(s, i) \in Seq(S)
<1>1. SubSeq(s, 1, i - 1) \in Seq(S)
  OBVIOUS
<1>2. SubSeq(s, i + 1, Len(s)) \in Seq(S)
  OBVIOUS
<1>. QED  BY <1>1, <1>2 DEF RemoveAt

(* Duplicating a datagram leaves a queue of the same ones. *)
LEMMA DuplicateSeq ==
  ASSUME NEW S, NEW s \in Seq(S), NEW i \in 1 .. Len(s)
  PROVE  InsertAt(s, i, s[i]) \in Seq(S)
<1>1. SubSeq(s, 1, i - 1) \in Seq(S)
  OBVIOUS
<1>2. SubSeq(s, i, Len(s)) \in Seq(S)
  OBVIOUS
<1>3. <<s[i]>> \in Seq(S)
  OBVIOUS
<1>. QED  BY <1>1, <1>2, <1>3 DEF InsertAt

(* A datagram sent is queued behind the others or dropped. *)
LEMMA EnqueueSeq ==
  ASSUME NEW S, NEW s \in Seq(S), NEW m \in S
  PROVE  Enqueue(s, m) \in Seq(S)
BY DEF Enqueue

LEMMA OtherPeer == \A p \in Peers : Other(p) \in Peers /\ Other(p) # p /\ Other(Other(p)) = p
BY ClientAssumption DEF Other, Peers

\* Each client's queue holds datagrams of a given set.
Queues(T) == /\ net = [q \in Peers |-> net[q]]
             /\ \A q \in Peers : net[q] \in Seq(T[q])

(* Every way the queues change keeps them queues of such datagrams. *)
LEMMA SendQueues ==
  ASSUME NEW T, Queues(T), NEW p \in Peers, NEW m \in T[Other(p)], Send(p, m)
  PROVE  Queues(T)'
<1>1. Enqueue(net[Other(p)], m) \in Seq(T[Other(p)])
  BY OtherPeer, EnqueueSeq DEF Queues
<1>. QED  BY <1>1, OtherPeer DEF Queues, Send

LEMMA RecvQueues ==
  ASSUME NEW T, Queues(T), NEW p \in Peers, NEW i \in Deliverable(p), Recv(p, i)
  PROVE  Queues(T)'
<1>1. i \in 1 .. Len(net[p])
  BY DEF Deliverable
<1>2. RemoveAt(net[p], i) \in Seq(T[p])
  BY <1>1, RemoveAtSeq DEF Queues
<1>. QED  BY <1>2 DEF Queues, Recv

LEMMA RecvAndSendQueues ==
  ASSUME NEW T, Queues(T), NEW p \in Peers, NEW i \in Deliverable(p),
         NEW m \in T[Other(p)], RecvAndSend(p, i, m)
  PROVE  Queues(T)'
<1>1. i \in 1 .. Len(net[p])
  BY DEF Deliverable
<1>2. RemoveAt(net[p], i) \in Seq(T[p])
  BY <1>1, RemoveAtSeq DEF Queues
<1>3. Enqueue(net[Other(p)], m) \in Seq(T[Other(p)])
  BY OtherPeer, EnqueueSeq DEF Queues
<1>. QED  BY <1>2, <1>3, OtherPeer DEF Queues, RecvAndSend

LEMMA DuplicateQueues ==
  ASSUME NEW T, Queues(T), NEW p \in Peers, Duplicate(p)
  PROVE  Queues(T)'
<1>1. PICK i \in Deliverable(p) : net' = [net EXCEPT ![p] = InsertAt(@, i, @[i])]
  BY DEF Duplicate
<1>2. i \in 1 .. Len(net[p])
  BY <1>1 DEF Deliverable
<1>3. InsertAt(net[p], i, net[p][i]) \in Seq(T[p])
  BY <1>2, DuplicateSeq DEF Queues
<1>. QED  BY <1>1, <1>3 DEF Queues

-----------------------------------------------------------------------------
(***************************************************************************)
(* The steps.                                                              *)
(***************************************************************************)

(* A datagram that carries a move still does when more moves have been made. *)
LEMMA KeepsMoves ==
  ASSUME TypeOK, DeliveryInv,
         \A q \in Peers : /\ next_sequence'[q] \in Nat
                          /\ next_sequence[q] <= next_sequence'[q]
                          /\ \A k \in 1 .. next_sequence[q] : sent'[q][k] = sent[q][k],
         NEW T, T = [q \in Peers |-> Datagrams(q)']
  PROVE  Queues(T)
<1>1. \A q \in Peers : next_sequence[q] \in Nat
  BY DEF TypeOK
<1>2. \A q \in Peers : Datagrams(q) \subseteq Datagrams(q)'
  <2>. SUFFICES ASSUME NEW q \in Peers, NEW m \in ColumnMessage, IsMoveOf(Other(q), m)
                PROVE  IsMoveOf(Other(q), m)'
    BY DEF Datagrams
  <2>1. m.sequence \in Nat /\ m.sequence + 1 \in 1 .. next_sequence[Other(q)]
    BY <1>1, OtherPeer DEF IsMoveOf, ColumnMessage
  <2>. QED  BY <1>1, <2>1, OtherPeer DEF IsMoveOf
<1>. QED  BY <1>2, SeqLarger DEF Queues, TypeOK, DeliveryInv

\* The queues are well typed and carry only moves that were made.
NetInv == /\ net \in [Peers -> Seq(ColumnMessage \cup ColumnAck)]
          /\ \A q \in Peers : net[q] \in Seq(Datagrams(q))

LEMMA QueuesTyped ==
  ASSUME NEW T, T = [q \in Peers |-> Datagrams(q)'], Queues(T)'
  PROVE  NetInv'
<1>1. \A q \in Peers : Datagrams(q)' \subseteq ColumnMessage \cup ColumnAck
  BY DEF Datagrams
<1>2. \A q \in Peers : net'[q] \in Seq(Datagrams(q)')
  BY DEF Queues
<1>3. \A q \in Peers : net'[q] \in Seq(ColumnMessage \cup ColumnAck)
  BY <1>1, <1>2, SeqLarger
<1>. QED  BY <1>2, <1>3 DEF Queues, NetInv

(* The program starts with no move made. *)
LEMMA DeliveryInit == Init => TypeOK /\ DeliveryInv
<1>. SUFFICES ASSUME Init PROVE TypeOK /\ DeliveryInv
  OBVIOUS
<1>1. TypeOK
  BY InitBoard DEF Init, TypeOK
<1>2. DeliveryInv
  BY OtherPeer DEF Init, DeliveryInv
<1>. QED  BY <1>1, <1>2

(* Steps that only move datagrams. *)
LEMMA NetOnlyDelivery ==
  ASSUME TypeOK, DeliveryInv, UNCHANGED <<local, history>>,
         NEW T, T = [q \in Peers |-> Datagrams(q)'], Queues(T) => Queues(T)'
  PROVE  TypeOK' /\ DeliveryInv'
<1>1. NetInv'
  <2>1. Queues(T)
    BY KeepsMoves DEF local, history, TypeOK
  <2>. QED  BY <2>1, QueuesTyped
<1>2. TypeOK'
  BY <1>1 DEF TypeOK, NetInv, local, history
<1>3. DeliveryInv'
  BY <1>1, OtherPeer DEF DeliveryInv, NetInv, local, history, IsMoveOf
<1>. QED  BY <1>2, <1>3

(* on_stdin *)
LEMMA OnStdinDelivery ==
  ASSUME TypeOK, DeliveryInv, NEW p \in Peers, NEW move \in ColumnIndex, OnStdin(p, move)
  PROVE  TypeOK' /\ DeliveryInv'
<1>0. PICK u : u = [sequence |-> next_sequence[p], column |-> move]
  OBVIOUS
<1>1. /\ next_sequence' = [next_sequence EXCEPT ![p] = @ + 1]
      /\ sent' = [sent EXCEPT ![p] = Append(@, move)]
      /\ un_ack_column_messages' = [un_ack_column_messages EXCEPT ![p] = @ \cup {u}]
      /\ Send(p, ColumnDatagram(u))
      /\ UNCHANGED <<next_expected_sequence, accepted>>
  BY <1>0 DEF OnStdin, SendColumnMessage
<1>2. Len(sent[p]) = next_sequence[p] /\ sent[p] \in Seq(ColumnIndex) /\ next_sequence[p] \in Nat
  BY DEF TypeOK, DeliveryInv
<1>3. /\ Len(sent'[p]) = next_sequence'[p] /\ sent'[p] \in Seq(ColumnIndex)
      /\ sent'[p][next_sequence[p] + 1] = move
      /\ \A k \in 1 .. next_sequence[p] : sent'[p][k] = sent[p][k]
  BY <1>1, <1>2 DEF TypeOK
<1>4. \A q \in Peers : /\ next_sequence'[q] \in Nat
                        /\ next_sequence[q] <= next_sequence'[q]
                        /\ \A k \in 1 .. next_sequence[q] : sent'[q][k] = sent[q][k]
  BY <1>1, <1>3 DEF TypeOK
<1>5. IsMoveOf(p, u)'
  BY <1>0, <1>1, <1>2, <1>3 DEF IsMoveOf, TypeOK
<1>6. ColumnDatagram(u) \in Datagrams(Other(p))'
  BY <1>0, <1>2, <1>5, OtherPeer DEF ColumnDatagram, Datagrams, ColumnMessage, IsMoveOf
<1>7. NetInv'
  <2>1. PICK T : T = [q \in Peers |-> Datagrams(q)']
    OBVIOUS
  <2>2. Queues(T)
    BY <1>4, <2>1, KeepsMoves
  <2>3. Queues(T)'
    BY <1>1, <1>6, <2>1, <2>2, OtherPeer, SendQueues
  <2>. QED  BY <2>1, <2>3, QueuesTyped
<1>8. TypeOK'
  <2>1. board' \in [Peers -> Board]
    BY MoveOnBoard DEF OnStdin, EndOrContinue, TypeOK
  <2>2. /\ state' \in [Peers -> {"TURN", "TURN_ACK", "WAIT"}]
        /\ process' \in [Peers -> {"running", "won", "lost"}]
    BY DEF OnStdin, EndOrContinue, TypeOK
  <2>3. u \in UnAcked
    BY <1>0, <1>2 DEF UnAcked
  <2>4. /\ next_sequence' \in [Peers -> Nat]
        /\ un_ack_column_messages' \in [Peers -> SUBSET UnAcked]
        /\ sent' \in [Peers -> Seq(ColumnIndex)]
    BY <1>1, <1>3, <2>3 DEF TypeOK
  <2>. QED  BY <1>1, <1>7, <2>1, <2>2, <2>4 DEF TypeOK, NetInv
<1>9. DeliveryInv'
  <2>. SUFFICES ASSUME NEW q \in Peers
                PROVE  /\ Len(sent'[q]) = next_sequence'[q]
                       /\ Len(accepted'[q]) = next_expected_sequence'[q]
                       /\ next_expected_sequence'[q] <= next_sequence'[Other(q)]
                       /\ \A k \in 1 .. Len(accepted'[q]) : accepted'[q][k] = sent'[Other(q)][k]
                       /\ \A v \in un_ack_column_messages'[q] : IsMoveOf(q, v)'
                       /\ net'[q] \in Seq(Datagrams(q)')
    BY DEF DeliveryInv
  <2>1. Len(sent'[q]) = next_sequence'[q]
    BY <1>1, <1>3 DEF DeliveryInv, TypeOK
  <2>2. /\ Len(accepted'[q]) = next_expected_sequence'[q]
        /\ next_expected_sequence'[q] <= next_sequence'[Other(q)]
        /\ \A k \in 1 .. Len(accepted'[q]) : accepted'[q][k] = sent'[Other(q)][k]
    <3>1. PICK r \in Peers : r = Other(q)
      BY OtherPeer
    <3>2. /\ Len(accepted[q]) = next_expected_sequence[q]
          /\ next_expected_sequence[q] <= next_sequence[r]
          /\ \A k \in 1 .. Len(accepted[q]) : accepted[q][k] = sent[r][k]
      BY <3>1 DEF DeliveryInv
    <3>3. next_expected_sequence[q] \in Nat /\ next_sequence[r] \in Nat
      BY DEF TypeOK
    <3>4. /\ next_sequence'[r] \in Nat /\ next_sequence[r] <= next_sequence'[r]
          /\ \A k \in 1 .. next_sequence[r] : sent'[r][k] = sent[r][k]
      BY <1>4
    <3>5. next_expected_sequence[q] <= next_sequence'[r]
      BY <3>2, <3>3, <3>4
    <3>6. \A k \in 1 .. Len(accepted[q]) : k \in 1 .. next_sequence[r]
      BY <3>2, <3>3
    <3>. QED  BY <1>1, <3>1, <3>2, <3>4, <3>5, <3>6
  <2>3. ASSUME NEW v \in un_ack_column_messages'[q] PROVE IsMoveOf(q, v)'
    <3>1. CASE v \in un_ack_column_messages[q]
      <4>1. IsMoveOf(q, v) /\ v.sequence \in Nat /\ next_sequence[q] \in Nat
        BY <3>1 DEF DeliveryInv, TypeOK, UnAcked
      <4>2. PICK s \in Nat : s = v.sequence
        BY <4>1
      <4>3. s < next_sequence[q] /\ v.column = sent[q][s + 1]
        BY <4>1, <4>2 DEF IsMoveOf
      <4>4. s + 1 \in 1 .. next_sequence[q]
        BY <4>1, <4>3
      <4>5. s < next_sequence'[q] /\ v.column = sent'[q][s + 1]
        <5>1. next_sequence'[q] \in Nat /\ next_sequence[q] <= next_sequence'[q]
          BY <1>4
        <5>2. sent'[q][s + 1] = sent[q][s + 1]
          BY <1>4, <4>4
        <5>. QED  BY <4>1, <4>3, <5>1, <5>2
      <4>. QED  BY <4>2, <4>5 DEF IsMoveOf
    <3>2. CASE q = p /\ v = u
      BY <1>5, <3>2
    <3>. QED  BY <1>1, <3>1, <3>2 DEF TypeOK
  <2>. QED  BY <1>7, <2>1, <2>2, <2>3 DEF NetInv
<1>. QED  BY <1>8, <1>9

(* What both ways of accepting a move do to the counters and queues. *)
LEMMA AcceptColumnDelivery ==
  ASSUME TypeOK, DeliveryInv, NEW p \in Peers, NEW i \in 1 .. Len(net[p]), AcceptColumn(p, i)
  PROVE  /\ NetInv'
         /\ DeliveryInv'
         /\ next_expected_sequence' \in [Peers -> Nat]
         /\ accepted' \in [Peers -> Seq(ColumnIndex)]
         /\ net[p][i].column \in ColumnIndex
<1>0. PICK m : m = net[p][i]
  OBVIOUS
<1>1. /\ i \in Deliverable(p)
      /\ m.type = "column"
      /\ m.sequence = next_expected_sequence[p]
      /\ next_expected_sequence' = [next_expected_sequence EXCEPT ![p] = @ + 1]
      /\ RecvAndSend(p, i, AckDatagram(m.sequence))
      /\ accepted' = [accepted EXCEPT ![p] = Append(@, m.column)]
      /\ UNCHANGED <<next_sequence, un_ack_column_messages, sent>>
  BY <1>0 DEF AcceptColumn, ReceivesColumn, IsExpected
<1>2. m \in Datagrams(p)
  BY <1>0 DEF DeliveryInv
<1>3. m \in ColumnMessage /\ IsMoveOf(Other(p), m)
  BY <1>1, <1>2 DEF Datagrams, ColumnAck
<1>4. /\ m.column \in ColumnIndex
      /\ next_expected_sequence[p] < next_sequence[Other(p)]
      /\ m.column = sent[Other(p)][next_expected_sequence[p] + 1]
  BY <1>1, <1>3 DEF IsMoveOf, ColumnMessage
<1>5. /\ accepted[p] \in Seq(ColumnIndex) /\ Len(accepted[p]) = next_expected_sequence[p]
      /\ next_expected_sequence[p] \in Nat
  BY DEF TypeOK, DeliveryInv
<1>6. /\ next_expected_sequence' \in [Peers -> Nat]
      /\ accepted' \in [Peers -> Seq(ColumnIndex)]
  <2>1. next_expected_sequence \in [Peers -> Nat] /\ accepted \in [Peers -> Seq(ColumnIndex)]
    BY DEF TypeOK
  <2>2. PICK S : S = Seq(ColumnIndex)
    OBVIOUS
  <2>3. Append(accepted[p], m.column) \in S
    BY <1>4, <1>5, <2>2
  <2>4. next_expected_sequence[p] + 1 \in Nat
    BY <1>5
  <2>. QED  BY <1>1, <2>1, <2>2, <2>3, <2>4
<1>7. NetInv'
  <2>1. PICK T : T = [q \in Peers |-> Datagrams(q)']
    OBVIOUS
  <2>2. AckDatagram(m.sequence) \in T[Other(p)]
    BY <1>1, <1>5, <2>1, OtherPeer DEF AckDatagram, Datagrams, ColumnAck
  <2>3. Queues(T)
    <3>1. \A q \in Peers : next_sequence[q] \in Nat
      BY DEF TypeOK
    <3>2. \A q \in Peers : /\ next_sequence'[q] \in Nat
                            /\ next_sequence[q] <= next_sequence'[q]
                            /\ \A k \in 1 .. next_sequence[q] : sent'[q][k] = sent[q][k]
      BY <1>1, <3>1
    <3>. QED  BY <2>1, <3>2, KeepsMoves
  <2>4. Queues(T)'
    BY <1>1, <2>2, <2>3, RecvAndSendQueues
  <2>. QED  BY <2>1, <2>4, QueuesTyped
<1>8. DeliveryInv'
  <2>. SUFFICES ASSUME NEW q \in Peers
                PROVE  /\ Len(sent'[q]) = next_sequence'[q]
                       /\ Len(accepted'[q]) = next_expected_sequence'[q]
                       /\ next_expected_sequence'[q] <= next_sequence'[Other(q)]
                       /\ \A k \in 1 .. Len(accepted'[q]) : accepted'[q][k] = sent'[Other(q)][k]
                       /\ \A v \in un_ack_column_messages'[q] : IsMoveOf(q, v)'
                       /\ net'[q] \in Seq(Datagrams(q)')
    BY DEF DeliveryInv
  <2>1. /\ Len(sent'[q]) = next_sequence'[q]
        /\ \A v \in un_ack_column_messages'[q] : IsMoveOf(q, v)'
    BY <1>1 DEF DeliveryInv, IsMoveOf
  <2>2. CASE q = p
    <3>1. accepted'[p] = Append(accepted[p], m.column) /\ next_expected_sequence'[p] = next_expected_sequence[p] + 1
      BY <1>1 DEF TypeOK
    <3>2. \A k \in 1 .. Len(accepted[p]) : accepted[p][k] = sent[Other(p)][k]
      BY DEF DeliveryInv
    <3>3. Len(accepted'[p]) = next_expected_sequence'[p]
      BY <1>5, <3>1
    <3>4. \A k \in 1 .. Len(accepted'[p]) : accepted'[p][k] = sent[Other(p)][k]
      BY <1>4, <1>5, <3>1, <3>2
    <3>5. next_expected_sequence'[p] <= next_sequence[Other(p)]
      <4>1. PICK n \in Nat, e \in Nat : n = next_sequence[Other(p)] /\ e = next_expected_sequence[p]
        BY <1>5, OtherPeer DEF TypeOK
      <4>2. e < n
        BY <1>4, <4>1
      <4>. QED  BY <3>1, <4>1, <4>2
    <3>6. /\ Len(accepted'[q]) = next_expected_sequence'[q]
          /\ next_expected_sequence'[q] <= next_sequence'[Other(q)]
          /\ \A k \in 1 .. Len(accepted'[q]) : accepted'[q][k] = sent'[Other(q)][k]
      BY <1>1, <2>2, <3>3, <3>4, <3>5
    <3>. QED  BY <1>7, <2>1, <3>6 DEF NetInv
  <2>3. CASE q # p
    <3>1. accepted'[q] = accepted[q] /\ next_expected_sequence'[q] = next_expected_sequence[q]
      BY <1>1, <2>3 DEF TypeOK
    <3>2. /\ Len(accepted[q]) = next_expected_sequence[q]
          /\ next_expected_sequence[q] <= next_sequence[Other(q)]
          /\ \A k \in 1 .. Len(accepted[q]) : accepted[q][k] = sent[Other(q)][k]
      BY DEF DeliveryInv
    <3>3. net'[q] \in Seq(Datagrams(q)')
      BY <1>7 DEF NetInv
    <3>. QED  BY <1>1, <2>1, <3>1, <3>2, <3>3
  <2>. QED  BY <2>2, <2>3
<1>. QED  BY <1>0, <1>4, <1>6, <1>7, <1>8

(* on_column_message, the expected move. *)
LEMMA OnColumnMoveDelivery ==
  ASSUME TypeOK, DeliveryInv, NEW p \in Peers, NEW i \in 1 .. Len(net[p]),
         OnColumnMove(p, i) \/ OnColumnInvalid(p, i)
  PROVE  TypeOK' /\ DeliveryInv'
<1>1. AcceptColumn(p, i)
  BY DEF OnColumnMove, OnColumnInvalid
<1>2. /\ NetInv'
      /\ DeliveryInv'
      /\ next_expected_sequence' \in [Peers -> Nat]
      /\ accepted' \in [Peers -> Seq(ColumnIndex)]
  BY <1>1, AcceptColumnDelivery
<1>3. /\ board' \in [Peers -> Board]
      /\ state' \in [Peers -> {"TURN", "TURN_ACK", "WAIT"}]
      /\ process' \in [Peers -> {"running", "won", "lost"}]
  <2>1. CASE OnColumnMove(p, i)
    BY <2>1, MoveOnBoard DEF OnColumnMove, EndOrContinue, TypeOK
  <2>2. CASE OnColumnInvalid(p, i)
    BY <2>2 DEF OnColumnInvalid, TypeOK
  <2>. QED  BY <2>1, <2>2
<1>4. UNCHANGED <<next_sequence, un_ack_column_messages, sent>>
  BY <1>1 DEF AcceptColumn
<1>. QED  BY <1>2, <1>3, <1>4 DEF TypeOK, NetInv

(* on_column_ack_message, an acknowledgement of a queued move. *)
LEMMA OnColumnAckDelivery ==
  ASSUME TypeOK, DeliveryInv, NEW p \in Peers, NEW i \in 1 .. Len(net[p]), OnColumnAck(p, i)
  PROVE  TypeOK' /\ DeliveryInv'
<1>1. PICK u \in un_ack_column_messages[p] :
        un_ack_column_messages' = [un_ack_column_messages EXCEPT ![p] = @ \ {u}]
  BY DEF OnColumnAck
<1>2. /\ state' = [state EXCEPT ![p] = "WAIT"]
      /\ i \in Deliverable(p) /\ Recv(p, i)
      /\ UNCHANGED <<next_sequence, next_expected_sequence, board, process, sent, accepted>>
  BY DEF OnColumnAck, ReceivesAck, history
<1>3. NetInv'
  <2>1. PICK T : T = [q \in Peers |-> Datagrams(q)']
    OBVIOUS
  <2>2. Queues(T)
    BY <1>2, <2>1, KeepsMoves DEF TypeOK
  <2>. QED  BY <1>2, <2>1, <2>2, RecvQueues, QueuesTyped
<1>4. /\ un_ack_column_messages' \in [Peers -> SUBSET UnAcked]
      /\ \A q \in Peers : un_ack_column_messages'[q] \subseteq un_ack_column_messages[q]
  BY <1>1 DEF TypeOK
<1>5. state' \in [Peers -> {"TURN", "TURN_ACK", "WAIT"}]
  BY <1>2 DEF TypeOK
<1>6. TypeOK'
  BY <1>2, <1>3, <1>4, <1>5 DEF TypeOK, NetInv
<1>7. \A q \in Peers : \A v \in un_ack_column_messages'[q] : IsMoveOf(q, v)'
  BY <1>2, <1>4 DEF DeliveryInv, IsMoveOf
<1>8. DeliveryInv'
  BY <1>2, <1>3, <1>7 DEF DeliveryInv, NetInv
<1>. QED  BY <1>6, <1>8

(* The timer, the callbacks that only answer or ignore a datagram, and the
   network. *)
LEMMA OtherStepsDelivery ==
  ASSUME TypeOK, DeliveryInv, NEW p \in Peers,
         \/ \E u \in un_ack_column_messages[p] : TransmitColumnMessage(p, u)
         \/ \E i \in 1 .. Len(net[p]) : \/ OnColumnGap(p, i)
                                       \/ OnColumnOld(p, i)
                                       \/ OnColumnAckUnknown(p, i)
         \/ Lose(p)
         \/ Duplicate(p)
  PROVE  TypeOK' /\ DeliveryInv'
<1>1. UNCHANGED <<local, history>>
  BY DEF TransmitColumnMessage, OnColumnGap, OnColumnOld, OnColumnAckUnknown, Lose, Duplicate
<1>. SUFFICES ASSUME NEW T, T = [q \in Peers |-> Datagrams(q)'], Queues(T)
              PROVE  Queues(T)'
  BY <1>1, NetOnlyDelivery
<1>2. CASE \E u \in un_ack_column_messages[p] : TransmitColumnMessage(p, u)
  <2>1. PICK u \in un_ack_column_messages[p] : TransmitColumnMessage(p, u)
    BY <1>2
  <2>2. u \in UnAcked /\ IsMoveOf(p, u)
    BY DEF TypeOK, DeliveryInv
  <2>3. IsMoveOf(p, u)'
    BY <1>1, <2>2 DEF IsMoveOf, local, history
  <2>4. ColumnDatagram(u) \in T[Other(p)]
    BY <2>2, <2>3, OtherPeer DEF UnAcked, ColumnDatagram, ColumnMessage, Datagrams, IsMoveOf
  <2>. QED  BY <2>1, <2>4, SendQueues DEF TransmitColumnMessage
<1>3. CASE \E i \in 1 .. Len(net[p]) : OnColumnGap(p, i)
  <2>1. PICK i \in Deliverable(p) :
          RecvAndSend(p, i, AckDatagram(LastAccepted(p)))
    BY <1>3 DEF OnColumnGap, ReceivesColumn
  <2>2. PICK k : k = LastAccepted(p)
    OBVIOUS
  <2>3. k \in Nat
    BY <2>2, ClientAssumption DEF LastAccepted, TypeOK
  <2>4. AckDatagram(k) \in T[Other(p)]
    BY <2>3, OtherPeer DEF AckDatagram, Datagrams, ColumnAck
  <2>. QED  BY <2>1, <2>2, <2>4, RecvAndSendQueues
<1>4. CASE \E i \in 1 .. Len(net[p]) : OnColumnOld(p, i) \/ OnColumnAckUnknown(p, i)
  BY <1>4, RecvQueues DEF OnColumnOld, OnColumnAckUnknown, ReceivesColumn, ReceivesAck
<1>5. CASE Lose(p)
  BY <1>5, RecvQueues DEF Lose
<1>6. CASE Duplicate(p)
  BY <1>6, DuplicateQueues
<1>. QED  BY <1>2, <1>3, <1>4, <1>5, <1>6

LEMMA DeliveryStep == TypeOK /\ DeliveryInv /\ [Next]_vars => TypeOK' /\ DeliveryInv'
<1>. SUFFICES ASSUME TypeOK, DeliveryInv, [Next]_vars PROVE TypeOK' /\ DeliveryInv'
  OBVIOUS
<1>1. CASE Next
  <2>1. PICK p \in Peers :
          \/ \E move \in ColumnIndex : OnStdin(p, move)
          \/ \E u \in un_ack_column_messages[p] : TransmitColumnMessage(p, u)
          \/ \E i \in 1 .. Len(net[p]) : HandleUdpMessage(p, i)
          \/ Lose(p)
          \/ Duplicate(p)
    BY <1>1 DEF Next
  <2>2. CASE \E move \in ColumnIndex : OnStdin(p, move)
    BY <2>2, OnStdinDelivery
  <2>3. CASE \E i \in 1 .. Len(net[p]) : OnColumnMove(p, i) \/ OnColumnInvalid(p, i)
    BY <2>3, OnColumnMoveDelivery
  <2>4. CASE \E i \in 1 .. Len(net[p]) : OnColumnAck(p, i)
    BY <2>4, OnColumnAckDelivery
  <2>5. CASE \/ \E u \in un_ack_column_messages[p] : TransmitColumnMessage(p, u)
             \/ \E i \in 1 .. Len(net[p]) : \/ OnColumnGap(p, i)
                                           \/ OnColumnOld(p, i)
                                           \/ OnColumnAckUnknown(p, i)
             \/ Lose(p)
             \/ Duplicate(p)
    BY <2>5, OtherStepsDelivery
  <2>. QED  BY <2>1, <2>2, <2>3, <2>4, <2>5 DEF HandleUdpMessage
<1>2. CASE UNCHANGED vars
  BY <1>2 DEF vars, local, history, TypeOK, DeliveryInv, Datagrams, IsMoveOf
<1>. QED  BY <1>1, <1>2

-----------------------------------------------------------------------------
(***************************************************************************)
(* The theorems.                                                           *)
(***************************************************************************)

(* The clients' variables keep their types: every move put on a board fits on
   it, and the socket queues hold only well-formed messages. *)
THEOREM TypeCorrect == Spec => []TypeOK
<1>1. TypeOK /\ DeliveryInv /\ [Next]_vars => TypeOK' /\ DeliveryInv'
  BY DeliveryStep
<1>. QED  BY <1>1, DeliveryInit, PTL DEF Spec

(* Only moves that were made are queued, under way or accepted, each under its
   own number: the invariant both of the following rest on. *)
THEOREM DeliveryInvariant == Spec => [](TypeOK /\ DeliveryInv)
<1>1. TypeOK /\ DeliveryInv /\ [Next]_vars => (TypeOK /\ DeliveryInv)'
  BY DeliveryStep
<1>. QED  BY <1>1, DeliveryInit, PTL DEF Spec

(* on_column_message accepts each move at most once and in the order in which
   send_column_message made them, whatever the network does with the datagrams. *)
THEOREM DeliveredExactlyOnceInOrder == Spec => []ExactlyOnceInOrder
<1>1. TypeOK /\ DeliveryInv => ExactlyOnceInOrder
  <2>. SUFFICES ASSUME TypeOK, DeliveryInv, NEW p \in Peers
                PROVE  IsPrefix(accepted[Other(p)], sent[p])
    BY DEF ExactlyOnceInOrder
  <2>0. PICK q : q = Other(p)
    OBVIOUS
  <2>1. /\ q \in Peers /\ accepted[q] \in Seq(ColumnIndex) /\ sent[p] \in Seq(ColumnIndex)
        /\ Other(q) = p
    BY <2>0, OtherPeer DEF TypeOK
  <2>2. /\ Len(accepted[q]) <= Len(sent[p])
        /\ \A k \in 1 .. Len(accepted[q]) : accepted[q][k] = sent[p][k]
    BY <2>1 DEF DeliveryInv
  <2>3. SubSeq(accepted[q], 1, Len(accepted[q])) = SubSeq(sent[p], 1, Len(accepted[q]))
    BY <2>1, <2>2
  <2>. QED  BY <2>0, <2>2, <2>3 DEF IsPrefix
<1>. QED  BY <1>1, DeliveryInvariant, PTL

(* A step of the clients sends on a channel, accepts from it, or leaves it. *)
LEMMA ChannelStep ==
  ASSUME TypeOK, DeliveryInv, [Next]_vars, NEW p \in Peers
  PROVE  \/ UNCHANGED <<sent[p], accepted[Other(p)]>>
         \/ /\ Len(accepted[Other(p)]) < Len(sent[p])
            /\ accepted'[Other(p)]
                 = Append(accepted[Other(p)], sent[p][Len(accepted[Other(p)]) + 1])
            /\ UNCHANGED sent[p]
         \/ \E c \in ColumnIndex : /\ sent'[p] = Append(sent[p], c)
                                  /\ UNCHANGED accepted[Other(p)]
<1>1. CASE \E q \in Peers, move \in ColumnIndex : OnStdin(q, move)
  BY <1>1 DEF OnStdin, SendColumnMessage, TypeOK
<1>2. CASE \E q \in Peers : \E i \in 1 .. Len(net[q]) : AcceptColumn(q, i)
  <2>0. PICK q \in Peers : \E i \in 1 .. Len(net[q]) : AcceptColumn(q, i)
    BY <1>2
  <2>1. PICK i \in 1 .. Len(net[q]) : AcceptColumn(q, i)
    BY <2>0
  <2>2. /\ accepted' = [accepted EXCEPT ![q] = Append(@, net[q][i].column)]
        /\ UNCHANGED sent
        /\ net[q][i].type = "column" /\ net[q][i].sequence = next_expected_sequence[q]
    BY <2>1 DEF AcceptColumn, ReceivesColumn, IsExpected
  <2>3. net[q][i] \in Datagrams(q)
    BY DEF DeliveryInv
  <2>4. IsMoveOf(Other(q), net[q][i])
    BY <2>2, <2>3 DEF Datagrams, ColumnAck
  <2>5. CASE q = Other(p)
    BY <2>2, <2>4, <2>5, OtherPeer DEF IsMoveOf, DeliveryInv, TypeOK
  <2>6. CASE q # Other(p)
    BY <2>2, <2>6, OtherPeer DEF TypeOK
  <2>. QED  BY <2>5, <2>6
<1>3. CASE UNCHANGED <<sent, accepted>>
  BY <1>3
<1>4. \/ \E q \in Peers, move \in ColumnIndex : OnStdin(q, move)
      \/ \E q \in Peers : \E i \in 1 .. Len(net[q]) : AcceptColumn(q, i)
      \/ UNCHANGED <<sent, accepted>>
  BY DEF Next, HandleUdpMessage, OnColumnInvalid, OnColumnMove, OnColumnGap, OnColumnOld,
         OnColumnAck, OnColumnAckUnknown, TransmitColumnMessage, Lose, Duplicate, history, vars
<1>. QED  BY <1>1, <1>2, <1>3, <1>4

(* The clients implement a reliable channel in each direction: Channel is what
   the sequence numbers and acknowledgements of client.c are for. *)
THEOREM ImplementsChannels == Spec => ReliableChannels
<1>1. A \in Peers /\ B \in Peers /\ Other(A) = B /\ Other(B) = A
  BY ClientAssumption DEF Peers, Other
<1>2. Init => FromA!CInit /\ FromB!CInit
  BY <1>1 DEF Init, FromA!CInit, FromB!CInit
<1>3. TypeOK /\ DeliveryInv /\ [Next]_vars => [FromA!CNext]_(FromA!cvars)
  BY <1>1, ChannelStep DEF FromA!CNext, FromA!AcceptNext, FromA!SendNext, FromA!cvars
<1>4. TypeOK /\ DeliveryInv /\ [Next]_vars => [FromB!CNext]_(FromB!cvars)
  BY <1>1, ChannelStep DEF FromB!CNext, FromB!AcceptNext, FromB!SendNext, FromB!cvars
<1>. QED
  BY <1>2, <1>3, <1>4, DeliveryInvariant, PTL DEF Spec, ReliableChannels, FromA!CSpec, FromB!CSpec

-----------------------------------------------------------------------------
(***************************************************************************)
(* Heartbeats, for any number of them.                                     *)
(***************************************************************************)
HTypeOK ==
  /\ last_send_heartbeat \in [Peers -> Nat]
  /\ heartbeats \in [Peers -> SUBSET [type : {"heartbeat", "heartbeat_ack"}, timestamp : Nat]]

HInv == HTypeOK /\ HeartbeatsArePaired

LEMMA HInvInit == HInit => HInv
BY DEF HInit, HInv, HTypeOK, HeartbeatsArePaired

(* A new heartbeat carries the number its sender has reached. *)
LEMMA SendKeepsHInv ==
  ASSUME HInv, NEW p \in Peers, SendHeartbeat(p)
  PROVE  HInv'
<1>1. HTypeOK'
  BY OtherPeer DEF HInv, HTypeOK, SendHeartbeat
<1>2. \A q \in Peers : last_send_heartbeat[q] \in Nat /\ last_send_heartbeat'[q] \in Nat
                       /\ last_send_heartbeat[q] <= last_send_heartbeat'[q]
  BY DEF HInv, HTypeOK, SendHeartbeat
<1>3. ASSUME NEW q \in Peers, NEW msg \in heartbeats'[q]
      PROVE  \/ msg.type = "heartbeat" /\ msg.timestamp <= last_send_heartbeat'[Other(q)]
             \/ msg.type = "heartbeat_ack" /\ msg.timestamp <= last_send_heartbeat'[q]
  <2>1. CASE msg \in heartbeats[q]
    <3>1. msg.timestamp \in Nat
      BY <2>1 DEF HInv, HTypeOK
    <3>. QED  BY <2>1, <3>1, <1>2, OtherPeer DEF HInv, HeartbeatsArePaired
  <2>2. CASE msg \notin heartbeats[q]
    <3>1. q = Other(p) /\ msg = [type |-> "heartbeat", timestamp |-> last_send_heartbeat[p] + 1]
      BY <2>2, <1>3, OtherPeer DEF HInv, HTypeOK, SendHeartbeat
    <3>2. last_send_heartbeat'[Other(q)] = last_send_heartbeat[p] + 1
      BY <3>1, OtherPeer DEF HInv, HTypeOK, SendHeartbeat
    <3>. QED  BY <3>1, <3>2, <1>2
  <2>. QED  BY <2>1, <2>2
<1>. QED  BY <1>1, <1>3 DEF HInv, HeartbeatsArePaired

(* The answer to a heartbeat goes to the client that has sent it. *)
LEMMA AnswerKeepsHInv ==
  ASSUME HInv, NEW p \in Peers, NEW msg \in heartbeats[p], OnHeartbeatMessage(p, msg)
  PROVE  HInv'
<1>1. msg \in [type : {"heartbeat", "heartbeat_ack"}, timestamp : Nat]
  BY DEF HInv, HTypeOK
<1>2. Answer(msg) = [type |-> "heartbeat_ack", timestamp |-> msg.timestamp]
  BY <1>1 DEF Answer
<1>3. msg.timestamp <= last_send_heartbeat[Other(p)]
  BY DEF HInv, HeartbeatsArePaired, OnHeartbeatMessage
<1>4. HTypeOK'
  BY <1>1, <1>2, OtherPeer DEF HInv, HTypeOK, OnHeartbeatMessage
<1>5. ASSUME NEW q \in Peers
      PROVE  heartbeats'[q] \subseteq heartbeats[q] \cup (IF q = Other(p) THEN {Answer(msg)} ELSE {})
  BY OtherPeer DEF HInv, HTypeOK, OnHeartbeatMessage
<1>6. HeartbeatsArePaired'
  BY <1>2, <1>3, <1>5, OtherPeer DEF HInv, HeartbeatsArePaired, OnHeartbeatMessage
<1>. QED  BY <1>4, <1>6 DEF HInv

(* What only receives or loses a message leaves the others. *)
LEMMA FewerKeepHInv ==
  ASSUME HInv, NEW p \in Peers, NEW msg \in heartbeats[p],
         heartbeats' = [heartbeats EXCEPT ![p] = @ \ {msg}],
         UNCHANGED last_send_heartbeat
  PROVE  HInv'
<1>1. \A q \in Peers : heartbeats'[q] \subseteq heartbeats[q]
  BY DEF HInv, HTypeOK
<1>2. HTypeOK'
  BY DEF HInv, HTypeOK
<1>. QED  BY <1>1, <1>2 DEF HInv, HeartbeatsArePaired

(* No message that was sent back is sent back again (HeartbeatsArePaired),
   whatever is lost or comes late: every answer under way is one to a heartbeat
   of the client it goes to. *)
THEOREM HeartbeatsPaired == HSpec => []HeartbeatsArePaired
<1>1. HInv /\ [HNext]_allVars => HInv'
  <2> SUFFICES ASSUME HInv, [HNext]_allVars PROVE HInv'
    OBVIOUS
  <2>1. CASE UNCHANGED heartbeatVars
    BY <2>1 DEF HInv, HTypeOK, HeartbeatsArePaired, heartbeatVars
  <2>2. ASSUME NEW p \in Peers, HeartbeatStep(p) PROVE HInv'
    <3>1. CASE SendHeartbeat(p)
      BY <3>1, SendKeepsHInv
    <3>2. ASSUME NEW msg \in heartbeats[p], OnHeartbeatMessage(p, msg) PROVE HInv'
      BY <3>2, AnswerKeepsHInv
    <3>3. ASSUME NEW msg \in heartbeats[p], OnHeartbeatAckMessage(p, msg) PROVE HInv'
      BY <3>3, FewerKeepHInv DEF OnHeartbeatAckMessage
    <3>4. ASSUME NEW msg \in heartbeats[p], LoseHeartbeat(p, msg) PROVE HInv'
      BY <3>4, FewerKeepHInv DEF LoseHeartbeat
    <3>. QED  BY <2>2, <3>1, <3>2, <3>3, <3>4 DEF HeartbeatStep, HandleHeartbeat
  <2>. QED  BY <2>1, <2>2 DEF HNext, allVars
<1>. QED  BY HInvInit, <1>1, PTL DEF HSpec, HInv

(* The heartbeats leave the game alone: what holds of every behaviour of the
   two clients without them (Client) holds with them. *)
THEOREM HeartbeatsLeaveTheGameAlone == HSpec => Spec
<1>1. HInit => Init
  BY DEF HInit
<1>2. [HNext]_allVars => [Next]_vars
  BY DEF HNext, allVars
<1>. QED  BY <1>1, <1>2, PTL DEF HSpec, Spec

-----------------------------------------------------------------------------
(***************************************************************************)
(* A game with one starter.                                                *)
(***************************************************************************)
LEMMA TwoPeers == /\ Peers = {A, B} /\ A # B
                  /\ Other(A) = B /\ Other(B) = A
BY ClientAssumption DEF Peers, Other

(* When a client believes it is its turn, both know all moves. *)
LEMMA TurnKnowsAll ==
  ASSUME TypeOK, OrderInv, TurnInv, NEW p \in Peers, Running(p), state[p] = "TURN"
  PROVE  /\ next_sequence[p] = next_expected_sequence[Other(p)]
         /\ next_sequence[Other(p)] = next_expected_sequence[p]
<1>1. /\ next_sequence[A] \in Nat /\ next_expected_sequence[A] \in Nat
      /\ next_sequence[B] \in Nat /\ next_expected_sequence[B] \in Nat
  BY TwoPeers DEF TypeOK
<1>2. CASE p = A
  BY <1>1, <1>2, TwoPeers DEF OrderInv, TurnInv
<1>3. CASE p = B
  BY <1>1, <1>3, TwoPeers DEF OrderInv, TurnInv
<1>. QED  BY <1>2, <1>3, TwoPeers

(* When there is a move to accept, it is the only one not yet known to both. *)
LEMMA OneMoveAhead ==
  ASSUME TypeOK, OrderInv, NEW p \in Peers,
         next_expected_sequence[p] < next_sequence[Other(p)]
  PROVE  /\ Ahead(Other(p))
         /\ next_sequence[p] = next_expected_sequence[Other(p)]
<1>1. /\ next_sequence[A] \in Nat /\ next_expected_sequence[A] \in Nat
      /\ next_sequence[B] \in Nat /\ next_expected_sequence[B] \in Nat
  BY TwoPeers DEF TypeOK
<1>2. CASE p = A
  BY <1>1, <1>2, TwoPeers DEF OrderInv, Ahead
<1>3. CASE p = B
  BY <1>1, <1>3, TwoPeers DEF OrderInv, Ahead
<1>. QED  BY <1>2, <1>3, TwoPeers

(* At most one client is ahead of the other. *)
LEMMA NotBothAhead == TypeOK /\ OrderInv => ~(Ahead(A) /\ Ahead(B))
<1>1. TypeOK => /\ next_sequence[A] \in Nat /\ next_expected_sequence[A] \in Nat
                /\ next_sequence[B] \in Nat /\ next_expected_sequence[B] \in Nat
  BY TwoPeers DEF TypeOK
<1>. QED  BY <1>1, TwoPeers DEF OrderInv, Ahead

(* When neither is ahead, each board is the mirror of the other. *)
LEMMA InStepBoards ==
  ASSUME TypeOK, BoardInv, ~Ahead(A), ~Ahead(B), NEW p \in Peers
  PROVE  board[p] = Mirror(board[Other(p)])
<1>1. board[A] = Mirror(board[B]) /\ board[A] \in Board /\ board[B] \in Board
  BY TwoPeers DEF BoardInv, TypeOK
<1>2. board[B] = Mirror(board[A])
  BY <1>1, MirrorTwice
<1>. QED  BY <1>1, <1>2, TwoPeers

\* What the game's invariant adds to that of the delivery of moves.
PlayInv == OrderInv /\ TurnInv /\ AckInv /\ AckedWasAccepted /\ BoardInv /\ OutcomeInv

LEMMA GameInit == Init => GameInv
<1>. SUFFICES ASSUME Init PROVE GameInv
  OBVIOUS
<1>1. TypeOK /\ DeliveryInv
  BY DeliveryInit
<1>2. /\ \A p \in Peers : /\ next_sequence[p] = 0 /\ next_expected_sequence[p] = 0
                          /\ un_ack_column_messages[p] = {}
                          /\ board[p] = init_4clib /\ process[p] = "running" /\ net[p] = <<>>
      /\ state[B] = "WAIT"
  BY TwoPeers, OneStarter DEF Init
<1>3. OrderInv /\ TurnInv
  BY <1>2, TwoPeers DEF OrderInv, TurnInv
<1>6. AckInv
  <2>1. \A S : <<>> \in Seq(S)
    OBVIOUS
  <2>. QED  BY <1>2, <2>1 DEF AckInv
<1>7. AckedWasAccepted
  BY <1>2 DEF AckedWasAccepted
<1>4. BoardInv
  <2>1. Mirror(init_4clib) = init_4clib
    BY DEF Mirror, init_4clib, Empty
  <2>. QED  BY <1>2, <2>1, TwoPeers DEF BoardInv, Ahead
<1>5. OutcomeInv
  BY <1>2, InitNoWinner DEF OutcomeInv, Running
<1>. QED  BY <1>1, <1>3, <1>4, <1>5, <1>6, <1>7 DEF GameInv

-----------------------------------------------------------------------------
(***************************************************************************)
(* The steps.                                                              *)
(***************************************************************************)

(* on_stdin makes the one move that the other client does not know yet. *)
LEMMA OnStdinGame ==
  ASSUME GameInv, TypeOK', NEW p \in Peers, NEW move \in ColumnIndex, OnStdin(p, move)
  PROVE  PlayInv'
<1>0. PICK q \in Peers : q = Other(p) /\ Other(q) = p /\ p # q /\ Peers = {p, q}
  BY TwoPeers
<1>1. /\ next_sequence' = [next_sequence EXCEPT ![p] = @ + 1]
      /\ board' = [board EXCEPT ![p] = make_move(@, move, PLAYER_1)]
      /\ sent' = [sent EXCEPT ![p] = Append(@, move)]
      /\ UNCHANGED <<next_expected_sequence, accepted>>
      /\ Running(p) /\ state[p] = "TURN" /\ valid_move(board[p], move)
  BY DEF OnStdin, MayMove, SendColumnMessage
<1>2. /\ next_sequence[p] = next_expected_sequence[q]
      /\ next_sequence[q] = next_expected_sequence[p]
      /\ ~Ahead(p) /\ ~Ahead(q)
  <2>1. /\ next_sequence[p] = next_expected_sequence[q]
        /\ next_sequence[q] = next_expected_sequence[p]
    BY <1>0, <1>1, TurnKnowsAll DEF GameInv
  <2>2. /\ next_expected_sequence[p] \in Nat /\ next_expected_sequence[q] \in Nat
    BY <1>0 DEF GameInv, TypeOK
  <2>. QED  BY <1>0, <2>1, <2>2 DEF Ahead
<1>3. /\ next_sequence'[p] = next_sequence[p] + 1 /\ next_sequence'[q] = next_sequence[q]
      /\ board'[p] = make_move(board[p], move, PLAYER_1) /\ board'[q] = board[q]
      /\ sent'[p][next_sequence'[p]] = move
  BY <1>0, <1>1 DEF GameInv, TypeOK, DeliveryInv
<1>4. /\ next_sequence[p] \in Nat /\ next_expected_sequence[p] \in Nat
      /\ next_sequence[q] \in Nat /\ next_expected_sequence[q] \in Nat
  BY DEF GameInv, TypeOK
<1>5. Ahead(p)' /\ ~Ahead(q)'
  BY <1>0, <1>1, <1>2, <1>3, <1>4 DEF Ahead
<1>6. OrderInv'
  <2>1. CASE p = A
    BY <1>0, <1>1, <1>2, <1>3, <1>4, <2>1, TwoPeers DEF OrderInv, TurnInv, GameInv
  <2>2. CASE p = B
    BY <1>0, <1>1, <1>2, <1>3, <1>4, <2>2, TwoPeers DEF OrderInv, TurnInv, GameInv
  <2>. QED  BY <2>1, <2>2, TwoPeers
<1>7. /\ \/ process' = [process EXCEPT ![p] = "won"] /\ winner(board'[p])
         \/ process' = process /\ state'[p] = "TURN_ACK" /\ ~winner(board'[p])
      /\ state'[q] = state[q] /\ process'[q] = process[q]
  BY <1>0 DEF OnStdin, EndOrContinue, GameInv, TypeOK
<1>8. TurnInv'
  <2>1. ~(Running(p)' /\ state'[p] = "TURN")
    BY <1>7 DEF Running, GameInv, TypeOK
  <2>2. Running(q)' <=> Running(q)
    BY <1>7 DEF Running
  <2>3. CASE p = A
    BY <1>0, <1>1, <1>3, <1>7, <2>1, <2>2, <2>3, TwoPeers DEF TurnInv, GameInv
  <2>4. CASE p = B
    BY <1>0, <1>1, <1>3, <1>7, <2>1, <2>2, <2>4, TwoPeers DEF TurnInv, GameInv
  <2>. QED  BY <2>3, <2>4, TwoPeers
<1>9. AckInv'
  <2>0. PICK m : m = ColumnDatagram([sequence |-> next_sequence[p], column |-> move])
    OBVIOUS
  <2>1. PICK T : T = [r \in Peers |-> AcksOfAccepted(r)]
    OBVIOUS
  <2>2. Queues(T)
    BY <2>1 DEF Queues, GameInv, AckInv, TypeOK
  <2>3. m \in T[q] /\ Send(p, m)
    BY <2>0, <2>1, <1>4 DEF AcksOfAccepted, ColumnMessage, ColumnDatagram, OnStdin, SendColumnMessage
  <2>4. Queues(T)'
    BY <1>0, <2>2, <2>3, SendQueues
  <2>. QED  BY <1>1, <2>1, <2>4 DEF Queues, AckInv, AcksOfAccepted
<1>10. AckedWasAccepted'
  <2>. SUFFICES ASSUME NEW r \in Peers, NEW k \in 0 .. (next_sequence'[r] - 1)
                PROVE  \/ \E u \in un_ack_column_messages'[r] : u.sequence = k
                       \/ k < next_expected_sequence'[Other(r)]
    BY DEF AckedWasAccepted
  <2>1. /\ un_ack_column_messages[r] \subseteq un_ack_column_messages'[r]
        /\ [sequence |-> next_sequence[p], column |-> move] \in un_ack_column_messages'[p]
    BY DEF OnStdin, SendColumnMessage, GameInv, TypeOK
  <2>2. CASE r = p /\ k = next_sequence[p]
    BY <2>1, <2>2
  <2>3. CASE ~(r = p /\ k = next_sequence[p])
    <3>1. k \in 0 .. (next_sequence[r] - 1)
      BY <1>0, <1>3, <1>4, <2>3
    <3>. QED  BY <1>1, <2>1, <3>1 DEF AckedWasAccepted, GameInv
  <2>. QED  BY <2>2, <2>3
<1>11. BoardInv'
  <2>1. board[p] = Mirror(board[q])
    BY <1>0, <1>2, InStepBoards, TwoPeers DEF GameInv
  <2>2. valid_move(board[q], move)
    BY <1>1, <2>1, MirrorValid
  <2>3. \A r \in Peers : Ahead(r)' =>
          /\ r = p
          /\ sent'[r][next_sequence'[r]] = move
          /\ board'[r] = make_move(Mirror(board'[Other(r)]), move, PLAYER_1)
          /\ valid_move(board'[Other(r)], move)
    BY <1>0, <1>3, <1>5, <2>1, <2>2
  <2>. QED  BY <1>0, <1>5, <2>3, TwoPeers DEF BoardInv
<1>12. OutcomeInv'
  <2>1. Running(p) <=> ~winner(board[p])
    BY DEF GameInv, OutcomeInv
  <2>2. /\ Running(q) <=> ~winner(board[q])
        /\ process[q] = "won" => Ahead(q) \/ process[p] = "lost"
        /\ process[q] = "lost" => process[p] = "won"
    BY <1>0 DEF GameInv, OutcomeInv
  <2>3. process[p] = "running" /\ process[q] = "running"
    BY <1>1, <1>2, <2>2 DEF Running, GameInv, TypeOK
  <2>4. process'[q] = "running" /\ ~winner(board'[q])
    BY <1>3, <1>7, <2>2, <2>3 DEF Running
  <2>5. \/ process'[p] = "won" /\ winner(board'[p])
        \/ process'[p] = "running" /\ ~winner(board'[p])
    BY <1>7, <2>3 DEF GameInv, TypeOK
  <2>. QED  BY <1>0, <1>5, <2>4, <2>5 DEF OutcomeInv, Running
<1>. QED  BY <1>6, <1>8, <1>9, <1>10, <1>11, <1>12 DEF PlayInv

(* The move that is accepted is possible, and afterwards both boards agree. *)
LEMMA AcceptColumnGame ==
  ASSUME GameInv, NEW p \in Peers, NEW i \in 1 .. Len(net[p]), AcceptColumn(p, i)
  PROVE  /\ Ahead(Other(p)) /\ ~Ahead(p)
         /\ next_sequence[Other(p)] = next_expected_sequence[p] + 1
         /\ valid_move(board[p], net[p][i].column)
         /\ Mirror(board[Other(p)]) = make_move(board[p], net[p][i].column, PLAYER_2)
<1>0. PICK q \in Peers : q = Other(p) /\ Other(q) = p /\ p # q /\ Peers = {p, q}
  BY TwoPeers
<1>1. /\ net[p][i].type = "column"
      /\ net[p][i].sequence = next_expected_sequence[p]
  BY DEF AcceptColumn, ReceivesColumn, IsExpected
<1>2. net[p][i] \in Datagrams(p)
  BY DEF GameInv, DeliveryInv
<1>3. IsMoveOf(q, net[p][i])
  BY <1>0, <1>1, <1>2 DEF Datagrams, ColumnAck
<1>4. /\ next_expected_sequence[p] < next_sequence[q]
      /\ net[p][i].column = sent[q][next_expected_sequence[p] + 1]
  BY <1>1, <1>3 DEF IsMoveOf
<1>5. Ahead(q) /\ ~Ahead(p)
  BY <1>0, <1>4, OneMoveAhead, NotBothAhead, TwoPeers DEF GameInv
<1>6. next_sequence[q] = next_expected_sequence[p] + 1
  BY <1>0, <1>5 DEF Ahead
<1>7. /\ valid_move(board[p], net[p][i].column)
      /\ board[q] = make_move(Mirror(board[p]), net[p][i].column, PLAYER_1)
  BY <1>0, <1>4, <1>5, <1>6 DEF GameInv, BoardInv
<1>8. board[p] \in Board
  BY DEF GameInv, TypeOK
<1>9. make_move(board[p], net[p][i].column, PLAYER_2) \in Board
  BY <1>7, <1>8, MoveOnBoard
<1>10. board[q] = Mirror(make_move(board[p], net[p][i].column, PLAYER_2))
  BY <1>7, <1>8, MirrorMove
<1>. QED  BY <1>0, <1>5, <1>6, <1>7, <1>9, <1>10, MirrorTwice

(* on_column_message, the expected move. *)
LEMMA OnColumnMoveGame ==
  ASSUME GameInv, NEW p \in Peers, NEW i \in 1 .. Len(net[p]), OnColumnMove(p, i)
  PROVE  PlayInv'
<1>0. PICK q \in Peers : q = Other(p) /\ Other(q) = p /\ p # q /\ Peers = {p, q}
  BY TwoPeers
<1>1. PICK move : move = net[p][i].column
  OBVIOUS
<1>2. /\ Ahead(q) /\ ~Ahead(p)
      /\ next_sequence[q] = next_expected_sequence[p] + 1
      /\ valid_move(board[p], move)
      /\ Mirror(board[q]) = make_move(board[p], move, PLAYER_2)
  BY <1>0, <1>1, AcceptColumnGame DEF OnColumnMove
<1>3. /\ next_expected_sequence' = [next_expected_sequence EXCEPT ![p] = @ + 1]
      /\ board' = [board EXCEPT ![p] = make_move(@, move, PLAYER_2)]
      /\ UNCHANGED <<next_sequence, un_ack_column_messages, sent>>
      /\ Running(p) /\ i \in Deliverable(p)
      /\ RecvAndSend(p, i, AckDatagram(net[p][i].sequence))
      /\ net[p][i].sequence = next_expected_sequence[p]
  BY <1>1 DEF OnColumnMove, AcceptColumn, ReceivesColumn, IsExpected
<1>4. /\ next_sequence[p] \in Nat /\ next_expected_sequence[p] \in Nat
      /\ next_sequence[q] \in Nat /\ next_expected_sequence[q] \in Nat
      /\ board[p] \in Board /\ board[q] \in Board
  BY DEF GameInv, TypeOK
<1>5. /\ next_expected_sequence'[p] = next_expected_sequence[p] + 1
      /\ next_expected_sequence'[q] = next_expected_sequence[q]
      /\ board'[p] = Mirror(board[q]) /\ board'[q] = board[q]
  BY <1>0, <1>2, <1>3 DEF GameInv, TypeOK
<1>6. ~Ahead(p)' /\ ~Ahead(q)'
  BY <1>0, <1>2, <1>3, <1>4, <1>5 DEF Ahead
<1>7. OrderInv'
  <2>1. CASE p = A
    BY <1>0, <1>2, <1>3, <1>4, <1>5, <2>1, TwoPeers DEF OrderInv, GameInv
  <2>2. CASE p = B
    BY <1>0, <1>2, <1>3, <1>4, <1>5, <2>2, TwoPeers DEF OrderInv, GameInv
  <2>. QED  BY <2>1, <2>2, TwoPeers
<1>8. /\ \/ process' = [process EXCEPT ![p] = "lost"] /\ winner(board'[p])
         \/ process' = process /\ ~winner(board'[p])
      /\ state'[q] = state[q] /\ process'[q] = process[q]
  BY <1>0 DEF OnColumnMove, EndOrContinue, GameInv, TypeOK
<1>9. TurnInv'
  <2>1. Running(q)' <=> Running(q)
    BY <1>8 DEF Running
  <2>2. CASE p = A
    BY <1>0, <1>3, <1>4, <1>5, <1>7, <1>8, <2>1, <2>2, <1>2, TwoPeers DEF TurnInv, GameInv, OrderInv
  <2>3. CASE p = B
    BY <1>0, <1>3, <1>4, <1>5, <1>7, <1>8, <2>1, <2>3, <1>2, TwoPeers DEF TurnInv, GameInv, OrderInv
  <2>. QED  BY <2>2, <2>3, TwoPeers
<1>10. AckInv'
  <2>0. PICK m : m = AckDatagram(next_expected_sequence[p])
    OBVIOUS
  <2>1. PICK T : T = [r \in Peers |-> AcksOfAccepted(r)']
    OBVIOUS
  <2>2. Queues(T)
    <3>1. \A r \in Peers : next_expected_sequence[r] \in Nat /\ next_expected_sequence'[r] \in Nat
                           /\ next_expected_sequence[r] <= next_expected_sequence'[r]
      BY <1>0, <1>4, <1>5
    <3>2. \A r \in Peers : AcksOfAccepted(r) \subseteq T[r]
      BY <2>1, <3>1, OtherPeer DEF AcksOfAccepted, ColumnAck
    <3>. QED  BY <3>2, SeqLarger DEF Queues, GameInv, AckInv, TypeOK
  <2>3. m \in T[q] /\ RecvAndSend(p, i, m)
    BY <1>0, <1>3, <1>4, <1>5, <2>0, <2>1 DEF AcksOfAccepted, ColumnAck, AckDatagram
  <2>4. Queues(T)'
    BY <1>0, <1>3, <2>2, <2>3, RecvAndSendQueues
  <2>. QED  BY <2>1, <2>4 DEF Queues, AckInv
<1>11. AckedWasAccepted'
  BY <1>0, <1>3, <1>4, <1>5 DEF AckedWasAccepted, GameInv
<1>12. BoardInv'
  <2>1. board'[A] = Mirror(board'[B])
    BY <1>0, <1>4, <1>5, MirrorTwice, TwoPeers
  <2>. QED  BY <1>0, <1>6, <2>1 DEF BoardInv
<1>13. OutcomeInv'
  <2>1. winner(board'[p]) <=> winner(board[q])
    BY <1>4, <1>5, MirrorWinner
  <2>2. /\ Running(q) <=> ~winner(board[q])
        /\ process[q] = "lost" => process[p] = "won"
        /\ process[q] \in {"running", "won", "lost"}
    BY <1>0 DEF GameInv, OutcomeInv, TypeOK
  <2>3. process[p] = "running"
    BY <1>3 DEF Running
  <2>4. \/ process'[p] = "lost" /\ winner(board'[p]) /\ process'[q] = "won"
        \/ process'[p] = "running" /\ ~winner(board'[p]) /\ process'[q] = "running"
    BY <1>8, <2>1, <2>2, <2>3 DEF Running, GameInv, TypeOK
  <2>5. Running(q)' <=> ~winner(board'[q])
    BY <1>5, <1>8, <2>2 DEF Running
  <2>. QED  BY <1>0, <2>4, <2>5 DEF OutcomeInv, Running
<1>. QED  BY <1>7, <1>9, <1>10, <1>11, <1>12, <1>13 DEF PlayInv

(* on_column_ack_message takes a move from the queue that its peer accepted. *)
LEMMA OnColumnAckGame ==
  ASSUME GameInv, NEW p \in Peers, NEW i \in 1 .. Len(net[p]), OnColumnAck(p, i)
  PROVE  PlayInv'
<1>1. /\ state' = [state EXCEPT ![p] = "WAIT"]
      /\ net[p][i].type = "ack" /\ i \in Deliverable(p) /\ Recv(p, i)
      /\ UNCHANGED <<next_sequence, next_expected_sequence, board, process, sent, accepted>>
  BY DEF OnColumnAck, ReceivesAck, history
<1>2. OrderInv' /\ OutcomeInv' /\ BoardInv'
  BY <1>1 DEF OrderInv, OutcomeInv, BoardInv, Running, Ahead, GameInv
<1>3. TurnInv'
  BY <1>1, TwoPeers DEF TurnInv, GameInv, TypeOK, Running
<1>4. AckInv'
  <2>1. PICK T : T = [r \in Peers |-> AcksOfAccepted(r)]
    OBVIOUS
  <2>2. Queues(T)
    BY <2>1 DEF Queues, GameInv, AckInv, TypeOK
  <2>3. Queues(T)'
    BY <1>1, <2>2, RecvQueues
  <2>. QED  BY <1>1, <2>1, <2>3 DEF Queues, AckInv, AcksOfAccepted
<1>5. AckedWasAccepted'
  <2>1. net[p][i].sequence < next_expected_sequence[Other(p)]
    <3>1. net[p][i] \in AcksOfAccepted(p)
      BY DEF GameInv, AckInv
    <3>. QED  BY <1>1, <3>1 DEF AcksOfAccepted, ColumnMessage
  <2>2. PICK u \in un_ack_column_messages[p] :
          /\ u.sequence = net[p][i].sequence
          /\ un_ack_column_messages' = [un_ack_column_messages EXCEPT ![p] = @ \ {u}]
    BY DEF OnColumnAck, Acknowledges
  <2>. SUFFICES ASSUME NEW r \in Peers, NEW k \in 0 .. (next_sequence[r] - 1)
                PROVE  \/ \E v \in un_ack_column_messages'[r] : v.sequence = k
                       \/ k < next_expected_sequence[Other(r)]
    BY <1>1 DEF AckedWasAccepted
  <2>3. \/ \E v \in un_ack_column_messages[r] : v.sequence = k
        \/ k < next_expected_sequence[Other(r)]
    BY DEF GameInv, AckedWasAccepted
  <2>4. ASSUME NEW v \in un_ack_column_messages[r], v.sequence = k,
               v \notin un_ack_column_messages'[r]
        PROVE  k < next_expected_sequence[Other(r)]
    BY <2>1, <2>2, <2>4 DEF GameInv, TypeOK
  <2>. QED  BY <2>3, <2>4
<1>. QED  BY <1>2, <1>3, <1>4, <1>5 DEF PlayInv

(* A datagram never skips a move. *)
LEMMA NoGap ==
  ASSUME GameInv, NEW p \in Peers, NEW i \in 1 .. Len(net[p]), net[p][i].type = "column"
  PROVE  /\ net[p][i].sequence < next_sequence[Other(p)]
         /\ net[p][i].sequence <= next_expected_sequence[p]
         /\ net[p][i].sequence = next_expected_sequence[p] =>
              valid_move(board[p], net[p][i].column)
<1>0. PICK q \in Peers : q = Other(p) /\ Other(q) = p /\ p # q
  BY TwoPeers
<1>1. net[p][i] \in Datagrams(p)
  BY DEF GameInv, DeliveryInv
<1>2. net[p][i] \in ColumnMessage /\ IsMoveOf(q, net[p][i])
  BY <1>0, <1>1 DEF Datagrams, ColumnAck
<1>3. /\ net[p][i].sequence \in Nat /\ net[p][i].sequence < next_sequence[q]
      /\ net[p][i].column = sent[q][net[p][i].sequence + 1]
  BY <1>2 DEF IsMoveOf, ColumnMessage
<1>4. /\ next_sequence[q] \in Nat /\ next_expected_sequence[p] \in Nat
  BY DEF GameInv, TypeOK
<1>5. CASE next_expected_sequence[p] < next_sequence[q]
  <2>1. Ahead(q) /\ next_sequence[q] = next_expected_sequence[p] + 1
    BY <1>0, <1>5, OneMoveAhead DEF GameInv, Ahead
  <2>2. valid_move(board[p], sent[q][next_sequence[q]])
    BY <1>0, <2>1 DEF GameInv, BoardInv
  <2>. QED  BY <1>0, <1>3, <1>4, <2>1, <2>2
<1>6. CASE ~(next_expected_sequence[p] < next_sequence[q])
  BY <1>0, <1>3, <1>4, <1>6
<1>. QED  BY <1>5, <1>6

(* The other steps change nothing but the queues; the branches for a gap and
   for an invalid move are not taken. *)
LEMMA OtherStepsGame ==
  ASSUME GameInv, NEW p \in Peers,
         \/ \E u \in un_ack_column_messages[p] : TransmitColumnMessage(p, u)
         \/ \E i \in 1 .. Len(net[p]) : \/ OnColumnGap(p, i)
                                       \/ OnColumnInvalid(p, i)
                                       \/ OnColumnOld(p, i)
                                       \/ OnColumnAckUnknown(p, i)
         \/ Lose(p)
         \/ Duplicate(p)
  PROVE  PlayInv'
<1>1. PICK T : T = [r \in Peers |-> AcksOfAccepted(r)]
  OBVIOUS
<1>2. Queues(T)
  BY <1>1 DEF Queues, GameInv, AckInv, TypeOK
<1>3. SUFFICES Queues(T)' /\ UNCHANGED <<local, history>>
  <2>. SUFFICES ASSUME Queues(T)', UNCHANGED <<local, history>> PROVE PlayInv'
    OBVIOUS
  <2>1. OrderInv' /\ TurnInv' /\ AckedWasAccepted' /\ BoardInv' /\ OutcomeInv'
    BY DEF GameInv, OrderInv, TurnInv, AckedWasAccepted, BoardInv, OutcomeInv, Running, Ahead,
           local, history
  <2>2. AckInv'
    BY <1>1 DEF Queues, AckInv, AcksOfAccepted, local
  <2>. QED  BY <2>1, <2>2 DEF PlayInv
<1>4. CASE \E u \in un_ack_column_messages[p] : TransmitColumnMessage(p, u)
  <2>1. PICK u \in un_ack_column_messages[p] : TransmitColumnMessage(p, u)
    BY <1>4
  <2>2. u \in UnAcked
    BY DEF GameInv, TypeOK
  <2>3. ColumnDatagram(u) \in T[Other(p)]
    BY <1>1, <2>2, OtherPeer DEF AcksOfAccepted, ColumnMessage, ColumnDatagram, UnAcked
  <2>. QED  BY <1>2, <2>1, <2>3, SendQueues DEF TransmitColumnMessage
<1>5. CASE \E i \in 1 .. Len(net[p]) : OnColumnGap(p, i)
  <2>1. PICK i \in 1 .. Len(net[p]) : OnColumnGap(p, i)
    BY <1>5
  <2>2. /\ net[p][i].sequence > next_expected_sequence[p]
        /\ net[p][i].sequence <= next_expected_sequence[p]
    BY <2>1, NoGap DEF OnColumnGap, ReceivesColumn
  <2>3. net[p][i].sequence \in Int
    BY DEF GameInv, TypeOK, ColumnMessage, ColumnAck
  <2>. QED  BY <2>2, <2>3 DEF GameInv, TypeOK
<1>6. CASE \E i \in 1 .. Len(net[p]) : OnColumnInvalid(p, i)
  BY <1>6, AcceptColumnGame DEF OnColumnInvalid
<1>7. CASE \E i \in 1 .. Len(net[p]) : OnColumnOld(p, i) \/ OnColumnAckUnknown(p, i)
  BY <1>2, <1>7, RecvQueues DEF OnColumnOld, OnColumnAckUnknown, ReceivesColumn, ReceivesAck
<1>8. CASE Lose(p)
  BY <1>2, <1>8, RecvQueues DEF Lose
<1>9. CASE Duplicate(p)
  BY <1>2, <1>9, DuplicateQueues DEF Duplicate
<1>. QED  BY <1>4, <1>5, <1>6, <1>7, <1>8, <1>9

LEMMA GameStep == GameInv /\ [Next]_vars => GameInv'
<1>. SUFFICES ASSUME GameInv, [Next]_vars PROVE GameInv'
  OBVIOUS
<1>1. TypeOK' /\ DeliveryInv'
  BY DeliveryStep DEF GameInv
<1>2. PlayInv'
  <2>1. CASE Next
    <3>1. PICK p \in Peers :
            \/ \E move \in ColumnIndex : OnStdin(p, move)
            \/ \E u \in un_ack_column_messages[p] : TransmitColumnMessage(p, u)
            \/ \E i \in 1 .. Len(net[p]) : HandleUdpMessage(p, i)
            \/ Lose(p)
            \/ Duplicate(p)
      BY <2>1 DEF Next
    <3>2. CASE \E move \in ColumnIndex : OnStdin(p, move)
      BY <1>1, <3>2, OnStdinGame
    <3>3. CASE \E i \in 1 .. Len(net[p]) : OnColumnMove(p, i)
      BY <3>3, OnColumnMoveGame
    <3>4. CASE \E i \in 1 .. Len(net[p]) : OnColumnAck(p, i)
      BY <3>4, OnColumnAckGame
    <3>5. CASE \/ \E u \in un_ack_column_messages[p] : TransmitColumnMessage(p, u)
               \/ \E i \in 1 .. Len(net[p]) : \/ OnColumnGap(p, i)
                                             \/ OnColumnInvalid(p, i)
                                             \/ OnColumnOld(p, i)
                                             \/ OnColumnAckUnknown(p, i)
               \/ Lose(p)
               \/ Duplicate(p)
      BY <3>5, OtherStepsGame
    <3>. QED  BY <3>1, <3>2, <3>3, <3>4, <3>5 DEF HandleUdpMessage
  <2>2. CASE UNCHANGED vars
    BY <2>2 DEF vars, local, history, GameInv, PlayInv, OrderInv, TurnInv, AckInv,
                AcksOfAccepted, AckedWasAccepted, BoardInv, OutcomeInv, Running, Ahead
  <2>. QED  BY <2>1, <2>2
<1>. QED  BY <1>1, <1>2 DEF GameInv, PlayInv

-----------------------------------------------------------------------------
(***************************************************************************)
(* The theorems.                                                           *)
(***************************************************************************)

(* The inductive invariant of a game with one starter: moves alternate, an
   acknowledgement under way is one of an accepted move, and one board is at
   most one move behind the other. *)
THEOREM GameInvariant == Spec => []GameInv
BY GameInit, GameStep, PTL DEF Spec

(* The two clients never both take it to be their turn, however late or often
   columns and acknowledgements arrive. *)
THEOREM NeverBothTurns == Spec => []AtMostOneTurn
<1>1. GameInv => AtMostOneTurn
  BY TwoPeers DEF GameInv, TypeOK, OrderInv, TurnInv, AtMostOneTurn
<1>. QED  BY <1>1, GameInvariant, PTL

(* on_column_ack_message drops a move from the retransmission queue only when
   the peer has accepted it. *)
THEOREM OnlyAcceptedMovesLeaveTheQueue == Spec => []AckedWasAccepted
<1>1. GameInv => AckedWasAccepted
  BY DEF GameInv
<1>. QED  BY <1>1, GameInvariant, PTL

(* The branches of on_column_message for a missing and for an invalid move
   are never taken in a game with one starter. *)
THEOREM ExpectedMovesAreValid == Spec => []ExpectedMoveIsValid
<1>1. GameInv => ExpectedMoveIsValid
  BY NoGap DEF ExpectedMoveIsValid
<1>. QED  BY <1>1, GameInvariant, PTL

(* When each client has accepted all moves of the other, the two static boards
   of 4clib.c hold the same game. *)
THEOREM SameBoard == Spec => []BoardsAgree
<1>1. GameInv => BoardsAgree
  BY TwoPeers DEF GameInv, TypeOK, BoardInv, Ahead, BoardsAgree
<1>. QED  BY <1>1, GameInvariant, PTL

(* At most one client prints that it won, and one prints that it lost only
   when the other has printed that it won. *)
THEOREM SameOutcome == Spec => []OutcomesAgree
<1>1. GameInv => OutcomesAgree
  <2>. SUFFICES ASSUME GameInv PROVE OutcomesAgree
    OBVIOUS
  <2>1. \A p \in Peers : process[p] = "lost" => process[Other(p)] = "won"
    BY DEF GameInv, OutcomeInv
  <2>2. ~(process[A] = "won" /\ process[B] = "won")
    BY NotBothAhead, TwoPeers DEF GameInv, OutcomeInv
  <2>. QED  BY <2>1, <2>2, TwoPeers DEF OutcomesAgree
<1>. QED  BY <1>1, GameInvariant, PTL

-----------------------------------------------------------------------------
(***************************************************************************)
(* The two clients implement one game.                                     *)
(***************************************************************************)

(* Match uses the same board as the clients. *)
LEMMA GameLib ==
  /\ Game!init_4clib = init_4clib /\ Game!ColumnIndex = ColumnIndex
  /\ Game!PLAYER_1 = PLAYER_1 /\ Game!PLAYER_2 = PLAYER_2
  /\ \A b, c, player : Game!make_move(b, c, player) = make_move(b, c, player)
  /\ \A b, c : Game!valid_move(b, c) <=> valid_move(b, c)
  /\ \A b : Game!winner(b) <=> winner(b)
<1>1. Game!Cells = Cells /\ Game!ColumnIndex = ColumnIndex /\ Game!Empty = Empty
      /\ Game!PLAYER_1 = PLAYER_1 /\ Game!PLAYER_2 = PLAYER_2
  BY DEF Game!Cells, Game!RowIndex, Game!ColumnIndex, Game!Empty, Game!PLAYER_1, Game!PLAYER_2,
         Cells, RowIndex, ColumnIndex, Empty, PLAYER_1, PLAYER_2
<1>2. Game!Lines = Lines
  BY DEF Game!Lines, Game!Horizontal, Game!Rising, Game!Vertical, Game!Falling, Game!Reach,
         Game!RowIndex, Game!ColumnIndex,
         Lines, Horizontal, Rising, Vertical, Falling, Reach, RowIndex, ColumnIndex
<1>3. \A b : Game!winner(b) <=> winner(b)
  BY <1>1, <1>2 DEF Game!winner, Game!HasLine, winner, HasLine
<1>. QED
  BY <1>1, <1>3 DEF Game!init_4clib, init_4clib, Game!make_move, make_move,
                    Game!valid_move, valid_move

(* Each player is the other's opponent. *)
LEMMA Opponents == Game!Opponent(PLAYER_1) = PLAYER_2 /\ Game!Opponent(PLAYER_2) = PLAYER_1
BY GameLib DEF Game!Opponent, PLAYER_1, PLAYER_2

(* The game's board is that of a client that is not behind. *)
LEMMA GameBoardIs ==
  GameInv => /\ ~Ahead(B) => GameBoard = board[A]
             /\ ~Ahead(A) => GameBoard = Mirror(board[B])
<1>. SUFFICES ASSUME GameInv
              PROVE  /\ ~Ahead(B) => GameBoard = board[A]
                     /\ ~Ahead(A) => GameBoard = Mirror(board[B])
  OBVIOUS
<1>1. /\ next_sequence[A] \in Nat /\ next_expected_sequence[A] \in Nat
      /\ next_sequence[B] \in Nat /\ next_expected_sequence[B] \in Nat
  BY TwoPeers DEF GameInv, TypeOK
<1>2. OrderInv /\ ((~Ahead(A) /\ ~Ahead(B)) => board[A] = Mirror(board[B]))
  BY DEF GameInv, BoardInv
<1>3. ~Ahead(B) => MovesKnown(A) >= MovesKnown(B)
  BY <1>1, <1>2, TwoPeers DEF OrderInv, Ahead, MovesKnown
<1>4. Ahead(B) => ~(MovesKnown(A) >= MovesKnown(B))
  BY <1>1, <1>2, TwoPeers DEF OrderInv, Ahead, MovesKnown
<1>. QED  BY <1>2, <1>3, <1>4 DEF GameBoard

(* MirrorMove for a move of the first player. *)
LEMMA MirrorOwnMove ==
  ASSUME NEW b \in Board, NEW c, valid_move(b, c)
  PROVE  Mirror(make_move(b, c, PLAYER_1)) = make_move(Mirror(b), c, PLAYER_2)
<1>1. Mirror(b) \in Board /\ valid_move(Mirror(b), c) /\ Mirror(Mirror(b)) = b
  BY MirrorBoard, MirrorValid, MirrorTwice
<1>2. Mirror(make_move(Mirror(b), c, PLAYER_2)) = make_move(b, c, PLAYER_1)
  BY <1>1, MirrorMove
<1>3. make_move(Mirror(b), c, PLAYER_2) \in Board
  BY <1>1, MoveOnBoard
<1>. QED  BY <1>2, <1>3, MirrorTwice

(* A move of a client is a move of the game. *)
LEMMA OnStdinDrops ==
  ASSUME GameInv, GameInv', NEW p \in Peers, NEW move \in ColumnIndex, OnStdin(p, move)
  PROVE  Game!Drop(move)
<1>1. /\ Running(p) /\ state[p] = "TURN" /\ valid_move(board[p], move)
      /\ next_sequence' = [next_sequence EXCEPT ![p] = @ + 1]
      /\ next_expected_sequence' = next_expected_sequence
      /\ board' = [board EXCEPT ![p] = make_move(@, move, PLAYER_1)]
  BY DEF OnStdin, MayMove, SendColumnMessage
<1>2. /\ next_sequence[p] = next_expected_sequence[Other(p)]
      /\ next_sequence[Other(p)] = next_expected_sequence[p]
  BY <1>1, TurnKnowsAll DEF GameInv
<1>3. /\ next_sequence[A] \in Nat /\ next_expected_sequence[A] \in Nat
      /\ next_sequence[B] \in Nat /\ next_expected_sequence[B] \in Nat
      /\ board[A] \in Board /\ board[B] \in Board
  BY TwoPeers DEF GameInv, TypeOK
<1>4. ~Ahead(A) /\ ~Ahead(B)
  BY <1>2, <1>3, TwoPeers DEF Ahead
<1>5. GameBoard = board[A] /\ GameBoard = Mirror(board[B])
  BY <1>4, GameBoardIs
<1>6. (GameBoard = board[A])' \/ Ahead(B)'
  BY GameBoardIs, PTL
<1>7. (GameBoard = Mirror(board[B]))' \/ Ahead(A)'
  BY GameBoardIs, PTL
<1>8. ~winner(board[p])
  BY <1>1 DEF GameInv, OutcomeInv
<1>9. ~winner(GameBoard) /\ valid_move(GameBoard, move)
  BY <1>1, <1>3, <1>5, <1>8, MirrorWinner, MirrorValid, TwoPeers
<1>10. CASE p = A
  <2>1. next_sequence[A] = next_sequence[B]
    BY <1>1, <1>2, <1>3, <1>10, TwoPeers DEF GameInv, TurnInv
  <2>2. next_sequence'[A] = next_sequence[A] + 1 /\ next_sequence'[B] = next_sequence[B]
        /\ board'[A] = make_move(board[A], move, PLAYER_1)
    BY <1>1, <1>10, TwoPeers DEF GameInv, TypeOK
  <2>3. GameTurn = PLAYER_1 /\ GameTurn' = PLAYER_2
    BY <1>3, <2>1, <2>2 DEF GameTurn
  <2>4. ~Ahead(B)'
    BY <1>1, <1>4, <2>2, TwoPeers DEF Ahead
  <2>5. GameBoard' = make_move(GameBoard, move, GameTurn)
    BY <1>5, <1>6, <2>2, <2>3, <2>4
  <2>6. GameTurn' = Game!Opponent(GameTurn)
    BY <2>3, Opponents
  <2>. QED  BY <1>9, <2>5, <2>6, GameLib DEF Game!Drop
<1>11. CASE p = B
  <2>1. next_sequence[A] = next_sequence[B] + 1
    BY <1>1, <1>2, <1>3, <1>11, TwoPeers DEF GameInv, TurnInv
  <2>2. next_sequence'[B] = next_sequence[B] + 1 /\ next_sequence'[A] = next_sequence[A]
        /\ board'[B] = make_move(board[B], move, PLAYER_1)
    BY <1>1, <1>11, TwoPeers DEF GameInv, TypeOK
  <2>3. GameTurn = PLAYER_2 /\ GameTurn' = PLAYER_1
    BY <1>3, <2>1, <2>2 DEF GameTurn
  <2>4. ~Ahead(A)'
    BY <1>1, <1>4, <2>2, TwoPeers DEF Ahead
  <2>5. GameBoard' = make_move(GameBoard, move, GameTurn)
    BY <1>1, <1>3, <1>5, <1>7, <1>11, <2>2, <2>3, <2>4, MirrorOwnMove
  <2>6. GameTurn' = Game!Opponent(GameTurn)
    BY <2>3, Opponents
  <2>. QED  BY <1>9, <2>5, <2>6, GameLib DEF Game!Drop
<1>. QED  BY <1>10, <1>11, TwoPeers

(* Accepting a move leaves the game as it is. *)
LEMMA AcceptStutters ==
  ASSUME GameInv, GameInv', NEW p \in Peers, NEW i \in 1 .. Len(net[p]), OnColumnMove(p, i)
  PROVE  UNCHANGED <<GameBoard, GameTurn>>
<1>1. /\ Ahead(Other(p)) /\ ~Ahead(p)
      /\ next_sequence[Other(p)] = next_expected_sequence[p] + 1
  BY AcceptColumnGame DEF OnColumnMove
<1>2. /\ next_sequence' = next_sequence
      /\ next_expected_sequence' = [next_expected_sequence EXCEPT ![p] = @ + 1]
      /\ board'[Other(p)] = board[Other(p)]
  BY OtherPeer DEF OnColumnMove, AcceptColumn, GameInv, TypeOK
<1>3. GameTurn' = GameTurn
  BY <1>2 DEF GameTurn
<1>4. ~Ahead(p)'
  BY <1>1, <1>2, OtherPeer DEF Ahead, GameInv, TypeOK
<1>5. (GameBoard = board[A])' \/ Ahead(B)'
  BY GameBoardIs, PTL
<1>6. (GameBoard = Mirror(board[B]))' \/ Ahead(A)'
  BY GameBoardIs, PTL
<1>7. CASE p = A
  BY <1>1, <1>2, <1>3, <1>4, <1>6, <1>7, GameBoardIs, TwoPeers
<1>8. CASE p = B
  BY <1>1, <1>2, <1>3, <1>4, <1>5, <1>8, GameBoardIs, TwoPeers
<1>. QED  BY <1>7, <1>8, TwoPeers

(* Two processes of client.c that exchange datagrams over any network play one
   alternating game of Match, on one board. *)
THEOREM ImplementsMatch == Spec => PlaysOneGame
<1>1. Init => Game!MInit
  <2>. SUFFICES ASSUME Init PROVE Game!MInit
    OBVIOUS
  <2>1. /\ next_sequence[A] = 0 /\ next_expected_sequence[A] = 0 /\ board[A] = init_4clib
        /\ next_sequence[B] = 0 /\ next_expected_sequence[B] = 0
    BY TwoPeers DEF Init
  <2>. QED  BY <2>1, GameLib DEF GameBoard, GameTurn, MovesKnown, Game!MInit
<1>2. GameInv /\ GameInv' /\ [Next]_vars => [Game!MNext]_(Game!mvars)
  <2>. SUFFICES ASSUME GameInv, GameInv', [Next]_vars
                PROVE  Game!MNext \/ UNCHANGED <<GameBoard, GameTurn>>
    BY DEF Game!mvars
  <2>1. CASE \E p \in Peers, move \in ColumnIndex : OnStdin(p, move)
    BY <2>1, OnStdinDrops, GameLib DEF Game!MNext
  <2>2. CASE \E p \in Peers : \E i \in 1 .. Len(net[p]) : OnColumnMove(p, i)
    BY <2>2, AcceptStutters
  <2>3. ~ \E p \in Peers : \E i \in 1 .. Len(net[p]) : OnColumnInvalid(p, i)
    BY AcceptColumnGame DEF OnColumnInvalid
  <2>4. CASE UNCHANGED <<board, next_sequence, next_expected_sequence>>
    BY <2>4 DEF GameBoard, GameTurn, MovesKnown
  <2>5. \/ \E p \in Peers, move \in ColumnIndex : OnStdin(p, move)
        \/ \E p \in Peers : \E i \in 1 .. Len(net[p]) : OnColumnMove(p, i)
        \/ UNCHANGED <<board, next_sequence, next_expected_sequence>>
    BY <2>3 DEF Next, HandleUdpMessage, OnColumnGap, OnColumnOld, OnColumnAck,
                OnColumnAckUnknown, TransmitColumnMessage, Lose, Duplicate, local, vars
  <2>. QED  BY <2>1, <2>2, <2>4, <2>5
<1>. QED  BY <1>1, <1>2, GameInvariant, PTL DEF Spec, PlaysOneGame, Game!MSpec

-----------------------------------------------------------------------------
(***************************************************************************)
(* On a network that keeps the order nobody loses the turn.                *)
(***************************************************************************)

\* Each datagram of a queue was in an older one, in the same order.
ComesFrom(new, old) ==
  \E f \in [1 .. Len(new) -> 1 .. Len(old)] :
    /\ \A i \in 1 .. Len(new) : new[i] = old[f[i]]
    /\ \A i, j \in 1 .. Len(new) : f[i] < f[j] => i < j

(* A datagram that is taken from the head of a queue, or doubled there. *)
LEMMA TailComesFrom ==
  ASSUME NEW S, NEW s \in Seq(S), 1 \in 1 .. Len(s)
  PROVE  ComesFrom(RemoveAt(s, 1), s)
<1>1. PICK new : new = RemoveAt(s, 1)
  OBVIOUS
<1>2. Len(new) = Len(s) - 1 /\ \A i \in 1 .. Len(new) : new[i] = s[i + 1]
  <2>1. PICK front, rest : front = SubSeq(s, 1, 0) /\ rest = SubSeq(s, 2, Len(s))
    OBVIOUS
  <2>2. Len(s) \in Int /\ Len(s) >= 1 /\ \A i \in 1 .. Len(s) : s[i] \in S
    OBVIOUS
  <2>4. front \in Seq(S) /\ Len(front) = 0
    BY <2>1, SubSeqEmpty
  <2>5. /\ rest \in Seq(S) /\ Len(rest) = Len(s) - 1
        /\ \A i \in 1 .. Len(rest) : rest[i] = s[i + 1]
    <3>1. PICK n : n = Len(s)
      OBVIOUS
    <3>2. /\ SubSeq(s, 2, n) \in Seq(S)
          /\ Len(SubSeq(s, 2, n)) = IF 2 <= n THEN n - 2 + 1 ELSE 0
          /\ \A i \in 1 .. n - 2 + 1 : SubSeq(s, 2, n)[i] = s[2 + i - 1]
      BY <2>2, <3>1, SubSeqProperties
    <3>. QED  BY <2>1, <2>2, <3>1, <3>2
  <2>3. new = front \o rest
    BY <1>1, <2>1 DEF RemoveAt
  <2>. QED  BY <2>3, <2>4, <2>5
<1>3. PICK f : f = [i \in 1 .. Len(new) |-> i + 1]
  OBVIOUS
<1>4. f \in [1 .. Len(new) -> 1 .. Len(s)]
  BY <1>2, <1>3
<1>. QED  BY <1>1, <1>2, <1>3, <1>4 DEF ComesFrom

LEMMA DoubleComesFrom ==
  ASSUME NEW S, NEW s \in Seq(S), 1 \in 1 .. Len(s)
  PROVE  ComesFrom(InsertAt(s, 1, s[1]), s)
<1>1. PICK new : new = InsertAt(s, 1, s[1])
  OBVIOUS
<1>2. /\ Len(new) = Len(s) + 1 /\ new[1] = s[1]
      /\ \A i \in 2 .. Len(new) : new[i] = s[i - 1]
  BY <1>1 DEF InsertAt
<1>3. PICK f : f = [i \in 1 .. Len(new) |-> IF i = 1 THEN 1 ELSE i - 1]
  OBVIOUS
<1>4. f \in [1 .. Len(new) -> 1 .. Len(s)]
  BY <1>2, <1>3
<1>5. \A i \in 1 .. Len(new) : new[i] = s[f[i]]
  BY <1>2, <1>3
<1>6. \A i, j \in 1 .. Len(new) : f[i] < f[j] => i < j
  BY <1>2, <1>3
<1>. QED  BY <1>1, <1>4, <1>5, <1>6 DEF ComesFrom

LEMMA SameComesFrom == ASSUME NEW S, NEW s \in Seq(S) PROVE ComesFrom(s, s)
<1>1. PICK f : f = [i \in 1 .. Len(s) |-> i]
  OBVIOUS
<1>. QED  BY <1>1 DEF ComesFrom

(* A step that leaves a client alone and only takes or doubles a datagram of
   its queue. *)
LEMMA QueueKeepsOrder ==
  ASSUME NEW p \in Peers, InOrder(p), ComesFrom(net'[p], net[p]),
         UNCHANGED <<state[p], process[p], next_sequence[p], next_expected_sequence[p],
                     un_ack_column_messages[p]>>
  PROVE  InOrder(p)'
<1>1. PICK f \in [1 .. Len(net'[p]) -> 1 .. Len(net[p])] :
        /\ \A i \in 1 .. Len(net'[p]) : net'[p][i] = net[p][f[i]]
        /\ \A i, j \in 1 .. Len(net'[p]) : f[i] < f[j] => i < j
  BY DEF ComesFrom
<1>2. LateAcks(p)' = LateAcks(p) /\ ExpectedColumns(p)' = ExpectedColumns(p)
  BY DEF LateAcks, ExpectedColumns, IsExpected
<1>3. ComeBefore(LateAcks(p), ExpectedColumns(p), net[p])'
  <2>1. PICK L, E, old, new :
          L = LateAcks(p) /\ E = ExpectedColumns(p) /\ old = net[p] /\ new = net'[p]
    OBVIOUS
  <2>2. ComeBefore(L, E, old)
    BY <2>1 DEF InOrder
  <2>3. ASSUME NEW i \in 1 .. Len(new), NEW j \in 1 .. Len(new), new[i] \in L, new[j] \in E
        PROVE  i < j
    <3>1. f[i] \in 1 .. Len(old) /\ f[j] \in 1 .. Len(old)
      BY <1>1, <2>1
    <3>2. old[f[i]] \in L /\ old[f[j]] \in E
      BY <1>1, <2>1, <2>3
    <3>3. f[i] < f[j]
      BY <2>2, <3>1, <3>2 DEF ComeBefore
    <3>. QED  BY <1>1, <2>1, <3>3
  <2>4. ComeBefore(L, E, new)
    BY <2>3 DEF ComeBefore
  <2>. QED  BY <1>2, <2>1, <2>4 DEF ComeBefore
<1>. QED  BY <1>1, <1>2, <1>3 DEF InOrder, Running, ToMove

(* A step that leaves a client alone and sends it a column. *)
LEMMA ColumnKeepsOrder ==
  ASSUME NEW p \in Peers, InOrder(p), NEW S, net[p] \in Seq(S),
         NEW m, m.type = "column", net'[p] = Enqueue(net[p], m),
         UNCHANGED <<state[p], process[p], next_sequence[p], next_expected_sequence[p],
                     un_ack_column_messages[p]>>
  PROVE  InOrder(p)'
<1>1. LateAcks(p)' = LateAcks(p) /\ ExpectedColumns(p)' = ExpectedColumns(p)
  BY DEF LateAcks, ExpectedColumns, IsExpected
<1>2. m \notin LateAcks(p)
  BY DEF LateAcks, ColumnAck
<1>3. \A i \in 1 .. Len(net'[p]) :
        \/ i \in 1 .. Len(net[p]) /\ net'[p][i] = net[p][i]
        \/ i = Len(net[p]) + 1 /\ net'[p][i] = m
  BY DEF Enqueue
<1>4. ComeBefore(LateAcks(p), ExpectedColumns(p), net[p])'
  BY <1>1, <1>2, <1>3 DEF InOrder, ComeBefore
<1>. QED  BY <1>1, <1>2, <1>3, <1>4 DEF InOrder, Running, ToMove

(* What is known of the datagrams under way to a client. *)
LEMMA UnderWay ==
  ASSUME GameInv, NEW p \in Peers, NEW i \in 1 .. Len(net[p])
  PROVE  /\ net[p][i] \in ColumnMessage => net[p][i].sequence < next_sequence[Other(p)]
         /\ net[p][i] \in ColumnAck => net[p][i].sequence < next_sequence[p]
<1>1. net[p][i] \in Datagrams(p) /\ net[p][i] \in AcksOfAccepted(p)
  BY DEF GameInv, DeliveryInv, AckInv
<1>2. ColumnMessage \cap ColumnAck = {}
  BY DEF ColumnMessage, ColumnAck
<1>3. next_expected_sequence[Other(p)] <= next_sequence[p]
  BY OtherPeer DEF GameInv, DeliveryInv
<1>4. next_expected_sequence[Other(p)] \in Nat /\ next_sequence[p] \in Nat
  BY OtherPeer DEF GameInv, TypeOK
<1>5. net[p][i] \in ColumnAck => net[p][i].sequence \in Nat
  BY DEF ColumnAck
<1>6. net[p][i] \in ColumnAck => net[p][i].sequence < next_expected_sequence[Other(p)]
  BY <1>1, <1>2 DEF AcksOfAccepted
<1>. QED  BY <1>1, <1>2, <1>3, <1>4, <1>5, <1>6 DEF Datagrams, IsMoveOf

(* A move is made when no late acknowledgement is under way, and what is under
   way acknowledges an earlier move. *)
LEMMA OnStdinInOrder ==
  ASSUME GameInv, InOrderInv, NEW p \in Peers, NEW move \in ColumnIndex, OnStdin(p, move)
  PROVE  InOrderInv'
<1>0. PICK q \in Peers : q = Other(p) /\ Other(q) = p /\ p # q /\ Peers = {p, q}
  BY TwoPeers
<1>1. PICK u : u = [sequence |-> next_sequence[p], column |-> move]
  OBVIOUS
<1>2. /\ un_ack_column_messages' = [un_ack_column_messages EXCEPT ![p] = @ \cup {u}]
      /\ Send(p, ColumnDatagram(u))
      /\ next_sequence' = [next_sequence EXCEPT ![p] = @ + 1]
      /\ UNCHANGED next_expected_sequence
      /\ Running(p) /\ state[p] = "TURN"
      /\ state'[q] = state[q] /\ process'[q] = process[q]
  BY <1>0, <1>1 DEF OnStdin, MayMove, SendColumnMessage, EndOrContinue, GameInv, TypeOK
<1>3. /\ net'[p] = net[p] /\ net'[q] = Enqueue(net[q], ColumnDatagram(u))
      /\ net[q] \in Seq(ColumnMessage \cup ColumnAck)
      /\ ColumnDatagram(u).type = "column"
  BY <1>0, <1>2 DEF Send, GameInv, TypeOK, ColumnDatagram
<1>4. InOrder(q)'
  <2>1. UNCHANGED <<next_sequence[q], next_expected_sequence[q], un_ack_column_messages[q]>>
    BY <1>0, <1>2 DEF GameInv, TypeOK
  <2>. QED  BY <1>2, <1>3, <2>1, ColumnKeepsOrder DEF InOrderInv
<1>5. InOrder(p)'
  <2>1. \A i \in 1 .. Len(net'[p]) : net'[p][i] \notin LateAcks(p)'
    <3>. SUFFICES ASSUME NEW i \in 1 .. Len(net[p]), net[p][i] \in LateAcks(p)'
                  PROVE  FALSE
      BY <1>3
    <3>1. PICK v \in un_ack_column_messages'[p] : v.sequence = net[p][i].sequence
      BY DEF LateAcks, Acknowledges
    <3>2. net[p][i] \in ColumnAck
      BY DEF LateAcks
    <3>3. CASE v \in un_ack_column_messages[p]
      <4>1. net[p][i] \in LateAcks(p)
        BY <3>1, <3>2, <3>3 DEF LateAcks, Acknowledges
      <4>. QED  BY <1>2, <4>1 DEF InOrderInv, InOrder
    <3>4. CASE v = u
      <4>1. net[p][i].sequence = next_sequence[p]
        BY <1>1, <3>1, <3>4
      <4>2. net[p][i].sequence < next_sequence[p]
        BY <3>2, UnderWay
      <4>3. next_sequence[p] \in Nat
        BY DEF GameInv, TypeOK
      <4>. QED  BY <4>1, <4>2, <4>3
    <3>. QED  BY <1>2, <3>1, <3>3, <3>4 DEF GameInv, TypeOK
  <2>2. ~ToMove(p)'
    <3>1. /\ next_sequence[p] \in Nat /\ next_expected_sequence[p] \in Nat
          /\ next_sequence'[p] = next_sequence[p] + 1
          /\ next_expected_sequence'[p] = next_expected_sequence[p]
      BY <1>2 DEF GameInv, TypeOK
    <3>2. next_sequence[p] = next_expected_sequence[p] - (IF p \in Starters THEN 0 ELSE 1)
      BY <1>2, <3>1, TwoPeers, OneStarter DEF GameInv, TurnInv, TypeOK
    <3>. QED  BY <3>1, <3>2 DEF ToMove
  <2>3. ComeBefore(LateAcks(p), ExpectedColumns(p), net[p])'
    BY <2>1 DEF ComeBefore
  <2>. QED  BY <2>1, <2>2, <2>3 DEF InOrder
<1>. QED  BY <1>0, <1>4, <1>5 DEF InOrderInv

(* The head of a queue is what an ordered network delivers. *)
LEMMA HeadIsDelivered ==
  ASSUME ~Reordering, NEW p \in Peers, NEW i \in Deliverable(p)
  PROVE  i = 1 /\ 1 \in 1 .. Len(net[p])
BY DEF Deliverable

(* The move that is accepted has overtaken no acknowledgement, and its own
   acknowledgement is queued behind all that the peer has yet to receive. *)
LEMMA OnColumnMoveInOrder ==
  ASSUME ~Reordering, GameInv, InOrderInv, NEW p \in Peers,
         NEW i \in 1 .. Len(net[p]), OnColumnMove(p, i)
  PROVE  InOrderInv'
<1>0. PICK q \in Peers : q = Other(p) /\ Other(q) = p /\ p # q /\ Peers = {p, q}
  BY TwoPeers
<1>1. PICK m : m = AckDatagram(net[p][i].sequence)
  OBVIOUS
<1>2. /\ RecvAndSend(p, i, m)
      /\ next_expected_sequence' = [next_expected_sequence EXCEPT ![p] = @ + 1]
      /\ UNCHANGED <<next_sequence, un_ack_column_messages>>
      /\ net[p][i].type = "column" /\ IsExpected(p, net[p][i]) /\ i \in Deliverable(p)
      /\ state'[q] = state[q] /\ process'[q] = process[q]
      /\ process'[p] # "running" \/ state'[p] = "TURN"
  BY <1>0, <1>1 DEF OnColumnMove, AcceptColumn, ReceivesColumn, EndOrContinue, GameInv, TypeOK
<1>3. /\ net'[p] = RemoveAt(net[p], 1) /\ net'[q] = Enqueue(net[q], m)
      /\ net[p] \in Seq(ColumnMessage \cup ColumnAck) /\ net[q] \in Seq(ColumnMessage \cup ColumnAck)
      /\ i = 1 /\ 1 \in 1 .. Len(net[p])
  BY <1>0, <1>2, HeadIsDelivered DEF RecvAndSend, GameInv, TypeOK
<1>4. InOrder(p)'
  <2>1. net[p][1] \in ExpectedColumns(p)
    BY <1>2, <1>3 DEF ExpectedColumns, ColumnAck
  <2>2. \A j \in 1 .. Len(net[p]) : net[p][j] \notin LateAcks(p)
    BY <1>3, <2>1 DEF InOrderInv, InOrder, ComeBefore
  <2>3. LateAcks(p)' = LateAcks(p)
    BY <1>2 DEF LateAcks
  <2>4. ComesFrom(net'[p], net[p])
    BY <1>3, TailComesFrom
  <2>5. \A j \in 1 .. Len(net'[p]) : net'[p][j] \notin LateAcks(p)'
    BY <2>2, <2>3, <2>4 DEF ComesFrom
  <2>6. ComeBefore(LateAcks(p), ExpectedColumns(p), net[p])'
    BY <2>5 DEF ComeBefore
  <2>. QED  BY <1>2, <2>5, <2>6 DEF InOrder, Running
<1>5. InOrder(q)'
  <2>1. /\ Ahead(q) /\ next_sequence[q] = next_expected_sequence[p] + 1
        /\ next_sequence[p] = next_expected_sequence[q]
    <3>1. Ahead(q) /\ next_sequence[q] = next_expected_sequence[p] + 1
      BY <1>0, AcceptColumnGame DEF OnColumnMove
    <3>2. next_expected_sequence[p] < next_sequence[q]
      BY <3>1 DEF GameInv, TypeOK
    <3>. QED  BY <1>0, <3>1, <3>2, OneMoveAhead DEF GameInv
  <2>2. UNCHANGED <<next_sequence[q], next_expected_sequence[q], un_ack_column_messages[q]>>
    BY <1>0, <1>2 DEF GameInv, TypeOK
  <2>3. LateAcks(q)' = LateAcks(q) /\ ExpectedColumns(q)' = ExpectedColumns(q)
    BY <2>2 DEF LateAcks, ExpectedColumns, IsExpected
  <2>4. \A j \in 1 .. Len(net[q]) : net[q][j] \notin ExpectedColumns(q)
    <3>. SUFFICES ASSUME NEW j \in 1 .. Len(net[q]), net[q][j] \in ExpectedColumns(q)
                  PROVE  FALSE
      OBVIOUS
    <3>1. net[q][j] \in ColumnMessage /\ net[q][j].sequence = next_expected_sequence[q]
      BY DEF ExpectedColumns, IsExpected
    <3>2. net[q][j].sequence < next_sequence[p]
      BY <1>0, <3>1, UnderWay
    <3>. QED  BY <2>1, <3>1, <3>2 DEF GameInv, TypeOK
  <2>5. m \notin ExpectedColumns(q)
    BY <1>1 DEF AckDatagram, ExpectedColumns, ColumnMessage
  <2>6. \A j \in 1 .. Len(net'[q]) :
          \/ j \in 1 .. Len(net[q]) /\ net'[q][j] = net[q][j]
          \/ j = Len(net[q]) + 1 /\ net'[q][j] = m
    BY <1>3 DEF Enqueue
  <2>7. ComeBefore(LateAcks(q), ExpectedColumns(q), net[q])'
    BY <2>3, <2>4, <2>5, <2>6 DEF ComeBefore
  <2>8. ~(Running(q) /\ state[q] = "TURN")
    <3>1. next_expected_sequence[p] \in Nat
      BY DEF GameInv, TypeOK
    <3>. QED  BY <1>0, <2>1, <3>1, TurnKnowsAll DEF GameInv
  <2>9. (Running(q) /\ ToMove(q))' => FALSE
    BY <1>2, <2>2, <2>8 DEF InOrderInv, InOrder, Running, ToMove
  <2>. QED  BY <1>2, <2>7, <2>8, <2>9 DEF InOrder, Running
<1>. QED  BY <1>0, <1>4, <1>5 DEF InOrderInv

(* An acknowledgement that changes the state reaches a client that has not
   been told to move. *)
LEMMA OnColumnAckInOrder ==
  ASSUME ~Reordering, GameInv, InOrderInv, NEW p \in Peers,
         NEW i \in 1 .. Len(net[p]), OnColumnAck(p, i)
  PROVE  InOrderInv' /\ ~(state[p] = "TURN")
<1>0. PICK q \in Peers : q = Other(p) /\ Other(q) = p /\ p # q /\ Peers = {p, q}
  BY TwoPeers
<1>1. PICK u \in un_ack_column_messages[p] :
        /\ Acknowledges(net[p][i], u)
        /\ un_ack_column_messages' = [un_ack_column_messages EXCEPT ![p] = @ \ {u}]
  BY DEF OnColumnAck
<1>2. /\ Running(p) /\ net[p][i].type = "ack" /\ i \in Deliverable(p)
      /\ state' = [state EXCEPT ![p] = "WAIT"] /\ Recv(p, i)
      /\ UNCHANGED <<next_sequence, next_expected_sequence, process>>
  BY DEF OnColumnAck, ReceivesAck
<1>3. /\ net'[p] = RemoveAt(net[p], 1) /\ net'[q] = net[q]
      /\ net[p] \in Seq(ColumnMessage \cup ColumnAck) /\ net[q] \in Seq(ColumnMessage \cup ColumnAck)
      /\ i = 1 /\ 1 \in 1 .. Len(net[p])
  BY <1>0, <1>2, HeadIsDelivered DEF Recv, GameInv, TypeOK
<1>4. net[p][1] \in LateAcks(p)
  BY <1>1, <1>2, <1>3 DEF LateAcks, ColumnMessage
<1>5. ~(state[p] = "TURN") /\ ~ToMove(p)
  BY <1>2, <1>3, <1>4 DEF InOrderInv, InOrder
<1>6. InOrder(p)'
  <2>1. LateAcks(p)' \subseteq LateAcks(p) /\ ExpectedColumns(p)' = ExpectedColumns(p)
    BY <1>1, <1>2 DEF LateAcks, ExpectedColumns, IsExpected, GameInv, TypeOK
  <2>2. ComesFrom(net'[p], net[p])
    BY <1>3, TailComesFrom
  <2>3. ComeBefore(LateAcks(p), ExpectedColumns(p), net[p])
    BY DEF InOrderInv, InOrder
  <2>4. ComeBefore(LateAcks(p), ExpectedColumns(p), net[p])'
    <3>1. PICK f \in [1 .. Len(net'[p]) -> 1 .. Len(net[p])] :
            /\ \A k \in 1 .. Len(net'[p]) : net'[p][k] = net[p][f[k]]
            /\ \A k, j \in 1 .. Len(net'[p]) : f[k] < f[j] => k < j
      BY <2>2 DEF ComesFrom
    <3>2. \A k, j \in 1 .. Len(net[p]) :
            (net[p][k] \in LateAcks(p)' /\ net[p][j] \in ExpectedColumns(p)') => k < j
      BY <2>1, <2>3 DEF ComeBefore
    <3>. QED  BY <3>1, <3>2 DEF ComeBefore
  <2>5. state'[p] = "WAIT" /\ ~ToMove(p)'
    BY <1>2, <1>5 DEF GameInv, TypeOK, ToMove
  <2>. QED  BY <2>4, <2>5 DEF InOrder
<1>7. InOrder(q)'
  <2>1. UNCHANGED <<state[q], process[q], next_sequence[q], next_expected_sequence[q],
                    un_ack_column_messages[q]>>
    BY <1>0, <1>1, <1>2 DEF GameInv, TypeOK
  <2>2. ComesFrom(net'[q], net[q])
    BY <1>3, SameComesFrom
  <2>. QED  BY <2>1, <2>2, QueueKeepsOrder DEF InOrderInv
<1>. QED  BY <1>0, <1>5, <1>6, <1>7 DEF InOrderInv

(* The other steps leave the clients as they are. *)
LEMMA OtherStepsInOrder ==
  ASSUME ~Reordering, GameInv, InOrderInv, NEW p \in Peers,
         \/ \E u \in un_ack_column_messages[p] : TransmitColumnMessage(p, u)
         \/ \E i \in 1 .. Len(net[p]) : OnColumnOld(p, i) \/ OnColumnAckUnknown(p, i)
         \/ Lose(p)
         \/ Duplicate(p)
  PROVE  InOrderInv' /\ UNCHANGED state
<1>0. PICK q \in Peers : q = Other(p) /\ Other(q) = p /\ p # q /\ Peers = {p, q}
  BY TwoPeers
<1>1. UNCHANGED <<state, process, next_sequence, next_expected_sequence, un_ack_column_messages>>
  BY DEF TransmitColumnMessage, OnColumnOld, OnColumnAckUnknown, Lose, Duplicate, local
<1>2. /\ net[p] \in Seq(ColumnMessage \cup ColumnAck)
      /\ net[q] \in Seq(ColumnMessage \cup ColumnAck)
      /\ ComesFrom(net[p], net[p]) /\ ComesFrom(net[q], net[q])
  BY SameComesFrom DEF GameInv, TypeOK
<1>3. CASE \E u \in un_ack_column_messages[p] : TransmitColumnMessage(p, u)
  <2>1. PICK m : m.type = "column" /\ Send(p, m)
    BY <1>3 DEF TransmitColumnMessage, ColumnDatagram
  <2>2. net'[p] = net[p] /\ net'[q] = Enqueue(net[q], m)
    BY <1>0, <2>1 DEF Send, GameInv, TypeOK
  <2>3. InOrder(p)' /\ InOrder(q)'
    BY <1>1, <1>2, <2>1, <2>2, ColumnKeepsOrder, QueueKeepsOrder DEF InOrderInv
  <2>. QED  BY <1>0, <1>1, <2>3 DEF InOrderInv
<1>4. CASE \E i \in Deliverable(p) : Recv(p, i)
  <2>1. net'[p] = RemoveAt(net[p], 1) /\ net'[q] = net[q] /\ 1 \in 1 .. Len(net[p])
    BY <1>0, <1>4, HeadIsDelivered DEF Recv, GameInv, TypeOK
  <2>2. ComesFrom(net'[p], net[p]) /\ ComesFrom(net'[q], net[q])
    BY <1>2, <2>1, TailComesFrom
  <2>. QED  BY <1>0, <1>1, <2>2, QueueKeepsOrder DEF InOrderInv
<1>5. CASE Duplicate(p)
  <2>1. /\ net'[p] = InsertAt(net[p], 1, net[p][1]) /\ net'[q] = net[q]
        /\ 1 \in 1 .. Len(net[p])
    BY <1>0, <1>5, HeadIsDelivered DEF Duplicate, GameInv, TypeOK
  <2>2. ComesFrom(net'[p], net[p]) /\ ComesFrom(net'[q], net[q])
    BY <1>2, <2>1, DoubleComesFrom
  <2>. QED  BY <1>0, <1>1, <2>2, QueueKeepsOrder DEF InOrderInv
<1>. QED  BY <1>3, <1>4, <1>5 DEF OnColumnOld, OnColumnAckUnknown, ReceivesColumn, ReceivesAck, Lose

\* What one client does in a step, without the branches that are not taken.
StepOf(p) ==
  \/ \E move \in ColumnIndex : OnStdin(p, move)
  \/ \E i \in 1 .. Len(net[p]) : OnColumnMove(p, i)
  \/ \E i \in 1 .. Len(net[p]) : OnColumnAck(p, i)
  \/ \/ \E u \in un_ack_column_messages[p] : TransmitColumnMessage(p, u)
     \/ \E i \in 1 .. Len(net[p]) : OnColumnOld(p, i) \/ OnColumnAckUnknown(p, i)
     \/ Lose(p)
     \/ Duplicate(p)

LEMMA StepsTaken == GameInv /\ Next => \E p \in Peers : StepOf(p)
<1>. SUFFICES ASSUME GameInv, Next PROVE \E p \in Peers : StepOf(p)
  OBVIOUS
<1>1. PICK p \in Peers :
        \/ \E move \in ColumnIndex : OnStdin(p, move)
        \/ \E u \in un_ack_column_messages[p] : TransmitColumnMessage(p, u)
        \/ \E i \in 1 .. Len(net[p]) : HandleUdpMessage(p, i)
        \/ Lose(p)
        \/ Duplicate(p)
  BY DEF Next
<1>2. ~ \E i \in 1 .. Len(net[p]) : OnColumnInvalid(p, i)
  BY AcceptColumnGame DEF OnColumnInvalid
<1>3. ~ \E i \in 1 .. Len(net[p]) : OnColumnGap(p, i)
  <2>. SUFFICES ASSUME NEW i \in 1 .. Len(net[p]), OnColumnGap(p, i) PROVE FALSE
    OBVIOUS
  <2>1. /\ net[p][i].sequence > next_expected_sequence[p]
        /\ net[p][i].sequence <= next_expected_sequence[p]
    BY NoGap DEF OnColumnGap, ReceivesColumn
  <2>2. net[p][i].sequence \in Int
    BY DEF GameInv, TypeOK, ColumnMessage, ColumnAck
  <2>. QED  BY <2>1, <2>2 DEF GameInv, TypeOK
<1>. QED  BY <1>1, <1>2, <1>3 DEF HandleUdpMessage, StepOf

LEMMA InOrderStep ==
  ASSUME ~Reordering
  PROVE  GameInv /\ InOrderInv /\ [Next]_vars => InOrderInv'
<1>. SUFFICES ASSUME GameInv, InOrderInv, [Next]_vars PROVE InOrderInv'
  OBVIOUS
<1>1. CASE Next
  BY <1>1, StepsTaken, OnStdinInOrder, OnColumnMoveInOrder, OnColumnAckInOrder, OtherStepsInOrder
     DEF StepOf
<1>2. CASE UNCHANGED vars
  BY <1>2 DEF vars, local, InOrderInv, InOrder, ComeBefore, LateAcks, ExpectedColumns, IsExpected,
              Running, ToMove
<1>. QED  BY <1>1, <1>2

LEMMA InOrderInit == Init => InOrderInv
BY TwoPeers, OneStarter DEF Init, InOrderInv, InOrder, ComeBefore, Running, ToMove

LEMMA InOrderInvariant == ASSUME ~Reordering PROVE Spec => [](GameInv /\ InOrderInv)
<1>1. GameInv /\ InOrderInv /\ [Next]_vars => (GameInv /\ InOrderInv)'
  BY GameStep, InOrderStep
<1>. QED  BY <1>1, GameInit, InOrderInit, PTL DEF Spec

(* When the network keeps the order of datagrams, the client whose move it is
   by the moves it knows is in state TURN, so that on_stdin lets it move. *)
THEOREM ToMoveMeansTurn == ASSUME ~Reordering PROVE Spec => []ToMoveHasTurn
<1>1. InOrderInv => ToMoveHasTurn
  BY DEF InOrderInv, InOrder, ToMoveHasTurn
<1>. QED  BY <1>1, InOrderInvariant, PTL

(* When the network keeps the order, no acknowledgement takes away a turn that
   was announced with "Your turn". *)
THEOREM TurnsAreKept == ASSUME ~Reordering PROVE Spec => TurnKept
<1>1. GameInv /\ InOrderInv /\ [Next]_vars =>
        [\A p \in Peers : (state[p] = "TURN" /\ state'[p] # "TURN")
                             => next_sequence'[p] = next_sequence[p] + 1]_vars
  <2>. SUFFICES ASSUME GameInv, InOrderInv, Next, NEW r \in Peers,
                       state[r] = "TURN", state'[r] # "TURN"
                PROVE  next_sequence'[r] = next_sequence[r] + 1
    OBVIOUS
  <2>1. PICK p \in Peers : StepOf(p)
    BY StepsTaken
  <2>2. CASE \E move \in ColumnIndex : OnStdin(p, move)
    <3>1. r = p
      BY <2>2 DEF OnStdin, EndOrContinue, GameInv, TypeOK
    <3>. QED  BY <2>2, <3>1 DEF OnStdin, SendColumnMessage, GameInv, TypeOK
  <2>3. ~ \E i \in 1 .. Len(net[p]) : OnColumnMove(p, i)
    BY DEF OnColumnMove, EndOrContinue, GameInv, TypeOK
  <2>4. ~ \E i \in 1 .. Len(net[p]) : OnColumnAck(p, i)
    <3>. SUFFICES ASSUME NEW i \in 1 .. Len(net[p]), OnColumnAck(p, i) PROVE FALSE
      OBVIOUS
    <3>1. state' = [state EXCEPT ![p] = "WAIT"] /\ state[p] # "TURN"
      BY OnColumnAckInOrder DEF OnColumnAck
    <3>. QED  BY <3>1 DEF GameInv, TypeOK
  <2>. QED  BY <2>1, <2>2, <2>3, <2>4, OtherStepsInOrder DEF StepOf
<1>. QED  BY <1>1, InOrderInvariant, PTL DEF Spec, TurnKept
=============================================================================
