------------------------------- MODULE Match -------------------------------
(***************************************************************************)
(* What the two clients promise together: one game, on one board, in which *)
(* the players alternate and the game ends with the first winning line.    *)
(* There is no network here; the board is the starting player's view.      *)
(***************************************************************************)
EXTENDS FourLib, FiniteSets

VARIABLES
  game,    \* the game's board, discs of the starting player are PLAYER_1
  turn     \* who moves next

mvars == <<game, turn>>

\* The player that does not hold the given mark.
Opponent(player) == IF player = PLAYER_1 THEN PLAYER_2 ELSE PLAYER_1

MInit == /\ game = init_4clib
         /\ turn = PLAYER_1

\* A disc is dropped by the player whose turn it is; nothing moves after a win.
Drop(c) == /\ ~winner(game)
           /\ valid_move(game, c)
           /\ game' = make_move(game, c, turn)
           /\ turn' = Opponent(turn)

MNext == \E c \in ColumnIndex : Drop(c)

MSpec == MInit /\ [][MNext]_mvars

-----------------------------------------------------------------------------
(***************************************************************************)
(* What is asked of the library of 4clib.c, over every sequence of legal   *)
(* moves: its bookkeeping, and its loop bounds against a geometric         *)
(* definition of a winning line.                                           *)
(***************************************************************************)
\* The cells of a line of InARow cells from a cell in one of the eight directions.
Ray(cell, dir) == {<<cell[1] + d * dir[1], cell[2] + d * dir[2]>> : d \in 0 .. (InARow - 1)}

Directions == ({-1, 0, 1} \X {-1, 0, 1}) \ {<<0, 0>>}

(* winner() sees a winning line exactly when there is one: the bounds of its
   four loop nests miss no line and leave the field in no direction. *)
WinnerSeesEveryLine ==
  winner(game) <=>
    \E cell \in Cells, dir \in Directions, player \in {PLAYER_1, PLAYER_2} :
      /\ Ray(cell, dir) \subseteq Cells
      /\ \A c \in Ray(cell, dir) : game.field[c] = player

(* Discs lie on top of each other: next_row is the height of each column in
   field, and as many discs are on the board as moves were made in turn. *)
DiscsStack ==
  /\ \A c \in ColumnIndex, r \in RowIndex :
        game.field[<<r, c>>] # Empty <=> r < game.next_row[c]
  /\ LET Discs(player) == Cardinality({cell \in Cells : game.field[cell] = player})
     IN  Discs(PLAYER_1) - Discs(PLAYER_2) = (IF turn = PLAYER_1 THEN 0 ELSE 1)

(* A win is the mover's: on_stdin and on_column_message call winner() after
   the move and announce "you won" or "you lost" without looking whose line
   it is. *)
WinIsTheMovers ==
  winner(game) => HasLine(game, Opponent(turn)) /\ ~HasLine(game, turn)
=============================================================================
