------------------------------ MODULE FourLib ------------------------------
(***************************************************************************)
(* The board of client/lib/4clib.c.  The C file keeps two static arrays,   *)
(* field and next_row; here they are the two fields of a board record and  *)
(* every function of the file is an operator on such a record.             *)
(*                                                                         *)
(* A client marks its own discs PLAYER_1 and its opponent's PLAYER_2, so   *)
(* the two clients of one game hold mirrored boards; Mirror relates them.  *)
(***************************************************************************)
EXTENDS Integers

CONSTANTS
  NUMBER_OF_ROWS,     \* 6 in 4clib.h
  NUMBER_OF_COLUMNS,  \* 7 in 4clib.h
  InARow              \* discs in a winning line; winner() spells out 4

ASSUME BoardAssumption ==
  /\ NUMBER_OF_ROWS \in Nat \ {0}
  /\ NUMBER_OF_COLUMNS \in Nat \ {0}
  /\ InARow \in Nat \ {0, 1}

PLAYER_1 == -1
PLAYER_2 == 1
Empty == 0

RowIndex == 0 .. (NUMBER_OF_ROWS - 1)
ColumnIndex == 0 .. (NUMBER_OF_COLUMNS - 1)
Cells == RowIndex \X ColumnIndex

Board == [field : [Cells -> {PLAYER_1, Empty, PLAYER_2}],
          next_row : [ColumnIndex -> 0 .. NUMBER_OF_ROWS]]

init_4clib == [field |-> [cell \in Cells |-> Empty],
               next_row |-> [c \in ColumnIndex |-> 0]]

valid_move(b, c) == c \in ColumnIndex /\ b.next_row[c] < NUMBER_OF_ROWS

\* Mutant: the row is counted before the disc is put down.
make_move_RowFirst(b, c, player) ==
  [field |-> [b.field EXCEPT ![<<b.next_row[c] + 1, c>>] = player],
   next_row |-> [b.next_row EXCEPT ![c] = @ + 1]]

\* Mutant: every disc is the own one.
make_move_Own(b, c, player) ==
  [field |-> [b.field EXCEPT ![<<b.next_row[c], c>>] = PLAYER_1],
   next_row |-> [b.next_row EXCEPT ![c] = @ + 1]]

make_move(b, c, player) ==
  [field |-> [b.field EXCEPT ![<<b.next_row[c], c>>] = player],
   next_row |-> [b.next_row EXCEPT ![c] = @ + 1]]

-----------------------------------------------------------------------------
(***************************************************************************)
(* winner() scans four families of lines, each from the cells a pair of    *)
(* loop bounds allows.  A line is the set of its cells.                    *)
(***************************************************************************)
Reach == InARow - 1

Horizontal == { {<<i, j + d>> : d \in 0 .. Reach} :
                  i \in RowIndex, j \in 0 .. (NUMBER_OF_COLUMNS - 1 - Reach) }

Rising == { {<<i + d, j + d>> : d \in 0 .. Reach} :
              i \in 0 .. (NUMBER_OF_ROWS - 1 - Reach),
              j \in 0 .. (NUMBER_OF_COLUMNS - 1 - Reach) }

Vertical == { {<<i + d, j>> : d \in 0 .. Reach} :
                i \in 0 .. (NUMBER_OF_ROWS - 1 - Reach), j \in ColumnIndex }

\* Mutant: the first column a falling line may start in is counted from one.
Falling_OffByOne == { {<<i + d, j - d>> : d \in 0 .. Reach} :
                        i \in 0 .. (NUMBER_OF_ROWS - 1 - Reach),
                        j \in InARow .. (NUMBER_OF_COLUMNS - 1) }

Falling == { {<<i + d, j - d>> : d \in 0 .. Reach} :
               i \in 0 .. (NUMBER_OF_ROWS - 1 - Reach),
               j \in Reach .. (NUMBER_OF_COLUMNS - 1) }

Lines == Horizontal \cup Rising \cup Vertical \cup Falling

HasLine(b, player) == \E line \in Lines : \A cell \in line : b.field[cell] = player

\* Both callers use only whether winner() is nonzero.
winner(b) == HasLine(b, PLAYER_1) \/ HasLine(b, PLAYER_2)

-----------------------------------------------------------------------------
(***************************************************************************)
(* The board as the other player sees it.                                  *)
(***************************************************************************)
Mirror(b) == [field |-> [cell \in Cells |-> -b.field[cell]],
              next_row |-> b.next_row]

BoardFull(b) == \A c \in ColumnIndex : ~valid_move(b, c)
=============================================================================
