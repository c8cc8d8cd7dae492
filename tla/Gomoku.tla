------------------------------- MODULE Gomoku -------------------------------
(***************************************************************************)
(* The game a client is promised: two players put stones on empty cells in *)
(* turn, the human first, until one has a line or no cell is left.         *)
(***************************************************************************)
EXTENDS Integers

CONSTANTS Size,      \* the board has Size * Size cells
          Line,      \* stones in a row that win
          Empty, Human, Ai

VARIABLES board, turn

Cells == (0..Size - 1) \X (0..Size - 1)
Directions == {<<1, 0>>, <<0, 1>>, <<1, 1>>, <<1, -1>>}
Along(cell, d, k) == <<cell[1] + k * d[1], cell[2] + k * d[2]>>

HasLine(b, player) ==
    \E cell \in Cells, d \in Directions :
        \A k \in 0..Line - 1 : Along(cell, d, k) \in Cells /\ b[Along(cell, d, k)] = player
IsFull(b) == \A cell \in Cells : b[cell] # Empty

Init ==
    /\ board = [cell \in Cells |-> Empty]
    /\ turn = Human

Put(player, other) ==
    /\ turn = player
    /\ \E cell \in Cells :
          /\ board[cell] = Empty
          /\ board' = [board EXCEPT ![cell] = player]
    /\ turn' = IF HasLine(board', player) \/ IsFull(board') THEN Empty ELSE other

Next == Put(Human, Ai) \/ Put(Ai, Human)

Spec == Init /\ [][Next]_<<board, turn>>
=============================================================================
