------------------------------ MODULE MCAiGame ------------------------------
(* Three in a row on a board of nine cells: the human can make a fork, the   *)
(* board fills up, and two requests overlap anywhere.                        *)
EXTENDS AiGame, TLC

Symmetry == Permutations(Thread)
=============================================================================
