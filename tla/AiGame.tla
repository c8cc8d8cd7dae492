------------------------------- MODULE AiGame -------------------------------
(***************************************************************************)
(* One AiGame: the rules, the search for the AI's move, and the moves that *)
(* AiGameMoveHandler plays on it.  A user's requests may come on several   *)
(* connections and so on several threads; mutex_ guards single reads only, *)
(* so moves interleave at the places where the code looks at the board and *)
(* then writes it, and above all over the half second that aiMove sleeps.  *)
(*                                                                         *)
(* The game ends with its removal from aiGames_; what threads do that      *)
(* still hold it then is in GomokuApp.                                     *)
(***************************************************************************)
EXTENDS Integers, FiniteSets

CONSTANTS Thread,        \* the event-loop threads
          BOARD_SIZE,
          LineLength,    \* checkWin's literal 5
          MaxOverlaps    \* bound: moves taken up while another is at work

ASSUME GameAssumption ==
    /\ BOARD_SIZE \in Nat \ {0}
    /\ LineLength \in Nat \ {0, 1}
    /\ MaxOverlaps \in Nat

EMPTY == "empty"
AI_PLAYER == "white"
HUMAN_PLAYER == "black"
Colours == {EMPTY, AI_PLAYER, HUMAN_PLAYER}

Cells == (0..BOARD_SIZE - 1) \X (0..BOARD_SIZE - 1)
Outside == <<-1, -1>>

VARIABLES
    board_, moveCount_, gameOver_, winner_,
    pc,            \* where each thread is in AiGameMoveHandler::handle
    cell,          \* the cell its move is going to: the request's, then getBestMove's
    erased,        \* the game has been taken out of aiGames_
    crashed,       \* the process is gone: a write to board_[-1][-1]
    overlaps,      \* history: moves taken up while another was at work
    openings       \* history: how many cells won for the human when the AI last chose

game == <<board_, moveCount_, gameOver_, winner_>>
history == <<overlaps, openings>>
overlapped == overlaps > 0
vars == <<game, pc, cell, erased, crashed, history>>

-----------------------------------------------------------------------------
(* The board.  checkWin looks from a cell along four lines, both ways, and   *)
(* takes the stone in the cell itself for granted.                           *)
Directions == {<<1, 0>>, <<0, 1>>, <<1, 1>>, <<1, -1>>}
Along(c, d, k) == <<c[1] + k * d[1], c[2] + k * d[2]>>
Stone(b, c, player) == c \in Cells /\ b[c] = player

Run(b, c, d, sign, player) ==
    Cardinality({k \in 1..LineLength - 1 :
                    \A i \in 1..k : Stone(b, Along(c, d, sign * i), player)})

OneWay(b, c, player) ==        \* the line is followed in one direction only
    \E d \in Directions : 1 + Run(b, c, d, 1, player) >= LineLength
checkWin(b, c, player) ==
    \E d \in Directions : 1 + Run(b, c, d, 1, player) + Run(b, c, d, -1, player) >= LineLength

EmptyCells(b) == {c \in Cells : b[c] = EMPTY}
Wins(b, player) == {c \in EmptyCells(b) : checkWin(b, c, player)}

isDrawLate(count) == count > BOARD_SIZE * BOARD_SIZE
isDraw(count) == count >= BOARD_SIZE * BOARD_SIZE

isValidAnywhere(c) ==       \* the coordinates are not checked
    /\ c \in Cells => board_[c] = EMPTY
    /\ ~gameOver_ /\ ~isDraw(moveCount_)
isValidMove(c) ==
    /\ c \in Cells
    /\ board_[c] = EMPTY
    /\ ~gameOver_ /\ ~isDraw(moveCount_)

-----------------------------------------------------------------------------
(* getBestMove: the first cell, by rows, that wins for one side or the       *)
(* other; else the first with the highest threat.  What follows in the code  *)
(* (a cell next to a stone, the first empty one) is reached on a full board  *)
(* only, where it finds nothing either: every empty cell has a threat of at  *)
(* least 4.                                                                  *)
FirstOf(S) ==
    CHOOSE c \in S : \A e \in S : c[1] < e[1] \/ (c[1] = e[1] /\ c[2] <= e[2])

evaluateThreat(b, c) ==
    4 + Cardinality({s \in Directions \X (1..2) : Stone(b, Along(c, s[1], s[2]), HUMAN_PLAYER)})

OnlyAttack(b) == Wins(b, AI_PLAYER)          \* without the defence
Decisive(b) == Wins(b, AI_PLAYER) \cup Wins(b, HUMAN_PLAYER)
MostThreatened(b) ==
    {c \in EmptyCells(b) : \A e \in EmptyCells(b) : evaluateThreat(b, e) <= evaluateThreat(b, c)}

getBestMove(b) ==
    IF EmptyCells(b) = {} THEN Outside
    ELSE IF Decisive(b) # {} THEN FirstOf(Decisive(b)) ELSE FirstOf(MostThreatened(b))

-----------------------------------------------------------------------------
Init ==
    /\ board_ = [c \in Cells |-> EMPTY]
    /\ moveCount_ = 0 /\ gameOver_ = FALSE /\ winner_ = "none"
    /\ pc = [t \in Thread |-> "idle"]
    /\ cell = [t \in Thread |-> Outside]
    /\ erased = FALSE /\ crashed = FALSE
    /\ overlaps = 0 /\ openings = 0

At(t, step) == ~erased /\ ~crashed /\ pc[t] = step
Goto(t, step) == pc' = [pc EXCEPT ![t] = step]
Done(t) == cell' = [cell EXCEPT ![t] = Outside]

(* A request with the coordinates of a cell, or of none.                     *)
Take(t, c) ==
    /\ At(t, "idle")
    /\ Goto(t, "human")
    /\ cell' = [cell EXCEPT ![t] = c]
    /\ overlaps' = IF \E u \in Thread : pc[u] # "idle" THEN overlaps + 1 ELSE overlaps
    /\ overlaps' <= MaxOverlaps
    /\ UNCHANGED <<game, erased, crashed, openings>>

(* humanMove: isValidMove, and then the stone, with no lock over both.       *)
(* While another thread searches, the board shows stones that are only tried *)
(* out, and an empty cell may be found taken.                                *)
Searching(t) == \E u \in Thread \ {t} : pc[u] = "search"

HumanMoveInvalid(t) ==
    /\ At(t, "human")
    /\ ~isValidMove(cell[t]) \/ Searching(t)
    /\ Done(t) /\ Goto(t, "idle")
    /\ UNCHANGED <<game, erased, crashed, history>>

HumanMoveValid(t) ==
    /\ At(t, "human")
    /\ isValidMove(cell[t])
    /\ Goto(t, "place")
    /\ UNCHANGED <<game, cell, erased, crashed, history>>

Place(c, player, name, b) ==
    /\ board_' = b
    /\ moveCount_' = moveCount_ + 1
    /\ IF checkWin(board_, c, player)
       THEN gameOver_' = TRUE /\ winner_' = name
       ELSE UNCHANGED <<gameOver_, winner_>>

(* A search that is trying out the cell meanwhile sets it to EMPTY again.    *)
HumanMove(t) ==
    /\ At(t, "place")
    /\ \E b \in {[board_ EXCEPT ![cell[t]] = HUMAN_PLAYER]} \cup (IF Searching(t) THEN {board_} ELSE {}) :
          Place(cell[t], HUMAN_PLAYER, "human", b)
    /\ Done(t) /\ Goto(t, "judgeHuman")
    /\ UNCHANGED <<erased, crashed, history>>

(* isGameOver() or isDraw(), after either move: the game is taken out.       *)
Judging(t) == At(t, "judgeHuman") \/ At(t, "judgeAi")
GameOver(t) ==
    /\ Judging(t)
    /\ gameOver_ \/ isDraw(moveCount_)
    /\ erased' = TRUE
    /\ Goto(t, "idle")
    /\ UNCHANGED <<game, cell, crashed, history>>

GameOn(t) ==
    /\ Judging(t)
    /\ ~gameOver_ /\ ~isDraw(moveCount_)
    /\ Goto(t, IF pc[t] = "judgeHuman" THEN "ai" ELSE "idle")
    /\ UNCHANGED <<game, cell, erased, crashed, history>>

(* aiMove: nothing to do in a game that is over, else sleep 500 ms, search   *)
(* and place the stone, whatever has become of the game meanwhile.           *)
AiMoveReturns(t) ==
    /\ At(t, "ai")
    /\ gameOver_ \/ isDraw(moveCount_)
    /\ Goto(t, "judgeAi")
    /\ UNCHANGED <<game, cell, erased, crashed, history>>

AiSleeps(t) ==
    /\ At(t, "ai")
    /\ ~gameOver_ /\ ~isDraw(moveCount_)
    /\ Goto(t, "sleep")
    /\ UNCHANGED <<game, cell, erased, crashed, history>>

AiSearches(t) ==
    /\ At(t, "sleep")
    /\ cell' = [cell EXCEPT ![t] = getBestMove(board_)]
    /\ Goto(t, "search")
    /\ openings' = Cardinality(Wins(board_, HUMAN_PLAYER))
    /\ UNCHANGED <<game, erased, crashed, overlaps>>

AiMove(t) ==
    /\ At(t, "search")
    /\ cell[t] \in Cells
    /\ Place(cell[t], AI_PLAYER, "ai", [board_ EXCEPT ![cell[t]] = AI_PLAYER])
    /\ Done(t) /\ Goto(t, "judgeAi")
    /\ UNCHANGED <<erased, crashed, history>>

(* No empty cell: board_[-1][-1].                                            *)
AiMoveFaults(t) ==
    /\ At(t, "search")
    /\ cell[t] = Outside
    /\ crashed' = TRUE
    /\ UNCHANGED <<game, pc, cell, erased, history>>

Handle(t) ==
    \/ HumanMoveInvalid(t) \/ HumanMoveValid(t) \/ HumanMove(t)
    \/ GameOver(t) \/ GameOn(t)
    \/ AiMoveReturns(t) \/ AiSleeps(t) \/ AiSearches(t) \/ AiMove(t) \/ AiMoveFaults(t)

Next == \E t \in Thread : Handle(t) \/ \E c \in Cells \cup {Outside} : Take(t, c)

Spec == Init /\ [][Next]_vars

-----------------------------------------------------------------------------
Steps == {"idle", "human", "place", "judgeHuman", "ai", "sleep", "search", "judgeAi"}

(* Every variable has its type, and a thread that places a stone has a cell  *)
(* for it unless the board was full when it searched.                        *)
TypeOK ==
    /\ board_ \in [Cells -> Colours]
    /\ moveCount_ \in Nat
    /\ gameOver_ \in BOOLEAN /\ winner_ \in {"none", "human", "ai"}
    /\ pc \in [Thread -> Steps]
    /\ cell \in [Thread -> Cells \cup {Outside}]
    /\ \A t \in Thread : pc[t] = "place" => cell[t] \in Cells
    /\ {erased, crashed} \subseteq BOOLEAN
    /\ overlaps \in 0..MaxOverlaps /\ openings \in Nat

(* A client that waits for each answer plays the game of module Gomoku:      *)
(* stones on empty cells only, in turn, and the game is over exactly when    *)
(* somebody has a line or the board is full (AiGame.cpp:18-53, checkWin and  *)
(* the handler's four checks).  Only moves that overlap may break this.      *)
Turn ==
    IF gameOver_ \/ isDraw(moveCount_) THEN EMPTY
    ELSE IF \E t \in Thread : pc[t] \in {"judgeHuman", "ai", "sleep", "search"}
         THEN AI_PLAYER ELSE HUMAN_PLAYER
Abstract == INSTANCE Gomoku WITH
    Size <- BOARD_SIZE, Line <- LineLength, Empty <- EMPTY, Human <- HUMAN_PLAYER,
    Ai <- AI_PLAYER, board <- board_, turn <- Turn
PlaysGomoku ==
    Abstract!Init /\ [][Abstract!Next \/ overlapped']_<<board_, Turn>>

(* The AI never overlooks a threat: a human who waits for each answer wins   *)
(* only with two winning cells open at once, of which the AI can close one   *)
(* (getBestMove's first pass, AiGame.cpp:137-161).                           *)
WinNeedsFork == winner_ = "human" /\ ~overlapped => openings >= 2

(* The AI finds an empty cell for its stone whenever it gets to search, as   *)
(* long as no other move came while it slept: both checks for a draw come    *)
(* before it (AiGameMoveHandler.cpp:75, AiGame.cpp:38).                      *)
FaultNeedsOverlap == crashed => overlapped
=============================================================================
