---------------------------- MODULE AiGame_proofs ----------------------------
(***************************************************************************)
(* Proofs about AiGame for every board, every length of a winning line and *)
(* every set of threads: typing, that the AI finds a cell for its stone,   *)
(* that moves without overlap play the game of module Gomoku, and that the *)
(* human wins such a game only by a fork.                                  *)
(***************************************************************************)
EXTENDS AiGame, FiniteSetTheorems, WellFoundedInduction, TLAPS

(* A set of naturals has a least member, and a bounded one a greatest.       *)
LEMMA Least ==
    ASSUME NEW S \in SUBSET Nat, S # {}
    PROVE  \E x \in S : \A y \in S : x <= y
<1> DEFINE R == StrictSubsetOrdering(Nat)
           F == FiniteSubsetsOf(Nat)
           T == {0..x : x \in S}
<1>1. IsWellFoundedOn(R, F)
  BY FS_StrictSubsetOrderingWellFounded
<1>2. T \subseteq F /\ T # {}
  <2>1. \A x \in S : x \in Nat
    OBVIOUS
  <2>2. \A x \in S : 0..x \subseteq Nat /\ IsFiniteSet(0..x)
    BY <2>1, FS_Interval
  <2> QED BY <2>2 DEF FiniteSubsetsOf
<1>3. PICK m \in T : \A n \in T : ~(<<n, m>> \in R)
  <2> HIDE DEF R, F, T
  <2> QED BY <1>1, <1>2, WFMin
<1>4. PICK x \in S : m = 0..x
  OBVIOUS
<1>5. ASSUME NEW y \in S, y < x PROVE FALSE
  <2>1. 0..y \in T /\ 0..y \subseteq 0..x /\ 0..y # 0..x
    <3>1. x \in 0..x /\ x \notin 0..y
      BY <1>5
    <3> QED BY <1>5, <3>1
  <2>2. <<0..y, 0..x>> \in R
    BY <2>1, <1>2 DEF StrictSubsetOrdering, FiniteSubsetsOf
  <2> QED BY <2>1, <2>2, <1>3, <1>4
<1>6. \A y \in S : x <= y
  BY <1>5
<1> QED BY <1>6

LEMMA Greatest ==
    ASSUME NEW k \in Nat, NEW S \in SUBSET (0..k), S # {}
    PROVE  \E x \in S : \A y \in S : y <= x
<1> DEFINE T == {k - x : x \in S}
<1>1. T \in SUBSET Nat /\ T # {}
  <2>1. \A x \in S : k - x \in Nat
    OBVIOUS
  <2> QED BY <2>1
<1>2. PICK m \in T : \A n \in T : m <= n
  BY <1>1, Least
<1>3. PICK x \in S : m = k - x
  OBVIOUS
<1>4. \A y \in S : k - x <= k - y
  BY <1>2, <1>3
<1> QED BY <1>4

LEMMA CellsFinite == IsFiniteSet(Cells)
<1>1. BOARD_SIZE - 1 \in Int /\ 0 \in Int
  BY GameAssumption DEF GameAssumption
<1>2. IsFiniteSet(0..BOARD_SIZE - 1)
  BY <1>1, FS_Interval
<1> QED BY <1>2, FS_Product DEF Cells

(* The search's scan by rows finds a member of a set of cells.               *)
LEMMA FirstOfIn ==
    ASSUME NEW S \in SUBSET Cells, S # {}
    PROVE  FirstOf(S) \in S
<1> DEFINE rows == {c[1] : c \in S}
<1>1. \A c \in S : c[1] \in Nat /\ c[2] \in Nat
  BY GameAssumption DEF Cells, GameAssumption
<1>2. rows \in SUBSET Nat /\ rows # {}
  BY <1>1
<1>3. PICK r \in rows : \A x \in rows : r <= x
  BY <1>2, Least
<1> DEFINE columns == {c[2] : c \in {e \in S : e[1] = r}}
<1>4. columns \in SUBSET Nat /\ columns # {}
  BY <1>1, <1>3
<1>5. PICK k \in columns : \A x \in columns : k <= x
  BY <1>4, Least
<1>6. PICK c \in S : c[1] = r /\ c[2] = k
  BY <1>5
<1>7. \A e \in S : c[1] < e[1] \/ (c[1] = e[1] /\ c[2] <= e[2])
  <2> TAKE e \in S
  <2>1. r <= e[1] /\ r \in Nat /\ e[1] \in Nat
    BY <1>1, <1>3, <1>2
  <2>2. e[1] = r => k <= e[2]
    BY <1>5
  <2> QED BY <2>1, <2>2, <1>6
<1> QED BY <1>6, <1>7 DEF FirstOf

-----------------------------------------------------------------------------
Boards == [Cells -> Colours]

LEMMA ThreatType ==
    ASSUME NEW b, NEW c
    PROVE  /\ Cardinality(Directions \X (1..2)) \in Nat
           /\ evaluateThreat(b, c) \in 0..(4 + Cardinality(Directions \X (1..2)))
<1> DEFINE D == Directions \X (1..2)
           S == {s \in Directions \X (1..2) : Stone(b, Along(c, s[1], s[2]), HUMAN_PLAYER)}
<1>1. IsFiniteSet(Directions)
  <2>1. IsFiniteSet({}) /\ Directions = {} \cup {<<1, 0>>} \cup {<<0, 1>>} \cup {<<1, 1>>} \cup {<<1, -1>>}
    BY FS_EmptySet DEF Directions
  <2> QED BY <2>1, FS_AddElement
<1>2. IsFiniteSet(1..2)
  <2>1. 1 \in Int /\ 2 \in Int
    OBVIOUS
  <2> QED BY <2>1, FS_Interval
<1>3. IsFiniteSet(D)
  BY <1>1, <1>2, FS_Product
<1>4. S \subseteq D
  OBVIOUS
<1>5. Cardinality(S) \in Nat /\ Cardinality(D) \in Nat /\ Cardinality(S) <= Cardinality(D)
  BY <1>3, <1>4, FS_Subset, FS_CardinalityType
<1>6. evaluateThreat(b, c) = 4 + Cardinality(S)
  BY Zenon DEF evaluateThreat
<1> QED BY <1>5, <1>6

(* With an empty cell left the search finds one, and one that decides the    *)
(* game if there is any (getBestMove).                                       *)
LEMMA BestMove ==
    ASSUME NEW b
    PROVE  /\ EmptyCells(b) # {} => getBestMove(b) \in EmptyCells(b)
           /\ Decisive(b) # {} => getBestMove(b) \in Decisive(b)
           /\ getBestMove(b) \in Cells \cup {Outside}
<1>1. EmptyCells(b) \in SUBSET Cells /\ Decisive(b) \in SUBSET EmptyCells(b)
  BY DEF EmptyCells, Decisive, Wins
<1>2. Decisive(b) # {} => FirstOf(Decisive(b)) \in Decisive(b)
  BY <1>1, FirstOfIn
<1>3. EmptyCells(b) # {} => FirstOf(MostThreatened(b)) \in EmptyCells(b)
  <2> SUFFICES ASSUME EmptyCells(b) # {} PROVE FirstOf(MostThreatened(b)) \in EmptyCells(b)
    OBVIOUS
  <2> DEFINE k == 4 + Cardinality(Directions \X (1..2))
             threats == {evaluateThreat(b, c) : c \in EmptyCells(b)}
  <2>1. k \in Nat
    BY ThreatType
  <2>2. threats # {} /\ threats \in SUBSET (0..k)
    BY ThreatType
  <2> HIDE DEF k
  <2>3. PICK x \in threats : \A y \in threats : y <= x
    BY <2>1, <2>2, Greatest
  <2>4. PICK c \in EmptyCells(b) : x = evaluateThreat(b, c)
    OBVIOUS
  <2>5. c \in MostThreatened(b)
    BY <2>3, <2>4 DEF MostThreatened
  <2> QED BY <2>5, <1>1, FirstOfIn DEF MostThreatened
<1> QED BY <1>1, <1>2, <1>3 DEF getBestMove

-----------------------------------------------------------------------------
(* Typing.                                                                   *)
LEMMA WinsFinite ==
    ASSUME NEW b, NEW player
    PROVE  IsFiniteSet(Wins(b, player)) /\ Cardinality(Wins(b, player)) \in Nat
<1>1. Wins(b, player) \subseteq Cells
  BY DEF Wins, EmptyCells
<1> QED BY <1>1, CellsFinite, FS_Subset, FS_CardinalityType

LEMMA PlaceType ==
    ASSUME TypeOK, NEW c, NEW player, NEW name \in {"human", "ai"}, NEW b \in Boards,
           Place(c, player, name, b)
    PROVE  /\ board_' \in Boards /\ moveCount_' \in Nat
           /\ gameOver_' \in BOOLEAN /\ winner_' \in {"none", "human", "ai"}
<1>1. board_' = b /\ moveCount_' = moveCount_ + 1 /\ moveCount_ \in Nat
  BY DEF Place, TypeOK
<1>2. \/ gameOver_' = TRUE /\ winner_' = name
      \/ gameOver_' = gameOver_ /\ winner_' = winner_
  BY DEF Place
<1>3. gameOver_ \in BOOLEAN /\ winner_ \in {"none", "human", "ai"}
  BY DEF TypeOK
<1>4. gameOver_' \in BOOLEAN
  BY <1>2, <1>3, Zenon
<1>5. winner_' \in {"none", "human", "ai"}
  BY <1>2, <1>3
<1> QED BY <1>1, <1>4, <1>5

LEMMA TypeInit == Init => TypeOK
<1> SUFFICES ASSUME Init PROVE TypeOK
  OBVIOUS
<1>1. board_ \in [Cells -> Colours] /\ moveCount_ \in Nat /\ winner_ \in {"none", "human", "ai"}
  BY DEF Init, Colours
<1>2. gameOver_ \in BOOLEAN /\ {erased, crashed} \subseteq BOOLEAN
  BY DEF Init
<1>3. pc \in [Thread -> Steps] /\ cell \in [Thread -> Cells \cup {Outside}]
  BY DEF Init, Steps
<1>4. \A t \in Thread : pc[t] = "place" => cell[t] \in Cells
  BY DEF Init
<1>5. overlaps \in 0..MaxOverlaps /\ openings \in Nat
  BY GameAssumption DEF Init, GameAssumption
<1> QED BY <1>1, <1>2, <1>3, <1>4, <1>5 DEF TypeOK

LEMMA TypeStep == TypeOK /\ [Next]_vars => TypeOK'
<1> SUFFICES ASSUME TypeOK, [Next]_vars PROVE TypeOK'
  OBVIOUS
<1> USE DEF TypeOK, game, history, Steps, At, Goto, Done
<1>1. ASSUME NEW t \in Thread, NEW c \in Cells \cup {Outside}, Take(t, c) PROVE TypeOK'
  <2>1. overlaps' \in 0..MaxOverlaps
    BY <1>1, GameAssumption DEF Take, GameAssumption
  <2> QED BY <1>1, <2>1 DEF Take
<1>2. ASSUME NEW t \in Thread, HumanMoveInvalid(t) PROVE TypeOK'
  BY <1>2 DEF HumanMoveInvalid
<1>3. ASSUME NEW t \in Thread, HumanMoveValid(t) PROVE TypeOK'
  BY <1>3 DEF HumanMoveValid, isValidMove
<1>4. ASSUME NEW t \in Thread, HumanMove(t) PROVE TypeOK'
  <2>1. cell[t] \in Cells
    BY <1>4 DEF HumanMove
  <2>2. PICK b \in {[board_ EXCEPT ![cell[t]] = HUMAN_PLAYER]} \cup (IF Searching(t) THEN {board_} ELSE {}) :
           Place(cell[t], HUMAN_PLAYER, "human", b)
    BY <1>4 DEF HumanMove
  <2>3. b \in Boards
    BY <2>1, <2>2 DEF Boards, Colours
  <2>4. /\ board_' \in Boards /\ moveCount_' \in Nat
        /\ gameOver_' \in BOOLEAN /\ winner_' \in {"none", "human", "ai"}
    BY <2>2, <2>3, PlaceType
  <2> QED BY <1>4, <2>4 DEF HumanMove, Boards
<1>5. ASSUME NEW t \in Thread, GameOver(t) PROVE TypeOK'
  BY <1>5 DEF GameOver
<1>6. ASSUME NEW t \in Thread, GameOn(t) PROVE TypeOK'
  BY <1>6 DEF GameOn
<1>7. ASSUME NEW t \in Thread, AiMoveReturns(t) PROVE TypeOK'
  BY <1>7 DEF AiMoveReturns
<1>8. ASSUME NEW t \in Thread, AiSleeps(t) PROVE TypeOK'
  BY <1>8 DEF AiSleeps
<1>9. ASSUME NEW t \in Thread, AiSearches(t) PROVE TypeOK'
  <2>1. getBestMove(board_) \in Cells \cup {Outside} /\ openings' \in Nat
    BY <1>9, BestMove, WinsFinite DEF AiSearches
  <2> QED BY <1>9, <2>1 DEF AiSearches
<1>10. ASSUME NEW t \in Thread, AiMove(t) PROVE TypeOK'
  <2>1. [board_ EXCEPT ![cell[t]] = AI_PLAYER] \in Boards
    BY DEF Boards, Colours
  <2>2. /\ board_' \in Boards /\ moveCount_' \in Nat
        /\ gameOver_' \in BOOLEAN /\ winner_' \in {"none", "human", "ai"}
    BY <1>10, <2>1, PlaceType DEF AiMove
  <2> QED BY <1>10, <2>2 DEF AiMove, Boards
<1>11. ASSUME NEW t \in Thread, AiMoveFaults(t) PROVE TypeOK'
  BY <1>11 DEF AiMoveFaults
<1>12. ASSUME UNCHANGED vars PROVE TypeOK'
  BY <1>12 DEF vars
<1> QED BY <1>1, <1>2, <1>3, <1>4, <1>5, <1>6, <1>7, <1>8, <1>9, <1>10, <1>11, <1>12
        DEF Next, Handle

(* Every variable has its type, for any board and any threads.               *)
THEOREM TypeCorrect == Spec => []TypeOK
BY TypeInit, TypeStep, PTL DEF Spec

-----------------------------------------------------------------------------
(* Stones are counted, and no cell is empty when the count says so.          *)
Stones(b) == {c \in Cells : b[c] # EMPTY}

LEMMA CellsCount == Cardinality(Cells) = BOARD_SIZE * BOARD_SIZE
<1> DEFINE I == 0..BOARD_SIZE - 1
<1>1. 0 \in Int /\ BOARD_SIZE - 1 \in Int /\ BOARD_SIZE \in Nat \ {0}
  BY GameAssumption DEF GameAssumption
<1>2. IsFiniteSet(I) /\ Cardinality(I) = BOARD_SIZE
  <2>1. IsFiniteSet(I) /\ Cardinality(I) = IF 0 > BOARD_SIZE - 1 THEN 0 ELSE (BOARD_SIZE - 1) - 0 + 1
    BY <1>1, FS_Interval, Zenon
  <2> HIDE DEF I
  <2> QED BY <1>1, <2>1
<1> QED BY <1>2, FS_Product DEF Cells

LEMMA StonesFinite ==
    ASSUME NEW b
    PROVE  IsFiniteSet(Stones(b)) /\ Cardinality(Stones(b)) \in Nat
<1>1. Stones(b) \subseteq Cells
  BY DEF Stones
<1> QED BY <1>1, CellsFinite, FS_Subset, FS_CardinalityType

LEMMA DrawIsFull ==
    ASSUME NEW b
    PROVE  isDraw(Cardinality(Stones(b))) <=> EmptyCells(b) = {}
<1>1. Stones(b) \subseteq Cells /\ (Stones(b) = Cells <=> EmptyCells(b) = {})
  BY DEF Stones, EmptyCells
<1>2. /\ Cardinality(Stones(b)) \in Nat /\ Cardinality(Cells) \in Nat
      /\ Cardinality(Stones(b)) <= Cardinality(Cells)
      /\ Cardinality(Stones(b)) = Cardinality(Cells) => Stones(b) = Cells
  BY <1>1, CellsFinite, FS_Subset, FS_CardinalityType
<1> QED BY <1>1, <1>2, CellsCount DEF isDraw

LEMMA OneStoneMore ==
    ASSUME NEW b \in Boards, NEW c \in Cells, b[c] = EMPTY,
           NEW player \in {AI_PLAYER, HUMAN_PLAYER}
    PROVE  Cardinality(Stones([b EXCEPT ![c] = player])) = Cardinality(Stones(b)) + 1
<1>1. Stones([b EXCEPT ![c] = player]) = Stones(b) \cup {c} /\ c \notin Stones(b)
  BY DEF Stones, Boards, EMPTY, AI_PLAYER, HUMAN_PLAYER
<1> QED BY <1>1, StonesFinite, FS_AddElement

(* What holds as long as no two moves have overlapped: one thread is at work *)
(* at most, stones are counted, and whoever is to place one has a cell.      *)
Thinking == {"ai", "sleep", "search"}
GoesOn == ~gameOver_ /\ ~isDraw(moveCount_)
Alone ==
    /\ \A t, u \in Thread : pc[t] # "idle" /\ pc[u] # "idle" => t = u
    /\ moveCount_ = Cardinality(Stones(board_))
    /\ \A t \in Thread :
          /\ pc[t] \in Thinking \cup {"place"} => GoesOn
          /\ pc[t] \in {"place", "search"} => cell[t] \in EmptyCells(board_)
    /\ ~crashed
AloneInv == ~overlapped => Alone

LEMMA AloneInit == Init => AloneInv
<1> SUFFICES ASSUME Init PROVE Alone
  BY DEF AloneInv
<1>1. Stones(board_) = {}
  BY DEF Init, Stones
<1> QED BY <1>1, FS_EmptySet DEF Init, Alone, Thinking

(* A move that is taken up alone stays so, and a history of overlaps too.    *)
LEMMA OverlapsGrow ==
    ASSUME TypeOK, [Next]_vars
    PROVE  /\ overlapped => overlapped'
           /\ ~overlapped' => ~overlapped
<1>1. overlaps' = overlaps \/ overlaps' = overlaps + 1
  <2>1. ASSUME NEW t \in Thread, Handle(t) PROVE overlaps' = overlaps
    BY <2>1 DEF Handle, HumanMoveInvalid, HumanMoveValid, HumanMove, GameOver, GameOn, AiMoveReturns,
       AiSleeps, AiSearches, AiMove, AiMoveFaults, history
  <2>2. ASSUME NEW t \in Thread, NEW c, Take(t, c) PROVE overlaps' = overlaps \/ overlaps' = overlaps + 1
    BY <2>2 DEF Take
  <2>3. ASSUME UNCHANGED vars PROVE overlaps' = overlaps
    BY <2>3 DEF vars, history
  <2> QED BY <2>1, <2>2, <2>3 DEF Next
<1> QED BY <1>1, GameAssumption DEF TypeOK, overlapped, GameAssumption

(* The stone of a lone human move goes to its cell.                          *)
LEMMA LoneHumanMove ==
    ASSUME TypeOK, Alone, NEW t \in Thread, HumanMove(t)
    PROVE  /\ cell[t] \in Cells /\ board_[cell[t]] = EMPTY
           /\ Place(cell[t], HUMAN_PLAYER, "human", [board_ EXCEPT ![cell[t]] = HUMAN_PLAYER])
<1>1. pc[t] = "place"
  BY DEF HumanMove, At
<1>2. ~Searching(t)
  BY <1>1 DEF Searching, Alone
<1>3. cell[t] \in EmptyCells(board_)
  BY <1>1 DEF Alone
<1> QED BY <1>2, <1>3 DEF HumanMove, EmptyCells

LEMMA LonePlace ==
    ASSUME TypeOK, Alone, NEW c \in EmptyCells(board_), NEW player \in {AI_PLAYER, HUMAN_PLAYER},
           NEW name, Place(c, player, name, [board_ EXCEPT ![c] = player])
    PROVE  moveCount_' = Cardinality(Stones(board_'))
<1>1. board_ \in Boards /\ c \in Cells /\ board_[c] = EMPTY
  BY DEF TypeOK, Boards, EmptyCells
<1> QED BY <1>1, OneStoneMore DEF Place, Alone

LEMMA AloneStep == TypeOK /\ AloneInv /\ [Next]_vars => AloneInv'
<1> SUFFICES ASSUME TypeOK, AloneInv, [Next]_vars, ~overlapped' PROVE Alone'
  BY DEF AloneInv
<1>0. Alone
  BY OverlapsGrow DEF AloneInv
<1> USE DEF game, history, At, Goto, Done, Thinking
<1>1. ASSUME NEW t \in Thread, NEW c \in Cells \cup {Outside}, Take(t, c) PROVE Alone'
  <2>1. \A u \in Thread : pc[u] = "idle"
    <3>1. overlaps \in Nat /\ ~(overlaps' > 0)
      BY GameAssumption DEF TypeOK, GameAssumption, overlapped
    <3> QED BY <1>1, <3>1 DEF Take
  <2> QED BY <1>0, <1>1, <2>1 DEF Take, Alone, TypeOK
<1>2. ASSUME NEW t \in Thread, HumanMoveInvalid(t) PROVE Alone'
  BY <1>0, <1>2 DEF HumanMoveInvalid, Alone, TypeOK, GoesOn
<1>3. ASSUME NEW t \in Thread, HumanMoveValid(t) PROVE Alone'
  BY <1>0, <1>3 DEF HumanMoveValid, isValidMove, Alone, TypeOK, GoesOn, EmptyCells
<1>4. ASSUME NEW t \in Thread, HumanMove(t) PROVE Alone'
  <2>1. moveCount_' = Cardinality(Stones(board_'))
    BY <1>0, <1>4, LoneHumanMove, LonePlace DEF EmptyCells
  <2>2. \A u \in Thread : pc'[u] # "idle" => u = t
    BY <1>0, <1>4 DEF HumanMove, Alone, TypeOK
  <2> QED BY <1>0, <1>4, <2>1, <2>2 DEF HumanMove, Alone, TypeOK
<1>5. ASSUME NEW t \in Thread, GameOver(t) PROVE Alone'
  BY <1>0, <1>5 DEF GameOver, Judging, Alone, TypeOK, GoesOn
<1>6. ASSUME NEW t \in Thread, GameOn(t) PROVE Alone'
  BY <1>0, <1>6 DEF GameOn, Judging, Alone, TypeOK, GoesOn
<1>7. ASSUME NEW t \in Thread, AiMoveReturns(t) PROVE Alone'
  BY <1>0, <1>7 DEF AiMoveReturns, Alone, TypeOK, GoesOn
<1>8. ASSUME NEW t \in Thread, AiSleeps(t) PROVE Alone'
  BY <1>0, <1>8 DEF AiSleeps, Alone, TypeOK, GoesOn
<1>9. ASSUME NEW t \in Thread, AiSearches(t) PROVE Alone'
  <2>1. GoesOn
    BY <1>0, <1>9 DEF AiSearches, Alone
  <2>2. getBestMove(board_) \in EmptyCells(board_)
    BY <1>0, <2>1, DrawIsFull, BestMove DEF Alone, GoesOn
  <2> QED BY <1>0, <1>9, <2>1, <2>2 DEF AiSearches, Alone, TypeOK, GoesOn
<1>10. ASSUME NEW t \in Thread, AiMove(t) PROVE Alone'
  <2>1. cell[t] \in EmptyCells(board_)
    BY <1>0, <1>10 DEF AiMove, Alone
  <2>2. moveCount_' = Cardinality(Stones(board_'))
    BY <1>0, <1>10, <2>1, LonePlace DEF AiMove
  <2>3. \A u \in Thread : pc'[u] # "idle" => u = t
    BY <1>0, <1>10 DEF AiMove, Alone, TypeOK
  <2> QED BY <1>0, <1>10, <2>2, <2>3 DEF AiMove, Alone, TypeOK
<1>11. ASSUME NEW t \in Thread, AiMoveFaults(t) PROVE Alone'
  <2>1. cell[t] \in Cells /\ cell[t] = Outside
    BY <1>0, <1>11 DEF AiMoveFaults, Alone, EmptyCells
  <2> QED BY <2>1, GameAssumption DEF Cells, Outside, GameAssumption
<1>12. ASSUME UNCHANGED vars PROVE Alone'
  BY <1>0, <1>12 DEF vars, Alone, GoesOn
<1> QED BY <1>1, <1>2, <1>3, <1>4, <1>5, <1>6, <1>7, <1>8, <1>9, <1>10, <1>11, <1>12
        DEF Next, Handle

(* The AI is left without a cell only when moves have overlapped.            *)
THEOREM FaultsOnlyByOverlap == Spec => []FaultNeedsOverlap
<1>1. AloneInv => FaultNeedsOverlap
  BY DEF AloneInv, Alone, FaultNeedsOverlap
<1> QED BY <1>1, TypeInit, TypeStep, AloneInit, AloneStep, PTL DEF Spec

-----------------------------------------------------------------------------
(* checkWin counts stones along a line; module Gomoku looks for a line.      *)
LEMMA AlongSum ==
    ASSUME NEW c \in Int \X Int, NEW d \in Directions, NEW i \in Int, NEW j \in Int
    PROVE  /\ Along(c, d, i) \in Int \X Int
           /\ Along(Along(c, d, i), d, j) = Along(c, d, i + j)
           /\ Along(c, d, 0) = c
           /\ Along(c, d, i) = Along(c, d, j) => i = j
<1>1. CASE d = <<1, 0>>
  BY <1>1 DEF Along
<1>2. CASE d = <<0, 1>>
  BY <1>2 DEF Along
<1>3. CASE d = <<1, 1>>
  BY <1>3 DEF Along
<1>4. CASE d = <<1, -1>>
  BY <1>4 DEF Along
<1> QED BY <1>1, <1>2, <1>3, <1>4 DEF Directions

LEMMA CellsInt == Cells \subseteq Int \X Int
BY GameAssumption DEF Cells, GameAssumption

(* A set of naturals with no gap below its members is 1..n.                  *)
LEMMA Prefix ==
    ASSUME NEW n \in Nat, NEW S \in SUBSET (1..n), \A k \in S : 1..k \subseteq S
    PROVE  Cardinality(S) \in 0..n /\ S = 1..Cardinality(S)
<1>1. CASE S = {}
  BY <1>1, FS_EmptySet
<1>2. CASE S # {}
  <2>1. S \in SUBSET (0..n)
    OBVIOUS
  <2>2. PICK g \in S : \A k \in S : k <= g
    BY <1>2, <2>1, Greatest
  <2>3. g \in 1..n /\ 1..g \subseteq S
    BY <2>2
  <2>4. S \subseteq 1..g
    <3> SUFFICES ASSUME NEW k \in S PROVE k \in 1..g
      OBVIOUS
    <3>1. k \in 1..n /\ k <= g
      BY <2>2
    <3> QED BY <2>3, <3>1
  <2>5. S = 1..g
    BY <2>3, <2>4
  <2>6. 1 \in Int /\ g \in Int
    BY <2>3
  <2>7. Cardinality(1..g) = IF 1 > g THEN 0 ELSE g - 1 + 1
    BY <2>6, FS_Interval, Zenon
  <2>8. Cardinality(1..g) = g
    BY <2>3, <2>7
  <2> QED BY <2>3, <2>5, <2>8
<1> QED BY <1>1, <1>2

(* Run counts the stones that follow each other from the cell on.            *)
LEMMA RunLength ==
    ASSUME NEW b, NEW c, NEW d, NEW sign, NEW player, NEW k \in 0..LineLength - 1
    PROVE  /\ Run(b, c, d, sign, player) \in 0..LineLength - 1
           /\ k <= Run(b, c, d, sign, player)
                <=> \A i \in 1..k : Stone(b, Along(c, d, sign * i), player)
<1> DEFINE S == {m \in 1..LineLength - 1 : \A i \in 1..m : Stone(b, Along(c, d, sign * i), player)}
           r == Run(b, c, d, sign, player)
<1>1. LineLength - 1 \in Nat
  BY GameAssumption DEF GameAssumption
<1>2. S \in SUBSET (1..LineLength - 1) /\ \A m \in S : 1..m \subseteq S
  BY <1>1
<1>3. r = Cardinality(S)
  BY Zenon DEF Run
<1>4. r \in 0..LineLength - 1 /\ S = 1..r
  <2> HIDE DEF S, r
  <2> QED BY <1>1, <1>2, <1>3, Prefix
<1>5. k = 0 \/ (k \in 1..LineLength - 1 /\ (k \in S <=> \A i \in 1..k : Stone(b, Along(c, d, sign * i), player)))
  BY <1>1
<1>6. k \in 1..LineLength - 1 => (k \in S <=> k <= r)
  <2> HIDE DEF S, r
  <2> QED BY <1>1, <1>4
<1>7. CASE k = 0
  <2> HIDE DEF r
  <2>1. 1..k = {}
    BY <1>7
  <2>2. k <= r
    BY <1>7, <1>4, <1>1
  <2> QED BY <2>1, <2>2, <1>4 DEF r
<1> QED BY <1>4, <1>5, <1>6, <1>7

LineFrom(b, e, d, player) == \A k \in 0..LineLength - 1 : Stone(b, Along(e, d, k), player)

LEMMA LineHere ==
    ASSUME NEW b, NEW player
    PROVE  Abstract!HasLine(b, player) <=> \E e \in Cells, d \in Directions : LineFrom(b, e, d, player)
BY DEF Abstract!HasLine, Abstract!Cells, Abstract!Directions, Abstract!Along,
       LineFrom, Stone, Along, Cells, Directions

(* A stone wins, by checkWin, exactly when it makes a line.                  *)
LEMMA CheckWinMakesLine ==
    ASSUME NEW b \in Boards, NEW c \in Cells, NEW player \in {AI_PLAYER, HUMAN_PLAYER},
           checkWin(b, c, player)
    PROVE  Abstract!HasLine([b EXCEPT ![c] = player], player)
<1> DEFINE new == [b EXCEPT ![c] = player]
<1>1. PICK d \in Directions :
         1 + Run(b, c, d, 1, player) + Run(b, c, d, -1, player) >= LineLength
  BY DEF checkWin
<1> DEFINE ahead == Run(b, c, d, 1, player)
           behind == Run(b, c, d, -1, player)
<1>2. LineLength \in Nat \ {0, 1} /\ c \in Int \X Int
  BY GameAssumption, CellsInt DEF GameAssumption
<1>3. 0 \in 0..LineLength - 1
  BY <1>2
<1>4. ahead \in 0..LineLength - 1 /\ behind \in 0..LineLength - 1
  BY <1>3, RunLength
<1>5. \A i \in 1..ahead : Stone(b, Along(c, d, 1 * i), player)
  <2> HIDE DEF ahead
  <2>1. ahead <= Run(b, c, d, 1, player)
    BY <1>4 DEF ahead
  <2> QED BY <1>4, <2>1, RunLength
<1>6. \A i \in 1..behind : Stone(b, Along(c, d, (-1) * i), player)
  <2> HIDE DEF behind
  <2>1. behind <= Run(b, c, d, -1, player)
    BY <1>4 DEF behind
  <2> QED BY <1>4, <2>1, RunLength
<1>7. 1 + ahead + behind >= LineLength
  BY <1>1
<1> HIDE DEF ahead, behind
<1>8. \A j \in -behind..ahead : Stone(new, Along(c, d, j), player)
  <2> TAKE j \in -behind..ahead
  <2>1. \A x : Stone(b, x, player) => Stone(new, x, player)
    BY DEF Stone, Boards
  <2>2. CASE j = 0
    BY <2>2, <1>2, AlongSum DEF Stone, Boards
  <2>3. CASE j > 0
    <3>1. j \in 1..ahead /\ 1 * j = j
      BY <2>3, <1>4, <1>2
    <3> QED BY <3>1, <1>5, <2>1
  <2>4. CASE j < 0
    <3>1. -j \in 1..behind /\ (-1) * (-j) = j
      BY <2>4, <1>4, <1>2
    <3> QED BY <3>1, <1>6, <2>1
  <2> QED BY <2>2, <2>3, <2>4, <1>4, <1>2
<1>9. Along(c, d, -behind) \in Cells
  <2>1. -behind \in -behind..ahead
    BY <1>4, <1>2
  <2> QED BY <2>1, <1>8 DEF Stone
<1>10. LineFrom(new, Along(c, d, -behind), d, player)
  <2> SUFFICES ASSUME NEW k \in 0..LineLength - 1
               PROVE  Stone(new, Along(Along(c, d, -behind), d, k), player)
    BY DEF LineFrom
  <2>1. -behind + k \in -behind..ahead /\ -behind \in Int /\ k \in Int
    BY <1>2, <1>4, <1>7
  <2>2. Along(Along(c, d, -behind), d, k) = Along(c, d, -behind + k)
    BY <2>1, <1>2, AlongSum
  <2> QED BY <2>1, <2>2, <1>8
<1> QED BY <1>9, <1>10, LineHere

LEMMA LineMeansCheckWin ==
    ASSUME NEW b \in Boards, NEW c \in Cells, NEW player \in {AI_PLAYER, HUMAN_PLAYER},
           ~Abstract!HasLine(b, player),
           Abstract!HasLine([b EXCEPT ![c] = player], player)
    PROVE  checkWin(b, c, player)
<1> DEFINE new == [b EXCEPT ![c] = player]
<1>1. PICK e \in Cells, d \in Directions : LineFrom(new, e, d, player)
  BY LineHere
<1>2. LineLength \in Nat \ {0, 1} /\ c \in Int \X Int /\ e \in Int \X Int
  BY GameAssumption, CellsInt DEF GameAssumption
<1>3. PICK j \in 0..LineLength - 1 : Along(e, d, j) = c
  <2>1. \A x : Stone(new, x, player) /\ x # c => Stone(b, x, player)
    BY DEF Stone, Boards
  <2> QED BY <1>1, <2>1, LineHere DEF LineFrom
<1>4. \A i \in Int : i + j \in 0..LineLength - 1 /\ i # 0 => Stone(b, Along(c, d, i), player)
  <2> SUFFICES ASSUME NEW i \in Int, i + j \in 0..LineLength - 1, i # 0
               PROVE  Stone(b, Along(c, d, i), player)
    OBVIOUS
  <2>1. j \in Int /\ j + i = i + j /\ i + j \in Int /\ i + j # j
    BY <1>2
  <2>2. Along(c, d, i) = Along(e, d, i + j)
    BY <2>1, <1>2, <1>3, AlongSum
  <2>3. Along(c, d, i) # c
    BY <2>1, <2>2, <1>2, <1>3, AlongSum
  <2>4. Stone(new, Along(c, d, i), player)
    BY <1>1, <2>2 DEF LineFrom
  <2> QED BY <2>3, <2>4 DEF Stone, Boards
<1>5. LineLength - 1 - j <= Run(b, c, d, 1, player)
  <2>1. LineLength - 1 - j \in 0..LineLength - 1
    BY <1>2
  <2>2. \A i \in 1..LineLength - 1 - j : 1 * i \in Int /\ 1 * i # 0 /\ 1 * i + j \in 0..LineLength - 1
    BY <1>2
  <2> QED BY <2>1, <2>2, <1>4, RunLength
<1>6. j <= Run(b, c, d, -1, player)
  <2>1. \A i \in 1..j : (-1) * i \in Int /\ (-1) * i # 0 /\ (-1) * i + j \in 0..LineLength - 1
    BY <1>2
  <2> QED BY <2>1, <1>4, RunLength
<1>7. /\ Run(b, c, d, 1, player) \in 0..LineLength - 1
      /\ Run(b, c, d, -1, player) \in 0..LineLength - 1
  BY RunLength
<1>8. 1 + Run(b, c, d, 1, player) + Run(b, c, d, -1, player) >= LineLength
  BY <1>2, <1>5, <1>6, <1>7
<1> QED BY <1>8 DEF checkWin

-----------------------------------------------------------------------------
(* While the game goes on nobody has a line, so that each stone's checkWin   *)
(* is the whole truth.                                                       *)
NoLine ==
    ~overlapped /\ ~gameOver_ =>
        ~Abstract!HasLine(board_, HUMAN_PLAYER) /\ ~Abstract!HasLine(board_, AI_PLAYER)

LEMMA NoLineInit == Init => NoLine
<1> SUFFICES ASSUME Init, NEW player \in {AI_PLAYER, HUMAN_PLAYER}
             PROVE  ~Abstract!HasLine(board_, player)
  BY DEF NoLine
<1>1. 0 \in 0..LineLength - 1
  BY GameAssumption DEF GameAssumption
<1>2. \A x : ~Stone(board_, x, player)
  BY DEF Stone, Init, EMPTY, AI_PLAYER, HUMAN_PLAYER
<1> QED BY <1>1, <1>2, LineHere DEF LineFrom

(* A stone gives the other player no line.                                   *)
LEMMA OthersLine ==
    ASSUME NEW b \in Boards, NEW c \in Cells,
           NEW player \in {AI_PLAYER, HUMAN_PLAYER}, NEW other \in {AI_PLAYER, HUMAN_PLAYER},
           other # player, ~Abstract!HasLine(b, other)
    PROVE  ~Abstract!HasLine([b EXCEPT ![c] = player], other)
<1>1. \A x : Stone([b EXCEPT ![c] = player], x, other) => Stone(b, x, other)
  BY DEF Stone, Boards
<1> QED BY <1>1, LineHere DEF LineFrom

(* What a stone on an empty cell does while nobody has a line.               *)
LEMMA StonePlaced ==
    ASSUME TypeOK, Alone, NoLine, ~overlapped, GoesOn,
           NEW c \in EmptyCells(board_),
           NEW player \in {AI_PLAYER, HUMAN_PLAYER}, NEW name,
           Place(c, player, name, [board_ EXCEPT ![c] = player])
    PROVE  /\ board_' = [board_ EXCEPT ![c] = player]
           /\ gameOver_' <=> Abstract!HasLine(board_', player)
           /\ isDraw(moveCount_)' <=> Abstract!IsFull(board_')
           /\ ~gameOver_' => \A p \in {AI_PLAYER, HUMAN_PLAYER} : ~Abstract!HasLine(board_', p)
<1>1. board_ \in Boards /\ c \in Cells
  BY DEF TypeOK, Boards, EmptyCells
<1>2. board_' = [board_ EXCEPT ![c] = player]
  BY DEF Place
<1>3. ~gameOver_ /\ \A p \in {AI_PLAYER, HUMAN_PLAYER} : ~Abstract!HasLine(board_, p)
  BY DEF NoLine, GoesOn
<1>4. checkWin(board_, c, player) <=> Abstract!HasLine(board_', player)
  BY <1>1, <1>2, <1>3, CheckWinMakesLine, LineMeansCheckWin
<1>5. gameOver_' <=> checkWin(board_, c, player)
  <2>1. CASE checkWin(board_, c, player)
    <3>1. gameOver_' = TRUE
      BY <2>1 DEF Place
    <3> QED BY <2>1, <3>1, Zenon
  <2>2. CASE ~checkWin(board_, c, player)
    <3>1. gameOver_' = gameOver_
      BY <2>2 DEF Place
    <3> QED BY <2>2, <3>1, <1>3, Zenon
  <2> QED BY <2>1, <2>2
<1>6. isDraw(moveCount_)' <=> Abstract!IsFull(board_')
  <2>1. moveCount_' = Cardinality(Stones(board_'))
    BY LonePlace
  <2>2. isDraw(moveCount_)' <=> isDraw(moveCount_')
    BY DEF isDraw
  <2>3. isDraw(moveCount_') <=> EmptyCells(board_') = {}
    BY <2>1, DrawIsFull
  <2>4. EmptyCells(board_') = {} <=> Abstract!IsFull(board_')
    BY DEF EmptyCells, Abstract!IsFull, Abstract!Cells, Cells
  <2> QED BY <2>2, <2>3, <2>4, Zenon
<1>7. ASSUME NEW p \in {AI_PLAYER, HUMAN_PLAYER}, p # player PROVE ~Abstract!HasLine(board_', p)
  <2>1. ~Abstract!HasLine(board_, p)
    BY <1>3
  <2>2. ~Abstract!HasLine([board_ EXCEPT ![c] = player], p)
    BY <1>1, <1>7, <2>1, OthersLine
  <2> QED BY <1>2, <2>2
<1> QED BY <1>2, <1>4, <1>5, <1>6, <1>7, Zenon

LEMMA NoLineStep == TypeOK /\ AloneInv /\ NoLine /\ [Next]_vars => NoLine'
<1> SUFFICES ASSUME TypeOK, AloneInv, NoLine, [Next]_vars, ~overlapped', ~gameOver_'
             PROVE  \A p \in {AI_PLAYER, HUMAN_PLAYER} : ~Abstract!HasLine(board_', p)
  BY DEF NoLine
<1> DEFINE Goal == \A p \in {AI_PLAYER, HUMAN_PLAYER} : ~Abstract!HasLine(board_', p)
<1>1. Alone /\ ~overlapped
  BY OverlapsGrow DEF AloneInv
<1>2. UNCHANGED <<board_, gameOver_>> => Goal
  BY <1>1 DEF NoLine
<1>3. ASSUME NEW t \in Thread, HumanMove(t) PROVE Goal
  <2>1. cell[t] \in EmptyCells(board_) /\ GoesOn
    BY <1>1, <1>3 DEF Alone, HumanMove, At
  <2> QED BY <1>1, <1>3, <2>1, LoneHumanMove, StonePlaced
<1>4. ASSUME NEW t \in Thread, AiMove(t) PROVE Goal
  <2>1. cell[t] \in EmptyCells(board_) /\ GoesOn
    BY <1>1, <1>4 DEF Alone, AiMove, At, Thinking
  <2> QED BY <1>1, <1>4, <2>1, StonePlaced DEF AiMove
<1>5. ASSUME NEW t \in Thread, Handle(t), ~HumanMove(t), ~AiMove(t)
      PROVE  UNCHANGED <<board_, gameOver_>>
  BY <1>5 DEF Handle, HumanMoveInvalid, HumanMoveValid, GameOver, GameOn, AiMoveReturns, AiSleeps,
     AiSearches, AiMoveFaults, game
<1>6. ASSUME NEW t \in Thread, NEW c, Take(t, c) PROVE UNCHANGED <<board_, gameOver_>>
  BY <1>6 DEF Take, game
<1>7. ASSUME UNCHANGED vars PROVE UNCHANGED <<board_, gameOver_>>
  BY <1>7 DEF vars, game
<1> HIDE DEF Goal
<1>8. Goal
  BY <1>2, <1>3, <1>4, <1>5, <1>6, <1>7 DEF Next
<1> QED BY <1>8 DEF Goal

-----------------------------------------------------------------------------
(* The refinement: a step of a lone move is a step of module Gomoku.         *)
LEMMA GomokuInit == Init => Abstract!Init
<1> SUFFICES ASSUME Init PROVE Abstract!Init
  OBVIOUS
<1>1. ~isDraw(moveCount_)
  BY GameAssumption DEF Init, isDraw, GameAssumption
<1>2. Turn = HUMAN_PLAYER
  BY <1>1 DEF Init, Turn
<1> QED BY <1>2 DEF Init, Abstract!Init, Abstract!Cells, Cells

AiToMove == \E t \in Thread : pc[t] \in {"judgeHuman", "ai", "sleep", "search"}

LEMMA TurnIs ==
    /\ Turn = IF gameOver_ \/ isDraw(moveCount_) THEN EMPTY ELSE IF AiToMove THEN AI_PLAYER ELSE HUMAN_PLAYER
    /\ Turn' = IF gameOver_' \/ isDraw(moveCount_)' THEN EMPTY ELSE IF AiToMove' THEN AI_PLAYER ELSE HUMAN_PLAYER
BY Zenon DEF Turn, AiToMove

LEMMA GomokuStep ==
    TypeOK /\ AloneInv /\ NoLine /\ AloneInv' /\ [Next]_vars
        => [Abstract!Next \/ overlapped']_<<board_, Turn>>
<1> SUFFICES ASSUME TypeOK, AloneInv, NoLine, AloneInv', [Next]_vars, ~overlapped'
             PROVE  Abstract!Next \/ UNCHANGED <<board_, Turn>>
  OBVIOUS
<1>0. Alone /\ ~overlapped /\ Alone'
  BY OverlapsGrow DEF AloneInv
<1>1. ASSUME NEW t \in Thread, HumanMove(t) PROVE Abstract!Next
  <2>1. cell[t] \in EmptyCells(board_) /\ GoesOn /\ pc[t] = "place" /\ pc'[t] = "judgeHuman"
    BY <1>0, <1>1 DEF Alone, HumanMove, At, Goto, TypeOK
  <2>2. /\ board_' = [board_ EXCEPT ![cell[t]] = HUMAN_PLAYER]
        /\ gameOver_' <=> Abstract!HasLine(board_', HUMAN_PLAYER)
        /\ isDraw(moveCount_)' <=> Abstract!IsFull(board_')
    BY <1>0, <1>1, <2>1, LoneHumanMove, StonePlaced
  <2>3. ~AiToMove /\ AiToMove'
    BY <1>0, <2>1 DEF Alone, AiToMove
  <2>4. /\ Turn = HUMAN_PLAYER
        /\ Turn' = IF Abstract!HasLine(board_', HUMAN_PLAYER) \/ Abstract!IsFull(board_') THEN EMPTY ELSE AI_PLAYER
    BY <2>1, <2>2, <2>3, TurnIs, Zenon DEF GoesOn
  <2>5. cell[t] \in Abstract!Cells /\ board_[cell[t]] = EMPTY
    BY <2>1 DEF EmptyCells, Cells, Abstract!Cells
  <2> QED BY <2>2, <2>4, <2>5 DEF Abstract!Next, Abstract!Put
<1>2. ASSUME NEW t \in Thread, AiMove(t) PROVE Abstract!Next
  <2>1. cell[t] \in EmptyCells(board_) /\ GoesOn /\ pc[t] = "search" /\ pc'[t] = "judgeAi"
    BY <1>0, <1>2 DEF Alone, AiMove, At, Goto, TypeOK, Thinking
  <2>2. /\ board_' = [board_ EXCEPT ![cell[t]] = AI_PLAYER]
        /\ gameOver_' <=> Abstract!HasLine(board_', AI_PLAYER)
        /\ isDraw(moveCount_)' <=> Abstract!IsFull(board_')
    BY <1>0, <1>2, <2>1, StonePlaced DEF AiMove
  <2>3. AiToMove /\ ~AiToMove'
    BY <1>0, <2>1 DEF Alone, AiToMove
  <2>4. /\ Turn = AI_PLAYER
        /\ Turn' = IF Abstract!HasLine(board_', AI_PLAYER) \/ Abstract!IsFull(board_') THEN EMPTY ELSE HUMAN_PLAYER
    BY <2>1, <2>2, <2>3, TurnIs, Zenon DEF GoesOn
  <2>5. cell[t] \in Abstract!Cells /\ board_[cell[t]] = EMPTY
    BY <2>1 DEF EmptyCells, Cells, Abstract!Cells
  <2> QED BY <2>2, <2>4, <2>5 DEF Abstract!Next, Abstract!Put
<1>3. ASSUME UNCHANGED game, ~GoesOn \/ (AiToMove' <=> AiToMove)
      PROVE  UNCHANGED <<board_, Turn>>
  <2>1. board_' = board_ /\ gameOver_' = gameOver_ /\ (isDraw(moveCount_)' <=> isDraw(moveCount_))
    BY <1>3 DEF game, isDraw
  <2> QED BY <1>3, <2>1, TurnIs, Zenon DEF GoesOn
<1>4. ASSUME NEW t \in Thread, NEW c, Take(t, c) PROVE UNCHANGED <<board_, Turn>>
  <2>1. \A u \in Thread : pc[u] = "idle"
    <3>1. overlaps \in Nat /\ ~(overlaps' > 0)
      BY GameAssumption DEF GameAssumption, overlapped, TypeOK
    <3> QED BY <1>4, <3>1 DEF Take
  <2>2. UNCHANGED game /\ (AiToMove' <=> AiToMove)
    BY <1>4, <2>1 DEF Take, At, Goto, AiToMove, TypeOK
  <2> QED BY <2>2, <1>3
<1> DEFINE Same == UNCHANGED game /\ (~GoesOn \/ (AiToMove' <=> AiToMove))
<1>5. ASSUME NEW t \in Thread, Handle(t), ~HumanMove(t), ~AiMove(t) PROVE Same
  <2> USE DEF At, Goto, AiToMove, TypeOK
  <2>1. HumanMoveInvalid(t) => Same
    BY <1>0 DEF HumanMoveInvalid, Alone
  <2>2. HumanMoveValid(t) => Same
    BY <1>0 DEF HumanMoveValid, Alone
  <2>3. GameOver(t) => Same
    BY DEF GameOver, GoesOn
  <2>4. GameOn(t) => Same
    BY <1>0 DEF GameOn, Judging, Alone
  <2>5. AiMoveReturns(t) => Same
    BY DEF AiMoveReturns, GoesOn
  <2>6. AiSleeps(t) => Same
    BY DEF AiSleeps
  <2>7. AiSearches(t) => Same
    BY DEF AiSearches
  <2>8. ~AiMoveFaults(t)
    BY <1>0 DEF AiMoveFaults, Alone
  <2> QED BY <1>5, <2>1, <2>2, <2>3, <2>4, <2>5, <2>6, <2>7, <2>8 DEF Handle
<1>6. ASSUME UNCHANGED vars PROVE Same
  BY <1>6 DEF vars, AiToMove
<1> QED BY <1>1, <1>2, <1>3, <1>4, <1>5, <1>6 DEF Next

(* Moves that do not overlap play the game of module Gomoku.                 *)
THEOREM PlaysGomokuCorrect == Spec => PlaysGomoku
<1>1. Spec => Abstract!Init
  BY GomokuInit DEF Spec
<1>2. Spec => [][Abstract!Next \/ overlapped']_<<board_, Turn>>
  BY TypeInit, TypeStep, AloneInit, AloneStep, NoLineInit, NoLineStep, GomokuStep, PTL DEF Spec
<1> QED BY <1>1, <1>2 DEF PlaysGomoku

-----------------------------------------------------------------------------
(* The defence.                                                              *)
LEMMA WinsShrink ==
    ASSUME NEW b \in Boards, NEW c \in Cells
    PROVE  Wins([b EXCEPT ![c] = AI_PLAYER], HUMAN_PLAYER) \subseteq Wins(b, HUMAN_PLAYER) \ {c}
<1> DEFINE new == [b EXCEPT ![c] = AI_PLAYER]
<1>1. \A x : Stone(new, x, HUMAN_PLAYER) => Stone(b, x, HUMAN_PLAYER)
  BY DEF Stone, Boards, AI_PLAYER, HUMAN_PLAYER
<1>2. ASSUME NEW e, NEW d, NEW sign
      PROVE  /\ Run(new, e, d, sign, HUMAN_PLAYER) \in 0..LineLength - 1
             /\ Run(b, e, d, sign, HUMAN_PLAYER) \in 0..LineLength - 1
             /\ Run(new, e, d, sign, HUMAN_PLAYER) <= Run(b, e, d, sign, HUMAN_PLAYER)
  <2> DEFINE r == Run(new, e, d, sign, HUMAN_PLAYER)
  <2> HIDE DEF new
  <2>1. 0 \in 0..LineLength - 1
    BY GameAssumption DEF GameAssumption
  <2>2. r \in 0..LineLength - 1 /\ Run(b, e, d, sign, HUMAN_PLAYER) \in 0..LineLength - 1
    BY <2>1, RunLength
  <2>3. r <= Run(new, e, d, sign, HUMAN_PLAYER)
    BY <2>2
  <2> HIDE DEF r
  <2>4. \A i \in 1..r : Stone(new, Along(e, d, sign * i), HUMAN_PLAYER)
    BY <2>2, <2>3, RunLength
  <2>5. r <= Run(b, e, d, sign, HUMAN_PLAYER)
    BY <1>1, <2>2, <2>4, RunLength
  <2> QED BY <2>2, <2>5 DEF r
<1>3. ASSUME NEW e, checkWin(new, e, HUMAN_PLAYER) PROVE checkWin(b, e, HUMAN_PLAYER)
  <2> HIDE DEF new
  <2>1. PICK d \in Directions :
           1 + Run(new, e, d, 1, HUMAN_PLAYER) + Run(new, e, d, -1, HUMAN_PLAYER) >= LineLength
    BY <1>3 DEF checkWin
  <2>2. 1 + Run(b, e, d, 1, HUMAN_PLAYER) + Run(b, e, d, -1, HUMAN_PLAYER) >= LineLength
    BY <1>2, <2>1, GameAssumption DEF GameAssumption
  <2> QED BY <2>2 DEF checkWin
<1>4. EmptyCells(new) \subseteq EmptyCells(b) \ {c}
  BY DEF EmptyCells, Boards, EMPTY, AI_PLAYER
<1> HIDE DEF new
<1>5. Wins(new, HUMAN_PLAYER) \subseteq Wins(b, HUMAN_PLAYER) \ {c}
  BY <1>3, <1>4 DEF Wins
<1> QED BY <1>5 DEF new

LEMMA NoStoneNoWin ==
    ASSUME NEW b, \A x : ~Stone(b, x, HUMAN_PLAYER)
    PROVE  Wins(b, HUMAN_PLAYER) = {}
<1> SUFFICES ASSUME NEW e, checkWin(b, e, HUMAN_PLAYER) PROVE FALSE
  BY DEF Wins
<1>1. PICK d \in Directions :
         1 + Run(b, e, d, 1, HUMAN_PLAYER) + Run(b, e, d, -1, HUMAN_PLAYER) >= LineLength
  BY DEF checkWin
<1>2. ASSUME NEW sign PROVE Run(b, e, d, sign, HUMAN_PLAYER) = 0
  <2>1. 1 \in 0..LineLength - 1 /\ 1 \in 1..1
    BY GameAssumption DEF GameAssumption
  <2>2. ~(1 <= Run(b, e, d, sign, HUMAN_PLAYER)) /\ Run(b, e, d, sign, HUMAN_PLAYER) \in 0..LineLength - 1
    BY <2>1, RunLength
  <2> QED BY <2>2, GameAssumption DEF GameAssumption
<1> QED BY <1>1, <1>2, GameAssumption DEF GameAssumption

(* What a lone AI move leaves the human: the cell it chose decided the game  *)
(* if one did, and when the human is to move, cells that win come in pairs.  *)
Defended ==
    /\ winner_ = "human" => gameOver_ /\ openings >= 2
    /\ GoesOn /\ ~AiToMove => Wins(board_, HUMAN_PLAYER) = {} \/ openings >= 2
    /\ \A t \in Thread : pc[t] = "search" =>
          /\ openings = Cardinality(Wins(board_, HUMAN_PLAYER))
          /\ Decisive(board_) # {} => cell[t] \in Decisive(board_)
DefendedInv == ~overlapped => Defended

LEMMA DefendedInit == Init => DefendedInv
<1> SUFFICES ASSUME Init PROVE Defended
  BY DEF DefendedInv
<1>1. \A x : ~Stone(board_, x, HUMAN_PLAYER)
  BY DEF Init, Stone, EMPTY, HUMAN_PLAYER
<1> QED BY <1>1, NoStoneNoWin DEF Init, Defended

(* The AI's stone, where it does not win, takes a cell that did.             *)
LEMMA DefenceHolds ==
    ASSUME TypeOK, NEW c \in EmptyCells(board_), ~checkWin(board_, c, AI_PLAYER),
           Decisive(board_) # {} => c \in Decisive(board_)
    PROVE  \/ Wins([board_ EXCEPT ![c] = AI_PLAYER], HUMAN_PLAYER) = {}
           \/ Cardinality(Wins(board_, HUMAN_PLAYER)) >= 2
<1> DEFINE now == Wins(board_, HUMAN_PLAYER)
           then == Wins([board_ EXCEPT ![c] = AI_PLAYER], HUMAN_PLAYER)
<1> SUFFICES ASSUME then # {} PROVE Cardinality(now) >= 2
  OBVIOUS
<1>1. board_ \in Boards /\ c \in Cells
  BY DEF TypeOK, Boards, EmptyCells
<1>2. then \subseteq now \ {c}
  BY <1>1, WinsShrink
<1>3. c \in now
  <2>1. Decisive(board_) # {}
    BY <1>2 DEF Decisive
  <2> QED BY <2>1 DEF Decisive, Wins
<1>4. IsFiniteSet(now)
  BY WinsFinite
<1> HIDE DEF now, then
<1>5. PICK e \in then : TRUE
  OBVIOUS
<1>6. {c, e} \subseteq now /\ c # e
  BY <1>2, <1>3, <1>5
<1>7. Cardinality({c, e}) = 2
  <2>1. {c, e} = {c} \cup {e} /\ e \notin {c}
    BY <1>6
  <2>2. IsFiniteSet({c}) /\ Cardinality({c}) = 1
    BY FS_Singleton
  <2> QED BY <2>1, <2>2, FS_AddElement
<1>8. Cardinality({c, e}) <= Cardinality(now) /\ Cardinality(now) \in Nat
  BY <1>4, <1>6, FS_Subset, FS_CardinalityType
<1> QED BY <1>7, <1>8

LEMMA DefendedStep == TypeOK /\ AloneInv /\ DefendedInv /\ AloneInv' /\ [Next]_vars => DefendedInv'
<1> SUFFICES ASSUME TypeOK, AloneInv, DefendedInv, AloneInv', [Next]_vars, ~overlapped' PROVE Defended'
  BY DEF DefendedInv
<1>0. Alone /\ Alone' /\ Defended
  BY OverlapsGrow DEF AloneInv, DefendedInv
<1> USE DEF At, Goto, Done, game, history
<1>1. ASSUME NEW t \in Thread, HumanMove(t) PROVE Defended'
  <2>1. cell[t] \in EmptyCells(board_) /\ GoesOn /\ pc'[t] = "judgeHuman" /\ openings' = openings
    BY <1>0, <1>1 DEF Alone, HumanMove, TypeOK
  <2>2. ~AiToMove /\ AiToMove'
    BY <1>0, <1>1, <2>1 DEF Alone, AiToMove, HumanMove
  <2>3. \A u \in Thread : pc'[u] # "search"
    BY <1>0, <2>1 DEF Alone
  <2>4. winner_' = "human" => gameOver_' /\ openings >= 2
    <3>1. CASE checkWin(board_, cell[t], HUMAN_PLAYER)
      <4>1. Wins(board_, HUMAN_PLAYER) # {}
        BY <2>1, <3>1 DEF Wins
      <4>2. openings >= 2
        BY <4>1, <2>1, <2>2, <1>0 DEF Defended
      <4>3. gameOver_' = TRUE
        BY <3>1, <1>0, <1>1, LoneHumanMove DEF Place
      <4> QED BY <4>2, <4>3, Zenon
    <3>2. CASE ~checkWin(board_, cell[t], HUMAN_PLAYER)
      <4>1. gameOver_' = gameOver_ /\ winner_' = winner_
        BY <3>2, <1>0, <1>1, LoneHumanMove DEF Place
      <4> QED BY <4>1, <1>0, Zenon DEF Defended
    <3> QED BY <3>1, <3>2
  <2> QED BY <2>1, <2>2, <2>3, <2>4 DEF Defended
<1>2. ASSUME NEW t \in Thread, AiMove(t) PROVE Defended'
  <2>1. cell[t] \in EmptyCells(board_) /\ GoesOn /\ pc'[t] = "judgeAi" /\ openings' = openings
    BY <1>0, <1>2 DEF Alone, AiMove, TypeOK, Thinking
  <2>2. \A u \in Thread : pc'[u] # "search"
    BY <1>0, <2>1 DEF Alone
  <2>3. /\ openings = Cardinality(Wins(board_, HUMAN_PLAYER))
        /\ Decisive(board_) # {} => cell[t] \in Decisive(board_)
    BY <1>0, <1>2 DEF AiMove, Defended
  <2>4. Place(cell[t], AI_PLAYER, "ai", [board_ EXCEPT ![cell[t]] = AI_PLAYER])
    BY <1>2 DEF AiMove
  <2>5. CASE checkWin(board_, cell[t], AI_PLAYER)
    <3>1. gameOver_' = TRUE /\ winner_' = "ai"
      BY <2>4, <2>5 DEF Place
    <3>2. ~GoesOn'
      BY <3>1, Zenon DEF GoesOn
    <3> QED BY <3>1, <3>2, <2>2 DEF Defended
  <2>6. CASE ~checkWin(board_, cell[t], AI_PLAYER)
    <3>1. gameOver_' = gameOver_ /\ winner_' = winner_ /\ board_' = [board_ EXCEPT ![cell[t]] = AI_PLAYER]
      BY <2>4, <2>6 DEF Place
    <3>2. winner_' = "human" => gameOver_' /\ openings >= 2
      BY <3>1, <1>0, Zenon DEF Defended
    <3>3. Wins(board_', HUMAN_PLAYER) = {} \/ openings >= 2
      BY <2>1, <2>3, <2>6, <3>1, DefenceHolds
    <3> QED BY <3>2, <3>3, <2>1, <2>2 DEF Defended
  <2> QED BY <2>5, <2>6
<1>3. ASSUME NEW t \in Thread, AiSearches(t) PROVE Defended'
  <2>1. /\ UNCHANGED game /\ pc'[t] = "search" /\ GoesOn
        /\ cell'[t] = getBestMove(board_) /\ openings' = Cardinality(Wins(board_, HUMAN_PLAYER))
    BY <1>0, <1>3 DEF AiSearches, Alone, TypeOK, Thinking
  <2>2. winner_ # "human"
    BY <2>1, <1>0 DEF Defended, GoesOn
  <2>3. \A u \in Thread : pc'[u] = "search" => u = t
    BY <1>0, <2>1 DEF Alone
  <2>4. AiToMove'
    BY <2>1 DEF AiToMove
  <2>5. Decisive(board_) # {} => cell'[t] \in Decisive(board_)
    BY <2>1, BestMove
  <2> QED BY <2>1, <2>2, <2>3, <2>4, <2>5 DEF Defended
<1>4. ASSUME UNCHANGED <<game, openings>>,
             GoesOn /\ ~AiToMove' => ~AiToMove,
             \A t \in Thread : pc'[t] = "search" => pc[t] = "search" /\ cell'[t] = cell[t]
      PROVE  Defended'
  <2>1. gameOver_' = gameOver_ /\ winner_' = winner_ /\ board_' = board_ /\ openings' = openings
    BY <1>4
  <2>2. GoesOn' <=> GoesOn
    BY <1>4 DEF GoesOn, isDraw
  <2>3. winner_' = "human" => gameOver_' /\ openings' >= 2
    BY <2>1, <1>0, Zenon DEF Defended
  <2> QED BY <1>4, <2>1, <2>2, <2>3, <1>0 DEF Defended
<1> DEFINE Rest == /\ UNCHANGED <<game, openings>>
                   /\ GoesOn /\ ~AiToMove' => ~AiToMove
                   /\ \A t \in Thread : pc'[t] = "search" => pc[t] = "search" /\ cell'[t] = cell[t]
<1>5. ASSUME NEW t \in Thread, NEW c, Take(t, c) PROVE Rest
  BY <1>5 DEF Take, AiToMove, TypeOK
<1>6. ASSUME NEW t \in Thread, Handle(t), ~HumanMove(t), ~AiMove(t), ~AiSearches(t) PROVE Rest
  <2> USE DEF AiToMove, TypeOK
  <2>1. HumanMoveInvalid(t) => Rest
    BY DEF HumanMoveInvalid
  <2>2. HumanMoveValid(t) => Rest
    BY DEF HumanMoveValid
  <2>3. GameOver(t) => Rest
    BY DEF GameOver, GoesOn
  <2>4. GameOn(t) => Rest
    BY <1>0 DEF GameOn, Judging, Alone
  <2>5. AiMoveReturns(t) => Rest
    BY DEF AiMoveReturns, GoesOn
  <2>6. AiSleeps(t) => Rest
    BY DEF AiSleeps
  <2>7. ~AiMoveFaults(t)
    BY <1>0 DEF AiMoveFaults, Alone
  <2> QED BY <1>6, <2>1, <2>2, <2>3, <2>4, <2>5, <2>6, <2>7 DEF Handle
<1>7. ASSUME UNCHANGED vars PROVE Rest
  BY <1>7 DEF vars, AiToMove
<1>8. Rest => Defended'
  BY <1>4
<1> HIDE DEF Rest
<1> QED BY <1>1, <1>2, <1>3, <1>5, <1>6, <1>7, <1>8 DEF Next

(* A human whose moves do not overlap wins only with two cells open at once. *)
THEOREM WinOnlyByFork == Spec => []WinNeedsFork
<1>1. DefendedInv => WinNeedsFork
  BY DEF DefendedInv, Defended, WinNeedsFork
<1> QED
  BY <1>1, TypeInit, TypeStep, AloneInit, AloneStep, DefendedInit, DefendedStep, PTL DEF Spec
=============================================================================
