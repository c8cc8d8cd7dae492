--------------------------- MODULE GomokuApp_proofs ---------------------------
(***************************************************************************)
(* Proofs about the application for any threads, browsers and users: its   *)
(* types, that a logout ends the session, that a user who counts as online *)
(* has one unless one of the named things went wrong, and that a finished  *)
(* game is removed.                                                        *)
(***************************************************************************)
EXTENDS GomokuApp, FiniteSetTheorems, TLAPS

LoginPcs == {"setUser", "setLoggedIn", "check", "admit", "countOnline", "loadMax", "storeMax"}
LogoutPcs == {"clear", "destroy", "eraseOnline"}
MovePcs == {"find", "create", "bind", "human", "judgeHuman", "judgeAi", "think", "aiMove"}
Pcs == LoginPcs \cup LogoutPcs \cup MovePcs \cup
       {"idle", "load", "save", "checkLogin", "readUser", "eraseGame", "newGame"}
Games == Pointers \cup {"none"}
Works ==
    [pc : Pcs, op : Operations, browser : Browser \cup {None}, sid : Ids \cup {None},
     user : User \cup {None}, isNew : BOOLEAN, count : 0..Cardinality(User),
     game : Games, this : Games]

(* What a handler knows where it is.                                         *)
Known(w) ==
    /\ w.op = "login" => w.user \in User
    /\ w.pc \in LoginPcs => w.op = "login"
    /\ w.pc \in LogoutPcs => w.op = "logout" /\ w.user \in User
    /\ w.pc = "newGame" => w.op = "start" /\ w.user \in User
    /\ w.pc \in MovePcs => w.op = "move" /\ w.user \in User
    /\ w.pc = "eraseGame" => w.op \in {"logout", "move"} /\ w.user \in User
    /\ w.pc = "readUser" => w.op \in {"logout", "start", "move"}
    /\ w.pc = "checkLogin" => w.op \in {"visit", "start", "move"}

Made == 1..nextId - 1
Loading == {t \in Thread : thread[t].pc = "load"}

ThreadInv ==
    /\ thread \in [Thread -> Works]
    /\ \A t \in Thread : Known(thread[t])
HeldInv ==
    \A t \in Thread : thread[t].pc \notin {"idle", "load"} => sid(t) \in Made \ expired
StoreInv ==
    /\ nextId \in Nat \ {0}
    /\ sessions \subseteq Made /\ expired \subseteq sessions
    /\ data \in [Ids -> [user : User \cup {None}, isLoggedIn : BOOLEAN]]
    /\ cookie \in [Browser -> Made \cup {None}]
CountInv == requests \in 0..MaxRequests /\ nextId + Cardinality(Loading) <= requests + 1
AppInv ==
    /\ onlineUsers_ \subseteq User /\ maxOnline_ \in 0..Cardinality(User)
    /\ aiGames_ \in [User -> AfterMove \cup {"none", "null"}]
    /\ crashed \in BOOLEAN
HistoryInv ==
    /\ usedFreed \in BOOLEAN
    /\ loggedOut \subseteq Ids /\ loginSince \subseteq Ids /\ stranded \subseteq User
TypeInv == ThreadInv /\ HeldInv /\ StoreInv /\ CountInv /\ AppInv /\ HistoryInv

-----------------------------------------------------------------------------
(* What an action does to the threads: one moves on, or ends; of the others  *)
(* at most what they point to changes.                                       *)
Kept(w, v) == v.pc = w.pc /\ v.op = w.op /\ v.sid = w.sid /\ v.user = w.user
Others(t) == \A v \in Thread : v # t => Kept(thread[v], thread'[v])
Moved(t, pc) ==
    /\ thread' \in [Thread -> Works] /\ Others(t)
    /\ thread'[t].pc = pc /\ thread'[t].op = thread[t].op
    /\ thread'[t].sid = thread[t].sid /\ thread'[t].user = thread[t].user
Ended(t) ==
    /\ thread' \in [Thread -> Works] /\ Others(t)
    /\ thread'[t].pc = "idle" /\ thread'[t].op = "visit"

LEMMA MadeIds ==
    ASSUME StoreInv, CountInv
    PROVE  /\ Made \subseteq Ids /\ MaxRequests \in Nat /\ requests \in Nat /\ nextId \in Nat
           /\ IsFiniteSet(Loading) /\ Cardinality(Loading) \in Nat
           /\ nextId <= requests + 1
           /\ \A t \in Thread : thread[t].pc = "load" => nextId \in Ids
<1>1. IsFiniteSet(Loading) /\ Cardinality(Loading) \in Nat /\ MaxRequests \in Nat
  <2>1. IsFiniteSet(Thread) /\ Loading \subseteq Thread
    BY AppAssumption DEF AppAssumption, Loading
  <2> QED BY <2>1, FS_Subset, FS_CardinalityType, AppAssumption DEF AppAssumption
<1>2. nextId \in Nat \ {0} /\ requests \in Nat /\ nextId <= requests + 1 /\ requests <= MaxRequests
  BY <1>1 DEF StoreInv, CountInv
<1>3. Made \subseteq Ids
  BY <1>1, <1>2 DEF Made, Ids
<1>4. ASSUME NEW t \in Thread, thread[t].pc = "load" PROVE nextId \in Ids
  <2>1. Loading # {}
    BY <1>4 DEF Loading
  <2>2. Cardinality(Loading) # 0
    BY <1>1, <2>1, FS_EmptySet
  <2> QED BY <1>1, <1>2, <2>2 DEF CountInv, Ids
<1> QED BY <1>1, <1>2, <1>3, <1>4

LEMMA OneField ==
    ASSUME NEW w \in Works
    PROVE  /\ \A pc \in Pcs : LET v == [w EXCEPT !.pc = pc]
                  IN  v \in Works /\ v.pc = pc /\ v.op = w.op /\ v.sid = w.sid /\ v.user = w.user
           /\ \A s \in Ids : LET v == [w EXCEPT !.sid = s]
                  IN  v \in Works /\ v.pc = w.pc /\ v.op = w.op /\ v.sid = s /\ v.user = w.user
           /\ \A u \in User : LET v == [w EXCEPT !.user = u]
                  IN  v \in Works /\ v.pc = w.pc /\ v.op = w.op /\ v.sid = w.sid /\ v.user = u
           /\ \A new \in BOOLEAN : LET v == [w EXCEPT !.isNew = new]
                  IN  v \in Works /\ Kept(w, v)
           /\ \A n \in 0..Cardinality(User) : LET v == [w EXCEPT !.count = n]
                  IN  v \in Works /\ Kept(w, v)
           /\ \A g \in Games : LET v == [w EXCEPT !.game = g]
                  IN  v \in Works /\ Kept(w, v) /\ v.this = w.this
           /\ \A g \in Games : LET v == [w EXCEPT !.this = g]
                  IN  v \in Works /\ Kept(w, v)
<1> USE DEF Works, Kept
<1>1. ASSUME NEW pc \in Pcs
      PROVE  LET v == [w EXCEPT !.pc = pc]
             IN  v \in Works /\ v.pc = pc /\ v.op = w.op /\ v.sid = w.sid /\ v.user = w.user
  OBVIOUS
<1>2. ASSUME NEW s \in Ids
      PROVE  LET v == [w EXCEPT !.sid = s]
             IN  v \in Works /\ v.pc = w.pc /\ v.op = w.op /\ v.sid = s /\ v.user = w.user
  OBVIOUS
<1>3. ASSUME NEW u \in User
      PROVE  LET v == [w EXCEPT !.user = u]
             IN  v \in Works /\ v.pc = w.pc /\ v.op = w.op /\ v.sid = w.sid /\ v.user = u
  OBVIOUS
<1>4. ASSUME NEW new \in BOOLEAN
      PROVE  LET v == [w EXCEPT !.isNew = new] IN v \in Works /\ Kept(w, v)
  OBVIOUS
<1>5. ASSUME NEW n \in 0..Cardinality(User)
      PROVE  LET v == [w EXCEPT !.count = n] IN v \in Works /\ Kept(w, v)
  OBVIOUS
<1>6. ASSUME NEW g \in Games
      PROVE  LET v == [w EXCEPT !.game = g] IN v \in Works /\ Kept(w, v) /\ v.this = w.this
  OBVIOUS
<1>7. ASSUME NEW g \in Games
      PROVE  LET v == [w EXCEPT !.this = g] IN v \in Works /\ Kept(w, v)
  OBVIOUS
<1> HIDE DEF Works, Kept
<1> QED BY <1>1, <1>2, <1>3, <1>4, <1>5, <1>6, <1>7

LEMMA GotoIs ==
    ASSUME ThreadInv, NEW t \in Thread, NEW pc \in Pcs, Goto(t, pc)
    PROVE  Moved(t, pc)
<1> DEFINE v == [thread[t] EXCEPT !.pc = pc]
<1>1. thread \in [Thread -> Works] /\ thread[t] \in Works
  BY DEF ThreadInv
<1>2. v \in Works /\ v.pc = pc /\ v.op = thread[t].op /\ v.sid = thread[t].sid /\ v.user = thread[t].user
  BY <1>1, OneField
<1>3. thread' = [thread EXCEPT ![t] = v]
  BY DEF Goto
<1> HIDE DEF v
<1> QED BY <1>1, <1>2, <1>3 DEF Moved, Others, Kept

LEMMA IdleIs == Idle \in Works /\ Idle.pc = "idle" /\ Idle.op = "visit"
<1>1. 0 \in 0..Cardinality(User)
  BY AppAssumption, FS_CardinalityType DEF AppAssumption
<1>2. Idle.pc = "idle" /\ Idle.op = "visit"
  BY DEF Idle
<1> QED BY <1>1, <1>2 DEF Idle, Works, Pcs, Operations, Games

LEMMA EndsIs ==
    ASSUME ThreadInv, NEW t \in Thread, thread' = [thread EXCEPT ![t] = Idle]
    PROVE  Ended(t)
<1>1. thread \in [Thread -> Works]
  BY DEF ThreadInv
<1> QED BY <1>1, IdleIs DEF Ended, Others, Kept

LEMMA CookieIs ==
    ASSUME StoreInv, NEW t \in Thread, sid(t) \in Made, SetCookie(t)
    PROVE  cookie' \in [Browser -> Made \cup {None}]
<1>1. cookie \in [Browser -> Made \cup {None}]
  BY DEF StoreInv
<1>2. CASE cookie' = cookie
  BY <1>1, <1>2
<1>3. CASE cookie' = [cookie EXCEPT ![thread[t].browser] = sid(t)]
  <2>1. sid(t) \in Made \cup {None}
    OBVIOUS
  <2> HIDE DEF Made
  <2> DEFINE S == Made \cup {None}
             s == sid(t)
  <2> HIDE DEF S, s
  <2>2. cookie \in [Browser -> S] /\ s \in S /\ cookie' = [cookie EXCEPT ![thread[t].browser] = s]
    BY <1>1, <1>3, <2>1 DEF S, s
  <2>3. cookie' \in [Browser -> S]
    BY <2>2
  <2> QED BY <2>3 DEF S
<1> QED BY <1>2, <1>3 DEF SetCookie

LEMMA ReplyIs ==
    ASSUME ThreadInv, StoreInv, NEW t \in Thread, sid(t) \in Made, Reply(t)
    PROVE  Ended(t) /\ cookie' \in [Browser -> Made \cup {None}] /\ requests' = requests
BY EndsIs, CookieIs DEF Reply

-----------------------------------------------------------------------------
(* The actions that change more of a thread's record than its pc.            *)
LEMMA RepointIs ==
    ASSUME ThreadInv, NEW u, NEW refs \in Pointers \cup {"same"}, NEW these \in Pointers \cup {"same"}
    PROVE  /\ Repoint(thread, u, refs, these) \in [Thread -> Works]
           /\ \A v \in Thread : Kept(thread[v], Repoint(thread, u, refs, these)[v])
<1> DEFINE Game(w) == IF refs = "same" THEN w.game ELSE refs
           This(w) == IF these = "same" \/ w.this = "none" THEN w.this ELSE these
           Game1(w) == [w EXCEPT !.game = Game(w)]
           Both(w) == [Game1(w) EXCEPT !.this = This(w)]
           New(w) == [w EXCEPT !.game = Game(w), !.this = This(w)]
<1>1. ASSUME NEW w \in Works PROVE Game(w) \in Games /\ This(w) \in Games
  BY <1>1 DEF Works, Games
<1>2. ASSUME NEW w \in Works PROVE Both(w) \in Works /\ Kept(w, Both(w))
  <2>1. Game(w) \in Games /\ This(w) \in Games
    BY <1>1
  <2> HIDE DEF Game, This
  <2>2. Game1(w) \in Works /\ Kept(w, Game1(w))
    BY <2>1, OneField
  <2> HIDE DEF Game1
  <2>3. Both(w) \in Works /\ Kept(Game1(w), Both(w))
    BY <2>1, <2>2, OneField
  <2> QED BY <2>2, <2>3 DEF Kept
<1>3. ASSUME NEW w \in Works PROVE New(w) = Both(w)
  BY <1>3 DEF Works
<1>4. thread \in [Thread -> Works]
  BY DEF ThreadInv
<1>5. Repoint(thread, u, refs, these) =
      [v \in Thread |-> IF thread[v].game = "none" \/ thread[v].user # u THEN thread[v] ELSE New(thread[v])]
  BY DEF Repoint
<1> HIDE DEF New, Both
<1>6. ASSUME NEW v \in Thread
      PROVE  /\ Repoint(thread, u, refs, these)[v] \in Works
             /\ Kept(thread[v], Repoint(thread, u, refs, these)[v])
  <2>1. thread[v] \in Works
    BY <1>4
  <2>2. New(thread[v]) \in Works /\ Kept(thread[v], New(thread[v]))
    BY <2>1, <1>2, <1>3
  <2>3. Kept(thread[v], thread[v])
    BY DEF Kept
  <2> QED BY <2>1, <2>2, <2>3, <1>5
<1>7. Repoint(thread, u, refs, these) \in [Thread -> Works]
  BY <1>5, <1>6
<1> QED BY <1>6, <1>7

LEMMA RepointEnds ==
    ASSUME ThreadInv, NEW t \in Thread, NEW u, NEW refs \in Pointers, NEW these \in Pointers,
           thread' = [Repoint(thread, u, refs, these) EXCEPT ![t] = Idle]
    PROVE  Ended(t)
<1> DEFINE th == Repoint(thread, u, refs, these)
<1>1. th \in [Thread -> Works] /\ \A v \in Thread : Kept(thread[v], th[v])
  BY RepointIs
<1>2. thread' = [th EXCEPT ![t] = Idle]
  OBVIOUS
<1> HIDE DEF th
<1> QED BY <1>1, <1>2, IdleIs DEF Ended, Others

LEMMA TakeIs ==
    ASSUME ThreadInv, StoreInv, CountInv, NEW t \in Thread, NEW b \in Browser,
           NEW op \in Operations, NEW u \in User \cup {None}, Take(t, b, op, u)
    PROVE  /\ thread' \in [Thread -> Works] /\ Others(t)
           /\ thread'[t].pc = "load" /\ thread'[t].op = op /\ thread'[t].user = u
           /\ op = "login" => u \in User
<1> DEFINE w == [Idle EXCEPT !.pc = "load", !.op = op, !.browser = b, !.sid = cookie[b], !.user = u]
<1>1. thread' = [thread EXCEPT ![t] = w] /\ (op = "login" => u # None)
  BY DEF Take
<1>2. cookie[b] \in Ids \cup {None}
  BY MadeIds DEF StoreInv
<1>3. Idle \in Works /\ "load" \in Pcs
  BY IdleIs DEF Pcs
<1>4. w \in Works /\ w.pc = "load" /\ w.op = op /\ w.user = u
  <2> DEFINE Changed(i, pc, s) == [i EXCEPT !.pc = pc, !.op = op, !.browser = b, !.sid = s, !.user = u]
  <2>1. ASSUME NEW i \in Works, NEW s \in Ids \cup {None}, NEW pc \in Pcs
        PROVE  /\ Changed(i, pc, s) \in Works
               /\ Changed(i, pc, s).pc = pc /\ Changed(i, pc, s).op = op /\ Changed(i, pc, s).user = u
    BY DEF Works
  <2>2. w = Changed(Idle, "load", cookie[b])
    OBVIOUS
  <2> HIDE DEF w, Changed
  <2> QED BY <2>1, <2>2, <1>2, <1>3
<1> HIDE DEF w
<1>5. thread \in [Thread -> Works]
  BY DEF ThreadInv
<1> QED BY <1>1, <1>4, <1>5 DEF Others, Kept

LEMMA LoadIs ==
    ASSUME ThreadInv, StoreInv, CountInv, NEW t \in Thread, Load(t)
    PROVE  /\ thread' \in [Thread -> Works] /\ Others(t)
           /\ thread'[t].pc = "save" /\ thread'[t].op = thread[t].op
           /\ thread'[t].user = thread[t].user
           /\ thread'[t].sid = IF sid(t) \in sessions \ expired THEN sid(t) ELSE nextId
<1> DEFINE found == sid(t) \in sessions \ expired
           s == IF found THEN sid(t) ELSE nextId
           new == ~found
           a == [thread[t] EXCEPT !.pc = "save"]
           c == [a EXCEPT !.sid = s]
           d == [c EXCEPT !.isNew = new]
           w == [thread[t] EXCEPT !.pc = "save", !.sid = s, !.isNew = new]
<1>0. thread[t] \in Works /\ thread \in [Thread -> Works]
  BY DEF ThreadInv
<1>1. thread' = [thread EXCEPT ![t] = w]
  BY <1>0 DEF Load
<1>2. s \in Ids
  BY MadeIds DEF Load, At, StoreInv
<1>3. new \in BOOLEAN
  OBVIOUS
<1>4. w = d
  BY <1>0 DEF Works
<1> HIDE DEF s, new
<1>5. a \in Works /\ a.pc = "save" /\ a.op = thread[t].op /\ a.user = thread[t].user
  BY <1>0, OneField DEF Pcs
<1> HIDE DEF a
<1>6. c \in Works /\ c.pc = a.pc /\ c.op = a.op /\ c.user = a.user /\ c.sid = s
  BY <1>2, <1>5, OneField
<1> HIDE DEF c
<1>7. d \in Works /\ Kept(c, d)
  BY <1>3, <1>6, OneField
<1> HIDE DEF d, w
<1>8. /\ thread' \in [Thread -> Works] /\ Others(t)
      /\ thread'[t].pc = "save" /\ thread'[t].op = thread[t].op
      /\ thread'[t].user = thread[t].user /\ thread'[t].sid = s
  BY <1>0, <1>1, <1>4, <1>5, <1>6, <1>7 DEF Others, Kept
<1> QED BY <1>8 DEF s

LEMMA ReadUserIs ==
    ASSUME ThreadInv, StoreInv, NEW t \in Thread, sid(t) \in Ids,
           At(t, "readUser"), data[sid(t)].user # None, ReadUser(t)
    PROVE  /\ thread' \in [Thread -> Works] /\ Others(t)
           /\ thread'[t].op = thread[t].op /\ thread'[t].sid = sid(t)
           /\ thread'[t].user \in User
           /\ \/ thread[t].op = "logout" /\ thread'[t].pc = "clear"
              \/ thread[t].op = "start" /\ thread'[t].pc = "newGame"
              \/ thread[t].op = "move" /\ thread'[t].pc = "find"
<1> DEFINE u == data[sid(t)].user
           pc == CASE thread[t].op = "logout" -> "clear"
                   [] thread[t].op = "start" -> "newGame"
                   [] thread[t].op = "move" -> "find"
           a == [thread[t] EXCEPT !.user = u]
           v == [a EXCEPT !.pc = pc]
           w == [thread[t] EXCEPT !.user = u, !.pc = pc]
<1>1. thread \in [Thread -> Works] /\ thread[t] \in Works /\ thread[t].op \in {"logout", "start", "move"}
  BY DEF ThreadInv, Known, At
<1>2. thread' = [thread EXCEPT ![t] = w]
  BY <1>1 DEF ReadUser
<1>3. u \in User
  BY DEF StoreInv
<1>4. /\ pc \in Pcs
      /\ \/ thread[t].op = "logout" /\ pc = "clear"
         \/ thread[t].op = "start" /\ pc = "newGame"
         \/ thread[t].op = "move" /\ pc = "find"
  BY <1>1 DEF Pcs, LogoutPcs, MovePcs
<1>5. w = v
  BY <1>1 DEF Works
<1> HIDE DEF u, pc
<1>6. a \in Works /\ a.op = thread[t].op /\ a.sid = thread[t].sid /\ a.user = u
  BY <1>1, <1>3, OneField
<1> HIDE DEF a
<1>7. v \in Works /\ v.pc = pc /\ v.op = a.op /\ v.sid = a.sid /\ v.user = a.user
  BY <1>4, <1>6, OneField
<1> HIDE DEF v, w
<1>8. thread' \in [Thread -> Works] /\ Others(t) /\ thread'[t] = v
  BY <1>1, <1>2, <1>5, <1>7 DEF Others, Kept
<1>9. v.op = thread[t].op /\ v.sid = sid(t) /\ v.user \in User /\ v.pc = pc
  BY <1>3, <1>6, <1>7 DEF sid
<1> QED BY <1>4, <1>8, <1>9

LEMMA CountIs ==
    ASSUME ThreadInv, NEW t \in Thread, NEW pc \in Pcs, NEW n \in 0..Cardinality(User),
           thread' = [thread EXCEPT ![t].pc = pc, ![t].count = n]
    PROVE  Moved(t, pc)
<1> DEFINE a == [thread[t] EXCEPT !.pc = pc]
           v == [a EXCEPT !.count = n]
           w == [thread[t] EXCEPT !.pc = pc, !.count = n]
<1>1. thread \in [Thread -> Works] /\ thread[t] \in Works
  BY DEF ThreadInv
<1>2. thread' = [thread EXCEPT ![t] = w]
  BY <1>1
<1>3. w = v
  BY <1>1 DEF Works
<1>4. a \in Works /\ a.pc = pc /\ a.op = thread[t].op /\ a.sid = thread[t].sid /\ a.user = thread[t].user
  BY <1>1, OneField
<1> HIDE DEF a
<1>5. v \in Works /\ Kept(a, v)
  BY <1>4, OneField
<1> HIDE DEF v, w
<1> QED BY <1>1, <1>2, <1>3, <1>4, <1>5 DEF Moved, Others, Kept

LEMMA ThisIs ==
    ASSUME ThreadInv, NEW t \in Thread, NEW pc \in Pcs, NEW g \in Games,
           thread' = [thread EXCEPT ![t].pc = pc, ![t].this = g]
    PROVE  Moved(t, pc)
<1> DEFINE a == [thread[t] EXCEPT !.pc = pc]
           v == [a EXCEPT !.this = g]
           w == [thread[t] EXCEPT !.pc = pc, !.this = g]
<1>1. thread \in [Thread -> Works] /\ thread[t] \in Works
  BY DEF ThreadInv
<1>2. thread' = [thread EXCEPT ![t] = w]
  BY <1>1
<1>3. w = v
  BY <1>1 DEF Works
<1>4. a \in Works /\ a.pc = pc /\ a.op = thread[t].op /\ a.sid = thread[t].sid /\ a.user = thread[t].user
  BY <1>1, OneField
<1> HIDE DEF a
<1>5. v \in Works /\ Kept(a, v)
  BY <1>4, OneField
<1> HIDE DEF v, w
<1> QED BY <1>1, <1>2, <1>3, <1>4, <1>5 DEF Moved, Others, Kept

LEMMA RepointMoves ==
    ASSUME ThreadInv, NEW t \in Thread, NEW u, NEW pc \in Pcs,
           NEW refs \in Pointers \cup {"same"}, NEW these \in Pointers \cup {"same"},
           \/ thread' = [Repoint(thread, u, refs, these) EXCEPT ![t].pc = pc]
           \/ thread' = [Repoint(thread, u, refs, these) EXCEPT ![t].pc = pc, ![t].game = "valid"]
    PROVE  Moved(t, pc)
<1> DEFINE th == Repoint(thread, u, refs, these)
           a == [th[t] EXCEPT !.pc = pc]
           v == [a EXCEPT !.game = "valid"]
           w == [th[t] EXCEPT !.pc = pc, !.game = "valid"]
<1>1. th \in [Thread -> Works] /\ \A x \in Thread : Kept(thread[x], th[x])
  BY RepointIs
<1> HIDE DEF th
<1>2. thread' = [th EXCEPT ![t] = a] \/ thread' = [th EXCEPT ![t] = w]
  BY <1>1 DEF th
<1>3. w = v
  BY <1>1 DEF Works
<1>4. a \in Works /\ a.pc = pc /\ a.op = th[t].op /\ a.sid = th[t].sid /\ a.user = th[t].user
  BY <1>1, OneField
<1> HIDE DEF a
<1>5. v \in Works /\ Kept(a, v)
  BY <1>4, OneField DEF Games, Pointers
<1> HIDE DEF v, w
<1>6. ASSUME NEW x \in Works, thread' = [th EXCEPT ![t] = x], Kept(a, x) PROVE Moved(t, pc)
  BY <1>1, <1>4, <1>6 DEF Moved, Others, Kept
<1>7. Kept(a, a)
  BY DEF Kept
<1> QED BY <1>2, <1>3, <1>4, <1>5, <1>6, <1>7

-----------------------------------------------------------------------------
(* The types hold.                                                           *)
LEMMA TypeInit == Init => TypeInv
<1> SUFFICES ASSUME Init PROVE TypeInv
  OBVIOUS
<1>1. thread = [t \in Thread |-> Idle]
  BY DEF Init
<1>2. ThreadInv /\ \A t \in Thread : thread[t].pc = "idle"
  <2>1. Known(Idle)
    BY IdleIs DEF Known, LoginPcs, LogoutPcs, MovePcs
  <2> QED BY <1>1, <2>1, IdleIs DEF ThreadInv
<1>3. HeldInv
  BY <1>2 DEF HeldInv
<1>4. StoreInv
  <2>1. data = [s \in Ids |-> Nobody] /\ Nobody \in [user : User \cup {None}, isLoggedIn : BOOLEAN]
    BY DEF Init, Nobody
  <2> QED BY <2>1 DEF Init, StoreInv, Made
<1>5. CountInv
  <2>1. Loading = {}
    BY <1>2 DEF Loading
  <2>2. Cardinality(Loading) = 0
    BY <2>1, FS_EmptySet
  <2> QED BY <2>2, AppAssumption DEF Init, CountInv, AppAssumption
<1>6. AppInv
  <2>1. 0 \in 0..Cardinality(User)
    BY AppAssumption, FS_CardinalityType DEF AppAssumption
  <2> QED BY <2>1 DEF Init, AppInv
<1>7. HistoryInv
  BY DEF Init, HistoryInv
<1> QED BY <1>2, <1>3, <1>4, <1>5, <1>6, <1>7 DEF TypeInv

(* A handler that goes on after getSession, on the session it has.           *)
Stepped(t) ==
    /\ thread' \in [Thread -> Works] /\ Others(t) /\ Known(thread'[t])
    /\ thread[t].pc \notin {"idle", "load"} /\ thread'[t].pc # "load"
    /\ thread'[t].pc # "idle" => thread'[t].sid = thread[t].sid /\ thread'[t].op = thread[t].op

LEMMA EndedSteps ==
    ASSUME NEW t \in Thread, Ended(t), thread[t].pc \notin {"idle", "load"}
    PROVE  Stepped(t)
BY DEF Ended, Stepped, Known, LoginPcs, LogoutPcs, MovePcs

LEMMA SteppedInv ==
    ASSUME ThreadInv, HeldInv, CountInv, NEW t \in Thread, Stepped(t),
           nextId' = nextId, expired' = expired, requests' = requests
    PROVE  ThreadInv' /\ HeldInv' /\ CountInv'
<1>1. ThreadInv'
  <2>1. ASSUME NEW v \in Thread PROVE Known(thread'[v])
    <3>1. CASE v = t
      BY <3>1 DEF Stepped
    <3>2. CASE v # t
      BY <3>2 DEF Stepped, Others, Kept, ThreadInv, Known
    <3> QED BY <3>1, <3>2
  <2> QED BY <2>1 DEF ThreadInv, Stepped, Known
<1>2. HeldInv'
  <2>1. ASSUME NEW v \in Thread, thread'[v].pc \notin {"idle", "load"}
        PROVE  thread'[v].sid = thread[v].sid /\ thread[v].pc \notin {"idle", "load"}
    BY <2>1 DEF Stepped, Others, Kept
  <2>2. Made' = Made
    BY DEF Made
  <2> QED BY <2>1, <2>2 DEF HeldInv, sid
<1>3. CountInv'
  <2>1. Loading' = Loading
    BY DEF Loading, Stepped, Others, Kept
  <2> QED BY <2>1 DEF CountInv
<1> QED BY <1>1, <1>2, <1>3

(* A request is taken: one more request, one more thread at load.            *)
LEMMA TakeType ==
    ASSUME TypeInv, NEW t \in Thread, NEW b \in Browser,
           NEW op \in Operations, NEW u \in User \cup {None}, Take(t, b, op, u)
    PROVE  TypeInv'
<1> USE DEF TypeInv
<1>1. /\ thread' \in [Thread -> Works] /\ Others(t)
      /\ thread'[t].pc = "load" /\ thread'[t].op = op /\ thread'[t].user = u
      /\ op = "login" => u \in User
  BY TakeIs
<1>2. ThreadInv'
  <2>1. ASSUME NEW v \in Thread PROVE Known(thread'[v])
    <3>1. CASE v = t
      BY <1>1, <3>1 DEF Known, LoginPcs, LogoutPcs, MovePcs
    <3>2. CASE v # t
      BY <1>1, <3>2 DEF Others, Kept, ThreadInv, Known
    <3> QED BY <3>1, <3>2
  <2> QED BY <1>1, <2>1 DEF ThreadInv, Known
<1>3. HeldInv'
  <2>1. ASSUME NEW v \in Thread, thread'[v].pc \notin {"idle", "load"}
        PROVE  thread'[v].sid = thread[v].sid /\ thread[v].pc \notin {"idle", "load"}
    BY <1>1, <2>1 DEF Others, Kept
  <2>2. Made' = Made /\ expired' = expired
    BY DEF Made, Take, store
  <2> QED BY <2>1, <2>2 DEF HeldInv, sid
<1>4. StoreInv'
  BY DEF StoreInv, Made, Take, store
<1>5. CountInv'
  <2>1. Loading' = Loading \cup {t} /\ t \notin Loading
    BY <1>1 DEF Loading, Others, Kept, Take, At
  <2>2. IsFiniteSet(Loading) /\ Cardinality(Loading) \in Nat
    BY MadeIds
  <2>3. Cardinality(Loading') = Cardinality(Loading) + 1
    BY <2>1, <2>2, FS_AddElement
  <2>4. requests \in 0..MaxRequests /\ requests < MaxRequests /\ requests' = requests + 1 /\ nextId' = nextId
    BY DEF CountInv, Take, store
  <2>5. MaxRequests \in Nat /\ nextId \in Nat /\ nextId + Cardinality(Loading) <= requests + 1
    BY MadeIds DEF CountInv
  <2>6. requests' \in 0..MaxRequests
    BY <2>4, <2>5
  <2>7. nextId' + Cardinality(Loading') <= requests' + 1
    BY <2>2, <2>3, <2>4, <2>5
  <2> QED BY <2>6, <2>7 DEF CountInv
<1>6. AppInv' /\ HistoryInv'
  BY DEF AppInv, HistoryInv, Take, app, history
<1> QED BY <1>2, <1>3, <1>4, <1>5, <1>6

LEMMA LoadType ==
    ASSUME TypeInv, NEW t \in Thread, Load(t)
    PROVE  TypeInv'
<1> USE DEF TypeInv
<1> DEFINE found == sid(t) \in sessions \ expired
           s == IF found THEN sid(t) ELSE nextId
<1>1. /\ thread' \in [Thread -> Works] /\ Others(t)
      /\ thread'[t].pc = "save" /\ thread'[t].op = thread[t].op
      /\ thread'[t].user = thread[t].user /\ thread'[t].sid = s
  BY LoadIs
<1>2. ThreadInv'
  <2>1. ASSUME NEW v \in Thread PROVE Known(thread'[v])
    <3>1. CASE v = t
      BY <1>1, <3>1 DEF ThreadInv, Known, LoginPcs, LogoutPcs, MovePcs
    <3>2. CASE v # t
      BY <1>1, <3>2 DEF Others, Kept, ThreadInv, Known
    <3> QED BY <3>1, <3>2
  <2> QED BY <1>1, <2>1 DEF ThreadInv, Known
<1>3. /\ nextId \in Nat \ {0} /\ nextId' = IF found THEN nextId ELSE nextId + 1
      /\ expired' = expired \ {sid(t)} /\ thread[t].pc = "load"
      /\ sessions' = IF found THEN sessions ELSE sessions \ {sid(t)}
      /\ data' = data /\ cookie' = cookie /\ requests' = requests
  BY DEF Load, StoreInv, At, client
<1>4. Made \subseteq Made' /\ s \in Made' \ expired'
  <2>1. CASE found
    BY <1>3, <2>1 DEF Made, StoreInv
  <2>2. CASE ~found
    <3>1. nextId \notin expired
      BY <1>3 DEF StoreInv, Made
    <3> QED BY <1>3, <2>2, <3>1 DEF Made
  <2> QED BY <2>1, <2>2
<1> HIDE DEF s
<1>5. HeldInv'
  <2>1. ASSUME NEW v \in Thread, thread'[v].pc \notin {"idle", "load"}
        PROVE  thread'[v].sid \in Made' \ expired'
    <3>1. CASE v = t
      BY <1>1, <1>4, <3>1
    <3>2. CASE v # t
      <4>1. thread'[v].sid = thread[v].sid /\ thread[v].pc \notin {"idle", "load"}
        BY <1>1, <2>1, <3>2 DEF Others, Kept
      <4> QED BY <1>3, <1>4, <4>1 DEF HeldInv, sid
    <3> QED BY <3>1, <3>2
  <2> QED BY <2>1 DEF HeldInv, sid
<1>6. StoreInv'
  <2>1. nextId' \in Nat \ {0}
    BY <1>3
  <2>2. sessions' \subseteq Made' /\ expired' \subseteq sessions'
    BY <1>3, <1>4 DEF StoreInv
  <2> QED BY <1>3, <1>4, <2>1, <2>2 DEF StoreInv
<1>7. CountInv'
  <2>1. Loading' = Loading \ {t} /\ t \in Loading
    BY <1>1, <1>3 DEF Loading, Others, Kept
  <2>2. IsFiniteSet(Loading) /\ Cardinality(Loading) \in Nat
    BY MadeIds
  <2>3. Cardinality(Loading') = Cardinality(Loading) - 1
    BY <2>1, <2>2, FS_RemoveElement
  <2> QED BY <1>3, <2>2, <2>3 DEF CountInv
<1>8. AppInv'
  BY DEF AppInv, Load, app
<1>9. HistoryInv'
  <2>1. s \in Ids
    BY MadeIds, <1>3 DEF s, StoreInv
  <2>2. loginSince' \in {loginSince, loginSince \cup {s}}
    BY DEF Load, s
  <2> QED BY <2>1, <2>2 DEF HistoryInv, Load
<1> QED BY <1>2, <1>5, <1>6, <1>7, <1>8, <1>9

LEMMA ExpireType ==
    ASSUME TypeInv, NEW s \in Ids, Expire(s)
    PROVE  TypeInv'
<1> USE DEF TypeInv
<1>1. /\ s \in sessions /\ expired' = expired \cup {s} /\ thread' = thread
      /\ \A t \in Thread : ~Holds(t, s)
      /\ UNCHANGED <<client, sessions, data, nextId, app, crashed, loggedOut, loginSince, usedFreed>>
  BY DEF Expire
<1>2. ThreadInv'
  BY <1>1 DEF ThreadInv, Known
<1>3. HeldInv'
  <2>1. Made' = Made
    BY <1>1 DEF Made
  <2> QED BY <1>1, <2>1 DEF HeldInv, Holds, sid
<1>4. StoreInv'
  BY <1>1 DEF StoreInv, Made, client
<1>5. CountInv'
  <2>1. Loading' = Loading
    BY <1>1 DEF Loading
  <2> QED BY <1>1, <2>1 DEF CountInv, client
<1>6. AppInv'
  BY <1>1 DEF AppInv, app
<1>7. HistoryInv'
  BY <1>1 DEF HistoryInv, StoreInv, Expire, Strand
<1> QED BY <1>2, <1>3, <1>4, <1>5, <1>6, <1>7

LEMMA HeldIds ==
    ASSUME ThreadInv, HeldInv, StoreInv, CountInv, NEW t \in Thread, thread[t].pc \notin {"idle", "load"}
    PROVE  sid(t) \in Made /\ sid(t) \in Ids /\ sid(t) \notin expired
BY MadeIds DEF HeldInv

(* One lemma for every group of handler steps: what each does to the thread, *)
(* and that the types stay.                                                  *)
SessionSteps(t) ==
    Save(t) \/ CheckLogin(t) \/ ReadUser(t) \/ SetUser(t) \/ SetLoggedIn(t)
LEMMA SessionType ==
    ASSUME TypeInv, NEW t \in Thread, SessionSteps(t)
    PROVE  TypeInv' /\ Stepped(t)
<1> USE DEF TypeInv
<1>1. thread[t].pc \notin {"idle", "load"}
  BY DEF SessionSteps, Save, CheckLogin, ReadUser, SetUser, SetLoggedIn, At
<1>2. sid(t) \in Made /\ sid(t) \in Ids /\ sid(t) \notin expired
  BY <1>1, HeldIds
<1>3. Stepped(t) /\ cookie' \in [Browser -> Made \cup {None}] /\ requests' = requests
  <2>1. CASE Save(t)
    <3>1. thread[t].pc = "save" /\ cookie' = cookie /\ requests' = requests
      BY <2>1 DEF Save, At, client
    <3> DEFINE pc == AfterSave(thread[t].op)
    <3>2. /\ pc \in Pcs \ {"load"}
          /\ pc = "setUser" => thread[t].op = "login"
          /\ pc = "readUser" => thread[t].op = "logout"
          /\ pc = "checkLogin" => thread[t].op \in {"visit", "start", "move"}
          /\ pc \in {"setUser", "readUser", "checkLogin"}
      BY DEF AfterSave, Pcs, LoginPcs, ThreadInv, Works, Operations
    <3> HIDE DEF pc
    <3>3. Moved(t, pc)
      BY <2>1, <3>2, GotoIs DEF Save, pc
    <3>4. Known(thread'[t])
      BY <3>2, <3>3 DEF Moved, Known, ThreadInv, LoginPcs, LogoutPcs, MovePcs
    <3> QED BY <3>1, <3>2, <3>3, <3>4, <1>1 DEF Stepped, Moved, StoreInv
  <2>2. CASE CheckLogin(t)
    <3>1. CASE Reply(t)
      BY <1>1, <1>2, <3>1, ReplyIs, EndedSteps
    <3>2. CASE Goto(t, "readUser") /\ UNCHANGED client /\ thread[t].op # "visit"
      <4>1. Moved(t, "readUser")
        BY <3>2, GotoIs DEF Pcs
      <4>2. thread[t].op \in {"start", "move"}
        BY <2>2, <3>2 DEF CheckLogin, At, ThreadInv, Known
      <4>3. Known(thread'[t])
        BY <4>1, <4>2 DEF Moved, Known, LoginPcs, LogoutPcs, MovePcs
      <4> QED BY <1>1, <3>2, <4>1, <4>3 DEF Stepped, Moved, client, StoreInv
    <3> QED BY <2>2, <3>1, <3>2 DEF CheckLogin
  <2>3. CASE ReadUser(t)
    <3>1. CASE data[sid(t)].user = None
      BY <1>1, <1>2, <2>3, <3>1, ReplyIs, EndedSteps DEF ReadUser
    <3>2. CASE data[sid(t)].user # None
      <4>1. At(t, "readUser") /\ UNCHANGED client
        BY <2>3, <3>2 DEF ReadUser
      <4>2. /\ thread' \in [Thread -> Works] /\ Others(t)
            /\ thread'[t].op = thread[t].op /\ thread'[t].sid = sid(t)
            /\ thread'[t].user \in User
            /\ \/ thread[t].op = "logout" /\ thread'[t].pc = "clear"
               \/ thread[t].op = "start" /\ thread'[t].pc = "newGame"
               \/ thread[t].op = "move" /\ thread'[t].pc = "find"
        BY <1>2, <2>3, <3>2, <4>1, ReadUserIs
      <4>3. Known(thread'[t])
        BY <4>2 DEF Known, LoginPcs, LogoutPcs, MovePcs
      <4> QED BY <1>1, <4>1, <4>2, <4>3 DEF Stepped, client, sid, StoreInv
    <3> QED BY <3>1, <3>2
  <2>4. CASE SetUser(t)
    <3>1. Moved(t, "setLoggedIn") /\ thread[t].pc = "setUser" /\ UNCHANGED client
      BY <2>4, GotoIs DEF SetUser, Pcs, LoginPcs, At
    <3>2. Known(thread'[t])
      BY <3>1 DEF Moved, Known, ThreadInv, LoginPcs, LogoutPcs, MovePcs
    <3> QED BY <1>1, <3>1, <3>2 DEF Stepped, Moved, client, StoreInv
  <2>5. CASE SetLoggedIn(t)
    <3>1. Moved(t, "check") /\ thread[t].pc = "setLoggedIn" /\ UNCHANGED client
      BY <2>5, GotoIs DEF SetLoggedIn, Pcs, LoginPcs, At
    <3>2. Known(thread'[t])
      BY <3>1 DEF Moved, Known, ThreadInv, LoginPcs, LogoutPcs, MovePcs
    <3> QED BY <1>1, <3>1, <3>2 DEF Stepped, Moved, client, StoreInv
  <2> QED BY <2>1, <2>2, <2>3, <2>4, <2>5 DEF SessionSteps
<1>4. /\ nextId' = nextId /\ expired' = expired
      /\ sessions' \in {sessions, sessions \cup {sid(t)}}
      /\ UNCHANGED <<app, crashed, loggedOut, loginSince, usedFreed>>
  BY DEF SessionSteps, Save, CheckLogin, ReadUser, SetUser, SetLoggedIn, store, history
<1>5. ThreadInv' /\ HeldInv' /\ CountInv'
  BY <1>3, <1>4, SteppedInv
<1>6. data' \in [Ids -> [user : User \cup {None}, isLoggedIn : BOOLEAN]]
  <2>1. data \in [Ids -> [user : User \cup {None}, isLoggedIn : BOOLEAN]]
    BY DEF StoreInv
  <2>2. CASE data' = data
    BY <2>1, <2>2
  <2>3. CASE SetUser(t)
    <3>1. user(t) \in User \cup {None}
      BY DEF ThreadInv, Works, user
    <3> QED BY <2>1, <2>3, <3>1, <1>2 DEF SetUser
  <2>4. CASE SetLoggedIn(t)
    BY <2>1, <2>4, <1>2 DEF SetLoggedIn
  <2> QED BY <2>2, <2>3, <2>4 DEF SessionSteps, Save, CheckLogin, ReadUser, store
<1>7. StoreInv'
  <2>1. Made' = Made
    BY <1>4 DEF Made
  <2> QED BY <1>2, <1>3, <1>4, <1>6, <2>1 DEF StoreInv
<1>8. AppInv'
  BY <1>4 DEF AppInv, app
<1>9. HistoryInv'
  <2>1. stranded' \subseteq User
    <3>1. CASE stranded' = stranded
      BY <3>1 DEF HistoryInv
    <3>2. CASE SetUser(t)
      BY <3>2, <1>2 DEF SetUser, Strand, HistoryInv, StoreInv
    <3> QED BY <3>1, <3>2 DEF SessionSteps, Save, CheckLogin, ReadUser, SetLoggedIn, history
  <2> QED BY <1>4, <2>1 DEF HistoryInv
<1> QED BY <1>3, <1>5, <1>7, <1>8, <1>9

(* What the thread of a step has become.                                     *)
LEMMA OnlineThread ==
    ASSUME TypeInv, NEW t \in Thread
    PROVE  /\ CheckOnline(t) => (user(t) \in onlineUsers_ /\ Reply(t) /\ Ended(t)) \/ (Moved(t, "admit") /\ UNCHANGED client)
           /\ Admit(t) => Moved(t, "countOnline")
           /\ CountOnline(t) => Moved(t, "loadMax")
           /\ LoadMax(t) => Moved(t, "storeMax")
           /\ StoreMax(t) => Ended(t)
<1> USE DEF TypeInv
<1>0. {"admit", "countOnline", "loadMax", "storeMax"} \subseteq Pcs
  BY DEF Pcs, LoginPcs
<1>1. ASSUME CheckOnline(t)
      PROVE  (user(t) \in onlineUsers_ /\ Reply(t) /\ Ended(t)) \/ (Moved(t, "admit") /\ UNCHANGED client)
  BY <1>0, <1>1, EndsIs, GotoIs DEF CheckOnline, Reply
<1>2. ASSUME Admit(t) PROVE Moved(t, "countOnline")
  BY <1>0, <1>2, GotoIs DEF Admit
<1>3. ASSUME CountOnline(t) PROVE Moved(t, "loadMax")
  <2>1. onlineUsers_ \subseteq User /\ IsFiniteSet(User)
    BY AppAssumption DEF AppAssumption, AppInv
  <2>2. Cardinality(onlineUsers_) \in 0..Cardinality(User)
    BY <2>1, FS_Subset, FS_CardinalityType
  <2> QED BY <1>0, <1>3, <2>2, CountIs DEF CountOnline
<1>4. ASSUME LoadMax(t) PROVE Moved(t, "storeMax")
  <2> DEFINE n == HigherOf(maxOnline_, thread[t].count)
  <2>1. n \in 0..Cardinality(User)
    <3>1. maxOnline_ \in 0..Cardinality(User) /\ thread[t].count \in 0..Cardinality(User)
      BY DEF AppInv, ThreadInv, Works
    <3> QED BY <3>1 DEF HigherOf
  <2>2. thread' = [thread EXCEPT ![t].pc = "storeMax", ![t].count = n]
    BY <1>4 DEF LoadMax, ThreadInv
  <2> HIDE DEF n
  <2> QED BY <1>0, <2>1, <2>2, CountIs
<1>5. ASSUME StoreMax(t) PROVE Ended(t)
  BY <1>5, EndsIs DEF StoreMax, Reply
<1> QED BY <1>1, <1>2, <1>3, <1>4, <1>5

LEMMA LogoutThread ==
    ASSUME TypeInv, NEW t \in Thread
    PROVE  /\ Clear(t) => Moved(t, "destroy")
           /\ Destroy(t) => Moved(t, "eraseOnline")
           /\ BadLogoutBody(t) => Ended(t)
           /\ EraseOnline(t) => (Moved(t, "eraseGame") /\ UNCHANGED client) \/ (Ended(t) /\ Reply(t))
<1> USE DEF TypeInv
<1>0. {"destroy", "eraseOnline", "eraseGame"} \subseteq Pcs
  BY DEF Pcs, LogoutPcs
<1> QED BY <1>0, GotoIs, EndsIs DEF Clear, Destroy, BadLogoutBody, EraseOnline, Reply

LEMMA GameThread ==
    ASSUME TypeInv, NEW t \in Thread
    PROVE  /\ EraseGame(t) \/ NewGame(t) \/ BadMoveBody(t) \/ MoveInvalid(t) => Ended(t)
           /\ Find(t) => Moved(t, "create") \/ Moved(t, "bind")
           /\ Create(t) => Moved(t, "bind")
           /\ Bind(t) => Moved(t, "human")
           /\ HumanMove(t) => Moved(t, "judgeHuman")
           /\ JudgesOver(t) => Moved(t, "eraseGame")
           /\ JudgesOpen(t) => \/ At(t, "judgeHuman") /\ Moved(t, "think") /\ UNCHANGED client
                               \/ At(t, "judgeAi") /\ Reply(t) /\ Ended(t)
           /\ Think(t) => Moved(t, "judgeAi") \/ Moved(t, "aiMove")
           /\ AiMove(t) => Moved(t, "judgeAi")
<1> USE DEF TypeInv
<1>0. /\ MovePcs \cup {"eraseGame"} \subseteq Pcs
      /\ Pointers \subseteq Games /\ "none" \in Games /\ "same" \in Pointers \cup {"same"}
      /\ "dangling" \in Pointers /\ "valid" \in Pointers
  BY DEF Pcs, Games, Pointers
<1>1. ASSUME EraseGame(t) PROVE Ended(t)
  BY <1>0, <1>1, RepointEnds DEF EraseGame
<1>2. ASSUME NewGame(t) PROVE Ended(t)
  BY <1>2, RepointEnds DEF NewGame
<1>3. ASSUME BadMoveBody(t) \/ MoveInvalid(t) PROVE Ended(t)
  BY <1>3, EndsIs DEF BadMoveBody, MoveInvalid, Reply
<1>4. ASSUME Find(t) PROVE Moved(t, "create") \/ Moved(t, "bind")
  BY <1>0, <1>4, GotoIs DEF Find, MovePcs
<1>5. ASSUME Create(t) PROVE Moved(t, "bind")
  <2>1. PICK ref \in Pointers \cup {"same"}, this \in Pointers :
          thread' = [Repoint(thread, user(t), ref, this) EXCEPT ![t].pc = "bind"]
    BY <1>5 DEF Create
  <2> QED BY <1>0, <2>1, RepointMoves DEF MovePcs
<1>6. ASSUME Bind(t) PROVE Moved(t, "human")
  <2>1. PICK ref \in Pointers \cup {"same"} :
          thread' = [Repoint(thread, user(t), ref, "same") EXCEPT ![t].pc = "human", ![t].game = "valid"]
    BY <1>6 DEF Bind
  <2> QED BY <1>0, <2>1, RepointMoves DEF MovePcs
<1>7. ASSUME HumanMove(t) PROVE Moved(t, "judgeHuman")
  BY <1>0, <1>7, GotoIs DEF HumanMove, MovePcs
<1>8. ASSUME JudgesOver(t) PROVE Moved(t, "eraseGame")
  BY <1>0, <1>8, GotoIs DEF JudgesOver
<1>9. ASSUME JudgesOpen(t)
      PROVE  \/ At(t, "judgeHuman") /\ Moved(t, "think") /\ UNCHANGED client
             \/ At(t, "judgeAi") /\ Reply(t) /\ Ended(t)
  BY <1>0, <1>9, GotoIs, EndsIs DEF JudgesOpen, MovePcs, Reply
<1>10. ASSUME Think(t) PROVE Moved(t, "judgeAi") \/ Moved(t, "aiMove")
  <2>1. CASE Goto(t, "judgeAi")
    BY <1>0, <2>1, GotoIs DEF MovePcs
  <2>2. CASE thread' = [thread EXCEPT ![t].pc = "aiMove",
                            ![t].this = IF Seen(t) = "freed" THEN "dangling" ELSE "valid"]
    <3> DEFINE g == IF Seen(t) = "freed" THEN "dangling" ELSE "valid"
    <3>1. g \in Games /\ "aiMove" \in Pcs
      BY <1>0 DEF MovePcs
    <3>2. thread' = [thread EXCEPT ![t].pc = "aiMove", ![t].this = g]
      BY <2>2
    <3> HIDE DEF g
    <3> QED BY <3>1, <3>2, ThisIs
  <2> QED BY <1>10, <2>1, <2>2 DEF Think
<1>11. ASSUME AiMove(t) PROVE Moved(t, "judgeAi")
  BY <1>0, <1>11, ThisIs DEF AiMove, MovePcs
<1> QED BY <1>1, <1>2, <1>3, <1>4, <1>5, <1>6, <1>7, <1>8, <1>9, <1>10, <1>11

(* A step to pc keeps what the handler knows, and the rest of the types are  *)
(* those of the containers it writes.                                        *)
LEMMA MovedSteps ==
    ASSUME ThreadInv, NEW t \in Thread, NEW pc, Moved(t, pc), thread[t].pc \notin {"idle", "load"},
           \/ pc \in LoginPcs /\ thread[t].pc \in LoginPcs
           \/ pc \in LogoutPcs \cup {"eraseGame"} /\ thread[t].pc \in LogoutPcs
           \/ pc \in MovePcs \cup {"eraseGame"} /\ thread[t].pc \in MovePcs
    PROVE  Stepped(t)
<1>1. Known(thread[t])
  BY DEF ThreadInv
<1>2. Known(thread'[t]) /\ pc # "load"
  <2>1. CASE pc \in LoginPcs /\ thread[t].pc \in LoginPcs
    BY <1>1, <2>1 DEF Moved, Known, LoginPcs, LogoutPcs, MovePcs
  <2>2. CASE pc \in LogoutPcs \cup {"eraseGame"} /\ thread[t].pc \in LogoutPcs
    BY <1>1, <2>2 DEF Moved, Known, LoginPcs, LogoutPcs, MovePcs
  <2>3. CASE pc \in MovePcs \cup {"eraseGame"} /\ thread[t].pc \in MovePcs
    BY <1>1, <2>3 DEF Moved, Known, LoginPcs, LogoutPcs, MovePcs
  <2> QED BY <2>1, <2>2, <2>3
<1> QED BY <1>2 DEF Stepped, Moved

OnlineSteps(t) == CheckOnline(t) \/ Admit(t) \/ CountOnline(t) \/ LoadMax(t) \/ StoreMax(t)
LEMMA OnlineType ==
    ASSUME TypeInv, NEW t \in Thread, OnlineSteps(t)
    PROVE  TypeInv' /\ Stepped(t)
<1> USE DEF TypeInv
<1>1. thread[t].pc \in {"check", "admit", "countOnline", "loadMax", "storeMax"}
  BY DEF OnlineSteps, CheckOnline, Admit, CountOnline, LoadMax, StoreMax, At
<1>2. sid(t) \in Made
  BY <1>1, HeldIds
<1>3. Stepped(t)
  <2>1. Ended(t) \/ Moved(t, "admit") \/ Moved(t, "countOnline") \/ Moved(t, "loadMax") \/ Moved(t, "storeMax")
    BY OnlineThread DEF OnlineSteps
  <2> QED BY <1>1, <2>1, EndedSteps, MovedSteps DEF LoginPcs
<1>4. cookie' \in [Browser -> Made \cup {None}] /\ requests' = requests
  <2>1. Reply(t) \/ UNCHANGED client
    BY DEF OnlineSteps, CheckOnline, Admit, CountOnline, LoadMax, StoreMax
  <2> QED BY <1>2, <2>1, ReplyIs DEF client, StoreInv
<1>5. UNCHANGED <<store, aiGames_, crashed, history>>
  BY DEF OnlineSteps, CheckOnline, Admit, CountOnline, LoadMax, StoreMax, app
<1>6. ThreadInv' /\ HeldInv' /\ CountInv'
  BY <1>3, <1>4, <1>5, SteppedInv DEF store
<1>7. StoreInv' /\ HistoryInv'
  BY <1>4, <1>5 DEF StoreInv, HistoryInv, store, history, Made
<1>8. AppInv'
  <2>1. onlineUsers_' \subseteq User
    <3>1. Known(thread[t]) /\ thread[t].pc = "admit" => user(t) \in User
      BY DEF Known, LoginPcs, user
    <3> QED BY <3>1 DEF OnlineSteps, CheckOnline, Admit, CountOnline, LoadMax, StoreMax, app, AppInv, ThreadInv, At
  <2>2. maxOnline_' \in 0..Cardinality(User)
    <3>1. thread[t].count \in 0..Cardinality(User)
      BY DEF ThreadInv, Works
    <3> QED BY <3>1 DEF OnlineSteps, CheckOnline, Admit, CountOnline, LoadMax, StoreMax, app, AppInv
  <2> QED BY <1>5, <2>1, <2>2 DEF AppInv
<1> QED BY <1>3, <1>6, <1>7, <1>8

LogoutSteps(t) == Clear(t) \/ Destroy(t) \/ BadLogoutBody(t) \/ EraseOnline(t)
LEMMA LogoutType ==
    ASSUME TypeInv, NEW t \in Thread, LogoutSteps(t)
    PROVE  TypeInv' /\ Stepped(t)
<1> USE DEF TypeInv
<1>1. thread[t].pc \in LogoutPcs /\ user(t) \in User
  <2>1. thread[t].pc \in LogoutPcs
    BY DEF LogoutSteps, Clear, Destroy, BadLogoutBody, EraseOnline, At, LogoutPcs
  <2> QED BY <2>1 DEF ThreadInv, Known, user
<1>2. sid(t) \in Made /\ sid(t) \in Ids /\ sid(t) \notin expired
  BY <1>1, HeldIds DEF LogoutPcs
<1>3. Stepped(t)
  <2>1. Ended(t) \/ Moved(t, "destroy") \/ Moved(t, "eraseOnline") \/ Moved(t, "eraseGame")
    BY LogoutThread DEF LogoutSteps
  <2> QED BY <1>1, <2>1, EndedSteps, MovedSteps DEF LogoutPcs
<1>4. cookie' \in [Browser -> Made \cup {None}] /\ requests' = requests
  <2>1. Reply(t) \/ UNCHANGED client
    BY DEF LogoutSteps, Clear, Destroy, BadLogoutBody, EraseOnline
  <2> QED BY <1>2, <2>1, ReplyIs DEF client, StoreInv
<1>5. /\ nextId' = nextId /\ expired' = expired
      /\ sessions' \in {sessions, sessions \ {sid(t)}}
      /\ UNCHANGED <<aiGames_, maxOnline_, crashed, usedFreed>>
      /\ onlineUsers_' \subseteq onlineUsers_
  BY DEF LogoutSteps, Clear, Destroy, BadLogoutBody, EraseOnline, store, app, Erased
<1>6. ThreadInv' /\ HeldInv' /\ CountInv'
  BY <1>3, <1>4, <1>5, SteppedInv
<1>7. data' \in [Ids -> [user : User \cup {None}, isLoggedIn : BOOLEAN]]
  <2>1. data \in [Ids -> [user : User \cup {None}, isLoggedIn : BOOLEAN]]
    BY DEF StoreInv
  <2>2. Nobody \in [user : User \cup {None}, isLoggedIn : BOOLEAN]
    BY DEF Nobody
  <2>3. data' = data \/ data' = [data EXCEPT ![sid(t)] = Nobody]
    BY DEF LogoutSteps, Clear, Destroy, BadLogoutBody, EraseOnline, store, Cleared
  <2> QED BY <2>1, <2>2, <2>3, <1>2
<1>8. StoreInv'
  <2>1. Made' = Made
    BY <1>5 DEF Made
  <2> QED BY <1>2, <1>4, <1>5, <1>7, <2>1 DEF StoreInv
<1>9. AppInv'
  BY <1>5 DEF AppInv
<1>10. HistoryInv'
  <2>1. ASSUME NEW us \in SUBSET (User \cup {None}), Strand(us) PROVE stranded' \subseteq User
    BY <2>1 DEF Strand, HistoryInv
  <2>2. /\ data[sid(t)].user \in User \cup {None}
        /\ \A l \in Thread : user(l) \in User \cup {None}
    BY <1>2 DEF StoreInv, ThreadInv, Works, user
  <2>3. stranded' \subseteq User
    <3> DEFINE at == {user(l) : l \in LoginAtWork(sid(t))}
               left == {data[sid(t)].user}
    <3>1. at \subseteq User \cup {None} /\ left \subseteq User \cup {None}
      BY <2>2 DEF LoginAtWork
    <3>2. CASE Clear(t)
      <4>1. Strand((left \ {user(t)}) \cup at)
        BY <3>2 DEF Clear
      <4> HIDE DEF at, left
      <4> QED BY <2>1, <3>1, <4>1
    <3>3. CASE Destroy(t)
      <4>1. Strand(left \cup at)
        BY <3>3 DEF Destroy
      <4> HIDE DEF at, left
      <4> QED BY <2>1, <3>1, <4>1
    <3>4. CASE BadLogoutBody(t)
      BY <2>1, <1>1, <3>4 DEF BadLogoutBody
    <3>5. CASE EraseOnline(t)
      BY <3>5 DEF EraseOnline, HistoryInv
    <3> QED BY <3>2, <3>3, <3>4, <3>5 DEF LogoutSteps
  <2>4. loginSince' \subseteq loginSince /\ loggedOut' \subseteq loggedOut \cup {sid(t)}
    BY DEF LogoutSteps, Clear, Destroy, BadLogoutBody, EraseOnline
  <2> QED BY <1>2, <1>5, <2>3, <2>4 DEF HistoryInv
<1> QED BY <1>3, <1>6, <1>8, <1>9, <1>10

GameSteps(t) ==
    \/ EraseGame(t) \/ NewGame(t) \/ BadMoveBody(t) \/ Find(t) \/ Create(t) \/ Bind(t)
    \/ MoveInvalid(t) \/ HumanMove(t) \/ JudgesOver(t) \/ JudgesOpen(t) \/ Think(t) \/ AiMove(t)

LEMMA GameAt ==
    ASSUME NEW t \in Thread, GameSteps(t)
    PROVE  \/ thread[t].pc \in MovePcs
           \/ thread[t].pc \in {"eraseGame", "newGame"} /\ (EraseGame(t) \/ NewGame(t))
BY DEF GameSteps, EraseGame, NewGame, BadMoveBody, Find, Create, Bind, MoveInvalid, HumanMove,
       JudgesOver, JudgesOpen, Think, AiMove, At, MovePcs

LEMMA GameFrame ==
    ASSUME usedFreed \in BOOLEAN, NEW t \in Thread, GameSteps(t)
    PROVE  /\ UNCHANGED <<store, onlineUsers_, maxOnline_, crashed, loginSince, stranded, requests>>
           /\ cookie' = cookie \/ SetCookie(t)
           /\ loggedOut' \in {loggedOut, loggedOut \cup {sid(t)}}
           /\ usedFreed' \in {usedFreed, TRUE}
<1> DEFINE Goal ==
           /\ UNCHANGED <<store, onlineUsers_, maxOnline_, crashed, loginSince, stranded, requests>>
           /\ cookie' = cookie \/ SetCookie(t)
           /\ loggedOut' \in {loggedOut, loggedOut \cup {sid(t)}}
           /\ usedFreed' \in {usedFreed, TRUE}
<1>1. ASSUME EraseGame(t) \/ NewGame(t) PROVE Goal
  BY <1>1 DEF EraseGame, NewGame, history
<1>2. ASSUME BadMoveBody(t) \/ Find(t) \/ Create(t) \/ Bind(t) \/ MoveInvalid(t) PROVE Goal
  BY <1>2 DEF BadMoveBody, Find, Create, Bind, MoveInvalid, Reply, client, app, history
<1>3. ASSUME HumanMove(t) \/ JudgesOver(t) \/ JudgesOpen(t) \/ Think(t) \/ AiMove(t) PROVE Goal
  <2>1. PICK freed \in BOOLEAN : Uses(freed)
    BY <1>3 DEF HumanMove, JudgesOver, JudgesOpen, Think, AiMove
  <2>2. usedFreed' \in {usedFreed, TRUE}
    BY <2>1 DEF Uses
  <2>3. loginSince' = loginSince /\ stranded' = stranded /\ loggedOut' = loggedOut
    BY <2>1 DEF Uses
  <2> QED BY <1>3, <2>2, <2>3 DEF HumanMove, JudgesOver, JudgesOpen, Think, AiMove, Reply, client, app
<1> QED BY <1>1, <1>2, <1>3 DEF GameSteps

LEMMA GamesIs ==
    ASSUME TypeInv, NEW t \in Thread, GameSteps(t)
    PROVE  aiGames_' \in [User -> AfterMove \cup {"none", "null"}]
<1> DEFINE G == AfterMove \cup {"none", "null"}
<1>1. aiGames_ \in [User -> G]
  BY DEF TypeInv, AppInv
<1>2. ASSUME NEW g \in G, aiGames_' = [aiGames_ EXCEPT ![user(t)] = g]
      PROVE  aiGames_' \in [User -> G]
  <2> HIDE DEF G
  <2> QED BY <1>1, <1>2
<1>3. {"none", "playing", "null"} \subseteq G /\ AfterMove \subseteq G
  BY DEF AfterMove
<1>4. ASSUME EraseGame(t) PROVE aiGames_' \in [User -> G]
  BY <1>2, <1>3, <1>4 DEF EraseGame
<1>5. ASSUME NewGame(t) \/ Create(t) PROVE aiGames_' \in [User -> G]
  BY <1>2, <1>3, <1>5 DEF NewGame, Create
<1>6. ASSUME Bind(t) PROVE aiGames_' \in [User -> G]
  <2>1. user(t) \in User
    BY <1>6 DEF Bind, At, TypeInv, ThreadInv, Known, MovePcs, user
  <2>2. aiGames_' = [aiGames_ EXCEPT ![user(t)] = "null"] \/ aiGames_' = [aiGames_ EXCEPT ![user(t)] = aiGames_[user(t)]]
    BY <1>6, <1>1 DEF Bind
  <2>3. aiGames_[user(t)] \in G
    BY <1>1, <2>1
  <2> QED BY <1>2, <1>3, <2>2, <2>3
<1>7. ASSUME HumanMove(t) \/ AiMove(t) PROVE aiGames_' \in [User -> G]
  <2>1. PICK after \in AfterMove : aiGames_' = aiGames_ \/ aiGames_' = [aiGames_ EXCEPT ![user(t)] = after]
    BY <1>7 DEF HumanMove, AiMove
  <2> QED BY <1>1, <1>2, <1>3, <2>1
<1>8. ASSUME aiGames_' = aiGames_ PROVE aiGames_' \in [User -> G]
  BY <1>1, <1>8
<1> HIDE DEF G
<1> QED BY <1>4, <1>5, <1>6, <1>7, <1>8 DEF GameSteps, BadMoveBody, Find, MoveInvalid, JudgesOver,
           JudgesOpen, Think, app, G

LEMMA GameType ==
    ASSUME TypeInv, NEW t \in Thread, GameSteps(t)
    PROVE  TypeInv' /\ Stepped(t)
<1> USE DEF TypeInv
<1>1. thread[t].pc \notin {"idle", "load"}
  BY GameAt DEF MovePcs
<1>2. sid(t) \in Made /\ sid(t) \in Ids
  BY <1>1, HeldIds
<1>3. Stepped(t)
  <2>1. \/ Ended(t)
        \/ /\ thread[t].pc \in MovePcs
           /\ \E pc \in MovePcs \cup {"eraseGame"} : Moved(t, pc)
    <3>1. {"create", "bind", "human", "judgeHuman", "think", "judgeAi", "aiMove"} \subseteq MovePcs
      BY DEF MovePcs
    <3> QED BY <3>1, GameAt, GameThread DEF GameSteps
  <2> QED BY <1>1, <2>1, EndedSteps, MovedSteps
<1>4. /\ UNCHANGED <<store, onlineUsers_, maxOnline_, crashed, loginSince, stranded, requests>>
      /\ cookie' = cookie \/ SetCookie(t)
      /\ loggedOut' \in {loggedOut, loggedOut \cup {sid(t)}}
      /\ usedFreed' \in {usedFreed, TRUE}
  BY GameFrame DEF HistoryInv
<1>5. cookie' \in [Browser -> Made \cup {None}]
  BY <1>2, <1>4, CookieIs DEF StoreInv
<1>6. ThreadInv' /\ HeldInv' /\ CountInv'
  BY <1>3, <1>4, SteppedInv DEF store
<1>7. StoreInv' /\ HistoryInv'
  BY <1>2, <1>4, <1>5 DEF StoreInv, HistoryInv, store, Made
<1>8. AppInv'
  BY <1>4, GamesIs DEF AppInv
<1> QED BY <1>3, <1>6, <1>7, <1>8

LEMMA Unmoved ==
    ASSUME TypeInv, UNCHANGED <<client, store, app, thread, history>>, crashed' \in BOOLEAN
    PROVE  TypeInv'
<1> USE DEF TypeInv, client, store, app, history
<1>1. Made' = Made /\ Loading' = Loading
  BY DEF Made, Loading
<1>2. ThreadInv' /\ HeldInv'
  BY <1>1 DEF ThreadInv, HeldInv, sid, Known
<1>3. StoreInv' /\ CountInv' /\ AppInv' /\ HistoryInv'
  BY <1>1 DEF StoreInv, CountInv, AppInv, HistoryInv
<1> QED BY <1>2, <1>3

(* The steps, in the groups above.                                           *)
LEMMA NextCases ==
    ASSUME [Next]_vars
    PROVE  \/ \E t \in Thread, b \in Browser, op \in Operations, u \in User \cup {None} : Take(t, b, op, u)
           \/ \E s \in Ids : Expire(s)
           \/ \E t \in Thread : \/ Load(t) \/ SessionSteps(t) \/ OnlineSteps(t)
                                \/ LogoutSteps(t) \/ GameSteps(t)
           \/ /\ UNCHANGED <<client, store, app, thread, history>>
              /\ crashed' \in {crashed, TRUE}
<1>1. CASE UNCHANGED vars
  BY <1>1 DEF vars
<1>2. ASSUME NEW t \in Thread, Handler(t)
      PROVE  \/ \E v \in Thread : \/ Load(v) \/ SessionSteps(v) \/ OnlineSteps(v)
                                  \/ LogoutSteps(v) \/ GameSteps(v)
             \/ /\ UNCHANGED <<client, store, app, thread, history>>
                /\ crashed' \in {crashed, TRUE}
  <2>1. CASE Fault(t)
    BY <2>1 DEF Fault, Crash
  <2>2. CASE ~Fault(t)
    BY <1>2, <2>2 DEF Handler, SessionSteps, OnlineSteps, LogoutSteps, GameSteps
  <2> QED BY <2>1, <2>2
<1> QED BY <1>1, <1>2 DEF Next

LEMMA TypeStep == TypeInv /\ [Next]_vars => TypeInv'
<1> SUFFICES ASSUME TypeInv, [Next]_vars PROVE TypeInv'
  OBVIOUS
<1>1. ASSUME UNCHANGED <<client, store, app, thread, history>>, crashed' \in {crashed, TRUE}
      PROVE  TypeInv'
  BY <1>1, Unmoved DEF TypeInv, AppInv
<1> QED BY <1>1, NextCases, TakeType, ExpireType, LoadType, SessionType, OnlineType, LogoutType, GameType

(* The types of the application hold always: above all that onlineUsers_ and *)
(* the maximum stay within the users, that a cookie and a stored session     *)
(* have an id that was generated, and that no more sessions are made than    *)
(* requests were taken (SessionManager.cpp:20-50).                           *)
THEOREM TypeCorrect == Spec => []TypeOK
<1>1. TypeInv => TypeOK
  <2> SUFFICES ASSUME TypeInv PROVE TypeOK
    OBVIOUS
  <2> USE DEF TypeInv
  <2>1. /\ Made \subseteq Ids /\ MaxRequests \in Nat /\ requests \in Nat /\ nextId \in Nat
        /\ nextId <= requests + 1
    BY MadeIds
  <2>2. cookie \in [Browser -> Ids \cup {None}] /\ sessions \subseteq Ids /\ expired \subseteq sessions
    BY <2>1 DEF StoreInv
  <2>3. nextId \in 1..(requests + 1) /\ requests \in 0..MaxRequests
    BY <2>1 DEF StoreInv, CountInv
  <2>4. \A t \in Thread : thread[t].op \in Operations
    BY DEF ThreadInv, Works
  <2> QED BY <2>2, <2>3, <2>4 DEF TypeOK, StoreInv, AppInv, HistoryInv
<1>2. TypeInv /\ [Next]_vars => TypeInv'
  BY TypeStep
<1> QED BY <1>1, <1>2, TypeInit, PTL DEF Spec

-----------------------------------------------------------------------------
(* A logout ends the session.                                                *)
Settled(t) == thread[t].pc \notin {"idle", "load"}
LogoutInv ==
    /\ \A s \in Ids : data[s].isLoggedIn => s \in loginSince
    /\ \A t \in Thread : Settled(t) /\ thread[t].op = "login" => sid(t) \in loginSince

(* A step that neither logs in nor clears a session.                         *)
LEMMA LogoutQuiet ==
    ASSUME LogoutInv, TypeInv, NEW t \in Thread, Stepped(t), loginSince' = loginSince,
           \A s \in Ids : data'[s].isLoggedIn => data[s].isLoggedIn \/ s \in loginSince
    PROVE  LogoutInv'
<1>1. ASSUME NEW v \in Thread, thread'[v].pc \notin {"idle", "load"}, thread'[v].op = "login"
      PROVE  thread'[v].sid \in loginSince
  <2>1. CASE v = t
    BY <1>1, <2>1 DEF Stepped, LogoutInv, Settled, sid
  <2>2. CASE v # t
    BY <1>1, <2>2 DEF Stepped, Others, Kept, LogoutInv, Settled, sid
  <2> QED BY <2>1, <2>2
<1> QED BY <1>1 DEF LogoutInv, Settled, sid

LEMMA LogoutStep == TypeInv /\ LogoutInv /\ [Next]_vars => LogoutInv'
<1> SUFFICES ASSUME TypeInv, LogoutInv, [Next]_vars PROVE LogoutInv'
  OBVIOUS
<1>1. ASSUME NEW t \in Thread, NEW b \in Browser, NEW op \in Operations,
             NEW u \in User \cup {None}, Take(t, b, op, u)
      PROVE  LogoutInv'
  <2>1. Others(t) /\ thread'[t].pc = "load"
    BY <1>1, TakeIs DEF TypeInv
  <2>2. data' = data /\ loginSince' = loginSince
    BY <1>1 DEF Take, store, history
  <2> QED BY <2>1, <2>2 DEF LogoutInv, Settled, sid, Others, Kept
<1>2. ASSUME NEW s \in Ids, Expire(s) PROVE LogoutInv'
  BY <1>2 DEF Expire, LogoutInv, Settled, sid
<1>3. ASSUME NEW t \in Thread, Load(t) PROVE LogoutInv'
  <2> DEFINE s == IF sid(t) \in sessions \ expired THEN sid(t) ELSE nextId
  <2>1. Others(t) /\ thread'[t].op = thread[t].op /\ thread'[t].sid = s
    BY <1>3, LoadIs DEF TypeInv
  <2>2. /\ data' = data
        /\ loginSince' = IF thread[t].op = "login" THEN loginSince \cup {s} ELSE loginSince
    BY <1>3 DEF Load
  <2> HIDE DEF s
  <2> QED BY <2>1, <2>2 DEF LogoutInv, Settled, sid, Others, Kept
<1>4. ASSUME NEW t \in Thread, SessionSteps(t) PROVE LogoutInv'
  <2>1. Stepped(t) /\ loginSince' = loginSince
    BY <1>4, SessionType DEF SessionSteps, Save, CheckLogin, ReadUser, SetUser, SetLoggedIn, history
  <2>2. sid(t) \in Ids
    BY <2>1, HeldIds DEF TypeInv, Stepped
  <2>3. SetLoggedIn(t) => sid(t) \in loginSince
    BY <2>1 DEF SetLoggedIn, At, TypeInv, ThreadInv, Known, LoginPcs, LogoutInv, Settled
  <2>4. \A s \in Ids : data'[s].isLoggedIn => data[s].isLoggedIn \/ s \in loginSince
    <3>1. CASE data' = data
      BY <3>1
    <3>2. CASE SetUser(t)
      BY <2>2, <3>2 DEF SetUser, TypeInv, StoreInv
    <3>3. CASE SetLoggedIn(t)
      BY <2>2, <2>3, <3>3 DEF SetLoggedIn, TypeInv, StoreInv
    <3> QED BY <1>4, <3>1, <3>2, <3>3 DEF SessionSteps, Save, CheckLogin, ReadUser, store
  <2> QED BY <2>1, <2>4, LogoutQuiet
<1>5. ASSUME NEW t \in Thread, OnlineSteps(t) \/ GameSteps(t) PROVE LogoutInv'
  <2>1. Stepped(t) /\ loginSince' = loginSince /\ data' = data
    <3>1. CASE OnlineSteps(t)
      BY <3>1, OnlineType DEF OnlineSteps, CheckOnline, Admit, CountOnline, LoadMax, StoreMax, store, history
    <3>2. CASE GameSteps(t)
      BY <3>2, GameType, GameFrame DEF store, TypeInv, HistoryInv
    <3> QED BY <1>5, <3>1, <3>2
  <2> QED BY <2>1, LogoutQuiet
<1>6. ASSUME NEW t \in Thread, LogoutSteps(t) PROVE LogoutInv'
  <2>1. Stepped(t)
    BY <1>6, LogoutType
  <2>2. CASE Clear(t)
    <3>1. sid(t) \in Ids
      BY <2>1, HeldIds DEF TypeInv, Stepped
    <3>2. \A s \in Ids : data'[s].isLoggedIn => s # sid(t) /\ data[s].isLoggedIn
      BY <2>2, <3>1 DEF Clear, Cleared, Nobody, TypeInv, StoreInv
    <3>3. ASSUME NEW v \in Thread, thread'[v].pc \notin {"idle", "load"}, thread'[v].op = "login"
          PROVE  thread'[v].sid \in loginSince'
      <4>1. Settled(v) /\ thread[v].op = "login" /\ thread'[v].sid = thread[v].sid
        <5>1. CASE v = t
          BY <2>1, <3>3, <5>1 DEF Stepped, Settled
        <5>2. CASE v # t
          BY <2>1, <3>3, <5>2 DEF Stepped, Others, Kept, Settled
        <5> QED BY <5>1, <5>2
      <4>2. sid(v) = sid(t) => LoginAtWork(sid(t)) # {}
        BY <4>1 DEF LoginAtWork, Holds, Settled, sid
      <4> QED BY <2>2, <4>1, <4>2 DEF Clear, LogoutInv, sid
    <3> QED BY <2>2, <3>2, <3>3 DEF Clear, LogoutInv, Settled, sid
  <2>3. CASE Destroy(t) \/ BadLogoutBody(t) \/ EraseOnline(t)
    <3>1. data' = data /\ loginSince' = loginSince
      BY <2>3 DEF Destroy, BadLogoutBody, EraseOnline, store
    <3> QED BY <2>1, <3>1, LogoutQuiet
  <2> QED BY <1>6, <2>2, <2>3 DEF LogoutSteps
<1>7. ASSUME UNCHANGED <<client, store, app, thread, history>> PROVE LogoutInv'
  BY <1>7 DEF store, history, LogoutInv, Settled, sid
<1> QED BY <1>1, <1>2, <1>3, <1>4, <1>5, <1>6, <1>7, NextCases

(* A session that was logged out, and that nobody has logged in on since, is *)
(* not logged in, even when a handler that had loaded it before saves it     *)
(* again (Loginout.cpp:22-28, SessionManager.cpp:41).                        *)
THEOREM LogoutCorrect == Spec => []LogoutEndsSession
<1>1. Init => LogoutInv
  <2> SUFFICES ASSUME Init PROVE LogoutInv
    OBVIOUS
  <2>1. \A s \in Ids : ~data[s].isLoggedIn
    BY DEF Init, Nobody
  <2>2. \A t \in Thread : thread[t].pc = "idle"
    BY IdleIs DEF Init
  <2> QED BY <2>1, <2>2 DEF LogoutInv, Settled
<1>2. TypeInv /\ LogoutInv => LogoutEndsSession
  BY DEF TypeInv, HistoryInv, LogoutInv, LogoutEndsSession
<1> QED BY <1>1, <1>2, TypeInit, TypeStep, LogoutStep, PTL DEF Spec

-----------------------------------------------------------------------------
(* A finished game is removed by the move that ended it, or by one between.  *)
Removing(t, u) ==
    thread[t].op = "move" /\ user(t) = u /\ thread[t].pc \in {"judgeHuman", "judgeAi", "eraseGame"}
GameInv ==
    \A u \in User : aiGames_[u] \in {"won", "full"} =>
        usedFreed \/ \E t \in Thread : Removing(t, u)

LEMMA GameQuiet ==
    ASSUME GameInv, TypeInv, NEW t \in Thread, Others(t), usedFreed' = usedFreed,
           \A u \in User : aiGames_'[u] \in {"won", "full"} => aiGames_[u] \in {"won", "full"},
           \A u \in User : Removing(t, u) => aiGames_'[u] \notin {"won", "full"} \/ Removing(t, u)'
    PROVE  GameInv'
<1>1. ASSUME NEW u \in User, aiGames_'[u] \in {"won", "full"}, ~usedFreed
      PROVE  \E v \in Thread : Removing(v, u)'
  <2>1. PICK v \in Thread : Removing(v, u)
    BY <1>1 DEF GameInv
  <2>2. CASE v = t
    BY <1>1, <2>1, <2>2
  <2>3. CASE v # t
    BY <2>1, <2>3 DEF Removing, Others, Kept, user
  <2> QED BY <2>2, <2>3
<1> QED BY <1>1 DEF GameInv

LEMMA GameStep == TypeInv /\ GameInv /\ [Next]_vars => GameInv'
<1> SUFFICES ASSUME TypeInv, GameInv, [Next]_vars PROVE GameInv'
  OBVIOUS
<1>1. ASSUME NEW t \in Thread, NEW b \in Browser, NEW op \in Operations,
             NEW u \in User \cup {None}, Take(t, b, op, u)
      PROVE  GameInv'
  <2>1. Others(t) /\ thread[t].pc = "idle"
    BY <1>1, TakeIs DEF TypeInv, Take, At
  <2>2. aiGames_' = aiGames_ /\ usedFreed' = usedFreed
    BY <1>1 DEF Take, app, history
  <2> QED BY <2>1, <2>2, GameQuiet DEF Removing
<1>2. ASSUME NEW s \in Ids, Expire(s) PROVE GameInv'
  BY <1>2 DEF Expire, app, GameInv, Removing, user
<1>3. ASSUME NEW t \in Thread, Load(t) PROVE GameInv'
  <2>1. Others(t) /\ thread[t].pc = "load"
    BY <1>3, LoadIs DEF TypeInv, Load, At
  <2>2. aiGames_' = aiGames_ /\ usedFreed' = usedFreed
    BY <1>3 DEF Load, app
  <2> QED BY <2>1, <2>2, GameQuiet DEF Removing
<1>4. ASSUME NEW t \in Thread, SessionSteps(t) \/ OnlineSteps(t) \/ LogoutSteps(t) PROVE GameInv'
  <2>1. Others(t)
    BY <1>4, SessionType, OnlineType, LogoutType DEF Stepped
  <2>2. /\ aiGames_' = aiGames_ /\ usedFreed' = usedFreed
        /\ thread[t].pc \notin {"judgeHuman", "judgeAi", "eraseGame"}
    <3>1. CASE SessionSteps(t)
      BY <3>1 DEF SessionSteps, Save, CheckLogin, ReadUser, SetUser, SetLoggedIn, app, history, At
    <3>2. CASE OnlineSteps(t)
      BY <3>2 DEF OnlineSteps, CheckOnline, Admit, CountOnline, LoadMax, StoreMax, app, history, At
    <3>3. CASE LogoutSteps(t)
      BY <3>3 DEF LogoutSteps, Clear, Destroy, BadLogoutBody, EraseOnline, app, At
    <3> QED BY <1>4, <3>1, <3>2, <3>3
  <2> QED BY <2>1, <2>2, GameQuiet DEF Removing
<1>5. ASSUME NEW t \in Thread, GameSteps(t) PROVE GameInv'
  <2>0. Others(t) /\ usedFreed \in BOOLEAN /\ aiGames_ \in [User -> AfterMove \cup {"none", "null"}]
    BY <1>5, GameType DEF Stepped, TypeInv, HistoryInv, AppInv
  <2>1. CASE EraseGame(t) \/ NewGame(t)
    <3>1. PICK g \in {"none", "playing"} : aiGames_' = [aiGames_ EXCEPT ![user(t)] = g]
      BY <2>1 DEF EraseGame, NewGame
    <3>2. usedFreed' = usedFreed
      BY <2>1 DEF EraseGame, NewGame, history
    <3> QED BY <2>0, <3>1, <3>2, GameQuiet DEF Removing
  <2>2. CASE BadMoveBody(t) \/ Find(t) \/ MoveInvalid(t)
    <3>1. aiGames_' = aiGames_ /\ usedFreed' = usedFreed /\ thread[t].pc \in {"find", "human"}
      BY <2>2 DEF BadMoveBody, Find, MoveInvalid, app, history, At
    <3> QED BY <2>0, <3>1, GameQuiet DEF Removing
  <2>3. CASE Create(t) \/ Bind(t)
    <3>1. user(t) \in User
      BY <2>3 DEF Create, Bind, At, TypeInv, ThreadInv, Known, MovePcs, user
    <3>2. PICK g \in {"playing", "null", aiGames_[user(t)]} : aiGames_' = [aiGames_ EXCEPT ![user(t)] = g]
      BY <2>0, <2>3, <3>1 DEF Create, Bind
    <3>3. usedFreed' = usedFreed /\ thread[t].pc \in {"create", "bind"}
      BY <2>3 DEF Create, Bind, history, At
    <3> QED BY <2>0, <3>1, <3>2, <3>3, GameQuiet DEF Removing
  <2>4. CASE HumanMove(t) \/ AiMove(t)
    <3>1. user(t) \in User /\ thread[t].op = "move" /\ thread[t].pc \in {"human", "aiMove"}
      BY <2>4 DEF HumanMove, AiMove, At, TypeInv, ThreadInv, Known, MovePcs, user
    <3>2. Moved(t, "judgeHuman") \/ Moved(t, "judgeAi")
      BY <2>4, GameThread
    <3>3. Removing(t, user(t))'
      BY <3>1, <3>2 DEF Removing, Moved, user
    <3>4. \A u \in User : u # user(t) => aiGames_'[u] = aiGames_[u]
      BY <2>0, <2>4, <3>1 DEF HumanMove, AiMove
    <3>5. usedFreed => usedFreed'
      BY <2>0, <2>4 DEF HumanMove, AiMove, Uses
    <3>6. ASSUME NEW u \in User, u # user(t), NEW v \in Thread, Removing(v, u)
          PROVE  Removing(v, u)'
      BY <2>0, <3>6 DEF Removing, Others, Kept, user
    <3>7. user(t)' = user(t)
      BY <3>2 DEF Moved, user
    <3> QED BY <3>1, <3>3, <3>4, <3>5, <3>6, <3>7 DEF GameInv
  <2>5. CASE JudgesOver(t) \/ JudgesOpen(t) \/ Think(t)
    <3>1. aiGames_' = aiGames_
      BY <2>5 DEF JudgesOver, JudgesOpen, Think, app
    <3>2. usedFreed' = (usedFreed \/ Seen(t) = "freed")
      BY <2>5 DEF JudgesOver, JudgesOpen, Think, Uses
    <3>3. CASE Seen(t) = "freed"
      BY <3>2, <3>3 DEF GameInv
    <3>4. CASE Seen(t) # "freed"
      <4>1. usedFreed' = usedFreed
        BY <2>0, <3>2, <3>4
      <4>2. ASSUME NEW u \in User, Removing(t, u)
            PROVE  aiGames_[u] \notin {"won", "full"} \/ Removing(t, u)'
        <5>1. CASE JudgesOver(t)
          BY <4>2, <5>1, GameThread DEF Removing, Moved, user
        <5>2. CASE JudgesOpen(t)
          BY <3>4, <4>2, <5>2 DEF JudgesOpen, MayBe, Seen, AfterMove, Over, Removing
        <5>3. CASE Think(t)
          BY <4>2, <5>3 DEF Think, At, Removing
        <5> QED BY <2>5, <5>1, <5>2, <5>3
      <4> QED BY <2>0, <3>1, <4>1, <4>2, GameQuiet
    <3> QED BY <3>3, <3>4
  <2> QED BY <1>5, <2>1, <2>2, <2>3, <2>4, <2>5 DEF GameSteps
<1>6. ASSUME UNCHANGED <<client, store, app, thread, history>> PROVE GameInv'
  BY <1>6 DEF app, history, GameInv, Removing, user
<1> QED BY <1>1, <1>2, <1>3, <1>4, <1>5, <1>6, NextCases

(* A game that is over does not stay in aiGames_ once the moves of its user  *)
(* are done, unless a move has gone on with memory that another thread freed *)
(* (AiGameMoveHandler.cpp:53-147, with the draw that is found after either   *)
(* move).                                                                    *)
THEOREM FinishedGameRemoved == Spec => []NoFinishedGameKept
<1>1. Init => GameInv
  BY DEF Init, GameInv
<1>2. GameInv => NoFinishedGameKept
  BY DEF GameInv, Removing, NoFinishedGameKept, Busy
<1> QED BY <1>1, <1>2, TypeInit, TypeStep, GameStep, PTL DEF Spec

-----------------------------------------------------------------------------
(* A user who counts as online has a session.                                *)
LoggedInOn(s, u) == s \in sessions \ expired /\ data[s].isLoggedIn /\ data[s].user = u
Admitting == {"setLoggedIn", "check", "admit"}
(* What a login has written is still there, or the user counts as stranded.  *)
LoginInv ==
    \A t \in Thread : thread[t].pc \in Admitting =>
        \/ user(t) \in stranded
        \/ /\ sid(t) \in sessions \ expired /\ data[sid(t)].user = user(t)
           /\ thread[t].pc # "setLoggedIn" => data[sid(t)].isLoggedIn
LoggingOut(t, u) == user(t) = u /\ thread[t].pc \in {"destroy", "eraseOnline"}
OnlineUsersInv ==
    \A u \in onlineUsers_ \ stranded :
        \/ \E s \in Ids : LoggedInOn(s, u)
        \/ \E t \in Thread : LoggingOut(t, u)
OnlineInv == LoginInv /\ OnlineUsersInv

(* A step that leaves every session that counts, and strands no less.        *)
Kinder ==
    /\ stranded \subseteq stranded'
    /\ \A s \in Ids : s \in sessions \ expired =>
          \/ s \in sessions' \ expired' /\ data'[s] = data[s]
          \/ data[s].user \in stranded'
LEMMA LoginQuiet ==
    ASSUME LoginInv, TypeInv, NEW t \in Thread, Others(t), Kinder,
           thread'[t].pc \notin Admitting
    PROVE  LoginInv'
<1>1. ASSUME NEW v \in Thread, thread'[v].pc \in Admitting
      PROVE  \/ user(v)' \in stranded'
             \/ /\ sid(v)' \in sessions' \ expired' /\ data'[sid(v)'].user = user(v)'
                /\ thread'[v].pc # "setLoggedIn" => data'[sid(v)'].isLoggedIn
  <2>1. v # t
    BY <1>1
  <2>2. thread[v].pc = thread'[v].pc /\ sid(v)' = sid(v) /\ user(v)' = user(v)
    BY <2>1 DEF Others, Kept, sid, user
  <2>3. sid(v) \in Ids
    BY <1>1, <2>2, HeldIds DEF TypeInv, Admitting
  <2> QED BY <1>1, <2>2, <2>3 DEF LoginInv, Kinder
<1> QED BY <1>1 DEF LoginInv

LEMMA OnlineQuiet ==
    ASSUME OnlineUsersInv, TypeInv, NEW t \in Thread, Others(t), Kinder,
           onlineUsers_' \subseteq onlineUsers_,
           \A u \in User : LoggingOut(t, u) => u \in stranded' \/ u \notin onlineUsers_' \/ LoggingOut(t, u)'
    PROVE  OnlineUsersInv'
<1>1. ASSUME NEW u \in onlineUsers_' \ stranded'
      PROVE  \/ \E s \in Ids : LoggedInOn(s, u)'
             \/ \E v \in Thread : LoggingOut(v, u)'
  <2>1. u \in onlineUsers_ \ stranded /\ u \in User
    BY <1>1 DEF Kinder, TypeInv, AppInv
  <2>2. ASSUME NEW s \in Ids, LoggedInOn(s, u) PROVE LoggedInOn(s, u)'
    BY <1>1, <2>2 DEF Kinder, LoggedInOn
  <2>3. ASSUME NEW v \in Thread, LoggingOut(v, u) PROVE LoggingOut(v, u)'
    <3>1. CASE v = t
      BY <1>1, <2>1, <2>3, <3>1
    <3>2. CASE v # t
      BY <2>3, <3>2 DEF LoggingOut, Others, Kept, user
    <3> QED BY <3>1, <3>2
  <2> QED BY <2>1, <2>2, <2>3 DEF OnlineUsersInv
<1> QED BY <1>1 DEF OnlineUsersInv

LEMMA OnlineStep == TypeInv /\ OnlineInv /\ [Next]_vars => OnlineInv'
<1> SUFFICES ASSUME TypeInv, OnlineInv, [Next]_vars PROVE OnlineInv'
  OBVIOUS
<1> USE DEF OnlineInv
<1>1. ASSUME NEW t \in Thread, NEW b \in Browser, NEW op \in Operations,
             NEW u \in User \cup {None}, Take(t, b, op, u)
      PROVE  OnlineInv'
  <2>1. Others(t) /\ thread'[t].pc = "load" /\ thread[t].pc = "idle"
    BY <1>1, TakeIs DEF TypeInv, Take, At
  <2>2. Kinder /\ onlineUsers_' = onlineUsers_
    BY <1>1 DEF Take, store, app, history, Kinder
  <2> QED BY <2>1, <2>2, LoginQuiet, OnlineQuiet DEF LoggingOut, Admitting
<1>2. ASSUME NEW s \in Ids, Expire(s) PROVE OnlineInv'
  <2>1. /\ thread' = thread /\ onlineUsers_' = onlineUsers_ /\ sessions' = sessions /\ data' = data
        /\ expired' = expired \cup {s}
        /\ \A t \in Thread : ~Holds(t, s)
    BY <1>2 DEF Expire, app
  <2>2. stranded \subseteq stranded' /\ (data[s].user \in User => data[s].user \in stranded')
    BY <1>2, AppAssumption DEF Expire, Strand, AppAssumption
  <2>3. LoginInv'
    BY <2>1, <2>2 DEF LoginInv, Holds, Admitting, sid, user
  <2>4. OnlineUsersInv'
    <3>1. ASSUME NEW u \in onlineUsers_' \ stranded'
          PROVE  (\E r \in Ids : LoggedInOn(r, u)') \/ (\E v \in Thread : LoggingOut(v, u)')
      <4>1. u \in onlineUsers_ \ stranded /\ u \in User
        BY <2>1, <2>2, <3>1 DEF TypeInv, AppInv
      <4>2. ASSUME NEW r \in Ids, LoggedInOn(r, u) PROVE LoggedInOn(r, u)'
        BY <2>1, <2>2, <3>1, <4>1, <4>2 DEF LoggedInOn
      <4> QED BY <2>1, <4>1, <4>2 DEF OnlineUsersInv, LoggingOut, user
    <3> QED BY <3>1 DEF OnlineUsersInv
  <2> QED BY <2>3, <2>4
<1>3. ASSUME NEW t \in Thread, Load(t) PROVE OnlineInv'
  <2>1. Others(t) /\ thread'[t].pc = "save" /\ thread[t].pc = "load"
    BY <1>3, LoadIs DEF TypeInv, Load, At
  <2>2. Kinder /\ onlineUsers_' = onlineUsers_
    BY <1>3 DEF Load, app, Kinder
  <2> QED BY <2>1, <2>2, LoginQuiet, OnlineQuiet DEF LoggingOut, Admitting
<1>4. ASSUME NEW t \in Thread, SessionSteps(t) PROVE OnlineInv'
  <2>1. Stepped(t) /\ Others(t) /\ sid(t) \in Ids /\ sid(t) \notin expired
    BY <1>4, SessionType, HeldIds DEF Stepped, TypeInv
  <2>2. /\ onlineUsers_' = onlineUsers_ /\ expired' = expired /\ sessions \subseteq sessions'
        /\ \A u : ~LoggingOut(t, u)
    BY <1>4 DEF SessionSteps, Save, CheckLogin, ReadUser, SetUser, SetLoggedIn, store, app, At, LoggingOut
  <2>3. data \in [Ids -> [user : User \cup {None}, isLoggedIn : BOOLEAN]]
    BY DEF TypeInv, StoreInv
  <2>4. CASE Save(t) \/ CheckLogin(t) \/ ReadUser(t)
    <3>1. Kinder
      BY <2>2, <2>4 DEF Kinder, Save, CheckLogin, ReadUser, store, history
    <3>2. thread'[t].pc \notin Admitting
      <4>1. CASE Save(t)
        <5>1. thread'[t].pc = AfterSave(thread[t].op)
          BY <4>1 DEF Save, Goto, TypeInv, ThreadInv, Works
        <5>2. thread[t].op \in Operations
          BY DEF TypeInv, ThreadInv, Works
        <5> QED BY <5>1, <5>2 DEF AfterSave, Operations, Admitting
      <4>2. CASE CheckLogin(t)
        <5>1. thread'[t].pc \in {"idle", "readUser"}
          BY <4>2, IdleIs DEF CheckLogin, Reply, Goto, TypeInv, ThreadInv, Works
        <5> QED BY <5>1 DEF Admitting
      <4>3. CASE ReadUser(t)
        <5>1. CASE data[sid(t)].user = None
          BY <4>3, <5>1, IdleIs DEF ReadUser, Reply, TypeInv, ThreadInv, Admitting
        <5>2. CASE data[sid(t)].user # None
          <6>1. At(t, "readUser")
            BY <4>3 DEF ReadUser
          <6>2. thread'[t].pc \in {"clear", "newGame", "find"}
            BY <2>1, <4>3, <5>2, <6>1, ReadUserIs DEF TypeInv
          <6> QED BY <6>2 DEF Admitting
        <5> QED BY <5>1, <5>2
      <4> QED BY <2>4, <4>1, <4>2, <4>3
    <3> QED BY <2>1, <2>2, <3>1, <3>2, LoginQuiet, OnlineQuiet
  <2>5. CASE SetUser(t)
    <3>1. Moved(t, "setLoggedIn") /\ user(t) \in User
      <4>1. "setLoggedIn" \in Pcs
        BY DEF Pcs, LoginPcs
      <4> QED BY <2>5, <4>1, GotoIs DEF SetUser, At, TypeInv, ThreadInv, Known, LoginPcs, user
    <3>2. /\ data'[sid(t)].user = user(t) /\ data'[sid(t)].isLoggedIn = data[sid(t)].isLoggedIn
          /\ \A s \in Ids : s # sid(t) => data'[s] = data[s]
          /\ sid(t) \in sessions'
      BY <2>1, <2>3, <2>5 DEF SetUser
    <3>3. /\ stranded \subseteq stranded'
          /\ data[sid(t)].user \in User => data[sid(t)].user = user(t) \/ data[sid(t)].user \in stranded'
      BY <2>5, AppAssumption DEF SetUser, Strand, AppAssumption
    <3>4. LoginInv'
      <4>1. ASSUME NEW v \in Thread, thread'[v].pc \in Admitting
            PROVE  \/ user(v)' \in stranded'
                   \/ /\ sid(v)' \in sessions' \ expired' /\ data'[sid(v)'].user = user(v)'
                      /\ thread'[v].pc # "setLoggedIn" => data'[sid(v)'].isLoggedIn
        <5>1. CASE v = t
          BY <2>1, <2>2, <3>1, <3>2, <5>1 DEF Moved, sid, user
        <5>2. CASE v # t
          <6>1. thread[v].pc = thread'[v].pc /\ sid(v)' = sid(v) /\ user(v)' = user(v)
            BY <2>1, <5>2 DEF Others, Kept, sid, user
          <6>2. sid(v) \in Ids /\ user(v) \in User
            BY <4>1, <6>1, HeldIds DEF TypeInv, ThreadInv, Known, LoginPcs, Admitting, user
          <6>3. CASE sid(v) = sid(t)
            BY <4>1, <2>2, <3>2, <3>3, <6>1, <6>2, <6>3 DEF LoginInv
          <6>4. CASE sid(v) # sid(t)
            BY <4>1, <2>2, <3>2, <3>3, <6>1, <6>2, <6>4 DEF LoginInv
          <6> QED BY <6>3, <6>4
        <5> QED BY <5>1, <5>2
      <4> QED BY <4>1 DEF LoginInv
    <3>5. OnlineUsersInv'
      <4>1. ASSUME NEW u \in onlineUsers_' \ stranded'
            PROVE  (\E r \in Ids : LoggedInOn(r, u)') \/ (\E v \in Thread : LoggingOut(v, u)')
        <5>1. u \in onlineUsers_ \ stranded /\ u \in User
          BY <2>2, <3>3, <4>1 DEF TypeInv, AppInv
        <5>2. ASSUME NEW r \in Ids, LoggedInOn(r, u) PROVE LoggedInOn(r, u)'
          <6>1. CASE r = sid(t)
            BY <2>2, <3>2, <3>3, <4>1, <5>1, <5>2, <6>1 DEF LoggedInOn
          <6>2. CASE r # sid(t)
            BY <2>2, <3>2, <5>2, <6>2 DEF LoggedInOn
          <6> QED BY <6>1, <6>2
        <5>3. ASSUME NEW v \in Thread, LoggingOut(v, u) PROVE LoggingOut(v, u)'
          <6>1. v # t
            BY <2>2, <5>3
          <6> QED BY <2>1, <5>3, <6>1 DEF LoggingOut, Others, Kept, user
        <5> QED BY <5>1, <5>2, <5>3 DEF OnlineUsersInv
      <4> QED BY <4>1 DEF OnlineUsersInv
    <3> QED BY <3>4, <3>5
  <2>6. CASE SetLoggedIn(t)
    <3>1. Moved(t, "check") /\ thread[t].pc = "setLoggedIn"
      <4>1. "check" \in Pcs
        BY DEF Pcs, LoginPcs
      <4> QED BY <2>6, <4>1, GotoIs DEF SetLoggedIn, At, TypeInv
    <3>2. /\ data'[sid(t)].user = data[sid(t)].user /\ data'[sid(t)].isLoggedIn
          /\ \A s \in Ids : s # sid(t) => data'[s] = data[s]
          /\ sid(t) \in sessions' /\ stranded' = stranded
      BY <2>1, <2>3, <2>6 DEF SetLoggedIn, history
    <3>3. LoginInv'
      <4>1. ASSUME NEW v \in Thread, thread'[v].pc \in Admitting
            PROVE  \/ user(v)' \in stranded'
                   \/ /\ sid(v)' \in sessions' \ expired' /\ data'[sid(v)'].user = user(v)'
                      /\ thread'[v].pc # "setLoggedIn" => data'[sid(v)'].isLoggedIn
        <5>1. CASE v = t
          <6>1. sid(v)' = sid(t) /\ user(v)' = user(t)
            BY <3>1, <5>1 DEF Moved, sid, user
          <6> QED BY <2>1, <2>2, <3>1, <3>2, <5>1, <6>1 DEF LoginInv, Admitting
        <5>2. CASE v # t
          <6>1. thread[v].pc = thread'[v].pc /\ sid(v)' = sid(v) /\ user(v)' = user(v)
            BY <2>1, <5>2 DEF Others, Kept, sid, user
          <6>2. sid(v) \in Ids
            BY <4>1, <6>1, HeldIds DEF TypeInv, Admitting
          <6> QED BY <4>1, <2>2, <3>2, <6>1, <6>2 DEF LoginInv
        <5> QED BY <5>1, <5>2
      <4> QED BY <4>1 DEF LoginInv
    <3>4. OnlineUsersInv'
      <4>1. ASSUME NEW u \in onlineUsers_' \ stranded'
            PROVE  (\E r \in Ids : LoggedInOn(r, u)') \/ (\E v \in Thread : LoggingOut(v, u)')
        <5>1. ASSUME NEW r \in Ids, LoggedInOn(r, u) PROVE LoggedInOn(r, u)'
          BY <2>2, <3>2, <5>1 DEF LoggedInOn
        <5>2. ASSUME NEW v \in Thread, LoggingOut(v, u) PROVE LoggingOut(v, u)'
          <6>1. v # t
            BY <2>2, <5>2
          <6> QED BY <2>1, <5>2, <6>1 DEF LoggingOut, Others, Kept, user
        <5> QED BY <2>2, <3>2, <4>1, <5>1, <5>2 DEF OnlineUsersInv
      <4> QED BY <4>1 DEF OnlineUsersInv
    <3> QED BY <3>3, <3>4
  <2> QED BY <1>4, <2>4, <2>5, <2>6 DEF SessionSteps
<1>5. ASSUME NEW t \in Thread, GameSteps(t) PROVE OnlineInv'
  <2>1. /\ Others(t) /\ thread[t].pc \notin {"destroy", "eraseOnline"}
        /\ thread'[t].pc \notin Admitting
    <3>1. Stepped(t) /\ thread[t].pc \notin {"destroy", "eraseOnline"}
      BY <1>5, GameType, GameAt DEF MovePcs
    <3>2. Ended(t) \/ \E pc \in MovePcs \cup {"eraseGame"} : Moved(t, pc)
      <4>1. {"create", "bind", "human", "judgeHuman", "think", "judgeAi", "aiMove"} \subseteq MovePcs
        BY DEF MovePcs
      <4> QED BY <1>5, <4>1, GameThread DEF GameSteps
    <3> QED BY <3>1, <3>2 DEF Stepped, Ended, Moved, MovePcs, Admitting
  <2>2. Kinder /\ onlineUsers_' = onlineUsers_
    BY <1>5, GameFrame DEF TypeInv, HistoryInv, store, Kinder
  <2> QED BY <2>1, <2>2, LoginQuiet, OnlineQuiet DEF LoggingOut
<1>6. ASSUME NEW t \in Thread, OnlineSteps(t) PROVE OnlineInv'
  <2>1. /\ Stepped(t) /\ Others(t) /\ sid(t) \in Ids
        /\ thread[t].pc \in LoginPcs /\ thread[t].pc \notin {"destroy", "eraseOnline"}
    <3>1. Stepped(t)
      BY <1>6, OnlineType
    <3>2. thread[t].pc \in {"check", "admit", "countOnline", "loadMax", "storeMax"}
      BY <1>6 DEF OnlineSteps, CheckOnline, Admit, CountOnline, LoadMax, StoreMax, At
    <3> QED BY <3>1, <3>2, HeldIds DEF Stepped, TypeInv, LoginPcs
  <2>2. Kinder /\ UNCHANGED <<sessions, expired, data, stranded>>
    BY <1>6 DEF OnlineSteps, CheckOnline, Admit, CountOnline, LoadMax, StoreMax, store, history, Kinder
  <2>3. LoginInv'
    <3>1. CASE Moved(t, "admit") /\ CheckOnline(t)
      BY <2>1, <2>2, <3>1 DEF CheckOnline, At, LoginInv, Moved, Others, Kept, sid, user, Admitting
    <3>2. CASE thread'[t].pc \notin Admitting
      BY <2>1, <2>2, <3>2, LoginQuiet
    <3> QED BY <1>6, <3>1, <3>2, OnlineThread DEF OnlineSteps, Ended, Moved, Admitting
  <2>4. OnlineUsersInv'
    <3>1. CASE Admit(t)
      <4>1. Moved(t, "countOnline") /\ thread[t].pc = "admit" /\ onlineUsers_' = onlineUsers_ \cup {user(t)}
        BY <3>1, OnlineThread DEF Admit, At
      <4>2. user(t) \in stranded \/ LoggedInOn(sid(t), user(t))
        BY <4>1 DEF LoginInv, Admitting, LoggedInOn
      <4>3. ASSUME NEW v \in Thread, NEW u, LoggingOut(v, u) PROVE LoggingOut(v, u)'
        <5>1. v # t
          BY <4>1, <4>3 DEF LoggingOut
        <5> QED BY <2>1, <4>3, <5>1 DEF LoggingOut, Others, Kept, user
      <4> QED BY <2>1, <2>2, <4>1, <4>2, <4>3 DEF OnlineUsersInv, LoggedInOn
    <3>2. CASE ~Admit(t)
      <4>1. onlineUsers_' = onlineUsers_
        BY <1>6, <3>2 DEF OnlineSteps, CheckOnline, CountOnline, LoadMax, StoreMax, app
      <4> QED BY <2>1, <2>2, <4>1, OnlineQuiet DEF LoggingOut
    <3> QED BY <3>1, <3>2
  <2> QED BY <2>3, <2>4
<1>7. ASSUME NEW t \in Thread, LogoutSteps(t) PROVE OnlineInv'
  <2>1. /\ Others(t) /\ sid(t) \in Ids /\ thread[t].op = "logout"
        /\ thread'[t].pc \notin Admitting
    <3>1. Stepped(t)
      BY <1>7, LogoutType
    <3>2. thread[t].op = "logout"
      BY <1>7 DEF LogoutSteps, Clear, Destroy, BadLogoutBody, EraseOnline, At, TypeInv, ThreadInv, Known, LogoutPcs
    <3>3. thread'[t].pc \in {"idle", "destroy", "eraseOnline", "eraseGame"}
      BY <1>7, LogoutThread DEF LogoutSteps, Ended, Moved
    <3> QED BY <3>1, <3>2, <3>3, HeldIds DEF Stepped, TypeInv, Admitting
  <2>2. data \in [Ids -> [user : User \cup {None}, isLoggedIn : BOOLEAN]] /\ None \notin User
    BY AppAssumption DEF AppAssumption, TypeInv, StoreInv
  <2>3. CASE Clear(t)
    <3>1. /\ Moved(t, "destroy") /\ thread[t].pc = "clear" /\ onlineUsers_' = onlineUsers_
          /\ sessions' = sessions /\ expired' = expired
          /\ \A s \in Ids : s # sid(t) => data'[s] = data[s]
      BY <2>1, <2>2, <2>3, LogoutThread DEF Clear, At, app, Cleared
    <3>2. /\ stranded \subseteq stranded'
          /\ data[sid(t)].user \in User => data[sid(t)].user = user(t) \/ data[sid(t)].user \in stranded'
      BY <2>2, <2>3 DEF Clear, Strand
    <3>3. ASSUME NEW v \in Thread, thread[v].pc \in Admitting, sid(v) = sid(t)
          PROVE  user(v) \in stranded'
      <4>1. v \in LoginAtWork(sid(t)) /\ user(v) \in User
        BY <3>3 DEF LoginAtWork, Holds, Admitting, TypeInv, ThreadInv, Known, LoginPcs, sid, user
      <4> QED BY <2>2, <2>3, <4>1 DEF Clear, Strand
    <3>4. LoginInv'
      <4>1. ASSUME NEW v \in Thread, thread'[v].pc \in Admitting
            PROVE  \/ user(v)' \in stranded'
                   \/ /\ sid(v)' \in sessions' \ expired' /\ data'[sid(v)'].user = user(v)'
                      /\ thread'[v].pc # "setLoggedIn" => data'[sid(v)'].isLoggedIn
        <5>1. v # t
          BY <2>1, <4>1
        <5>2. thread[v].pc = thread'[v].pc /\ sid(v)' = sid(v) /\ user(v)' = user(v)
          BY <2>1, <5>1 DEF Others, Kept, sid, user
        <5>3. sid(v) \in Ids
          BY <4>1, <5>2, HeldIds DEF TypeInv, Admitting
        <5> QED BY <4>1, <5>2, <5>3, <3>1, <3>2, <3>3 DEF LoginInv
      <4> QED BY <4>1 DEF LoginInv
    <3>5. OnlineUsersInv'
      <4>1. ASSUME NEW u \in onlineUsers_' \ stranded'
            PROVE  (\E r \in Ids : LoggedInOn(r, u)') \/ (\E v \in Thread : LoggingOut(v, u)')
        <5>1. u \in onlineUsers_ \ stranded /\ u \in User
          BY <3>1, <3>2, <4>1 DEF TypeInv, AppInv
        <5>2. ASSUME NEW r \in Ids, LoggedInOn(r, u)
              PROVE  LoggedInOn(r, u)' \/ LoggingOut(t, u)'
          BY <2>1, <3>1, <3>2, <4>1, <5>1, <5>2 DEF LoggedInOn, LoggingOut, Moved, user
        <5>3. ASSUME NEW v \in Thread, LoggingOut(v, u) PROVE LoggingOut(v, u)'
          <6>1. v # t
            BY <3>1, <5>3 DEF LoggingOut
          <6> QED BY <2>1, <5>3, <6>1 DEF LoggingOut, Others, Kept, user
        <5> QED BY <5>1, <5>2, <5>3 DEF OnlineUsersInv
      <4> QED BY <4>1 DEF OnlineUsersInv
    <3> QED BY <3>4, <3>5
  <2>4. CASE Destroy(t)
    <3>1. /\ Moved(t, "eraseOnline") /\ onlineUsers_' = onlineUsers_
          /\ sessions' = sessions \ {sid(t)} /\ expired' = expired /\ data' = data
      BY <2>4, LogoutThread DEF Destroy, app
    <3>2. /\ stranded \subseteq stranded'
          /\ data[sid(t)].user \in User => data[sid(t)].user \in stranded'
      BY <2>2, <2>4 DEF Destroy, Strand
    <3>3. ASSUME NEW v \in Thread, thread[v].pc \in Admitting, sid(v) = sid(t)
          PROVE  user(v) \in stranded'
      <4>1. v \in LoginAtWork(sid(t)) /\ user(v) \in User
        BY <3>3 DEF LoginAtWork, Holds, Admitting, TypeInv, ThreadInv, Known, LoginPcs, sid, user
      <4> QED BY <2>2, <2>4, <4>1 DEF Destroy, Strand
    <3>4. LoginInv'
      <4>1. ASSUME NEW v \in Thread, thread'[v].pc \in Admitting
            PROVE  \/ user(v)' \in stranded'
                   \/ /\ sid(v)' \in sessions' \ expired' /\ data'[sid(v)'].user = user(v)'
                      /\ thread'[v].pc # "setLoggedIn" => data'[sid(v)'].isLoggedIn
        <5>1. v # t
          BY <2>1, <4>1
        <5>2. thread[v].pc = thread'[v].pc /\ sid(v)' = sid(v) /\ user(v)' = user(v)
          BY <2>1, <5>1 DEF Others, Kept, sid, user
        <5> QED BY <4>1, <5>2, <3>1, <3>2, <3>3 DEF LoginInv
      <4> QED BY <4>1 DEF LoginInv
    <3>5. OnlineUsersInv'
      <4>1. ASSUME NEW u \in onlineUsers_' \ stranded'
            PROVE  (\E r \in Ids : LoggedInOn(r, u)') \/ (\E v \in Thread : LoggingOut(v, u)')
        <5>1. u \in onlineUsers_ \ stranded /\ u \in User
          BY <3>1, <3>2, <4>1 DEF TypeInv, AppInv
        <5>2. ASSUME NEW r \in Ids, LoggedInOn(r, u) PROVE LoggedInOn(r, u)'
          BY <3>1, <3>2, <4>1, <5>1, <5>2 DEF LoggedInOn
        <5>3. ASSUME NEW v \in Thread, LoggingOut(v, u) PROVE LoggingOut(v, u)'
          <6>1. CASE v = t
            BY <3>1, <5>3, <6>1 DEF LoggingOut, Moved, user
          <6>2. CASE v # t
            BY <2>1, <5>3, <6>2 DEF LoggingOut, Others, Kept, user
          <6> QED BY <6>1, <6>2
        <5> QED BY <5>1, <5>2, <5>3 DEF OnlineUsersInv
      <4> QED BY <4>1 DEF OnlineUsersInv
    <3> QED BY <3>4, <3>5
  <2>5. CASE BadLogoutBody(t) \/ EraseOnline(t)
    <3>1. Kinder /\ onlineUsers_' \subseteq onlineUsers_
      BY <2>5 DEF BadLogoutBody, EraseOnline, Strand, store, app, Erased, Kinder
    <3>2. \A u \in User : LoggingOut(t, u) => u \in stranded' \/ u \notin onlineUsers_'
      BY <2>2, <2>5 DEF BadLogoutBody, EraseOnline, Strand, Erased, LoggingOut
    <3> QED BY <2>1, <3>1, <3>2, LoginQuiet, OnlineQuiet
  <2> QED BY <1>7, <2>3, <2>4, <2>5 DEF LogoutSteps
<1>8. ASSUME UNCHANGED <<client, store, app, thread, history>> PROVE OnlineInv'
  BY <1>8 DEF store, app, history, LoginInv, OnlineUsersInv, LoggedInOn, LoggingOut, sid, user
<1> QED BY <1>1, <1>2, <1>3, <1>4, <1>5, <1>6, <1>7, <1>8, NextCases

(* A user in onlineUsers_, who is refused at the next login, has a live      *)
(* session that is logged in, or a logout of that user is about to remove    *)
(* the entry, unless one of the events in Strand took the session away       *)
(* (LoginHandler.cpp:39-65, Loginout.cpp:22-34).                             *)
THEOREM OnlineUserHasSession == Spec => []OnlineHasSession
<1>1. Init => OnlineInv
  <2> SUFFICES ASSUME Init PROVE OnlineInv
    OBVIOUS
  <2>1. \A t \in Thread : thread[t].pc = "idle"
    BY IdleIs DEF Init
  <2> QED BY <2>1 DEF Init, OnlineInv, LoginInv, OnlineUsersInv, Admitting
<1>2. TypeInv /\ OnlineInv => OnlineHasSession
  <2> SUFFICES ASSUME TypeInv, OnlineInv, NEW u \in onlineUsers_ \ stranded
               PROVE  \/ LoggedInAs(u) # {}
                      \/ \E t \in Busy : user(t) = u /\ thread[t].op \in {"login", "logout"}
    BY DEF OnlineHasSession
  <2>1. CASE \E s \in Ids : LoggedInOn(s, u)
    BY <2>1 DEF LoggedInOn, LoggedInAs
  <2>2. CASE \E t \in Thread : LoggingOut(t, u)
    BY <2>2 DEF LoggingOut, TypeInv, ThreadInv, Known, LogoutPcs, Busy
  <2> QED BY <2>1, <2>2 DEF OnlineInv, OnlineUsersInv
<1> QED BY <1>1, <1>2, TypeInit, TypeStep, OnlineStep, PTL DEF Spec
=============================================================================
