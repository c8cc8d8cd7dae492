------------------------------ MODULE GomokuApp ------------------------------
(***************************************************************************)
(* The Gomoku application: the handlers that share the session storage,    *)
(* the table of online users and the table of games, run by the event-loop *)
(* threads of the server.  A handler runs from getSession to its response  *)
(* on one thread; other threads interleave at every access to shared       *)
(* state, which the code takes without a lock but for the two mutexes of   *)
(* GomokuServer.  An access to one container is one step.                  *)
(*                                                                         *)
(* A game is what the handlers ask of it: going on, won by one side, full, *)
(* or the null pointer that aiGames_[userId] inserts for a missing key.    *)
(***************************************************************************)
EXTENDS Integers, FiniteSets

CONSTANTS Thread,        \* the event-loop threads
          Browser,       \* the clients, each with its cookie
          User,          \* the registered users
          None,          \* no session, no user
          MaxRequests    \* bound on the requests handled

ASSUME AppAssumption ==
    /\ MaxRequests \in Nat
    /\ IsFiniteSet(Thread) /\ IsFiniteSet(User) /\ None \notin User

Ids == 1..MaxRequests    \* every request makes at most one session
Operations == {"login", "visit", "start", "move", "logout"}

VARIABLES
    cookie,       \* the session id each browser sends
    requests,     \* how many requests were taken
    sessions,     \* MemorySessionStorage::sessions_, the ids it holds
    expired,      \* the sessions past their expiryTime_
    data,         \* Session::data_ of every session object, stored or not
    nextId,       \* generateSessionId never repeats itself
    onlineUsers_, aiGames_, maxOnline_,
    thread,       \* the handler each thread runs
    crashed,      \* the process is gone
    loggedOut,    \* history: sessions whose logout was answered with 200
    loginSince,   \* history: sessions with a login at work since they were cleared
    stranded,     \* history: users left online without a session, see Strand
    usedFreed     \* history: a move has read or written freed memory and gone on

store == <<sessions, expired, data, nextId>>
app == <<onlineUsers_, aiGames_, maxOnline_>>
client == <<cookie, requests>>
history == <<loggedOut, loginSince, stranded, usedFreed>>
vars == <<client, store, app, thread, crashed, history>>

-----------------------------------------------------------------------------
Nobody == [user |-> None, isLoggedIn |-> FALSE]
Idle == [pc |-> "idle", op |-> "visit", browser |-> None, sid |-> None,
         user |-> None, isNew |-> FALSE, count |-> 0, game |-> "none", this |-> "none"]

Init ==
    /\ cookie = [b \in Browser |-> None] /\ requests = 0
    /\ sessions = {} /\ expired = {} /\ nextId = 1
    /\ data = [s \in Ids |-> Nobody]
    /\ onlineUsers_ = {} /\ maxOnline_ = 0
    /\ aiGames_ = [u \in User |-> "none"]
    /\ thread = [t \in Thread |-> Idle]
    /\ crashed = FALSE
    /\ loggedOut = {} /\ loginSince = {} /\ stranded = {} /\ usedFreed = FALSE

At(t, pc) == ~crashed /\ thread[t].pc = pc
sid(t) == thread[t].sid
user(t) == thread[t].user

Goto(t, pc) == thread' = [thread EXCEPT ![t].pc = pc]
(* The response carries the cookie of a session made for this request. *)
SetCookie(t) ==
    cookie' = IF thread[t].isNew THEN [cookie EXCEPT ![thread[t].browser] = sid(t)] ELSE cookie
Reply(t) ==
    /\ thread' = [thread EXCEPT ![t] = Idle]
    /\ SetCookie(t)
    /\ UNCHANGED requests

Holds(t, s) == thread[t].sid = s /\ thread[t].pc \notin {"idle", "load"}
LoginAtWork(s) == {t \in Thread : Holds(t, s) /\ thread[t].op = "login"}
Strand(us) == stranded' = stranded \cup (us \ {None})

-----------------------------------------------------------------------------
(* A thread gets a request of a browser; for a login, of a user whose        *)
(* password the database has.                                                *)
Take(t, b, op, u) ==
    /\ At(t, "idle") /\ requests < MaxRequests
    /\ (op = "login") <=> (u # None)
    /\ thread' = [thread EXCEPT ![t] =
           [Idle EXCEPT !.pc = "load", !.op = op, !.browser = b, !.sid = cookie[b], !.user = u]]
    /\ requests' = requests + 1
    /\ UNCHANGED <<cookie, store, app, crashed, history>>

(* An hour passes without a request on a session; no handler is that slow. *)
Expire(s) ==
    /\ ~crashed /\ s \in sessions \ expired
    /\ \A t \in Thread : ~Holds(t, s)
    /\ expired' = expired \cup {s}
    /\ Strand({data[s].user})
    /\ UNCHANGED <<client, sessions, data, nextId, app, thread, crashed, loggedOut, loginSince, usedFreed>>

-----------------------------------------------------------------------------
(* SessionManager::getSession: load, which drops an expired session, or a    *)
(* new session; then refresh and save, which may come after another thread   *)
(* has destroyed the session.                                                *)
Load(t) ==
    LET found == sid(t) \in sessions \ expired
        s == IF found THEN sid(t) ELSE nextId
    IN  /\ At(t, "load")
        /\ sessions' = IF found THEN sessions ELSE sessions \ {sid(t)}
        /\ expired' = expired \ {sid(t)}
        /\ nextId' = IF found THEN nextId ELSE nextId + 1
        /\ thread' = [thread EXCEPT ![t].pc = "save", ![t].sid = s, ![t].isNew = ~found]
        /\ loginSince' = IF thread[t].op = "login" THEN loginSince \cup {s} ELSE loginSince
        /\ UNCHANGED <<client, data, app, crashed, loggedOut, stranded, usedFreed>>

AfterSave(op) ==
    CASE op = "login" -> "setUser"
      [] op = "logout" -> "readUser"
      [] OTHER -> "checkLogin"

Save(t) ==
    /\ At(t, "save")
    /\ sessions' = sessions \cup {sid(t)}
    /\ Goto(t, AfterSave(thread[t].op))
    /\ UNCHANGED <<client, expired, data, nextId, app, crashed, history>>

(* session->getValue("isLoggedIn") != "true": 401.  The pages only need that. *)
CheckLogin(t) ==
    /\ At(t, "checkLogin")
    /\ IF data[sid(t)].isLoggedIn /\ thread[t].op # "visit"
       THEN Goto(t, "readUser") /\ UNCHANGED client
       ELSE Reply(t)
    /\ UNCHANGED <<store, app, crashed, history>>

(* std::stoi of a missing userId throws: 400 from logout, 500 from a game. *)
ReadUser(t) ==
    /\ At(t, "readUser")
    /\ IF data[sid(t)].user = None
       THEN Reply(t)
       ELSE /\ thread' = [thread EXCEPT ![t].user = data[sid(t)].user,
                              ![t].pc = CASE thread[t].op = "logout" -> "clear"
                                          [] thread[t].op = "start" -> "newGame"
                                          [] thread[t].op = "move" -> "find"]
            /\ UNCHANGED client
    /\ UNCHANGED <<store, app, crashed, history>>

-----------------------------------------------------------------------------
(* LoginHandler.  setValue saves the session again each time.  Whoever was   *)
(* logged in on this session stays online, with no session to log out from.  *)
SetUser(t) ==
    /\ At(t, "setUser")
    /\ data' = [data EXCEPT ![sid(t)].user = user(t)]
    /\ sessions' = sessions \cup {sid(t)}
    /\ Strand({data[sid(t)].user} \ {user(t)})
    /\ Goto(t, "setLoggedIn")
    /\ UNCHANGED <<client, expired, nextId, app, crashed, loggedOut, loginSince, usedFreed>>

SetLoggedIn(t) ==
    /\ At(t, "setLoggedIn")
    /\ data' = [data EXCEPT ![sid(t)].isLoggedIn = TRUE]
    /\ sessions' = sessions \cup {sid(t)}
    /\ Goto(t, "check")
    /\ UNCHANGED <<client, expired, nextId, app, crashed, history>>

(* The check takes no lock; a user found online gets 403. *)
CheckOnline(t) ==
    /\ At(t, "check")
    /\ IF user(t) \in onlineUsers_ THEN Reply(t) ELSE Goto(t, "admit") /\ UNCHANGED client
    /\ UNCHANGED <<store, app, crashed, history>>

Admit(t) ==
    /\ At(t, "admit")
    /\ onlineUsers_' = onlineUsers_ \cup {user(t)}
    /\ Goto(t, "countOnline")
    /\ UNCHANGED <<client, store, aiGames_, maxOnline_, crashed, history>>

(* updateMaxOnline(onlineUsers_.size()): the size, the load and the store.   *)
CountOnline(t) ==
    /\ At(t, "countOnline")
    /\ thread' = [thread EXCEPT ![t].pc = "loadMax", ![t].count = Cardinality(onlineUsers_)]
    /\ UNCHANGED <<client, store, app, crashed, history>>

AddedUp(max, online) == max + online         \* counts logins, not users
HigherOf(max, online) == IF max > online THEN max ELSE online

LoadMax(t) ==
    /\ At(t, "loadMax")
    /\ thread' = [thread EXCEPT ![t].pc = "storeMax", ![t].count = HigherOf(maxOnline_, @)]
    /\ UNCHANGED <<client, store, app, crashed, history>>

StoreMax(t) ==
    /\ At(t, "storeMax")
    /\ maxOnline_' = thread[t].count
    /\ Reply(t)
    /\ UNCHANGED <<store, onlineUsers_, aiGames_, crashed, history>>

-----------------------------------------------------------------------------
(* LogoutHandler: the session is cleared, then destroyed.  A login at work   *)
(* on it, or one that changed its user since it was read, is cleared too.    *)
NotCleared(d, s) == d              \* "destroySession drops it anyway"
Cleared(d, s) == [d EXCEPT ![s] = Nobody]

Clear(t) ==
    /\ At(t, "clear")
    /\ data' = Cleared(data, sid(t))
    /\ Strand(({data[sid(t)].user} \ {user(t)}) \cup {user(l) : l \in LoginAtWork(sid(t))})
    /\ loginSince' = IF LoginAtWork(sid(t)) = {} THEN loginSince \ {sid(t)} ELSE loginSince
    /\ Goto(t, "destroy")
    /\ UNCHANGED <<client, sessions, expired, nextId, app, crashed, loggedOut, usedFreed>>

Destroy(t) ==
    /\ At(t, "destroy")
    /\ sessions' = sessions \ {sid(t)}
    /\ Strand({data[sid(t)].user} \cup {user(l) : l \in LoginAtWork(sid(t))})
    /\ Goto(t, "eraseOnline")
    /\ UNCHANGED <<client, expired, data, nextId, app, crashed, loggedOut, loginSince, usedFreed>>

(* Only now is the body parsed: without a gameType it throws, 400. *)
BadLogoutBody(t) ==
    /\ At(t, "eraseOnline")
    /\ Strand({user(t)})
    /\ Reply(t)
    /\ UNCHANGED <<store, app, crashed, loggedOut, loginSince, usedFreed>>

NotErased(users, u) == users       \* the erase from onlineUsers_ is missing
Erased(users, u) == users \ {u}

EraseOnline(t) ==
    /\ At(t, "eraseOnline")
    /\ onlineUsers_' = Erased(onlineUsers_, user(t))
    /\ \/ Goto(t, "eraseGame") /\ UNCHANGED <<client, loggedOut>>     \* MAN_VS_AI
       \/ Reply(t) /\ loggedOut' = loggedOut \cup {sid(t)}
    /\ UNCHANGED <<store, aiGames_, maxOnline_, crashed, loginSince, stranded, usedFreed>>

-----------------------------------------------------------------------------
(* aiGames_.  A move keeps a reference into the table, and inside aiMove     *)
(* `this`.  After the entry is erased both dangle; when a new entry or game  *)
(* takes its place, each may well point to the new one.                      *)
Pointers == {"valid", "dangling"}
Repoint(th, u, refs, these) ==
    [t \in Thread |-> IF thread[t].game = "none" \/ thread[t].user # u THEN th[t]
                      ELSE [th[t] EXCEPT !.game = IF refs = "same" THEN @ ELSE refs,
                                         !.this = IF these = "same" \/ @ = "none" THEN @ ELSE these]]

(* Of a logout, or of a move after which the game is over. *)
EraseGame(t) ==
    /\ At(t, "eraseGame")
    /\ aiGames_' = [aiGames_ EXCEPT ![user(t)] = "none"]
    /\ thread' = [Repoint(thread, user(t), "dangling", "dangling") EXCEPT ![t] = Idle]
    /\ SetCookie(t)
    /\ loggedOut' = IF thread[t].op = "logout" THEN loggedOut \cup {sid(t)} ELSE loggedOut
    /\ UNCHANGED <<requests, store, onlineUsers_, maxOnline_, crashed, loginSince, stranded, usedFreed>>

(* AiGameStartHandler and restartChessGameVsAi: erase and create, locked. *)
NewGame(t) ==
    /\ At(t, "newGame")
    /\ aiGames_' = [aiGames_ EXCEPT ![user(t)] = "playing"]
    /\ \E ref, this \in Pointers :
          thread' = [Repoint(thread, user(t), ref, this) EXCEPT ![t] = Idle]
    /\ SetCookie(t)
    /\ UNCHANGED <<requests, store, onlineUsers_, maxOnline_, crashed, history>>

(* AiGameMoveHandler.  A body that is not JSON throws before the lookup.     *)
BadMoveBody(t) ==
    /\ At(t, "find")
    /\ Reply(t)
    /\ UNCHANGED <<store, app, crashed, history>>

(* find without the lock, then create under it, then operator[] without it. *)
Find(t) ==
    /\ At(t, "find")
    /\ Goto(t, IF aiGames_[user(t)] = "none" THEN "create" ELSE "bind")
    /\ UNCHANGED <<client, store, app, crashed, history>>

(* In an entry another thread has made meanwhile the game is replaced, and   *)
(* the references to the entry stay good.                                    *)
Create(t) ==
    /\ At(t, "create")
    /\ aiGames_' = [aiGames_ EXCEPT ![user(t)] = "playing"]
    /\ \E ref \in IF aiGames_[user(t)] = "none" THEN Pointers ELSE {"same"}, this \in Pointers :
          thread' = [Repoint(thread, user(t), ref, this) EXCEPT ![t].pc = "bind"]
    /\ UNCHANGED <<client, store, onlineUsers_, maxOnline_, crashed, history>>

Bind(t) ==
    /\ At(t, "bind")
    /\ aiGames_' = [aiGames_ EXCEPT ![user(t)] = IF @ = "none" THEN "null" ELSE @]
    /\ \E ref \in IF aiGames_[user(t)] = "none" THEN Pointers ELSE {"same"} :
          thread' = [Repoint(thread, user(t), ref, "same")
                        EXCEPT ![t].pc = "human", ![t].game = "valid"]
    /\ UNCHANGED <<client, store, onlineUsers_, maxOnline_, crashed, history>>

Crash(t) ==        \* a memory fault: nothing more happens in the process
    /\ crashed' = TRUE
    /\ UNCHANGED <<client, store, app, thread, history>>

(* What the thread finds through its reference: the game, or nothing it can  *)
(* rely on.  Memory that was freed may still read as a game in any state.    *)
Seen(t) == IF thread[t].game = "valid" THEN aiGames_[user(t)] ELSE "freed"
MayBe(t, states) == Seen(t) \in states \cup {"freed"}
MayFault(t) == Seen(t) \in {"freed", "null"}
Uses(freed) ==
    /\ usedFreed' = (usedFreed \/ freed)
    /\ UNCHANGED <<loggedOut, loginSince, stranded>>
AfterMove == {"playing", "won", "full"}

(* Refused: outside of the board, which is found without looking at the      *)
(* game, on a cell that is taken, or in a game that is over.                 *)
MoveInvalid(t) ==
    /\ At(t, "human")
    /\ Reply(t)
    /\ UNCHANGED <<store, app, crashed, history>>

HumanMove(t) ==
    /\ At(t, "human") /\ MayBe(t, {"playing"})
    /\ \E after \in AfterMove :
          aiGames_' = IF Seen(t) = "freed" THEN aiGames_ ELSE [aiGames_ EXCEPT ![user(t)] = after]
    /\ Goto(t, "judgeHuman")
    /\ UNCHANGED <<client, store, onlineUsers_, maxOnline_, crashed>>
    /\ Uses(Seen(t) = "freed")

(* isGameOver() or isDraw(): the game is removed and the client told.        *)
OverWhenWon == {"won"}             \* without the check for a draw
Over == {"won", "full"}

JudgesOver(t) ==
    /\ At(t, "judgeHuman") \/ At(t, "judgeAi")
    /\ MayBe(t, Over)
    /\ Goto(t, "eraseGame")
    /\ UNCHANGED <<client, store, app, crashed>>
    /\ Uses(Seen(t) = "freed")

JudgesOpen(t) ==
    /\ MayBe(t, AfterMove \ Over)
    /\ \/ At(t, "judgeHuman") /\ Goto(t, "think") /\ UNCHANGED client
       \/ At(t, "judgeAi") /\ Reply(t)
    /\ UNCHANGED <<store, app, crashed>>
    /\ Uses(Seen(t) = "freed")

(* aiMove returns at once from a game that is over; else it sleeps for 500   *)
(* ms and then moves, whatever has become of the game.                       *)
Think(t) ==
    /\ At(t, "think")
    /\ \/ MayBe(t, {"won", "full"}) /\ Goto(t, "judgeAi")
       \/ /\ MayBe(t, {"playing"})
          /\ thread' = [thread EXCEPT ![t].pc = "aiMove",
                            ![t].this = IF Seen(t) = "freed" THEN "dangling" ELSE "valid"]
    /\ UNCHANGED <<client, store, app, crashed>>
    /\ Uses(Seen(t) = "freed")

AiMove(t) ==
    LET lost == thread[t].this = "dangling"
    IN  /\ At(t, "aiMove")
        /\ \E after \in AfterMove :
              aiGames_' = IF lost \/ aiGames_[user(t)] # "playing" THEN aiGames_
                          ELSE [aiGames_ EXCEPT ![user(t)] = after]
        /\ thread' = [thread EXCEPT ![t].pc = "judgeAi", ![t].this = "none"]
        /\ UNCHANGED <<client, store, onlineUsers_, maxOnline_, crashed>>
        /\ Uses(lost)

(* A null or dangling pointer, or a move on a board without an empty cell.   *)
Fault(t) ==
    \/ /\ At(t, "human") \/ At(t, "judgeHuman") \/ At(t, "judgeAi") \/ At(t, "think")
       /\ MayFault(t)
       /\ Crash(t)
    \/ /\ At(t, "aiMove")
       /\ thread[t].this = "dangling" \/ aiGames_[user(t)] # "playing"
       /\ Crash(t)

-----------------------------------------------------------------------------
Handler(t) ==
    \/ Load(t) \/ Save(t) \/ CheckLogin(t) \/ ReadUser(t)
    \/ SetUser(t) \/ SetLoggedIn(t) \/ CheckOnline(t) \/ Admit(t)
    \/ CountOnline(t) \/ LoadMax(t) \/ StoreMax(t)
    \/ Clear(t) \/ Destroy(t) \/ BadLogoutBody(t) \/ EraseOnline(t)
    \/ EraseGame(t) \/ NewGame(t)
    \/ BadMoveBody(t) \/ Find(t) \/ Create(t) \/ Bind(t)
    \/ MoveInvalid(t) \/ HumanMove(t) \/ JudgesOver(t) \/ JudgesOpen(t)
    \/ Think(t) \/ AiMove(t) \/ Fault(t)

Next ==
    \/ \E t \in Thread, b \in Browser, op \in Operations, u \in User \cup {None} : Take(t, b, op, u)
    \/ \E s \in Ids : Expire(s)
    \/ \E t \in Thread : Handler(t)

Spec == Init /\ [][Next]_vars

-----------------------------------------------------------------------------
Busy == {t \in Thread : thread[t].pc # "idle"}
LoggedInAs(u) == {s \in sessions \ expired : data[s].isLoggedIn /\ data[s].user = u}

TypeOK ==
    /\ cookie \in [Browser -> Ids \cup {None}] /\ requests \in 0..MaxRequests
    /\ sessions \subseteq Ids /\ expired \subseteq sessions /\ nextId \in 1..(requests + 1)
    /\ data \in [Ids -> [user : User \cup {None}, isLoggedIn : BOOLEAN]]
    /\ onlineUsers_ \subseteq User /\ maxOnline_ \in 0..Cardinality(User)
    /\ aiGames_ \in [User -> AfterMove \cup {"none", "null"}]
    /\ crashed \in BOOLEAN /\ usedFreed \in BOOLEAN
    /\ loggedOut \cup loginSince \subseteq Ids /\ stranded \subseteq User
    /\ \A t \in Thread : thread[t].pc # "idle" => thread[t].op \in Operations

(* A session that was logged out (logout answered with 200), and that nobody *)
(* has logged in on since, is not logged in, although a handler that loaded  *)
(* it before it was destroyed may save it again (SessionManager.cpp:41).     *)
LogoutEndsSession ==
    \A s \in loggedOut \ loginSince : ~(s \in sessions /\ data[s].isLoggedIn)

(* A user who counts as online, and so is refused at the next login, has a   *)
(* live session to log out from, unless the session has expired, a logout    *)
(* failed at its body, another user logged in on the session, or a logout    *)
(* overlapped a login on it (LoginHandler.cpp:39, Loginout.cpp:22-34).       *)
OnlineHasSession ==
    \A u \in onlineUsers_ \ stranded :
        \/ LoggedInAs(u) # {}
        \/ \E t \in Busy : user(t) = u /\ thread[t].op \in {"login", "logout"}

(* A game that is over is not left in aiGames_, where it would refuse every  *)
(* further move of its user; the move that ended it, or one that came        *)
(* between, removes it (AiGameMoveHandler.cpp:53-147), as long as no move    *)
(* has gone on with memory that was freed.                                   *)
NoFinishedGameKept ==
    \A u \in User : aiGames_[u] \in {"won", "full"} =>
        usedFreed \/ \E t \in Busy : thread[t].op = "move" /\ user(t) = u

(* LoginHandler.cpp:65, "no duplicate login": a user is logged in on one     *)
(* session at most.  The code breaks it: the session is marked logged in     *)
(* before the check, and a refused login leaves it so.                       *)
NoDuplicateLogin ==
    Busy = {} => \A u \in User : Cardinality(LoggedInAs(u)) <= 1
=============================================================================
