-------------------------- MODULE DbConnectionPool --------------------------
(***************************************************************************)
(* http::db::DbConnectionPool: a queue of MySQL connections behind one     *)
(* mutex and one condition variable.  The event-loop threads borrow a      *)
(* connection for one statement (MysqlUtil); a detached thread pings the   *)
(* idle connections from time to time.                                     *)
(*                                                                         *)
(* A critical section that does not block is one action, enabled when      *)
(* nobody holds mutex_; the one section that blocks is the check thread's: *)
(* it sleeps a second with the mutex held when it finds the queue empty.   *)
(* init() that throws ends the process (main catches nothing), so only     *)
(* its success is modelled, and no thread calls getConnection before it.   *)
(***************************************************************************)
EXTENDS Integers, FiniteSets, SequencesExt

CONSTANTS Threads,     \* the event-loop threads that run handlers
          PoolSize,    \* how many connections init() creates
          NoConn       \* a thread that holds no connection

Conns == 1..PoolSize   \* numbered in the order init() creates them

ASSUME PoolAssumption ==
    /\ IsFiniteSet(Threads)
    /\ PoolSize \in Nat \ {0}
    /\ NoConn \notin Conns

VARIABLES
    initialized_,   \* init() is done
    connections_,   \* the queue of idle connections
    napping,        \* the check thread sleeps with mutex_ held
    pc,             \* where each thread is in a statement
    conn,           \* the connection each thread has popped
    up,             \* the connections whose link to MySQL works
    checkPc,        \* where the check thread is
    connsToCheck    \* its copy of the queue

vars == <<initialized_, connections_, napping, pc, conn, up, checkPc, connsToCheck>>
checkVars == <<checkPc, connsToCheck>>

MutexFree == ~napping
Waiting == {t \in Threads : pc[t] = "waiting"}   \* blocked in cv_.wait
Woken == {t \in Threads : pc[t] = "woken"}       \* notified, mutex not yet retaken

Init ==
    /\ initialized_ = FALSE
    /\ connections_ = <<>>
    /\ napping = FALSE
    /\ pc = [t \in Threads |-> "idle"]
    /\ conn = [t \in Threads |-> NoConn]
    /\ up = Conns
    /\ checkPc = "scan"
    /\ connsToCheck = <<>>

-----------------------------------------------------------------------------
(* init(): the main thread, once, while the check thread already runs *)
InitPool ==
    /\ ~initialized_ /\ MutexFree
    /\ connections_' = [i \in Conns |-> i]
    /\ initialized_' = TRUE
    /\ UNCHANGED <<napping, pc, conn, up, checkVars>>

(* A handler runs a statement: MysqlUtil::executeQuery / executeUpdate. *)
Call(t) ==
    /\ initialized_
    /\ pc[t] = "idle"
    /\ pc' = [pc EXCEPT ![t] = "lock"]
    /\ UNCHANGED <<initialized_, connections_, napping, conn, up, checkVars>>

(* The loop of getConnection finds the queue empty: wait, releasing mutex_. *)
WaitForConnection(t) ==
    /\ connections_ = <<>>
    /\ pc' = [pc EXCEPT ![t] = "waiting"]
    /\ UNCHANGED <<connections_, conn>>

(* It finds a connection: pop it and leave the critical section. *)
PopConnection(t) ==
    /\ connections_ # <<>>
    /\ conn' = [conn EXCEPT ![t] = Head(connections_)]
    /\ connections_' = Tail(connections_)
    /\ pc' = [pc EXCEPT ![t] = "ping"]

(* getConnection takes mutex_, first or again after a wake-up. *)
GetConnection(t) ==
    /\ pc[t] \in {"lock", "woken"}
    /\ MutexFree
    /\ WaitForConnection(t) \/ PopConnection(t)
    /\ UNCHANGED <<initialized_, napping, up, checkVars>>

(* cv_.wait may return without a notification. *)
SpuriousWakeup(t) ==
    /\ pc[t] = "waiting"
    /\ pc' = [pc EXCEPT ![t] = "woken"]
    /\ UNCHANGED <<initialized_, connections_, napping, conn, up, checkVars>>

(* conn->ping(), outside the lock *)
Ping(t) ==
    /\ pc[t] = "ping"
    /\ pc' = [pc EXCEPT ![t] = IF conn[t] \in up THEN "query" ELSE "reconnect"]
    /\ UNCHANGED <<initialized_, connections_, napping, conn, up, checkVars>>

(* conn->reconnect(): restores the link, or throws *)
Reconnect(t) ==
    /\ pc[t] = "reconnect"
    /\ \/ /\ up' = up \cup {conn[t]}
          /\ pc' = [pc EXCEPT ![t] = "query"]
       \/ /\ pc' = [pc EXCEPT ![t] = "failed"]
          /\ UNCHANGED up
    /\ UNCHANGED <<initialized_, connections_, napping, conn, checkVars>>

Push(t) ==
    /\ connections_' = Append(connections_, conn[t])
    /\ conn' = [conn EXCEPT ![t] = NoConn]

(* cv_.notify_one wakes any one waiter, if there is one. *)
NotifyOne(t) ==
    \/ /\ Waiting = {}
       /\ pc' = [pc EXCEPT ![t] = "idle"]
    \/ \E w \in Waiting : pc' = [pc EXCEPT ![t] = "idle", ![w] = "woken"]

(* The statement is over, with a result or an exception; the deleter of the  *)
(* borrowed pointer puts the connection back.                                *)
GiveBack(t) ==
    /\ pc[t] = "query"
    /\ MutexFree
    /\ Push(t)
    /\ NotifyOne(t)
    /\ UNCHANGED <<initialized_, napping, up, checkVars>>

ForgetToNotify(t) ==
    /\ pc[t] = "failed" /\ MutexFree
    /\ Push(t)
    /\ pc' = [pc EXCEPT ![t] = "idle"]
    /\ UNCHANGED <<initialized_, napping, up, checkVars>>
ForgetToPush(t) ==
    /\ pc[t] = "failed" /\ MutexFree
    /\ conn' = [conn EXCEPT ![t] = NoConn]
    /\ NotifyOne(t)
    /\ UNCHANGED <<initialized_, connections_, napping, up, checkVars>>
PushTwice(t) ==
    /\ pc[t] = "failed" /\ MutexFree
    /\ connections_' = connections_ \o <<conn[t], conn[t]>>
    /\ conn' = [conn EXCEPT ![t] = NoConn]
    /\ NotifyOne(t)
    /\ UNCHANGED <<initialized_, napping, up, checkVars>>
PushNothing(t) ==
    /\ pc[t] = "failed" /\ MutexFree
    /\ conn' = [conn EXCEPT ![t] = NoConn]
    /\ connections_' = Append(connections_, conn'[t])
    /\ NotifyOne(t)
    /\ UNCHANGED <<initialized_, napping, up, checkVars>>

(* The catch block: the connection goes back and the exception goes on. *)
ReturnAfterError(t) ==
    /\ pc[t] = "failed"
    /\ MutexFree
    /\ Push(t)
    /\ NotifyOne(t)
    /\ UNCHANGED <<initialized_, napping, up, checkVars>>

(* MySQL or the network drops an established link. *)
LoseLink(c) ==
    /\ up' = up \ {c}
    /\ UNCHANGED <<initialized_, connections_, napping, pc, conn, checkVars>>

-----------------------------------------------------------------------------
(* The check thread: one action per statement that blocks or may interleave. *)

(* It takes mutex_; an empty queue makes it sleep without releasing it. *)
CheckScan ==
    /\ checkPc = "scan"
    /\ MutexFree
    /\ \/ /\ connections_ = <<>>
          /\ napping' = TRUE
          /\ checkPc' = "nap"
          /\ UNCHANGED connsToCheck
       \/ /\ connections_ # <<>>
          /\ connsToCheck' = connections_
          /\ checkPc' = "check"
          /\ UNCHANGED napping
    /\ UNCHANGED <<initialized_, connections_, pc, conn, up>>

NapUntilNonempty ==
    /\ checkPc = "nap"
    /\ connections_ # <<>>
    /\ napping' = FALSE
    /\ checkPc' = "scan"
    /\ UNCHANGED <<initialized_, connections_, pc, conn, up, connsToCheck>>

(* continue: the destructor of the lock releases mutex_ *)
CheckNap ==
    /\ checkPc = "nap"
    /\ napping' = FALSE
    /\ checkPc' = "scan"
    /\ UNCHANGED <<initialized_, connections_, pc, conn, up, connsToCheck>>

NextToCheck == IF Len(connsToCheck) = 1 THEN "sleep" ELSE "check"

(* It pings the next connection of its copy, borrowed meanwhile or not. *)
CheckPing ==
    /\ checkPc = "check"
    /\ IF Head(connsToCheck) \in up
       THEN checkPc' = NextToCheck /\ connsToCheck' = Tail(connsToCheck)
       ELSE checkPc' = "reconnect" /\ UNCHANGED connsToCheck
    /\ UNCHANGED <<initialized_, connections_, napping, pc, conn, up>>

(* It reconnects it; a failure is logged and the loop goes on. *)
CheckReconnect ==
    /\ checkPc = "reconnect"
    /\ up' \in {up, up \cup {Head(connsToCheck)}}
    /\ checkPc' = NextToCheck
    /\ connsToCheck' = Tail(connsToCheck)
    /\ UNCHANGED <<initialized_, connections_, napping, pc, conn>>

CheckSleep ==
    /\ checkPc = "sleep"
    /\ checkPc' = "scan"
    /\ UNCHANGED <<initialized_, connections_, napping, pc, conn, up, connsToCheck>>

CheckConnections == CheckScan \/ CheckNap \/ CheckPing \/ CheckReconnect \/ CheckSleep

-----------------------------------------------------------------------------
Handler(t) ==
    \/ Call(t) \/ GetConnection(t) \/ SpuriousWakeup(t)
    \/ Ping(t) \/ Reconnect(t) \/ GiveBack(t) \/ ReturnAfterError(t)

Next ==
    \/ InitPool
    \/ \E t \in Threads : Handler(t)
    \/ \E c \in Conns : LoseLink(c)
    \/ CheckConnections

(* Only steps that need no lock are sure to be taken: statements on a link   *)
(* end, sleeps end.  Nothing makes a handler call, a link fail or a waiter   *)
(* wake by itself, and nothing grants mutex_ to whoever waits for it.        *)
Fairness ==
    /\ WF_vars(CheckNap) /\ WF_vars(CheckPing) /\ WF_vars(CheckReconnect) /\ WF_vars(CheckSleep)
    /\ \A t \in Threads : WF_vars(Ping(t)) /\ WF_vars(Reconnect(t))

(* An assumption about the platform, which the code does not give: a thread  *)
(* that asks for mutex_ and finds it free again and again gets it in the     *)
(* end.  std::mutex promises no order, and checkConnections, which sleeps    *)
(* with mutex_ held, unlocks and locks it again with nothing in between.     *)
TakesMutex(t) == GetConnection(t) \/ GiveBack(t) \/ ReturnAfterError(t)
MutexIsFair == SF_vars(InitPool) /\ \A t \in Threads : SF_vars(TakesMutex(t))

Spec == Init /\ [][Next]_vars
FairSpec == Spec /\ Fairness

-----------------------------------------------------------------------------
Holding == {"ping", "reconnect", "query", "failed"}
PCs == {"idle", "lock", "waiting", "woken"} \cup Holding
CheckPCs == {"scan", "nap", "check", "reconnect", "sleep"}
Queued == ToSet(connections_)

(* Every variable has its type: the queue and the check thread's copy hold   *)
(* connections, a thread that is not between pop and push holds none.        *)
TypeOK ==
    /\ initialized_ \in BOOLEAN
    /\ connections_ \in Seq(Conns)
    /\ napping \in BOOLEAN
    /\ pc \in [Threads -> PCs]
    /\ conn \in [Threads -> Conns \cup {NoConn}]
    /\ up \in SUBSET Conns
    /\ checkPc \in CheckPCs
    /\ connsToCheck \in Seq(Conns)

(* Whatever fails between pop and push, every connection of an initialized   *)
(* pool is in the queue once or in the hands of one thread, never in both,   *)
(* in two places or in none (getConnection, its deleter and its catch).      *)
NoneQueuedTwice == IsInjective(connections_)
OneHolder ==
    \A t, u \in Threads : conn[t] = conn[u] /\ conn[t] # NoConn => t = u
NeverQueuedAndHeld == \A t \in Threads : conn[t] \notin Queued
NoneLost ==
    initialized_ => \A c \in Conns : c \in Queued \/ \E t \in Threads : conn[t] = c
Conservation == NoneQueuedTwice /\ OneHolder /\ NeverQueuedAndHeld /\ NoneLost

(* While a thread sleeps in cv_.wait, every connection in the queue has a    *)
(* woken thread on its way to take it: one notify_one per push is enough,    *)
(* even when a newcomer takes the connection first.                          *)
NoLostWakeup == Waiting # {} => Len(connections_) <= Cardinality(Woken)

(* If mutex_ is fair, a thread that asks for a connection, or waits for one, *)
(* is not forgotten with the whole pool: some thread gets a connection (the  *)
(* waiter itself may be overtaken for ever, notify_one promises no order).   *)
PoolProgress ==
    MutexIsFair =>
        ((\E t \in Threads : pc[t] \in {"lock", "waiting", "woken"})
            ~> (\E t \in Threads : pc[t] = "ping"))

(* If mutex_ is fair, a borrowed connection comes back although returning it *)
(* needs the mutex that the check thread keeps while it sleeps.              *)
EveryConnectionReturns ==
    MutexIsFair => \A t \in Threads : pc[t] \in Holding ~> conn[t] = NoConn

(* The pool implements the abstract one: the queue as a set, the popped      *)
(* connection as the held resource.                                          *)
Abstract == INSTANCE ResourcePool WITH
    Clients <- Threads, Resources <- Conns, NoResource <- NoConn,
    opened <- initialized_, free <- Queued, holds <- conn
ImplementsResourcePool == Abstract!Spec
=============================================================================
