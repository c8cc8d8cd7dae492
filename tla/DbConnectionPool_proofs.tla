----------------------- MODULE DbConnectionPool_proofs -----------------------
(***************************************************************************)
(* Proofs about the connection pool for every set of threads and every     *)
(* pool size: typing, conservation of the connections, no lost wake-up,    *)
(* and the implementation of ResourcePool.                                 *)
(***************************************************************************)
EXTENDS DbConnectionPool, FiniteSetTheorems, SequenceTheorems, TLAPS

(* What ties the program counters to the data.                               *)
Coherence ==
    /\ \A t \in Threads : conn[t] # NoConn <=> pc[t] \in Holding
    /\ ~initialized_ => connections_ = <<>> /\ \A t \in Threads : pc[t] = "idle"
    /\ checkPc \in {"check", "reconnect"} => connsToCheck # <<>>

TypeInv == TypeOK /\ Coherence

THEOREM TypeInvInit == Init => TypeInv
<1> SUFFICES ASSUME Init PROVE TypeInv
  OBVIOUS
<1> USE DEF Init, PCs, CheckPCs, Holding
<1>1. TypeOK
  BY EmptySeq DEF TypeOK
<1>2. Coherence
  <2>1. ASSUME NEW t \in Threads PROVE conn[t] # NoConn <=> pc[t] \in Holding
    <3>1. conn[t] = NoConn /\ pc[t] = "idle"
      OBVIOUS
    <3> QED BY <3>1
  <2>2. \A t \in Threads : pc[t] = "idle"
    OBVIOUS
  <2> QED BY <2>1, <2>2 DEF Coherence
<1> QED BY <1>1, <1>2 DEF TypeInv

(* What the check thread's loop needs to know of its copy of the queue.      *)
LEMMA TailOfCopy ==
    ASSUME connsToCheck \in Seq(Conns), connsToCheck # <<>>
    PROVE  /\ Head(connsToCheck) \in Conns
           /\ Tail(connsToCheck) \in Seq(Conns)
           /\ Len(connsToCheck) # 1 => Tail(connsToCheck) # <<>>
<1>1. Len(connsToCheck) \in Nat /\ Len(connsToCheck) # 0
  OBVIOUS
<1>2. Len(Tail(connsToCheck)) = Len(connsToCheck) - 1
  BY <1>1
<1>3. Tail(connsToCheck) = <<>> => Len(Tail(connsToCheck)) = 0
  BY EmptySeq
<1> QED BY <1>1, <1>2, <1>3

THEOREM TypeInvStep == TypeInv /\ [Next]_vars => TypeInv'
<1> SUFFICES ASSUME TypeInv, [Next]_vars PROVE TypeInv'
  OBVIOUS
<1> USE PoolAssumption DEF TypeInv, TypeOK, Coherence, PCs, CheckPCs, Holding, checkVars, MutexFree
<1>1. CASE InitPool
  BY <1>1 DEF InitPool, Conns
<1>2. ASSUME NEW t \in Threads, Call(t) PROVE TypeInv'
  BY <1>2 DEF Call
<1>3. ASSUME NEW t \in Threads, GetConnection(t) PROVE TypeInv'
  <2>1. CASE WaitForConnection(t)
    BY <1>3, <2>1 DEF GetConnection, WaitForConnection
  <2>2. CASE PopConnection(t)
    BY <1>3, <2>2 DEF GetConnection, PopConnection
  <2> QED BY <1>3, <2>1, <2>2 DEF GetConnection
<1>4. ASSUME NEW t \in Threads, SpuriousWakeup(t) PROVE TypeInv'
  BY <1>4 DEF SpuriousWakeup
<1>5. ASSUME NEW t \in Threads, Ping(t) PROVE TypeInv'
  BY <1>5 DEF Ping
<1>6. ASSUME NEW t \in Threads, Reconnect(t) PROVE TypeInv'
  BY <1>6 DEF Reconnect
<1>7. ASSUME NEW t \in Threads, GiveBack(t) PROVE TypeInv'
  <2>1. initialized_ /\ conn[t] \in Conns
    BY <1>7 DEF GiveBack
  <2>2. Append(connections_, conn[t]) \in Seq(Conns)
    BY <2>1
  <2>3. connections_' \in Seq(Conns) /\ initialized_'
    BY <1>7, <2>1, <2>2 DEF GiveBack, Push
  <2>4. PICK w \in Threads :
           \/ pc' = [pc EXCEPT ![t] = "idle"]
           \/ pc[w] = "waiting" /\ pc' = [pc EXCEPT ![t] = "idle", ![w] = "woken"]
    BY <1>7 DEF GiveBack, NotifyOne, Waiting
  <2> QED BY <1>7, <2>1, <2>3, <2>4 DEF GiveBack, Push
<1>8. ASSUME NEW t \in Threads, ReturnAfterError(t) PROVE TypeInv'
  <2>1. initialized_ /\ conn[t] \in Conns
    BY <1>8 DEF ReturnAfterError
  <2>2. Append(connections_, conn[t]) \in Seq(Conns)
    BY <2>1
  <2>3. connections_' \in Seq(Conns) /\ initialized_'
    BY <1>8, <2>1, <2>2 DEF ReturnAfterError, Push
  <2>4. PICK w \in Threads :
           \/ pc' = [pc EXCEPT ![t] = "idle"]
           \/ pc[w] = "waiting" /\ pc' = [pc EXCEPT ![t] = "idle", ![w] = "woken"]
    BY <1>8 DEF ReturnAfterError, NotifyOne, Waiting
  <2> QED BY <1>8, <2>1, <2>3, <2>4 DEF ReturnAfterError, Push
<1>9. ASSUME NEW c \in Conns, LoseLink(c) PROVE TypeInv'
  BY <1>9 DEF LoseLink
<1>10. CASE CheckConnections
  <2>1. CASE CheckScan
    BY <2>1 DEF CheckScan
  <2>2. CASE CheckNap
    BY <2>2 DEF CheckNap
  <2>3. CASE CheckPing
    <3>1. connsToCheck \in Seq(Conns) /\ connsToCheck # <<>>
      BY <2>3 DEF CheckPing
    <3> QED BY <2>3, <3>1, TailOfCopy DEF CheckPing, NextToCheck
  <2>4. CASE CheckReconnect
    <3>1. connsToCheck \in Seq(Conns) /\ connsToCheck # <<>>
      BY <2>4 DEF CheckReconnect
    <3> QED BY <2>4, <3>1, TailOfCopy DEF CheckReconnect, NextToCheck
  <2>5. CASE CheckSleep
    BY <2>5 DEF CheckSleep
  <2> QED BY <1>10, <2>1, <2>2, <2>3, <2>4, <2>5 DEF CheckConnections
<1>11. CASE UNCHANGED vars
  BY <1>11 DEF vars
<1> QED
  BY <1>1, <1>2, <1>3, <1>4, <1>5, <1>6, <1>7, <1>8, <1>9, <1>10, <1>11 DEF Next, Handler

(* The types and the coherence of program counters and data always hold.     *)
THEOREM TypeCorrect == Spec => []TypeOK
<1>1. TypeInv => TypeOK
  BY DEF TypeInv
<1> QED BY <1>1, TypeInvInit, TypeInvStep, PTL DEF Spec

-----------------------------------------------------------------------------
(* What popping and pushing do to the set of queued connections.             *)
LEMMA PopSeq ==
    ASSUME NEW S, NEW s \in Seq(S), s # <<>>, IsInjective(s)
    PROVE  /\ IsInjective(Tail(s))
           /\ ToSet(Tail(s)) = ToSet(s) \ {Head(s)}
           /\ Head(s) \in ToSet(s)
<1>1. Len(s) \in Nat \ {0} /\ DOMAIN s = 1..Len(s)
  BY EmptySeq
<1>2. /\ Head(s) = s[1]
      /\ DOMAIN Tail(s) = 1..(Len(s) - 1)
      /\ \A i \in 1..(Len(s) - 1) : Tail(s)[i] = s[i + 1]
  BY <1>1
<1>3. IsInjective(Tail(s))
  <2> SUFFICES ASSUME NEW i \in 1..(Len(s) - 1), NEW j \in 1..(Len(s) - 1),
                      Tail(s)[i] = Tail(s)[j]
               PROVE  i = j
    BY <1>2 DEF IsInjective
  <2>1. s[i + 1] = s[j + 1] /\ i + 1 \in DOMAIN s /\ j + 1 \in DOMAIN s
    BY <1>1, <1>2
  <2> QED BY <2>1, <1>1 DEF IsInjective
<1>4. ASSUME NEW x PROVE x \in ToSet(Tail(s)) <=> x \in ToSet(s) /\ x # Head(s)
  <2>1. ASSUME NEW i \in 1..(Len(s) - 1), x = Tail(s)[i]
        PROVE  x \in ToSet(s) /\ x # Head(s)
    <3>1. x = s[i + 1] /\ i + 1 \in DOMAIN s /\ 1 \in DOMAIN s /\ i + 1 # 1
      BY <2>1, <1>1, <1>2
    <3> QED BY <3>1, <1>2 DEF IsInjective, ToSet
  <2>2. ASSUME NEW i \in 1..Len(s), x = s[i], x # Head(s)
        PROVE  x \in ToSet(Tail(s))
    <3>1. i - 1 \in 1..(Len(s) - 1) /\ (i - 1) + 1 = i
      BY <2>2, <1>1, <1>2
    <3>2. Tail(s)[i - 1] = x
      BY <3>1, <2>2, <1>2
    <3> QED BY <3>1, <3>2, <1>2 DEF ToSet
  <2> QED BY <2>1, <2>2, <1>1, <1>2 DEF ToSet
<1>5. Head(s) \in ToSet(s)
  BY <1>1, <1>2 DEF ToSet
<1> QED BY <1>3, <1>4, <1>5

LEMMA PushSeq ==
    ASSUME NEW S, NEW s \in Seq(S), NEW x \in S
    PROVE  /\ ToSet(Append(s, x)) = ToSet(s) \cup {x}
           /\ IsInjective(s) /\ x \notin ToSet(s) => IsInjective(Append(s, x))
<1>1. Len(s) \in Nat /\ DOMAIN s = 1..Len(s)
  OBVIOUS
<1>2. /\ DOMAIN Append(s, x) = 1..(Len(s) + 1)
      /\ \A i \in 1..Len(s) : Append(s, x)[i] = s[i]
      /\ Append(s, x)[Len(s) + 1] = x
  BY <1>1
<1>3. \A i \in 1..(Len(s) + 1) : i \in 1..Len(s) \/ i = Len(s) + 1
  BY <1>1
<1>4. ToSet(Append(s, x)) = ToSet(s) \cup {x}
  <2>1. 1..Len(s) \subseteq 1..(Len(s) + 1) /\ Len(s) + 1 \in 1..(Len(s) + 1)
    BY <1>1
  <2>2. ASSUME NEW y PROVE y \in ToSet(Append(s, x)) <=> y \in ToSet(s) \cup {x}
    BY <2>1, <1>1, <1>2, <1>3 DEF ToSet
  <2> QED BY <2>2
<1>5. ASSUME IsInjective(s), x \notin ToSet(s) PROVE IsInjective(Append(s, x))
  <2>1. \A i \in 1..Len(s) : s[i] # x
    BY <1>5, <1>1 DEF ToSet
  <2> QED BY <2>1, <1>1, <1>2, <1>3, <1>5 DEF IsInjective
<1> QED BY <1>4, <1>5

-----------------------------------------------------------------------------
(* A push gives the connection of t back: what is true of both actions that  *)
(* push, the deleter's and the catch block's.                                *)
LEMMA PushConserves ==
    ASSUME TypeInv, Conservation, NEW t \in Threads,
           pc[t] \in Holding, Push(t), UNCHANGED initialized_
    PROVE  /\ Conservation'
           /\ Queued' = Queued \cup {conn[t]}
           /\ conn' = [conn EXCEPT ![t] = NoConn]
           /\ conn[t] \in Conns
<1>1. conn[t] \in Conns /\ connections_ \in Seq(Conns)
  BY DEF TypeInv, TypeOK, Coherence
<1>2. conn[t] \notin Queued /\ IsInjective(connections_)
  BY DEF Conservation, NeverQueuedAndHeld, NoneQueuedTwice
<1>3. Queued' = Queued \cup {conn[t]} /\ IsInjective(connections_')
  BY <1>1, <1>2, PushSeq DEF Push, Queued
<1>4. /\ conn' = [conn EXCEPT ![t] = NoConn]
      /\ \A u \in Threads : conn'[u] = IF u = t THEN NoConn ELSE conn[u]
  BY DEF Push, TypeInv, TypeOK
<1>5. NeverQueuedAndHeld'
  <2>1. ASSUME NEW u \in Threads PROVE conn'[u] \notin Queued'
    <3>1. CASE u = t
      <4>1. NoConn \notin Queued
        BY <1>1, PoolAssumption, ElementOfSeq DEF Queued, ToSet, PoolAssumption
      <4> QED BY <4>1, <3>1, <1>1, <1>3, <1>4, PoolAssumption DEF PoolAssumption
    <3>2. CASE u # t
      <4>1. conn[u] # conn[t]
        BY <3>2, <1>1, PoolAssumption DEF Conservation, OneHolder, PoolAssumption
      <4> QED BY <4>1, <3>2, <1>3, <1>4 DEF Conservation, NeverQueuedAndHeld
    <3> QED BY <3>1, <3>2
  <2> QED BY <2>1 DEF NeverQueuedAndHeld
<1>6. OneHolder'
  BY <1>4 DEF Conservation, OneHolder
<1>7. NoneLost'
  BY <1>3, <1>4 DEF Conservation, NoneLost
<1> QED BY <1>1, <1>3, <1>4, <1>5, <1>6, <1>7 DEF Conservation, NoneQueuedTwice

LEMMA PopConserves ==
    ASSUME TypeInv, Conservation, NEW t \in Threads,
           pc[t] \notin Holding, PopConnection(t), UNCHANGED initialized_
    PROVE  /\ Conservation'
           /\ \E c \in Queued : /\ Queued' = Queued \ {c}
                               /\ conn' = [conn EXCEPT ![t] = c]
           /\ conn[t] = NoConn
<1>1. connections_ \in Seq(Conns) /\ connections_ # <<>> /\ conn[t] = NoConn
  BY DEF TypeInv, TypeOK, Coherence, PopConnection
<1> DEFINE c == Head(connections_)
<1>2. IsInjective(connections_') /\ Queued' = Queued \ {c} /\ c \in Queued
  BY <1>1, PopSeq DEF PopConnection, Queued, Conservation, NoneQueuedTwice
<1>3. /\ conn' = [conn EXCEPT ![t] = c]
      /\ \A u \in Threads : conn'[u] = IF u = t THEN c ELSE conn[u]
  BY DEF PopConnection, TypeInv, TypeOK
<1> HIDE DEF c
<1>4. \A u \in Threads : conn[u] # c
  BY <1>2 DEF Conservation, NeverQueuedAndHeld
<1>5. NeverQueuedAndHeld'
  BY <1>2, <1>3, <1>4 DEF Conservation, NeverQueuedAndHeld
<1>6. OneHolder'
  BY <1>3, <1>4 DEF Conservation, OneHolder
<1>7. NoneLost'
  BY <1>1, <1>2, <1>3, PoolAssumption DEF Conservation, NoneLost, PoolAssumption
<1> QED BY <1>1, <1>2, <1>3, <1>5, <1>6, <1>7 DEF Conservation, NoneQueuedTwice

(* A step fills the pool, pops, pushes, or leaves the connections alone.     *)
LEMMA StepShape ==
    ASSUME [Next]_vars
    PROVE  \/ UNCHANGED <<initialized_, connections_, conn>>
           \/ InitPool
           \/ \E t \in Threads : /\ pc[t] \notin Holding
                                 /\ PopConnection(t)
                                 /\ UNCHANGED initialized_
           \/ \E t \in Threads : /\ pc[t] \in Holding
                                 /\ Push(t)
                                 /\ UNCHANGED initialized_
<1>1. CASE UNCHANGED vars
  BY <1>1 DEF vars
<1>2. ASSUME NEW t \in Threads, Handler(t)
      PROVE  \/ UNCHANGED <<initialized_, connections_, conn>>
             \/ pc[t] \notin Holding /\ PopConnection(t) /\ UNCHANGED initialized_
             \/ pc[t] \in Holding /\ Push(t) /\ UNCHANGED initialized_
  BY <1>2 DEF Handler, Call, GetConnection, WaitForConnection, SpuriousWakeup,
              Ping, Reconnect, GiveBack, ReturnAfterError, Holding
<1>3. ASSUME NEW c \in Conns, LoseLink(c)
      PROVE  UNCHANGED <<initialized_, connections_, conn>>
  BY <1>3 DEF LoseLink
<1>4. CASE CheckConnections
  BY <1>4 DEF CheckConnections, CheckScan, CheckNap, CheckPing, CheckReconnect, CheckSleep
<1> QED BY <1>1, <1>2, <1>3, <1>4 DEF Next

LEMMA FillConserves ==
    ASSUME TypeInv, InitPool
    PROVE  Conservation' /\ Queued = {} /\ Queued' = Conns /\ initialized_'
<1>1. connections_' = [i \in 1..PoolSize |-> i] /\ initialized_' /\ UNCHANGED conn
  BY DEF InitPool, Conns
<1>2. Queued' = Conns /\ IsInjective(connections_')
  BY <1>1 DEF Queued, ToSet, Conns, IsInjective
<1>3. connections_ = <<>> /\ \A t \in Threads : conn[t] = NoConn
  BY DEF InitPool, TypeInv, TypeOK, Coherence, Holding
<1>4. Queued = {}
  BY <1>3 DEF Queued, ToSet
<1>5. NeverQueuedAndHeld' /\ OneHolder' /\ NoneLost'
  BY <1>1, <1>2, <1>3, PoolAssumption
     DEF NeverQueuedAndHeld, OneHolder, NoneLost, PoolAssumption
<1> QED BY <1>1, <1>2, <1>4, <1>5 DEF Conservation, NoneQueuedTwice

LEMMA ConservationInit == Init => Conservation
<1> SUFFICES ASSUME Init PROVE Conservation
  OBVIOUS
<1>1. /\ connections_ = <<>> /\ initialized_ = FALSE
      /\ \A t \in Threads : conn[t] = NoConn
  BY DEF Init
<1>2. Queued = {} /\ IsInjective(connections_)
  BY <1>1 DEF Queued, ToSet, IsInjective
<1> QED BY <1>1, <1>2 DEF Conservation, NoneQueuedTwice, OneHolder, NeverQueuedAndHeld, NoneLost

LEMMA ConservationStep == TypeInv /\ Conservation /\ [Next]_vars => Conservation'
<1> SUFFICES ASSUME TypeInv, Conservation, [Next]_vars PROVE Conservation'
  OBVIOUS
<1>1. CASE UNCHANGED <<initialized_, connections_, conn>>
  BY <1>1 DEF Conservation, NoneQueuedTwice, OneHolder, NeverQueuedAndHeld, NoneLost, Queued
<1>2. CASE InitPool
  BY <1>2, FillConserves
<1> QED BY <1>1, <1>2, StepShape, PopConserves, PushConserves

(* No connection is ever lost, duplicated or shared, whichever calls fail.   *)
THEOREM PoolConserves == Spec => []Conservation
BY TypeInvInit, TypeInvStep, ConservationInit, ConservationStep, PTL DEF Spec

-----------------------------------------------------------------------------
(* The pool implements the abstract one.                                     *)
THEOREM PoolImplementsResourcePool == Spec => ImplementsResourcePool
<1>1. Init => Abstract!Init
  <2> SUFFICES ASSUME Init PROVE Abstract!Init
    OBVIOUS
  <2>1. Queued = {}
    BY DEF Init, Queued, ToSet
  <2> QED BY <2>1 DEF Init, Abstract!Init
<1>2. TypeInv /\ Conservation /\ [Next]_vars => [Abstract!Next]_(Abstract!vars)
  <2> SUFFICES ASSUME TypeInv, Conservation, [Next]_vars
               PROVE  [Abstract!Next]_(Abstract!vars)
    OBVIOUS
  <2>1. CASE UNCHANGED <<initialized_, connections_, conn>>
    BY <2>1 DEF Abstract!vars, Queued
  <2>2. CASE InitPool
    <3>1. Abstract!Open
      BY <2>2, FillConserves DEF InitPool, Abstract!Open, TypeInv, TypeOK
    <3> QED BY <3>1 DEF Abstract!Next
  <2>3. ASSUME NEW t \in Threads, pc[t] \notin Holding, PopConnection(t),
               UNCHANGED initialized_
        PROVE  Abstract!Take(t)
    BY <2>3, PopConserves DEF Abstract!Take
  <2>4. ASSUME NEW t \in Threads, pc[t] \in Holding, Push(t), UNCHANGED initialized_
        PROVE  Abstract!GiveBack(t)
    BY <2>4, PushConserves, PoolAssumption DEF Abstract!GiveBack, PoolAssumption
  <2> QED BY <2>1, <2>2, <2>3, <2>4, StepShape DEF Abstract!Next
<1> QED
  BY <1>1, <1>2, TypeInvInit, TypeInvStep, ConservationInit, ConservationStep, PTL
     DEF Spec, ImplementsResourcePool, Abstract!Spec

-----------------------------------------------------------------------------
LEMMA WokenFinite ==
    ASSUME NEW S, S \subseteq Threads
    PROVE  IsFiniteSet(S) /\ Cardinality(S) \in Nat
BY PoolAssumption, FS_Subset, FS_CardinalityType DEF PoolAssumption

LEMMA PopKeepsWakeups ==
    ASSUME TypeInv, NoLostWakeup, NEW t \in Threads,
           pc[t] \in {"lock", "woken"}, PopConnection(t)
    PROVE  NoLostWakeup'
<1>1. Waiting' = Waiting /\ Woken' = Woken \ {t}
  BY DEF PopConnection, TypeInv, TypeOK, Waiting, Woken
<1>2. Len(connections_') = Len(connections_) - 1 /\ Len(connections_) \in Nat
  BY EmptySeq DEF PopConnection, TypeInv, TypeOK
<1>3. /\ IsFiniteSet(Woken) /\ Cardinality(Woken) \in Nat
      /\ Cardinality(Woken \ {t}) \in {Cardinality(Woken), Cardinality(Woken) - 1}
  BY WokenFinite, FS_RemoveElement DEF Woken
<1> QED BY <1>1, <1>2, <1>3 DEF NoLostWakeup

LEMMA PushKeepsWakeups ==
    ASSUME TypeInv, NoLostWakeup, NEW t \in Threads,
           pc[t] \in Holding, Push(t), NotifyOne(t)
    PROVE  NoLostWakeup'
<1>1. CASE Waiting = {} /\ pc' = [pc EXCEPT ![t] = "idle"]
  <2>1. Waiting' = {}
    BY <1>1 DEF TypeInv, TypeOK, Waiting
  <2> QED BY <2>1 DEF NoLostWakeup
<1>2. ASSUME NEW w \in Waiting, pc' = [pc EXCEPT ![t] = "idle", ![w] = "woken"]
      PROVE  NoLostWakeup'
  <2>1. w \in Threads /\ w \notin Woken /\ w # t /\ t \notin Woken
    BY DEF Waiting, Woken, Holding
  <2>2. Woken' = Woken \cup {w}
    BY <1>2, <2>1 DEF TypeInv, TypeOK, Woken
  <2>3. Cardinality(Woken') = Cardinality(Woken) + 1 /\ Cardinality(Woken) \in Nat
    <3>1. IsFiniteSet(Woken) /\ Cardinality(Woken) \in Nat
      BY WokenFinite DEF Woken
    <3> QED BY <3>1, <2>1, <2>2, FS_AddElement
  <2>4. Len(connections_') = Len(connections_) + 1 /\ Len(connections_) \in Nat
    BY DEF Push, TypeInv, TypeOK, Coherence
  <2>5. Waiting # {}
    OBVIOUS
  <2> QED BY <2>3, <2>4, <2>5 DEF NoLostWakeup
<1> QED BY <1>1, <1>2 DEF NotifyOne

LEMMA WakeupsStep == TypeInv /\ NoLostWakeup /\ [Next]_vars => NoLostWakeup'
<1> SUFFICES ASSUME TypeInv, NoLostWakeup, [Next]_vars PROVE NoLostWakeup'
  OBVIOUS
<1>1. CASE InitPool
  <2>1. Waiting' = {}
    BY <1>1 DEF InitPool, TypeInv, Coherence, Waiting
  <2> QED BY <2>1 DEF NoLostWakeup
<1>2. ASSUME NEW t \in Threads, GetConnection(t) PROVE NoLostWakeup'
  <2>1. CASE WaitForConnection(t)
    <3>1. Len(connections_') = 0
      BY <2>1, EmptySeq DEF WaitForConnection
    <3>2. Cardinality(Woken') \in Nat
      BY WokenFinite DEF Woken
    <3> QED BY <3>1, <3>2 DEF NoLostWakeup
  <2> QED BY <1>2, <2>1, PopKeepsWakeups DEF GetConnection
<1>3. ASSUME NEW t \in Threads, SpuriousWakeup(t) PROVE NoLostWakeup'
  <2>1. /\ Woken' = Woken \cup {t} /\ t \notin Woken
        /\ Waiting # {} /\ UNCHANGED connections_
    BY <1>3 DEF SpuriousWakeup, TypeInv, TypeOK, Woken, Waiting
  <2>2. Cardinality(Woken') = Cardinality(Woken) + 1 /\ Cardinality(Woken) \in Nat
    <3>1. IsFiniteSet(Woken) /\ Cardinality(Woken) \in Nat
      BY WokenFinite DEF Woken
    <3> QED BY <3>1, <2>1, FS_AddElement
  <2>3. Len(connections_) \in Nat
    BY DEF TypeInv, TypeOK
  <2> QED BY <2>1, <2>2, <2>3 DEF NoLostWakeup
<1>4. ASSUME NEW t \in Threads, GiveBack(t) \/ ReturnAfterError(t) PROVE NoLostWakeup'
  BY <1>4, PushKeepsWakeups DEF GiveBack, ReturnAfterError, Holding
<1>5. ASSUME NEW t \in Threads, Call(t) \/ Ping(t) \/ Reconnect(t) PROVE NoLostWakeup'
  <2>1. Waiting' = Waiting /\ Woken' = Woken /\ UNCHANGED connections_
    BY <1>5 DEF Call, Ping, Reconnect, TypeInv, TypeOK, Waiting, Woken
  <2> QED BY <2>1 DEF NoLostWakeup
<1>6. CASE UNCHANGED <<pc, connections_>>
  BY <1>6 DEF NoLostWakeup, Waiting, Woken
<1>7. ASSUME NEW c \in Conns, LoseLink(c) PROVE NoLostWakeup'
  BY <1>6, <1>7 DEF LoseLink
<1>8. CASE CheckConnections
  BY <1>6, <1>8
     DEF CheckConnections, CheckScan, CheckNap, CheckPing, CheckReconnect, CheckSleep
<1>9. CASE UNCHANGED vars
  BY <1>6, <1>9 DEF vars
<1> QED
  BY <1>1, <1>2, <1>3, <1>4, <1>5, <1>7, <1>8, <1>9 DEF Next, Handler

(* An idle connection and a sleeping waiter never coexist without a woken    *)
(* thread for every connection in the queue.                                 *)
THEOREM PoolLosesNoWakeup == Spec => []NoLostWakeup
<1>1. Init => NoLostWakeup
  BY DEF Init, NoLostWakeup, Waiting
<1> QED BY <1>1, TypeInvInit, TypeInvStep, WakeupsStep, PTL DEF Spec
=============================================================================
