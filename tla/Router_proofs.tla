---------------------------- MODULE Router_proofs ----------------------------
(***************************************************************************)
(* Proofs about the routing table: for any methods, paths, patterns and    *)
(* handlers, and registrations of any number and order, a request reaches  *)
(* the handler that the registrations promise.                             *)
(***************************************************************************)
EXTENDS Router, FiniteSetTheorems, WellFoundedInduction, TLAPS

(* A non-empty set of naturals has a least member.                           *)
LEMMA LeastIndex ==
    ASSUME NEW S \in SUBSET Nat, S # {}
    PROVE  \E x \in S : \A y \in S : x <= y
<1> DEFINE R == StrictSubsetOrdering(Nat)
           F == FiniteSubsetsOf(Nat)
           T == {0..x : x \in S}
<1>1. IsWellFoundedOn(R, F)
  BY FS_StrictSubsetOrderingWellFounded
<1>2. T \subseteq F /\ T # {}
  <2>1. \A x \in S : 0..x \subseteq Nat /\ IsFiniteSet(0..x)
    BY FS_Interval
  <2> QED BY <2>1 DEF FiniteSubsetsOf
<1>3. PICK m \in T : \A n \in T : ~(<<n, m>> \in R)
  <2> HIDE DEF R, F, T
  <2> QED BY <1>1, <1>2, WFMin
<1>4. PICK x \in S : m = 0..x
  OBVIOUS
<1>5. ASSUME NEW y \in S, y < x PROVE FALSE
  <2>1. x \in 0..x /\ x \notin 0..y
    BY <1>5
  <2>2. 0..y \in T /\ 0..y \subseteq 0..x /\ 0..y # 0..x
    BY <1>5, <2>1
  <2>3. <<0..y, 0..x>> \in R
    BY <2>2, <1>2 DEF StrictSubsetOrdering, FiniteSubsetsOf
  <2> QED BY <2>2, <2>3, <1>3, <1>4
<1> QED BY <1>5

-----------------------------------------------------------------------------
(* How the four parts of the table come from the history of registrations:   *)
(* an exact route is the newest of its kind, method and path; a dynamic one  *)
(* stands where its registration stands among those of its kind.             *)
Declaration == [kind : Kinds, method : Method, path : Path \cup Pattern, handler : Handler]

Same(d, kind, method, path) ==
    {i \in DOMAIN d : d[i].kind = kind /\ d[i].method = method /\ d[i].path = path}

Newest(d, kind, f) ==
    \A method \in Method, path \in Path :
        \/ /\ f[<<method, path>>] = NoHandler
           /\ Same(d, kind, method, path) = {}
        \/ /\ f[<<method, path>>] # NoHandler
           /\ \E i \in Same(d, kind, method, path) :
                 /\ d[i].handler = f[<<method, path>>]
                 /\ \A j \in Same(d, kind, method, path) : j <= i

Entry(kind, r) == [kind |-> kind, method |-> r.method, path |-> r.path, handler |-> r.handler]

Places(d, kind, routes, pos) ==
    /\ pos \in [DOMAIN routes -> DOMAIN d]
    /\ \A i, j \in DOMAIN routes : i < j => pos[i] < pos[j]
    /\ \A i \in DOMAIN routes : d[pos[i]] = Entry(kind, routes[i])
    /\ \A k \in DOMAIN d : d[k].kind = kind => \E i \in DOMAIN routes : pos[i] = k
InOrder(d, kind, routes) == \E pos : Places(d, kind, routes, pos)

TableType ==
    /\ declared \in Seq(Declaration)
    /\ handlers_ \in [Key -> Handler \cup {NoHandler}]
    /\ callbacks_ \in [Key -> Handler \cup {NoHandler}]
    /\ regexHandlers_ \in Seq(Dynamic) /\ regexCallbacks_ \in Seq(Dynamic)

TableInv ==
    /\ TableType
    /\ Newest(declared, "handler", handlers_) /\ Newest(declared, "callback", callbacks_)
    /\ InOrder(declared, "regexHandler", regexHandlers_)
    /\ InOrder(declared, "regexCallback", regexCallbacks_)

LEMMA TableInit == RouterInit => TableInv
<1> SUFFICES ASSUME RouterInit PROVE TableInv
  OBVIOUS
<1>1. TableType
  BY DEF RouterInit, TableType
<1>2. DOMAIN declared = {} /\ DOMAIN regexHandlers_ = {} /\ DOMAIN regexCallbacks_ = {}
  BY DEF RouterInit
<1>3. Newest(declared, "handler", handlers_) /\ Newest(declared, "callback", callbacks_)
  BY <1>2 DEF RouterInit, Newest, Same, Key
<1>4. InOrder(declared, "regexHandler", regexHandlers_) /\ InOrder(declared, "regexCallback", regexCallbacks_)
  <2> DEFINE none == [i \in {} |-> 0]
  <2>1. none \in [{} -> {}]
    OBVIOUS
  <2> QED BY <1>2, <2>1 DEF InOrder, Places
<1> QED BY <1>1, <1>3, <1>4 DEF TableInv

-----------------------------------------------------------------------------
(* One registration e after the registrations d.                             *)
LEMMA Appended ==
    ASSUME NEW S, NEW d \in Seq(S), NEW e \in S
    PROVE  /\ Append(d, e) \in Seq(S)
           /\ Len(d) \in Nat /\ DOMAIN d = 1..Len(d)
           /\ Len(Append(d, e)) = Len(d) + 1
           /\ DOMAIN Append(d, e) = DOMAIN d \cup {Len(d) + 1}
           /\ Append(d, e)[Len(d) + 1] = e
           /\ \A i \in DOMAIN d : Append(d, e)[i] = d[i]
OBVIOUS

LEMMA NewestGrows ==
    ASSUME NEW d \in Seq(Declaration), NEW e \in Declaration, NEW kind, e.kind # kind,
           NEW f, Newest(d, kind, f)
    PROVE  Newest(Append(d, e), kind, f)
<1> DEFINE n == Append(d, e)
<1>1. /\ DOMAIN n = DOMAIN d \cup {Len(d) + 1} /\ n[Len(d) + 1] = e
      /\ \A i \in DOMAIN d : n[i] = d[i]
  BY Appended
<1> HIDE DEF n
<1>2. \A method, path : Same(n, kind, method, path) = Same(d, kind, method, path)
  BY <1>1 DEF Same
<1>3. \A method, path : \A i \in Same(d, kind, method, path) : n[i] = d[i]
  BY <1>1 DEF Same
<1>4. ASSUME NEW method \in Method, NEW path \in Path
      PROVE  \/ f[<<method, path>>] = NoHandler /\ Same(n, kind, method, path) = {}
             \/ /\ f[<<method, path>>] # NoHandler
                /\ \E i \in Same(n, kind, method, path) :
                      /\ n[i].handler = f[<<method, path>>]
                      /\ \A j \in Same(n, kind, method, path) : j <= i
  <2> DEFINE same == Same(d, kind, method, path)
  <2>1. Same(n, kind, method, path) = same /\ \A i \in same : n[i] = d[i]
    BY <1>2, <1>3
  <2>2. \/ f[<<method, path>>] = NoHandler /\ same = {}
        \/ /\ f[<<method, path>>] # NoHandler
           /\ \E i \in same : d[i].handler = f[<<method, path>>] /\ \A j \in same : j <= i
    BY DEF Newest
  <2> HIDE DEF same
  <2> QED BY <2>1, <2>2
<1> QED BY <1>4 DEF n, Newest

LEMMA NewestSet ==
    ASSUME NEW d \in Seq(Declaration), NEW e \in Declaration, NEW kind, e.kind = kind, e.path \in Path,
           NEW f \in [Key -> Handler \cup {NoHandler}], Newest(d, kind, f)
    PROVE  Newest(Append(d, e), kind, [f EXCEPT ![<<e.method, e.path>>] = e.handler])
<1> DEFINE n == Append(d, e)
           g == [f EXCEPT ![<<e.method, e.path>>] = e.handler]
<1>1. /\ DOMAIN n = DOMAIN d \cup {Len(d) + 1} /\ n[Len(d) + 1] = e
      /\ \A i \in DOMAIN d : n[i] = d[i]
      /\ Len(d) \in Nat /\ DOMAIN d = 1..Len(d)
  BY Appended
<1>2. e.method \in Method /\ e.handler \in Handler /\ e.handler # NoHandler
  BY RouterAssumption DEF Declaration, RouterAssumption
<1>3. ASSUME NEW method \in Method, NEW path \in Path
      PROVE  g[<<method, path>>] = IF method = e.method /\ path = e.path THEN e.handler ELSE f[<<method, path>>]
  BY <1>2 DEF Key
<1> HIDE DEF n, g
<1> SUFFICES ASSUME NEW method \in Method, NEW path \in Path
             PROVE  \/ g[<<method, path>>] = NoHandler /\ Same(n, kind, method, path) = {}
                    \/ /\ g[<<method, path>>] # NoHandler
                       /\ \E i \in Same(n, kind, method, path) :
                             /\ n[i].handler = g[<<method, path>>]
                             /\ \A j \in Same(n, kind, method, path) : j <= i
  BY DEF Newest, n, g
<1>4. CASE method = e.method /\ path = e.path
  <2>1. Len(d) + 1 \in Same(n, kind, method, path) /\ n[Len(d) + 1].handler = g[<<method, path>>]
    BY <1>1, <1>3, <1>4 DEF Same
  <2>2. \A j \in Same(n, kind, method, path) : j <= Len(d) + 1
    BY <1>1 DEF Same
  <2> QED BY <2>1, <2>2, <1>2, <1>3, <1>4
<1>5. CASE ~(method = e.method /\ path = e.path)
  <2>1. Same(n, kind, method, path) = Same(d, kind, method, path)
    BY <1>1, <1>5 DEF Same
  <2>2. \A i \in Same(d, kind, method, path) : n[i] = d[i]
    BY <1>1 DEF Same
  <2>3. g[<<method, path>>] = f[<<method, path>>]
    BY <1>3, <1>5
  <2> QED BY <2>1, <2>2, <2>3 DEF Newest
<1> QED BY <1>4, <1>5

LEMMA OrderGrows ==
    ASSUME NEW d \in Seq(Declaration), NEW e \in Declaration, NEW kind, e.kind # kind,
           NEW routes, InOrder(d, kind, routes)
    PROVE  InOrder(Append(d, e), kind, routes)
<1> DEFINE n == Append(d, e)
<1>1. /\ DOMAIN n = DOMAIN d \cup {Len(d) + 1} /\ n[Len(d) + 1] = e
      /\ \A i \in DOMAIN d : n[i] = d[i]
  BY Appended
<1>2. PICK pos : Places(d, kind, routes, pos)
  BY DEF InOrder
<1> HIDE DEF n
<1>3. pos \in [DOMAIN routes -> DOMAIN n]
  BY <1>1, <1>2 DEF Places
<1>4. \A i \in DOMAIN routes : n[pos[i]] = Entry(kind, routes[i])
  BY <1>1, <1>2 DEF Places
<1>5. \A k \in DOMAIN n : n[k].kind = kind => \E i \in DOMAIN routes : pos[i] = k
  BY <1>1, <1>2 DEF Places
<1>6. Places(n, kind, routes, pos)
  BY <1>2, <1>3, <1>4, <1>5 DEF Places
<1> QED BY <1>6 DEF InOrder, n

LEMMA OrderAppends ==
    ASSUME NEW d \in Seq(Declaration), NEW kind, NEW r \in Dynamic, Entry(kind, r) \in Declaration,
           NEW routes \in Seq(Dynamic), InOrder(d, kind, routes)
    PROVE  InOrder(Append(d, Entry(kind, r)), kind, Append(routes, r))
<1> DEFINE e == Entry(kind, r)
           n == Append(d, e)
           longer == Append(routes, r)
           last == Len(routes) + 1
<1>1. /\ DOMAIN n = DOMAIN d \cup {Len(d) + 1} /\ n[Len(d) + 1] = e
      /\ \A i \in DOMAIN d : n[i] = d[i]
      /\ Len(d) \in Nat /\ DOMAIN d = 1..Len(d)
  BY Appended
<1>2. /\ DOMAIN longer = DOMAIN routes \cup {last} /\ longer[last] = r
      /\ \A i \in DOMAIN routes : longer[i] = routes[i]
      /\ Len(routes) \in Nat /\ DOMAIN routes = 1..Len(routes)
  BY Appended
<1>3. PICK pos : Places(d, kind, routes, pos)
  BY DEF InOrder
<1>4. e.kind = kind
  BY DEF Entry
<1> HIDE DEF n, e, longer
<1> DEFINE new == [i \in DOMAIN longer |-> IF i = last THEN Len(d) + 1 ELSE pos[i]]
<1>5. \A i \in DOMAIN routes : i # last /\ new[i] = pos[i] /\ pos[i] \in DOMAIN d
  BY <1>2, <1>3 DEF Places
<1>6. new[last] = Len(d) + 1
  BY <1>2
<1>7. new \in [DOMAIN longer -> DOMAIN n]
  BY <1>1, <1>2, <1>5, <1>6
<1> HIDE DEF new
<1>8. ASSUME NEW i \in DOMAIN longer, NEW j \in DOMAIN longer, i < j PROVE new[i] < new[j]
  <2>1. i \in DOMAIN routes
    BY <1>2, <1>8
  <2>2. CASE j = last
    BY <2>1, <2>2, <1>1, <1>5, <1>6
  <2>3. CASE j # last
    BY <2>1, <2>3, <1>2, <1>3, <1>5, <1>8 DEF Places
  <2> QED BY <2>2, <2>3
<1>9. ASSUME NEW i \in DOMAIN longer PROVE n[new[i]] = Entry(kind, longer[i])
  <2>1. CASE i = last
    BY <2>1, <1>1, <1>2, <1>6 DEF e
  <2>2. CASE i # last
    BY <2>2, <1>1, <1>2, <1>3, <1>5 DEF Places
  <2> QED BY <2>1, <2>2
<1>10. ASSUME NEW k \in DOMAIN n, n[k].kind = kind PROVE \E i \in DOMAIN longer : new[i] = k
  <2>1. CASE k = Len(d) + 1
    BY <2>1, <1>2, <1>6
  <2>2. CASE k # Len(d) + 1
    <3>1. k \in DOMAIN d /\ d[k].kind = kind
      BY <2>2, <1>1, <1>10
    <3>2. PICK i \in DOMAIN routes : pos[i] = k
      BY <3>1, <1>3 DEF Places
    <3> QED BY <3>2, <1>2, <1>5
  <2> QED BY <2>1, <2>2
<1>11. Places(n, kind, longer, new)
  BY <1>7, <1>8, <1>9, <1>10 DEF Places
<1> QED BY <1>11 DEF InOrder, n, e, longer

LEMMA TableStep ==
    ASSUME TableInv, NEW kind \in Kinds, NEW r \in RouteOf(kind), Register(kind, r)
    PROVE  TableInv'
<1> DEFINE e == Entry(kind, r)
<1>1. e \in Declaration /\ e.kind = kind /\ e.method = r.method /\ e.handler = r.handler /\ e.path = r.path
  BY DEF Entry, Declaration, RouteOf
<1>2. declared \in Seq(Declaration)
  BY DEF TableInv, TableType
<1>3. declared' = Append(declared, e)
  BY DEF Register, registerHandler, registerCallback, addRegexHandler, addRegexCallback, Declared, Entry
<1>4. declared' \in Seq(Declaration)
  BY <1>1, <1>2, <1>3
<1>5. CASE kind = "handler"
  <2>1. handlers_' = [handlers_ EXCEPT ![<<e.method, e.path>>] = e.handler]
        /\ UNCHANGED <<callbacks_, regexHandlers_, regexCallbacks_>>
    BY <1>1, <1>5 DEF Register, registerHandler, Set
  <2>2. r.path \in Path /\ r.handler \in Handler
    BY <1>5 DEF RouteOf, Exact
  <2> HIDE DEF e
  <2>3. Newest(declared', "handler", handlers_')
    BY <1>1, <1>2, <1>3, <1>5, <2>1, <2>2, NewestSet DEF TableInv, TableType
  <2>4. Newest(declared', "callback", callbacks_')
    BY <1>1, <1>2, <1>3, <1>5, <2>1, NewestGrows DEF TableInv
  <2>5. InOrder(declared', "regexHandler", regexHandlers_') /\ InOrder(declared', "regexCallback", regexCallbacks_')
    BY <1>1, <1>2, <1>3, <1>5, <2>1, OrderGrows DEF TableInv
  <2>6. TableType'
    BY <1>1, <1>4, <2>1, <2>2 DEF TableInv, TableType
  <2> QED BY <2>3, <2>4, <2>5, <2>6 DEF TableInv
<1>6. CASE kind = "callback"
  <2>1. callbacks_' = [callbacks_ EXCEPT ![<<e.method, e.path>>] = e.handler]
        /\ UNCHANGED <<handlers_, regexHandlers_, regexCallbacks_>>
    BY <1>1, <1>6 DEF Register, registerCallback, Set
  <2>2. r.path \in Path /\ r.handler \in Handler
    BY <1>6 DEF RouteOf, Exact
  <2> HIDE DEF e
  <2>3. Newest(declared', "callback", callbacks_')
    BY <1>1, <1>2, <1>3, <1>6, <2>1, <2>2, NewestSet DEF TableInv, TableType
  <2>4. Newest(declared', "handler", handlers_')
    BY <1>1, <1>2, <1>3, <1>6, <2>1, NewestGrows DEF TableInv
  <2>5. InOrder(declared', "regexHandler", regexHandlers_') /\ InOrder(declared', "regexCallback", regexCallbacks_')
    BY <1>1, <1>2, <1>3, <1>6, <2>1, OrderGrows DEF TableInv
  <2>6. TableType'
    BY <1>1, <1>4, <2>1, <2>2 DEF TableInv, TableType
  <2> QED BY <2>3, <2>4, <2>5, <2>6 DEF TableInv
<1>7. CASE kind = "regexHandler"
  <2>1. regexHandlers_' = Append(regexHandlers_, r) /\ UNCHANGED <<handlers_, callbacks_, regexCallbacks_>>
    BY <1>7 DEF Register, addRegexHandler
  <2>2. r \in Dynamic
    BY <1>7 DEF RouteOf, Exact, Dynamic
  <2>3. InOrder(declared', "regexHandler", regexHandlers_')
    BY <1>1, <1>2, <1>3, <1>7, <2>1, <2>2, OrderAppends DEF TableInv, TableType
  <2> HIDE DEF e
  <2>4. Newest(declared', "handler", handlers_') /\ Newest(declared', "callback", callbacks_')
    BY <1>1, <1>2, <1>3, <1>7, <2>1, NewestGrows DEF TableInv
  <2>5. InOrder(declared', "regexCallback", regexCallbacks_')
    BY <1>1, <1>2, <1>3, <1>7, <2>1, OrderGrows DEF TableInv
  <2>6. TableType'
    BY <1>4, <2>1, <2>2 DEF TableInv, TableType
  <2> QED BY <2>3, <2>4, <2>5, <2>6 DEF TableInv
<1>8. CASE kind = "regexCallback"
  <2>1. regexCallbacks_' = Append(regexCallbacks_, r) /\ UNCHANGED <<handlers_, callbacks_, regexHandlers_>>
    BY <1>8 DEF Register, addRegexCallback
  <2>2. r \in Dynamic
    BY <1>8 DEF RouteOf, Exact, Dynamic
  <2>3. InOrder(declared', "regexCallback", regexCallbacks_')
    BY <1>1, <1>2, <1>3, <1>8, <2>1, <2>2, OrderAppends DEF TableInv, TableType
  <2> HIDE DEF e
  <2>4. Newest(declared', "handler", handlers_') /\ Newest(declared', "callback", callbacks_')
    BY <1>1, <1>2, <1>3, <1>8, <2>1, NewestGrows DEF TableInv
  <2>5. InOrder(declared', "regexHandler", regexHandlers_')
    BY <1>1, <1>2, <1>3, <1>8, <2>1, OrderGrows DEF TableInv
  <2>6. TableType'
    BY <1>4, <2>1, <2>2 DEF TableInv, TableType
  <2> QED BY <2>3, <2>4, <2>5, <2>6 DEF TableInv
<1> QED BY <1>5, <1>6, <1>7, <1>8 DEF Kinds

LEMMA TableStays == TableInv /\ UNCHANGED routerVars => TableInv'
<1> SUFFICES ASSUME TableInv, UNCHANGED routerVars PROVE TableInv'
  OBVIOUS
<1>1. /\ declared' = declared /\ handlers_' = handlers_ /\ callbacks_' = callbacks_
      /\ regexHandlers_' = regexHandlers_ /\ regexCallbacks_' = regexCallbacks_
  BY DEF routerVars, table
<1> QED BY <1>1 DEF TableInv, TableType

-----------------------------------------------------------------------------
(* The table keeps its promise.                                              *)
Applying(method, path) == {i \in DOMAIN declared : Applies(declared[i], method, path)}

LEMMA Ranks ==
    /\ Rank("handler") = 1 /\ Rank("callback") = 2
    /\ Rank("regexHandler") = 3 /\ Rank("regexCallback") = 4
BY DEF Rank

(* The registration that precedes all others that apply is what is promised. *)
LEMMA PromisedIs ==
    ASSUME TableType, NEW method, NEW path, NEW i \in Applying(method, path),
           \A j \in Applying(method, path) : Precedes(i, j)
    PROVE  Promised(method, path) = {declared[i]}
<1> DEFINE best == {k \in Applying(method, path) : \A j \in Applying(method, path) : Precedes(k, j)}
<1>1. Promised(method, path) = {declared[k] : k \in best}
  BY Zenon DEF Promised, Applying
<1>2. i \in best
  OBVIOUS
<1>3. ASSUME NEW k \in best PROVE k = i
  <2>1. Precedes(i, k) /\ Precedes(k, i) /\ i \in Nat /\ k \in Nat
    BY <1>3 DEF Applying, TableType
  <2>2. declared[i].kind \in Kinds /\ declared[k].kind \in Kinds
    <3>1. i \in DOMAIN declared /\ k \in DOMAIN declared /\ declared \in Seq(Declaration)
      BY <1>3 DEF Applying, TableType
    <3>2. declared[i] \in Declaration /\ declared[k] \in Declaration
      BY <3>1
    <3> QED BY <3>2 DEF Declaration
  <2>3. Rank(declared[i].kind) \in Nat /\ Rank(declared[k].kind) \in Nat
    BY <2>2, Ranks DEF Kinds
  <2>4. declared[i].kind = declared[k].kind
    BY <2>1, <2>3 DEF Precedes
  <2> QED BY <2>1, <2>3, <2>4 DEF Precedes
<1> HIDE DEF best
<1> QED BY <1>1, <1>2, <1>3

LEMMA FirstMatchIs ==
    ASSUME NEW routes \in Seq(Dynamic), NEW method, NEW path
    PROVE  LET m == {i \in DOMAIN routes : routes[i].method = method /\ Matches(routes[i].path, path)}
           IN  \/ m = {} /\ FirstMatch(routes, method, path) = {}
               \/ \E i \in m : /\ FirstMatch(routes, method, path) = {i}
                               /\ \A j \in m : i <= j
<1> DEFINE m == {i \in DOMAIN routes : routes[i].method = method /\ Matches(routes[i].path, path)}
<1>1. FirstMatch(routes, method, path) =
        IF m = {} THEN {} ELSE {CHOOSE i \in m : \A j \in m : i <= j}
  BY Zenon DEF FirstMatch
<1>2. m \in SUBSET Nat
  OBVIOUS
<1> HIDE DEF m
<1>3. CASE m # {}
  <2>1. \E x \in m : \A y \in m : x <= y
    BY <1>2, <1>3, LeastIndex
  <2> DEFINE i == CHOOSE x \in m : \A y \in m : x <= y
  <2>2. i \in m /\ \A j \in m : i <= j
    BY <2>1, Zenon
  <2>3. FirstMatch(routes, method, path) = {i}
    BY <1>1, <1>3
  <2> QED BY <2>2, <2>3 DEF m
<1>4. CASE m = {}
  BY <1>1, <1>4 DEF m
<1> QED BY <1>3, <1>4

LEMMA DynamicBest ==
    ASSUME TableType, NEW kind \in Kinds \ Exact, NEW routes \in Seq(Dynamic),
           InOrder(declared, kind, routes), NEW method, NEW path
    PROVE  \/ /\ FirstMatch(routes, method, path) = {}
              /\ \A j \in Applying(method, path) : declared[j].kind # kind
           \/ \E i \in DOMAIN routes, k \in Applying(method, path) :
                 /\ FirstMatch(routes, method, path) = {i}
                 /\ declared[k] = Entry(kind, routes[i])
                 /\ \A j \in Applying(method, path) : declared[j].kind = kind => k <= j
<1> DEFINE m == {i \in DOMAIN routes : routes[i].method = method /\ Matches(routes[i].path, path)}
<1>1. PICK pos : Places(declared, kind, routes, pos)
  BY DEF InOrder
<1>2. \/ m = {} /\ FirstMatch(routes, method, path) = {}
      \/ \E i \in m : FirstMatch(routes, method, path) = {i} /\ \A j \in m : i <= j
  BY FirstMatchIs
<1>3. DOMAIN routes \subseteq Nat /\ DOMAIN declared \subseteq Nat
  BY DEF TableType
<1>4. ASSUME NEW j \in Applying(method, path), declared[j].kind = kind
      PROVE  \E i \in m : pos[i] = j
  <2>1. PICK i \in DOMAIN routes : pos[i] = j
    BY <1>1, <1>4 DEF Places, Applying
  <2>2. declared[j] = Entry(kind, routes[i])
    BY <1>1, <2>1 DEF Places
  <2>3. declared[j].method = routes[i].method /\ declared[j].path = routes[i].path
    BY <2>2 DEF Entry
  <2>4. Applies(declared[j], method, path)
    BY DEF Applying
  <2> QED BY <1>4, <2>1, <2>3, <2>4 DEF Applies
<1>5. ASSUME NEW i \in m
      PROVE  pos[i] \in Applying(method, path) /\ declared[pos[i]] = Entry(kind, routes[i])
  <2>1. declared[pos[i]] = Entry(kind, routes[i]) /\ pos[i] \in DOMAIN declared
    BY <1>1 DEF Places
  <2>2. /\ declared[pos[i]].kind = kind /\ declared[pos[i]].method = routes[i].method
        /\ declared[pos[i]].path = routes[i].path
    BY <2>1 DEF Entry
  <2> QED BY <2>1, <2>2 DEF Applying, Applies
<1>6. ASSUME NEW i \in m, NEW j \in m, i <= j PROVE pos[i] <= pos[j]
  <2>1. i \in Nat /\ j \in Nat /\ pos[i] \in Nat /\ pos[j] \in Nat
    BY <1>1, <1>3 DEF Places
  <2>2. CASE i = j
    BY <2>1, <2>2
  <2>3. CASE i < j
    BY <2>1, <2>3, <1>1 DEF Places
  <2> QED BY <1>6, <2>1, <2>2, <2>3
<1>7. m \subseteq DOMAIN routes
  OBVIOUS
<1> HIDE DEF m
<1>8. CASE m = {}
  BY <1>2, <1>4, <1>8
<1>9. ASSUME NEW i \in m, FirstMatch(routes, method, path) = {i}, \A j \in m : i <= j
      PROVE  \E x \in DOMAIN routes, k \in Applying(method, path) :
                /\ FirstMatch(routes, method, path) = {x}
                /\ declared[k] = Entry(kind, routes[x])
                /\ \A j \in Applying(method, path) : declared[j].kind = kind => k <= j
  <2>1. \A j \in Applying(method, path) : declared[j].kind = kind => pos[i] <= j
    BY <1>4, <1>6, <1>9
  <2> QED BY <1>5, <1>7, <1>9, <2>1
<1> QED BY <1>2, <1>8, <1>9

LEMMA ExactBest ==
    ASSUME NEW kind \in Exact, NEW f, Newest(declared, kind, f),
           NEW method \in Method, NEW path \in Path
    PROVE  \/ /\ f[<<method, path>>] = NoHandler
              /\ \A j \in Applying(method, path) : declared[j].kind # kind
           \/ /\ f[<<method, path>>] # NoHandler
              /\ \E k \in Applying(method, path) :
                    /\ declared[k].kind = kind /\ declared[k].handler = f[<<method, path>>]
                    /\ \A j \in Applying(method, path) : declared[j].kind = kind => j <= k
<1>1. \A j : j \in Same(declared, kind, method, path)
               <=> j \in Applying(method, path) /\ declared[j].kind = kind
  BY DEF Same, Applying, Applies
<1> QED BY <1>1 DEF Newest

LEMMA TableKeepsPromise == TableInv => RoutedAsDeclared
<1> SUFFICES ASSUME TableInv, NEW method \in Method, NEW path \in Path
             PROVE  LET hit == route(method, path)
                        promised == Promised(method, path)
                    IN  IF promised = {} THEN hit = NoRoute
                        ELSE \A d \in promised :
                                /\ hit.kind = d.kind /\ hit.handler = d.handler
                                /\ d.kind = "regexHandler" => hit.params = Params(d.path, path)
  BY DEF RoutedAsDeclared
<1> DEFINE hit == route(method, path)
           A == Applying(method, path)
           fh == FirstMatch(regexHandlers_, method, path)
           fc == FirstMatch(regexCallbacks_, method, path)
           Kept == IF Promised(method, path) = {} THEN hit = NoRoute
                   ELSE \A d \in Promised(method, path) :
                           /\ hit.kind = d.kind /\ hit.handler = d.handler
                           /\ d.kind = "regexHandler" => hit.params = Params(d.path, path)
<1> SUFFICES Kept
  OBVIOUS
<1>0. TableType
  BY DEF TableInv
<1>1. ASSUME NEW k \in A, \A j \in A : Precedes(k, j),
             hit.kind = declared[k].kind, hit.handler = declared[k].handler,
             declared[k].kind = "regexHandler" => hit.params = Params(declared[k].path, path)
      PROVE  Kept
  <2> HIDE DEF hit
  <2>1. Promised(method, path) = {declared[k]}
    BY <1>0, <1>1, PromisedIs
  <2> QED BY <1>1, <2>1
<1>2. \/ /\ handlers_[<<method, path>>] = NoHandler
         /\ \A j \in A : declared[j].kind # "handler"
      \/ /\ handlers_[<<method, path>>] # NoHandler
         /\ \E k \in A : /\ declared[k].kind = "handler" /\ declared[k].handler = handlers_[<<method, path>>]
                         /\ \A j \in A : declared[j].kind = "handler" => j <= k
  BY ExactBest DEF TableInv, Exact
<1>3. \/ /\ callbacks_[<<method, path>>] = NoHandler
         /\ \A j \in A : declared[j].kind # "callback"
      \/ /\ callbacks_[<<method, path>>] # NoHandler
         /\ \E k \in A : /\ declared[k].kind = "callback" /\ declared[k].handler = callbacks_[<<method, path>>]
                         /\ \A j \in A : declared[j].kind = "callback" => j <= k
  BY ExactBest DEF TableInv, Exact
<1>4. \/ fh = {} /\ \A j \in A : declared[j].kind # "regexHandler"
      \/ \E i \in DOMAIN regexHandlers_, k \in A :
            /\ fh = {i} /\ declared[k] = Entry("regexHandler", regexHandlers_[i])
            /\ \A j \in A : declared[j].kind = "regexHandler" => k <= j
  BY <1>0, DynamicBest DEF TableInv, TableType, Kinds, Exact
<1>5. \/ fc = {} /\ \A j \in A : declared[j].kind # "regexCallback"
      \/ \E i \in DOMAIN regexCallbacks_, k \in A :
            /\ fc = {i} /\ declared[k] = Entry("regexCallback", regexCallbacks_[i])
            /\ \A j \in A : declared[j].kind = "regexCallback" => k <= j
  BY <1>0, DynamicBest DEF TableInv, TableType, Kinds, Exact
<1>6. \A j \in A : declared[j].kind \in Kinds /\ j \in DOMAIN declared
  <2>1. \A j \in DOMAIN declared : declared[j] \in Declaration
    BY <1>0 DEF TableType
  <2> QED BY <2>1 DEF Applying, Declaration
<1>7. hit = IF handlers_[<<method, path>>] # NoHandler
            THEN Hit("handler", handlers_[<<method, path>>], {})
            ELSE IF callbacks_[<<method, path>>] # NoHandler
            THEN Hit("callback", callbacks_[<<method, path>>], {})
            ELSE IF fh # {}
            THEN LET r == regexHandlers_[CHOOSE i \in fh : TRUE]
                 IN  Hit("regexHandler", r.handler, Params(r.path, path))
            ELSE IF fc # {}
            THEN Hit("regexCallback", regexCallbacks_[CHOOSE i \in fc : TRUE].handler, {})
            ELSE NoRoute
  BY Zenon DEF route
<1> HIDE DEF hit, A, fh, fc, Kept
<1>8. CASE handlers_[<<method, path>>] # NoHandler
  <2>1. PICK k \in A : /\ declared[k].kind = "handler" /\ declared[k].handler = handlers_[<<method, path>>]
                       /\ \A j \in A : declared[j].kind = "handler" => j <= k
    BY <1>2, <1>8
  <2>2. \A j \in A : Precedes(k, j)
    BY <1>6, <2>1, Ranks DEF Precedes, Kinds, Exact
  <2>3. hit.kind = "handler" /\ hit.handler = handlers_[<<method, path>>]
    BY <1>7, <1>8 DEF Hit
  <2> QED BY <1>1, <2>1, <2>2, <2>3
<1>9. CASE /\ handlers_[<<method, path>>] = NoHandler
           /\ callbacks_[<<method, path>>] # NoHandler
  <2>1. PICK k \in A : /\ declared[k].kind = "callback" /\ declared[k].handler = callbacks_[<<method, path>>]
                       /\ \A j \in A : declared[j].kind = "callback" => j <= k
    BY <1>3, <1>9
  <2>2. \A j \in A : Precedes(k, j)
    BY <1>2, <1>6, <1>9, <2>1, Ranks DEF Precedes, Kinds, Exact
  <2>3. hit.kind = "callback" /\ hit.handler = callbacks_[<<method, path>>]
    BY <1>7, <1>9 DEF Hit
  <2> QED BY <1>1, <2>1, <2>2, <2>3
<1>10. CASE /\ handlers_[<<method, path>>] = NoHandler
            /\ callbacks_[<<method, path>>] = NoHandler
            /\ fh # {}
  <2>1. PICK i \in DOMAIN regexHandlers_, k \in A :
            /\ fh = {i} /\ declared[k] = Entry("regexHandler", regexHandlers_[i])
            /\ \A j \in A : declared[j].kind = "regexHandler" => k <= j
    BY <1>4, <1>10
  <2>2. /\ declared[k].kind = "regexHandler" /\ declared[k].handler = regexHandlers_[i].handler
        /\ declared[k].path = regexHandlers_[i].path
    BY <2>1 DEF Entry
  <2>3. \A j \in A : Precedes(k, j)
    BY <1>2, <1>3, <1>6, <1>10, <2>1, <2>2, Ranks DEF Precedes, Kinds, Exact
  <2>4. (CHOOSE x \in fh : TRUE) = i
    BY <2>1
  <2>5. hit = Hit("regexHandler", regexHandlers_[i].handler, Params(regexHandlers_[i].path, path))
    BY <1>7, <1>10, <2>4
  <2>6. /\ hit.kind = "regexHandler" /\ hit.handler = regexHandlers_[i].handler
        /\ hit.params = Params(regexHandlers_[i].path, path)
    BY <2>5 DEF Hit
  <2> QED BY <1>1, <2>2, <2>3, <2>6
<1>11. CASE /\ handlers_[<<method, path>>] = NoHandler
            /\ callbacks_[<<method, path>>] = NoHandler
            /\ fh = {} /\ fc # {}
  <2>1. PICK i \in DOMAIN regexCallbacks_, k \in A :
            /\ fc = {i} /\ declared[k] = Entry("regexCallback", regexCallbacks_[i])
            /\ \A j \in A : declared[j].kind = "regexCallback" => k <= j
    BY <1>5, <1>11
  <2>2. declared[k].kind = "regexCallback" /\ declared[k].handler = regexCallbacks_[i].handler
    BY <2>1 DEF Entry
  <2>3. \A j \in A : Precedes(k, j)
    BY <1>2, <1>3, <1>4, <1>6, <1>11, <2>1, <2>2, Ranks DEF Precedes, Kinds, Exact
  <2>4. (CHOOSE x \in fc : TRUE) = i
    BY <2>1
  <2>5. hit.kind = "regexCallback" /\ hit.handler = regexCallbacks_[i].handler
    BY <1>7, <1>11, <2>4 DEF Hit
  <2> QED BY <1>1, <2>2, <2>3, <2>5
<1>12. CASE /\ handlers_[<<method, path>>] = NoHandler
            /\ callbacks_[<<method, path>>] = NoHandler
            /\ fh = {} /\ fc = {}
  <2>1. A = {}
    BY <1>2, <1>3, <1>4, <1>5, <1>6, <1>12 DEF Kinds
  <2>2. Promised(method, path) = {}
    BY <2>1 DEF Promised, A, Applying
  <2>3. hit = NoRoute
    BY <1>7, <1>12
  <2> QED BY <2>2, <2>3 DEF Kept
<1> QED BY <1>8, <1>9, <1>10, <1>11, <1>12
=============================================================================
