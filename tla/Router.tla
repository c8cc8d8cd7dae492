------------------------------- MODULE Router -------------------------------
(***************************************************************************)
(* The routing table of HttpServer: handler objects and callbacks, each    *)
(* for one exact path or for a pattern.  A path is its sequence of         *)
(* segments; in a pattern Param stands for a segment ":name".              *)
(*                                                                         *)
(* The table is filled before the server starts, one registration at a     *)
(* time, and read by all event-loop threads from then on.                  *)
(***************************************************************************)
EXTENDS Integers, Sequences

CONSTANTS Method,
          Path,          \* the exact paths and the paths of requests
          Pattern,       \* the patterns of dynamic routes
          Param,         \* a segment ":name" of a pattern
          Handler,       \* handler objects and callbacks
          NoHandler

ASSUME RouterAssumption ==
    /\ Path \subseteq Seq(STRING) /\ Pattern \subseteq Seq(STRING \cup {Param})
    /\ NoHandler \notin Handler

VARIABLES
    handlers_, callbacks_,              \* by method and path
    regexHandlers_, regexCallbacks_,    \* in the order of their registration
    declared                            \* history: every registration

table == <<handlers_, callbacks_, regexHandlers_, regexCallbacks_>>
routerVars == <<table, declared>>

Key == Method \X Path
Dynamic == [method : Method, path : Pattern, handler : Handler]
Kinds == {"handler", "callback", "regexHandler", "regexCallback"}
Exact == {"handler", "callback"}
RouteOf(kind) ==
    [method : Method, path : IF kind \in Exact THEN Path ELSE Pattern, handler : Handler]

RouterInit ==
    /\ handlers_ = [k \in Key |-> NoHandler]
    /\ callbacks_ = [k \in Key |-> NoHandler]
    /\ regexHandlers_ = <<>> /\ regexCallbacks_ = <<>>
    /\ declared = <<>>

-----------------------------------------------------------------------------
Route(method, path, handler) == [method |-> method, path |-> path, handler |-> handler]
Declared(kind, r) ==
    declared' = Append(declared, [kind |-> kind, method |-> r.method, path |-> r.path,
                                  handler |-> r.handler])

(* Get and Post with an exact path: a second registration replaces the first. *)
SetFirst(f, r) ==            \* emplace instead of operator[]: the first stays
    IF f[<<r.method, r.path>>] = NoHandler
    THEN [f EXCEPT ![<<r.method, r.path>>] = r.handler] ELSE f
Set(f, r) == [f EXCEPT ![<<r.method, r.path>>] = r.handler]

registerHandler(r) ==
    /\ handlers_' = Set(handlers_, r)
    /\ Declared("handler", r)
    /\ UNCHANGED <<callbacks_, regexHandlers_, regexCallbacks_>>

registerCallback(r) ==
    /\ callbacks_' = Set(callbacks_, r)
    /\ Declared("callback", r)
    /\ UNCHANGED <<handlers_, regexHandlers_, regexCallbacks_>>

(* addRoute with a pattern: behind those that are there. *)
addRegexHandler(r) ==
    /\ regexHandlers_' = Append(regexHandlers_, r)
    /\ Declared("regexHandler", r)
    /\ UNCHANGED <<handlers_, callbacks_, regexCallbacks_>>

addRegexCallback(r) ==
    /\ regexCallbacks_' = Append(regexCallbacks_, r)
    /\ Declared("regexCallback", r)
    /\ UNCHANGED <<handlers_, callbacks_, regexHandlers_>>

Register(kind, r) ==
    \/ kind = "handler" /\ registerHandler(r)
    \/ kind = "callback" /\ registerCallback(r)
    \/ kind = "regexHandler" /\ addRegexHandler(r)
    \/ kind = "regexCallback" /\ addRegexCallback(r)

-----------------------------------------------------------------------------
(* convertToRegex turns every ":name" into one segment of any text that is   *)
(* not empty, [^/]+, and asks for a match of the whole path.                 *)
Matches(pattern, path) ==
    /\ Len(pattern) = Len(path)
    /\ \A i \in DOMAIN path :
          pattern[i] = path[i] \/ (pattern[i] = Param /\ path[i] # "")
Params(pattern, path) == {<<i, path[i]>> : i \in {j \in DOMAIN path : pattern[j] = Param}}

Hit(kind, handler, params) == [kind |-> kind, handler |-> handler, params |-> params]
NoRoute == Hit("none", NoHandler, {})

FirstMatch(routes, method, path) ==
    LET matching == {i \in DOMAIN routes :
                        routes[i].method = method /\ Matches(routes[i].path, path)}
    IN  IF matching = {} THEN {} ELSE {CHOOSE i \in matching : \A j \in matching : i <= j}

(* What runs for a request, and the path parameters it is given.  A dynamic  *)
(* callback gets the request as it came, not the copy with the parameters.   *)
route(method, path) ==
    LET exact == <<method, path>>
        handler == FirstMatch(regexHandlers_, method, path)
        callback == FirstMatch(regexCallbacks_, method, path)
    IN  IF handlers_[exact] # NoHandler THEN Hit("handler", handlers_[exact], {})
        ELSE IF callbacks_[exact] # NoHandler THEN Hit("callback", callbacks_[exact], {})
        ELSE IF handler # {} THEN
            LET r == regexHandlers_[CHOOSE i \in handler : TRUE]
            IN  Hit("regexHandler", r.handler, Params(r.path, path))
        ELSE IF callback # {} THEN
            Hit("regexCallback", regexCallbacks_[CHOOSE i \in callback : TRUE].handler, {})
        ELSE NoRoute

-----------------------------------------------------------------------------
(* What the registrations promise, from their history alone: an exact route  *)
(* before a dynamic one, an object before a callback, the newest of two      *)
(* exact ones and the oldest of two dynamic ones.                            *)
Applies(d, method, path) ==
    /\ d.method = method
    /\ IF d.kind \in Exact THEN d.path = path ELSE Matches(d.path, path)
Rank(kind) ==
    CASE kind = "handler" -> 1
      [] kind = "callback" -> 2
      [] kind = "regexHandler" -> 3
      [] kind = "regexCallback" -> 4
Precedes(i, j) ==
    LET d == declared[i]
        e == declared[j]
    IN  \/ Rank(d.kind) < Rank(e.kind)
        \/ d.kind = e.kind /\ (IF d.kind \in Exact THEN j <= i ELSE i <= j)

Promised(method, path) ==
    LET applying == {i \in DOMAIN declared : Applies(declared[i], method, path)}
    IN  {declared[i] : i \in {k \in applying : \A j \in applying : Precedes(k, j)}}

(* A request reaches the handler or callback that its registrations promise, *)
(* and none when none of them applies, whatever was registered in whatever   *)
(* order (Router.cpp:9-76); an object reached by a pattern gets the path's   *)
(* parameters.  What a callback gets is ParametersGiven's question.          *)
RoutedAsDeclared ==
    \A method \in Method, path \in Path :
        LET hit == route(method, path)
            promised == Promised(method, path)
        IN  IF promised = {} THEN hit = NoRoute
            ELSE \A d \in promised :
                    /\ hit.kind = d.kind /\ hit.handler = d.handler
                    /\ d.kind = "regexHandler" => hit.params = Params(d.path, path)

(* "Extract path parameters and add them to the request": whatever a pattern *)
(* leads to, an object or a callback, gets the path's parameters.            *)
ParametersGiven ==
    \A method \in Method, path \in Path :
        \A d \in Promised(method, path) :
            d.kind \notin Exact => route(method, path).params = Params(d.path, path)
=============================================================================
