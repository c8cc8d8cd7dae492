--------------------------- MODULE RequestHandling ---------------------------
(***************************************************************************)
(* From a parsed request to the bytes of its answer: HttpServer::onRequest *)
(* and handleRequest, the middleware chain, the routing table that start-  *)
(* up has filled (module Router), and what each handler of the application *)
(* makes of the response, with the registration of users (module           *)
(* Registration) as the handler whose steps other threads can see.         *)
(*                                                                         *)
(* What handlers do to sessions, users online and games is in GomokuApp;   *)
(* here a handler ends in one of its outcomes.  Of a body only its size    *)
(* counts: nothing, or one or two texts of size 1.                         *)
(***************************************************************************)
EXTENDS Router, Registration

CONSTANTS Origin,      \* the web sites whose pages send requests
          Configs      \* ways to set up the server, and what it is asked:
                       \* [program, chain, origins, asked, requests]

ASSUME ServerAssumption == \A c \in Configs :
    /\ c.program \in Seq(UNION {[kind : {k}, route : RouteOf(k)] : k \in Kinds})
    /\ c.chain \in Seq({"limit", "cors"})
    /\ c.origins \in Seq(Origin \cup {"*"})
    /\ c.asked \subseteq [method : Method, path : Path, origin : Origin]
    /\ c.requests \in Nat

VARIABLES
    config,      \* chosen at start-up
    started,     \* HttpServer::start was called
    taken,       \* how many requests were taken, at most config.requests
    work         \* per thread: its step, request, response, and how it came about

serverVars == <<config, started, taken, work>>
vars == <<routerVars, registrationVars, serverVars>>

-----------------------------------------------------------------------------
(* HttpResponse.                                                             *)
None == "none"
NoLength == -1
Huge == 99                    \* FileUtil::size of a file that is not there: 2^64 - 1
Fresh(close) ==
    [version |-> FALSE, status |-> 0, close |-> close, length |-> NoLength, body |-> 0,
     file |-> None, cors |-> None]

StatusOnly(r, code) == [r EXCEPT !.status = code]
setStatusLine(r, code) == [r EXCEPT !.version = TRUE, !.status = code]
Filled(r, code, close, size) ==
    [setStatusLine(r, code) EXCEPT !.close = close, !.length = size, !.body = size]
WithoutLength(r, code, close) ==
    [Filled(r, code, close, 1) EXCEPT !.length = NoLength]
packageResp(r, code, close) == Filled(r, code, close, 1)
Unauthorized(r) == packageResp(r, 401, TRUE)
Caught(r) == Filled(r, 400, TRUE, 1)
NotFound(r) == [StatusOnly(r, 404) EXCEPT !.close = TRUE]

-----------------------------------------------------------------------------
(* Handlers: the outcomes of each, as a name and a response.  To throw is    *)
(* the outcome "threw", with the response as it was then.                    *)
As(way, r) == [way |-> way, resp |-> r]
Threw(r) == As("threw", r)

(* A page whose file and whose NotFound.html are both missing has the size   *)
(* 2^64 - 1, and to allocate that throws.                                    *)
PageOutcomes(r) == {As("page", Filled(r, 200, FALSE, 1))}
EntryOutcomes(r) == PageOutcomes(r) \cup {Threw(r)}
StartOutcomes(r) == PageOutcomes(r) \cup {As("unauthorized", Unauthorized(r)), Threw(r)}
MenuOutcomes(r) ==
    PageOutcomes(r) \cup {As("unauthorized", Unauthorized(r)), As("caught", Caught(r))}
GameBackendOutcomes(r) == MenuOutcomes(r)
ResourceCentorOutcomes(r) == MenuOutcomes(r)
BackendStatusOutcomes(r) == MenuOutcomes(r)

LoginOutcomes(r) ==
    {As("badBody", Filled(r, 400, TRUE, 0)), As("loggedIn", Filled(r, 200, FALSE, 1)),
     As("elsewhere", Filled(r, 403, TRUE, 1)), As("badPassword", Filled(r, 401, FALSE, 1)),
     As("caught", Caught(r))}
LogoutOutcomes(r) ==
    {As("badBody", Filled(r, 400, TRUE, 0)), As("loggedOut", Filled(r, 200, TRUE, 1)),
     As("caught", Caught(r))}
MoveOutcomes(r) ==
    {As("unauthorized", Unauthorized(r)), As("badMove", Filled(r, 400, FALSE, 1)),
     As("moved", Filled(r, 200, FALSE, 1)), As("caught", packageResp(r, 500, FALSE))}
RestartOutcomes(r) ==
    {As("unauthorized", Unauthorized(r)), As("restarted", packageResp(r, 200, FALSE)), Threw(r)}
BackendDataOutcomes(r) ==
    {As("data", Filled(r, 200, FALSE, 1)),
     As("dataError", [StatusOnly(r, 500) EXCEPT !.close = TRUE, !.length = 1, !.body = 1])}

ListOutcomes(r) ==       \* without the directory, the iterator throws
    {As("unauthorized", Unauthorized(r)), As("listed", Filled(r, 200, FALSE, 1)),
     As("caught", Caught(r))}
UploadOutcomes(r) ==     \* caught: the multipart body was not parsed
    {As("unauthorized", Unauthorized(r)), As("uploaded", Filled(r, 200, FALSE, 1)),
     As("caught", Caught(r))}

(* A file that is not there is not returned for: the 404 is overwritten, but *)
(* for its body.  One that is there may be gone when onRequest opens it.     *)
DownloadAfter(r, way, size, file) ==
    As(way, [setStatusLine(r, 200) EXCEPT !.close = FALSE, !.length = size, !.file = file])
DownloadOutcomes(r) ==
    {As("unauthorized", Unauthorized(r)), As("caught", Caught(r)),
     DownloadAfter(r, "file", 1, "there"), DownloadAfter(r, "fileGone", 1, "gone"),
     DownloadAfter([setStatusLine(r, 404) EXCEPT !.body = 1], "fileMissing", Huge, "gone")}

Outcomes(handler, r) ==
    CASE handler = "EntryHandler" -> EntryOutcomes(r)
      [] handler = "LoginHandler" -> LoginOutcomes(r)
      [] handler = "LogoutHandler" -> LogoutOutcomes(r)
      [] handler = "AiGameStartHandler" -> StartOutcomes(r)
      [] handler = "AiGameMoveHandler" -> MoveOutcomes(r)
      [] handler = "restartChessGameVsAi" -> RestartOutcomes(r)
      [] handler = "getBackendData" -> BackendDataOutcomes(r)
      [] handler = "test" -> {As("test", [r EXCEPT !.body = 1])}
      [] handler = "ResourceDownloadHandler" -> DownloadOutcomes(r)
      [] handler = "ResourceListHandler" -> ListOutcomes(r)
      [] handler = "ResourceUploadHandler" -> UploadOutcomes(r)
      [] handler = "GameBackendHandler" -> GameBackendOutcomes(r)
      [] handler = "ResourceCentorHandler" -> ResourceCentorOutcomes(r)
      [] handler = "BackendStatusHandler" -> BackendStatusOutcomes(r)
      [] OTHER -> MenuOutcomes(r)

-----------------------------------------------------------------------------
(* GomokuServer::initializeRouter.                                           *)
Get(path, handler) == [kind |-> "handler", route |-> Route("kGet", path, handler)]
Post(path, handler) == [kind |-> "handler", route |-> Route("kPost", path, handler)]
GetCallback(path, callback) == [kind |-> "callback", route |-> Route("kGet", path, callback)]

initializeRouter ==
    << Get(<<>>, "EntryHandler"), Get(<<"entry">>, "EntryHandler"),
       Post(<<"login">>, "LoginHandler"), Post(<<"register">>, "RegisterHandler"),
       Post(<<"user", "logout">>, "LogoutHandler"), Get(<<"menu">>, "MenuHandler"),
       Get(<<"aiBot", "start">>, "AiGameStartHandler"),
       Post(<<"aiBot", "move">>, "AiGameMoveHandler"),
       GetCallback(<<"aiBot", "restart">>, "restartChessGameVsAi"),
       Get(<<"backend">>, "GameBackendHandler"),
       GetCallback(<<"backend_data">>, "getBackendData"), GetCallback(<<"test">>, "test"),
       Get(<<"resource_centor">>, "ResourceCentorHandler"),
       Get(<<"resource", "list">>, "ResourceListHandler"),
       Post(<<"resource", "download">>, "ResourceDownloadHandler"),
       Post(<<"upload">>, "ResourceUploadHandler"),
       Get(<<"backend_status">>, "BackendStatusHandler") >>

-----------------------------------------------------------------------------
(* Middlewares.  "limit" may refuse any request (module LimitMiddleware says *)
(* when); CORS answers every OPTIONS request itself.  Either throws.         *)
allowedOrigins == config.origins
isOriginAllowed(origin) ==
    allowedOrigins = <<>> \/ \E i \in DOMAIN allowedOrigins : allowedOrigins[i] \in {"*", origin}

addCorsHeaders(r, origin) == [r EXCEPT !.cors = origin]

handlePreflightRequest(origin) ==
    IF isOriginAllowed(origin)
    THEN As("preflight", StatusOnly(addCorsHeaders(Fresh(TRUE), origin), 204))
    ELSE As("forbidden", StatusOnly(Fresh(TRUE), 403))

TooMany == As("tooMany", [setStatusLine(Fresh(TRUE), 429) EXCEPT !.length = 0, !.body = 1])

Passes(m, req) == m = "cors" => req.method # "kOptions"
Refusals(m, req) ==
    IF m = "limit" THEN {TooMany}
    ELSE IF req.method = "kOptions" THEN {handlePreflightRequest(req.origin)} ELSE {}

NoAfter(r) == r                    \* the headers are added to preflights only
after(r) ==
    IF allowedOrigins = <<>> THEN r
    ELSE addCorsHeaders(r, IF \E i \in DOMAIN allowedOrigins : allowedOrigins[i] = "*"
                           THEN "*" ELSE allowedOrigins[1])
processAfter(r) == IF \E i \in DOMAIN config.chain : config.chain[i] = "cors" THEN after(r) ELSE r

-----------------------------------------------------------------------------
NoRequest == [method |-> "kInvalid", path |-> <<>>, origin |-> None]
Idle == [step |-> "idle", number |-> 0, req |-> NoRequest, way |-> None, resp |-> Fresh(TRUE)]

Init ==
    /\ RouterInit /\ RegistrationInit
    /\ config \in Configs
    /\ started = FALSE /\ taken = 0
    /\ work = [t \in Thread |-> Idle]

(* Start-up: the routes one after the other, then start(). *)
Declare ==
    /\ ~started /\ Len(declared) < Len(config.program)
    /\ LET next == config.program[Len(declared) + 1] IN Register(next.kind, next.route)
    /\ UNCHANGED <<registrationVars, serverVars>>

Start ==
    /\ ~started /\ Len(declared) = Len(config.program)
    /\ started' = TRUE
    /\ UNCHANGED <<routerVars, registrationVars, config, taken, work>>

At(t, step) == work[t].step = step
Move(t, step) == work' = [work EXCEPT ![t].step = step]
Respond(t, outcome, step) ==
    work' = [work EXCEPT ![t].step = step, ![t].way = outcome.way, ![t].resp = outcome.resp]
Unchanged == UNCHANGED <<routerVars, config, started>>

(* onRequest: whether to close is the client's choice until a handler says.  *)
Take(t, req, close) ==
    /\ started /\ At(t, "idle") /\ taken < config.requests
    /\ work' = [work EXCEPT ![t] = [Idle EXCEPT !.step = "before", !.number = taken + 1,
                                                 !.req = req, !.resp = Fresh(close)]]
    /\ taken' = taken + 1
    /\ UNCHANGED registrationVars /\ Unchanged

(* processBefore, in order; a thrown response is the answer, and neither the *)
(* router nor processAfter sees it.                                          *)
Refuse(t) ==
    /\ At(t, "before")
    /\ \E i \in DOMAIN config.chain :
          /\ \A j \in 1..i - 1 : Passes(config.chain[j], work[t].req)
          /\ \E refusal \in Refusals(config.chain[i], work[t].req) : Respond(t, refusal, "send")
    /\ UNCHANGED <<registrationVars, taken>> /\ Unchanged

Pass(t) ==
    /\ At(t, "before")
    /\ \A i \in DOMAIN config.chain : Passes(config.chain[i], work[t].req)
    /\ Move(t, "route")
    /\ UNCHANGED <<registrationVars, taken>> /\ Unchanged

Hits(t) == route(work[t].req.method, work[t].req.path)

RouteNone(t) ==
    /\ At(t, "route") /\ Hits(t) = NoRoute
    /\ Respond(t, As("notFound", NotFound(work[t].resp)), "after")
    /\ UNCHANGED <<registrationVars, taken>> /\ Unchanged

(* catch (const std::exception&): the response as it is, with a body but no  *)
(* length, and without processAfter.                                         *)
Uncaught(r) == [StatusOnly(r, 500) EXCEPT !.body = 1]
Finish(t, outcome) ==
    IF outcome.way = "threw"
    THEN Respond(t, Threw(Uncaught(outcome.resp)), "send")
    ELSE Respond(t, outcome, "after")

RouteHandler(t) ==
    /\ At(t, "route") /\ Hits(t) # NoRoute /\ Hits(t).handler # "RegisterHandler"
    /\ \E outcome \in Outcomes(Hits(t).handler, work[t].resp) : Finish(t, outcome)
    /\ UNCHANGED <<registrationVars, taken>> /\ Unchanged

(* RegisterHandler parses its body outside of any try. *)
RouteRegister(t) ==
    /\ At(t, "route") /\ Hits(t).handler = "RegisterHandler"
    /\ \/ \E n \in Name : StartRegistering(t, n, work[t].number) /\ Move(t, "registering")
       \/ Finish(t, Threw(work[t].resp)) /\ UNCHANGED registrationVars
    /\ UNCHANGED taken /\ Unchanged

RegisterStep(t) ==
    /\ At(t, "registering")
    /\ Registering(t)
    /\ UNCHANGED <<work, taken>> /\ Unchanged

RegisterEnds(t) ==
    /\ At(t, "registering")
    /\ LET r == work[t].resp
       IN  \/ In(t, "registered") /\ Finish(t, As("registered", Filled(r, 200, FALSE, 1)))
           \/ In(t, "conflict") /\ Finish(t, As("conflict", Filled(r, 409, FALSE, 1)))
           \/ In(t, "failed") /\ Finish(t, Threw(r))
    /\ EndRegistering(t)
    /\ UNCHANGED taken /\ Unchanged

After(t) ==
    /\ At(t, "after")
    /\ work' = [work EXCEPT ![t].step = "send", ![t].resp = processAfter(@)]
    /\ UNCHANGED <<registrationVars, taken>> /\ Unchanged

(* appendToBuffer, the file if there is one, and shutdown if it is to close. *)
Send(t) ==
    /\ At(t, "send")
    /\ work' = [work EXCEPT ![t] = Idle]
    /\ UNCHANGED <<registrationVars, taken>> /\ Unchanged

Handle(t) ==
    \/ Refuse(t) \/ Pass(t) \/ RouteNone(t) \/ RouteHandler(t) \/ RouteRegister(t)
    \/ RegisterStep(t) \/ RegisterEnds(t) \/ After(t) \/ Send(t)

Next ==
    \/ Declare \/ Start
    \/ \E t \in Thread : Handle(t) \/ \E req \in config.asked, close \in BOOLEAN : Take(t, req, close)

Spec == Init /\ [][Next]_vars

-----------------------------------------------------------------------------
(* What goes out: appendToBuffer writes the body whatever the response, and  *)
(* a file follows it, or a message that it could not be opened (2 texts).    *)
BytesSent(r) == r.body + (CASE r.file = "there" -> 1 [] r.file = "gone" -> 2 [] OTHER -> 0)

ServerSteps == {"idle", "before", "route", "registering", "after", "send"}
Responses ==
    [version : BOOLEAN, status : Nat, close : BOOLEAN, length : {NoLength, 0, 1, Huge},
     body : 0..1, file : {None, "there", "gone"}, cors : {None, "*"} \cup Origin]

(* Every variable has its type; a thread is at a statement of a registration *)
(* only in the handler that makes them.                                      *)
TypeOK ==
    /\ handlers_ \in [Key -> Handler \cup {NoHandler}]
    /\ callbacks_ \in [Key -> Handler \cup {NoHandler}]
    /\ regexHandlers_ \in Seq(Dynamic) /\ regexCallbacks_ \in Seq(Dynamic)
    /\ started \in BOOLEAN /\ taken \in 0..config.requests
    /\ users \subseteq [id : Nat, name : Name, by : Nat]
    /\ \A t \in Thread :
          /\ work[t].step \in ServerSteps /\ work[t].resp \in Responses
          /\ registering[t].step \in Steps /\ registering[t].name \in Name
          /\ At(t, "registering") <=> ~In(t, "none")

(* The client can tell where an answer ends and what it says: there is a     *)
(* status line, and the length that is declared is sent, or none is declared *)
(* and the connection closes.  All answers but those of the named ways       *)
(* (HttpServer.cpp:147-237, HttpResponse.cpp:6-38).                          *)
Readable(r) ==
    /\ r.version /\ r.status # 0
    /\ \/ r.length = BytesSent(r)
       \/ r.length = NoLength /\ r.close
Unreadable ==
    {"notFound", "preflight", "forbidden", "tooMany", "threw", "test", "dataError",
     "fileGone", "fileMissing"}
AnswersReadable == \A t \in Thread : At(t, "send") =>
    (Readable(work[t].resp) <=> work[t].way \notin Unreadable)

(* With CORS and one allowed origin, or "*", what a preflight has told a     *)
(* page it may ask, the answer then lets it read; with more, or none, it may *)
(* not: after names the first of them only.  The exceptions are answers that *)
(* never reached processAfter (CorsMiddleware.cpp:27-72,                     *)
(* MiddlewareChain.cpp:22).                                                  *)
Lets(r, origin) == r.cors \in {"*", origin}
PreflightKept == \A t \in Thread :
    /\ At(t, "send") /\ work[t].way \notin {"threw", "tooMany", "preflight", "forbidden"}
    /\ (\E i \in DOMAIN config.chain : config.chain[i] = "cors") /\ Len(allowedOrigins) = 1
    => \A origin \in Origin :
          Lets(work[t].resp, origin) <=> handlePreflightRequest(origin).way = "preflight"
=============================================================================
