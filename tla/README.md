# HttpsServer in TLA+

A model of the C++ `HttpServer` framework and of the Gomoku application that
runs on it. Paths are relative to the repository; `HttpServer/...` and
`WebApps/GomokuServer/...` are the two source trees.

## The system

A muduo `TcpServer` accepts connections and spreads them over event-loop
threads (`main.cpp` sets 4). A connection stays on its thread, so the parser is
sequential per connection, but handlers of different connections run at the same
time and share the application's tables, the sessions and the database pool.

    bytes -> HttpServer::onMessage -> HttpContext::parseRequest
          -> HttpServer::onRequest -> handleRequest
               -> MiddlewareChain::processBefore (CORS; the limiter, if installed)
               -> Router::route -> a handler
                    -> SessionManager, onlineUsers_, aiGames_, AiGame
                    -> MysqlUtil -> DbConnectionPool -> MySQL
               -> MiddlewareChain::processAfter
          -> the response on the connection, shutdown if it says so

| part | state | operations | what makes it hard | what makes it correct |
|---|---|---|---|---|
| `DbConnectionPool`, `DbConnection`, `MysqlUtil` | queue of idle connections, `mutex_`, `cv_`, the check thread's copy | `init`, `getConnection`, the deleter, `checkConnections` | exceptions between pop and push, lost wake-ups, the check thread sleeping with the mutex | no connection lost or lent twice, no lost wake-up, progress |
| `LimitMiddleware` | `tokens_`, `lastRefillTime_` | `before`, `refillTokens` | rounding to milliseconds | admissions bounded above, rate bounded below |
| `HttpServer::onMessage`, `HttpContext`, `HttpRequest` | input buffer, parser state, one reused request | `parseRequest`, `reset`, `onRequest` | requests cut anywhere, pipelining, what follows a refusal, what `reset` leaves | replies in order, in step with the stream, nothing of another request in a request |
| `SessionManager`, `Session`, `MemorySessionStorage` | sessions by id, data, expiry | `getSession`, `setValue`, `clear`, `destroySession` | no locks, sessions saved again by whoever holds one, expiry | a logout holds |
| login, logout, game handlers | `onlineUsers_`, `aiGames_`, `maxOnline_` | the handlers | check-then-act, references kept over a sleep | nobody locked out, no duplicate login, games end |
| `AiGame` | board, count, winner | `humanMove`, `aiMove`, the search | moves that overlap the AI's half second | rules kept, no threat overlooked |
| `Router`, `MiddlewareChain`, `CorsMiddleware` | tables fixed at start-up | `route`, `processBefore`, `processAfter` | precedence, a response thrown by a middleware | the declared precedence, preflights kept, readable answers |
| `SslConnection`, `SslContext` | TLS state, two BIOs | `onRead`, `handleHandshake`, `send` | whether both sides can go on | the handshake ends |
| `RegisterHandler` | the `users` table | check, insert, read the id | three statements, three connections | nobody is told somebody else's id, or 409 for a free name |
| pages, upload, download, response text, files | none shared | output | | |

`PROJECT.json` lists every component with its status, and under `hazards` what a
test of this code would hardly reach, at its line.

## Modules

| module | what it is |
|---|---|
| `ResourcePool` | abstract: a set of resources, each free or held by one client |
| `DbConnectionPool` | the pool; `Abstract == INSTANCE ResourcePool WITH ...` is the refinement mapping |
| `LimitMiddleware` | the token bucket |
| `HttpConnection` | one plain connection, from the client's bytes to its replies |
| `Router` | the four routing tables, and what registrations promise |
| `Registration` | the registration of users, statement by statement |
| `RequestHandling` | composes `Router` and `Registration`: from a parsed request through middlewares, routes and handlers to the response |
| `GomokuApp` | sessions, login, logout and games over several threads and browsers |
| `Gomoku` | abstract: the game of two players |
| `AiGame` | one game with its search, and the threads that move on it; implements `Gomoku` |
| `SslConnection` | one TLS connection between buffer, BIOs and OpenSSL |
| `..._proofs` | the theorems about a module |
| `MC...` | instances for TLC: symmetry, settings, and a comment on the bounds |

### DbConnectionPool

A critical section that does not block is one action, guarded by `MutexFree`.
The only section that blocks is the check thread's nap with an empty queue
(`napping`). `pc[t]` follows a thread through a statement: `lock` (wants the
mutex), `waiting` and `woken` (in `cv_.wait`), then holding a connection in
`ping`, `reconnect`, `query`, `failed`. Links to MySQL break at any time
(`LoseLink`), a reconnection may fail, waiters may wake spuriously. The check
thread works on a copy of the queue, so it pings connections borrowed meanwhile.
Every borrowed pointer is dropped by `MysqlUtil` after one statement, so
`GiveBack` is the end of the statement and the deleter in one: the statement
itself changes nothing the pool sees.

### LimitMiddleware

`before` runs under its mutex, so a call is one action. Time passes in ticks of
the steady clock, `TicksPerMs` to a millisecond; `tokens_` counts fractions, so
the arithmetic is exact where the code uses a double. `admittedAt` and `slow`
are history: when requests were admitted, and a bucket that is refilled at each
tick at half the rate and serves the same requests.

### HttpConnection

The stream is a sequence of tokens, a line with its CRLF or a unit of body data,
and `Receive` moves any prefix into the buffer. One action is one turn of
`parseRequest`'s loop. Requests are of fourteen kinds: a GET or a POST with and
without a body, a POST whose length is in a field `content-length`, uploads
whole, cut and too short, a missing, unreadable or negative length (which is
taken for a huge one), a line without a colon, a method or a version that the
parser does not know. PUT behaves like POST there, and HEAD, DELETE and OPTIONS
like GET. Left out are other header names in another case (`getHeader` treats
them alike), chunked bodies (a POST with one has no length and is refused as
such), and body data with a CRLF other than in uploads: a request hidden in a
body that is not read would be answered like any other. The handler's answer is
any response, with the connection closed or not, and with the error text behind
it when a file cannot be opened.

`InStep` says that between two requests the next token read is the first of a
request, with two exceptions: what an upload leaves of its last boundary in the
buffer (finding `http_upload`), and the body of a GET or DELETE, which
`parseRequest` takes for complete at the blank line (`HttpContext.cpp:83-88`).
`PlainNeverRefused` is what a client sees of it: it is never refused if it gives
the length of each POST and PUT as `Content-Length`, uploads nothing, and sends a
body with another method in its last request only. A name in another case is
enough for a 400 (`lowerPost`; `HttpContext.cpp:62`). `CountedBodyIsOwn` is the part of what
the documentation says of a body that the code keeps: the body of a POST or PUT
with a `Content-Length` is whole and its own. Any other request may be handled
with the body of the one before (finding `http_body`).
`AssertsOnlyWhenShut` confines the failing assertion of finding
`http_assert` to connections already shut down. `EveryRequestAnswered` leaves out requests sent
before the last answer, because `onMessage` parses one request per call and a
second one in the same segment waits for more data.

### GomokuApp

A thread runs one handler at a time, from `getSession` to the response; `pc` says
where it is, and every access to a shared container is a step of its own, since
the code takes locks only for single writes. `sessions` are the ids that
`MemorySessionStorage` holds and `data` the session objects, which a handler may
hold after they were destroyed. Operations are `login`, `logout`, `start` (also
restart), `move` and `visit`: all the pages that only need a logged-in session.
Requests that are refused before they touch shared state (wrong content type,
unknown password, a database error in login) are left out.

A game is playing, won or full; its board is in `AiGame`. A move holds a
reference into `aiGames_`. When the entry goes, the reference dangles: the
process may crash, or go on with what the memory still holds; when a new entry
is made the memory may be its own (`Repoint`). Not modelled: freed memory that
becomes another user's entry, and a race inside one `std::unordered_map`.

### Router, Registration and RequestHandling

Start-up registers routes one at a time (`Declare`) and then starts the server.
A path is its sequence of segments and a pattern has `Param` for `:name`, which
is what `convertToRegex` makes of it; other regular expressions in a pattern are
left out. `declared` is history, and `Promised` says from it alone what a request
is owed: exact before dynamic, objects before callbacks, the newest exact and the
oldest dynamic route. `Param` stands for one segment that is not empty, as
`[^/]+` does. `RoutedAsDeclared` asks for the path's parameters where the code
gives them, for objects; that a callback gets none is finding `router_params`.

A thread takes a request (`Take`) and goes through `before`, `route`, `after` and
`send`. `Refuse` is a middleware that throws its response, which neither the
router nor `processAfter` sees. A handler ends in one of its outcomes, a name and
a response; a response is its status line, the flag to close, the declared
length, the body's size, the file, and the origin it names for CORS. `Filled`
and the other operators above them are the calls the handlers make on
`HttpResponse`. A handler that throws ends in `Uncaught`, with the response as it
was then. What handlers do to sessions and games is in `GomokuApp`.

`RegisterHandler` is the one handler with steps, since other threads can see
them: `registering` is where a thread is, `users` the table. The repository does
not contain the schema, so `uniqueKey` is either. A statement may fail before or
after it has taken effect.

### AiGame

`pc` follows `AiGameMoveHandler::handle` through `humanMove`, its checks,
`aiMove` with the sleep, and the search; a move of another thread may come in
between at each of them. `checkWin` counts along the four lines from the cell
played, as the code does. `getBestMove` is its first two passes, win or block
and then the threat; the two that follow are never reached, because every empty
cell has a threat of at least 4. `openings` and `overlaps` are history. `Turn` is the refinement
mapping to `Gomoku`, whose rules are stated over lines on the board and know
nothing of `checkWin`.

### SslConnection

The client, OpenSSL and the network are external; a flight of handshake records
is one record. `handleHandshake` gives OpenSSL what has arrived and leaves what
OpenSSL answers in `writeBio_`, which only `send` would read.

## Runs

| run | bounds | shows |
|---|---|---|
| `pool` | 3 threads, 2 connections, weakly fair | types, conservation, no lost wake-up, refinement of `ResourcePool`; if the mutex is fair: progress, every connection returns |
| `limiter` | 2 tokens, 3 ticks a millisecond, 18 ticks | types, admission bound, half the rate |
| `http` | 14 kinds, 3 requests, fair | types, replies in order, closed means closed, out of step by two named leftovers only, own headers and counted bodies, plain clients never refused, assertion only after shutdown, every request answered |
| `app` | 2 threads, 2 browsers, 2 users, 4 requests | types, logout ends the session, lock-outs are the named ones, no finished game kept |
| `aigame` | 2 threads, 3 x 3 board, 3 in a row, 2 overlaps | types, refinement of `Gomoku`, a human wins only by a fork, the AI finds a cell |
| `server` | 2 threads, 2 names; tables of 3 routes, 12 settings, 3 registrations | types, routing, readable answers, preflights, registration |
| `http_body`, `http_assert`, `http_upload` | 2 requests | violated: three statements of comments or assertions |
| `app_login` | as `app`, 2 requests | violated: no duplicate login |
| `router_params` | tables of 3 routes | violated: whatever a pattern leads to gets the path's parameters |
| `ssl_handshake` | 1 client, 2 requests, fair | violated: a handshake that began ends |

The six violations are findings in `PROJECT.json`, each with the comment,
document or assertion it contradicts.

Why the bounds are enough. Pool: two connections let one be lost while the other
moves, three threads give a waiter, a newcomer and a holder, which is what a lost
wake-up takes; the safety results are proved for any sizes.
Limiter: the bucket empties and refills, and remainders are dropped several
times; proved for all constants. HTTP: a defect needs at most a request that
leaves something behind, one that meets it and one that shows it; all of its
safety is proved for any number of them. `Unreachable`, the model's 2^64 - 1, is
more tokens than `MaxRequests` requests have (at most ten each). Application: a
login, a logout and two requests that overlap them; two threads, since every
hazard listed is between two handlers. Game: on nine cells with three in a row
forks, full boards and wins of either side all happen; all but the two-step
overlaps is proved for any board. Server: precedence is between two or three
routes; a response depends on its own request only, so one request is enough for
each setting, and three registrations on two threads let one meet what two have
left; all of it is proved. `MaxRequests`, `MaxOverlaps`,
`config.requests` and `Horizon` in the limiter are the only bounds on counters.

`CHECK_DEADLOCK FALSE` is set where the system may really stop: `http`, where a
client may stop sending and a failed assertion ends the process; `app` and
`server`, where the requests run out; `aigame`, where the game ends or the process
crashes; `ssl_handshake`, which is about a connection that stops. The pool and
the limiter are checked for deadlock; the limiter can always refuse or admit.

### Fairness

`DbConnectionPool!Fairness` is weak: the check thread, and a thread between pop
and push that needs no lock, go on by themselves. Calls, broken links and
spurious wake-ups need not happen.

That is not enough for liveness. The check thread sleeps a second with `mutex_`
held when the queue is empty and locks it again right after the `continue`, so a
thread that has been woken may find it taken every time, and `std::mutex`
promises no order. `MutexIsFair` names what is missing: a thread that wants the
mutex and finds it free again and again gets it in the end (strong fairness of
`init`, of taking a connection and of the two ways to return one). The code does
not give this; it is an assumption about the platform, and `PoolProgress` and
`EveryConnectionReturns` state it: each is `MutexIsFair => ...`. Without it both
are false, and TLC shows a borrower that never gets its turn. Even with it only
`PoolProgress`, not progress of each waiter, holds: `notify_one` and the mutex
let newcomers overtake.

`HttpConnection!FairSpec`: weak fairness of the server's steps, which are the
network's delivery and the event loop. The client need not send.

`SslConnection!FairSpec`: weak fairness of the network's delivery and the event
loop, and of the client's reading of what is sent to it; the client need not
start, nor send requests.

## Proofs

Machine-checked for every value of the constants, under the assumptions
`PoolAssumption` (a finite set of threads, at least one connection),
`LimitAssumption` (natural numbers, milliseconds and ticks not zero),
`GameAssumption` (a board, lines of at least two), `RouterAssumption`,
`RegistrationAssumption` (finitely many threads, a name), `ServerAssumption`
(settings of the right types), `AppAssumption` (finitely many threads and
users, `None` not a user) and `ConnectionAssumption` (a bound on the requests,
and only the kinds that `Wire` knows).

* `DbConnectionPool_proofs`: `TypeCorrect`, `PoolConserves`,
  `PoolLosesNoWakeup`, `PoolImplementsResourcePool`. `TypeOK` is not inductive:
  `Push` appends `conn[t]`, which is a connection only because a thread holds one
  exactly between pop and push. The strengthening `TypeInv` adds that and that
  the check thread's copy is not empty while it works on it. `Conservation` is
  inductive over `TypeInv`; it is what makes each step of the queue a step of the
  abstract set, with `Take` and `GiveBack` the two that show. For
  `NoLostWakeup` a step either adds a woken thread with each connection, or takes
  at most one of both.
* `LimitMiddleware_proofs`: `TypeCorrect`, `AdmissionsBounded`,
  `HalfRateGuaranteed`. The bound on admissions is proved from an invariant that
  adds the tokens in the bucket and those the open refill may bring to the
  admissions of each window that reaches to now.
* `AiGame_proofs`: `TypeCorrect`, `FaultsOnlyByOverlap`, `PlaysGomokuCorrect`,
  `WinOnlyByFork`, on any board. `AloneInv` says what holds while no moves have
  overlapped: at most one thread is at work, the count is that of the stones, and
  the game is over exactly when it should be. `CheckWinMakesLine` and
  `LineMeansCheckWin` relate the walk of `checkWin` from the cell just played to
  the existence of a line on the board, given that there was none before
  (`NoLine`). `DefendedInv` is what the search leaves behind: the human has no
  winning cell, or had two.
* `Router_proofs`, `RequestHandling_proofs`: `TypeCorrect`, `RoutingCorrect`,
  `AnswersCorrect`, `CorsCorrect`, `ConflictCorrect`, `OwnIdCorrect`,
  `RowsCorrect`. `TableInv`
  ties each table to the history of registrations (an exact table holds the
  newest entry of each key, a list its entries in order), and
  `TableKeepsPromise` derives the routing from it. `HandlersSound` shows for every
  handler that it makes a response and leaves the CORS header alone. `AnswerInv`
  says that a response is empty until a handler has it, and can be read from then
  on exactly if its way is not one of the nine that lose the status line or the
  length. `RegInv`
  gives requests at work distinct numbers, a row its request's number, and says
  that a request has no row before its insert: hence a row that the check finds
  is another's. `RowsInv` counts the rows of a name with its inserts under way.
* `GomokuApp_proofs`: `TypeCorrect`, `LogoutCorrect`, `OnlineUserHasSession`,
  `FinishedGameRemoved`. `TypeInv` adds what a handler knows where it is
  (`Known`), that the session it holds has not expired, and that the threads still
  to load a session and the sessions made are no more than the requests taken,
  from which every new id is in range. `LogoutInv` keeps every session that is
  logged in, and every session a login holds, in `loginSince`. `OnlineInv` says
  what a login has written and not yet lost, and that a user online has a
  session or a logout between `destroySession` and the erase. `GameInv` names the
  points of a move from which a finished game is still going to be removed; the
  invariant that TLC checks is weaker, any move of the user will do.

* `HttpConnection_proofs`: `TypeCorrect`, `RepliesCorrect`, `ClosedCorrect`,
  `HeadersCorrect`, for any number of requests. The invariants speak of `Stream`,
  what is still to be read, in the buffer or on its way. A step of the server
  takes some of its tokens and may put the rest of a boundary in front
  (`ParseTakes`), a client's step appends a request (`SendType`); so `StreamInv`
  stays: a line of a head is followed by the next of the same head, and the first
  lines in it are in the order of the requests. `ReplyInv` puts every reply before
  the request in the parser's hands and that one before all that starts in
  `Stream`. `HeadInv` says that an open connection that expects headers has the
  next line of the same request in front of it; if body data came first,
  `findCRLF` would take it into the line (`FirstLine`).

* `HttpStream_proofs`: `InStepCorrect`, `BodiesCorrect`, `PlainCorrect`,
  `AssertsCorrect`. Here a token's place in its request is needed, which the
  server does not see: `Placed(sent, Stream, p)` says that `p` gives every token
  of `Stream` its place, the rest of its request follows it, and then comes the
  first token of another. Reading tokens keeps a placement (`DropPlaced`), so
  does sending a request (`AppendPlaced`). `WireFits` is all that is used of the
  requests: where the head ends (`Fits`), that a length is the body's, or more
  than will ever come, or that of a multipart, that only an upload has a second
  boundary and only one kind of GET a body, and what the head of a plain request
  is made of. `PlaceInv` says that while nothing was refused there is a
  placement in which the parser's state fits the next token: the first of a
  request, one of the head, or the first of the body (`AtStart`, `InHead`,
  `AtBody`), or else that token is the rest of an upload's boundary or of the
  body of a GET (`Derailed`), which the next request line is refused for.
  `InStep` follows. `BodyInv` adds what is known of the body of a complete POST,
  `CleanInv` that nothing was refused if all requests are plain but the last,
  which may be a GET with a body: each branch of the parser that refuses
  contradicts a placement in such requests, and once derailed there is only data
  to come (`OnlyData`), since `ReplyInv` leaves no later request. `MethodInv`
  needs none of this: while nothing was refused, no method is set when a request
  line is expected.

Left to TLC: liveness (`PoolProgress`, `EveryConnectionReturns`,
`EveryRequestAnswered`, `HandshakeEnds`), which the prover does not reach. Every
other property of a passing run is proved.

## Not modelled

* What other threads make of a container while it rehashes, of `moveCount_`, of
  the random generator: a data race inside one access. Freed memory that becomes
  another user's game.
* `getBestMove` after its second pass and `isNearOccupied`: never reached but on
  a full board, where they do nothing.
* A `ResultSet` that is read after its connection is back in the pool: what the
  connector does then is not in the repository.
* `SslContext`, `SslConfig`: loaded once at start-up. `SslConnection::send`,
  `onEncrypted`, `onDecrypted` and the BIO callbacks: nobody calls them.
* Regular expressions in a pattern other than `:name`; the application has no
  dynamic route.
* The text of pages, JSON and headers, reading and writing files, logging, the
  browser scripts, the build files and `examples/`.

Four behaviours are in the models without a run of their own, since nothing in
the repository promises otherwise: the limiter grants down to half its rate
because it drops parts of milliseconds, `updateMaxOnline` may store the smaller
of two numbers, the request after a GET or DELETE with a body is refused, and so
is a POST whose length is in a field `content-length`. Other behaviours that a property exempts by name
(pipelined requests left waiting, a negative length, users locked out by expiry
or by a bad logout body, references into erased games, overlapping moves,
several allowed origins) are hazards in `PROJECT.json`, each with a note.
