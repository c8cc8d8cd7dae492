--------------------------- MODULE HttpConnection ---------------------------
(***************************************************************************)
(* One plain HTTP connection: HttpServer::onMessage, the parser of         *)
(* HttpContext over the connection's input buffer, and HttpServer's        *)
(* onRequest.  All of it runs on the connection's event-loop thread; the   *)
(* parser's loop is one action per iteration, nothing is received between  *)
(* two of them.                                                            *)
(*                                                                         *)
(* The stream is a sequence of tokens: a whole line with its CRLF, or a    *)
(* unit of body data, which has no CRLF.  A line that has arrived in part  *)
(* is like one that has not arrived, findCRLF fails on both.  Lengths      *)
(* count tokens.  Each token carries the number of the request it belongs  *)
(* to, which the server does not see.                                      *)
(***************************************************************************)
EXTENDS Integers, FiniteSets, SequencesExt

CONSTANTS Kinds,         \* the requests the client may send, see Wire
          MaxRequests    \* bound on how many it sends

RequestKinds == {"get", "getBody", "post", "lowerPost", "emptyPost", "upload", "cutUpload",
                 "shortUpload", "noLength", "negativeLength", "badLength", "badHeader",
                 "badMethod", "badVersion"}

ASSUME ConnectionAssumption == MaxRequests \in Nat /\ Kinds \subseteq RequestKinds

VARIABLES
    sent,        \* the kinds of the requests the client has sent
    inflight,    \* what is on its way to the server
    buf,         \* the connection's input buffer
    state_,      \* HttpContext::state_
    request_,    \* HttpContext::request_
    step,        \* where the thread is: in the event loop or in onMessage
    ok,          \* parseRequest's result so far
    connected,   \* FALSE once shutdown() was called: send() then does nothing
    replies,     \* what the client gets
    handled,     \* history: the requests given to the handlers
    overlapped,  \* history: a request was sent before the last was answered
    aborted      \* the assertion in setMethod has failed

client == <<sent, inflight, overlapped>>
vars == <<sent, inflight, buf, state_, request_, step, ok, connected, replies,
          handled, overlapped, aborted>>

-----------------------------------------------------------------------------
(* The requests a client may send.  GET stands for the methods whose body    *)
(* the parser does not read (GET, HEAD, DELETE, OPTIONS), POST for the two   *)
(* whose body it reads (POST, PUT).  Body data has no CRLF but in uploads,   *)
(* so none looks like a line of a request.                                   *)
Token(kind, id) == [kind |-> kind, id |-> id, n |-> 0]
Length(len, id) == [kind |-> "length", id |-> id, n |-> len]
Tokens(kinds, id) == [i \in DOMAIN kinds |-> Token(kinds[i], id)]

Unreachable == 10 * MaxRequests + 1    \* -1 is 2^64 - 1, more than all the requests together
MultipartBody == <<"boundary", "disposition", "type", "blank", "data", "closing">>

Wire(kind, id) ==
    CASE kind = "get" -> Tokens(<<"GET", "blank">>, id)
      [] kind = "getBody" ->        \* with a body that its headers count
            Tokens(<<"GET">>, id) \o <<Length(2, id)>> \o Tokens(<<"blank", "data", "data">>, id)
      [] kind = "post" ->
            Tokens(<<"POST">>, id) \o <<Length(2, id)>> \o Tokens(<<"blank", "data", "data">>, id)
      [] kind = "lowerPost" ->      \* its length is in a field "content-length"
            Tokens(<<"POST", "lowerLength", "blank", "data", "data">>, id)
      [] kind = "emptyPost" -> Tokens(<<"POST">>, id) \o <<Length(0, id)>> \o Tokens(<<"blank">>, id)
      [] kind = "upload" ->
            Tokens(<<"POST", "multipart">>, id) \o <<Length(Len(MultipartBody), id)>>
                \o Tokens(<<"blank">> \o MultipartBody, id)
      [] kind = "cutUpload" ->      \* its last boundary is missing
            Tokens(<<"POST", "multipart">>, id) \o <<Length(5, id)>>
                \o Tokens(<<"blank">> \o Front(MultipartBody), id)
      [] kind = "shortUpload" ->    \* only the first two lines of its body
            Tokens(<<"POST", "multipart">>, id) \o <<Length(2, id)>>
                \o Tokens(<<"blank", "boundary", "disposition">>, id)
      [] kind = "noLength" -> Tokens(<<"POST", "blank">>, id)
      [] kind = "negativeLength" -> \* stoi takes the sign, uint64_t does not
            Tokens(<<"POST">>, id) \o <<Length(Unreachable, id)>> \o Tokens(<<"blank", "data">>, id)
      [] kind = "badLength" -> Tokens(<<"POST", "badlength", "blank">>, id)
      [] kind = "badHeader" -> Tokens(<<"GET", "junk", "blank">>, id)
      [] kind = "badMethod" -> Tokens(<<"FOO", "blank">>, id)
      [] kind = "badVersion" -> Tokens(<<"GET9", "blank">>, id)

WellFormed == {"get", "getBody", "post", "lowerPost", "emptyPost", "upload"}
Plain == {"get", "post", "emptyPost"}

HasColon == {"length", "badlength", "lowerLength", "multipart", "disposition", "type"}
HasSpace == {"GET", "GET9", "POST", "FOO"} \cup HasColon
MethodWordUnchecked(kind) == kind            \* setMethod takes any word
MethodWord(kind) ==
    CASE kind \in {"GET", "GET9"} -> "kGet"
      [] kind = "POST" -> "kPost"
      [] OTHER -> "kInvalid"

LineEnds(s) == {i \in DOMAIN s : s[i].kind # "data"}
HasLine(s) == LineEnds(s) # {}
NthLineEnd(s, n) ==
    CHOOSE i \in LineEnds(s) : Cardinality({j \in LineEnds(s) : j <= i}) = n
After(s, i) == SubSeq(s, i + 1, Len(s))       \* retrieve the first i tokens

-----------------------------------------------------------------------------
(* HttpRequest: as it is constructed, and what reset() leaves of the last    *)
(* one, swap() passing over content_, contentLength_ and the upload's flag.  *)
NoRequest == [method |-> "kInvalid", id |-> 0, fields |-> {}, body |-> <<>>,
              length |-> 0, uploadOk |-> TRUE]
ResetKeepingHeaders(r) == [r EXCEPT !.method = "kInvalid", !.id = 0]
ResetKeepingMethod(r) == [r EXCEPT !.id = 0, !.fields = {}]
Reset(r) == [r EXCEPT !.method = "kInvalid", !.id = 0, !.fields = {}]

Init ==
    /\ sent = <<>> /\ inflight = <<>> /\ overlapped = FALSE
    /\ buf = <<>>
    /\ state_ = "kExpectRequestLine"
    /\ request_ = NoRequest
    /\ step = "loop" /\ ok = TRUE
    /\ connected = TRUE
    /\ replies = <<>>
    /\ handled = <<>>
    /\ aborted = FALSE

-----------------------------------------------------------------------------
(* The client.                                                               *)
Answered(id) == \E i \in DOMAIN replies : replies[i].to = id

Send(kind) ==
    /\ Len(sent) < MaxRequests
    /\ sent' = Append(sent, kind)
    /\ inflight' = inflight \o Wire(kind, Len(sent) + 1)
    /\ overlapped' = (overlapped \/ (sent # <<>> /\ ~Answered(Len(sent))))
    /\ UNCHANGED <<buf, state_, request_, step, ok, connected, replies, handled, aborted>>

(* TCP delivers any prefix of it; the event loop calls onMessage.            *)
Receive ==
    /\ step = "loop"
    /\ inflight # <<>>
    /\ \E n \in 1..Len(inflight) :
          /\ buf' = buf \o SubSeq(inflight, 1, n)
          /\ inflight' = After(inflight, n)
    /\ step' = "parse"
    /\ ok' = TRUE
    /\ UNCHANGED <<sent, overlapped, state_, request_, connected, replies, handled, aborted>>

-----------------------------------------------------------------------------
(* parseRequest.  Its loop ends with the step "parsed".                      *)
Parsing(s) == step = "parse" /\ state_ = s
untouched == <<client, connected, replies, handled>>

(* findCRLF finds nothing: wait for more. *)
ParseNoLine ==
    /\ step = "parse" /\ state_ \in {"kExpectRequestLine", "kExpectHeaders"}
    /\ ~HasLine(buf)
    /\ step' = "parsed"
    /\ UNCHANGED <<untouched, buf, state_, request_, ok, aborted>>

(* A first line that processRequestLine accepts is consumed; one it refuses  *)
(* stays in the buffer, and so does the method read from it.  setMethod is   *)
(* called when the line has a space, and asserts that no method is set yet.  *)
FirstLineKind == Head(buf).kind
ParseRequestLine ==
    LET end == NthLineEnd(buf, 1)
        method == IF end = 1 THEN MethodWord(FirstLineKind) ELSE "kInvalid"
        accepted == end = 1 /\ FirstLineKind \in {"GET", "POST"}
        asserts == buf[end].kind \in HasSpace
    IN  /\ Parsing("kExpectRequestLine") /\ HasLine(buf)
        /\ \/ /\ asserts /\ request_.method # "kInvalid"
              /\ aborted' = TRUE
              /\ step' = "aborted"
              /\ UNCHANGED <<buf, state_, request_, ok>>
           \/ /\ asserts => request_.method = "kInvalid"
              /\ accepted
              /\ request_' = [request_ EXCEPT !.method = method, !.id = Head(buf).id]
              /\ buf' = Tail(buf)
              /\ state_' = "kExpectHeaders"
              /\ UNCHANGED <<step, ok, aborted>>
           \/ /\ asserts => request_.method = "kInvalid"
              /\ ~accepted
              /\ request_' = IF asserts THEN [request_ EXCEPT !.method = method] ELSE request_
              /\ ok' = FALSE
              /\ step' = "parsed"
              /\ UNCHANGED <<buf, state_, aborted>>
        /\ UNCHANGED untouched

(* addHeader: a later field replaces an earlier one of the same name.        *)
SameName(f, g) ==
    f.kind = g.kind \/ {f.kind, g.kind} \subseteq {"length", "badlength"}
                    \/ {f.kind, g.kind} \subseteq {"multipart", "type"}
AddHeader(t) ==
    request_' = [request_ EXCEPT !.fields = {f \in @ : ~SameName(f, t)} \cup {t}]

LengthFields == {f \in request_.fields : f.kind \in {"length", "badlength"}}

(* One line of the header section, always consumed.                          *)
ParseHeader ==
    LET end == NthLineEnd(buf, 1)
        line == buf[end]
        blank == end = 1 /\ line.kind = "blank"
    IN  /\ Parsing("kExpectHeaders") /\ HasLine(buf)
        /\ ~(blank /\ request_.method = "kPost")
        /\ buf' = After(buf, end)
        /\ \/ /\ line.kind \in HasColon
              /\ AddHeader(line)
              /\ UNCHANGED <<state_, step, ok>>
           \/ /\ blank
              /\ state_' = "kGotAll"
              /\ step' = "parsed"
              /\ UNCHANGED <<request_, ok>>
           \/ /\ line.kind \notin HasColon /\ ~blank
              /\ ok' = FALSE
              /\ step' = "parsed"
              /\ UNCHANGED <<state_, request_>>
        /\ UNCHANGED <<untouched, aborted>>

(* The blank line after a POST's headers: the length decides what follows.   *)
EndOfPostHeaders ==
    /\ Parsing("kExpectHeaders") /\ buf # <<>> /\ Head(buf).kind = "blank"
    /\ request_.method = "kPost"
    /\ \A f \in LengthFields : f.kind = "length"     \* else stoi throws
    /\ buf' = Tail(buf)
    /\ \/ /\ LengthFields = {}
          /\ ok' = FALSE
          /\ step' = "parsed"
          /\ UNCHANGED <<state_, request_>>
       \/ \E f \in LengthFields :
             /\ request_' = [request_ EXCEPT !.length = f.n]
             /\ IF f.n > 0
                THEN state_' = "kExpectBody" /\ UNCHANGED step
                ELSE state_' = "kGotAll" /\ step' = "parsed"
             /\ UNCHANGED ok
    /\ UNCHANGED <<untouched, aborted>>

IsUpload == \E f \in request_.fields : f.kind = "multipart"

WaitsWhenBodyIsComplete == Len(buf) <= request_.length
BodyIncomplete == Len(buf) < request_.length

(* Fewer bytes have arrived than the length says: wait for more. *)
ParseBodyWait ==
    /\ Parsing("kExpectBody")
    /\ BodyIncomplete
    /\ step' = "parsed"
    /\ UNCHANGED <<untouched, buf, state_, request_, ok, aborted>>

AfterBodyNotRetrieved == buf
AfterBodyButOne == After(buf, request_.length - 1)
AfterBody == After(buf, request_.length)
BodyAppended == request_.body \o SubSeq(buf, 1, request_.length)
TakenBody == SubSeq(buf, 1, request_.length)

ParseBody ==
    /\ Parsing("kExpectBody") /\ ~BodyIncomplete /\ ~IsUpload
    /\ request_' = [request_ EXCEPT !.body = TakenBody]
    /\ buf' = AfterBody
    /\ state_' = "kGotAll"
    /\ step' = "parsed"
    /\ UNCHANGED <<untouched, ok, aborted>>

(* parseMultipartData: four lines, the file up to the next boundary, and two *)
(* bytes of that boundary; the rest of its line stays in the buffer.         *)
ClosingBoundaries ==
    {i \in (NthLineEnd(buf, 4) + 1)..Len(buf) :
        /\ Head(buf).kind = "boundary"
        /\ buf[i].kind \in {"boundary", "closing"} /\ buf[i].id = Head(buf).id}

ParseMultipart ==
    LET lines == Cardinality(LineEnds(buf))
        parsed == lines >= 4 /\ ClosingBoundaries # {}
        end == CHOOSE i \in ClosingBoundaries : \A j \in ClosingBoundaries : i <= j
        skipped == IF lines >= 4 THEN 4 ELSE lines
    IN  /\ Parsing("kExpectBody") /\ ~BodyIncomplete /\ IsUpload
        /\ buf' = IF parsed THEN <<Token("rest", buf[end].id)>> \o After(buf, end)
                  ELSE IF skipped = 0 THEN buf
                  ELSE After(buf, NthLineEnd(buf, skipped))
        /\ request_' = [request_ EXCEPT !.uploadOk = parsed]
        /\ ok' = parsed
        /\ state_' = "kGotAll"
        /\ step' = "parsed"
        /\ UNCHANGED <<untouched, aborted>>

-----------------------------------------------------------------------------
(* The rest of onMessage.                                                    *)
Reply(kind, id, close) == [kind |-> kind, to |-> id, close |-> close]
Refusal == Reply("refusal", 0, TRUE)          \* the 400 it writes itself

ShutdownForgotten(close) == UNCHANGED connected
Shutdown(close) == connected' = (connected /\ ~close)

Written(msgs) == replies' = IF connected THEN replies \o msgs ELSE replies

(* stoi throws in parseRequest: the catch block refuses, nothing is reset.   *)
ParseThrows ==
    /\ Parsing("kExpectHeaders") /\ buf # <<>> /\ Head(buf).kind = "blank"
    /\ request_.method = "kPost"
    /\ \E f \in LengthFields : f.kind = "badlength"
    /\ Written(<<Refusal>>)
    /\ Shutdown(TRUE)
    /\ step' = "loop"
    /\ UNCHANGED <<client, buf, state_, request_, ok, handled, aborted>>

(* onRequest: the handlers' response is written, whole, or with an error     *)
(* behind it when the file it names cannot be opened.  Whether it closes the *)
(* connection is up to the request's version and Connection header unless a  *)
(* handler overrides them: both happen.                                      *)
OnRequest(before, open) ==
    \E close \in BOOLEAN, fileError \in BOOLEAN :
        LET id == request_.id
            reply == <<Reply("reply", id, close)>>
            messages == IF fileError THEN Append(reply, Reply("fileError", id, close)) ELSE reply
        IN  /\ handled' = Append(handled,
                  [id |-> id, method |-> request_.method, fields |-> request_.fields,
                   body |-> request_.body, length |-> request_.length, served |-> open])
            /\ Written(IF open THEN messages ELSE before)
            /\ Shutdown(close \/ ~open)
            /\ request_' = Reset(request_)
            /\ state_' = "kExpectRequestLine"

(* parseRequest has returned; a failure is refused, and a request that is    *)
(* complete is handled even then.                                            *)
FinishOnMessage ==
    LET refusal == IF ok THEN <<>> ELSE <<Refusal>>
    IN  /\ step = "parsed"
        /\ step' = "loop"
        /\ \/ /\ state_ = "kGotAll"
              /\ OnRequest(refusal, ok /\ connected)
           \/ /\ state_ # "kGotAll"
              /\ Written(refusal)
              /\ Shutdown(~ok)
              /\ UNCHANGED <<handled, request_, state_>>
        /\ UNCHANGED <<client, buf, ok, aborted>>

-----------------------------------------------------------------------------
ParseRequest ==
    \/ ParseNoLine \/ ParseRequestLine \/ ParseHeader \/ EndOfPostHeaders
    \/ ParseBodyWait \/ ParseBody \/ ParseMultipart \/ ParseThrows

Server == Receive \/ ParseRequest \/ FinishOnMessage

Next == Server \/ \E kind \in Kinds : Send(kind)

Spec == Init /\ [][Next]_vars

(* The network delivers and the event loop runs; a client need not send.     *)
FairSpec == Spec /\ WF_vars(Server)

-----------------------------------------------------------------------------
States == {"kExpectRequestLine", "kExpectHeaders", "kExpectBody", "kGotAll"}
TokenKinds == {"GET", "GET9", "POST", "FOO", "length", "badlength", "lowerLength", "multipart", "junk",
               "blank", "data", "boundary", "disposition", "type", "closing", "rest"}
TokenType == [kind : TokenKinds, id : 0..MaxRequests, n : Nat]

(* Every variable has its type.                                              *)
TypeOK ==
    /\ sent \in Seq(Kinds) /\ Len(sent) <= MaxRequests
    /\ inflight \in Seq(TokenType) /\ buf \in Seq(TokenType)
    /\ state_ \in States
    /\ request_ \in [method : {"kInvalid", "kGet", "kPost"}, id : 0..MaxRequests,
                     fields : SUBSET TokenType, body : Seq(TokenType),
                     length : Nat, uploadOk : BOOLEAN]
    /\ step \in {"loop", "parse", "parsed", "aborted"}
    /\ {ok, connected, overlapped, aborted} \subseteq BOOLEAN
    /\ \A i \in DOMAIN replies :
          replies[i] \in [kind : {"reply", "fileError", "refusal"}, to : 0..MaxRequests,
                          close : BOOLEAN]

(* Replies come in the order of the requests, one for each (a second message *)
(* only for a file that cannot be opened), and a refusal ends the stream.    *)
RepliesInOrder ==
    \A i, j \in DOMAIN replies : i < j =>
        /\ replies[i].kind # "refusal"
        /\ replies[j].kind = "reply" => replies[i].to < replies[j].to
        /\ replies[j].kind = "fileError" => replies[i].to <= replies[j].to

(* What said the connection would close is the last thing on it, whatever    *)
(* the client sends afterwards and the parser makes of it.                   *)
ClosedMeansClosed ==
    \A i, j \in DOMAIN replies :
        i < j /\ replies[i].close =>
            replies[j] = Reply("fileError", replies[i].to, TRUE)

(* Between two requests an open connection is in step with the stream: the   *)
(* next unread token starts a request, so none is read from the middle of    *)
(* another, however the stream is cut.  There are two exceptions: what       *)
(* parseMultipartData leaves of the boundary that ends an upload, and the    *)
(* body of a request whose method has none (HttpContext.cpp:83-88).          *)
Unread(t) ==
    \/ t.kind = "rest" /\ sent[t.id] = "upload"
    \/ t.kind = "data" /\ sent[t.id] = "getBody"
InStep ==
    connected /\ step = "loop" /\ state_ = "kExpectRequestLine"
    => LET rest == buf \o inflight
       IN  rest # <<>> =>
              \/ Head(rest) = Head(Wire(sent[Head(rest).id], Head(rest).id))
              \/ Unread(Head(rest))

(* A handler that can answer sees the headers of its own request only: none  *)
(* survives reset() from an earlier request on the connection.               *)
OwnHeaders ==
    \A i \in DOMAIN handled :
        handled[i].served => \A f \in handled[i].fields : f.id = handled[i].id

(* The body of a POST or PUT is whole and the request's own if its headers   *)
(* count it, whatever earlier requests left in content_ and contentLength_   *)
(* (with the other methods nothing of the kind holds, see BodyIsOwn).        *)
CountedBodyIsOwn ==
    \A i \in DOMAIN handled :
        LET h == handled[i]
        IN  /\ h.served /\ h.method = "kPost"
            /\ ~(\E f \in h.fields : f.kind = "multipart")
            => \A f \in h.fields : f.kind = "length" /\ f.n > 0 =>
                  /\ h.length = f.n /\ Len(h.body) = f.n
                  /\ \A j \in DOMAIN h.body : h.body[j].id = h.id

(* A client is never refused, whether it waits for the answers or not, as    *)
(* long as it uploads nothing, tells the length of every POST and PUT in a   *)
(* field that is spelled Content-Length, and sends a body with another       *)
(* method in its last request only.                                          *)
PlainNeverRefused ==
    (\A i \in DOMAIN sent : sent[i] \in Plain \/ (sent[i] = "getBody" /\ i = Len(sent)))
    => \A i \in DOMAIN replies : replies[i].kind # "refusal"

(* setMethod's assertion can end the process only for data that arrives on a *)
(* connection already shut down.                                             *)
AssertsOnlyWhenShut == aborted => ~connected

(* A request sent after the answer to the last one is answered, or the       *)
(* connection is shut.  (One sent earlier may wait in the buffer for ever:   *)
(* onMessage parses one request and returns.  A negative Content-Length      *)
(* waits for a body that cannot come.)                                       *)
EveryRequestAnswered ==
    \A id \in 1..MaxRequests :
        Len(sent) >= id ~> \/ Answered(id) \/ ~connected \/ overlapped \/ aborted
                           \/ sent # <<>> /\ Last(sent) = "negativeLength"

(* content_ is "the request body" and contentLength_ its length: a handler   *)
(* that can answer a request other than an upload sees its own body.         *)
BodyIsOwn ==
    \A i \in DOMAIN handled :
        LET h == handled[i]
        IN  h.served /\ ~(\E f \in h.fields : f.kind = "multipart") =>
                /\ Len(h.body) = h.length
                /\ \A j \in DOMAIN h.body : h.body[j].id = h.id

(* assert(method_ == kInvalid) holds at every call of setMethod.             *)
MethodUnsetAtRequestLine == ~aborted

(* "Something is left in the buffer, I tested and found no problem": a       *)
(* client that sends well-formed requests is never refused.                  *)
WellFormedNeverRefused ==
    ToSet(sent) \subseteq WellFormed => \A i \in DOMAIN replies : replies[i].kind # "refusal"
=============================================================================
