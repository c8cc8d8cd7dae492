------------------------ MODULE RequestHandling_proofs ------------------------
(***************************************************************************)
(* Proofs about the server for any routes, settings, requests and threads: *)
(* typing, routing, which answers a client can read, what registrations    *)
(* tell their clients, how many rows a name can get, and that the answer   *)
(* keeps what a preflight promised.                                        *)
(***************************************************************************)
EXTENDS RequestHandling, Router_proofs

(* Whatever a handler does, it makes a response of one that it is given, and *)
(* leaves the CORS header to the middleware.                                 *)
Refused == {"tooMany", "preflight", "forbidden"}
Ways ==
    {"page", "threw", "unauthorized", "caught", "badBody", "loggedIn", "elsewhere", "badPassword",
     "loggedOut", "badMove", "moved", "restarted", "data", "dataError", "test", "file", "fileGone",
     "fileMissing", "listed", "uploaded", "registered", "conflict", "notFound"}
Clear == Ways \ Unreadable

(* If nothing was said yet in the response a handler is given, what it makes *)
(* of it can be read, but for the ways that say otherwise; a response that   *)
(* was thrown from has no status line.                                       *)
Unspoken(r) == ~r.version /\ r.body = 0 /\ r.file = None
Judged(o) == Readable(o.resp) <=> o.way \notin Unreadable
Told(way, q) == IF way = "threw" THEN ~q.version ELSE (Readable(q) <=> way \notin Unreadable)
Fine(r, o) ==
    /\ o.resp \in Responses /\ o.resp.cors = r.cors /\ o.way \in Ways
    /\ Unspoken(r) => Told(o.way, o.resp)
Sound(r, S) == \A o \in S : Fine(r, o)

LEMMA Codes ==
    /\ 200 \in Nat /\ 204 \in Nat /\ 400 \in Nat /\ 401 \in Nat /\ 403 \in Nat /\ 404 \in Nat
    /\ 409 \in Nat /\ 429 \in Nat /\ 500 \in Nat
    /\ 0 \in {0, 1} /\ 1 \in {0, 1} /\ 1 \in {0, 1, Huge} /\ TRUE \in BOOLEAN /\ FALSE \in BOOLEAN
OBVIOUS

OK(q, r) == q \in Responses /\ q.cors = r.cors

LEMMA OneField ==
    ASSUME NEW r \in Responses
    PROVE  /\ \A code \in Nat : OK(setStatusLine(r, code), r) /\ OK(StatusOnly(r, code), r)
           /\ \A close \in BOOLEAN : OK([r EXCEPT !.close = close], r)
           /\ \A size \in {0, 1, Huge} : OK([r EXCEPT !.length = size], r)
           /\ \A size \in {0, 1} : OK([r EXCEPT !.body = size], r)
           /\ \A file \in {"there", "gone"} : OK([r EXCEPT !.file = file], r)
<1> USE DEF OK, Responses
<1>1. \A code \in Nat : OK(setStatusLine(r, code), r)
  BY DEF setStatusLine
<1>2. \A code \in Nat : OK(StatusOnly(r, code), r)
  BY DEF StatusOnly
<1>3. \A close \in BOOLEAN : OK([r EXCEPT !.close = close], r)
  OBVIOUS
<1>4. \A size \in {0, 1, Huge} : OK([r EXCEPT !.length = size], r)
  OBVIOUS
<1>5. \A size \in {0, 1} : OK([r EXCEPT !.body = size], r)
  OBVIOUS
<1>6. \A file \in {"there", "gone"} : OK([r EXCEPT !.file = file], r)
  OBVIOUS
<1> QED BY <1>1, <1>2, <1>3, <1>4, <1>5, <1>6

LEMMA FilledSound ==
    ASSUME NEW r \in Responses, NEW code \in Nat, NEW close \in BOOLEAN, NEW size \in {0, 1}
    PROVE  OK(Filled(r, code, close, size), r)
<1> DEFINE a == setStatusLine(r, code)
           b == [a EXCEPT !.close = close]
           c == [b EXCEPT !.length = size]
           d == [c EXCEPT !.body = size]
<1>1. Filled(r, code, close, size) = d
  BY Zenon DEF Filled
<1> HIDE DEF a
<1>2. OK(a, r)
  BY OneField DEF a
<1> HIDE DEF b
<1>3. OK(b, r)
  BY <1>2, OneField DEF b, OK
<1> HIDE DEF c
<1>4. OK(c, r)
  BY <1>3, OneField DEF c, OK
<1> HIDE DEF d
<1>5. OK(d, r)
  BY <1>4, OneField DEF d, OK
<1> QED BY <1>1, <1>5

LEMMA OneFine ==
    ASSUME NEW r, NEW q, OK(q, r), NEW way \in Ways, Unspoken(r) => Told(way, q)
    PROVE  Fine(r, As(way, q))
<1> DEFINE o == As(way, q)
<1>1. o.way = way /\ o.resp = q
  BY DEF As
<1> HIDE DEF o
<1>2. Fine(r, o)
  BY <1>1 DEF Fine, OK
<1> QED BY <1>2 DEF o

(* What each change of a response leaves as it was.                          *)
LEMMA OneChange ==
    ASSUME NEW r \in Responses
    PROVE  /\ \A code \in Nat : LET q == setStatusLine(r, code)
                  IN  /\ q.version /\ q.status = code /\ q.close = r.close
                      /\ q.length = r.length /\ q.body = r.body /\ q.file = r.file
           /\ \A code \in Nat : StatusOnly(r, code).version = r.version
           /\ \A close \in BOOLEAN : LET q == [r EXCEPT !.close = close]
                  IN  /\ q.version = r.version /\ q.status = r.status /\ q.close = close
                      /\ q.length = r.length /\ q.body = r.body /\ q.file = r.file
           /\ \A size : LET q == [r EXCEPT !.length = size]
                  IN  /\ q.version = r.version /\ q.status = r.status /\ q.close = r.close
                      /\ q.length = size /\ q.body = r.body /\ q.file = r.file
           /\ \A size : LET q == [r EXCEPT !.body = size]
                  IN  /\ q.version = r.version /\ q.status = r.status /\ q.close = r.close
                      /\ q.length = r.length /\ q.body = size /\ q.file = r.file
           /\ \A file : LET q == [r EXCEPT !.file = file]
                  IN  /\ q.version = r.version /\ q.status = r.status /\ q.close = r.close
                      /\ q.length = r.length /\ q.body = r.body /\ q.file = file
<1> USE DEF Responses
<1>1. ASSUME NEW code \in Nat
      PROVE  LET q == setStatusLine(r, code)
             IN  /\ q.version /\ q.status = code /\ q.close = r.close
                 /\ q.length = r.length /\ q.body = r.body /\ q.file = r.file
  BY DEF setStatusLine
<1>2. \A code \in Nat : StatusOnly(r, code).version = r.version
  BY DEF StatusOnly
<1>3. ASSUME NEW close \in BOOLEAN
      PROVE  LET q == [r EXCEPT !.close = close]
             IN  /\ q.version = r.version /\ q.status = r.status /\ q.close = close
                 /\ q.length = r.length /\ q.body = r.body /\ q.file = r.file
  OBVIOUS
<1>4. ASSUME NEW size
      PROVE  LET q == [r EXCEPT !.length = size]
             IN  /\ q.version = r.version /\ q.status = r.status /\ q.close = r.close
                 /\ q.length = size /\ q.body = r.body /\ q.file = r.file
  OBVIOUS
<1>5. ASSUME NEW size
      PROVE  LET q == [r EXCEPT !.body = size]
             IN  /\ q.version = r.version /\ q.status = r.status /\ q.close = r.close
                 /\ q.length = r.length /\ q.body = size /\ q.file = r.file
  OBVIOUS
<1>6. ASSUME NEW file
      PROVE  LET q == [r EXCEPT !.file = file]
             IN  /\ q.version = r.version /\ q.status = r.status /\ q.close = r.close
                 /\ q.length = r.length /\ q.body = r.body /\ q.file = file
  OBVIOUS
<1> HIDE DEF Responses
<1> QED BY <1>1, <1>2, <1>3, <1>4, <1>5, <1>6

(* A status line, and the body with the length that it has.                  *)
LEMMA FilledReads ==
    ASSUME NEW r \in Responses, NEW code \in Nat, code # 0, NEW close \in BOOLEAN,
           NEW size \in {0, 1}, r.file = None
    PROVE  Readable(Filled(r, code, close, size))
<1> DEFINE a == setStatusLine(r, code)
           b == [a EXCEPT !.close = close]
           c == [b EXCEPT !.length = size]
           d == [c EXCEPT !.body = size]
<1>1. Filled(r, code, close, size) = d
  BY Zenon DEF Filled
<1>2. a \in Responses /\ a.version /\ a.status = code /\ a.file = None
  <2>1. a \in Responses
    BY OneField DEF OK
  <2>2. a.version /\ a.status = code /\ a.file = None
    BY OneChange
  <2> QED BY <2>1, <2>2
<1> HIDE DEF a
<1>3. b \in Responses /\ b.version /\ b.status = code /\ b.file = None
  <2>1. b \in Responses
    BY <1>2, OneField DEF OK
  <2>2. b.version /\ b.status = code /\ b.file = None
    BY <1>2, OneChange
  <2> QED BY <2>1, <2>2
<1> HIDE DEF b
<1>4. c \in Responses /\ c.version /\ c.status = code /\ c.length = size /\ c.file = None
  <2>1. c \in Responses
    BY <1>3, OneField DEF OK
  <2>2. c.version /\ c.status = code /\ c.length = size /\ c.file = None
    BY <1>3, OneChange
  <2> QED BY <2>1, <2>2
<1> HIDE DEF c
<1>5. d.version /\ d.status = code /\ d.length = size /\ d.body = size /\ d.file = None
  BY <1>4, OneChange
<1> HIDE DEF d
<1> QED BY <1>1, <1>5 DEF Readable, BytesSent, None

LEMMA FilledFine ==
    ASSUME NEW r \in Responses, NEW way \in Clear, NEW code \in Nat, code # 0,
           NEW close \in BOOLEAN, NEW size \in {0, 1}
    PROVE  Fine(r, As(way, Filled(r, code, close, size)))
<1> DEFINE q == Filled(r, code, close, size)
<1>1. OK(q, r)
  BY FilledSound
<1>2. Unspoken(r) => Readable(q)
  BY FilledReads DEF Unspoken
<1> HIDE DEF q
<1>3. way \in Ways /\ way \notin Unreadable /\ way # "threw"
  BY DEF Clear, Unreadable
<1>4. Fine(r, As(way, q))
  BY <1>1, <1>2, <1>3, OneFine DEF Told
<1> QED BY <1>4 DEF q

Answerable(r, code) == \A way \in Clear :
    /\ Fine(r, As(way, Filled(r, code, FALSE, 1)))
    /\ Fine(r, As(way, Filled(r, code, TRUE, 0)))
    /\ Fine(r, As(way, Filled(r, code, TRUE, 1)))

LEMMA Answers ==
    ASSUME NEW r \in Responses, NEW code \in Nat, code # 0
    PROVE  Answerable(r, code)
<1> SUFFICES ASSUME NEW way \in Clear
             PROVE  /\ Fine(r, As(way, Filled(r, code, FALSE, 1)))
                    /\ Fine(r, As(way, Filled(r, code, TRUE, 0)))
                    /\ Fine(r, As(way, Filled(r, code, TRUE, 1)))
  BY DEF Answerable
<1>1. Fine(r, As(way, Filled(r, code, FALSE, 1)))
  BY FilledFine, Zenon
<1>2. Fine(r, As(way, Filled(r, code, TRUE, 0)))
  BY FilledFine, Zenon
<1>3. Fine(r, As(way, Filled(r, code, TRUE, 1)))
  BY FilledFine, Zenon
<1> QED BY <1>1, <1>2, <1>3

LEMMA DownloadFine ==
    ASSUME NEW r \in Responses, NEW q, OK(q, r), NEW way \in {"file", "fileGone", "fileMissing"},
           NEW size \in {1, Huge}, NEW file \in {"there", "gone"}, NEW body \in {0, 1},
           Unspoken(r) => q.body = body,
           way \notin Unreadable <=> size = body + (IF file = "there" THEN 1 ELSE 2)
    PROVE  Fine(r, DownloadAfter(q, way, size, file))
<1> DEFINE a == setStatusLine(q, 200)
           b == [a EXCEPT !.close = FALSE]
           c == [b EXCEPT !.length = size]
           d == [c EXCEPT !.file = file]
<1>1. DownloadAfter(q, way, size, file) = As(way, d)
  BY Zenon DEF DownloadAfter
<1>2. OK(a, q)
  <2>1. \A code \in Nat : OK(setStatusLine(q, code), q)
    BY OneField DEF OK
  <2> QED BY <2>1
<1>7. a.version /\ a.status = 200 /\ a.body = q.body
  <2>1. \A code \in Nat : LET s == setStatusLine(q, code)
                          IN  s.version /\ s.status = code /\ s.body = q.body
    BY OneChange DEF OK
  <2> QED BY <2>1
<1> HIDE DEF a
<1>3. OK(b, a)
  BY <1>2, OneField DEF b, OK
<1>8. b.version /\ b.status = 200 /\ ~b.close /\ b.body = q.body
  <2>1. a \in Responses
    BY <1>2 DEF OK
  <2> QED BY <1>7, <2>1, OneChange
<1> HIDE DEF b
<1>4. OK(c, b)
  BY <1>3, OneField DEF c, OK
<1>9. c.version /\ c.status = 200 /\ ~c.close /\ c.length = size /\ c.body = q.body
  <2>1. b \in Responses
    BY <1>3 DEF OK
  <2> QED BY <1>8, <2>1, OneChange
<1> HIDE DEF c
<1>5. OK(d, c)
  BY <1>4, OneField DEF d, OK
<1>10. d.version /\ d.status = 200 /\ ~d.close /\ d.length = size /\ d.body = q.body /\ d.file = file
  <2>1. c \in Responses
    BY <1>4 DEF OK
  <2> QED BY <1>9, <2>1, OneChange
<1> HIDE DEF d
<1>6. OK(d, r)
  BY <1>2, <1>3, <1>4, <1>5 DEF OK
<1>11. Unspoken(r) => Told(way, d)
  <2> SUFFICES ASSUME Unspoken(r) PROVE Readable(d) <=> way \notin Unreadable
    BY DEF Told
  <2>1. BytesSent(d) = body + (IF file = "there" THEN 1 ELSE 2)
    BY <1>10 DEF BytesSent
  <2>2. Readable(d) <=> size = BytesSent(d)
    BY <1>10 DEF Readable
  <2> QED BY <2>1, <2>2
<1>12. way \in Ways
  BY DEF Ways
<1> QED BY <1>1, <1>6, <1>11, <1>12, OneFine

LEMMA DownloadSound ==
    ASSUME NEW r \in Responses
    PROVE  Sound(r, {DownloadAfter(r, "file", 1, "there"), DownloadAfter(r, "fileGone", 1, "gone"),
                     DownloadAfter([setStatusLine(r, 404) EXCEPT !.body = 1], "fileMissing", Huge, "gone")})
<1> DEFINE missing == [setStatusLine(r, 404) EXCEPT !.body = 1]
<1>1. OK(missing, r)
  <2> DEFINE a == setStatusLine(r, 404)
  <2>1. OK(a, r)
    <3>1. \A code \in Nat : OK(setStatusLine(r, code), r)
      BY OneField
    <3> QED BY <3>1
  <2> HIDE DEF a
  <2>2. OK([a EXCEPT !.body = 1], a)
    BY <2>1, OneField DEF OK
  <2> QED BY <2>1, <2>2 DEF OK, a
<1>4. missing.body = 1
  <2> DEFINE a == setStatusLine(r, 404)
  <2>1. a \in Responses
    <3>1. \A code \in Nat : OK(setStatusLine(r, code), r)
      BY OneField
    <3> QED BY <3>1 DEF OK
  <2> HIDE DEF a
  <2>2. [a EXCEPT !.body = 1].body = 1
    BY <2>1, OneChange
  <2> QED BY <2>2 DEF a
<1> HIDE DEF missing
<1>5. \A way \in {"file", "fileGone", "fileMissing"} : way \notin Unreadable <=> way = "file"
  BY DEF Unreadable
<1>2. Fine(r, DownloadAfter(missing, "fileMissing", Huge, "gone"))
  <2>1. ASSUME NEW way \in {"file", "fileGone", "fileMissing"}, NEW size \in {1, Huge},
               NEW file \in {"there", "gone"}, way = "fileMissing", size = Huge, file = "gone"
        PROVE  Fine(r, DownloadAfter(missing, way, size, file))
    <3>1. way \notin Unreadable <=> size = 1 + (IF file = "there" THEN 1 ELSE 2)
      BY <1>5, <2>1 DEF Huge
    <3> QED BY <1>1, <1>4, <3>1, DownloadFine
  <2> QED BY <2>1, Zenon
<1>3. Fine(r, DownloadAfter(r, "file", 1, "there")) /\ Fine(r, DownloadAfter(r, "fileGone", 1, "gone"))
  <2>1. OK(r, r)
    BY DEF OK
  <2>2. ASSUME NEW way \in {"file", "fileGone", "fileMissing"}, NEW size \in {1, Huge},
               NEW file \in {"there", "gone"}, size = 1, way = "file" <=> file = "there"
        PROVE  Fine(r, DownloadAfter(r, way, size, file))
    <3>1. way \notin Unreadable <=> size = 0 + (IF file = "there" THEN 1 ELSE 2)
      BY <1>5, <2>2
    <3> QED BY <2>1, <3>1, DownloadFine DEF Unspoken
  <2>3. Fine(r, DownloadAfter(r, "file", 1, "there"))
    BY <2>2, Zenon
  <2>4. Fine(r, DownloadAfter(r, "fileGone", 1, "gone"))
    BY <2>2, Zenon
  <2> QED BY <2>3, <2>4
<1> QED BY <1>2, <1>3, Zenon DEF Sound, missing

LEMMA TestSound ==
    ASSUME NEW r \in Responses
    PROVE  Sound(r, {As("test", [r EXCEPT !.body = 1])})
<1> DEFINE q == [r EXCEPT !.body = 1]
<1>1. OK(q, r)
  BY OneField
<1>3. Unspoken(r) => Told("test", q)
  <2>1. q.version = r.version
    BY OneChange
  <2> HIDE DEF q
  <2> QED BY <2>1 DEF Unspoken, Told, Readable, Unreadable
<1> HIDE DEF q
<1>2. Fine(r, As("test", q))
  BY <1>1, <1>3, OneFine, Zenon DEF Ways
<1> QED BY <1>2, Zenon DEF Sound, q

DataError(r) ==
    As("dataError", [StatusOnly(r, 500) EXCEPT !.close = TRUE, !.length = 1, !.body = 1])

LEMMA ThrewFine ==
    ASSUME NEW r \in Responses
    PROVE  Fine(r, Threw(r))
BY OneFine DEF OK, Ways, Threw, Unspoken, Told

LEMMA DataErrorFine ==
    ASSUME NEW r \in Responses
    PROVE  Fine(r, DataError(r))
<1> DEFINE a == StatusOnly(r, 500)
           b == [a EXCEPT !.close = TRUE]
           c == [b EXCEPT !.length = 1]
           d == [c EXCEPT !.body = 1]
<1>1. DataError(r) = As("dataError", d)
  BY ZenonT(40) DEF DataError
<1>2. OK(a, r)
  <2>1. \A code \in Nat : OK(StatusOnly(r, code), r)
    BY OneField
  <2> QED BY <2>1
<1>8. a.version = r.version
  <2>1. \A code \in Nat : StatusOnly(r, code).version = r.version
    BY OneChange
  <2> QED BY <2>1
<1> HIDE DEF a
<1>3. OK(b, a)
  BY <1>2, OneField DEF b, OK
<1>9. b.version = r.version
  <2>1. a \in Responses
    BY <1>2 DEF OK
  <2> QED BY <1>8, <2>1, OneChange
<1> HIDE DEF b
<1>4. OK(c, b)
  BY <1>3, OneField DEF c, OK
<1>10. c.version = r.version
  <2>1. b \in Responses
    BY <1>3 DEF OK
  <2> QED BY <1>9, <2>1, OneChange
<1> HIDE DEF c
<1>5. OK(d, c)
  BY <1>4, OneField DEF d, OK
<1>11. d.version = r.version
  <2>1. c \in Responses
    BY <1>4 DEF OK
  <2> QED BY <1>10, <2>1, OneChange
<1> HIDE DEF d
<1>6. OK(d, r)
  BY <1>2, <1>3, <1>4, <1>5 DEF OK
<1>12. Unspoken(r) => Told("dataError", d)
  BY <1>11 DEF Unspoken, Told, Readable, Unreadable
<1>7. Fine(r, As("dataError", d))
  BY <1>6, <1>12, OneFine, Zenon DEF Ways
<1> QED BY <1>1, <1>7

LEMMA OutcomesSound ==
    ASSUME NEW r \in Responses
    PROVE  /\ Sound(r, LoginOutcomes(r)) /\ Sound(r, LogoutOutcomes(r)) /\ Sound(r, MoveOutcomes(r))
           /\ Sound(r, RestartOutcomes(r)) /\ Sound(r, ListOutcomes(r)) /\ Sound(r, UploadOutcomes(r))
           /\ Sound(r, PageOutcomes(r)) /\ Sound(r, EntryOutcomes(r)) /\ Sound(r, StartOutcomes(r))
           /\ Sound(r, MenuOutcomes(r)) /\ Sound(r, DownloadOutcomes(r)) /\ Sound(r, BackendDataOutcomes(r))
<1>1. Answerable(r, 200)
  <2>1. \A code \in Nat : code # 0 => Answerable(r, code)
    BY Answers
  <2> QED BY <2>1
<1>2. Answerable(r, 400)
  <2>1. \A code \in Nat : code # 0 => Answerable(r, code)
    BY Answers
  <2> QED BY <2>1
<1>3. Answerable(r, 401)
  <2>1. \A code \in Nat : code # 0 => Answerable(r, code)
    BY Answers
  <2> QED BY <2>1
<1>4. Answerable(r, 403)
  <2>1. \A code \in Nat : code # 0 => Answerable(r, code)
    BY Answers
  <2> QED BY <2>1
<1>5. Answerable(r, 500)
  <2>1. \A code \in Nat : code # 0 => Answerable(r, code)
    BY Answers
  <2> QED BY <2>1
<1>6. \A way \in Clear : Fine(r, As(way, Filled(r, 200, FALSE, 1)))
  BY <1>1, ZenonT(40) DEF Answerable
<1>7. \A way \in Clear : Fine(r, As(way, Filled(r, 200, TRUE, 1)))
  BY <1>1, ZenonT(40) DEF Answerable
<1>8. \A way \in Clear : Fine(r, As(way, Filled(r, 400, FALSE, 1)))
  BY <1>2, ZenonT(40) DEF Answerable
<1>9. \A way \in Clear : Fine(r, As(way, Filled(r, 400, TRUE, 0)))
  BY <1>2, ZenonT(40) DEF Answerable
<1>10. \A way \in Clear : Fine(r, As(way, Filled(r, 400, TRUE, 1)))
  BY <1>2, ZenonT(40) DEF Answerable
<1>11. \A way \in Clear : Fine(r, As(way, Filled(r, 401, FALSE, 1)))
  BY <1>3, ZenonT(40) DEF Answerable
<1>12. \A way \in Clear : Fine(r, As(way, Filled(r, 401, TRUE, 1)))
  BY <1>3, ZenonT(40) DEF Answerable
<1>13. \A way \in Clear : Fine(r, As(way, Filled(r, 403, TRUE, 1)))
  BY <1>4, ZenonT(40) DEF Answerable
<1>14. \A way \in Clear : Fine(r, As(way, Filled(r, 500, FALSE, 1)))
  BY <1>5, ZenonT(40) DEF Answerable
<1>50. /\ "badBody" \in Clear /\ "loggedIn" \in Clear /\ "elsewhere" \in Clear
       /\ "badPassword" \in Clear /\ "caught" \in Clear /\ "loggedOut" \in Clear
       /\ "unauthorized" \in Clear /\ "badMove" \in Clear /\ "moved" \in Clear
       /\ "restarted" \in Clear /\ "listed" \in Clear /\ "uploaded" \in Clear
       /\ "page" \in Clear /\ "data" \in Clear
  BY DEF Clear, Ways, Unreadable
<1>15. Fine(r, As("badBody", Filled(r, 400, TRUE, 0)))
  BY <1>9, <1>50, Zenon
<1>16. Fine(r, As("loggedIn", Filled(r, 200, FALSE, 1)))
  BY <1>6, <1>50, Zenon
<1>17. Fine(r, As("elsewhere", Filled(r, 403, TRUE, 1)))
  BY <1>13, <1>50, Zenon
<1>18. Fine(r, As("badPassword", Filled(r, 401, FALSE, 1)))
  BY <1>11, <1>50, Zenon
<1>19. Fine(r, As("caught", Filled(r, 400, TRUE, 1)))
  BY <1>10, <1>50, Zenon
<1>20. Fine(r, As("loggedOut", Filled(r, 200, TRUE, 1)))
  BY <1>7, <1>50, Zenon
<1>21. Fine(r, As("unauthorized", Filled(r, 401, TRUE, 1)))
  BY <1>12, <1>50, Zenon
<1>22. Fine(r, As("badMove", Filled(r, 400, FALSE, 1)))
  BY <1>8, <1>50, Zenon
<1>23. Fine(r, As("moved", Filled(r, 200, FALSE, 1)))
  BY <1>6, <1>50, Zenon
<1>24. Fine(r, As("caught", Filled(r, 500, FALSE, 1)))
  BY <1>14, <1>50, Zenon
<1>25. Fine(r, As("restarted", Filled(r, 200, FALSE, 1)))
  BY <1>6, <1>50, Zenon
<1>26. Fine(r, As("listed", Filled(r, 200, FALSE, 1)))
  BY <1>6, <1>50, Zenon
<1>27. Fine(r, As("uploaded", Filled(r, 200, FALSE, 1)))
  BY <1>6, <1>50, Zenon
<1>28. Fine(r, As("page", Filled(r, 200, FALSE, 1)))
  BY <1>6, <1>50, Zenon
<1>29. Fine(r, As("data", Filled(r, 200, FALSE, 1)))
  BY <1>6, <1>50, Zenon
<1>30. Fine(r, Threw(r))
  BY ThrewFine
<1>31. Sound(r, {DownloadAfter(r, "file", 1, "there"), DownloadAfter(r, "fileGone", 1, "gone"),
             DownloadAfter([setStatusLine(r, 404) EXCEPT !.body = 1], "fileMissing", Huge, "gone")})
  BY DownloadSound
<1>32. Fine(r, DataError(r))
  BY DataErrorFine
<1> USE DEF Sound, Unauthorized, Caught, packageResp
<1>33. Sound(r, LoginOutcomes(r))
  <2> DEFINE a == As("badBody", Filled(r, 400, TRUE, 0))
             b == As("loggedIn", Filled(r, 200, FALSE, 1))
             c == As("elsewhere", Filled(r, 403, TRUE, 1))
             d == As("badPassword", Filled(r, 401, FALSE, 1))
             e == As("caught", Filled(r, 400, TRUE, 1))
  <2>1. LoginOutcomes(r) = {a, b, c, d, e}
    BY SMTT(40) DEF LoginOutcomes
  <2>2. Fine(r, a)
    BY <1>15
  <2>3. Fine(r, b)
    BY <1>16
  <2>4. Fine(r, c)
    BY <1>17
  <2>5. Fine(r, d)
    BY <1>18
  <2>6. Fine(r, e)
    BY <1>19
  <2> HIDE DEF a, b, c, d, e
  <2> QED BY <2>1, <2>2, <2>3, <2>4, <2>5, <2>6
<1>34. Sound(r, LogoutOutcomes(r))
  <2> DEFINE a == As("badBody", Filled(r, 400, TRUE, 0))
             b == As("loggedOut", Filled(r, 200, TRUE, 1))
             c == As("caught", Filled(r, 400, TRUE, 1))
  <2>1. LogoutOutcomes(r) = {a, b, c}
    BY SMTT(40) DEF LogoutOutcomes
  <2>2. Fine(r, a)
    BY <1>15
  <2>3. Fine(r, b)
    BY <1>20
  <2>4. Fine(r, c)
    BY <1>19
  <2> HIDE DEF a, b, c
  <2> QED BY <2>1, <2>2, <2>3, <2>4
<1>35. Sound(r, MoveOutcomes(r))
  <2> DEFINE a == As("unauthorized", Filled(r, 401, TRUE, 1))
             b == As("badMove", Filled(r, 400, FALSE, 1))
             c == As("moved", Filled(r, 200, FALSE, 1))
             d == As("caught", Filled(r, 500, FALSE, 1))
  <2>1. MoveOutcomes(r) = {a, b, c, d}
    BY SMTT(40) DEF MoveOutcomes
  <2>2. Fine(r, a)
    BY <1>21
  <2>3. Fine(r, b)
    BY <1>22
  <2>4. Fine(r, c)
    BY <1>23
  <2>5. Fine(r, d)
    BY <1>24
  <2> HIDE DEF a, b, c, d
  <2> QED BY <2>1, <2>2, <2>3, <2>4, <2>5
<1>36. Sound(r, RestartOutcomes(r))
  BY <1>21, <1>25, <1>30, Zenon DEF RestartOutcomes
<1>37. Sound(r, ListOutcomes(r))
  <2> DEFINE a == As("unauthorized", Filled(r, 401, TRUE, 1))
             b == As("listed", Filled(r, 200, FALSE, 1))
             c == As("caught", Filled(r, 400, TRUE, 1))
  <2>1. ListOutcomes(r) = {a, b, c}
    BY SMTT(40) DEF ListOutcomes
  <2>2. Fine(r, a)
    BY <1>21
  <2>3. Fine(r, b)
    BY <1>26
  <2>4. Fine(r, c)
    BY <1>19
  <2> HIDE DEF a, b, c
  <2> QED BY <2>1, <2>2, <2>3, <2>4
<1>38. Sound(r, UploadOutcomes(r))
  <2> DEFINE a == As("unauthorized", Filled(r, 401, TRUE, 1))
             b == As("uploaded", Filled(r, 200, FALSE, 1))
             c == As("caught", Filled(r, 400, TRUE, 1))
  <2>1. UploadOutcomes(r) = {a, b, c}
    BY SMTT(40) DEF UploadOutcomes
  <2>2. Fine(r, a)
    BY <1>21
  <2>3. Fine(r, b)
    BY <1>27
  <2>4. Fine(r, c)
    BY <1>19
  <2> HIDE DEF a, b, c
  <2> QED BY <2>1, <2>2, <2>3, <2>4
<1>39. Sound(r, PageOutcomes(r))
  BY <1>28, Zenon DEF PageOutcomes
<1>40. Sound(r, EntryOutcomes(r))
  BY <1>28, <1>30, Zenon DEF PageOutcomes, EntryOutcomes
<1>41. Sound(r, StartOutcomes(r))
  BY <1>28, <1>21, <1>30, Zenon DEF PageOutcomes, StartOutcomes
<1>42. Sound(r, MenuOutcomes(r))
  <2> DEFINE a == As("page", Filled(r, 200, FALSE, 1))
             b == As("unauthorized", Filled(r, 401, TRUE, 1))
             c == As("caught", Filled(r, 400, TRUE, 1))
  <2>1. MenuOutcomes(r) = {a} \cup {b, c}
    BY ZenonT(40) DEF MenuOutcomes, PageOutcomes
  <2>2. Fine(r, a)
    BY <1>28
  <2>3. Fine(r, b)
    BY <1>21
  <2>4. Fine(r, c)
    BY <1>19
  <2> HIDE DEF a, b, c
  <2> QED BY <2>1, <2>2, <2>3, <2>4
<1>43. Sound(r, DownloadOutcomes(r))
  <2> DEFINE a == As("unauthorized", Filled(r, 401, TRUE, 1))
             b == As("caught", Filled(r, 400, TRUE, 1))
             c == DownloadAfter(r, "file", 1, "there")
             d == DownloadAfter(r, "fileGone", 1, "gone")
             e == DownloadAfter([setStatusLine(r, 404) EXCEPT !.body = 1], "fileMissing", Huge, "gone")
  <2>1. DownloadOutcomes(r) = {a, b, c, d, e}
    BY Zenon DEF DownloadOutcomes
  <2>2. Fine(r, a)
    BY <1>21
  <2>3. Fine(r, b)
    BY <1>19
  <2>4. Sound(r, {c, d, e})
    BY <1>31
  <2> HIDE DEF a, b, c, d, e
  <2> QED BY <2>1, <2>2, <2>3, <2>4
<1>44. Sound(r, BackendDataOutcomes(r))
  <2> DEFINE a == As("data", Filled(r, 200, FALSE, 1))
  <2>1. BackendDataOutcomes(r) = {a, DataError(r)}
    BY Zenon DEF BackendDataOutcomes, DataError
  <2>2. Fine(r, a)
    BY <1>29
  <2> HIDE DEF a
  <2> QED BY <1>32, <2>1, <2>2
<1> QED BY <1>33, <1>34, <1>35, <1>36, <1>37, <1>38, <1>39, <1>40, <1>41, <1>42, <1>43, <1>44

LEMMA HandlersSound ==
    ASSUME NEW r \in Responses, NEW handler
    PROVE  Sound(r, Outcomes(handler, r))
BY OutcomesSound, TestSound
   DEF Outcomes, GameBackendOutcomes, ResourceCentorOutcomes, BackendStatusOutcomes

-----------------------------------------------------------------------------
(* Typing, and what a change of one thread's work does.                      *)
AllWays == Ways \cup Refused \cup {None}
Requests == [method : Method, path : Path, origin : Origin] \cup {NoRequest}
Works == [step : ServerSteps, number : Nat, req : Requests, way : AllWays, resp : Responses]
Registers == [step : Steps, name : Name, by : Nat]

TypeInv ==
    /\ TableInv
    /\ config \in Configs
    /\ started \in BOOLEAN /\ taken \in 0..config.requests
    /\ users \subseteq [id : Nat, name : Name, by : Nat] /\ IsFiniteSet(users)
    /\ work \in [Thread -> Works]
    /\ registering \in [Thread -> Registers]
    /\ \A t \in Thread : At(t, "registering") <=> ~In(t, "none")

OnlyWork(t) == \A u \in Thread : u # t => work'[u] = work[u]

LEMMA OneWork ==
    ASSUME NEW w \in Works
    PROVE  /\ \A step \in ServerSteps : LET v == [w EXCEPT !.step = step]
                  IN  /\ v \in Works /\ v.step = step /\ v.number = w.number /\ v.req = w.req
                      /\ v.way = w.way /\ v.resp = w.resp
           /\ \A way \in AllWays : LET v == [w EXCEPT !.way = way]
                  IN  /\ v \in Works /\ v.step = w.step /\ v.number = w.number /\ v.req = w.req
                      /\ v.way = way /\ v.resp = w.resp
           /\ \A resp \in Responses : LET v == [w EXCEPT !.resp = resp]
                  IN  /\ v \in Works /\ v.step = w.step /\ v.number = w.number /\ v.req = w.req
                      /\ v.way = w.way /\ v.resp = resp
<1> USE DEF Works
<1>1. ASSUME NEW step \in ServerSteps
      PROVE  LET v == [w EXCEPT !.step = step]
             IN  /\ v \in Works /\ v.step = step /\ v.number = w.number /\ v.req = w.req
                 /\ v.way = w.way /\ v.resp = w.resp
  OBVIOUS
<1>2. ASSUME NEW way \in AllWays
      PROVE  LET v == [w EXCEPT !.way = way]
             IN  /\ v \in Works /\ v.step = w.step /\ v.number = w.number /\ v.req = w.req
                 /\ v.way = way /\ v.resp = w.resp
  OBVIOUS
<1>3. ASSUME NEW resp \in Responses
      PROVE  LET v == [w EXCEPT !.resp = resp]
             IN  /\ v \in Works /\ v.step = w.step /\ v.number = w.number /\ v.req = w.req
                 /\ v.way = w.way /\ v.resp = resp
  OBVIOUS
<1> QED BY <1>1, <1>2, <1>3

LEMMA MoveIs ==
    ASSUME TypeInv, NEW t \in Thread, NEW step \in ServerSteps, Move(t, step)
    PROVE  /\ work' \in [Thread -> Works] /\ OnlyWork(t)
           /\ work'[t].step = step /\ work'[t].number = work[t].number /\ work'[t].req = work[t].req
           /\ work'[t].way = work[t].way /\ work'[t].resp = work[t].resp
<1> DEFINE v == [work[t] EXCEPT !.step = step]
<1>1. work \in [Thread -> Works] /\ work[t] \in Works
  BY DEF TypeInv
<1>2. /\ v \in Works /\ v.step = step /\ v.number = work[t].number /\ v.req = work[t].req
      /\ v.way = work[t].way /\ v.resp = work[t].resp
  BY <1>1, OneWork
<1>3. work' = [work EXCEPT ![t] = v]
  BY DEF Move
<1> HIDE DEF v
<1> QED BY <1>1, <1>2, <1>3 DEF OnlyWork

LEMMA RespondIs ==
    ASSUME TypeInv, NEW t \in Thread, NEW outcome, NEW step \in ServerSteps,
           outcome.way \in AllWays, outcome.resp \in Responses, Respond(t, outcome, step)
    PROVE  /\ work' \in [Thread -> Works] /\ OnlyWork(t)
           /\ work'[t].step = step /\ work'[t].number = work[t].number /\ work'[t].req = work[t].req
           /\ work'[t].way = outcome.way /\ work'[t].resp = outcome.resp
<1> DEFINE w1 == [work[t] EXCEPT !.step = step]
           w2 == [w1 EXCEPT !.way = outcome.way]
           w3 == [w2 EXCEPT !.resp = outcome.resp]
<1>1. work \in [Thread -> Works] /\ work[t] \in Works
  BY DEF TypeInv
<1>2. work' = [work EXCEPT ![t] = w3]
  <2> DEFINE f1 == [work EXCEPT ![t].step = step]
             f2 == [f1 EXCEPT ![t].way = outcome.way]
             f3 == [f2 EXCEPT ![t].resp = outcome.resp]
  <2>1. work' = f3
    BY Zenon DEF Respond
  <2>2. f1 = [work EXCEPT ![t] = w1]
    OBVIOUS
  <2>3. f2 = [work EXCEPT ![t] = w2]
    BY <1>1, <2>2
  <2>4. f3 = [work EXCEPT ![t] = w3]
    BY <1>1, <2>3
  <2> QED BY <2>1, <2>4
<1>3. /\ w1 \in Works /\ w1.step = step /\ w1.number = work[t].number /\ w1.req = work[t].req
  BY <1>1, OneWork
<1> HIDE DEF w1
<1>4. /\ w2 \in Works /\ w2.step = step /\ w2.number = work[t].number /\ w2.req = work[t].req
      /\ w2.way = outcome.way
  BY <1>3, OneWork
<1> HIDE DEF w2
<1>5. /\ w3 \in Works /\ w3.step = step /\ w3.number = work[t].number /\ w3.req = work[t].req
      /\ w3.way = outcome.way /\ w3.resp = outcome.resp
  BY <1>4, OneWork
<1> HIDE DEF w3
<1> QED BY <1>1, <1>2, <1>5 DEF OnlyWork

(* What a handler's end makes of its thread's work.                          *)
Finished(t) ==
    /\ work' \in [Thread -> Works] /\ OnlyWork(t)
    /\ work'[t].number = work[t].number /\ work'[t].req = work[t].req
    /\ \/ work'[t].step = "send" /\ work'[t].way = "threw"
       \/ /\ work'[t].step = "after" /\ work'[t].way \in Ways
          /\ work'[t].resp.cors = work[t].resp.cors
    /\ Unspoken(work[t].resp) => Judged(work'[t])

LEMMA UncaughtOK ==
    ASSUME NEW r \in Responses
    PROVE  Uncaught(r) \in Responses /\ Uncaught(r).version = r.version
<1> DEFINE a == StatusOnly(r, 500)
<1>1. a \in Responses
  <2>1. \A code \in Nat : OK(StatusOnly(r, code), r)
    BY OneField
  <2>2. OK(StatusOnly(r, 500), r)
    BY <2>1
  <2> QED BY <2>2 DEF OK
<1>2. Uncaught(r) = [a EXCEPT !.body = 1]
  BY Zenon DEF Uncaught
<1>3. a.version = r.version
  <2>1. \A code \in Nat : StatusOnly(r, code).version = r.version
    BY OneChange
  <2> QED BY <2>1
<1> HIDE DEF a
<1>4. Uncaught(r) \in Responses
  BY <1>1, <1>2, OneField DEF OK
<1>5. Uncaught(r).version = r.version
  BY <1>1, <1>2, <1>3, OneChange
<1> QED BY <1>4, <1>5

LEMMA FinishIs ==
    ASSUME TypeInv, NEW t \in Thread, NEW outcome, Fine(work[t].resp, outcome), Finish(t, outcome)
    PROVE  Finished(t)
<1>1. /\ outcome.way \in Ways /\ outcome.resp \in Responses /\ outcome.resp.cors = work[t].resp.cors
      /\ Unspoken(work[t].resp) => Told(outcome.way, outcome.resp)
  BY DEF Fine
<1>2. CASE outcome.way = "threw"
  <2> DEFINE thrown == Threw(Uncaught(outcome.resp))
  <2>1. thrown.way = "threw" /\ thrown.resp = Uncaught(outcome.resp)
    BY DEF Threw, As
  <2>2. Respond(t, thrown, "send")
    BY <1>2, Zenon DEF Finish
  <2>3. thrown.way \in AllWays /\ thrown.resp \in Responses /\ "send" \in ServerSteps
    BY <1>1, <2>1, UncaughtOK DEF AllWays, Ways, ServerSteps
  <2> HIDE DEF thrown
  <2>4. /\ work' \in [Thread -> Works] /\ OnlyWork(t)
        /\ work'[t].step = "send" /\ work'[t].number = work[t].number /\ work'[t].req = work[t].req
        /\ work'[t].way = thrown.way /\ work'[t].resp = thrown.resp
    BY <2>2, <2>3, RespondIs
  <2>5. thrown.resp.version = outcome.resp.version
    BY <1>1, <2>1, UncaughtOK
  <2>6. Unspoken(work[t].resp) => Judged(work'[t])
    <3>1. "threw" \in Unreadable
      BY DEF Unreadable
    <3> QED BY <1>1, <1>2, <2>1, <2>4, <2>5, <3>1 DEF Told, Judged, Readable
  <2> QED BY <2>1, <2>4, <2>6 DEF Finished
<1>3. CASE outcome.way # "threw"
  <2>1. Respond(t, outcome, "after")
    BY <1>3 DEF Finish
  <2>2. outcome.way \in AllWays /\ "after" \in ServerSteps
    BY <1>1 DEF AllWays, ServerSteps
  <2>3. /\ work' \in [Thread -> Works] /\ OnlyWork(t)
        /\ work'[t].step = "after" /\ work'[t].number = work[t].number /\ work'[t].req = work[t].req
        /\ work'[t].way = outcome.way /\ work'[t].resp = outcome.resp
    BY <1>1, <2>1, <2>2, RespondIs
  <2>4. Unspoken(work[t].resp) => Judged(work'[t])
    BY <1>1, <1>3, <2>3 DEF Told, Judged
  <2> QED BY <1>1, <2>3, <2>4 DEF Finished
<1> QED BY <1>2, <1>3

(* What a refusal of the middlewares does.                                   *)
LEMMA FreshOK ==
    ASSUME NEW close \in BOOLEAN
    PROVE  Fresh(close) \in Responses /\ Fresh(close).cors = None /\ Unspoken(Fresh(close))
BY DEF Fresh, Responses, Unspoken

LEMMA CorsOK ==
    ASSUME NEW r \in Responses, NEW origin \in {None, "*"} \cup Origin
    PROVE  /\ [r EXCEPT !.cors = origin] \in Responses /\ [r EXCEPT !.cors = origin].cors = origin
           /\ [r EXCEPT !.cors = origin].version = r.version
           /\ Readable([r EXCEPT !.cors = origin]) <=> Readable(r)
<1> DEFINE q == [r EXCEPT !.cors = origin]
<1>1. q \in Responses /\ q.cors = origin
  BY DEF Responses
<1>2. /\ q.version = r.version /\ q.status = r.status /\ q.close = r.close
      /\ q.length = r.length /\ q.body = r.body /\ q.file = r.file
  BY DEF Responses
<1> HIDE DEF q
<1>3. Readable(q) <=> Readable(r)
  BY <1>2 DEF Readable, BytesSent
<1> QED BY <1>1, <1>2, <1>3 DEF q

LEMMA RefusalsOK ==
    ASSUME NEW m, NEW req \in Requests, NEW o \in Refusals(m, req)
    PROVE  o.way \in Refused /\ o.resp \in Responses /\ ~Readable(o.resp)
<1>1. Fresh(TRUE) \in Responses /\ Unspoken(Fresh(TRUE))
  BY FreshOK
<1>2. req.origin \in {None, "*"} \cup Origin
  BY DEF Requests, NoRequest
<1>3. TooMany.way \in Refused /\ TooMany.resp \in Responses /\ ~Readable(TooMany.resp)
  <2> DEFINE f == Fresh(TRUE)
             a == setStatusLine(f, 429)
             b == [a EXCEPT !.length = 0]
             c == [b EXCEPT !.body = 1]
  <2>1. TooMany = As("tooMany", c)
    BY Zenon DEF TooMany
  <2>2. f \in Responses /\ f.file = None
    BY <1>1 DEF Unspoken
  <2> HIDE DEF f
  <2>3. a \in Responses
    <3>1. \A code \in Nat : OK(setStatusLine(f, code), f)
      BY <2>2, OneField
    <3>2. OK(setStatusLine(f, 429), f)
      BY <3>1
    <3> QED BY <3>2 DEF OK
  <2>6. a.file = None
    <3>1. \A code \in Nat : setStatusLine(f, code).file = f.file
      BY <2>2, OneChange
    <3> QED BY <2>2, <3>1
  <2> HIDE DEF a
  <2>4. b \in Responses
    BY <2>3, OneField DEF OK
  <2>7. b.file = None /\ b.length = 0
    BY <2>3, <2>6, OneChange
  <2> HIDE DEF b
  <2>5. c \in Responses
    BY <2>4, OneField DEF OK
  <2>8. c.file = None /\ c.length = 0 /\ c.body = 1
    BY <2>4, <2>7, OneChange
  <2> HIDE DEF c
  <2>9. ~Readable(c)
    BY <2>8 DEF Readable, BytesSent, None, NoLength
  <2> QED BY <2>1, <2>5, <2>9 DEF As, Refused
<1>4. /\ handlePreflightRequest(req.origin).way \in Refused
      /\ handlePreflightRequest(req.origin).resp \in Responses
      /\ ~Readable(handlePreflightRequest(req.origin).resp)
  <2> DEFINE f == Fresh(TRUE)
             g == [f EXCEPT !.cors = req.origin]
  <2>1. handlePreflightRequest(req.origin) \in {As("preflight", StatusOnly(g, 204)), As("forbidden", StatusOnly(f, 403))}
    BY DEF handlePreflightRequest, addCorsHeaders
  <2> HIDE DEF f
  <2>2. f \in Responses /\ ~f.version
    BY <1>1 DEF f, Unspoken
  <2>3. g \in Responses /\ ~g.version
    BY <1>2, <2>2, CorsOK
  <2> HIDE DEF g
  <2>6. ~Readable(StatusOnly(g, 204))
    <3>1. \A code \in Nat : StatusOnly(g, code).version = g.version
      BY <2>3, OneChange
    <3> QED BY <2>3, <3>1 DEF Readable
  <2>7. ~Readable(StatusOnly(f, 403))
    <3>1. \A code \in Nat : StatusOnly(f, code).version = f.version
      BY <2>2, OneChange
    <3> QED BY <2>2, <3>1 DEF Readable
  <2>4. StatusOnly(g, 204) \in Responses
    <3>1. \A code \in Nat : OK(StatusOnly(g, code), g)
      BY <2>3, OneField
    <3>2. OK(StatusOnly(g, 204), g)
      BY <3>1
    <3> QED BY <3>2 DEF OK
  <2>5. StatusOnly(f, 403) \in Responses
    <3>1. \A code \in Nat : OK(StatusOnly(f, code), f)
      BY <2>2, OneField
    <3>2. OK(StatusOnly(f, 403), f)
      BY <3>1
    <3> QED BY <3>2 DEF OK
  <2> QED BY <2>1, <2>4, <2>5, <2>6, <2>7 DEF As, Refused
<1> QED BY <1>3, <1>4 DEF Refusals

LEMMA AfterOK ==
    ASSUME config \in Configs, NEW r \in Responses
    PROVE  /\ processAfter(r) \in Responses /\ (Readable(processAfter(r)) <=> Readable(r))
           /\ (\E i \in DOMAIN config.chain : config.chain[i] = "cors") /\ Len(config.origins) = 1
                 => processAfter(r).cors = config.origins[1]
<1>1. config.origins \in Seq(Origin \cup {"*"})
  BY ServerAssumption DEF ServerAssumption
<1>2. CASE config.origins = <<>>
  BY <1>2 DEF processAfter, after, allowedOrigins
<1>3. CASE config.origins # <<>>
  <2> DEFINE named == IF \E i \in DOMAIN config.origins : config.origins[i] = "*" THEN "*" ELSE config.origins[1]
  <2>1. named \in {None, "*"} \cup Origin
    BY <1>1, <1>3
  <2>2. Len(config.origins) = 1 => named = config.origins[1]
    BY <1>1
  <2>3. after(r) = [r EXCEPT !.cors = named]
    BY <1>3 DEF after, allowedOrigins, addCorsHeaders
  <2> HIDE DEF named
  <2>4. after(r) \in Responses /\ after(r).cors = named /\ (Readable(after(r)) <=> Readable(r))
    BY <2>1, <2>3, CorsOK
  <2> QED BY <2>2, <2>4 DEF processAfter
<1> QED BY <1>2, <1>3

-----------------------------------------------------------------------------
(* Each step of the server, by what it does to the work and to the           *)
(* registration of its thread.                                               *)
LEMMA TakeIs ==
    ASSUME TypeInv, NEW t \in Thread, NEW req \in config.asked, NEW close \in BOOLEAN, Take(t, req, close)
    PROVE  /\ work' \in [Thread -> Works] /\ OnlyWork(t)
           /\ work[t].step = "idle" /\ work'[t].step = "before"
           /\ work'[t].number = taken + 1 /\ Unspoken(work'[t].resp)
           /\ taken' = taken + 1 /\ taken' \in 0..config.requests
           /\ UNCHANGED registrationVars /\ Unchanged
<1> DEFINE resp == Fresh(close)
           unused == Fresh(TRUE)
           w == [Idle EXCEPT !.step = "before", !.number = taken + 1, !.req = req, !.resp = resp]
<1>1. req \in Requests /\ taken + 1 \in Nat /\ config.requests \in Nat
  <2>1. config \in Configs /\ taken \in 0..config.requests
    BY DEF TypeInv
  <2>2. config.asked \subseteq [method : Method, path : Path, origin : Origin] /\ config.requests \in Nat
    BY <2>1, ServerAssumption DEF ServerAssumption
  <2> QED BY <2>1, <2>2 DEF Requests
<1>2. Fresh(close) \in Responses /\ Unspoken(Fresh(close))
  BY FreshOK
<1>10. Idle = [step |-> "idle", number |-> 0, req |-> NoRequest, way |-> None, resp |-> unused]
  BY Zenon DEF Idle
<1> HIDE DEF resp, unused
<1>3. w = [step |-> "before", number |-> taken + 1, req |-> req, way |-> None, resp |-> resp]
  <2> DEFINE w1 == [Idle EXCEPT !.step = "before"]
             w2 == [w1 EXCEPT !.number = taken + 1]
             w3 == [w2 EXCEPT !.req = req]
             w4 == [w3 EXCEPT !.resp = resp]
  <2>1. w = w4
    BY Zenon
  <2>2. w1 = [step |-> "before", number |-> 0, req |-> NoRequest, way |-> None, resp |-> unused]
    BY <1>10
  <2> HIDE DEF w1
  <2>3. w2 = [step |-> "before", number |-> taken + 1, req |-> NoRequest, way |-> None, resp |-> unused]
    BY <2>2
  <2> HIDE DEF w2
  <2>4. w3 = [step |-> "before", number |-> taken + 1, req |-> req, way |-> None, resp |-> unused]
    BY <2>3
  <2> HIDE DEF w3
  <2>5. w4 = [step |-> "before", number |-> taken + 1, req |-> req, way |-> None, resp |-> resp]
    BY <2>4
  <2> HIDE DEF w4
  <2> QED BY <2>1, <2>5
<1>4. w \in Works
  <2>1. resp \in Responses /\ "before" \in ServerSteps /\ None \in AllWays
    BY <1>2 DEF resp, ServerSteps, AllWays
  <2> QED BY <1>1, <1>3, <2>1 DEF Works
<1>5. w.step = "before" /\ w.number = taken + 1 /\ w.resp = resp
  BY <1>3
<1>6. work' = [work EXCEPT ![t] = w]
  BY Zenon DEF Take, resp
<1> HIDE DEF w
<1>7. work' \in [Thread -> Works] /\ OnlyWork(t) /\ work'[t] = w
  BY <1>4, <1>6 DEF OnlyWork, TypeInv
<1>8. work[t].step = "idle" /\ taken' = taken + 1 /\ taken < config.requests
  BY DEF Take, At
<1>9. taken' \in 0..config.requests
  BY <1>1, <1>8 DEF TypeInv
<1> QED BY <1>2, <1>5, <1>7, <1>8, <1>9 DEF Take, resp

LEMMA RefuseIs ==
    ASSUME TypeInv, NEW t \in Thread, Refuse(t)
    PROVE  /\ work' \in [Thread -> Works] /\ OnlyWork(t)
           /\ work[t].step = "before" /\ work'[t].step = "send"
           /\ work'[t].number = work[t].number /\ work'[t].way \in Refused /\ Judged(work'[t])
           /\ UNCHANGED <<registrationVars, taken>> /\ Unchanged
<1>0. PICK i \in DOMAIN config.chain :
         \E refusal \in Refusals(config.chain[i], work[t].req) : Respond(t, refusal, "send")
  BY DEF Refuse
<1>1. PICK refusal \in Refusals(config.chain[i], work[t].req) : Respond(t, refusal, "send")
  BY <1>0
<1>2. work[t].req \in Requests
  BY DEF TypeInv, Works
<1>3. refusal.way \in Refused /\ refusal.resp \in Responses /\ ~Readable(refusal.resp)
  BY <1>2, RefusalsOK
<1>4. refusal.way \in AllWays /\ "send" \in ServerSteps
  BY <1>3 DEF AllWays, ServerSteps
<1>5. /\ work' \in [Thread -> Works] /\ OnlyWork(t)
      /\ work'[t].step = "send" /\ work'[t].number = work[t].number
      /\ work'[t].way = refusal.way /\ work'[t].resp = refusal.resp
  BY <1>1, <1>3, <1>4, RespondIs
<1>6. refusal.way \in Unreadable
  BY <1>3 DEF Refused, Unreadable
<1> QED BY <1>3, <1>5, <1>6 DEF Refuse, At, Judged

LEMMA PassIs ==
    ASSUME TypeInv, NEW t \in Thread, Pass(t)
    PROVE  /\ work' \in [Thread -> Works] /\ OnlyWork(t)
           /\ work[t].step = "before" /\ work'[t].step = "route"
           /\ work'[t].number = work[t].number /\ work'[t].resp = work[t].resp
           /\ UNCHANGED <<registrationVars, taken>> /\ Unchanged
<1>1. "route" \in ServerSteps /\ Move(t, "route")
  BY DEF ServerSteps, Pass
<1> QED BY <1>1, MoveIs DEF Pass, At

LEMMA RouteNoneIs ==
    ASSUME TypeInv, NEW t \in Thread, RouteNone(t)
    PROVE  /\ Finished(t) /\ work[t].step = "route"
           /\ UNCHANGED <<registrationVars, taken>> /\ Unchanged
<1> DEFINE r == work[t].resp
           q == [StatusOnly(r, 404) EXCEPT !.close = TRUE]
<1>1. r \in Responses
  BY DEF TypeInv, Works
<1> HIDE DEF r
<1>2. OK(StatusOnly(r, 404), r)
  <2>1. \A code \in Nat : OK(StatusOnly(r, code), r)
    BY <1>1, OneField
  <2> QED BY <2>1
<1>3. OK(q, r)
  <2> DEFINE a == StatusOnly(r, 404)
  <2> HIDE DEF a
  <2>1. \A close \in BOOLEAN : OK([a EXCEPT !.close = close], a)
    BY <1>2, OneField DEF OK, a
  <2>2. OK([a EXCEPT !.close = TRUE], a)
    BY <2>1, Zenon
  <2> QED BY <1>2, <2>2 DEF OK, a
<1>7. q.version = r.version
  <2> DEFINE a == StatusOnly(r, 404)
  <2>1. a.version = r.version
    <3>1. \A code \in Nat : StatusOnly(r, code).version = r.version
      BY <1>1, OneChange
    <3> QED BY <3>1
  <2>2. a \in Responses
    BY <1>2 DEF OK
  <2> HIDE DEF a
  <2>3. [a EXCEPT !.close = TRUE].version = r.version
    BY <2>1, <2>2 DEF Responses
  <2> QED BY <2>3 DEF a
<1>4. Respond(t, As("notFound", NotFound(r)), "after") /\ NotFound(r) = q
  BY Zenon DEF RouteNone, NotFound, r
<1> HIDE DEF q
<1>5. As("notFound", q).way = "notFound" /\ As("notFound", q).resp = q
  BY DEF As
<1>6. "notFound" \in AllWays /\ "notFound" \in Ways /\ "after" \in ServerSteps
  BY DEF AllWays, Ways, ServerSteps
<1>8. Finished(t)
  <2> DEFINE outcome == As("notFound", q)
  <2>1. Respond(t, outcome, "after")
    BY <1>4
  <2>2. outcome.way = "notFound" /\ outcome.resp = q /\ q \in Responses /\ q.cors = work[t].resp.cors
    BY <1>3, <1>5 DEF OK, r
  <2> HIDE DEF outcome
  <2>3. /\ work' \in [Thread -> Works] /\ OnlyWork(t)
        /\ work'[t].step = "after" /\ work'[t].number = work[t].number /\ work'[t].req = work[t].req
        /\ work'[t].way = outcome.way /\ work'[t].resp = outcome.resp
    BY <1>6, <2>1, <2>2, RespondIs
  <2>4. Unspoken(work[t].resp) => Judged(work'[t])
    <3>1. "notFound" \in Unreadable
      BY DEF Unreadable
    <3> QED BY <1>7, <2>2, <2>3, <3>1 DEF Judged, Readable, Unspoken, r
  <2> QED BY <1>6, <2>2, <2>3, <2>4 DEF Finished
<1> QED BY <1>8 DEF RouteNone, At

LEMMA RouteHandlerIs ==
    ASSUME TypeInv, NEW t \in Thread, RouteHandler(t)
    PROVE  /\ Finished(t) /\ work[t].step = "route"
           /\ UNCHANGED <<registrationVars, taken>> /\ Unchanged
<1>1. PICK outcome \in Outcomes(Hits(t).handler, work[t].resp) : Finish(t, outcome)
  BY DEF RouteHandler
<1>2. work[t].resp \in Responses
  BY DEF TypeInv, Works
<1>3. Fine(work[t].resp, outcome)
  BY <1>2, HandlersSound DEF Sound
<1> QED BY <1>1, <1>3, FinishIs DEF RouteHandler, At

LEMMA RouteRegisterIs ==
    ASSUME TypeInv, NEW t \in Thread, RouteRegister(t)
    PROVE  /\ work[t].step = "route" /\ taken' = taken /\ Unchanged
           /\ \/ Finished(t) /\ UNCHANGED registrationVars
              \/ \E n \in Name :
                    /\ work' \in [Thread -> Works] /\ OnlyWork(t)
                    /\ work'[t].step = "registering" /\ work'[t].number = work[t].number
                    /\ work'[t].resp = work[t].resp
                    /\ StartRegistering(t, n, work[t].number)
<1>1. CASE Finish(t, Threw(work[t].resp)) /\ UNCHANGED registrationVars
  <2>1. Fine(work[t].resp, Threw(work[t].resp))
    BY ThrewFine DEF TypeInv, Works
  <2> QED BY <1>1, <2>1, FinishIs DEF RouteRegister, At
<1>2. ASSUME NEW n \in Name, StartRegistering(t, n, work[t].number), Move(t, "registering")
      PROVE  /\ work' \in [Thread -> Works] /\ OnlyWork(t)
             /\ work'[t].step = "registering" /\ work'[t].number = work[t].number
             /\ work'[t].resp = work[t].resp
  <2>1. "registering" \in ServerSteps
    BY DEF ServerSteps
  <2> QED BY <1>2, <2>1, MoveIs
<1> QED BY <1>1, <1>2 DEF RouteRegister, At

LEMMA RegisterEndsIs ==
    ASSUME TypeInv, NEW t \in Thread, RegisterEnds(t)
    PROVE  /\ Finished(t) /\ work[t].step = "registering"
           /\ EndRegistering(t) /\ taken' = taken /\ Unchanged
<1> DEFINE r == work[t].resp
<1>1. r \in Responses
  BY DEF TypeInv, Works
<1>2. \/ Finish(t, As("registered", Filled(r, 200, FALSE, 1)))
      \/ Finish(t, As("conflict", Filled(r, 409, FALSE, 1)))
      \/ Finish(t, Threw(r))
  BY Zenon DEF RegisterEnds
<1> HIDE DEF r
<1>9. \A code \in Nat : code # 0 => Answerable(r, code)
  BY <1>1, Answers
<1>3. Answerable(r, 200)
  BY <1>9
<1>10. Answerable(r, 409)
  BY <1>9
<1>4. Fine(r, As("registered", Filled(r, 200, FALSE, 1)))
  <2>1. \A way \in Clear : Fine(r, As(way, Filled(r, 200, FALSE, 1)))
    BY <1>3, Zenon DEF Answerable
  <2>2. "registered" \in Clear
    BY DEF Clear, Ways, Unreadable
  <2> QED BY <2>1, <2>2
<1>5. Fine(r, As("conflict", Filled(r, 409, FALSE, 1)))
  <2>1. \A way \in Clear : Fine(r, As(way, Filled(r, 409, FALSE, 1)))
    BY <1>10, Zenon DEF Answerable
  <2>2. "conflict" \in Clear
    BY DEF Clear, Ways, Unreadable
  <2> QED BY <2>1, <2>2
<1>6. Fine(r, Threw(r))
  BY <1>1, ThrewFine
<1>7. ASSUME NEW outcome, Fine(r, outcome), Finish(t, outcome) PROVE Finished(t)
  BY <1>7, FinishIs DEF r
<1>8. Finished(t)
  <2>1. CASE Finish(t, As("registered", Filled(r, 200, FALSE, 1)))
    BY <1>4, <1>7, <2>1, Zenon
  <2>2. CASE Finish(t, As("conflict", Filled(r, 409, FALSE, 1)))
    BY <1>5, <1>7, <2>2, Zenon
  <2>3. CASE Finish(t, Threw(r))
    BY <1>6, <1>7, <2>3, Zenon
  <2> QED BY <1>2, <2>1, <2>2, <2>3, Zenon
<1> QED BY <1>8 DEF RegisterEnds, At

LEMMA AfterIs ==
    ASSUME TypeInv, NEW t \in Thread, After(t)
    PROVE  /\ work' \in [Thread -> Works] /\ OnlyWork(t)
           /\ work[t].step = "after" /\ work'[t].step = "send"
           /\ work'[t].number = work[t].number /\ work'[t].way = work[t].way
           /\ work'[t].resp = processAfter(work[t].resp)
           /\ UNCHANGED <<registrationVars, taken>> /\ Unchanged
<1> DEFINE w1 == [work[t] EXCEPT !.step = "send"]
           resp == processAfter(work[t].resp)
           w2 == [w1 EXCEPT !.resp = resp]
<1>1. work[t] \in Works /\ work \in [Thread -> Works] /\ "send" \in ServerSteps
  BY DEF TypeInv, ServerSteps
<1>2. resp \in Responses
  BY <1>1, AfterOK DEF TypeInv, Works
<1>3. work' = [work EXCEPT ![t] = w2]
  <2> HIDE DEF resp
  <2>1. work' = [work EXCEPT ![t].step = "send", ![t].resp = processAfter(@)]
    BY DEF After
  <2> DEFINE f1 == [work EXCEPT ![t].step = "send"]
  <2>2. f1 = [work EXCEPT ![t] = w1]
    OBVIOUS
  <2>3. f1[t] = w1 /\ w1.resp = work[t].resp
    BY <1>1, <2>2 DEF Works
  <2>4. work' = [f1 EXCEPT ![t] = [f1[t] EXCEPT !.resp = processAfter(f1[t].resp)]]
    BY <2>1, Zenon
  <2> HIDE DEF w1
  <2>5. work' = [f1 EXCEPT ![t] = w2]
    BY <2>3, <2>4 DEF resp
  <2> QED BY <1>1, <2>2, <2>5
<1> HIDE DEF resp
<1>4. /\ w1 \in Works /\ w1.step = "send" /\ w1.number = work[t].number /\ w1.way = work[t].way
  BY <1>1, OneWork
<1> HIDE DEF w1
<1>5. /\ w2 \in Works /\ w2.step = "send" /\ w2.number = work[t].number /\ w2.way = work[t].way
      /\ w2.resp = resp
  BY <1>2, <1>4, OneWork
<1> HIDE DEF w2
<1>6. work' \in [Thread -> Works] /\ OnlyWork(t) /\ work'[t] = w2
  BY <1>1, <1>3, <1>5 DEF OnlyWork
<1> QED BY <1>5, <1>6 DEF After, At, resp

LEMMA IdleType == Idle \in Works
<1>1. Fresh(TRUE) \in Responses
  BY FreshOK
<1> DEFINE resp == Fresh(TRUE)
<1>2. Idle = [step |-> "idle", number |-> 0, req |-> NoRequest, way |-> None, resp |-> resp]
  BY DEF Idle
<1> HIDE DEF resp
<1>3. resp \in Responses
  BY <1>1 DEF resp
<1> QED BY <1>2, <1>3 DEF Works, ServerSteps, AllWays, Requests

LEMMA SendIs ==
    ASSUME TypeInv, NEW t \in Thread, Send(t)
    PROVE  /\ work' \in [Thread -> Works] /\ OnlyWork(t)
           /\ work[t].step = "send" /\ work'[t].step = "idle"
           /\ UNCHANGED <<registrationVars, taken>> /\ Unchanged
<1>1. work' = [work EXCEPT ![t] = Idle] /\ work \in [Thread -> Works]
  BY DEF Send, TypeInv
<1>2. Idle.step = "idle"
  BY DEF Idle
<1>3. work' \in [Thread -> Works] /\ OnlyWork(t) /\ work'[t] = Idle
  BY <1>1, IdleType DEF OnlyWork
<1> QED BY <1>2, <1>3 DEF Send, At

-----------------------------------------------------------------------------
(* Typing.                                                                   *)
LEMMA TypeInit == ASSUME Init PROVE TypeInv
<1>1. TableInv
  BY TableInit DEF Init
<1>2. config \in Configs /\ started \in BOOLEAN /\ taken \in 0..config.requests
  <2>1. config \in Configs /\ started = FALSE /\ taken = 0
    BY DEF Init
  <2>2. config.requests \in Nat
    BY <2>1, ServerAssumption DEF ServerAssumption
  <2>3. taken \in 0..config.requests
    BY <2>1, <2>2
  <2>4. started \in BOOLEAN
    BY <2>1, Zenon
  <2> QED BY <2>1, <2>3, <2>4, Zenon
<1>3. users = {} /\ users \subseteq [id : Nat, name : Name, by : Nat] /\ IsFiniteSet(users)
  BY FS_EmptySet DEF Init, RegistrationInit
<1>4. work = [t \in Thread |-> Idle] /\ registering = [t \in Thread |-> NotRegistering]
  BY DEF Init, RegistrationInit
<1>5. work \in [Thread -> Works]
  BY <1>4, IdleType
<1>6. NotRegistering \in Registers /\ NotRegistering.step = "none"
  BY RegistrationAssumption DEF RegistrationAssumption, NotRegistering, Registers, Steps
<1>7. registering \in [Thread -> Registers]
  BY <1>4, <1>6
<1>8. \A t \in Thread : At(t, "registering") <=> ~In(t, "none")
  <2>1. Idle.step = "idle"
    BY DEF Idle
  <2> QED BY <1>4, <1>6, <2>1 DEF At, In
<1> QED BY <1>1, <1>2, <1>3, <1>5, <1>7, <1>8 DEF TypeInv

LEMMA QuietType ==
    ASSUME TypeInv, NEW t \in Thread, work' \in [Thread -> Works], OnlyWork(t),
           work[t].step # "registering", work'[t].step # "registering",
           UNCHANGED <<registrationVars, taken>>, Unchanged
    PROVE  TypeInv'
<1>1. TableInv'
  BY TableStays DEF TypeInv, Unchanged
<1>2. UNCHANGED <<config, started, taken, users, registering>>
  BY DEF Unchanged, registrationVars
<1>3. \A u \in Thread : At(u, "registering")' <=> ~In(u, "none")'
  BY <1>2 DEF TypeInv, OnlyWork, At, In
<1> QED BY <1>1, <1>2, <1>3 DEF TypeInv

LEMMA DeclareType ==
    ASSUME TypeInv, Declare
    PROVE  TypeInv'
<1> DEFINE i == Len(declared) + 1
           next == config.program[i]
<1>1. config \in Configs /\ declared \in Seq(Declaration)
  BY DEF TypeInv, TableInv, TableType
<1>2. config.program \in Seq(UNION {[kind : {k}, route : RouteOf(k)] : k \in Kinds})
  BY <1>1, ServerAssumption DEF ServerAssumption
<1>3. i \in 1..Len(config.program)
  BY <1>1, <1>2 DEF Declare
<1>4. next \in UNION {[kind : {k}, route : RouteOf(k)] : k \in Kinds}
  BY <1>2, <1>3
<1>5. PICK k \in Kinds : next \in [kind : {k}, route : RouteOf(k)]
  BY <1>4
<1>6. Register(next.kind, next.route)
  BY DEF Declare
<1> HIDE DEF next
<1>7. next.kind \in Kinds /\ next.route \in RouteOf(next.kind)
  BY <1>5
<1>8. TableInv'
  BY <1>6, <1>7, TableStep DEF TypeInv
<1>9. UNCHANGED <<config, started, taken, users, registering, work>>
  BY DEF Declare, registrationVars, serverVars
<1> QED BY <1>8, <1>9 DEF TypeInv, At, In

LEMMA StartType ==
    ASSUME TypeInv, Start
    PROVE  TypeInv'
<1>1. TableInv'
  BY TableStays DEF TypeInv, Start
<1>2. UNCHANGED <<config, taken, users, registering, work>> /\ started' = TRUE
  BY DEF Start, registrationVars
<1> QED BY <1>1, <1>2 DEF TypeInv, At, In

LEMMA TakeType ==
    ASSUME TypeInv, NEW t \in Thread, NEW req \in config.asked, NEW close \in BOOLEAN, Take(t, req, close)
    PROVE  TypeInv'
<1>1. /\ work' \in [Thread -> Works] /\ OnlyWork(t)
      /\ work[t].step = "idle" /\ work'[t].step = "before"
      /\ taken' \in 0..config.requests /\ UNCHANGED registrationVars /\ Unchanged
  BY TakeIs
<1>2. TableInv'
  BY <1>1, TableStays DEF TypeInv, Unchanged
<1>3. UNCHANGED <<config, started, users, registering>>
  BY <1>1 DEF Unchanged, registrationVars
<1>4. \A u \in Thread : At(u, "registering")' <=> ~In(u, "none")'
  BY <1>1, <1>3 DEF TypeInv, OnlyWork, At, In
<1> QED BY <1>1, <1>2, <1>3, <1>4 DEF TypeInv

(* A change of one thread's registration, its users, and its work.           *)
OnlyRegistering(t) == \A u \in Thread : u # t => registering'[u] = registering[u]

LEMMA StartRegisteringIs ==
    ASSUME TypeInv, NEW t \in Thread, NEW n \in Name, StartRegistering(t, n, work[t].number)
    PROVE  /\ registering' \in [Thread -> Registers] /\ OnlyRegistering(t)
           /\ registering'[t].step = "check" /\ registering'[t].by = work[t].number
           /\ registering'[t].name = n
           /\ UNCHANGED <<users, uniqueKey, told>>
<1> DEFINE g == [step |-> "check", name |-> n, by |-> work[t].number]
<1>1. g \in Registers /\ g.step = "check" /\ g.by = work[t].number /\ g.name = n
  BY DEF TypeInv, Works, Registers, Steps
<1>2. registering' = [registering EXCEPT ![t] = g] /\ UNCHANGED <<users, uniqueKey, told>>
  BY DEF StartRegistering
<1> HIDE DEF g
<1>3. registering \in [Thread -> Registers]
  BY DEF TypeInv
<1>4. registering' \in [Thread -> Registers] /\ OnlyRegistering(t) /\ registering'[t] = g
  BY <1>1, <1>2, <1>3 DEF OnlyRegistering
<1> QED BY <1>1, <1>2, <1>4

LEMMA EndRegisteringIs ==
    ASSUME TypeInv, NEW t \in Thread, EndRegistering(t)
    PROVE  /\ registering' \in [Thread -> Registers] /\ OnlyRegistering(t)
           /\ registering'[t].step = "none"
           /\ UNCHANGED <<users, uniqueKey, told>>
<1>1. NotRegistering \in Registers /\ NotRegistering.step = "none"
  BY RegistrationAssumption DEF RegistrationAssumption, NotRegistering, Registers, Steps
<1>2. registering \in [Thread -> Registers]
  BY DEF TypeInv
<1> QED BY <1>1, <1>2 DEF EndRegistering, OnlyRegistering

LEMMA GotoIs ==
    ASSUME TypeInv, NEW t \in Thread, NEW step \in Steps, Goto(t, step)
    PROVE  /\ registering' \in [Thread -> Registers] /\ OnlyRegistering(t)
           /\ registering'[t].step = step
           /\ registering'[t].by = by(t) /\ registering'[t].name = name(t)
<1>1. registering \in [Thread -> Registers]
  BY DEF TypeInv
<1> QED BY <1>1 DEF Goto, OnlyRegistering, Registers, by, name

LEMMA InsertIs ==
    ASSUME TypeInv, NEW t \in Thread, Insert(t)
    PROVE  \E row \in [id : Nat, name : Name, by : Nat] :
              /\ row.name = name(t) /\ row.by = by(t)
              /\ users' = users \cup {row} /\ IsFiniteSet(users')
              /\ Insertable(name(t))
              /\ registering' \in [Thread -> Registers] /\ OnlyRegistering(t)
              /\ In(t, "insert") /\ registering'[t].step \in {"select", "failed"}
              /\ registering'[t].by = by(t) /\ registering'[t].name = name(t)
              /\ UNCHANGED <<uniqueKey, told>>
<1> DEFINE row == [id |-> Cardinality(users) + 1, name |-> name(t), by |-> by(t)]
<1>1. Cardinality(users) + 1 \in Nat
  BY FS_CardinalityType DEF TypeInv
<1>2. registering[t] \in Registers
  BY DEF TypeInv
<1>3. row \in [id : Nat, name : Name, by : Nat] /\ row.name = name(t) /\ row.by = by(t)
  BY <1>1, <1>2 DEF Registers, name, by
<1>4. users' = users \cup {row}
  BY DEF Insert
<1> HIDE DEF row
<1>5. IsFiniteSet(users')
  BY <1>4, FS_AddElement DEF TypeInv
<1>6. "select" \in Steps /\ "failed" \in Steps
  BY DEF Steps
<1>7. /\ registering' \in [Thread -> Registers] /\ OnlyRegistering(t)
      /\ registering'[t].step \in {"select", "failed"}
      /\ registering'[t].by = by(t) /\ registering'[t].name = name(t)
  <2>1. CASE Goto(t, "select")
    BY <1>6, <2>1, GotoIs
  <2>2. CASE Goto(t, "failed")
    BY <1>6, <2>2, GotoIs
  <2> QED BY <2>1, <2>2 DEF Insert
<1>8. In(t, "insert") /\ Insertable(name(t)) /\ UNCHANGED <<uniqueKey, told>>
  BY DEF Insert
<1> QED BY <1>3, <1>4, <1>5, <1>7, <1>8

LEMMA RegisterStepType ==
    ASSUME TypeInv, NEW t \in Thread, RegisterStep(t)
    PROVE  TypeInv'
<1>1. TableInv' /\ UNCHANGED <<config, started, taken, work>>
  BY TableStays DEF TypeInv, RegisterStep, Unchanged
<1>2. SUFFICES /\ users' \subseteq [id : Nat, name : Name, by : Nat] /\ IsFiniteSet(users')
               /\ registering' \in [Thread -> Registers] /\ OnlyRegistering(t)
               /\ registering'[t].step # "none"
  <2>1. work[t].step = "registering"
    BY DEF RegisterStep, At
  <2> QED BY <1>1, <2>1 DEF TypeInv, At, In, OnlyRegistering
<1> DEFINE Goal == /\ users' \subseteq [id : Nat, name : Name, by : Nat] /\ IsFiniteSet(users')
                   /\ registering' \in [Thread -> Registers] /\ OnlyRegistering(t)
                   /\ registering'[t].step # "none"
<1>3. ASSUME users' = users, NEW step \in Steps, step # "none", Goto(t, step) PROVE Goal
  BY <1>3, GotoIs DEF TypeInv
<1>4. ASSUME Insert(t) PROVE Goal
  <2>1. PICK row \in [id : Nat, name : Name, by : Nat] :
              /\ users' = users \cup {row} /\ IsFiniteSet(users')
              /\ registering' \in [Thread -> Registers] /\ OnlyRegistering(t)
              /\ registering'[t].step \in {"select", "failed"}
    BY <1>4, InsertIs
  <2>2. users \subseteq [id : Nat, name : Name, by : Nat]
    BY DEF TypeInv
  <2> QED BY <2>1, <2>2
<1> SUFFICES Goal
  OBVIOUS
<1> HIDE DEF Goal
<1>5. "conflict" \in Steps /\ "insert" \in Steps /\ "registered" \in Steps /\ "failed" \in Steps
  BY DEF Steps
<1>6. CASE CheckFinds(t)
  BY <1>3, <1>5, <1>6 DEF CheckFinds
<1>7. CASE CheckFindsNone(t)
  BY <1>3, <1>5, <1>7 DEF CheckFindsNone
<1>8. CASE Select(t)
  BY <1>3, <1>5, <1>8 DEF Select
<1>9. CASE StatementFails(t)
  BY <1>3, <1>5, <1>9 DEF StatementFails
<1> QED BY <1>4, <1>6, <1>7, <1>8, <1>9 DEF RegisterStep, Registering

LEMMA RouteRegisterType ==
    ASSUME TypeInv, NEW t \in Thread, RouteRegister(t)
    PROVE  TypeInv'
<1>1. CASE Finished(t) /\ UNCHANGED registrationVars
  BY <1>1, RouteRegisterIs, QuietType DEF Finished
<1>2. ASSUME NEW n \in Name, work' \in [Thread -> Works], OnlyWork(t),
             work'[t].step = "registering", StartRegistering(t, n, work[t].number)
      PROVE  TypeInv'
  <2>1. taken' = taken /\ Unchanged
    BY RouteRegisterIs
  <2>2. /\ registering' \in [Thread -> Registers] /\ OnlyRegistering(t)
        /\ registering'[t].step = "check" /\ users' = users
    BY <1>2, StartRegisteringIs
  <2>3. TableInv'
    BY <2>1, TableStays DEF TypeInv, Unchanged
  <2>4. UNCHANGED <<config, started, taken, users>>
    BY <2>1, <2>2 DEF Unchanged
  <2>5. \A u \in Thread : At(u, "registering")' <=> ~In(u, "none")'
    BY <1>2, <2>2 DEF TypeInv, OnlyWork, OnlyRegistering, At, In
  <2> QED BY <1>2, <2>2, <2>3, <2>4, <2>5 DEF TypeInv
<1> QED BY <1>1, <1>2, RouteRegisterIs

LEMMA RegisterEndsType ==
    ASSUME TypeInv, NEW t \in Thread, RegisterEnds(t)
    PROVE  TypeInv'
<1>1. Finished(t) /\ EndRegistering(t) /\ taken' = taken /\ Unchanged
  BY RegisterEndsIs
<1>2. /\ registering' \in [Thread -> Registers] /\ OnlyRegistering(t)
      /\ registering'[t].step = "none" /\ users' = users
  BY <1>1, EndRegisteringIs
<1>3. TableInv'
  BY <1>1, TableStays DEF TypeInv, Unchanged
<1>4. UNCHANGED <<config, started, taken, users>>
  BY <1>1, <1>2 DEF Unchanged
<1>5. \A u \in Thread : At(u, "registering")' <=> ~In(u, "none")'
  BY <1>1, <1>2 DEF TypeInv, Finished, OnlyWork, OnlyRegistering, At, In
<1> QED BY <1>1, <1>2, <1>3, <1>4, <1>5 DEF TypeInv, Finished

LEMMA HandleType ==
    ASSUME TypeInv, NEW t \in Thread, Handle(t)
    PROVE  TypeInv'
<1>1. CASE Refuse(t)
  BY <1>1, RefuseIs, QuietType
<1>2. CASE Pass(t)
  BY <1>2, PassIs, QuietType
<1>3. CASE RouteNone(t)
  BY <1>3, RouteNoneIs, QuietType DEF Finished
<1>4. CASE RouteHandler(t)
  BY <1>4, RouteHandlerIs, QuietType DEF Finished
<1>5. CASE After(t)
  BY <1>5, AfterIs, QuietType
<1>6. CASE Send(t)
  BY <1>6, SendIs, QuietType
<1> QED BY <1>1, <1>2, <1>3, <1>4, <1>5, <1>6, RouteRegisterType, RegisterStepType, RegisterEndsType
        DEF Handle

LEMMA TypeStep == TypeInv /\ [Next]_vars => TypeInv'
<1> SUFFICES ASSUME TypeInv, [Next]_vars PROVE TypeInv'
  OBVIOUS
<1>1. CASE UNCHANGED vars
  <2>1. TableInv'
    BY <1>1, TableStays DEF TypeInv, vars
  <2>2. UNCHANGED <<config, started, taken, users, registering, work>>
    BY <1>1 DEF vars, registrationVars, serverVars
  <2> QED BY <2>1, <2>2 DEF TypeInv, At, In
<1>2. ASSUME NEW t \in Thread, Handle(t) PROVE TypeInv'
  BY <1>2, HandleType
<1>3. ASSUME NEW t \in Thread, NEW req \in config.asked, NEW close \in BOOLEAN, Take(t, req, close)
      PROVE  TypeInv'
  BY <1>3, TakeType
<1> QED BY <1>1, <1>2, <1>3, DeclareType, StartType DEF Next

LEMMA Typed == Spec => []TypeInv
BY TypeInit, TypeStep, PTL DEF Spec

(* The server's type invariant, for any routes, settings, requests and       *)
(* threads.                                                                  *)
THEOREM TypeCorrect == Spec => []TypeOK
<1>1. ASSUME TypeInv PROVE TypeOK
  <2>1. TableType /\ config \in Configs
    BY <1>1 DEF TypeInv, TableInv
  <2>2. \A t \in Thread : work[t] \in Works /\ registering[t] \in Registers
    BY <1>1 DEF TypeInv
  <2>3. \A t \in Thread :
          /\ work[t].step \in ServerSteps /\ work[t].resp \in Responses
          /\ registering[t].step \in Steps /\ registering[t].name \in Name
    BY <2>2 DEF Works, Registers
  <2> QED BY <1>1, <2>1, <2>3 DEF TypeInv, TypeOK, TableType
<1> QED BY <1>1, Typed, PTL

(* In every state of the server a request would reach the handler that the   *)
(* registrations made until then promise.                                    *)
THEOREM RoutingCorrect == Spec => []RoutedAsDeclared
<1>1. TypeInv => RoutedAsDeclared
  BY TableKeepsPromise DEF TypeInv
<1> QED BY <1>1, Typed, PTL

-----------------------------------------------------------------------------
(* Answers.  Nothing is said in a response before a handler has it, and from *)
(* then on it can be read exactly if the way it came about is not one of     *)
(* those that lose the status line or the length.                            *)
Early == {"before", "route", "registering"}
AnswerInv == \A t \in Thread :
    /\ work[t].step \in Early => Unspoken(work[t].resp)
    /\ work[t].step \in {"after", "send"} => Judged(work[t])

LEMMA AnswerOther ==
    ASSUME AnswerInv, NEW t \in Thread, OnlyWork(t),
           work'[t].step \in Early => Unspoken(work'[t].resp),
           work'[t].step \in {"after", "send"} => Judged(work'[t])
    PROVE  AnswerInv'
BY DEF AnswerInv, OnlyWork

LEMMA AnswerStep == TypeInv /\ AnswerInv /\ [Next]_vars => AnswerInv'
<1> SUFFICES ASSUME TypeInv, AnswerInv, [Next]_vars PROVE AnswerInv'
  OBVIOUS
<1>1. ASSUME work' = work PROVE AnswerInv'
  BY <1>1 DEF AnswerInv
<1>2. CASE UNCHANGED vars
  BY <1>1, <1>2 DEF vars, serverVars
<1>3. CASE Declare
  BY <1>1, <1>3 DEF Declare, serverVars
<1>4. CASE Start
  BY <1>1, <1>4 DEF Start
<1>5. ASSUME NEW t \in Thread, NEW req \in config.asked, NEW close \in BOOLEAN, Take(t, req, close)
      PROVE  AnswerInv'
  BY <1>5, TakeIs, AnswerOther
<1>6. ASSUME NEW t \in Thread, Handle(t) PROVE AnswerInv'
  <2>1. ASSUME Finished(t), work[t].step \in Early PROVE AnswerInv'
    <3>1. Judged(work'[t]) /\ work'[t].step \notin Early
      BY <2>1 DEF Finished, AnswerInv, Early
    <3> QED BY <2>1, <3>1, AnswerOther DEF Finished
  <2>2. CASE Refuse(t)
    BY <2>2, RefuseIs, AnswerOther DEF Early
  <2>3. CASE Pass(t)
    <3>1. OnlyWork(t) /\ work[t].step = "before" /\ work'[t].step = "route" /\ work'[t].resp = work[t].resp
      BY <2>3, PassIs
    <3> QED BY <3>1, AnswerOther DEF AnswerInv, Early
  <2>4. CASE RouteNone(t)
    BY <2>1, <2>4, RouteNoneIs DEF Early
  <2>5. CASE RouteHandler(t)
    BY <2>1, <2>5, RouteHandlerIs DEF Early
  <2>6. CASE RouteRegister(t)
    <3>1. work[t].step = "route"
      BY <2>6, RouteRegisterIs
    <3>2. CASE Finished(t)
      BY <2>1, <3>1, <3>2 DEF Early
    <3>3. CASE OnlyWork(t) /\ work'[t].step = "registering" /\ work'[t].resp = work[t].resp
      BY <3>1, <3>3, AnswerOther DEF AnswerInv, Early
    <3> QED BY <2>6, <3>2, <3>3, RouteRegisterIs
  <2>7. CASE RegisterStep(t)
    BY <1>1, <2>7 DEF RegisterStep
  <2>8. CASE RegisterEnds(t)
    BY <2>1, <2>8, RegisterEndsIs DEF Early
  <2>9. CASE After(t)
    <3>1. /\ OnlyWork(t) /\ work[t].step = "after" /\ work'[t].step = "send"
          /\ work'[t].way = work[t].way /\ work'[t].resp = processAfter(work[t].resp)
      BY <2>9, AfterIs
    <3>2. config \in Configs /\ work[t].resp \in Responses
      BY DEF TypeInv, Works
    <3>3. Readable(work'[t].resp) <=> Readable(work[t].resp)
      BY <3>1, <3>2, AfterOK
    <3> QED BY <3>1, <3>3, AnswerOther DEF AnswerInv, Judged, Early
  <2>10. CASE Send(t)
    BY <2>10, SendIs, AnswerOther DEF Early
  <2> QED BY <1>6, <2>2, <2>3, <2>4, <2>5, <2>6, <2>7, <2>8, <2>9, <2>10 DEF Handle
<1> QED BY <1>2, <1>3, <1>4, <1>5, <1>6 DEF Next

(* Whatever the routes, the middlewares and the requests: an answer that     *)
(* goes out has a status line and an end that the client can find, unless it *)
(* came about in one of the ways that are named.                             *)
THEOREM AnswersCorrect == Spec => []AnswersReadable
<1>1. Init => AnswerInv
  <2> SUFFICES ASSUME Init PROVE AnswerInv
    OBVIOUS
  <2>1. work = [t \in Thread |-> Idle] /\ Idle.step = "idle"
    BY DEF Init, Idle
  <2> QED BY <2>1 DEF AnswerInv, Early
<1>2. AnswerInv => AnswersReadable
  BY DEF AnswerInv, AnswersReadable, Judged, At
<1> QED BY <1>1, <1>2, Typed, AnswerStep, PTL DEF Spec

-----------------------------------------------------------------------------
(* CORS.  An answer that went through processAfter names the only origin.    *)
HasCors == \E i \in DOMAIN config.chain : config.chain[i] = "cors"
Apart == {"threw", "tooMany", "preflight", "forbidden"}
CorsInv == \A t \in Thread :
    work[t].step = "send" /\ work[t].way \notin Apart /\ HasCors /\ Len(config.origins) = 1
    => work[t].resp.cors = config.origins[1]

LEMMA CorsOther ==
    ASSUME CorsInv, config' = config, NEW t \in Thread, OnlyWork(t),
           work'[t].step # "send" \/ work'[t].way \in Apart
    PROVE  CorsInv'
BY DEF CorsInv, OnlyWork, HasCors

LEMMA CorsStep == TypeInv /\ CorsInv /\ [Next]_vars => CorsInv'
<1> SUFFICES ASSUME TypeInv, CorsInv, [Next]_vars PROVE CorsInv'
  OBVIOUS
<1>1. ASSUME config' = config, work' = work PROVE CorsInv'
  BY <1>1 DEF CorsInv, HasCors
<1>2. CASE UNCHANGED vars
  BY <1>1, <1>2 DEF vars, serverVars
<1>3. CASE Declare
  BY <1>1, <1>3 DEF Declare, serverVars
<1>4. CASE Start
  BY <1>1, <1>4 DEF Start
<1>5. ASSUME NEW t \in Thread, NEW req \in config.asked, NEW close \in BOOLEAN, Take(t, req, close)
      PROVE  CorsInv'
  BY <1>5, TakeIs, CorsOther DEF Unchanged
<1>6. ASSUME NEW t \in Thread, Handle(t) PROVE CorsInv'
  <2>1. ASSUME Finished(t), Unchanged PROVE CorsInv'
    <3>1. work'[t].step # "send" \/ work'[t].way \in Apart
      BY <2>1 DEF Finished, Apart
    <3> QED BY <2>1, <3>1, CorsOther DEF Finished, Unchanged
  <2>2. CASE Refuse(t)
    <3>1. Refused \subseteq Apart
      BY DEF Refused, Apart
    <3> QED BY <2>2, <3>1, RefuseIs, CorsOther DEF Unchanged
  <2>3. CASE Pass(t)
    BY <2>3, PassIs, CorsOther DEF Unchanged
  <2>4. CASE RouteNone(t)
    BY <2>1, <2>4, RouteNoneIs
  <2>5. CASE RouteHandler(t)
    BY <2>1, <2>5, RouteHandlerIs
  <2>6. CASE RouteRegister(t)
    <3>1. CASE Finished(t)
      BY <2>1, <2>6, <3>1, RouteRegisterIs
    <3>2. CASE OnlyWork(t) /\ work'[t].step = "registering"
      BY <2>6, <3>2, RouteRegisterIs, CorsOther DEF Unchanged
    <3> QED BY <2>6, <3>1, <3>2, RouteRegisterIs
  <2>7. CASE RegisterStep(t)
    BY <1>1, <2>7 DEF RegisterStep, Unchanged
  <2>8. CASE RegisterEnds(t)
    BY <2>1, <2>8, RegisterEndsIs
  <2>9. CASE After(t)
    <3>1. OnlyWork(t) /\ config' = config /\ work'[t].resp = processAfter(work[t].resp)
      BY <2>9, AfterIs DEF Unchanged
    <3>2. HasCors /\ Len(config.origins) = 1 => work'[t].resp.cors = config.origins[1]
      <4>1. config \in Configs /\ work[t].resp \in Responses
        BY DEF TypeInv, Works
      <4> QED BY <3>1, <4>1, AfterOK DEF HasCors
    <3> QED BY <3>1, <3>2 DEF CorsInv, OnlyWork, HasCors
  <2>10. CASE Send(t)
    BY <2>10, SendIs, CorsOther DEF Unchanged
  <2> QED BY <1>6, <2>2, <2>3, <2>4, <2>5, <2>6, <2>7, <2>8, <2>9, <2>10 DEF Handle
<1> QED BY <1>2, <1>3, <1>4, <1>5, <1>6 DEF Next

(* What a preflight tells a page of the only allowed origin, or of any if it *)
(* is "*", the answers to its requests let it read, and those of no other.   *)
THEOREM CorsCorrect == Spec => []PreflightKept
<1>1. Init => CorsInv
  <2> SUFFICES ASSUME Init PROVE CorsInv
    OBVIOUS
  <2>1. work = [t \in Thread |-> Idle] /\ Idle.step = "idle"
    BY DEF Init, Idle
  <2> QED BY <2>1 DEF CorsInv
<1>2. TypeInv /\ CorsInv => PreflightKept
  <2> SUFFICES ASSUME TypeInv, CorsInv, NEW t \in Thread,
                      At(t, "send"), work[t].way \notin Apart, HasCors, Len(config.origins) = 1,
                      NEW origin \in Origin
               PROVE  Lets(work[t].resp, origin) <=> handlePreflightRequest(origin).way = "preflight"
    BY Zenon DEF PreflightKept, Apart, HasCors, allowedOrigins
  <2>1. work[t].resp.cors = config.origins[1]
    BY DEF CorsInv, At
  <2>2. config.origins \in Seq(Origin \cup {"*"})
    BY ServerAssumption DEF ServerAssumption, TypeInv
  <2>3. DOMAIN config.origins = {1} /\ config.origins # <<>>
    BY <2>2
  <2>4. isOriginAllowed(origin) <=> config.origins[1] \in {"*", origin}
    BY <2>3 DEF isOriginAllowed, allowedOrigins
  <2>5. handlePreflightRequest(origin).way = "preflight" <=> isOriginAllowed(origin)
    <3> DEFINE a == StatusOnly(addCorsHeaders(Fresh(TRUE), origin), 204)
               b == StatusOnly(Fresh(TRUE), 403)
    <3>1. handlePreflightRequest(origin) =
             IF isOriginAllowed(origin) THEN As("preflight", a) ELSE As("forbidden", b)
      BY Zenon DEF handlePreflightRequest
    <3> HIDE DEF a, b
    <3> QED BY <3>1 DEF As
  <2> QED BY <2>1, <2>4, <2>5 DEF Lets
<1> QED BY <1>1, <1>2, Typed, CorsStep, PTL DEF Spec

-----------------------------------------------------------------------------
(* Registration.  Requests that are worked on have numbers of their own, a   *)
(* row has the number of the request it is of, and until its insert a        *)
(* request has no row.                                                       *)
Busy(t) == work[t].step # "idle"
Checking(t) == work[t].step \in {"before", "route"} \/ registering[t].step \in {"check", "insert"}

Numbers ==
    /\ \A t \in Thread : Busy(t) => work[t].number \in 1..taken
    /\ \A t, u \in Thread : t # u /\ Busy(t) /\ Busy(u) => work[t].number # work[u].number
ByNumber == \A t \in Thread : At(t, "registering") => by(t) = work[t].number
Owned ==
    /\ \A u \in users : u.by \in 1..taken
    /\ \A t \in Thread : Checking(t) => \A u \in users : u.by # work[t].number
    /\ \A t \in Thread : In(t, "select") => \E u \in users : u.by = by(t) /\ u.name = name(t)
Unique == uniqueKey => \A u, v \in users : u.name = v.name => u = v

RegInv == Numbers /\ ByNumber /\ Owned /\ Unique /\ ConflictMeansTaken /\ OwnId

(* No step of a registration.                                                *)
LEMMA QuietReg ==
    ASSUME TypeInv, RegInv, NEW t \in Thread, work' \in [Thread -> Works], OnlyWork(t),
           UNCHANGED <<registrationVars, taken>>,
           work'[t].step = "idle" \/ (Busy(t) /\ work'[t].number = work[t].number),
           work'[t].step # "registering",
           work[t].step # "registering",
           work'[t].step \in {"before", "route"} => work[t].step \in {"before", "route"}
    PROVE  RegInv'
<1>1. UNCHANGED <<users, uniqueKey, registering, told, taken>>
  BY DEF registrationVars
<1>2. Numbers'
  BY <1>1 DEF RegInv, Numbers, Busy, OnlyWork
<1>3. ByNumber'
  BY <1>1 DEF RegInv, ByNumber, OnlyWork, At, by
<1>4. Owned'
  <2>1. \A u \in users' : u.by \in 1..taken'
    BY <1>1 DEF RegInv, Owned
  <2>2. In(t, "none")
    BY DEF TypeInv, At
  <2>3. ASSUME NEW v \in Thread, Checking(v)' PROVE Checking(v) /\ work'[v].number = work[v].number
    BY <1>1, <2>2, <2>3 DEF Checking, OnlyWork, In, Busy
  <2>4. \A v \in Thread : Checking(v)' => \A u \in users' : u.by # work'[v].number
    BY <1>1, <2>3 DEF RegInv, Owned
  <2>5. \A v \in Thread : In(v, "select")' => \E u \in users' : u.by = by(v)' /\ u.name = name(v)'
    BY <1>1 DEF RegInv, Owned, In, by, name
  <2> QED BY <2>1, <2>4, <2>5 DEF Owned
<1>5. Unique' /\ ConflictMeansTaken' /\ OwnId'
  BY <1>1 DEF RegInv, Unique, ConflictMeansTaken, OwnId
<1> QED BY <1>2, <1>3, <1>4, <1>5 DEF RegInv

(* A request is taken, with the next number.                                 *)
LEMMA TakeReg ==
    ASSUME TypeInv, RegInv,
           NEW t \in Thread, NEW req \in config.asked, NEW close \in BOOLEAN, Take(t, req, close)
    PROVE  RegInv'
<1>1. /\ OnlyWork(t) /\ work[t].step = "idle" /\ work'[t].step = "before"
      /\ work'[t].number = taken + 1 /\ taken' = taken + 1 /\ UNCHANGED registrationVars
  BY TakeIs
<1>2. UNCHANGED <<users, uniqueKey, registering, told>>
  BY <1>1 DEF registrationVars
<1>3. taken \in Nat
  <2>1. config \in Configs /\ taken \in 0..config.requests
    BY DEF TypeInv
  <2> QED BY <2>1, ServerAssumption DEF ServerAssumption
<1>4. Numbers'
  BY <1>1, <1>3 DEF RegInv, Numbers, Busy, OnlyWork
<1>5. ByNumber'
  BY <1>1, <1>2 DEF RegInv, ByNumber, OnlyWork, At, by
<1>6. Owned'
  <2>1. \A u \in users' : u.by \in 1..taken
    BY <1>2 DEF RegInv, Owned
  <2>2. \A u \in users' : u.by \in 1..taken' /\ u.by # taken + 1
    BY <1>1, <1>3, <2>1
  <2>3. \A v \in Thread : Checking(v)' => \A u \in users' : u.by # work'[v].number
    <3>1. \A v \in Thread : v # t /\ Checking(v)' => Checking(v) /\ work'[v].number = work[v].number
      BY <1>1, <1>2 DEF Checking, OnlyWork
    <3>2. \A v \in Thread : v # t /\ Checking(v)' => \A u \in users' : u.by # work'[v].number
      BY <1>2, <3>1 DEF RegInv, Owned
    <3> QED BY <1>1, <2>2, <3>2
  <2>4. \A v \in Thread : In(v, "select")' => \E u \in users' : u.by = by(v)' /\ u.name = name(v)'
    BY <1>2 DEF RegInv, Owned, In, by, name
  <2> QED BY <2>2, <2>3, <2>4 DEF Owned
<1>7. Unique' /\ ConflictMeansTaken' /\ OwnId'
  BY <1>2 DEF RegInv, Unique, ConflictMeansTaken, OwnId
<1> QED BY <1>4, <1>5, <1>6, <1>7 DEF RegInv

(* RegisterHandler starts.                                                   *)
LEMMA StartReg ==
    ASSUME TypeInv, RegInv, NEW t \in Thread, NEW n \in Name,
           work' \in [Thread -> Works], OnlyWork(t), work[t].step = "route",
           work'[t].step = "registering", work'[t].number = work[t].number,
           StartRegistering(t, n, work[t].number), taken' = taken
    PROVE  RegInv'
<1>1. /\ OnlyRegistering(t) /\ registering'[t].step = "check"
      /\ registering'[t].by = work[t].number /\ UNCHANGED <<users, uniqueKey, told>>
  BY StartRegisteringIs
<1>2. Numbers'
  BY DEF RegInv, Numbers, Busy, OnlyWork
<1>3. ByNumber'
  BY <1>1 DEF RegInv, ByNumber, OnlyWork, OnlyRegistering, At, by
<1>4. Owned'
  <2>1. \A u \in users' : u.by \in 1..taken'
    BY <1>1 DEF RegInv, Owned
  <2>2. \A v \in Thread : Checking(v)' => Checking(v) /\ work'[v].number = work[v].number
    BY <1>1 DEF Checking, OnlyWork, OnlyRegistering
  <2>3. \A v \in Thread : Checking(v)' => \A u \in users' : u.by # work'[v].number
    BY <1>1, <2>2 DEF RegInv, Owned
  <2>4. \A v \in Thread : In(v, "select")' => \E u \in users' : u.by = by(v)' /\ u.name = name(v)'
    BY <1>1 DEF RegInv, Owned, In, by, name, OnlyRegistering
  <2> QED BY <2>1, <2>3, <2>4 DEF Owned
<1>5. Unique' /\ ConflictMeansTaken' /\ OwnId'
  BY <1>1 DEF RegInv, Unique, ConflictMeansTaken, OwnId
<1> QED BY <1>2, <1>3, <1>4, <1>5 DEF RegInv

(* It returns, or throws.                                                    *)
LEMMA EndReg ==
    ASSUME TypeInv, RegInv, NEW t \in Thread, RegisterEnds(t)
    PROVE  RegInv'
<1>1. Finished(t) /\ work[t].step = "registering" /\ EndRegistering(t) /\ taken' = taken
  BY RegisterEndsIs
<1>2. /\ OnlyRegistering(t) /\ registering'[t].step = "none" /\ UNCHANGED <<users, uniqueKey, told>>
  BY <1>1, EndRegisteringIs
<1>3. OnlyWork(t) /\ work'[t].number = work[t].number /\ work'[t].step \in {"send", "after"}
  BY <1>1 DEF Finished
<1>4. Numbers'
  BY <1>1, <1>3 DEF RegInv, Numbers, Busy, OnlyWork
<1>5. ByNumber'
  BY <1>2, <1>3 DEF RegInv, ByNumber, OnlyWork, OnlyRegistering, At, by
<1>6. Owned'
  <2>1. \A u \in users' : u.by \in 1..taken'
    BY <1>1, <1>2 DEF RegInv, Owned
  <2>2. \A v \in Thread : Checking(v)' => Checking(v) /\ work'[v].number = work[v].number
    BY <1>2, <1>3 DEF Checking, OnlyWork, OnlyRegistering
  <2>3. \A v \in Thread : Checking(v)' => \A u \in users' : u.by # work'[v].number
    BY <1>2, <2>2 DEF RegInv, Owned
  <2>4. \A v \in Thread : In(v, "select")' => \E u \in users' : u.by = by(v)' /\ u.name = name(v)'
    BY <1>2 DEF RegInv, Owned, In, by, name, OnlyRegistering
  <2> QED BY <2>1, <2>3, <2>4 DEF Owned
<1>7. Unique' /\ ConflictMeansTaken' /\ OwnId'
  BY <1>2 DEF RegInv, Unique, ConflictMeansTaken, OwnId
<1> QED BY <1>4, <1>5, <1>6, <1>7 DEF RegInv

(* A statement that changes no row.                                          *)
LEMMA GotoReg ==
    ASSUME TypeInv, RegInv, NEW t \in Thread, UNCHANGED <<work, taken, users, uniqueKey>>,
           NEW step \in Steps, Goto(t, step),
           step \in {"check", "insert"} => registering[t].step \in {"check", "insert"},
           step # "select"
    PROVE  Numbers' /\ ByNumber' /\ Owned' /\ Unique'
<1>1. /\ OnlyRegistering(t) /\ registering'[t].step = step
      /\ registering'[t].by = by(t) /\ registering'[t].name = name(t)
  BY GotoIs
<1>2. Numbers' /\ Unique'
  BY DEF RegInv, Numbers, Busy, Unique
<1>3. ByNumber'
  BY <1>1 DEF RegInv, ByNumber, OnlyRegistering, At, by
<1>4. Owned'
  <2>1. \A u \in users' : u.by \in 1..taken'
    BY DEF RegInv, Owned
  <2>2. \A v \in Thread : Checking(v)' => Checking(v)
    BY <1>1 DEF Checking, OnlyRegistering
  <2>3. \A v \in Thread : Checking(v)' => \A u \in users' : u.by # work'[v].number
    BY <2>2 DEF RegInv, Owned
  <2>4. \A v \in Thread : In(v, "select")' => \E u \in users' : u.by = by(v)' /\ u.name = name(v)'
    BY <1>1 DEF RegInv, Owned, In, by, name, OnlyRegistering
  <2> QED BY <2>1, <2>3, <2>4 DEF Owned
<1> QED BY <1>2, <1>3, <1>4

(* INSERT: the row of one's own number.                                      *)
LEMMA InsertReg ==
    ASSUME TypeInv, RegInv, NEW t \in Thread, UNCHANGED <<work, taken>>,
           At(t, "registering"), Insert(t)
    PROVE  RegInv'
<1>1. PICK row \in [id : Nat, name : Name, by : Nat] :
              /\ row.name = name(t) /\ row.by = by(t)
              /\ users' = users \cup {row} /\ Insertable(name(t))
              /\ OnlyRegistering(t)
              /\ In(t, "insert") /\ registering'[t].step \in {"select", "failed"}
              /\ registering'[t].by = by(t) /\ registering'[t].name = name(t)
              /\ UNCHANGED <<uniqueKey, told>>
  BY InsertIs
<1>2. Busy(t) /\ by(t) = work[t].number
  BY DEF RegInv, ByNumber, At, Busy
<1>3. Numbers'
  BY DEF RegInv, Numbers, Busy
<1>4. ByNumber'
  BY <1>1 DEF RegInv, ByNumber, OnlyRegistering, At, by
<1>5. Owned'
  <2>1. \A u \in users' : u.by \in 1..taken'
    BY <1>1, <1>2 DEF RegInv, Owned, Numbers
  <2>2. \A v \in Thread : Checking(v)' => Checking(v) /\ v # t
    BY <1>1 DEF Checking, OnlyRegistering, At
  <2>3. \A v \in Thread : Checking(v) => Busy(v)
    <3>1. \A v \in Thread : registering[v].step \in {"check", "insert"} => work[v].step = "registering"
      BY DEF TypeInv, At, In
    <3> QED BY <3>1 DEF Checking, Busy
  <2>4. \A v \in Thread : Checking(v)' => row.by # work'[v].number
    BY <1>1, <1>2, <2>2, <2>3 DEF RegInv, Numbers
  <2>5. \A v \in Thread : Checking(v)' => \A u \in users : u.by # work'[v].number
    BY <2>2 DEF RegInv, Owned
  <2>6. \A v \in Thread : In(v, "select")' => \E u \in users' : u.by = by(v)' /\ u.name = name(v)'
    <3>1. ASSUME NEW v \in Thread, v # t, In(v, "select")'
          PROVE  \E u \in users' : u.by = by(v)' /\ u.name = name(v)'
      BY <1>1, <3>1 DEF RegInv, Owned, In, by, name, OnlyRegistering
    <3>2. \E u \in users' : u.by = by(t)' /\ u.name = name(t)'
      BY <1>1 DEF by, name
    <3> QED BY <3>1, <3>2
  <2> QED BY <1>1, <2>1, <2>4, <2>5, <2>6 DEF Owned
<1>6. Unique'
  <2>1. uniqueKey => \A u \in users : u.name # row.name
    BY <1>1 DEF Insertable, RowsOf
  <2> QED BY <1>1, <2>1 DEF RegInv, Unique
<1>7. ConflictMeansTaken' /\ OwnId'
  BY <1>1 DEF RegInv, ConflictMeansTaken, OwnId
<1> QED BY <1>3, <1>4, <1>5, <1>6, <1>7 DEF RegInv

LEMMA StepReg ==
    ASSUME TypeInv, RegInv, NEW t \in Thread, RegisterStep(t)
    PROVE  RegInv'
<1>1. At(t, "registering") /\ Registering(t) /\ UNCHANGED <<work, taken>>
  BY DEF RegisterStep
<1>2. by(t) = work[t].number
  BY <1>1 DEF RegInv, ByNumber
<1>3. "conflict" \in Steps /\ "insert" \in Steps /\ "registered" \in Steps /\ "failed" \in Steps
  BY DEF Steps
<1>4. CASE CheckFinds(t)
  <2>1. Numbers' /\ ByNumber' /\ Owned' /\ Unique'
    BY <1>1, <1>3, <1>4, GotoReg DEF CheckFinds
  <2>2. PICK u \in users : u.name = name(t)
    BY <1>4 DEF CheckFinds, RowsOf
  <2>3. u.by # by(t)
    BY <1>2, <1>4 DEF RegInv, Owned, Checking, CheckFinds, In
  <2> DEFINE a == [code |-> 409, name |-> name(t), by |-> by(t), id |-> 0]
  <2>4. told' = told \cup {a} /\ users' = users /\ uniqueKey' = uniqueKey
    BY <1>4 DEF CheckFinds, Tell
  <2>5. a.code = 409 /\ a.name = name(t) /\ a.by = by(t)
    OBVIOUS
  <2> HIDE DEF a
  <2>6. ConflictMeansTaken'
    BY <2>2, <2>3, <2>4, <2>5 DEF RegInv, ConflictMeansTaken
  <2>7. OwnId'
    <3>1. a.code # 200
      BY <2>5
    <3> QED BY <2>4, <3>1 DEF RegInv, OwnId
  <2> QED BY <2>1, <2>6, <2>7 DEF RegInv
<1>5. CASE CheckFindsNone(t)
  <2>1. Numbers' /\ ByNumber' /\ Owned' /\ Unique'
    BY <1>1, <1>3, <1>5, GotoReg DEF CheckFindsNone, In
  <2> QED BY <1>5, <2>1 DEF RegInv, CheckFindsNone, ConflictMeansTaken, OwnId
<1>6. CASE Insert(t)
  BY <1>1, <1>6, InsertReg
<1>7. CASE Select(t)
  <2>1. Numbers' /\ ByNumber' /\ Owned' /\ Unique'
    BY <1>1, <1>3, <1>7, GotoReg DEF Select
  <2>2. PICK u \in RowsOf(name(t)) : Tell(t, 200, u.id)
    BY <1>7 DEF Select
  <2>3. u \in users /\ u.name = name(t)
    BY DEF RowsOf
  <2>4. uniqueKey => u.by = by(t)
    BY <1>7, <2>3 DEF RegInv, Owned, Unique, Select
  <2> DEFINE a == [code |-> 200, name |-> name(t), by |-> by(t), id |-> u.id]
  <2>5. told' = told \cup {a} /\ users' = users /\ uniqueKey' = uniqueKey
    BY <1>7, <2>2 DEF Select, Tell
  <2>6. a.code = 200 /\ a.name = name(t) /\ a.by = by(t) /\ a.id = u.id
    OBVIOUS
  <2> HIDE DEF a
  <2>7. ConflictMeansTaken'
    <3>1. a.code # 409
      BY <2>6
    <3> QED BY <2>5, <3>1 DEF RegInv, ConflictMeansTaken
  <2>8. OwnId'
    BY <2>3, <2>4, <2>5, <2>6 DEF RegInv, OwnId
  <2> QED BY <2>1, <2>7, <2>8 DEF RegInv
<1>8. CASE StatementFails(t)
  <2>1. Numbers' /\ ByNumber' /\ Owned' /\ Unique'
    BY <1>1, <1>3, <1>8, GotoReg DEF StatementFails
  <2> QED BY <1>8, <2>1 DEF RegInv, StatementFails, ConflictMeansTaken, OwnId
<1> QED BY <1>1, <1>4, <1>5, <1>6, <1>7, <1>8 DEF Registering

LEMMA RegInit == Init => RegInv
<1> SUFFICES ASSUME Init PROVE RegInv
  OBVIOUS
<1>1. work = [t \in Thread |-> Idle] /\ Idle.step = "idle" /\ users = {} /\ told = {}
  BY DEF Init, RegistrationInit, Idle
<1>2. registering = [t \in Thread |-> NotRegistering] /\ NotRegistering.step = "none"
  BY DEF Init, RegistrationInit, NotRegistering
<1> QED BY <1>1, <1>2 DEF RegInv, Numbers, ByNumber, Owned, Unique, ConflictMeansTaken, OwnId,
                          Busy, At, In

LEMMA RegStep == TypeInv /\ RegInv /\ [Next]_vars => RegInv'
<1> SUFFICES ASSUME TypeInv, RegInv, [Next]_vars PROVE RegInv'
  OBVIOUS
<1>1. ASSUME UNCHANGED <<registrationVars, work, taken>> PROVE RegInv'
  BY <1>1 DEF RegInv, Numbers, ByNumber, Owned, Unique, ConflictMeansTaken, OwnId,
              registrationVars, Busy, Checking, At, In, by, name
<1>2. CASE UNCHANGED vars
  BY <1>1, <1>2 DEF vars, serverVars
<1>3. CASE Declare
  BY <1>1, <1>3 DEF Declare, serverVars
<1>4. CASE Start
  BY <1>1, <1>4 DEF Start
<1>5. ASSUME NEW t \in Thread, Handle(t) PROVE RegInv'
  <2>1. ASSUME Finished(t), work[t].step = "route", UNCHANGED <<registrationVars, taken>> PROVE RegInv'
    BY <2>1, QuietReg DEF Finished, Busy
  <2>2. CASE Refuse(t)
    BY <2>2, RefuseIs, QuietReg DEF Busy
  <2>3. CASE Pass(t)
    BY <2>3, PassIs, QuietReg DEF Busy
  <2>4. CASE RouteNone(t)
    BY <2>1, <2>4, RouteNoneIs
  <2>5. CASE RouteHandler(t)
    BY <2>1, <2>5, RouteHandlerIs
  <2>6. CASE RouteRegister(t)
    <3>1. CASE Finished(t) /\ UNCHANGED registrationVars
      BY <2>1, <2>6, <3>1, RouteRegisterIs
    <3>2. ASSUME NEW n \in Name, work' \in [Thread -> Works], OnlyWork(t),
                 work'[t].step = "registering", work'[t].number = work[t].number,
                 StartRegistering(t, n, work[t].number)
          PROVE  RegInv'
      BY <2>6, <3>2, RouteRegisterIs, StartReg
    <3> QED BY <2>6, <3>1, <3>2, RouteRegisterIs
  <2>7. CASE After(t)
    BY <2>7, AfterIs, QuietReg DEF Busy
  <2>8. CASE Send(t)
    <3>1. /\ work' \in [Thread -> Works] /\ OnlyWork(t)
          /\ work[t].step = "send" /\ work'[t].step = "idle"
          /\ UNCHANGED <<registrationVars, taken>>
      BY <2>8, SendIs
    <3>2. /\ work'[t].step # "registering" /\ work[t].step # "registering"
          /\ work'[t].step \notin {"before", "route"}
      BY <3>1
    <3>3. work'[t].step = "idle" \/ (Busy(t) /\ work'[t].number = work[t].number)
      BY <3>1
    <3>4. work'[t].step \in {"before", "route"} => work[t].step \in {"before", "route"}
      BY <3>2
    <3> QED BY <3>1, <3>2, <3>3, <3>4, QuietReg
  <2> QED BY <1>5, <2>2, <2>3, <2>4, <2>5, <2>6, <2>7, <2>8, StepReg, EndReg DEF Handle
<1>6. ASSUME NEW t \in Thread, NEW req \in config.asked, NEW close \in BOOLEAN, Take(t, req, close)
      PROVE  RegInv'
  BY <1>6, TakeReg
<1> QED BY <1>2, <1>3, <1>4, <1>5, <1>6 DEF Next

(* A client is told 409 only for a name that an earlier request has taken.   *)
THEOREM ConflictCorrect == Spec => []ConflictMeansTaken
<1>1. RegInv => ConflictMeansTaken
  BY DEF RegInv
<1> QED BY <1>1, RegInit, RegStep, Typed, PTL DEF Spec

(* With a unique key, a client is told the id of its own row.                *)
THEOREM OwnIdCorrect == Spec => []OwnId
<1>1. RegInv => OwnId
  BY DEF RegInv
<1> QED BY <1>1, RegInit, RegStep, Typed, PTL DEF Spec

-----------------------------------------------------------------------------
(* Rows of a name, and the inserts of it that are under way: the first of    *)
(* them all was decided when there was no row.                               *)
Inserting(n) == {t \in Thread : In(t, "insert") /\ name(t) = n}
Bounded(n) == Cardinality(RowsOf(n)) + Cardinality(Inserting(n)) <= Cardinality(Thread)
RowsInv == \A n \in Name : Bounded(n)

LEMMA Sizes ==
    ASSUME TypeInv, NEW n \in Name
    PROVE  /\ IsFiniteSet(RowsOf(n)) /\ IsFiniteSet(Inserting(n)) /\ IsFiniteSet(Thread)
           /\ Cardinality(RowsOf(n)) \in Nat /\ Cardinality(Inserting(n)) \in Nat
           /\ Cardinality(Thread) \in Nat
           /\ Cardinality(Inserting(n)) <= Cardinality(Thread)
<1>1. RowsOf(n) \subseteq users /\ Inserting(n) \subseteq Thread
  BY DEF RowsOf, Inserting
<1>2. IsFiniteSet(users) /\ IsFiniteSet(Thread)
  BY RegistrationAssumption DEF RegistrationAssumption, TypeInv
<1> QED BY <1>1, <1>2, FS_Subset, FS_CardinalityType

LEMMA Fewer ==
    ASSUME TypeInv, TypeInv', RowsInv, users' = users,
           \A t \in Thread : In(t, "insert")' => In(t, "insert") /\ name(t)' = name(t)
    PROVE  RowsInv'
<1> SUFFICES ASSUME NEW n \in Name PROVE Bounded(n)'
  BY DEF RowsInv
<1>1. RowsOf(n)' = RowsOf(n) /\ Inserting(n)' \subseteq Inserting(n)
  BY DEF RowsOf, Inserting
<1>2. Cardinality(Inserting(n)') <= Cardinality(Inserting(n))
  BY <1>1, Sizes, FS_Subset
<1>3. Cardinality(Inserting(n)') \in Nat
  BY <1>1, Sizes, FS_Subset, FS_CardinalityType
<1>4. Bounded(n)
  BY DEF RowsInv
<1> QED BY <1>1, <1>2, <1>3, <1>4, Sizes DEF Bounded

LEMMA CheckedRows ==
    ASSUME TypeInv, TypeInv', RowsInv, NEW t \in Thread, CheckFindsNone(t)
    PROVE  RowsInv'
<1> SUFFICES ASSUME NEW n \in Name PROVE Bounded(n)'
  BY DEF RowsInv
<1>1. users' = users /\ RowsOf(name(t)) = {} /\ Goto(t, "insert")
  BY DEF CheckFindsNone
<1>2. OnlyRegistering(t) /\ registering'[t].name = name(t)
  BY <1>1, GotoIs DEF Steps
<1>3. CASE n = name(t)
  <2>1. RowsOf(n)' = {} /\ Inserting(n)' \subseteq Thread
    BY <1>1, <1>3 DEF RowsOf, Inserting
  <2>2. Cardinality(RowsOf(n)') = 0
    BY <2>1, FS_EmptySet
  <2>3. Cardinality(Inserting(n)') <= Cardinality(Thread) /\ Cardinality(Inserting(n)') \in Nat
    BY <2>1, Sizes, FS_Subset, FS_CardinalityType
  <2> QED BY <2>2, <2>3, Sizes DEF Bounded
<1>4. CASE n # name(t)
  <2>1. RowsOf(n)' = RowsOf(n)
    BY <1>1 DEF RowsOf
  <2>2. Inserting(n)' \subseteq Inserting(n)
    BY <1>2, <1>4 DEF Inserting, OnlyRegistering, In, name
  <2>3. Cardinality(Inserting(n)') <= Cardinality(Inserting(n)) /\ Cardinality(Inserting(n)') \in Nat
    BY <2>2, Sizes, FS_Subset, FS_CardinalityType
  <2>4. Bounded(n)
    BY DEF RowsInv
  <2> QED BY <2>1, <2>3, <2>4, Sizes DEF Bounded
<1> QED BY <1>3, <1>4

LEMMA InsertRows ==
    ASSUME TypeInv, TypeInv', RowsInv, NEW t \in Thread, Insert(t)
    PROVE  RowsInv'
<1> SUFFICES ASSUME NEW n \in Name PROVE Bounded(n)'
  BY DEF RowsInv
<1>1. PICK row \in [id : Nat, name : Name, by : Nat] :
              /\ row.name = name(t) /\ users' = users \cup {row}
              /\ OnlyRegistering(t) /\ In(t, "insert")
              /\ registering'[t].step \in {"select", "failed"}
  BY InsertIs
<1>2. Bounded(n)
  BY DEF RowsInv
<1>3. CASE n = name(t)
  <2>1. RowsOf(n)' = RowsOf(n) \cup {row} /\ t \in Inserting(n)
    BY <1>1, <1>3 DEF RowsOf, Inserting
  <2>2. Inserting(n)' = Inserting(n) \ {t}
    BY <1>1 DEF Inserting, OnlyRegistering, In, name
  <2>3. /\ Cardinality(RowsOf(n)') \in Nat
        /\ Cardinality(RowsOf(n)') <= Cardinality(RowsOf(n)) + 1
    <3> DEFINE R == RowsOf(n)
    <3>1. IsFiniteSet(R) /\ Cardinality(R) \in Nat
      BY Sizes
    <3>2. RowsOf(n)' = R \cup {row}
      BY <2>1
    <3> HIDE DEF R
    <3>3. /\ IsFiniteSet(R \cup {row})
          /\ Cardinality(R \cup {row}) = Cardinality(R) \/ Cardinality(R \cup {row}) = Cardinality(R) + 1
      BY <3>1, FS_AddElement
    <3> QED BY <3>1, <3>2, <3>3 DEF R
  <2>4. Cardinality(Inserting(n)') = Cardinality(Inserting(n)) - 1
    BY <2>1, <2>2, Sizes, FS_RemoveElement
  <2> QED BY <1>2, <2>3, <2>4, Sizes DEF Bounded
<1>4. CASE n # name(t)
  <2>1. RowsOf(n)' = RowsOf(n)
    BY <1>1, <1>4 DEF RowsOf
  <2>2. Inserting(n)' = Inserting(n)
    BY <1>1, <1>4 DEF Inserting, OnlyRegistering, In, name
  <2> QED BY <1>2, <2>1, <2>2 DEF Bounded
<1> QED BY <1>3, <1>4

LEMMA RowsStep == TypeInv /\ TypeInv' /\ RowsInv /\ [Next]_vars => RowsInv'
<1> SUFFICES ASSUME TypeInv, TypeInv', RowsInv, [Next]_vars PROVE RowsInv'
  OBVIOUS
<1>1. ASSUME UNCHANGED registrationVars PROVE RowsInv'
  BY <1>1, Fewer DEF registrationVars, In, name
<1>2. CASE UNCHANGED vars
  BY <1>1, <1>2 DEF vars
<1>3. CASE Declare \/ Start
  BY <1>1, <1>3 DEF Declare, Start
<1>4. ASSUME NEW t \in Thread, NEW req \in config.asked, NEW close \in BOOLEAN, Take(t, req, close)
      PROVE  RowsInv'
  BY <1>1, <1>4 DEF Take
<1>5. ASSUME NEW t \in Thread, NEW step \in Steps, step # "insert", users' = users, Goto(t, step)
      PROVE  RowsInv'
  <2>1. OnlyRegistering(t) /\ registering'[t].step = step
    BY <1>5, GotoIs
  <2> QED BY <1>5, <2>1, Fewer DEF OnlyRegistering, In, name
<1>6. ASSUME NEW t \in Thread, RouteRegister(t) PROVE RowsInv'
  <2>1. ASSUME NEW n \in Name, StartRegistering(t, n, work[t].number) PROVE RowsInv'
    <3>1. OnlyRegistering(t) /\ registering'[t].step = "check" /\ users' = users
      BY <2>1, StartRegisteringIs
    <3> QED BY <3>1, Fewer DEF OnlyRegistering, In, name
  <2> QED BY <1>1, <1>6, <2>1 DEF RouteRegister
<1>7. ASSUME NEW t \in Thread, RegisterEnds(t) PROVE RowsInv'
  <2>1. OnlyRegistering(t) /\ registering'[t].step = "none" /\ users' = users
    BY <1>7, EndRegisteringIs DEF RegisterEnds
  <2> QED BY <2>1, Fewer DEF OnlyRegistering, In, name
<1>8. ASSUME NEW t \in Thread, RegisterStep(t) PROVE RowsInv'
  <2>1. "conflict" \in Steps /\ "registered" \in Steps /\ "failed" \in Steps
    BY DEF Steps
  <2>2. CASE CheckFinds(t)
    BY <1>5, <2>1, <2>2 DEF CheckFinds
  <2>3. CASE Select(t)
    BY <1>5, <2>1, <2>3 DEF Select
  <2>4. CASE StatementFails(t)
    BY <1>5, <2>1, <2>4 DEF StatementFails
  <2> QED BY <1>8, <2>2, <2>3, <2>4, CheckedRows, InsertRows DEF RegisterStep, Registering
<1>9. ASSUME NEW t \in Thread, Handle(t) PROVE RowsInv'
  BY <1>1, <1>6, <1>7, <1>8, <1>9
     DEF Handle, Refuse, Pass, RouteNone, RouteHandler, After, Send
<1> QED BY <1>2, <1>3, <1>4, <1>9 DEF Next

(* However many requests ask for a name, it gets no more rows than there are *)
(* threads.                                                                  *)
THEOREM RowsCorrect == Spec => []OneRowPerThread
<1>1. Init => RowsInv
  <2> SUFFICES ASSUME Init, NEW n \in Name PROVE Bounded(n)
    BY DEF RowsInv
  <2>1. users = {} /\ registering = [t \in Thread |-> NotRegistering] /\ NotRegistering.step = "none"
    BY DEF Init, RegistrationInit, NotRegistering
  <2>2. RowsOf(n) = {} /\ Inserting(n) = {}
    BY <2>1 DEF RowsOf, Inserting, In
  <2>3. Cardinality(Thread) \in Nat
    BY RegistrationAssumption, FS_CardinalityType DEF RegistrationAssumption
  <2> QED BY <2>2, <2>3, FS_EmptySet DEF Bounded
<1>2. TypeInv /\ RowsInv => OneRowPerThread
  <2> SUFFICES ASSUME TypeInv, RowsInv, NEW n \in Name
               PROVE  Cardinality(RowsOf(n)) <= Cardinality(Thread)
    BY DEF OneRowPerThread
  <2>1. Bounded(n)
    BY DEF RowsInv
  <2> QED BY <2>1, Sizes DEF Bounded
<1> QED BY <1>1, <1>2, Typed, RowsStep, PTL DEF Spec
=============================================================================
