--------------------------- MODULE HttpStream_proofs ---------------------------
(***************************************************************************)
(* Proof that the server stays in step with the client's stream, for any   *)
(* number of requests and however TCP cuts them: the next token it reads   *)
(* between two requests is the first of one, or what parseMultipartData    *)
(* leaves of an upload's last boundary, or the body of a method that has   *)
(* none.  What follows: which bodies are whole, who is never refused.      *)
(***************************************************************************)
EXTENDS HttpConnection_proofs

-----------------------------------------------------------------------------
(* What a request looks like: m tokens of head, the blank line, the body.    *)
(* Its length, if it has one, fits its body: there is none, or it is         *)
(* counted, or more than can ever come; or the body is a multipart.  Only in *)
(* an upload does a second boundary end the first part.                      *)
Bounds == {"boundary", "closing"}
IsMultipart(w, m) == \E j \in 2..m : w[j].kind = "multipart"
BodyFits(w, m, n) ==
    \/ n = Unreachable
    \/ n = Len(w) - (m + 1) /\ ~IsMultipart(w, m)
    \/ IsMultipart(w, m)
LengthFits(w, m, n) ==
    \/ n = 0 /\ Len(w) = m + 1
    \/ n > 0 /\ Len(w) > m + 1 /\ BodyFits(w, m, n)
Fits(w, m) ==
    /\ m \in 1..Len(w) - 1 /\ w[m + 1].kind = "blank" /\ w[1].kind \in Starts
    /\ \A i \in 1..Len(w) : w[i].kind \in Lead <=> i <= m
    /\ \A i \in 2..Len(w) : w[i].kind \notin Starts
    /\ w[1].kind = "GET" => \A i \in m + 2..Len(w) : w[i].kind = "data"
    /\ \A i, j \in 2..m : SameName(w[i], w[j]) => i = j
    /\ \A i \in 2..m : w[i].kind = "length" => LengthFits(w, m, w[i].n)

IsWire(w, id) ==
    /\ w \in Seq(TokenType) /\ Len(w) <= 10 /\ \A i \in 1..Len(w) : w[i].id = id
    /\ \E m : Fits(w, m)
Unended(w) ==
    \A i, j \in 1..Len(w) : w[i].kind \in Bounds /\ w[j].kind \in Bounds => i = j

Bodiless(w) == w[1].kind = "GET" => \A i \in 1..Len(w) : w[i].kind # "data"

(* A request that the parser accepts: it starts with a method, a POST tells  *)
(* its length, and there is no multipart.                                    *)
IsPlain(w) ==
    /\ w[1].kind \in {"GET", "POST"}
    /\ w[1].kind = "POST" => \E j \in 1..Len(w) : w[j].kind = "length"
    /\ \A i \in 1..Len(w) : w[i].kind \notin {"badlength", "junk", "multipart"}

(* A request that tells no length, or none that the parser can find.         *)
LEMMA ShortFits ==
    ASSUME NEW id \in 0..MaxRequests, NEW m \in {1, 2}, NEW q \in {2, 3}, q = m + 1,
           NEW r \in 2..5, q <= r,
           NEW k \in Seq(TokenKinds), Len(k) = r, k[q] = "blank", k[1] \in Starts,
           m = 2 => k[2] \in {"badlength", "lowerLength", "junk"},
           \A i \in q + 1..r : k[i] = "data"
    PROVE  /\ IsWire(Tokens(k, id), id) /\ Unended(Tokens(k, id))
           /\ r = q \/ k[1] # "GET" => Bodiless(Tokens(k, id))
           /\ m = 1 /\ k[1] = "GET" => IsPlain(Tokens(k, id))
<1> DEFINE w == Tokens(k, id)
<1>1. w \in Seq(TokenType) /\ Len(w) = r /\ \A i \in 1..r : w[i].kind = k[i] /\ w[i].id = id
  BY TokensIs DEF Tokenwise
<1> HIDE DEF w
<1>2. "blank" \notin Lead /\ "data" \notin Lead /\ "badlength" \in Lead /\ "lowerLength" \in Lead
      /\ "junk" \in Lead /\ k[1] \in Lead
  BY DEF Lead, Starts
<1>3. "blank" \notin Starts /\ "data" \notin Starts /\ "badlength" \notin Starts
      /\ "lowerLength" \notin Starts /\ "junk" \notin Starts
  BY DEF Starts
<1>4. \A i \in 1..r : i = m + 1 \/ i = 1 \/ (m = 2 /\ i = 2) \/ i \in q + 1..r
  OBVIOUS
<1>5. ASSUME NEW i \in 1..Len(w) PROVE w[i].kind \in Lead <=> i <= m
  <2>1. CASE i \in q + 1..r
    BY <1>1, <1>2, <2>1
  <2>2. CASE i \notin q + 1..r
    BY <1>1, <1>2, <1>4, <2>2
  <2> QED BY <2>1, <2>2
<1>6. ASSUME NEW i \in 2..Len(w) PROVE w[i].kind \notin Starts
  <2>1. i \in 1..r /\ i # 1
    BY <1>1
  <2>2. w[i].kind = k[i] /\ (i = q \/ (m = 2 /\ i = 2) \/ i \in q + 1..r)
    BY <1>1, <1>4, <2>1
  <2> QED BY <1>3, <2>2
<1>7. \A i, j \in 2..m : i = j
  OBVIOUS
<1>8. \A i \in 2..m : w[i].kind # "length"
  BY <1>1
<1>9. Fits(w, m)
  <2>1. m \in 1..Len(w) - 1 /\ w[m + 1].kind = "blank" /\ w[1].kind \in Starts
    BY <1>1
  <2>2. \A i \in m + 2..Len(w) : w[i].kind = "data"
    BY <1>1
  <2> QED BY <1>5, <1>6, <1>7, <1>8, <2>1, <2>2 DEF Fits
<1>10. \A i \in 1..Len(w) : w[i].kind \notin Bounds
  <2>1. Starts \cap Bounds = {} /\ "blank" \notin Bounds /\ "badlength" \notin Bounds
        /\ "lowerLength" \notin Bounds /\ "junk" \notin Bounds /\ "data" \notin Bounds
    BY DEF Starts, Bounds
  <2> QED BY <1>1, <1>4, <2>1
<1>11. m = 1 /\ k[1] = "GET" => IsPlain(w)
  BY <1>1, <1>4 DEF IsPlain
<1>12. ASSUME r = q, k[1] = "GET" PROVE Bodiless(w)
  <2>1. ASSUME NEW i \in 1..Len(w) PROVE w[i].kind # "data"
    <3>1. w[i].kind = k[i] /\ (i = q \/ i = 1 \/ (m = 2 /\ i = 2))
      BY <1>1, <1>4, <1>12
    <3> QED BY <1>12, <3>1
  <2> QED BY <2>1 DEF Bodiless
<1>13. k[1] # "GET" => Bodiless(w)
  BY <1>1 DEF Bodiless
<1> QED BY <1>1, <1>9, <1>10, <1>11, <1>12, <1>13 DEF w, IsWire, Unended

(* One that does: a line, perhaps the type of its body, the length, a blank  *)
(* line, and the body.                                                       *)
LEMMA LongFits ==
    ASSUME NEW id \in 0..MaxRequests, NEW n \in Nat,
           NEW k \in Seq(TokenKinds), NEW q \in {1, 2}, Len(k) = q,
           k[1] \in {"GET", "POST"}, q = 2 => k[2] = "multipart",
           NEW l \in Seq(TokenKinds), NEW r \in 1..7, Len(l) = r,
           l[1] = "blank", \A i \in 1..r : l[i] \notin Lead,
           \/ n = 0 /\ r = 1
           \/ /\ n > 0 /\ r > 1
              /\ n = Unreachable \/ (n = r - 1 /\ q = 1) \/ q = 2,
           k[1] = "GET" => \A i \in 2..r : l[i] = "data",
           NEW v, v = Tokens(k, id) \o <<Length(n, id)>> \o Tokens(l, id)
    PROVE  /\ IsWire(v, id)
           /\ (\A j \in 3..r : l[j] \notin Bounds) => Unended(v)
           /\ k[1] # "GET" => Bodiless(v)
           /\ q = 1 => IsPlain(v)
<1> DEFINE a == Tokens(k, id)
           c == <<Length(n, id)>>
           b == Tokens(l, id)
           h == a \o c
           w == h \o b
           m == q + 1
<1>1. a \in Seq(TokenType) /\ Len(a) = q /\ \A i \in 1..q : a[i].kind = k[i] /\ a[i].id = id
  BY TokensIs DEF Tokenwise
<1>2. b \in Seq(TokenType) /\ Len(b) = r /\ \A i \in 1..r : b[i].kind = l[i] /\ b[i].id = id
  BY TokensIs DEF Tokenwise
<1>3. c \in Seq(TokenType) /\ Len(c) = 1 /\ c[1].kind = "length" /\ c[1].id = id /\ c[1].n = n
  BY LengthIs DEF Tokenwise, Length
<1> HIDE DEF a, b, c
<1>4. /\ h \in Seq(TokenType) /\ Len(h) = m
      /\ \A i \in 1..m : h[i] = IF i <= q THEN a[i] ELSE c[i - q]
  <2>1. a \in Seq(TokenType) /\ c \in Seq(TokenType)
    BY <1>1, <1>3
  <2>2. /\ h \in Seq(TokenType) /\ Len(h) = Len(a) + Len(c)
        /\ \A i \in 1..Len(a) + Len(c) : h[i] = IF i <= Len(a) THEN a[i] ELSE c[i - Len(a)]
    BY <2>1, ConcatProperties
  <2> HIDE DEF h
  <2>3. Len(a) = q /\ Len(c) = 1
    BY <1>1, <1>3
  <2> QED BY <2>2, <2>3
<1> HIDE DEF h
<1>5. /\ w \in Seq(TokenType) /\ Len(w) = m + r
      /\ \A i \in 1..m + r : w[i] = IF i <= m THEN h[i] ELSE b[i - m]
  <2>1. h \in Seq(TokenType) /\ b \in Seq(TokenType)
    BY <1>2, <1>4
  <2>2. /\ w \in Seq(TokenType) /\ Len(w) = Len(h) + Len(b)
        /\ \A i \in 1..Len(h) + Len(b) : w[i] = IF i <= Len(h) THEN h[i] ELSE b[i - Len(h)]
    BY <2>1, ConcatProperties
  <2> HIDE DEF w
  <2>3. Len(h) = m /\ Len(b) = r
    BY <1>2, <1>4
  <2> QED BY <2>2, <2>3
<1> HIDE DEF w
<1>6. \A i \in 1..q : i \in 1..m + r /\ w[i].kind = k[i] /\ w[i].id = id
  BY <1>1, <1>4, <1>5
<1>7. m \in 1..m + r /\ w[m].kind = "length" /\ w[m].n = n /\ w[m].id = id
  <2>1. m \in Nat /\ m >= 1 /\ m - q = 1 /\ ~(m <= q)
    OBVIOUS
  <2> HIDE DEF m
  <2>2. m \in 1..m + r /\ m \in 1..m
    BY <2>1
  <2>3. w[m] = h[m]
    BY <1>5, <2>1, <2>2
  <2>4. h[m] = c[1]
    BY <1>4, <2>1, <2>2
  <2> QED BY <1>3, <2>2, <2>3, <2>4
<1>8. m = q + 1 /\ (m = 2 \/ m = 3)
  OBVIOUS
<1> HIDE DEF m
<1>9. ASSUME NEW i \in 1..m + r, ~(i <= m) PROVE i - m \in 1..r /\ w[i].kind = l[i - m] /\ w[i].id = id
  <2>1. i - m \in 1..r
    BY <1>8, <1>9
  <2>2. w[i] = b[i - m]
    BY <1>5, <1>9
  <2> QED BY <1>2, <2>1, <2>2
<1>10. \A i \in 1..m : i \in 1..q \/ i = m
  BY <1>8
<1>11. \A i \in 1..Len(w) : w[i].id = id
  BY <1>5, <1>6, <1>7, <1>8, <1>9, <1>10
<1>12. \A i \in 1..Len(w) : w[i].kind \in Lead <=> i <= m
  <2>1. "GET" \in Lead /\ "POST" \in Lead /\ "multipart" \in Lead /\ "length" \in Lead
    BY DEF Lead, Starts
  <2>2. ASSUME NEW i \in 1..Len(w), i <= m PROVE w[i].kind \in Lead
    <3>1. \A j \in 1..q : j = 1 \/ (q = 2 /\ j = 2)
      OBVIOUS
    <3>2. i \in 1..m
      BY <1>8, <2>2
    <3> QED BY <1>6, <1>7, <1>10, <2>1, <3>1, <3>2
  <2>3. ASSUME NEW i \in 1..Len(w), ~(i <= m) PROVE w[i].kind \notin Lead
    BY <1>5, <1>9, <2>3
  <2>4. SUFFICES ASSUME NEW i \in 1..Len(w) PROVE w[i].kind \in Lead <=> i <= m
    OBVIOUS
  <2>5. CASE i <= m
    BY <2>2, <2>5
  <2>6. CASE ~(i <= m)
    BY <2>3, <2>6
  <2> QED BY <2>5, <2>6
<1>13. w[1].kind = k[1] /\ (m = 3 => w[2].kind = "multipart")
  BY <1>6, <1>8
<1>14. w[m + 1].kind = "blank"
  <2>1. PICK i \in 1..m + r : i = m + 1
    BY <1>8
  <2>2. ~(i <= m) /\ i - m = 1
    BY <1>8, <2>1
  <2>3. w[i].kind = l[i - m]
    BY <1>9, <2>2
  <2> QED BY <2>1, <2>2, <2>3
<1>15. \A i \in 2..m : i = m \/ (m = 3 /\ i = 2)
  BY <1>8
<1>16. \A i \in 2..Len(w) : w[i].kind \notin Starts
  <2>1. Starts \subseteq Lead /\ "multipart" \notin Starts /\ "length" \notin Starts
    BY DEF Lead, Starts
  <2>2. ASSUME NEW i \in 2..Len(w) PROVE w[i].kind \notin Starts
    <3>1. CASE i <= m
      <4>1. i \in 2..m
        BY <1>8, <3>1
      <4> QED BY <1>7, <1>13, <1>15, <2>1, <4>1
    <3>2. CASE ~(i <= m)
      <4>1. i \in 1..Len(w)
        OBVIOUS
      <4> QED BY <1>12, <2>1, <3>2, <4>1
    <3> QED BY <3>1, <3>2
  <2> QED BY <2>2
<1>17. \A i, j \in 2..m : SameName(w[i], w[j]) => i = j
  <2>1. m = 3 => ~SameName(w[2], w[3]) /\ ~SameName(w[3], w[2])
    BY <1>7, <1>13 DEF SameName
  <2> QED BY <1>15, <2>1
<1>18. IsMultipart(w, m) <=> q = 2
  <2>1. \A j \in 2..m : w[j].kind = "multipart" => j # m
    BY <1>7
  <2>2. ASSUME m = 3 PROVE IsMultipart(w, m)
    <3>1. 2 \in 2..m /\ w[2].kind = "multipart"
      BY <1>13, <2>2
    <3> QED BY <3>1 DEF IsMultipart
  <2>3. ASSUME IsMultipart(w, m) PROVE m = 3
    BY <1>15, <2>1, <2>3 DEF IsMultipart
  <2> QED BY <1>8, <2>2, <2>3
<1>19. LengthFits(w, m, n)
  <2>1. (r = 1 => Len(w) = m + 1) /\ (r > 1 => Len(w) > m + 1) /\ r - 1 = Len(w) - (m + 1)
    BY <1>5, <1>8
  <2>2. q = 1 => ~IsMultipart(w, m)
    BY <1>18
  <2> QED BY <1>18, <2>1, <2>2 DEF LengthFits, BodyFits
<1>20. Fits(w, m)
  <2>1. m \in 1..Len(w) - 1
    BY <1>5, <1>8
  <2>2. \A i \in 2..m : w[i].kind = "length" => LengthFits(w, m, w[i].n)
    BY <1>7, <1>13, <1>15, <1>19
  <2>3. w[1].kind \in Starts
    BY <1>13 DEF Starts
  <2>4. ASSUME w[1].kind = "GET", NEW i \in m + 2..Len(w) PROVE w[i].kind = "data"
    <3>1. i \in 1..m + r /\ ~(i <= m) /\ i - m \in 2..r
      BY <1>5, <1>8
    <3> QED BY <1>9, <1>13, <2>4, <3>1
  <2> QED BY <1>12, <1>14, <1>16, <1>17, <2>1, <2>2, <2>3, <2>4 DEF Fits
<1>21. Len(w) <= 10
  BY <1>5, <1>8
<1>22. ASSUME \A j \in 3..r : l[j] \notin Bounds PROVE Unended(w)
  <2>1. ASSUME NEW i \in 1..Len(w), w[i].kind \in Bounds PROVE i = m + 2
    <3>1. ~(i <= m)
      <4>1. Lead \cap Bounds = {}
        BY DEF Lead, Starts, Bounds
      <4> QED BY <1>12, <2>1, <4>1
    <3>2. i - m \in 1..r /\ w[i].kind = l[i - m]
      BY <1>5, <1>9, <3>1
    <3>3. i - m # 1
      <4>1. "blank" \notin Bounds
        BY DEF Bounds
      <4> QED BY <2>1, <3>2, <4>1
    <3>4. i - m \notin 3..r
      BY <1>22, <2>1, <3>2
    <3> QED BY <1>8, <3>2, <3>3, <3>4
  <2> QED BY <2>1 DEF Unended
<1>23. \A i \in 1..Len(w) : \/ w[i].kind \in {"GET", "POST", "length"}
                            \/ q = 2 /\ w[i].kind = "multipart"
                            \/ w[i].kind \notin Lead
  <2>1. ASSUME NEW i \in 1..Len(w), i <= m
        PROVE  w[i].kind \in {"GET", "POST", "length"} \/ (q = 2 /\ w[i].kind = "multipart")
    <3>1. i = 1 \/ i \in 2..m
      BY <1>5, <1>8, <2>1
    <3> QED BY <1>7, <1>8, <1>13, <1>15, <3>1
  <2> QED BY <1>12, <2>1
<1>24. q = 1 => IsPlain(w)
  <2>1. "badlength" \in Lead /\ "junk" \in Lead /\ "multipart" \in Lead
    BY DEF Lead
  <2>2. \E j \in 1..Len(w) : w[j].kind = "length"
    BY <1>5, <1>7
  <2>3. q = 1 => \A i \in 1..Len(w) : w[i].kind \notin {"badlength", "junk", "multipart"}
    BY <1>23, <2>1
  <2> QED BY <1>13, <2>2, <2>3 DEF IsPlain
<1>25. k[1] # "GET" => Bodiless(w)
  BY <1>13 DEF Bodiless
<1> QED BY <1>5, <1>11, <1>20, <1>21, <1>22, <1>24, <1>25 DEF w, h, a, b, c, IsWire

(* Each request is one of the two.                                           *)
LEMMA WireFits ==
    ASSUME NEW kind \in Kinds, NEW id \in 0..MaxRequests
    PROVE  /\ IsWire(Wire(kind, id), id)
           /\ kind # "upload" => Unended(Wire(kind, id))
           /\ kind # "getBody" => Bodiless(Wire(kind, id))
           /\ kind \in Plain \cup {"getBody"} => IsPlain(Wire(kind, id))
<1>1. kind \in RequestKinds /\ MaxRequests \in Nat /\ Plain = {"get", "post", "emptyPost"}
  BY ConnectionAssumption DEF ConnectionAssumption, Plain
<1> DEFINE Whole(w) == IsWire(w, id) /\ Unended(w) /\ Bodiless(w)
<1>2. /\ \A k \in Seq(TokenKinds) : Len(k) = 2 /\ k[2] = "blank" /\ k[1] \in Starts =>
            Whole(Tokens(k, id)) /\ (k[1] = "GET" => IsPlain(Tokens(k, id)))
      /\ \A k \in Seq(TokenKinds) : Len(k) = 3 /\ k[3] = "blank" /\ k[1] \in Starts
            /\ k[2] \in {"badlength", "junk"} => Whole(Tokens(k, id))
      /\ \A k \in Seq(TokenKinds) : Len(k) = 5 /\ k[3] = "blank" /\ k[1] = "POST"
            /\ k[2] = "lowerLength" /\ k[4] = "data" /\ k[5] = "data" => Whole(Tokens(k, id))
  <2>1. ASSUME NEW k \in Seq(TokenKinds), Len(k) = 2, k[2] = "blank", k[1] \in Starts
        PROVE  Whole(Tokens(k, id)) /\ (k[1] = "GET" => IsPlain(Tokens(k, id)))
    <3>1. PICK m \in {1, 2}, q \in {2, 3}, l \in 2..5 : m = 1 /\ q = 2 /\ l = 2
      OBVIOUS
    <3>2. q = m + 1 /\ q <= l /\ Len(k) = l /\ k[q] = "blank" /\ ~(m = 2) /\ \A i \in q + 1..l : k[i] = "data"
      BY <2>1, <3>1
    <3> QED BY <2>1, <3>1, <3>2, ShortFits
  <2>2. ASSUME NEW k \in Seq(TokenKinds), Len(k) = 3, k[3] = "blank", k[1] \in Starts,
               k[2] \in {"badlength", "junk"}
        PROVE  Whole(Tokens(k, id))
    <3>1. PICK m \in {1, 2}, q \in {2, 3}, l \in 2..5 : m = 2 /\ q = 3 /\ l = 3
      OBVIOUS
    <3>2. q = m + 1 /\ q <= l /\ Len(k) = l /\ k[q] = "blank" /\ \A i \in q + 1..l : k[i] = "data"
      BY <2>2, <3>1
    <3> QED BY <2>2, <3>1, <3>2, ShortFits
  <2>3. ASSUME NEW k \in Seq(TokenKinds), Len(k) = 5, k[3] = "blank", k[1] = "POST",
               k[2] = "lowerLength", k[4] = "data", k[5] = "data"
        PROVE  Whole(Tokens(k, id))
    <3>1. PICK m \in {1, 2}, q \in {2, 3}, l \in 2..5 : m = 2 /\ q = 3 /\ l = 5
      OBVIOUS
    <3>2. q = m + 1 /\ q <= l /\ Len(k) = l /\ k[q] = "blank" /\ \A i \in q + 1..l : k[i] = "data"
      BY <2>3, <3>1
    <3>3. k[1] \in Starts
      BY <2>3 DEF Starts
    <3> QED BY <2>3, <3>1, <3>2, <3>3, ShortFits
  <2> HIDE DEF Whole
  <2> QED BY <2>1, <2>2, <2>3
<1>3. /\ Whole(Tokens(<<"GET", "blank">>, id)) /\ Whole(Tokens(<<"POST", "blank">>, id))
      /\ Whole(Tokens(<<"FOO", "blank">>, id)) /\ Whole(Tokens(<<"GET9", "blank">>, id))
      /\ IsPlain(Tokens(<<"GET", "blank">>, id))
  <2>1. ASSUME NEW x \in Starts
        PROVE  Whole(Tokens(<<x, "blank">>, id)) /\ (x = "GET" => IsPlain(Tokens(<<x, "blank">>, id)))
    <3>1. x \in TokenKinds /\ "blank" \in TokenKinds
      BY DEF Starts, TokenKinds
    <3> DEFINE k == <<x, "blank">>
    <3>2. k \in Seq(TokenKinds) /\ Len(k) = 2 /\ k[2] = "blank" /\ k[1] = x
      BY <3>1
    <3> HIDE DEF k, Whole
    <3> QED BY <1>2, <3>2 DEF k
  <2>2. {"GET", "POST", "FOO", "GET9"} \subseteq Starts
    BY DEF Starts
  <2> HIDE DEF Whole
  <2> QED BY <2>1, <2>2
<1>4. /\ Whole(Tokens(<<"POST", "badlength", "blank">>, id)) /\ Whole(Tokens(<<"GET", "junk", "blank">>, id))
      /\ Whole(Tokens(<<"POST", "lowerLength", "blank", "data", "data">>, id))
  <2>1. ASSUME NEW x \in Starts, NEW y \in {"badlength", "junk"}
        PROVE  Whole(Tokens(<<x, y, "blank">>, id))
    <3>1. x \in TokenKinds /\ y \in TokenKinds /\ "blank" \in TokenKinds
      BY DEF Starts, TokenKinds
    <3> DEFINE k == <<x, y, "blank">>
    <3>2. k \in Seq(TokenKinds) /\ Len(k) = 3 /\ k[3] = "blank" /\ k[1] = x /\ k[2] = y
      BY <3>1
    <3> HIDE DEF k, Whole
    <3> QED BY <1>2, <3>2 DEF k
  <2>2. {"GET", "POST"} \subseteq Starts
    BY DEF Starts
  <2> DEFINE k == <<"POST", "lowerLength", "blank", "data", "data">>
  <2>3. k \in Seq(TokenKinds) /\ Len(k) = 5 /\ k[3] = "blank" /\ k[1] = "POST" /\ k[2] = "lowerLength"
        /\ k[4] = "data" /\ k[5] = "data"
    BY DEF TokenKinds
  <2> HIDE DEF Whole, k
  <2>4. Whole(Tokens(k, id))
    BY <1>2, <2>3
  <2> QED BY <2>1, <2>2, <2>4 DEF k
<1>5. /\ <<"GET">> \in Seq(TokenKinds)
      /\ <<"POST">> \in Seq(TokenKinds) /\ <<"POST", "multipart">> \in Seq(TokenKinds)
      /\ <<"blank">> \in Seq(TokenKinds) /\ <<"blank", "data">> \in Seq(TokenKinds)
      /\ <<"blank", "data", "data">> \in Seq(TokenKinds)
      /\ <<"blank", "boundary", "disposition">> \in Seq(TokenKinds)
  BY DEF TokenKinds
<1>6. "blank" \notin Lead /\ "data" \notin Lead /\ "boundary" \notin Lead /\ "disposition" \notin Lead
      /\ "disposition" \notin Bounds /\ "data" \notin Bounds
  BY DEF Lead, Starts, Bounds
<1> HIDE DEF Tokens, Length
<1>7. CASE kind \in {"get", "noLength", "badMethod", "badVersion"}
  <2>1. kind # "get" => kind \notin Plain
    BY <1>1, <1>7
  <2> QED BY <1>3, <1>7, <2>1 DEF Wire
<1>8. CASE kind \in {"lowerPost", "badLength", "badHeader"}
  <2>1. kind \notin Plain
    BY <1>1, <1>8
  <2> QED BY <1>4, <1>8, <2>1 DEF Wire
<1> DEFINE Long(k, n, l) == Tokens(k, id) \o <<Length(n, id)>> \o Tokens(l, id)
<1>9. CASE kind = "emptyPost"
  <2>1. ASSUME NEW k \in Seq(TokenKinds), NEW l \in Seq(TokenKinds), Len(k) = 1, k[1] = "POST",
               Len(l) = 1, l[1] = "blank"
        PROVE  Whole(Long(k, 0, l)) /\ IsPlain(Long(k, 0, l))
    <3>1. PICK q \in {1, 2}, r \in 1..7, n \in Nat : q = 1 /\ r = 1 /\ n = 0
      OBVIOUS
    <3>2. (\A i \in 1..r : l[i] \notin Lead) /\ \A j \in 3..r : l[j] \notin Bounds
      BY <1>6, <2>1, <3>1
    <3>3. Len(k) = q /\ Len(l) = r /\ (q = 2 => k[2] = "multipart") /\ n = 0 /\ r = 1
          /\ k[1] # "GET" /\ k[1] \in {"GET", "POST"}
      BY <2>1, <3>1
    <3>4. PICK v : v = Tokens(k, id) \o <<Length(n, id)>> \o Tokens(l, id)
      OBVIOUS
    <3>5. Whole(v) /\ (q = 1 => IsPlain(v))
      BY <2>1, <3>2, <3>3, <3>4, LongFits
    <3>6. Long(k, 0, l) = v
      BY <3>1, <3>4
    <3> HIDE DEF Whole, Long
    <3> QED BY <3>1, <3>5, <3>6
  <2>2. Wire(kind, id) = Long(<<"POST">>, 0, <<"blank">>)
    BY <1>9 DEF Wire
  <2> HIDE DEF Long
  <2> QED BY <1>5, <2>1, <2>2
<1>10. ASSUME NEW n \in Nat, n = 2 \/ n = Unreachable, n > 0,
              NEW k \in Seq(TokenKinds), NEW l \in Seq(TokenKinds), Len(k) = 1, k[1] \in {"GET", "POST"},
              \/ Len(l) = 3 /\ l[3] = "data" /\ n = 2
              \/ Len(l) = 2 /\ n = Unreachable,
              l[1] = "blank", l[2] = "data"
       PROVE  /\ IsWire(Long(k, n, l), id) /\ Unended(Long(k, n, l)) /\ IsPlain(Long(k, n, l))
              /\ k[1] # "GET" => Bodiless(Long(k, n, l))
  <2>1. PICK q \in {1, 2}, r \in 1..7 : q = 1 /\ r = Len(l)
    BY <1>10
  <2>2. \A i \in 1..r : i = 1 \/ i = 2 \/ (i = 3 /\ r = 3)
    BY <1>10, <2>1
  <2>3. (\A i \in 1..r : l[i] \notin Lead) /\ \A j \in 3..r : l[j] \notin Bounds
    <3>1. \A i \in 1..r : l[i] \notin Lead
      BY <1>6, <1>10, <2>1, <2>2
    <3>2. \A j \in 3..r : j = 3 /\ r = 3
      BY <1>10, <2>1
    <3> QED BY <1>6, <1>10, <2>1, <3>1, <3>2
  <2>4. r > 1 /\ (n = Unreachable \/ (n = r - 1 /\ q = 1))
    <3>1. (r = 3 /\ n = 2) \/ (r = 2 /\ n = Unreachable)
      BY <1>10, <2>1, Zenon
    <3>2. CASE r = 3 /\ n = 2
      BY <2>1, <3>2
    <3>3. CASE r = 2 /\ n = Unreachable
      BY <3>3
    <3> QED BY <3>1, <3>2, <3>3
  <2>5. \A i \in 2..r : l[i] = "data"
    <3>1. \A i \in 2..r : i = 2 \/ (i = 3 /\ r = 3)
      BY <1>10, <2>1
    <3> QED BY <1>10, <2>1, <3>1
  <2> QED BY <1>10, <2>1, <2>3, <2>4, <2>5, LongFits
<1>11. CASE kind \in {"getBody", "post", "negativeLength"}
  <2>1. Unreachable \in Nat /\ Unreachable > 0 /\ 2 \in Nat /\ 2 > 0
    BY <1>1 DEF Unreachable
  <2> HIDE DEF Unreachable
  <2>2. \/ Wire(kind, id) = Long(<<"POST">>, 2, <<"blank", "data", "data">>)
        \/ Wire(kind, id) = Long(<<"POST">>, Unreachable, <<"blank", "data">>)
        \/ kind = "getBody" /\ Wire(kind, id) = Long(<<"GET">>, 2, <<"blank", "data", "data">>)
    BY <1>11 DEF Wire
  <2>3. kind # "upload"
    BY <1>11
  <2> HIDE DEF Long
  <2> QED BY <1>5, <1>10, <2>1, <2>2, <2>3
<1>12. CASE kind = "shortUpload"
  <2>1. ASSUME NEW k \in Seq(TokenKinds), NEW l \in Seq(TokenKinds), Len(k) = 2, k[1] = "POST",
               k[2] = "multipart", Len(l) = 3, l[1] = "blank", l[2] = "boundary", l[3] = "disposition"
        PROVE  Whole(Long(k, 2, l))
    <3>1. PICK q \in {1, 2}, r \in 1..7, n \in Nat : q = 2 /\ r = 3 /\ n = 2
      OBVIOUS
    <3>2. (\A i \in 1..r : l[i] \notin Lead) /\ \A j \in 3..r : l[j] \notin Bounds
      BY <1>6, <2>1, <3>1
    <3>3. Len(k) = q /\ Len(l) = r /\ (q = 2 => k[2] = "multipart") /\ n > 0 /\ r > 1 /\ q = 2
          /\ k[1] # "GET" /\ k[1] \in {"GET", "POST"}
      BY <2>1, <3>1
    <3>4. PICK v : v = Tokens(k, id) \o <<Length(n, id)>> \o Tokens(l, id)
      OBVIOUS
    <3>5. Whole(v)
      BY <2>1, <3>2, <3>3, <3>4, LongFits
    <3>6. Long(k, 2, l) = v
      BY <3>1, <3>4
    <3> HIDE DEF Whole, Long
    <3> QED BY <3>5, <3>6
  <2>2. Wire(kind, id) = Long(<<"POST", "multipart">>, 2, <<"blank", "boundary", "disposition">>)
    BY <1>12 DEF Wire
  <2>3. kind \notin Plain \cup {"getBody"} /\ kind # "upload"
    BY <1>1, <1>12
  <2> HIDE DEF Long
  <2> QED BY <1>5, <2>1, <2>2, <2>3
<1> DEFINE k == <<"POST", "multipart">>
<1>13. ASSUME NEW b \in Seq(TokenKinds), NEW n \in {5, 6}, Len(b) = n, \A i \in 1..n : b[i] \notin Lead
       PROVE  /\ IsWire(Long(k, n, <<"blank">> \o b), id) /\ Bodiless(Long(k, n, <<"blank">> \o b))
              /\ (\A i \in 2..n : b[i] \notin Bounds) => Unended(Long(k, n, <<"blank">> \o b))
  <2> DEFINE e == <<"blank">>
             l == e \o b
  <2>1. e \in Seq(TokenKinds) /\ Len(e) = 1 /\ e[1] = "blank"
    BY <1>5
  <2> HIDE DEF e
  <2>2. /\ l \in Seq(TokenKinds) /\ Len(l) = Len(e) + Len(b)
        /\ \A i \in 1..Len(e) + Len(b) : l[i] = IF i <= Len(e) THEN e[i] ELSE b[i - Len(e)]
    BY <2>1, ConcatProperties
  <2> HIDE DEF l
  <2>3. PICK r \in 1..7 : r = n + 1
    OBVIOUS
  <2>4. Len(l) = r /\ l[1] = "blank" /\ \A i \in 2..r : i - 1 \in 1..n /\ l[i] = b[i - 1]
    BY <1>13, <2>1, <2>2, <2>3
  <2>5. \A i \in 1..r : l[i] \notin Lead
    <3>1. \A i \in 1..r : i = 1 \/ i \in 2..r
      BY <2>3
    <3> QED BY <1>6, <1>13, <2>4, <3>1
  <2>6. (\A i \in 2..n : b[i] \notin Bounds) => \A j \in 3..r : l[j] \notin Bounds
    <3>1. \A j \in 3..r : j \in 2..r /\ j - 1 \in 2..n
      BY <2>3
    <3> QED BY <2>4, <3>1
  <2>7. PICK q \in {1, 2} : q = 2
    OBVIOUS
  <2>8. Len(k) = q /\ k[1] = "POST" /\ k[2] = "multipart" /\ k \in Seq(TokenKinds)
    BY <1>5, <2>7
  <2> HIDE DEF k
  <2>9. n \in Nat /\ n > 0 /\ r > 1
    BY <2>3
  <2>10. /\ IsWire(Long(k, n, l), id) /\ Bodiless(Long(k, n, l))
         /\ ((\A j \in 3..r : l[j] \notin Bounds) => Unended(Long(k, n, l)))
    <3>1. PICK v : v = Tokens(k, id) \o <<Length(n, id)>> \o Tokens(l, id)
      OBVIOUS
    <3>2. Len(k) = q /\ Len(l) = r /\ (q = 2 => k[2] = "multipart") /\ l[1] = "blank"
      BY <2>4, <2>8
    <3>3. IsWire(v, id) /\ Bodiless(v) /\ ((\A j \in 3..r : l[j] \notin Bounds) => Unended(v))
      <4>1. k \in Seq(TokenKinds) /\ l \in Seq(TokenKinds) /\ k[1] # "GET" /\ k[1] \in {"GET", "POST"}
        BY <2>2, <2>8
      <4>2. n \in Nat /\ n > 0 /\ r > 1 /\ q = 2
        BY <2>7, <2>9
      <4> QED BY <2>5, <3>1, <3>2, <4>1, <4>2, LongFits
    <3>4. Long(k, n, l) = v
      BY <3>1
    <3> HIDE DEF Long
    <3> QED BY <3>3, <3>4
  <2> HIDE DEF Long
  <2> QED BY <2>6, <2>10 DEF l, e
<1> DEFINE b == MultipartBody
<1>14. /\ b \in Seq(TokenKinds) /\ Len(b) = 6 /\ (\A i \in 1..6 : b[i] \in TokenKinds \ Lead)
       /\ \A i \in 2..5 : b[i] \notin Bounds
  BY DEF MultipartBody, TokenKinds, Lead, Starts, Bounds
<1> HIDE DEF k
<1>15. CASE kind = "upload"
  <2>1. kind \notin Plain
    BY <1>1, <1>15
  <2>2. Wire(kind, id) = Long(k, Len(b), <<"blank">> \o b)
    BY <1>15 DEF Wire, k
  <2> HIDE DEF b, Long
  <2>3. PICK n \in {5, 6} : n = 6
    OBVIOUS
  <2>4. /\ IsWire(Long(k, n, <<"blank">> \o b), id) /\ Bodiless(Long(k, n, <<"blank">> \o b))
    BY <1>13, <1>14, <2>3
  <2> QED BY <1>14, <1>15, <2>1, <2>2, <2>3, <2>4
<1>16. CASE kind = "cutUpload"
  <2> DEFINE f == Front(b)
  <2>1. kind \notin Plain \cup {"getBody"} /\ kind # "upload"
    BY <1>1, <1>16
  <2>2. Wire(kind, id) = Long(k, 5, <<"blank">> \o f)
    BY <1>16 DEF Wire, k
  <2> HIDE DEF b, Long
  <2>3. f \in Seq(TokenKinds) /\ Len(f) = 5 /\ \A i \in 1..5 : f[i] = b[i]
    <3>1. \A i \in 1..5 : b[i] \in TokenKinds
      BY <1>14
    <3> QED BY <1>14, <3>1, SubSeqProperties DEF Front
  <2> HIDE DEF f
  <2>4. PICK n \in {5, 6} : n = 5
    OBVIOUS
  <2>5. (\A i \in 1..n : f[i] \notin Lead) /\ \A i \in 2..n : f[i] \notin Bounds
    BY <1>14, <2>3, <2>4
  <2>6. Whole(Long(k, n, <<"blank">> \o f))
    BY <1>13, <2>3, <2>4, <2>5
  <2> QED BY <2>1, <2>2, <2>4, <2>6
<1> QED BY <1>1, <1>7, <1>8, <1>9, <1>11, <1>12, <1>15, <1>16 DEF RequestKinds

-----------------------------------------------------------------------------
(* p[i] is the place of the token s[i] in its request.  The rest of the      *)
(* request follows it, then comes the first token of another.                *)
WireOf(S, i) == Wire(S[i], i)
HeadLen(w) == CHOOSE m : Fits(w, m)
Placed(S, s, p) ==
    \A i \in 1..Len(s) :
        LET w == WireOf(S, s[i].id)
        IN  /\ s[i].id \in 1..Len(S) /\ p[i] \in 1..Len(w) /\ s[i] = w[p[i]]
            /\ \A d \in 0..Len(w) - p[i] :
                  i + d \in 1..Len(s) /\ s[i + d].id = s[i].id /\ p[i + d] = p[i] + d
            /\ p[i] = Len(w) /\ i + 1 \in 1..Len(s) => p[i + 1] = 1
            /\ \A j \in i + 1..Len(s) : s[j].id = s[i].id => p[i] < p[j]

(* Reading n tokens keeps the places of the others.                          *)
Moved(S, s, t, p, n, q) ==
    /\ Placed(S, t, q)
    /\ \A i \in 1..Len(t) : i + n \in 1..Len(s) /\ t[i] = s[i + n] /\ q[i] = p[i + n]
LEMMA DropPlaced ==
    ASSUME NEW S, NEW s \in Seq(TokenType), NEW p, Placed(S, s, p), NEW n \in 0..Len(s), NEW t, Dropped(s, t, n)
    PROVE  \E q : Moved(S, s, t, p, n, q)
<1> DEFINE q == [i \in 1..Len(t) |-> p[i + n]]
<1>1. Len(s) \in Nat /\ Len(t) = Len(s) - n
  BY DEF Dropped
<1>2. \A i \in 1..Len(t) : i + n \in 1..Len(s) /\ t[i] = s[i + n] /\ q[i] = p[i + n]
  BY <1>1 DEF Dropped
<1> HIDE DEF q
<1>3. ASSUME NEW i \in 1..Len(t)
      PROVE  LET w == WireOf(S, t[i].id)
             IN  /\ t[i].id \in 1..Len(S) /\ q[i] \in 1..Len(w) /\ t[i] = w[q[i]]
                 /\ \A d \in 0..Len(w) - q[i] :
                       i + d \in 1..Len(t) /\ t[i + d].id = t[i].id /\ q[i + d] = q[i] + d
                 /\ q[i] = Len(w) /\ i + 1 \in 1..Len(t) => q[i + 1] = 1
                 /\ \A j \in i + 1..Len(t) : t[j].id = t[i].id => q[i] < q[j]
  <2> DEFINE w == WireOf(S, t[i].id)
  <2>1. PICK k \in 1..Len(s) : k = i + n /\ t[i] = s[k] /\ q[i] = p[k]
    BY <1>2
  <2>2. /\ t[i].id \in 1..Len(S) /\ q[i] \in 1..Len(w) /\ t[i] = w[q[i]]
        /\ \A d \in 0..Len(w) - q[i] :
              k + d \in 1..Len(s) /\ s[k + d].id = t[i].id /\ p[k + d] = q[i] + d
        /\ q[i] = Len(w) /\ k + 1 \in 1..Len(s) => p[k + 1] = 1
        /\ \A j \in k + 1..Len(s) : s[j].id = t[i].id => q[i] < p[j]
    <3>1. LET u == WireOf(S, s[k].id)
          IN  /\ s[k].id \in 1..Len(S) /\ p[k] \in 1..Len(u) /\ s[k] = u[p[k]]
              /\ \A d \in 0..Len(u) - p[k] :
                    k + d \in 1..Len(s) /\ s[k + d].id = s[k].id /\ p[k + d] = p[k] + d
              /\ p[k] = Len(u) /\ k + 1 \in 1..Len(s) => p[k + 1] = 1
              /\ \A j \in k + 1..Len(s) : s[j].id = s[k].id => p[k] < p[j]
      BY DEF Placed
    <3>2. w = WireOf(S, s[k].id) /\ s[k].id = t[i].id /\ p[k] = q[i] /\ s[k] = t[i]
      BY <2>1
    <3> HIDE DEF w
    <3>3. t[i].id \in 1..Len(S) /\ q[i] \in 1..Len(w) /\ t[i] = w[q[i]]
      BY <3>1, <3>2
    <3>4. \A d \in 0..Len(w) - q[i] :
             k + d \in 1..Len(s) /\ s[k + d].id = t[i].id /\ p[k + d] = q[i] + d
      BY <3>1, <3>2
    <3>5. /\ q[i] = Len(w) /\ k + 1 \in 1..Len(s) => p[k + 1] = 1
          /\ \A j \in k + 1..Len(s) : s[j].id = t[i].id => q[i] < p[j]
      BY <3>1, <3>2
    <3> QED BY <3>3, <3>4, <3>5
  <2> HIDE DEF w
  <2>3. ASSUME NEW d \in 0..Len(w) - q[i]
        PROVE  i + d \in 1..Len(t) /\ t[i + d].id = t[i].id /\ q[i + d] = q[i] + d
    <3>1. k + d \in 1..Len(s) /\ s[k + d].id = t[i].id /\ p[k + d] = q[i] + d
      BY <2>2
    <3>2. d \in Nat
      OBVIOUS
    <3>3. i + d \in 1..Len(t) /\ i + d + n = k + d
      <4>1. i \in Nat /\ i >= 1 /\ n \in Nat /\ k = i + n /\ k + d <= Len(s)
        BY <1>1, <2>1, <3>1
      <4> QED BY <1>1, <3>2, <4>1
    <3>4. t[i + d] = s[i + d + n] /\ q[i + d] = p[i + d + n]
      BY <1>2, <3>3
    <3> QED BY <3>1, <3>3, <3>4
  <2>4. ASSUME q[i] = Len(w), i + 1 \in 1..Len(t) PROVE q[i + 1] = 1
    <3>1. i + 1 + n \in 1..Len(s) /\ q[i + 1] = p[i + 1 + n] /\ i + 1 + n = k + 1
      BY <1>2, <2>1, <2>4
    <3> QED BY <2>2, <2>4, <3>1
  <2>5. ASSUME NEW j \in i + 1..Len(t), t[j].id = t[i].id PROVE q[i] < q[j]
    <3>1. j \in 1..Len(t) /\ j + n \in k + 1..Len(s)
      BY <1>1, <2>1
    <3>2. t[j] = s[j + n] /\ q[j] = p[j + n]
      BY <1>2, <3>1
    <3> QED BY <2>2, <2>5, <3>1, <3>2
  <2> QED BY <2>2, <2>3, <2>4, <2>5 DEF w
<1>4. Placed(S, t, q)
  BY <1>3 DEF Placed
<1> QED BY <1>2, <1>4 DEF Moved

(* So does sending another request.                                          *)
Appended(R, s, u, p, q) ==
    /\ Placed(R, s \o u, q)
    /\ \A i \in 1..Len(s) : q[i] = p[i]
    /\ Len(s) = 0 => q[1] = 1
LEMMA AppendPlaced ==
    ASSUME NEW S \in Seq(Kinds), NEW kind, NEW R, R = Append(S, kind), R \in Seq(Kinds),
           NEW s \in Seq(TokenType), NEW p, Placed(S, s, p),
           NEW id, id = Len(S) + 1, NEW u, u = Wire(kind, id), IsWire(u, id)
    PROVE  \E q : Appended(R, s, u, p, q)
<1> DEFINE t == s \o u
           q == [i \in 1..Len(s) + Len(u) |-> IF i <= Len(s) THEN p[i] ELSE i - Len(s)]
<1>1. u \in Seq(TokenType) /\ Len(u) \in Nat /\ Len(u) >= 1 /\ \A i \in 1..Len(u) : u[i].id = id
  <2>1. u \in Seq(TokenType) /\ (\A i \in 1..Len(u) : u[i].id = id) /\ \E m : m \in 1..Len(u) - 1
    BY DEF IsWire, Fits
  <2> QED BY <2>1
<1>2. /\ Len(S) \in Nat /\ Len(R) = id /\ R[id] = kind
      /\ \A i \in 1..Len(S) : R[i] = S[i] /\ i # id /\ i \in 1..Len(R)
  BY AppendProperties
<1>3. WireOf(R, id) = u /\ \A i \in 1..Len(S) : WireOf(R, i) = WireOf(S, i)
  BY <1>2 DEF WireOf
<1>4. Len(s) \in Nat
  OBVIOUS
<1>5. /\ t \in Seq(TokenType) /\ Len(t) = Len(s) + Len(u)
      /\ \A i \in 1..Len(s) + Len(u) : t[i] = IF i <= Len(s) THEN s[i] ELSE u[i - Len(s)]
  BY <1>1, ConcatProperties
<1> HIDE DEF t
<1>6. \A i \in 1..Len(s) : i \in 1..Len(t) /\ t[i] = s[i] /\ q[i] = p[i]
  BY <1>1, <1>4, <1>5
<1>7. \A i \in 1..Len(t) : ~(i <= Len(s)) =>
         i - Len(s) \in 1..Len(u) /\ t[i] = u[i - Len(s)] /\ q[i] = i - Len(s)
  BY <1>1, <1>4, <1>5
<1>8. q[Len(s) + 1] = 1
  BY <1>1, <1>4
<1> HIDE DEF q
<1>9. ASSUME NEW i \in 1..Len(t)
      PROVE  LET w == WireOf(R, t[i].id)
             IN  /\ t[i].id \in 1..Len(R) /\ q[i] \in 1..Len(w) /\ t[i] = w[q[i]]
                 /\ \A d \in 0..Len(w) - q[i] :
                       i + d \in 1..Len(t) /\ t[i + d].id = t[i].id /\ q[i + d] = q[i] + d
                 /\ q[i] = Len(w) /\ i + 1 \in 1..Len(t) => q[i + 1] = 1
                 /\ \A j \in i + 1..Len(t) : t[j].id = t[i].id => q[i] < q[j]
  <2> DEFINE w == WireOf(R, t[i].id)
  <2>1. CASE i <= Len(s)
    <3>1. i \in 1..Len(s) /\ t[i] = s[i] /\ q[i] = p[i]
      BY <1>4, <1>6, <2>1
    <3>2. s[i].id \in 1..Len(S)
      BY <3>1 DEF Placed
    <3>3. w = WireOf(S, s[i].id) /\ t[i].id \in 1..Len(R) /\ t[i].id # id
      BY <1>2, <1>3, <3>1, <3>2
    <3> HIDE DEF w
    <3>4. /\ q[i] \in 1..Len(w) /\ t[i] = w[q[i]]
          /\ \A d \in 0..Len(w) - q[i] :
                i + d \in 1..Len(s) /\ s[i + d].id = t[i].id /\ p[i + d] = q[i] + d
          /\ q[i] = Len(w) /\ i + 1 \in 1..Len(s) => p[i + 1] = 1
          /\ \A j \in i + 1..Len(s) : s[j].id = t[i].id => q[i] < p[j]
      BY <3>1, <3>3 DEF Placed
    <3>5. ASSUME NEW d \in 0..Len(w) - q[i]
          PROVE  i + d \in 1..Len(t) /\ t[i + d].id = t[i].id /\ q[i + d] = q[i] + d
      <4>1. i + d \in 1..Len(s) /\ s[i + d].id = t[i].id /\ p[i + d] = q[i] + d
        BY <3>4
      <4> QED BY <1>6, <4>1
    <3>6. ASSUME q[i] = Len(w), i + 1 \in 1..Len(t) PROVE q[i + 1] = 1
      <4>1. i + 1 \in 1..Len(s) \/ i = Len(s)
        BY <1>4, <2>1
      <4> QED BY <1>6, <1>8, <3>4, <3>6, <4>1
    <3>7. ASSUME NEW j \in i + 1..Len(t), t[j].id = t[i].id PROVE q[i] < q[j]
      <4>1. j \in 1..Len(t)
        BY <1>4, <1>5
      <4>2. j <= Len(s)
        <5>1. SUFFICES ASSUME ~(j <= Len(s)) PROVE FALSE
          OBVIOUS
        <5>2. j - Len(s) \in 1..Len(u) /\ t[j] = u[j - Len(s)]
          BY <1>7, <4>1, <5>1
        <5>3. t[j].id = id
          BY <1>1, <5>2
        <5> QED BY <3>3, <3>7, <5>3
      <4>3. j \in i + 1..Len(s) /\ j \in 1..Len(s)
        BY <1>4, <4>1, <4>2
      <4> QED BY <1>6, <3>4, <3>7, <4>3
    <3> QED BY <3>3, <3>4, <3>5, <3>6, <3>7 DEF w
  <2>2. CASE ~(i <= Len(s))
    <3>1. i - Len(s) \in 1..Len(u) /\ t[i] = u[i - Len(s)] /\ q[i] = i - Len(s)
      BY <1>7, <2>2
    <3>2. t[i].id = id
      BY <1>1, <3>1
    <3>3. w = u /\ t[i].id \in 1..Len(R)
      BY <1>2, <1>3, <3>2
    <3> HIDE DEF w
    <3>4. ASSUME NEW j \in i..Len(t)
          PROVE  j \in 1..Len(t) /\ t[j].id = id /\ q[j] = j - Len(s)
      <4>1. j \in 1..Len(t) /\ ~(j <= Len(s))
        BY <1>4, <2>2
      <4>2. j - Len(s) \in 1..Len(u) /\ t[j] = u[j - Len(s)] /\ q[j] = j - Len(s)
        BY <1>7, <4>1
      <4> QED BY <1>1, <4>1, <4>2
    <3>5. ASSUME NEW d \in 0..Len(w) - q[i]
          PROVE  i + d \in 1..Len(t) /\ t[i + d].id = t[i].id /\ q[i + d] = q[i] + d
      <4>1. i + d \in i..Len(t) /\ i + d - Len(s) = i - Len(s) + d
        BY <1>1, <1>4, <1>5, <3>1, <3>3
      <4> QED BY <3>1, <3>2, <3>4, <4>1
    <3>6. ~(q[i] = Len(w) /\ i + 1 \in 1..Len(t))
      BY <1>1, <1>4, <1>5, <3>1, <3>3
    <3>7. ASSUME NEW j \in i + 1..Len(t) PROVE q[i] < q[j]
      <4>1. j \in i..Len(t) /\ i - Len(s) < j - Len(s)
        BY <1>4
      <4> QED BY <3>1, <3>4, <4>1
    <3>8. q[i] \in 1..Len(w) /\ t[i] = w[q[i]]
      BY <3>1, <3>3
    <3> QED BY <3>3, <3>5, <3>6, <3>7, <3>8 DEF w
  <2> QED BY <2>1, <2>2
<1>10. Placed(R, t, q)
  BY <1>9 DEF Placed
<1>11. Len(s) = 0 => q[1] = 1
  BY <1>8
<1> QED BY <1>6, <1>10, <1>11 DEF t, Appended

-----------------------------------------------------------------------------
(* Where the parser is in the stream: at the start of a request when it      *)
(* looks for one or has got one, else in the head or at the body of the      *)
(* request it holds.  All this only while nothing is refused.                *)
AtStart(p) == 1 \in 1..Len(Stream) => p[1] = 1
Held == WireOf(sent, request_.id)
InHead(p) ==
    /\ 1 \in 1..Len(Stream) /\ Stream[1].id = request_.id
    /\ p[1] \in 2..HeadLen(Held) + 1
    /\ Held[1].kind \in {"GET", "POST"} /\ request_.method = MethodWord(Held[1].kind)
    /\ request_.fields = {Held[i] : i \in 2..p[1] - 1}
AtBody(p) ==
    /\ 1 \in 1..Len(Stream) /\ Stream[1].id = request_.id
    /\ p[1] = HeadLen(Held) + 2
    /\ \A f \in request_.fields : f.kind = "length" => f.n = request_.length
    /\ BodyFits(Held, HeadLen(Held), request_.length)
    /\ IsUpload <=> IsMultipart(Held, HeadLen(Held))
InPlace(p) ==
    /\ Placed(sent, Stream, p) /\ Len(Stream) <= 10 * Len(sent)
    /\ state_ \in {"kExpectRequestLine", "kGotAll"} => AtStart(p)
    /\ state_ = "kExpectHeaders" => InHead(p)
    /\ state_ = "kExpectBody" => AtBody(p)

(* What it leaves of an upload or of a GET with a body puts it out of step:  *)
(* it refuses what it reads next as a request line.                          *)
Derailed ==
    /\ state_ \in {"kExpectRequestLine", "kGotAll"}
    /\ 1 \in 1..Len(Stream) /\ Stream[1].id \in 1..Len(sent) /\ Unread(Stream[1])
Sound == connected /\ (step = "parsed" => ok)
PlaceInv == Sound => Derailed \/ \E p : InPlace(p)

LEMMA PlaceInvOK == TypeInv /\ PlaceInv => InStep
<1> SUFFICES ASSUME TypeInv, PlaceInv, connected, step = "loop", state_ = "kExpectRequestLine",
                    Stream # <<>>
             PROVE  \/ Head(Stream) = Head(Wire(sent[Head(Stream).id], Head(Stream).id))
                    \/ Unread(Head(Stream))
  BY DEF InStep, Stream
<1>1. Stream \in Seq(TokenType)
  BY StreamType
<1>2. 1 \in 1..Len(Stream) /\ Head(Stream) = Stream[1]
  BY <1>1, TailIsAfter
<1>3. CASE Derailed
  BY <1>3, <1>2 DEF Derailed
<1> SUFFICES ASSUME ~Derailed PROVE Head(Stream) = Head(Wire(sent[Head(Stream).id], Head(Stream).id))
  BY <1>3
<1>4. PICK p : InPlace(p)
  BY DEF PlaceInv, Sound
<1>5. p[1] = 1 /\ Placed(sent, Stream, p)
  BY <1>4, <1>2 DEF InPlace, AtStart
<1> DEFINE i == Stream[1].id
           w == Wire(sent[i], i)
<1>6. i \in 1..Len(sent) /\ 1 \in 1..Len(w) /\ Stream[1] = w[1]
  BY <1>2, <1>5 DEF Placed, WireOf
<1>7. Head(w) = w[1]
  <2>1. sent[i] \in Kinds /\ i \in 0..MaxRequests
    BY <1>6, ConnectionAssumption DEF TypeInv, ConnectionAssumption
  <2>2. w \in Seq(TokenType)
    BY <2>1, WireShape
  <2> HIDE DEF w
  <2>3. w # <<>>
    BY <1>6
  <2> QED BY <2>2, <2>3, TailIsAfter
<1> QED BY <1>2, <1>6, <1>7

(* What is known of the request that the next token is in.                   *)
LEMMA Fitted ==
    ASSUME TypeInv, NEW i \in 1..Len(sent)
    PROVE  LET w == WireOf(sent, i)
           IN  w \in Seq(TokenType) /\ Len(w) \in Nat /\ HeadLen(w) \in Nat /\ Fits(w, HeadLen(w))
<1>1. sent[i] \in Kinds /\ i \in 0..MaxRequests
  BY ConnectionAssumption DEF TypeInv, ConnectionAssumption
<1> DEFINE w == WireOf(sent, i)
<1>2. w \in Seq(TokenType) /\ \E m : Fits(w, m)
  BY <1>1, WireFits DEF IsWire, WireOf
<1> HIDE DEF w
<1>3. Fits(w, HeadLen(w))
  BY <1>2 DEF HeadLen
<1>4. HeadLen(w) \in Nat
  BY <1>3 DEF Fits
<1> QED BY <1>2, <1>3, <1>4 DEF w

(* A step that leaves the parser where it is.                                *)
LEMMA StaysPlaced ==
    ASSUME PlaceInv, Sound, Stream' = Stream, sent' = sent, state_' = state_, request_' = request_
    PROVE  PlaceInv'
<1>1. CASE Derailed
  BY <1>1 DEF Derailed, Unread, PlaceInv
<1>2. ASSUME NEW p, InPlace(p) PROVE InPlace(p)'
  BY <1>2 DEF InPlace, AtStart, InHead, AtBody, Held, IsUpload
<1> QED BY <1>1, <1>2 DEF PlaceInv

LEMMA SendPlace ==
    ASSUME TypeInv, StreamInv, PlaceInv, NEW kind \in Kinds, Send(kind)
    PROVE  PlaceInv'
<1>1. sent \in Seq(Kinds) /\ buf \in Seq(TokenType) /\ inflight \in Seq(TokenType)
  BY DEF TypeInv
<1>2. /\ Stream \in Seq(TokenType) /\ Len(Stream) \in Nat
  BY StreamType
<1>3. /\ sent' = Append(sent, kind) /\ inflight' = inflight \o Wire(kind, Len(sent) + 1) /\ Len(sent) < MaxRequests
      /\ UNCHANGED <<buf, state_, request_, step, ok, connected>>
  BY DEF Send
<1>4. sent' \in Seq(Kinds) /\ Len(sent') = Len(sent) + 1 /\ Len(sent) \in Nat /\ sent'[Len(sent) + 1] = kind
      /\ \A i \in 1..Len(sent) : sent'[i] = sent[i]
  BY <1>1, <1>3, AppendProperties
<1> SUFFICES ASSUME Sound' PROVE Derailed' \/ \E q : InPlace(q)'
  BY DEF PlaceInv
<1>5. Sound
  BY <1>3 DEF Sound
<1>6. CASE Derailed
  <2>1. 1 \in 1..Len(Stream) /\ Stream[1].id \in 1..Len(sent) /\ Unread(Stream[1])
    BY <1>6 DEF Derailed
  <2>2. Len(Stream') \in Nat /\ Len(Stream') >= Len(Stream) /\ \A i \in 1..Len(Stream) : Stream'[i] = Stream[i]
    BY SendType
  <2>3. 1 \in 1..Len(Stream') /\ Stream'[1] = Stream[1]
    BY <1>2, <2>1, <2>2
  <2>4. Stream[1].id \in 1..Len(sent') /\ sent'[Stream[1].id] = sent[Stream[1].id]
    BY <1>4, <2>1
  <2> QED BY <1>3, <1>6, <2>1, <2>3, <2>4 DEF Derailed, Unread
<1> SUFFICES ASSUME ~Derailed PROVE \E q : InPlace(q)'
  BY <1>6
<1>7. PICK p : InPlace(p)
  BY <1>5 DEF PlaceInv
<1> DEFINE id == Len(sent) + 1
           u == Wire(kind, id)
<1>8. id \in 0..MaxRequests
  BY <1>3, <1>4, ConnectionAssumption DEF ConnectionAssumption
<1>9. IsWire(u, id)
  BY <1>8, WireFits
<1>10. PICK q : Appended(sent', Stream, u, p, q)
  <2>1. Placed(sent, Stream, p) /\ id = Len(sent) + 1
    BY <1>7 DEF InPlace
  <2>2. IsWire(u, id) /\ u = Wire(kind, id)
    BY <1>9
  <2> HIDE DEF id, u
  <2>3. /\ sent \in Seq(Kinds) /\ sent' = Append(sent, kind) /\ sent' \in Seq(Kinds)
        /\ Stream \in Seq(TokenType)
    BY <1>1, <1>2, <1>3, <1>4
  <2> QED BY <2>1, <2>2, <2>3, AppendPlaced
<1>11. u \in Seq(TokenType) /\ Len(u) <= 10
  BY <1>9 DEF IsWire
<1> HIDE DEF u
<1>12. Stream' = Stream \o u
  <2>1. buf \o (inflight \o u) = (buf \o inflight) \o u
    <3> DEFINE Q == Seq(TokenType)
    <3>1. buf \in Q /\ inflight \in Q /\ u \in Q
      BY <1>1, <1>11
    <3>2. \A a \in Q, b \in Q, c \in Q : (a \o b) \o c = a \o (b \o c)
      BY ConcatAssociative
    <3> HIDE DEF Q
    <3> QED BY <3>1, <3>2
  <2> QED BY <1>3, <2>1 DEF Stream, u
<1>13. /\ Len(Stream') = Len(Stream) + Len(u) /\ Len(u) \in Nat
       /\ \A i \in 1..Len(Stream) : i \in 1..Len(Stream') /\ Stream'[i] = Stream[i]
  <2>1. Len(u) \in Nat
    BY <1>11
  <2> QED BY <1>2, <1>11, <1>12, <2>1, ConcatProperties
<1>14. Placed(sent', Stream', q) /\ Len(Stream') <= 10 * Len(sent')
  <2>1. Len(Stream) <= 10 * Len(sent)
    BY <1>7 DEF InPlace
  <2> QED BY <1>2, <1>4, <1>10, <1>11, <1>12, <1>13, <2>1 DEF Appended
<1>15. state_' \in {"kExpectRequestLine", "kGotAll"} => AtStart(q)'
  <2>1. CASE Len(Stream) = 0
    BY <1>10, <2>1 DEF AtStart, Appended
  <2>2. CASE Len(Stream) # 0
    <3>1. 1 \in 1..Len(Stream)
      BY <1>2, <2>2
    <3> QED BY <1>3, <1>7, <1>10, <3>1 DEF InPlace, AtStart, Appended
  <2> QED BY <2>1, <2>2
<1>16. ASSUME 1 \in 1..Len(Stream), Stream[1].id = request_.id
       PROVE  1 \in 1..Len(Stream') /\ Stream'[1] = Stream[1] /\ q[1] = p[1] /\ Held' = Held
  <2>1. request_.id \in 1..Len(sent)
    BY <1>7, <1>16 DEF InPlace, Placed
  <2> QED BY <1>3, <1>4, <1>10, <1>13, <1>16, <2>1 DEF Held, WireOf, Appended
<1>17. state_' = "kExpectHeaders" => InHead(q)'
  BY <1>3, <1>7, <1>16 DEF InPlace, InHead
<1>18. state_' = "kExpectBody" => AtBody(q)'
  BY <1>3, <1>7, <1>16 DEF InPlace, AtBody, IsUpload
<1> QED BY <1>14, <1>15, <1>17, <1>18 DEF InPlace

(* Reading n tokens goes on in the same request or to the start of another.  *)
Advanced(p, n, q) ==
    LET w == WireOf(sent, Stream[1].id)
    IN  /\ Placed(sent', Stream', q) /\ Len(Stream') <= 10 * Len(sent')
        /\ p[1] + n <= Len(w) => 1 \in 1..Len(Stream') /\ Stream'[1].id = Stream[1].id /\ q[1] = p[1] + n
        /\ p[1] + n = Len(w) + 1 /\ 1 \in 1..Len(Stream') => q[1] = 1

LEMMA Advance ==
    ASSUME TypeInv, NEW p, InPlace(p), NEW n \in 1..Len(buf),
           buf' = After(buf, n), inflight' = inflight, sent' = sent
    PROVE  \E q : Advanced(p, n, q)
<1>1. /\ buf \in Seq(TokenType) /\ inflight \in Seq(TokenType) /\ Stream \in Seq(TokenType)
      /\ Len(Stream) = Len(buf) + Len(inflight) /\ Len(buf) \in Nat /\ Len(inflight) \in Nat
      /\ Len(sent) \in Nat
  BY StreamType DEF TypeInv
<1>2. Placed(sent, Stream, p) /\ Len(Stream) <= 10 * Len(sent) /\ n \in 0..Len(buf) /\ n \in 0..Len(Stream)
  BY <1>1 DEF InPlace
<1>3. Dropped(Stream, Stream', n)
  <2>1. Dropped(buf \o inflight, After(buf, n) \o inflight, n)
    BY <1>1, <1>2, Consumed
  <2> QED BY <2>1 DEF Stream
<1>4. PICK q : Moved(sent, Stream, Stream', p, n, q)
  BY <1>1, <1>2, <1>3, DropPlaced
<1>5. Len(Stream') = Len(Stream) - n /\ 1 \in 1..Len(Stream)
  BY <1>1, <1>3 DEF Dropped
<1>6. Placed(sent', Stream', q) /\ Len(Stream') <= 10 * Len(sent')
  BY <1>1, <1>2, <1>4, <1>5 DEF Moved
<1>7. 1 \in 1..Len(Stream') => 1 + n \in 1..Len(Stream) /\ Stream'[1] = Stream[1 + n] /\ q[1] = p[1 + n]
  BY <1>4 DEF Moved
<1> DEFINE w == WireOf(sent, Stream[1].id)
<1>8. /\ p[1] \in 1..Len(w) /\ Stream[1].id \in 1..Len(sent)
      /\ \A d \in 0..Len(w) - p[1] :
            1 + d \in 1..Len(Stream) /\ Stream[1 + d].id = Stream[1].id /\ p[1 + d] = p[1] + d
  BY <1>2, <1>5 DEF Placed
<1>9. Len(w) \in Nat
  BY <1>8, Fitted
<1>10. ASSUME p[1] + n <= Len(w)
       PROVE  1 \in 1..Len(Stream') /\ Stream'[1].id = Stream[1].id /\ q[1] = p[1] + n
  <2>1. n \in 0..Len(w) - p[1]
    BY <1>1, <1>8, <1>9, <1>10
  <2>2. 1 + n \in 1..Len(Stream) /\ Stream[1 + n].id = Stream[1].id /\ p[1 + n] = p[1] + n
    BY <1>8, <2>1
  <2>3. 1 \in 1..Len(Stream')
    BY <1>1, <1>5, <2>2
  <2> QED BY <1>7, <2>2, <2>3
<1>11. ASSUME p[1] + n = Len(w) + 1, 1 \in 1..Len(Stream') PROVE q[1] = 1
  <2> DEFINE d == n - 1
  <2>1. d \in 0..Len(w) - p[1] /\ 1 + d = n
    BY <1>1, <1>8, <1>9, <1>11
  <2>2. n \in 1..Len(Stream) /\ Stream[n].id = Stream[1].id /\ p[n] = p[1] + d
    <3> HIDE DEF d
    <3> QED BY <1>8, <2>1
  <2>3. p[n] = Len(w)
    BY <1>8, <1>9, <1>11, <2>1, <2>2
  <2>4. p[n] = Len(w) /\ n + 1 \in 1..Len(Stream) => p[n + 1] = 1
    BY <1>2, <2>2 DEF Placed
  <2>5. 1 + n = n + 1
    BY <1>1
  <2> QED BY <1>7, <1>11, <2>3, <2>4, <2>5
<1> QED BY <1>6, <1>10, <1>11 DEF Advanced

(* A request line: the first token of a request.                             *)
LEMMA RequestLinePlace ==
    ASSUME TypeInv, StreamInv, HeadInv, PlaceInv, ParseRequestLine
    PROVE  PlaceInv'
<1> SUFFICES ASSUME Sound' PROVE PlaceInv'
  BY DEF PlaceInv
<1>1. /\ HasLine(buf) /\ state_ = "kExpectRequestLine" /\ step = "parse"
      /\ UNCHANGED <<sent, inflight, connected>>
  BY DEF ParseRequestLine, Parsing, untouched, client
<1>2. Sound
  BY <1>1 DEF Sound
<1>3. buf \in Seq(TokenType) /\ request_ \in RequestType
  BY DEF TypeInv
<1>4. buf # <<>>
  BY <1>1, <1>3, FirstLine
<1>5. Tail(buf) = After(buf, 1) /\ Head(buf) = buf[1] /\ 1 \in 1..Len(buf)
  BY <1>3, <1>4, TailIsAfter
<1>6. Stream[1] = buf[1] /\ 1 \in 1..Len(Stream)
  BY <1>5, StreamType
<1>7. CASE Derailed
  <2>1. buf[1].kind \notin {"GET", "POST"}
    BY <1>6, <1>7 DEF Derailed, Unread
  <2>2. \/ buf' = buf /\ state_' = state_ /\ request_' = request_
        \/ ok' = FALSE /\ step' = "parsed"
    BY <1>5, <2>1 DEF ParseRequestLine, FirstLineKind
  <2>3. CASE buf' = buf /\ state_' = state_ /\ request_' = request_
    <3>1. Stream' = Stream
      BY <1>1, <2>3 DEF Stream
    <3> QED BY <1>1, <1>2, <2>3, <3>1, StaysPlaced
  <2> QED BY <2>2, <2>3 DEF Sound
<1> SUFFICES ASSUME ~Derailed PROVE PlaceInv'
  BY <1>7
<1>8. PICK p : InPlace(p)
  BY <1>2 DEF PlaceInv
<1>9. p[1] = 1 /\ Placed(sent, Stream, p)
  BY <1>1, <1>8, <1>6 DEF InPlace, AtStart
<1> DEFINE i == Stream[1].id
           w == WireOf(sent, i)
           m == HeadLen(w)
<1>10. i \in 1..Len(sent) /\ Stream[1] = w[1]
  BY <1>6, <1>9 DEF Placed
<1>11. w \in Seq(TokenType) /\ Len(w) \in Nat /\ m \in Nat /\ Fits(w, m)
  BY <1>2, <1>10, Fitted DEF Sound
<1> HIDE DEF w, m
<1>12. w[1].kind \in Starts /\ m >= 1 /\ Len(w) >= 2
  BY <1>11 DEF Fits
<1>13. NthLineEnd(buf, 1) = 1
  <2>1. buf[1].kind # "data"
    BY <1>6, <1>10, <1>12 DEF Starts
  <2> QED BY <1>1, <1>3, <2>1, FirstLine
<1> DEFINE a == [request_ EXCEPT !.method = MethodWord(buf[1].kind), !.id = buf[1].id]
<1>14. \/ /\ buf' = buf /\ state_' = state_ /\ request_' = request_ /\ step' = "aborted"
       \/ /\ buf[1].kind \in {"GET", "POST"} /\ request_' = a /\ buf' = Tail(buf)
          /\ state_' = "kExpectHeaders" /\ UNCHANGED <<step, ok>>
       \/ ok' = FALSE /\ step' = "parsed"
  BY <1>5, <1>13 DEF ParseRequestLine, FirstLineKind
<1>15. CASE buf' = buf /\ state_' = state_ /\ request_' = request_
  <2>1. Stream' = Stream
    BY <1>1, <1>15 DEF Stream
  <2> QED BY <1>1, <1>2, <1>15, <2>1, StaysPlaced
<1>16. CASE buf[1].kind \in {"GET", "POST"} /\ request_' = a /\ buf' = Tail(buf) /\ state_' = "kExpectHeaders"
  <2>1. request_'.id = i /\ request_'.method = MethodWord(w[1].kind) /\ request_'.fields = {}
    <3>1. request_.fields = {}
      BY <1>1 DEF HeadInv
    <3>2. a.id = buf[1].id /\ a.method = MethodWord(buf[1].kind) /\ a.fields = request_.fields
      <4> DEFINE b == MethodWord(buf[1].kind)
                 c == buf[1].id
      <4> HIDE DEF b, c
      <4>1. [request_ EXCEPT !.method = b, !.id = c].id = c
        BY <1>3 DEF RequestType
      <4>2. [request_ EXCEPT !.method = b, !.id = c].method = b
        BY <1>3 DEF RequestType
      <4>3. [request_ EXCEPT !.method = b, !.id = c].fields = request_.fields
        BY <1>3 DEF RequestType
      <4> QED BY <4>1, <4>2, <4>3 DEF b, c
    <3> HIDE DEF a
    <3> QED BY <1>6, <1>10, <1>16, <3>1, <3>2
  <2> HIDE DEF a
  <2>2. PICK q : Advanced(p, 1, q)
    BY <1>1, <1>2, <1>8, <1>5, <1>16, Advance DEF Sound
  <2>3. /\ Placed(sent', Stream', q) /\ Len(Stream') <= 10 * Len(sent')
        /\ 1 \in 1..Len(Stream') /\ Stream'[1].id = i /\ q[1] = 2
    BY <1>9, <1>11, <1>12, <2>2 DEF Advanced, w
  <2>4. Held' = w
    BY <1>1, <2>1 DEF Held, WireOf, w
  <2>5. InHead(q)'
    <3>1. 2 \in 2..m + 1
      BY <1>11, <1>12
    <3>2. {w[j] : j \in 2..q[1] - 1} = {}
      BY <2>3
    <3>3. w[1].kind \in {"GET", "POST"}
      BY <1>6, <1>10, <1>16
    <3> QED BY <2>1, <2>3, <2>4, <3>1, <3>2, <3>3 DEF InHead, m
  <2> QED BY <1>16, <2>3, <2>5 DEF PlaceInv, InPlace
<1> QED BY <1>14, <1>15, <1>16 DEF Sound

(* The next token, when it is one of the request that the parser holds.      *)
LEMMA Holding ==
    ASSUME TypeInv, NEW p, InPlace(p), 1 \in 1..Len(Stream), Stream[1].id = request_.id
    PROVE  /\ WireOf(sent, Stream[1].id) = Held /\ request_.id \in 1..Len(sent)
           /\ Len(Held) \in Nat /\ HeadLen(Held) \in Nat /\ Fits(Held, HeadLen(Held))
           /\ p[1] \in 1..Len(Held) /\ Stream[1] = Held[p[1]]
<1>1. Placed(sent, Stream, p)
  BY DEF InPlace
<1>2. /\ Stream[1].id \in 1..Len(sent)
      /\ p[1] \in 1..Len(WireOf(sent, Stream[1].id)) /\ Stream[1] = WireOf(sent, Stream[1].id)[p[1]]
  BY <1>1 DEF Placed
<1>3. WireOf(sent, Stream[1].id) = Held
  BY DEF Held
<1> QED BY <1>2, <1>3, Fitted

(* A header line, or the blank one after those of a GET.                     *)
LEMMA HeaderPlace ==
    ASSUME TypeInv, StreamInv, HeadInv, PlaceInv, ParseHeader
    PROVE  PlaceInv'
<1> SUFFICES ASSUME Sound' PROVE PlaceInv'
  BY DEF PlaceInv
<1> DEFINE end == NthLineEnd(buf, 1)
           x == buf[end]
           F == {f \in request_.fields : ~SameName(f, x)} \cup {x}
           blank == end = 1 /\ x.kind = "blank"
<1>1. /\ HasLine(buf) /\ state_ = "kExpectHeaders" /\ step = "parse" /\ buf' = After(buf, end)
      /\ UNCHANGED <<sent, inflight, connected>>
      /\ ~(blank /\ request_.method = "kPost")
      /\ \/ x.kind \in HasColon /\ request_' = [request_ EXCEPT !.fields = F] /\ state_' = state_
         \/ blank /\ state_' = "kGotAll" /\ request_' = request_
         \/ ok' = FALSE /\ step' = "parsed"
  BY DEF ParseHeader, Parsing, AddHeader, untouched, client
<1>2. Sound
  BY <1>1 DEF Sound
<1>3. PICK p : InPlace(p)
  BY <1>1, <1>2 DEF PlaceInv, Derailed
<1> DEFINE w == Held
           m == HeadLen(w)
<1>4. /\ 1 \in 1..Len(Stream) /\ Stream[1].id = request_.id /\ p[1] \in 2..m + 1
      /\ w[1].kind \in {"GET", "POST"} /\ request_.method = MethodWord(w[1].kind)
      /\ request_.fields = {w[i] : i \in 2..p[1] - 1}
  BY <1>1, <1>3 DEF InPlace, InHead
<1>5. /\ WireOf(sent, Stream[1].id) = w /\ Len(w) \in Nat /\ m \in Nat /\ Fits(w, m)
      /\ p[1] \in 1..Len(w) /\ Stream[1] = w[p[1]]
  BY <1>2, <1>3, <1>4, Holding DEF Sound
<1>6. buf \in Seq(TokenType) /\ request_ \in RequestType /\ Len(buf) \in Nat
  BY DEF TypeInv
<1>7. end \in 1..Len(buf) /\ (buf[1].kind # "data" => end = 1)
  BY <1>1, <1>6, FirstLine
<1>8. Stream[1] = buf[1] /\ 1 \in 1..Len(buf)
  <2>1. 1 \in 1..Len(buf)
    BY <1>6, <1>7
  <2> QED BY <2>1, StreamType
<1>9. Stream[1].kind \in Lead \cup {"blank"}
  BY <1>1, <1>2 DEF HeadInv, Sound, Ahead
<1>10. end = 1 /\ x = w[p[1]] /\ x.kind \in Lead \cup {"blank"}
  BY <1>5, <1>7, <1>8, <1>9 DEF Lead, Starts
<1>11. x.kind \in Lead <=> p[1] <= m
  BY <1>5, <1>10 DEF Fits
<1> HIDE DEF w, m
<1>12. PICK q : Advanced(p, 1, q)
  BY <1>1, <1>2, <1>3, <1>8, <1>10, Advance DEF Sound
<1>13. /\ Placed(sent', Stream', q) /\ Len(Stream') <= 10 * Len(sent')
       /\ p[1] + 1 <= Len(w) => 1 \in 1..Len(Stream') /\ Stream'[1].id = Stream[1].id /\ q[1] = p[1] + 1
       /\ p[1] + 1 = Len(w) + 1 /\ 1 \in 1..Len(Stream') => q[1] = 1
  BY <1>5, <1>12 DEF Advanced
<1>14. CASE x.kind \in HasColon /\ request_' = [request_ EXCEPT !.fields = F] /\ state_' = state_
  <2>1. p[1] <= m /\ m < Len(w)
    <3>1. x.kind # "blank"
      BY <1>14 DEF HasColon
    <3>2. m \in 1..Len(w) - 1
      BY <1>5 DEF Fits
    <3> QED BY <1>5, <1>10, <1>11, <3>1, <3>2
  <2>2. F = {w[i] : i \in 2..p[1]}
    <3>1. ASSUME NEW i \in 2..p[1] - 1 PROVE ~SameName(w[i], x)
      <4>1. i \in 2..m /\ p[1] \in 2..m /\ i # p[1]
        BY <1>4, <1>5, <2>1
      <4>2. \A j, k \in 2..m : SameName(w[j], w[k]) => j = k
        BY <1>5 DEF Fits
      <4> QED BY <1>10, <4>1, <4>2
    <3>2. \A i \in 2..p[1] : i = p[1] \/ i \in 2..p[1] - 1
      BY <1>4, <1>5
    <3>3. p[1] \in 2..p[1] /\ \A i \in 2..p[1] - 1 : i \in 2..p[1]
      BY <1>4, <1>5
    <3> HIDE DEF x
    <3> QED BY <1>4, <1>10, <3>1, <3>2, <3>3
  <2>3. F \in SUBSET TokenType
    <3>1. x \in TokenType
      BY <1>6, <1>7, ElementOfSeq
    <3> HIDE DEF x
    <3> QED BY <1>6, <3>1 DEF RequestType
  <2> HIDE DEF F
  <2>4. request_'.id = request_.id /\ request_'.method = request_.method /\ request_'.fields = F
    BY <1>6, <1>14 DEF RequestType
  <2>5. 1 \in 1..Len(Stream') /\ Stream'[1].id = request_.id /\ q[1] = p[1] + 1 /\ q[1] \in 2..m + 1
    <3>1. m \in Nat /\ Len(w) \in Nat /\ p[1] \in 2..Len(w)
      BY <1>4, <1>5
    <3>2. p[1] + 1 <= Len(w) /\ p[1] + 1 \in 2..m + 1
      BY <2>1, <3>1
    <3> QED BY <1>4, <1>13, <3>2
  <2>6. request_'.fields = {w[i] : i \in 2..q[1] - 1}
    <3>1. q[1] - 1 = p[1]
      BY <1>5, <2>5
    <3> QED BY <2>2, <2>4, <3>1
  <2>7. Held' = w
    BY <1>1, <2>4 DEF Held, WireOf, w
  <2>8. InHead(q)'
    BY <1>4, <2>4, <2>5, <2>6, <2>7 DEF InHead, m
  <2> QED BY <1>1, <1>13, <1>14, <2>8 DEF PlaceInv, InPlace
<1>15. CASE blank /\ state_' = "kGotAll"
  <2>1. w[1].kind = "GET"
    BY <1>1, <1>4, <1>15 DEF MethodWord
  <2>2. ~(x.kind \in Lead)
    BY <1>15 DEF Lead, Starts
  <2>3. p[1] = m + 1 /\ (Len(w) = m + 1 \/ m + 2 \in m + 2..Len(w))
    BY <1>4, <1>5, <1>11, <2>2 DEF Fits
  <2>4. CASE Len(w) = m + 1
    <3>1. AtStart(q)'
      BY <1>13, <2>3, <2>4 DEF AtStart
    <3> QED BY <1>13, <1>15, <3>1 DEF PlaceInv, InPlace
  <2>5. CASE m + 2 \in m + 2..Len(w)
    <3>1. w[m + 2].kind = "data" /\ m + 2 \in 1..Len(w)
      BY <1>5, <2>1, <2>5 DEF Fits
    <3>2. 1 \in 1..Len(Stream') /\ Stream'[1].id = request_.id /\ q[1] = m + 2
      BY <1>4, <1>5, <1>13, <2>3, <2>5
    <3>3. request_.id \in 1..Len(sent) /\ w = Wire(sent[request_.id], request_.id)
      BY <1>3, <1>4, Holding DEF w, Held, WireOf
    <3>4. Stream'[1] = w[m + 2]
      BY <1>1, <1>13, <3>2, <3>3 DEF Placed, WireOf
    <3>5. sent[request_.id] = "getBody"
      <4>1. sent[request_.id] \in Kinds /\ request_.id \in 0..MaxRequests
        BY <3>3, <1>6 DEF TypeInv, RequestType
      <4>2. ~Bodiless(w)
        BY <2>1, <3>1 DEF Bodiless
      <4> QED BY <3>3, <4>1, <4>2, WireFits
    <3>6. Derailed'
      BY <1>1, <1>15, <3>1, <3>2, <3>3, <3>4, <3>5 DEF Derailed, Unread
    <3> QED BY <3>6 DEF PlaceInv
  <2> QED BY <2>3, <2>4, <2>5
<1> QED BY <1>1, <1>14, <1>15 DEF Sound

(* A request has one length: the fields of its head have different names.    *)
LEMMA OneLength ==
    ASSUME TypeInv, NEW p, InPlace(p), state_ = "kExpectHeaders",
           NEW f \in request_.fields, NEW g \in request_.fields, f.kind = "length", g.kind = "length"
    PROVE  f = g
<1> DEFINE w == Held
           m == HeadLen(w)
<1>1. 1 \in 1..Len(Stream) /\ Stream[1].id = request_.id /\ p[1] \in 2..m + 1
      /\ request_.fields = {w[i] : i \in 2..p[1] - 1}
  BY DEF InPlace, InHead
<1>2. m \in Nat /\ Fits(w, m)
  BY <1>1, Holding
<1> HIDE DEF w, m
<1>3. PICK i \in 2..p[1] - 1 : f = w[i]
  BY <1>1
<1>4. PICK j \in 2..p[1] - 1 : g = w[j]
  BY <1>1
<1>5. i \in 2..m /\ j \in 2..m
  BY <1>1, <1>2
<1>6. SameName(w[i], w[j])
  BY <1>3, <1>4 DEF SameName
<1>7. \A x, y \in 2..m : SameName(w[x], w[y]) => x = y
  BY <1>2 DEF Fits
<1> QED BY <1>3, <1>4, <1>5, <1>6, <1>7

(* The blank line after the headers of a POST.                               *)
LEMMA EndOfPostPlace ==
    ASSUME TypeInv, StreamInv, HeadInv, PlaceInv, EndOfPostHeaders
    PROVE  Sound' => \E q : InPlace(q)'
<1> SUFFICES ASSUME Sound' PROVE \E q : InPlace(q)'
  OBVIOUS
<1>1. /\ state_ = "kExpectHeaders" /\ step = "parse" /\ buf # <<>> /\ Head(buf).kind = "blank"
      /\ (\A f \in LengthFields : f.kind = "length") /\ buf' = Tail(buf)
      /\ UNCHANGED <<sent, inflight, connected>>
      /\ \/ ok' = FALSE /\ step' = "parsed"
         \/ \E f \in LengthFields :
               /\ request_' = [request_ EXCEPT !.length = f.n]
               /\ IF f.n > 0 THEN state_' = "kExpectBody" ELSE state_' = "kGotAll"
  BY DEF EndOfPostHeaders, Parsing, untouched, client
<1>2. Sound
  BY <1>1 DEF Sound
<1>3. PICK p : InPlace(p)
  BY <1>1, <1>2 DEF PlaceInv, Derailed
<1> DEFINE w == Held
           m == HeadLen(w)
<1>4. buf \in Seq(TokenType) /\ request_ \in RequestType
  BY DEF TypeInv
<1>5. Tail(buf) = After(buf, 1) /\ Head(buf) = buf[1] /\ 1 \in 1..Len(buf)
  BY <1>1, <1>4, TailIsAfter
<1>6. Stream[1] = buf[1] /\ 1 \in 1..Len(Stream)
  BY <1>5, StreamType
<1>7. Stream[1].id = request_.id /\ p[1] \in 2..m + 1 /\ request_.fields = {w[i] : i \in 2..p[1] - 1}
  BY <1>1, <1>3 DEF InPlace, InHead
<1>8. /\ WireOf(sent, Stream[1].id) = w /\ Len(w) \in Nat /\ m \in Nat /\ Fits(w, m)
      /\ p[1] \in 1..Len(w) /\ Stream[1] = w[p[1]]
  BY <1>2, <1>3, <1>6, <1>7, Holding DEF Sound
<1> HIDE DEF w, m
<1>9. p[1] = m + 1
  <2>1. w[p[1]].kind \notin Lead
    BY <1>1, <1>5, <1>6, <1>8 DEF Lead, Starts
  <2>2. ~(p[1] <= m)
    BY <1>8, <2>1 DEF Fits
  <2> QED BY <1>7, <1>8, <2>2
<1>10. request_.fields = {w[i] : i \in 2..m}
  <2>1. p[1] - 1 = m
    BY <1>8, <1>9
  <2> QED BY <1>7, <2>1
<1>11. PICK q : Advanced(p, 1, q)
  BY <1>1, <1>2, <1>3, <1>5, Advance DEF Sound
<1>12. /\ Placed(sent', Stream', q) /\ Len(Stream') <= 10 * Len(sent')
       /\ p[1] + 1 <= Len(w) => 1 \in 1..Len(Stream') /\ Stream'[1].id = Stream[1].id /\ q[1] = p[1] + 1
       /\ p[1] + 1 = Len(w) + 1 /\ 1 \in 1..Len(Stream') => q[1] = 1
  BY <1>8, <1>11 DEF Advanced
<1>13. ASSUME NEW f \in LengthFields, request_' = [request_ EXCEPT !.length = f.n],
              IF f.n > 0 THEN state_' = "kExpectBody" ELSE state_' = "kGotAll"
       PROVE  InPlace(q)'
  <2>1. f \in request_.fields /\ f.kind = "length"
    BY <1>1 DEF LengthFields
  <2>2. LengthFits(w, m, f.n)
    <3>1. PICK i \in 2..m : f = w[i]
      BY <1>10, <2>1
    <3> QED BY <1>8, <2>1, <3>1 DEF Fits
  <2>3. f.n \in Nat
    BY <1>4, <2>1 DEF RequestType, TokenType
  <2> DEFINE n == f.n
  <2> HIDE DEF n
  <2>4. request_' = [request_ EXCEPT !.length = n]
    BY <1>13 DEF n
  <2>5. request_'.id = request_.id /\ request_'.fields = request_.fields /\ request_'.length = n
    BY <1>4, <2>4 DEF RequestType
  <2>6. CASE n > 0
    <3>1. Len(w) > m + 1 /\ BodyFits(w, m, n) /\ state_' = "kExpectBody"
      BY <1>13, <2>2, <2>6 DEF LengthFits, n
    <3>2. 1 \in 1..Len(Stream') /\ Stream'[1].id = request_.id /\ q[1] = m + 2
      BY <1>7, <1>8, <1>9, <1>12, <3>1
    <3>3. Held' = w
      BY <1>1, <2>5 DEF Held, WireOf, w
    <3>4. IsUpload' <=> IsMultipart(w, m)
      BY <1>10, <2>5 DEF IsUpload, IsMultipart
    <3>5. \A g \in request_'.fields : g.kind = "length" => g.n = request_'.length
      BY <1>1, <1>3, <2>1, <2>5, OneLength DEF InPlace, n
    <3>6. AtBody(q)'
      BY <2>5, <3>1, <3>2, <3>3, <3>4, <3>5 DEF AtBody, m
    <3> QED BY <1>12, <3>1, <3>6 DEF InPlace
  <2>7. CASE ~(n > 0)
    <3>1. Len(w) = m + 1 /\ state_' = "kGotAll"
      BY <1>13, <2>2, <2>7 DEF LengthFits, n
    <3>2. AtStart(q)'
      BY <1>8, <1>9, <1>12, <3>1 DEF AtStart
    <3> QED BY <1>12, <3>1, <3>2 DEF InPlace
  <2> QED BY <2>6, <2>7
<1> QED BY <1>1, <1>13 DEF Sound

(* No body is as long as the length that cannot be reached.                  *)
LEMMA NeverReached ==
    ASSUME TypeInv, NEW p, InPlace(p), ~BodyIncomplete
    PROVE  request_.length # Unreachable
<1>1. /\ Len(Stream) = Len(buf) + Len(inflight) /\ Len(buf) \in Nat /\ Len(inflight) \in Nat
      /\ Len(Stream) <= 10 * Len(sent) /\ Len(sent) \in Nat /\ Len(sent) <= MaxRequests /\ MaxRequests \in Nat
  BY StreamType, ConnectionAssumption DEF InPlace, TypeInv, ConnectionAssumption
<1>2. Len(buf) < Unreachable
  BY <1>1 DEF Unreachable
<1> QED BY <1>2 DEF BodyIncomplete

(* A body that is counted.                                                   *)
LEMMA BodyPlace ==
    ASSUME TypeInv, StreamInv, PlaceInv, ParseBody
    PROVE  Sound' => \E q : InPlace(q)'
<1> SUFFICES ASSUME Sound' PROVE \E q : InPlace(q)'
  OBVIOUS
<1> DEFINE n == request_.length
           w == Held
           m == HeadLen(w)
<1>1. /\ state_ = "kExpectBody" /\ step = "parse" /\ ~BodyIncomplete /\ ~IsUpload
      /\ buf' = After(buf, n) /\ state_' = "kGotAll" /\ UNCHANGED <<sent, inflight, connected>>
  BY DEF ParseBody, Parsing, untouched, client, AfterBody
<1>2. Sound
  BY <1>1 DEF Sound
<1>3. PICK p : InPlace(p)
  BY <1>1, <1>2 DEF PlaceInv, Derailed
<1>4. /\ 1 \in 1..Len(Stream) /\ Stream[1].id = request_.id /\ p[1] = m + 2
      /\ BodyFits(w, m, n) /\ (IsUpload <=> IsMultipart(w, m))
  BY <1>1, <1>3 DEF InPlace, AtBody
<1>5. WireOf(sent, Stream[1].id) = w /\ Len(w) \in Nat /\ m \in Nat /\ p[1] \in 1..Len(w)
  BY <1>2, <1>3, <1>4, Holding DEF Sound
<1> HIDE DEF w, m
<1>6. n = Len(w) - (m + 1)
  BY <1>1, <1>3, <1>4, NeverReached DEF BodyFits
<1>7. n \in 1..Len(buf)
  <2>1. n \in Nat /\ Len(buf) \in Nat
    BY DEF TypeInv, RequestType
  <2>2. ~(Len(buf) < n)
    BY <1>1 DEF BodyIncomplete
  <2>3. n >= 1
    BY <1>4, <1>5, <1>6
  <2> HIDE DEF n
  <2> QED BY <2>1, <2>2, <2>3
<1> HIDE DEF n
<1>8. PICK q : Advanced(p, n, q)
  BY <1>1, <1>2, <1>3, <1>7, Advance DEF Sound
<1>9. p[1] + n = Len(w) + 1
  BY <1>4, <1>5, <1>6
<1>10. /\ Placed(sent', Stream', q) /\ Len(Stream') <= 10 * Len(sent')
       /\ 1 \in 1..Len(Stream') => q[1] = 1
  BY <1>5, <1>8, <1>9 DEF Advanced
<1> QED BY <1>1, <1>10 DEF InPlace, AtStart

(* A multipart body: a boundary ends its first part only in an upload, and   *)
(* the rest of that boundary is the next token.                              *)
LEMMA MultipartPlace ==
    ASSUME TypeInv, StreamInv, PlaceInv, ParseMultipart
    PROVE  PlaceInv'
<1> DEFINE w == Held
           m == HeadLen(w)
           C == ClosingBoundaries
           i == CHOOSE k \in C : \A j \in C : k <= j
           parsed == Cardinality(LineEnds(buf)) >= 4 /\ C # {}
<1>1. /\ state_ = "kExpectBody" /\ step = "parse" /\ IsUpload
      /\ ok' = parsed /\ step' = "parsed" /\ state_' = "kGotAll"
      /\ parsed => buf' = <<Token("rest", buf[i].id)>> \o After(buf, i)
      /\ UNCHANGED <<sent, inflight, connected>>
  BY DEF ParseMultipart, Parsing, untouched, client
<1> HIDE DEF i
<1> SUFFICES ASSUME Sound', parsed PROVE Derailed'
  BY <1>1 DEF PlaceInv, Sound
<1>2. Sound
  BY <1>1 DEF Sound
<1>3. PICK p : InPlace(p)
  BY <1>1, <1>2 DEF PlaceInv, Derailed
<1>4. 1 \in 1..Len(Stream) /\ Stream[1].id = request_.id
  BY <1>1, <1>3 DEF InPlace, AtBody
<1>5. WireOf(sent, Stream[1].id) = w /\ request_.id \in 1..Len(sent)
  BY <1>3, <1>4, Holding
<1>6. buf \in Seq(TokenType) /\ Len(buf) \in Nat
  BY DEF TypeInv
<1>7. NthLineEnd(buf, 4) \in 1..Len(buf)
  <2>1. 4 \in Nat \ {0} /\ 4 <= Cardinality(LineEnds(buf))
    <3>1. Cardinality(LineEnds(buf)) \in Nat
      <4>1. LineEnds(buf) \subseteq 1..Len(buf)
        BY <1>6 DEF LineEnds
      <4>2. IsFiniteSet(1..Len(buf))
        BY <1>6, FS_Interval
      <4>3. IsFiniteSet(LineEnds(buf))
        BY <4>1, <4>2, FS_Subset
      <4> QED BY <4>3, FS_CardinalityType
    <3> QED BY <3>1
  <2> QED BY <1>6, <2>1, NthLineEndIs
<1>8. \A k \in C : k \in 2..Len(buf) /\ Head(buf).kind \in Bounds /\ buf[k].kind \in Bounds /\ buf[k].id = Head(buf).id
  BY <1>6, <1>7 DEF ClosingBoundaries, Bounds
<1>9. i \in C
  <2>1. C \subseteq Nat /\ C # {}
    BY <1>6, <1>8
  <2>2. \E k \in C : \A j \in C : k <= j
    <3> HIDE DEF C
    <3> QED BY <2>1, Least
  <2> QED BY <2>2 DEF i
<1> HIDE DEF C
<1>10. i \in 2..Len(buf) /\ i \in 1..Len(buf) /\ 1 \in 1..Len(buf) /\ Stream[i] = buf[i] /\ Stream[1] = buf[1] /\ Head(buf) = buf[1]
  <2>1. i \in 2..Len(buf)
    BY <1>8, <1>9
  <2>2. i \in 1..Len(buf) /\ 1 \in 1..Len(buf) /\ buf # <<>>
    BY <1>6, <2>1
  <2> QED BY <1>6, <2>1, <2>2, StreamType, TailIsAfter
<1>11. Stream[1].kind \in Bounds /\ Stream[i].kind \in Bounds /\ Stream[i].id = Stream[1].id
  BY <1>8, <1>9, <1>10
<1> HIDE DEF w
<1>12. /\ p[1] \in 1..Len(w) /\ p[i] \in 1..Len(w) /\ p[1] < p[i]
       /\ w[p[1]].kind \in Bounds /\ w[p[i]].kind \in Bounds
  <2>1. i \in 1..Len(Stream) /\ i \in 1 + 1..Len(Stream)
    <3>1. i \in 1..Len(Stream)
      BY <1>10, StreamType
    <3> QED BY <1>10, <3>1
  <2>2. Placed(sent, Stream, p)
    BY <1>3 DEF InPlace
  <2>3. p[1] \in 1..Len(w) /\ Stream[1] = w[p[1]] /\ p[1] < p[i]
    BY <1>4, <1>5, <1>11, <2>1, <2>2 DEF Placed
  <2>4. p[i] \in 1..Len(w) /\ Stream[i] = w[p[i]]
    BY <1>5, <1>11, <2>1, <2>2 DEF Placed
  <2> QED BY <1>11, <2>3, <2>4
<1>13. ~Unended(w)
  <2>1. p[1] # p[i]
    BY <1>12
  <2> QED BY <1>12, <2>1 DEF Unended
<1>14. sent[request_.id] = "upload"
  <2>1. sent[request_.id] \in Kinds /\ request_.id \in 0..MaxRequests
    BY <1>5 DEF TypeInv, RequestType
  <2> QED BY <1>13, <2>1, WireFits DEF w, Held, WireOf
<1>15. buf[i].id = request_.id
  BY <1>4, <1>10, <1>11
<1> DEFINE r == Token("rest", request_.id)
           a == After(buf, i)
<1>16. r \in TokenType /\ r.kind = "rest" /\ r.id = request_.id
  BY DEF TypeInv, RequestType, Token, TokenType, TokenKinds
<1>17. a \in Seq(TokenType)
  <2>1. i \in 0..Len(buf)
    BY <1>6, <1>10
  <2> QED BY <1>6, <2>1, AfterIs DEF Dropped
<1> HIDE DEF r, a
<1>18. Stream' = (<<r>> \o a) \o inflight
  BY <1>1, <1>15 DEF Stream, r, a
<1>19. 1 \in 1..Len(Stream') /\ Stream'[1] = r
  <2>1. <<r>> \in Seq(TokenType) /\ Len(<<r>>) = 1 /\ <<r>>[1] = r /\ inflight \in Seq(TokenType)
    BY <1>16 DEF TypeInv
  <2>2. /\ <<r>> \o a \in Seq(TokenType) /\ Len(<<r>> \o a) = Len(<<r>>) + Len(a)
        /\ \A k \in 1..Len(<<r>>) + Len(a) : (<<r>> \o a)[k] = IF k <= Len(<<r>>) THEN <<r>>[k] ELSE a[k - Len(<<r>>)]
    BY <1>17, <2>1, ConcatProperties
  <2> DEFINE b == <<r>> \o a
  <2>3. b \in Seq(TokenType) /\ Len(b) \in Nat /\ Len(b) >= 1 /\ b[1] = r
    <3>1. Len(a) \in Nat
      BY <1>17
    <3> QED BY <2>1, <2>2, <3>1
  <2> HIDE DEF b
  <2>4. /\ Len(b \o inflight) = Len(b) + Len(inflight) /\ Len(inflight) \in Nat
        /\ \A k \in 1..Len(b) + Len(inflight) : (b \o inflight)[k] = IF k <= Len(b) THEN b[k] ELSE inflight[k - Len(b)]
    BY <2>1, <2>3, ConcatProperties
  <2>5. 1 \in 1..Len(b \o inflight) /\ (b \o inflight)[1] = r
    BY <2>3, <2>4
  <2> QED BY <1>18, <2>5 DEF b
<1> QED BY <1>1, <1>5, <1>14, <1>16, <1>19 DEF Derailed, Unread

(* The parser has returned.                                                  *)
LEMMA FinishPlace ==
    ASSUME TypeInv, StreamInv, PlaceInv, FinishOnMessage
    PROVE  PlaceInv'
<1> SUFFICES ASSUME Sound' PROVE PlaceInv'
  BY DEF PlaceInv
<1>1. Stream' = Stream /\ sent' = sent /\ step = "parsed"
  BY FinishType
<1>2. connected /\ ok
  <2>1. ok \in BOOLEAN /\ connected \in BOOLEAN /\ connected' = TRUE
    BY DEF TypeInv, Sound, FinishOnMessage, OnRequest, Shutdown
  <2>2. CASE state_ = "kGotAll"
    <3>1. \E close \in BOOLEAN : connected' = (connected /\ ~(close \/ ~(ok /\ connected)))
      BY <2>2 DEF FinishOnMessage, OnRequest, Shutdown
    <3> QED BY <2>1, <3>1
  <2>3. CASE state_ # "kGotAll"
    <3>1. connected' = (connected /\ ~(~ok))
      BY <2>3 DEF FinishOnMessage, Shutdown
    <3> QED BY <2>1, <3>1
  <2> QED BY <2>2, <2>3
<1>3. Sound
  BY <1>1, <1>2 DEF Sound
<1>4. CASE request_' = request_ /\ state_' = state_
  BY <1>1, <1>3, <1>4, StaysPlaced
<1>5. CASE state_ = "kGotAll" /\ state_' = "kExpectRequestLine"
  <2>1. CASE Derailed
    BY <1>1, <1>5, <2>1 DEF Derailed, Unread, PlaceInv
  <2>2. ASSUME NEW p, InPlace(p) PROVE InPlace(p)'
    BY <1>1, <1>5, <2>2 DEF InPlace, AtStart
  <2> QED BY <1>3, <2>1, <2>2 DEF PlaceInv
<1> QED BY <1>4, <1>5, FinishType

LEMMA ParsePlace ==
    ASSUME TypeInv, StreamInv, HeadInv, PlaceInv, ParseRequest
    PROVE  PlaceInv'
<1>1. CASE ParseNoLine \/ ParseBodyWait
  <2>1. /\ UNCHANGED <<sent, buf, inflight, connected, state_, request_>> /\ step = "parse"
    BY <1>1 DEF ParseNoLine, ParseBodyWait, Parsing, untouched, client
  <2>2. Stream' = Stream
    BY <2>1 DEF Stream
  <2>3. Sound' => Sound
    BY <2>1 DEF Sound
  <2> QED BY <2>1, <2>2, <2>3, StaysPlaced DEF PlaceInv
<1>2. CASE ParseThrows
  <2>1. connected' = FALSE
    BY <1>2 DEF ParseThrows, Shutdown
  <2> QED BY <2>1 DEF PlaceInv, Sound
<1> QED BY <1>1, <1>2, RequestLinePlace, HeaderPlace, EndOfPostPlace, BodyPlace, MultipartPlace
        DEF ParseRequest, PlaceInv

LEMMA PlaceInductive ==
    /\ Init => PlaceInv
    /\ TypeInv /\ StreamInv /\ HeadInv /\ PlaceInv /\ [Next]_vars => PlaceInv'
<1>1. Init => PlaceInv
  <2> SUFFICES ASSUME Init PROVE InPlace(<<>>)
    BY DEF PlaceInv
  <2>1. Len(buf) = 0 /\ Len(inflight) = 0 /\ Len(sent) = 0 /\ TypeInv
    BY InitType DEF Init
  <2>2. Len(Stream) = 0
    BY <2>1, StreamType
  <2> QED BY <2>1, <2>2 DEF Init, InPlace, Placed, AtStart
<1>2. TypeInv /\ StreamInv /\ HeadInv /\ PlaceInv /\ [Next]_vars => PlaceInv'
  <2> SUFFICES ASSUME TypeInv, StreamInv, HeadInv, PlaceInv, [Next]_vars PROVE PlaceInv'
    OBVIOUS
  <2>1. CASE Receive
    <3>1. Stream' = Stream /\ UNCHANGED <<sent, state_, request_, connected>> /\ step = "loop"
      BY <2>1, ReceiveType DEF Receive
    <3>2. Sound' => Sound
      BY <3>1 DEF Sound
    <3> QED BY <3>1, <3>2, StaysPlaced DEF PlaceInv
  <2>2. CASE ParseRequest
    BY <2>2, ParsePlace
  <2>3. CASE FinishOnMessage
    BY <2>3, FinishPlace
  <2>4. ASSUME NEW kind \in Kinds, Send(kind) PROVE PlaceInv'
    BY <2>4, SendPlace
  <2>5. CASE UNCHANGED vars
    <3>1. Stream' = Stream /\ UNCHANGED <<sent, state_, request_, connected, step, ok>>
      BY <2>5, StutterType DEF vars
    <3>2. Sound' => Sound
      BY <3>1 DEF Sound
    <3> QED BY <3>1, <3>2, StaysPlaced DEF PlaceInv
  <2> QED BY <2>1, <2>2, <2>3, <2>4, <2>5 DEF Next, Server
<1> QED BY <1>1, <1>2

(* Between two requests the next token an open connection reads is the first *)
(* of a request, or what is left of an upload's last boundary, or the body   *)
(* of a GET or DELETE, whichever of the requests of RequestKinds come and    *)
(* however TCP cuts them (HttpContext::parseRequest, HttpServer::onMessage). *)
THEOREM InStepCorrect == Spec => []InStep
<1> QED BY InitType, TypesInductive, HeadInductive, PlaceInductive, PlaceInvOK, PTL DEF Spec

-----------------------------------------------------------------------------
(* The method.  While nothing is refused none is set when a request line is  *)
(* looked for, so setMethod asserts only after a refusal, which shuts down.  *)
MethodInv ==
    /\ Sound /\ state_ = "kExpectRequestLine" => request_.method = "kInvalid"
    /\ aborted => ~connected

LEMMA MethodInductive ==
    /\ Init => MethodInv
    /\ TypeInv /\ StreamInv /\ MethodInv /\ [Next]_vars => MethodInv'
<1>1. Init => MethodInv
  BY DEF Init, NoRequest, MethodInv
<1>2. TypeInv /\ StreamInv /\ MethodInv /\ [Next]_vars => MethodInv'
  <2> SUFFICES ASSUME TypeInv, StreamInv, MethodInv, [Next]_vars PROVE MethodInv'
    OBVIOUS
  <2>1. CASE Receive
    BY <2>1 DEF Receive, MethodInv, Sound
  <2>2. CASE ParseRequest
    <3>1. CASE ParseRequestLine
      <4>1. /\ step = "parse" /\ state_ = "kExpectRequestLine" /\ connected' = connected
            /\ \/ request_.method # "kInvalid"
               \/ state_' = "kExpectHeaders" /\ aborted' = aborted
               \/ ok' = FALSE /\ step' = "parsed" /\ aborted' = aborted
        BY <3>1 DEF ParseRequestLine, Parsing, untouched
      <4> QED BY <4>1 DEF MethodInv, Sound
    <3>2. CASE ParseNoLine \/ ParseBodyWait
      BY <3>2 DEF ParseNoLine, ParseBodyWait, Parsing, untouched, MethodInv, Sound
    <3>3. CASE ParseThrows
      <4>1. connected' = FALSE
        BY <3>3 DEF ParseThrows, Shutdown
      <4> QED BY <4>1 DEF MethodInv, Sound
    <3>4. CASE ParseHeader \/ EndOfPostHeaders \/ ParseBody \/ ParseMultipart
      <4>1. state_' # "kExpectRequestLine" /\ UNCHANGED <<connected, aborted>>
        BY <3>4 DEF ParseHeader, EndOfPostHeaders, ParseBody, ParseMultipart, Parsing, untouched
      <4> QED BY <4>1 DEF MethodInv
    <3> QED BY <2>2, <3>1, <3>2, <3>3, <3>4 DEF ParseRequest
  <2>3. CASE FinishOnMessage
    <3>1. Says /\ aborted' = aborted
      BY <2>3, FinishType DEF FinishOnMessage
    <3>2. connected' => connected
      BY <3>1 DEF Says
    <3>3. CASE request_' = request_ /\ state_' = state_ /\ (connected' => ok)
      BY <3>1, <3>2, <3>3 DEF MethodInv, Sound
    <3>4. CASE request_' = Reset(request_)
      <4>1. request_'.method = "kInvalid"
        BY <3>4, RequestFields DEF TypeInv
      <4> QED BY <3>1, <3>2, <4>1 DEF MethodInv
    <3> QED BY <2>3, <3>3, <3>4, FinishType
  <2>4. ASSUME NEW kind \in Kinds, Send(kind) PROVE MethodInv'
    BY <2>4 DEF Send, MethodInv, Sound
  <2>5. CASE UNCHANGED vars
    BY <2>5 DEF vars, MethodInv, Sound
  <2> QED BY <2>1, <2>2, <2>3, <2>4, <2>5 DEF Next, Server
<1> QED BY <1>1, <1>2

(* HttpRequest::setMethod's assertion that no method is set can fail only    *)
(* for what arrives on a connection that is already shut down.               *)
THEOREM AssertsCorrect == Spec => []AssertsOnlyWhenShut
<1>1. MethodInv => AssertsOnlyWhenShut
  BY DEF MethodInv, AssertsOnlyWhenShut
<1> QED BY <1>1, InitType, TypesInductive, MethodInductive, PTL DEF Spec

-----------------------------------------------------------------------------
(* The body.  When a POST that is not a multipart is complete and none of it *)
(* was refused, the length its header told has been read and is its own.     *)
Counted(r) ==
    r.method = "kPost" /\ (\A f \in r.fields : f.kind # "multipart") =>
        \A f \in r.fields : f.kind = "length" /\ f.n > 0 =>
            r.length = f.n /\ Len(r.body) = f.n /\ \A j \in 1..Len(r.body) : r.body[j].id = r.id
BodyInv ==
    /\ Sound /\ state_ = "kGotAll" => Counted(request_)
    /\ \A i \in 1..Len(handled) : handled[i].served => Counted(handled[i])

LEMMA BodyInvOK == TypeInv /\ BodyInv => CountedBodyIsOwn
<1> SUFFICES ASSUME TypeInv, BodyInv, NEW i \in DOMAIN handled, handled[i].served,
                    handled[i].method = "kPost",
                    ~(\E f \in handled[i].fields : f.kind = "multipart"),
                    NEW f \in handled[i].fields, f.kind = "length", f.n > 0
             PROVE  /\ handled[i].length = f.n /\ Len(handled[i].body) = f.n
                    /\ \A j \in DOMAIN handled[i].body : handled[i].body[j].id = handled[i].id
  BY DEF CountedBodyIsOwn
<1>1. i \in 1..Len(handled) /\ handled[i] \in HandledType
  BY DEF TypeInv
<1>2. DOMAIN handled[i].body = 1..Len(handled[i].body)
  BY <1>1 DEF HandledType
<1>3. Counted(handled[i])
  BY <1>1 DEF BodyInv
<1> QED BY <1>2, <1>3 DEF Counted

(* A request complete after its header lines is no POST.                     *)
LEMMA HeaderCounted ==
    ASSUME ParseHeader, state_' = "kGotAll"
    PROVE  Counted(request_')
<1> DEFINE end == NthLineEnd(buf, 1)
           blank == end = 1 /\ buf[end].kind = "blank"
<1>1. /\ state_ = "kExpectHeaders" /\ ~(blank /\ request_.method = "kPost")
      /\ state_' = state_ \/ (blank /\ request_' = request_)
  BY DEF ParseHeader, Parsing
<1> QED BY <1>1 DEF Counted

(* A POST whose length is none is complete after its head.                   *)
LEMMA EndOfPostCounted ==
    ASSUME TypeInv, StreamInv, PlaceInv, Sound, EndOfPostHeaders, state_' = "kGotAll"
    PROVE  Counted(request_')
<1>1. /\ state_ = "kExpectHeaders"
      /\ \/ state_' = state_
         \/ \E f \in LengthFields :
               /\ request_' = [request_ EXCEPT !.length = f.n]
               /\ f.n > 0 => state_' = "kExpectBody"
  BY DEF EndOfPostHeaders, Parsing
<1>2. PICK f \in LengthFields : request_' = [request_ EXCEPT !.length = f.n] /\ ~(f.n > 0)
  BY <1>1
<1>3. PICK p : InPlace(p)
  BY <1>1 DEF PlaceInv, Derailed
<1>4. f \in request_.fields /\ f.kind = "length"
  BY DEF LengthFields, EndOfPostHeaders
<1>5. request_'.fields = request_.fields
  BY <1>2 DEF TypeInv, RequestType
<1>6. \A g \in request_.fields : g.kind = "length" => g = f
  BY <1>1, <1>3, <1>4, OneLength
<1> QED BY <1>2, <1>5, <1>6 DEF Counted

(* A body that is counted is what is left of its request.                    *)
LEMMA BodyCounted ==
    ASSUME TypeInv, StreamInv, PlaceInv, Sound, ParseBody
    PROVE  Counted(request_')
<1> DEFINE n == request_.length
           w == Held
           m == HeadLen(w)
           b == SubSeq(buf, 1, n)
<1>1. /\ state_ = "kExpectBody" /\ ~BodyIncomplete /\ ~IsUpload
      /\ request_' = [request_ EXCEPT !.body = b]
  BY DEF ParseBody, Parsing, TakenBody
<1>2. PICK p : InPlace(p)
  BY <1>1 DEF PlaceInv, Derailed
<1>3. /\ 1 \in 1..Len(Stream) /\ Stream[1].id = request_.id /\ p[1] = m + 2
      /\ \A f \in request_.fields : f.kind = "length" => f.n = n
      /\ BodyFits(w, m, n) /\ (IsUpload <=> IsMultipart(w, m))
  BY <1>1, <1>2 DEF InPlace, AtBody
<1>4. WireOf(sent, Stream[1].id) = w /\ Len(w) \in Nat /\ m \in Nat /\ p[1] \in 1..Len(w)
  BY <1>2, <1>3, Holding
<1> HIDE DEF w, m
<1>5. n = Len(w) - (m + 1)
  BY <1>1, <1>2, <1>3, NeverReached DEF BodyFits
<1>6. n \in Nat /\ Len(buf) \in Nat /\ ~(Len(buf) < n) /\ buf \in Seq(TokenType) /\ request_ \in RequestType
  BY <1>1 DEF TypeInv, RequestType, BodyIncomplete
<1>7. n \in 1..Len(buf)
  <2>1. n >= 1
    BY <1>3, <1>4, <1>5
  <2> HIDE DEF n
  <2> QED BY <1>6, <2>1
<1>8. \A f \in request_.fields : f.kind = "length" => f.n = n
  BY <1>3
<1>9. request_'.fields = request_.fields /\ request_'.id = request_.id /\ request_'.length = n /\ request_'.body = b
  <2> HIDE DEF b
  <2> QED BY <1>1, <1>6 DEF RequestType
<1> HIDE DEF n
<1>10. b \in Seq(TokenType) /\ Len(b) = n /\ \A i \in 1..n : b[i] = buf[i]
  <2>1. \A i \in 1..n : buf[i] \in TokenType
    BY <1>6, <1>7, ElementOfSeq
  <2>2. n \in Int /\ 1 <= n
    BY <1>7
  <2> QED BY <1>6, <2>1, <2>2, SubSeqProperties
<1> HIDE DEF b
<1>11. ASSUME NEW i \in 1..n PROVE buf[i].id = request_.id
  <2> DEFINE d == i - 1
  <2>1. d \in 0..Len(w) - p[1] /\ 1 + d = i
    BY <1>3, <1>4, <1>5, <1>7
  <2> HIDE DEF d
  <2>2. \A c \in 0..Len(w) - p[1] : Stream[1 + c].id = Stream[1].id
    BY <1>2, <1>3, <1>4 DEF InPlace, Placed
  <2>3. Stream[i].id = Stream[1].id
    BY <2>1, <2>2
  <2>4. Stream[i] = buf[i]
    <3>1. i \in 1..Len(buf)
      BY <1>6, <1>7
    <3> QED BY <3>1, StreamType
  <2> QED BY <1>3, <2>3, <2>4
<1> QED BY <1>8, <1>9, <1>10, <1>11 DEF Counted

LEMMA ParseCounted ==
    ASSUME TypeInv, StreamInv, PlaceInv, BodyInv, ParseRequest
    PROVE  BodyInv'
<1>1. handled' = handled
  BY ParseTakes
<1> SUFFICES ASSUME Sound', state_' = "kGotAll" PROVE Counted(request_')
  BY <1>1 DEF BodyInv
<1>2. ~ParseThrows /\ step = "parse"
  <2>1. ParseThrows => connected' = FALSE
    BY DEF ParseThrows, Shutdown
  <2>2. step = "parse"
    BY DEF ParseRequest, ParseNoLine, ParseRequestLine, ParseHeader, EndOfPostHeaders, ParseBodyWait,
           ParseBody, ParseMultipart, ParseThrows, Parsing
  <2> QED BY <2>1, <2>2 DEF Sound
<1>3. Sound
  BY <1>2, ParseSilent DEF Sound
<1>4. CASE ParseNoLine \/ ParseRequestLine \/ ParseBodyWait
  BY <1>4 DEF ParseNoLine, ParseRequestLine, ParseBodyWait, Parsing
<1>5. CASE ParseMultipart
  <2>1. (\E f \in request_.fields : f.kind = "multipart") /\ request_'.fields = request_.fields
    BY <1>5 DEF ParseMultipart, IsUpload, TypeInv, RequestType
  <2> QED BY <2>1 DEF Counted
<1> QED BY <1>2, <1>3, <1>4, <1>5, HeaderCounted, EndOfPostCounted, BodyCounted DEF ParseRequest

LEMMA FinishCounted ==
    ASSUME TypeInv, StreamInv, BodyInv, FinishOnMessage
    PROVE  BodyInv'
<1> DEFINE h == [id |-> request_.id, method |-> request_.method, fields |-> request_.fields,
                 body |-> request_.body, length |-> request_.length, served |-> ok /\ connected]
<1>1. CASE handled' = handled /\ state_' = state_ /\ state_ # "kGotAll"
  BY <1>1 DEF BodyInv
<1>2. CASE state_ = "kGotAll" /\ state_' = "kExpectRequestLine" /\ handled' = Append(handled, h)
  <2>1. request_ \in RequestType /\ handled \in Seq(HandledType) /\ ok \in BOOLEAN /\ connected \in BOOLEAN
    BY DEF TypeInv
  <2>2. /\ h \in HandledType /\ h.fields = request_.fields /\ h.id = request_.id /\ h.body = request_.body
        /\ h.method = request_.method /\ h.length = request_.length /\ h.served = (ok /\ connected)
    BY <2>1 DEF RequestType, HandledType
  <2>3. h.served => Counted(h)
    BY <1>2, <2>2 DEF BodyInv, Sound, Counted
  <2> HIDE DEF h
  <2>4. /\ Len(handled') = Len(handled) + 1 /\ Len(handled) \in Nat
        /\ \A i \in 1..Len(handled) : handled'[i] = handled[i]
        /\ handled'[Len(handled) + 1] = h
    BY <1>2, <2>1, <2>2, AppendProperties
  <2>5. ASSUME NEW i \in 1..Len(handled'), handled'[i].served
        PROVE  Counted(handled'[i])
    <3>1. CASE i \in 1..Len(handled)
      BY <2>4, <2>5, <3>1 DEF BodyInv
    <3>2. CASE i \notin 1..Len(handled)
      <4>1. i = Len(handled) + 1
        BY <2>4, <3>2
      <4> QED BY <2>3, <2>4, <2>5, <4>1
    <3> QED BY <3>1, <3>2
  <2> QED BY <1>2, <2>5 DEF BodyInv
<1> QED BY <1>1, <1>2, FinishType

LEMMA BodyInductive ==
    /\ Init => BodyInv
    /\ TypeInv /\ StreamInv /\ PlaceInv /\ BodyInv /\ [Next]_vars => BodyInv'
<1>1. Init => BodyInv
  <2> SUFFICES ASSUME Init PROVE BodyInv
    OBVIOUS
  <2>1. Len(handled) = 0 /\ state_ = "kExpectRequestLine"
    BY DEF Init
  <2> QED BY <2>1 DEF BodyInv
<1>2. TypeInv /\ StreamInv /\ PlaceInv /\ BodyInv /\ [Next]_vars => BodyInv'
  <2> SUFFICES ASSUME TypeInv, StreamInv, PlaceInv, BodyInv, [Next]_vars PROVE BodyInv'
    OBVIOUS
  <2>1. CASE Receive
    BY <2>1 DEF Receive, BodyInv, Sound
  <2>2. CASE ParseRequest
    BY <2>2, ParseCounted
  <2>3. CASE FinishOnMessage
    BY <2>3, FinishCounted
  <2>4. ASSUME NEW kind \in Kinds, Send(kind) PROVE BodyInv'
    BY <2>4 DEF Send, BodyInv, Sound
  <2>5. CASE UNCHANGED vars
    BY <2>5 DEF vars, BodyInv, Sound
  <2> QED BY <2>1, <2>2, <2>3, <2>4, <2>5 DEF Next, Server
<1> QED BY <1>1, <1>2

(* The body of a POST or PUT with a Content-Length is whole and its own      *)
(* request's, though reset() leaves the last one's (HttpRequest::swap,       *)
(* HttpContext::parseRequest).                                               *)
THEOREM BodiesCorrect == Spec => []CountedBodyIsOwn
<1> QED BY InitType, TypesInductive, HeadInductive, PlaceInductive, BodyInductive, BodyInvOK, PTL DEF Spec

-----------------------------------------------------------------------------
(* A client that sends only plain requests, and at most the last of them a   *)
(* GET with a body, is never refused: what is left of that body is all that  *)
(* is still to be read, and no line.                                         *)
AllPlain == \A i \in 1..Len(sent) : sent[i] \in Plain \/ (sent[i] = "getBody" /\ i = Len(sent))
OnlyData == \A k \in 1..Len(Stream) : Stream[k].kind = "data"
CleanInv ==
    AllPlain => /\ \A i \in 1..Len(replies) : replies[i].kind # "refusal"
                /\ connected /\ step # "loop" => ok
                /\ Sound /\ Derailed => OnlyData

LEMMA CleanInvOK == TypeInv /\ CleanInv => PlainNeverRefused
<1>1. TypeInv => DOMAIN sent = 1..Len(sent) /\ DOMAIN replies = 1..Len(replies)
  BY DEF TypeInv
<1> QED BY <1>1 DEF CleanInv, AllPlain, PlainNeverRefused

(* What is known of the next token.                                          *)
LEMMA PlainAhead ==
    ASSUME TypeInv, AllPlain, NEW p, InPlace(p), 1 \in 1..Len(Stream)
    PROVE  LET w == WireOf(sent, Stream[1].id)
           IN  IsPlain(w) /\ p[1] \in 1..Len(w) /\ Stream[1] = w[p[1]]
<1> DEFINE i == Stream[1].id
<1>1. i \in 1..Len(sent) /\ p[1] \in 1..Len(WireOf(sent, i)) /\ Stream[1] = WireOf(sent, i)[p[1]]
  BY DEF InPlace, Placed
<1>2. sent[i] \in Kinds /\ sent[i] \in Plain \cup {"getBody"} /\ i \in 0..MaxRequests
  <2> HIDE DEF i
  <2>1. sent[i] \in Plain \cup {"getBody"}
    BY <1>1 DEF AllPlain
  <2>2. sent[i] \in Kinds
    BY <1>1 DEF TypeInv
  <2>3. i \in 0..MaxRequests
    BY <1>1, ConnectionAssumption DEF TypeInv, ConnectionAssumption
  <2> QED BY <2>1, <2>2, <2>3
<1>3. IsPlain(WireOf(sent, i))
  BY <1>2, WireFits DEF WireOf
<1> QED BY <1>1, <1>3

(* The first token of a request is nothing unread.                           *)
LEMMA StartPlaced ==
    ASSUME TypeInv, NEW p, Placed(sent, Stream, p), NEW k \in 1..Len(Stream), p[k] = 1
    PROVE  Stream[k].kind \in Starts /\ Stream[k].kind # "data" /\ ~Unread(Stream[k])
<1> DEFINE w == WireOf(sent, Stream[k].id)
<1>1. Stream[k].id \in 1..Len(sent) /\ Stream[k] = w[1]
  BY DEF Placed
<1>2. Fits(w, HeadLen(w))
  BY <1>1, Fitted
<1>3. w[1].kind \in Starts
  BY <1>2 DEF Fits
<1> HIDE DEF w
<1>4. Stream[k].kind # "data" /\ Stream[k].kind # "rest"
  BY <1>1, <1>3 DEF Starts
<1> QED BY <1>1, <1>3, <1>4 DEF Unread

OnTrack == \E p : InPlace(p)
LEMMA PlacedOnTrack == TypeInv /\ OnTrack => ~Derailed
<1> SUFFICES ASSUME TypeInv, NEW p, InPlace(p), Derailed PROVE FALSE
  BY DEF OnTrack
<1>1. 1 \in 1..Len(Stream) /\ p[1] = 1 /\ Placed(sent, Stream, p) /\ Unread(Stream[1])
  BY DEF Derailed, InPlace, AtStart
<1> QED BY <1>1, StartPlaced

(* Its request line is accepted,                                             *)
LEMMA RequestLineClean ==
    ASSUME TypeInv, PlaceInv, CleanInv, Sound, AllPlain, ParseRequestLine
    PROVE  ok' = ok
<1>1. HasLine(buf) /\ state_ = "kExpectRequestLine"
  BY DEF ParseRequestLine, Parsing
<1>2. buf \in Seq(TokenType) /\ NthLineEnd(buf, 1) \in LineEnds(buf) /\ NthLineEnd(buf, 1) \in 1..Len(buf)
      /\ buf # <<>>
  BY <1>1, FirstLine DEF TypeInv
<1>3. ~Derailed
  <2>1. Stream[NthLineEnd(buf, 1)] = buf[NthLineEnd(buf, 1)] /\ NthLineEnd(buf, 1) \in 1..Len(Stream)
    BY <1>2, StreamType
  <2>2. Stream[NthLineEnd(buf, 1)].kind # "data"
    BY <1>2, <2>1 DEF LineEnds
  <2> QED BY <2>1, <2>2 DEF CleanInv, OnlyData
<1>4. PICK p : InPlace(p)
  BY <1>3 DEF PlaceInv
<1>5. Head(buf) = buf[1] /\ 1 \in 1..Len(buf) /\ Stream[1] = buf[1] /\ 1 \in 1..Len(Stream)
  <2>1. Head(buf) = buf[1] /\ 1 \in 1..Len(buf)
    BY <1>2, TailIsAfter
  <2> QED BY <2>1, StreamType
<1>6. p[1] = 1
  BY <1>1, <1>4, <1>5 DEF InPlace, AtStart
<1>7. buf[1].kind \in {"GET", "POST"}
  BY <1>4, <1>5, <1>6, PlainAhead DEF IsPlain
<1>8. NthLineEnd(buf, 1) = 1
  BY <1>1, <1>2, <1>7, FirstLine
<1> QED BY <1>5, <1>7, <1>8 DEF ParseRequestLine, FirstLineKind

(* so are its headers,                                                       *)
LEMMA HeaderClean ==
    ASSUME TypeInv, StreamInv, HeadInv, PlaceInv, Sound, AllPlain, ParseHeader
    PROVE  ok' = ok
<1> DEFINE end == NthLineEnd(buf, 1)
           x == buf[end]
<1>1. HasLine(buf) /\ state_ = "kExpectHeaders" /\ step = "parse" /\ connected
      /\ (ok' # ok => x.kind \notin HasColon /\ ~(end = 1 /\ x.kind = "blank"))
  BY DEF ParseHeader, Parsing, Sound
<1>2. PICK p : InPlace(p)
  BY <1>1 DEF PlaceInv, Derailed
<1>3. buf \in Seq(TokenType) /\ Len(buf) \in Nat
  BY DEF TypeInv
<1>4. end \in 1..Len(buf) /\ (buf[1].kind # "data" => end = 1)
  BY <1>1, <1>3, FirstLine
<1>5. Stream[1] = buf[1] /\ 1 \in 1..Len(Stream)
  <2>1. 1 \in 1..Len(buf)
    BY <1>3, <1>4
  <2> QED BY <2>1, StreamType
<1>6. Stream[1].kind \in Lead \cup {"blank"}
  BY <1>1 DEF HeadInv, Ahead
<1>7. end = 1 /\ x = Stream[1]
  BY <1>4, <1>5, <1>6 DEF Lead, Starts
<1>8. x.kind \notin Starts /\ x.kind \notin {"badlength", "multipart", "junk"}
  <2> DEFINE w == Held
             m == HeadLen(w)
  <2>1. Stream[1].id = request_.id /\ p[1] \in 2..m + 1
    BY <1>1, <1>2 DEF InPlace, InHead
  <2>2. /\ WireOf(sent, Stream[1].id) = w /\ Len(w) \in Nat /\ m \in Nat /\ Fits(w, m)
        /\ p[1] \in 1..Len(w) /\ Stream[1] = w[p[1]]
    BY <1>2, <1>5, <2>1, Holding
  <2>3. IsPlain(w)
    BY <1>2, <1>5, <2>2, PlainAhead
  <2> HIDE DEF w, m
  <2>4. p[1] \in 2..Len(w)
    BY <2>1, <2>2
  <2> QED BY <1>7, <2>2, <2>3, <2>4 DEF Fits, IsPlain
<1> QED BY <1>1, <1>6, <1>7, <1>8 DEF Lead, HasColon

(* and its length, which a POST has and stoi can read.                       *)
LEMMA EndOfPostClean ==
    ASSUME TypeInv, StreamInv, PlaceInv, Sound, AllPlain, EndOfPostHeaders \/ ParseThrows
    PROVE  EndOfPostHeaders /\ ok' = ok
<1>1. state_ = "kExpectHeaders" /\ buf # <<>> /\ Head(buf).kind = "blank" /\ request_.method = "kPost"
  BY DEF EndOfPostHeaders, ParseThrows, Parsing
<1>2. PICK p : InPlace(p)
  BY <1>1 DEF PlaceInv, Derailed
<1> DEFINE w == Held
           m == HeadLen(w)
<1>3. /\ 1 \in 1..Len(Stream) /\ Stream[1].id = request_.id /\ p[1] \in 2..m + 1
      /\ w[1].kind \in {"GET", "POST"} /\ request_.method = MethodWord(w[1].kind)
      /\ request_.fields = {w[i] : i \in 2..p[1] - 1}
  BY <1>1, <1>2 DEF InPlace, InHead
<1>4. /\ WireOf(sent, Stream[1].id) = w /\ Len(w) \in Nat /\ m \in Nat /\ Fits(w, m)
      /\ p[1] \in 1..Len(w) /\ Stream[1] = w[p[1]]
  BY <1>2, <1>3, Holding
<1>5. IsPlain(w)
  BY <1>2, <1>3, <1>4, PlainAhead
<1> HIDE DEF w, m
<1>6. Stream[1].kind = "blank"
  <2>1. Head(buf) = buf[1] /\ 1 \in 1..Len(buf)
    BY <1>1, TailIsAfter DEF TypeInv
  <2> QED BY <1>1, <2>1, StreamType
<1>7. PICK j \in 1..Len(w) : w[j].kind = "length"
  <2>1. w[1].kind = "POST"
    BY <1>1, <1>3 DEF MethodWord
  <2> QED BY <1>5, <2>1 DEF IsPlain
<1>8. p[1] = m + 1 /\ j \in 2..m
  <2>1. "length" \in Lead /\ "blank" \notin Lead /\ "length" \notin Starts
    BY DEF Lead, Starts
  <2>2. j <= m /\ j # 1
    BY <1>4, <1>7, <2>1 DEF Fits
  <2>3. ~(p[1] <= m)
    BY <1>4, <1>6, <2>1 DEF Fits
  <2>4. m \in Nat /\ p[1] \in 2..m + 1 /\ j \in Nat /\ j >= 1
    BY <1>3, <1>4, <1>7
  <2> HIDE DEF m
  <2> QED BY <2>2, <2>3, <2>4
<1>9. w[j] \in LengthFields
  <2>1. j \in 2..p[1] - 1
    BY <1>4, <1>8
  <2> QED BY <1>3, <1>7, <2>1 DEF LengthFields
<1>10. \A f \in LengthFields : f.kind # "badlength"
  <2>1. \A i \in 2..p[1] - 1 : i \in 1..Len(w)
    BY <1>4
  <2> QED BY <1>3, <1>5, <2>1 DEF LengthFields, IsPlain
<1>11. ~ParseThrows
  BY <1>10 DEF ParseThrows
<1> QED BY <1>9, <1>11 DEF EndOfPostHeaders

(* It is no upload.                                                          *)
LEMMA NoUpload ==
    ASSUME TypeInv, StreamInv, PlaceInv, Sound, AllPlain, ParseMultipart
    PROVE  FALSE
<1>1. state_ = "kExpectBody" /\ IsUpload
  BY DEF ParseMultipart, Parsing
<1>2. PICK p : InPlace(p)
  BY <1>1 DEF PlaceInv, Derailed
<1> DEFINE w == Held
           m == HeadLen(w)
<1>3. 1 \in 1..Len(Stream) /\ Stream[1].id = request_.id /\ IsMultipart(w, m)
  BY <1>1, <1>2 DEF InPlace, AtBody
<1>4. WireOf(sent, Stream[1].id) = w /\ Len(w) \in Nat /\ m \in Nat /\ Fits(w, m)
  BY <1>2, <1>3, Holding
<1>5. IsPlain(w)
  BY <1>2, <1>3, <1>4, PlainAhead
<1> HIDE DEF w, m
<1>6. PICK j \in 2..m : w[j].kind = "multipart"
  BY <1>3 DEF IsMultipart
<1>7. j \in 1..Len(w)
  BY <1>4 DEF Fits
<1> QED BY <1>5, <1>6, <1>7 DEF IsPlain

(* After the head of a GET with a body only that body is left: were another  *)
(* request to follow, this one would not be the last.                        *)
LEMMA HeaderLeaves ==
    ASSUME TypeInv, StreamInv, HeadInv, PlaceInv, Sound, AllPlain, ParseHeader,
           TypeInv', StreamInv', ReplyInv', Derailed'
    PROVE  OnlyData'
<1> DEFINE end == NthLineEnd(buf, 1)
           x == buf[end]
<1>1. /\ HasLine(buf) /\ state_ = "kExpectHeaders" /\ buf' = After(buf, end)
      /\ UNCHANGED <<sent, inflight>>
  BY DEF ParseHeader, Parsing, untouched, client
<1>2. /\ end = 1 /\ x.kind = "blank" /\ request_.method # "kPost"
      /\ state_' = "kGotAll" /\ request_' = request_
  <2>1. state_' # "kExpectHeaders"
    BY DEF Derailed
  <2> QED BY <1>1, <2>1 DEF ParseHeader
<1>3. PICK p : InPlace(p)
  BY <1>1 DEF PlaceInv, Derailed
<1> DEFINE w == Held
           m == HeadLen(w)
<1>4. /\ 1 \in 1..Len(Stream) /\ Stream[1].id = request_.id /\ p[1] \in 2..m + 1
      /\ w[1].kind \in {"GET", "POST"} /\ request_.method = MethodWord(w[1].kind)
  BY <1>1, <1>3 DEF InPlace, InHead
<1>5. /\ WireOf(sent, Stream[1].id) = w /\ Len(w) \in Nat /\ m \in Nat /\ Fits(w, m)
      /\ p[1] \in 1..Len(w) /\ Stream[1] = w[p[1]] /\ request_.id \in 1..Len(sent)
  BY <1>3, <1>4, Holding
<1>6. 1 \in 1..Len(buf) /\ Stream[1] = buf[1]
  <2>1. 1 \in 1..Len(buf)
    BY <1>1, FirstLine DEF TypeInv
  <2> QED BY <2>1, StreamType
<1>7. WireOf(sent', request_.id) = w
  BY <1>1, <1>4, <1>5
<1> HIDE DEF w, m
<1>8. w[1].kind = "GET" /\ p[1] = m + 1
  <2>1. w[1].kind = "GET"
    BY <1>2, <1>4 DEF MethodWord
  <2>2. w[p[1]].kind \notin Lead
    BY <1>2, <1>5, <1>6 DEF Lead, Starts
  <2>3. ~(p[1] <= m)
    BY <1>5, <2>2 DEF Fits
  <2> QED BY <1>4, <1>5, <2>1, <2>3
<1>9. PICK q : Advanced(p, 1, q)
  BY <1>1, <1>2, <1>3, <1>6, Advance
<1>10. /\ Placed(sent', Stream', q)
       /\ p[1] + 1 <= Len(w) => 1 \in 1..Len(Stream') /\ Stream'[1].id = Stream[1].id /\ q[1] = p[1] + 1
       /\ p[1] + 1 = Len(w) + 1 /\ 1 \in 1..Len(Stream') => q[1] = 1
  BY <1>5, <1>9 DEF Advanced
<1>11. 1 \in 1..Len(Stream') /\ Stream'[1].id \in 1..Len(sent') /\ Unread(Stream[1])' /\ Len(Stream') \in Nat
  BY StreamType DEF Derailed
<1>12. ASSUME NEW k \in 1..Len(Stream'), q[k] = 1
       PROVE  Stream'[k].kind \in Starts /\ Stream'[k].kind # "data" /\ Stream'[k].kind # "rest"
  <2> DEFINE u == WireOf(sent', Stream'[k].id)
  <2>1. Stream'[k].id \in 1..Len(sent) /\ Stream'[k] = u[1]
    BY <1>1, <1>10, <1>12 DEF Placed
  <2>2. u = WireOf(sent, Stream'[k].id)
    BY <1>1
  <2>3. Fits(u, HeadLen(u))
    BY <2>1, <2>2, Fitted
  <2>4. u[1].kind \in Starts
    BY <2>3 DEF Fits
  <2> HIDE DEF u
  <2> QED BY <2>1, <2>4 DEF Starts
<1>13. p[1] + 1 <= Len(w)
  <2>1. SUFFICES ASSUME ~(p[1] + 1 <= Len(w)) PROVE FALSE
    OBVIOUS
  <2>2. q[1] = 1
    BY <1>5, <1>10, <1>11, <2>1
  <2>3. Stream'[1].kind # "data" /\ Stream'[1].kind # "rest"
    BY <1>11, <1>12, <2>2
  <2> QED BY <1>11, <2>3 DEF Unread
<1>14. Stream'[1].id = request_.id /\ q[1] = m + 2 /\ m + 2 \in 2..Len(w)
  <2>1. Stream'[1].id = request_.id /\ q[1] = p[1] + 1
    BY <1>4, <1>10, <1>13
  <2>2. m \in Nat /\ Len(w) \in Nat /\ p[1] = m + 1 /\ m + 1 + 1 <= Len(w)
    BY <1>5, <1>8, <1>13
  <2>3. m + 1 + 1 = m + 2 /\ m + 2 \in 2..Len(w)
    BY <2>2
  <2> QED BY <2>1, <2>2, <2>3
<1> DEFINE e == Len(w) - (m + 1)
<1>15. e \in Nat /\ e >= 1
  BY <1>5, <1>14
<1>16. ASSUME NEW d \in 0..Len(w) - q[1]
       PROVE  1 + d \in 1..Len(Stream') /\ Stream'[1 + d].id = request_.id /\ q[1 + d] = m + 2 + d
  BY <1>7, <1>10, <1>11, <1>14 DEF Placed
<1>17. ASSUME NEW k \in 1..e
       PROVE  k \in 1..Len(Stream') /\ Stream'[k].id = request_.id /\ q[k] = m + 1 + k
  <2> DEFINE d == k - 1
  <2>1. d \in 0..Len(w) - q[1] /\ 1 + d = k /\ m + 2 + d = m + 1 + k
    BY <1>5, <1>14
  <2> HIDE DEF d
  <2> QED BY <1>16, <2>1
<1>18. ASSUME NEW k \in 1..e PROVE Stream'[k].kind = "data"
  <2>1. Stream'[k] = w[q[k]]
    BY <1>7, <1>10, <1>17 DEF Placed
  <2>2. q[k] \in m + 2..Len(w)
    <3>1. q[k] = m + 1 + k
      BY <1>17
    <3>2. m + 1 + k \in m + 2..Len(w)
      BY <1>5
    <3> QED BY <3>1, <3>2
  <2> QED BY <1>5, <1>8, <2>1, <2>2 DEF Fits
<1>19. request_.id = Len(sent)
  <2>1. Stream'[1].kind = "data"
    BY <1>15, <1>18
  <2>2. sent[request_.id] = "getBody"
    BY <1>1, <1>11, <1>14, <2>1 DEF Unread
  <2> QED BY <1>5, <2>2 DEF AllPlain, Plain
<1>20. e = Len(Stream')
  <2>1. e \in 1..e
    BY <1>15
  <2>2. e \in 1..Len(Stream') /\ q[e] = Len(w) /\ Stream'[e].id = request_.id
    <3>1. e \in 1..Len(Stream') /\ q[e] = m + 1 + e /\ Stream'[e].id = request_.id
      <4> HIDE DEF e
      <4> QED BY <1>17, <2>1
    <3>2. m + 1 + e = Len(w)
      BY <1>5
    <3> QED BY <3>1, <3>2
  <2>3. SUFFICES ASSUME e + 1 \in 1..Len(Stream') PROVE FALSE
    BY <1>11, <1>15, <2>2
  <2> DEFINE k == e + 1
  <2>4. q[e] = Len(w) /\ k \in 1..Len(Stream') => q[k] = 1
    BY <1>7, <1>10, <2>2 DEF Placed
  <2> HIDE DEF e, k
  <2>5. k \in 1..Len(Stream') /\ q[k] = 1
    BY <2>2, <2>3, <2>4 DEF k
  <2>6. Stream'[k].kind \in Starts
    BY <1>12, <2>5
  <2>7. Stream'[k].id \in 1..Len(sent)
    BY <1>1, <2>5, <2>6 DEF StreamInv, Ordered
  <2>8. request_.id < Stream'[k].id
    BY <1>2, <2>5, <2>6 DEF ReplyInv, Upcoming
  <2> QED BY <1>5, <1>19, <2>7, <2>8
<1> QED BY <1>18, <1>20 DEF OnlyData

LEMMA ParseQuiet ==
    ASSUME TypeInv, StreamInv, HeadInv, PlaceInv, CleanInv, Sound, AllPlain, ParseRequest,
           TypeInv', StreamInv', ReplyInv', Sound', Derailed'
    PROVE  OnlyData'
<1>1. CASE ParseNoLine \/ ParseBodyWait \/ ParseRequestLine
  <2>1. Stream' = Stream /\ sent' = sent /\ state_' = state_
    <3>1. UNCHANGED <<sent, buf, inflight, state_>> \/ state_' = "kExpectHeaders"
      BY <1>1 DEF ParseNoLine, ParseBodyWait, ParseRequestLine, untouched, client
    <3> QED BY <3>1 DEF Derailed, Stream
  <2>2. Derailed
    BY <2>1 DEF Derailed, Unread
  <2> QED BY <2>1, <2>2 DEF CleanInv, OnlyData
<1>2. CASE ParseHeader
  BY <1>2, HeaderLeaves
<1>3. CASE EndOfPostHeaders \/ ParseBody
  <2>1. OnTrack'
    BY <1>3, EndOfPostPlace, BodyPlace DEF OnTrack
  <2>2. TypeInv' /\ OnTrack' => ~Derailed'
    BY PlacedOnTrack, PTL
  <2> QED BY <2>1, <2>2
<1>4. CASE ParseMultipart
  BY <1>4, NoUpload
<1>5. CASE ParseThrows
  BY <1>5 DEF ParseThrows, Shutdown, Sound
<1> QED BY <1>1, <1>2, <1>3, <1>4, <1>5 DEF ParseRequest

LEMMA ParseClean ==
    ASSUME TypeInv, StreamInv, HeadInv, PlaceInv, CleanInv, ParseRequest, TypeInv', StreamInv', ReplyInv'
    PROVE  CleanInv'
<1>1. sent' = sent /\ step = "parse"
  <2>1. step = "parse"
    BY DEF ParseRequest, ParseNoLine, ParseRequestLine, ParseHeader, EndOfPostHeaders, ParseBodyWait,
           ParseBody, ParseMultipart, ParseThrows, Parsing
  <2> QED BY <2>1, ParseTakes
<1> SUFFICES ASSUME AllPlain PROVE CleanInv'
  BY <1>1 DEF CleanInv, AllPlain
<1>2. CASE connected
  <2>1. Sound /\ ok
    BY <1>1, <1>2 DEF Sound, CleanInv
  <2>2. ~ParseThrows /\ ok' = ok
    <3>1. ~ParseThrows
      <4>1. ParseThrows => EndOfPostHeaders
        BY <2>1, EndOfPostClean
      <4> QED BY <4>1 DEF EndOfPostHeaders, ParseThrows
    <3>2. CASE ParseNoLine \/ ParseBodyWait \/ ParseBody
      BY <3>1, <3>2 DEF ParseNoLine, ParseBodyWait, ParseBody
    <3> QED BY <2>1, <3>1, <3>2, RequestLineClean, HeaderClean, EndOfPostClean, NoUpload DEF ParseRequest
  <2>3. replies' = replies
    BY <2>2, ParseSilent
  <2>4. Sound' /\ Derailed' => OnlyData'
    BY <2>1, ParseQuiet
  <2> QED BY <1>1, <2>1, <2>2, <2>3, <2>4 DEF CleanInv
<1>3. CASE ~connected
  <2>1. replies' = replies /\ ~connected'
    <3>1. CASE ParseThrows
      BY <1>3, <3>1 DEF ParseThrows, Written, Shutdown
    <3>2. CASE ~ParseThrows
      BY <1>3, <3>2, ParseSilent
    <3> QED BY <3>1, <3>2
  <2> QED BY <1>1, <2>1 DEF CleanInv, Sound
<1> QED BY <1>2, <1>3

(* onMessage refuses only what parseRequest did not accept.                  *)
LEMMA FinishClean ==
    ASSUME TypeInv, StreamInv, CleanInv, FinishOnMessage
    PROVE  CleanInv'
<1>1. sent' = sent /\ step = "parsed" /\ step' = "loop"
  BY DEF FinishOnMessage, client
<1> SUFFICES ASSUME AllPlain PROVE CleanInv'
  BY <1>1 DEF CleanInv, AllPlain
<1>8. Sound' /\ Derailed' => OnlyData'
  <2> SUFFICES ASSUME Sound', Derailed' PROVE OnlyData'
    OBVIOUS
  <2>1. Stream' = Stream /\ (state_' = state_ \/ state_ = "kGotAll")
    BY FinishType
  <2>2. Derailed
    BY <1>1, <2>1 DEF Derailed, Unread
  <2>3. connected
    BY FinishType DEF Says, Sound
  <2>4. Sound
    BY <1>1, <2>3 DEF CleanInv, Sound
  <2> QED BY <2>1, <2>2, <2>4 DEF CleanInv, OnlyData
<1>2. \A i \in 1..Len(replies) : replies[i].kind # "refusal"
  BY DEF CleanInv
<1>3. request_.id \in 0..MaxRequests /\ replies \in Seq(ReplyType) /\ ok \in BOOLEAN
  BY DEF TypeInv, RequestType
<1>4. ASSUME ~connected PROVE replies' = replies
  BY <1>4 DEF FinishOnMessage, OnRequest, Written
<1>5. ASSUME connected
      PROVE  \E msgs \in Seq(ReplyType) :
                /\ \A k \in 1..Len(msgs) : msgs[k].kind # "refusal"
                /\ replies' = replies \o msgs
  <2>1. ok
    BY <1>1, <1>5 DEF CleanInv
  <2>2. CASE state_ # "kGotAll"
    <3>1. replies' = replies \o <<>>
      BY <1>5, <2>1, <2>2 DEF FinishOnMessage, Written
    <3> DEFINE e == <<>>
    <3>2. e \in Seq(ReplyType) /\ \A k \in 1..Len(e) : e[k].kind # "refusal"
      OBVIOUS
    <3> HIDE DEF e
    <3> QED BY <3>1, <3>2 DEF e
  <2>3. CASE state_ = "kGotAll"
    <3> DEFINE first(close) == Reply("reply", request_.id, close)
               second(close) == Reply("fileError", request_.id, close)
    <3>1. PICK close \in BOOLEAN, fileError \in BOOLEAN :
             replies' = replies \o IF fileError THEN Append(<<first(close)>>, second(close)) ELSE <<first(close)>>
      BY <1>5, <2>1, <2>3 DEF FinishOnMessage, OnRequest, Written
    <3> DEFINE x == first(close)
               y == second(close)
    <3>2. x \in ReplyType /\ y \in ReplyType /\ x.kind # "refusal" /\ y.kind # "refusal"
      BY <1>3 DEF Reply, ReplyType
    <3> HIDE DEF x, y
    <3>3. /\ <<x>> \in Seq(ReplyType) /\ (\A k \in 1..Len(<<x>>) : <<x>>[k].kind # "refusal")
          /\ Append(<<x>>, y) \in Seq(ReplyType)
          /\ \A k \in 1..Len(Append(<<x>>, y)) : Append(<<x>>, y)[k].kind # "refusal"
      BY <3>2
    <3>4. replies' = replies \o Append(<<x>>, y) \/ replies' = replies \o <<x>>
      BY <3>1 DEF x, y
    <3> QED BY <3>3, <3>4
  <2> QED BY <2>2, <2>3
<1>6. CASE ~connected
  BY <1>1, <1>2, <1>4, <1>6, <1>8 DEF CleanInv
<1>7. CASE connected
  <2>1. PICK msgs \in Seq(ReplyType) : (\A k \in 1..Len(msgs) : msgs[k].kind # "refusal") /\ replies' = replies \o msgs
    BY <1>5, <1>7
  <2>2. /\ Len(replies') = Len(replies) + Len(msgs) /\ Len(replies) \in Nat /\ Len(msgs) \in Nat
        /\ \A i \in 1..Len(replies) + Len(msgs) :
              replies'[i] = IF i <= Len(replies) THEN replies[i] ELSE msgs[i - Len(replies)]
    BY <1>3, <2>1, ConcatProperties
  <2>3. ASSUME NEW i \in 1..Len(replies') PROVE replies'[i].kind # "refusal"
    <3>1. CASE i <= Len(replies)
      <4>1. i \in 1..Len(replies)
        BY <2>2, <3>1
      <4> QED BY <1>2, <2>2, <3>1, <4>1
    <3>2. CASE ~(i <= Len(replies))
      <4>1. i - Len(replies) \in 1..Len(msgs)
        BY <2>2, <3>2
      <4> QED BY <2>1, <2>2, <3>2, <4>1
    <3> QED BY <3>1, <3>2
  <2> QED BY <1>1, <1>8, <2>3 DEF CleanInv
<1> QED BY <1>6, <1>7

(* One more request: what came before it is plain.                           *)
LEMMA SendClean ==
    ASSUME TypeInv, StreamInv, PlaceInv, CleanInv, NEW kind \in Kinds, Send(kind)
    PROVE  CleanInv'
<1>1. sent \in Seq(Kinds) /\ sent' = Append(sent, kind)
      /\ UNCHANGED <<buf, replies, connected, step, ok, state_, request_>>
  BY DEF Send, TypeInv
<1>2. Len(sent') = Len(sent) + 1 /\ Len(sent) \in Nat /\ \A i \in 1..Len(sent) : sent'[i] = sent[i]
  BY <1>1, AppendProperties
<1> SUFFICES ASSUME AllPlain' PROVE CleanInv'
  BY DEF CleanInv
<1>3. \A i \in 1..Len(sent) : sent[i] \in Plain
  <2>1. \A i \in 1..Len(sent) : i \in 1..Len(sent') /\ i # Len(sent')
    BY <1>2
  <2> QED BY <1>2, <2>1 DEF AllPlain
<1>4. AllPlain
  BY <1>3 DEF AllPlain
<1>5. ASSUME Sound', Derailed' PROVE FALSE
  <2>1. Sound
    BY <1>1, <1>5 DEF Sound
  <2>2. 1 \in 1..Len(Stream') /\ Unread(Stream[1])'
    BY <1>5 DEF Derailed
  <2>3. CASE 1 \in 1..Len(Stream)
    <3>1. ~Derailed
      BY <1>3 DEF Derailed, Unread, Plain
    <3>2. PICK p : InPlace(p)
      BY <2>1, <3>1 DEF PlaceInv
    <3>3. Stream[1].id \in 1..Len(sent) /\ Stream'[1] = Stream[1]
      BY <2>3, <3>2, SendType DEF InPlace, Placed
    <3> QED BY <1>2, <1>3, <2>2, <3>3 DEF Unread, Plain
  <2>4. CASE ~(1 \in 1..Len(Stream))
    <3> DEFINE id == Len(sent) + 1
               w == Wire(kind, id)
    <3>1. buf = <<>> /\ inflight = <<>>
      <4>1. Len(Stream) = Len(buf) + Len(inflight) /\ Len(buf) \in Nat /\ Len(inflight) \in Nat
        BY StreamType DEF TypeInv
      <4>2. Len(buf) = 0 /\ Len(inflight) = 0
        BY <2>4, <4>1
      <4> QED BY <4>2, EmptySeq DEF TypeInv
    <3>2. id \in 0..MaxRequests
      BY <1>2, ConnectionAssumption DEF Send, ConnectionAssumption
    <3>3. w \in Seq(TokenType) /\ \E m : Fits(w, m)
      BY <3>2, WireFits DEF IsWire
    <3>4. w[1].kind \in Starts
      BY <3>3 DEF Fits
    <3>5. Stream' = <<>> \o (<<>> \o w)
      BY <1>1, <3>1 DEF Send, Stream
    <3> HIDE DEF w
    <3>6. Stream' = w
      BY <3>3, <3>5
    <3> QED BY <2>2, <3>4, <3>6 DEF Unread, Starts
  <2> QED BY <2>3, <2>4
<1> QED BY <1>1, <1>4, <1>5 DEF CleanInv

LEMMA CleanInductive ==
    /\ Init => CleanInv
    /\ /\ TypeInv /\ StreamInv /\ HeadInv /\ PlaceInv /\ CleanInv /\ [Next]_vars
       /\ TypeInv' /\ StreamInv' /\ ReplyInv'
       => CleanInv'
<1>1. Init => CleanInv
  <2> SUFFICES ASSUME Init PROVE CleanInv
    OBVIOUS
  <2>1. Len(replies) = 0 /\ ok /\ Len(buf) = 0 /\ Len(inflight) = 0 /\ TypeInv
    BY InitType DEF Init
  <2>2. Len(Stream) = 0
    BY <2>1, StreamType
  <2> QED BY <2>1, <2>2 DEF CleanInv, OnlyData
<1>2. ASSUME TypeInv, StreamInv, HeadInv, PlaceInv, CleanInv, [Next]_vars, TypeInv', StreamInv', ReplyInv'
      PROVE  CleanInv'
  <2>1. ASSUME Stream' = Stream, UNCHANGED <<sent, state_, replies, connected>>,
               Sound' => Sound, connected /\ step' # "loop" => ok'
        PROVE  CleanInv'
    BY <1>2, <2>1 DEF CleanInv, AllPlain, Derailed, Unread, OnlyData
  <2>2. CASE Receive
    <3>1. Stream' = Stream
      BY <1>2, <2>2, ReceiveType
    <3>2. UNCHANGED <<sent, state_, replies, connected>> /\ ok' /\ step = "loop"
      BY <2>2 DEF Receive
    <3> QED BY <2>1, <3>1, <3>2 DEF Sound
  <2>3. CASE ParseRequest
    BY <1>2, <2>3, ParseClean
  <2>4. CASE FinishOnMessage
    BY <1>2, <2>4, FinishClean
  <2>5. ASSUME NEW kind \in Kinds, Send(kind) PROVE CleanInv'
    BY <1>2, <2>5, SendClean
  <2>6. CASE UNCHANGED vars
    <3>1. Stream' = Stream /\ UNCHANGED <<sent, state_, replies, connected, step, ok>>
      BY <1>2, <2>6, StutterType DEF vars
    <3> QED BY <1>2, <3>1 DEF CleanInv, AllPlain, Derailed, Unread, OnlyData, Sound
  <2> QED BY <1>2, <2>2, <2>3, <2>4, <2>5, <2>6 DEF Next, Server
<1> QED BY <1>1, <1>2

(* A client never gets the 400 that HttpServer::onMessage writes, however    *)
(* TCP cuts what it sends and whether it waits for the answers or not, if it *)
(* tells the length of each POST and PUT in a field Content-Length, uploads  *)
(* nothing, and sends a body with another method in its last request only.   *)
THEOREM PlainCorrect == Spec => []PlainNeverRefused
<1>1. TypeInv /\ CleanInv => PlainNeverRefused
  BY CleanInvOK
<1> QED BY <1>1, InitType, TypesInductive, ReplyInductive, HeadInductive, PlaceInductive, CleanInductive, PTL
        DEF Spec
=============================================================================
