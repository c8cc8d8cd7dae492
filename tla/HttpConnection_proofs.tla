------------------------- MODULE HttpConnection_proofs -------------------------
(***************************************************************************)
(* Proofs about a plain connection for any set of requests and any number  *)
(* of them, however TCP cuts the stream: the types, that what says it      *)
(* closes is the last reply, that replies are in order, and that a handler *)
(* sees the headers of its own request.                                    *)
(***************************************************************************)
EXTENDS HttpConnection, SequenceTheorems, FiniteSetTheorems, WellFoundedInduction, TLAPS

-----------------------------------------------------------------------------
(* Lines in the buffer.                                                      *)
LEMMA Least ==
    ASSUME NEW S \in SUBSET Nat, S # {}
    PROVE  \E m \in S : \A k \in S : m <= k
<1> DEFINE R == StrictSubsetOrdering(Nat)
           F == FiniteSubsetsOf(Nat)
           T == {0..x : x \in S}
<1>1. IsWellFoundedOn(R, F)
  BY FS_StrictSubsetOrderingWellFounded
<1>2. T \subseteq F /\ T # {}
  <2>1. \A x \in S : x \in Nat
    OBVIOUS
  <2>2. \A x \in S : 0..x \subseteq Nat /\ IsFiniteSet(0..x)
    BY <2>1, FS_Interval
  <2> QED BY <2>2 DEF FiniteSubsetsOf
<1>3. PICK m \in T : \A n \in T : ~(<<n, m>> \in R)
  <2> HIDE DEF R, F, T
  <2> QED BY <1>1, <1>2, WFMin
<1>4. PICK x \in S : m = 0..x
  OBVIOUS
<1>5. ASSUME NEW y \in S, y < x PROVE FALSE
  <2>1. 0..y \in T /\ 0..y \subseteq 0..x /\ 0..y # 0..x
    <3>1. x \in 0..x /\ x \notin 0..y
      BY <1>5
    <3> QED BY <1>5, <3>1
  <2>2. <<0..y, 0..x>> \in R
    BY <2>1, <1>2 DEF StrictSubsetOrdering, FiniteSubsetsOf
  <2> QED BY <2>1, <2>2, <1>3, <1>4
<1>6. \A y \in S : x <= y
  BY <1>5
<1> QED BY <1>6

(* The nth line end exists when there are n of them.                         *)
LEMMA NthLineEndIs ==
    ASSUME NEW s \in Seq(TokenType), NEW n \in Nat \ {0}, n <= Cardinality(LineEnds(s))
    PROVE  /\ NthLineEnd(s, n) \in LineEnds(s) /\ NthLineEnd(s, n) \in 1..Len(s)
           /\ Cardinality({j \in LineEnds(s) : j <= NthLineEnd(s, n)}) = n
<1> DEFINE E == LineEnds(s)
           Upto(i) == {j \in E : j <= i}
           c(i) == Cardinality(Upto(i))
<1>1. E \subseteq 1..Len(s) /\ Len(s) \in Nat /\ IsFiniteSet(E) /\ n <= Cardinality(E)
  <2>1. E \subseteq 1..Len(s) /\ Len(s) \in Nat
    BY DEF LineEnds
  <2>2. IsFiniteSet(1..Len(s))
    BY <2>1, FS_Interval
  <2>3. IsFiniteSet(E)
    BY <2>1, <2>2, FS_Subset
  <2>4. n <= Cardinality(E)
    OBVIOUS
  <2> HIDE DEF E
  <2> QED BY <2>1, <2>3, <2>4
<1> HIDE DEF E
<1>2. \A i : IsFiniteSet(Upto(i)) /\ c(i) \in Nat
  BY <1>1, FS_Subset, FS_CardinalityType
<1>3. Upto(0) = {} /\ Upto(Len(s)) = E
  <2>1. \A j \in E : j \in Nat /\ ~(j <= 0) /\ j <= Len(s)
    BY <1>1
  <2> QED BY <2>1
<1>4. c(0) = 0 /\ c(Len(s)) >= n
  BY <1>1, <1>3, FS_EmptySet
<1> DEFINE Enough == {i \in Nat : c(i) >= n}
<1>5. PICK m \in Enough : \A k \in Enough : m <= k
  <2>1. Len(s) \in Enough
    BY <1>1, <1>4
  <2>2. Enough \subseteq Nat /\ Enough # {}
    BY <2>1
  <2> HIDE DEF Enough
  <2> QED BY <2>2, Least
<1>6. m # 0 /\ m \in Nat /\ c(m) >= n /\ m - 1 \in Nat /\ ~(c(m - 1) >= n)
  <2>1. m \in Nat /\ c(m) >= n
    BY <1>5
  <2>2. m # 0
    <3> HIDE DEF c
    <3> QED BY <1>4, <2>1
  <2>3. m - 1 \in Nat /\ m - 1 \notin Enough
    BY <1>5, <2>1, <2>2
  <2> QED BY <2>1, <2>2, <2>3
<1>7. m \in E
  <2>1. SUFFICES ASSUME m \notin E PROVE FALSE
    OBVIOUS
  <2>2. \A j \in E : j <= m <=> j <= m - 1
    BY <1>1, <1>6, <2>1
  <2>3. Upto(m) = Upto(m - 1)
    BY <2>2
  <2> QED BY <1>6, <2>3
<1>8. c(m) = n
  <2>1. (\A j \in E : j <= m <=> j <= m - 1 \/ j = m) /\ ~(m <= m - 1) /\ m <= m
    BY <1>1, <1>6
  <2>2. Upto(m) = Upto(m - 1) \cup {m} /\ m \notin Upto(m - 1)
    BY <1>7, <2>1
  <2>3. IsFiniteSet(Upto(m - 1)) /\ c(m) \in Nat /\ c(m - 1) \in Nat
    BY <1>2
  <2> HIDE DEF Upto
  <2>4. c(m) = c(m - 1) + 1
    BY <2>2, <2>3, FS_AddElement
  <2> HIDE DEF c
  <2> QED BY <1>6, <2>3, <2>4
<1>9. NthLineEnd(s, n) = CHOOSE i \in E : c(i) = n
  BY DEF NthLineEnd, E
<1>10. NthLineEnd(s, n) \in E /\ c(NthLineEnd(s, n)) = n
  <2> HIDE DEF c
  <2> QED BY <1>7, <1>8, <1>9
<1> QED BY <1>1, <1>10 DEF E

(* The first line is the first token unless body data comes before it.       *)
LEMMA FirstLine ==
    ASSUME NEW s \in Seq(TokenType), HasLine(s)
    PROVE  /\ s # <<>> /\ NthLineEnd(s, 1) \in LineEnds(s) /\ NthLineEnd(s, 1) \in 1..Len(s)
           /\ s[1].kind # "data" => NthLineEnd(s, 1) = 1
<1> DEFINE E == LineEnds(s)
           e == NthLineEnd(s, 1)
<1>1. E \subseteq 1..Len(s) /\ Len(s) \in Nat /\ IsFiniteSet(E) /\ E # {}
  <2>1. E \subseteq 1..Len(s) /\ Len(s) \in Nat /\ E # {}
    BY DEF LineEnds, HasLine
  <2>2. IsFiniteSet(1..Len(s))
    BY <2>1, FS_Interval
  <2>3. IsFiniteSet(E)
    BY <2>1, <2>2, FS_Subset
  <2> HIDE DEF E
  <2> QED BY <2>1, <2>3
<1>2. Cardinality(E) \in Nat /\ 1 <= Cardinality(E)
  BY <1>1, FS_CardinalityType, FS_EmptySet
<1>3. e \in E /\ e \in 1..Len(s) /\ Cardinality({j \in E : j <= e}) = 1
  BY <1>2, NthLineEndIs
<1>4. s # <<>>
  BY <1>3
<1>5. ASSUME s[1].kind # "data" PROVE e = 1
  <2>1. 1 \in E
    BY <1>3, <1>5 DEF LineEnds
  <2> DEFINE B == {j \in E : j <= e}
  <2>2. 1 \in B /\ e \in B /\ Cardinality(B) = 1 /\ IsFiniteSet(B)
    BY <1>1, <1>3, <2>1, FS_Subset
  <2> HIDE DEF B
  <2>3. IsFiniteSet(B \ {1}) /\ Cardinality(B \ {1}) = 0
    BY <2>2, FS_RemoveElement
  <2>4. B \ {1} = {}
    BY <2>3, FS_EmptySet
  <2> QED BY <2>2, <2>4
<1> QED BY <1>3, <1>4, <1>5

-----------------------------------------------------------------------------
(* What the client sends.  Lead: the first line and the header lines that    *)
(* come before the blank one.                                                *)
Starts == {"GET", "GET9", "POST", "FOO"}
Lead == Starts \cup {"length", "badlength", "lowerLength", "multipart", "junk"}

(* A line of the head is followed by another of the same request, or by its  *)
(* blank line.                                                               *)
Adjacent(s) ==
    \A i \in 1..Len(s) : s[i].kind \in Lead =>
        i < Len(s) /\ s[i + 1].id = s[i].id /\ s[i + 1].kind \in Lead \cup {"blank"}
(* The first lines in a stream are in the order of the requests.             *)
Ordered(s) ==
    /\ \A i \in 1..Len(s) : s[i].kind \in Starts => s[i].id \in 1..Len(sent)
    /\ \A i, j \in 1..Len(s) : i < j /\ s[i].kind \in Starts /\ s[j].kind \in Starts => s[i].id < s[j].id

Tokenwise(s, kinds, id) ==
    /\ s \in Seq(TokenType) /\ kinds \in Seq(TokenKinds) /\ Len(s) = Len(kinds)
    /\ \A i \in 1..Len(kinds) : s[i].kind = kinds[i] /\ s[i].id = id

LEMMA TokensIs ==
    ASSUME NEW id \in 0..MaxRequests, NEW kinds \in Seq(TokenKinds)
    PROVE  Tokenwise(Tokens(kinds, id), kinds, id)
<1> DEFINE T == TokenType
           w == Tokens(kinds, id)
<1>1. \A k \in TokenKinds : Token(k, id) \in T /\ Token(k, id).kind = k /\ Token(k, id).id = id
  BY DEF Token, TokenType
<1> HIDE DEF T
<1>2. DOMAIN kinds = 1..Len(kinds) /\ Len(kinds) \in Nat /\ \A i \in 1..Len(kinds) : kinds[i] \in TokenKinds
  OBVIOUS
<1>3. w = [i \in 1..Len(kinds) |-> Token(kinds[i], id)]
  BY <1>2 DEF Tokens
<1>4. w \in [1..Len(kinds) -> T]
  BY <1>1, <1>2, <1>3
<1>5. w \in Seq(T)
  BY <1>2, <1>4, SeqDef
<1>6. Len(w) = Len(kinds)
  BY <1>2, <1>3, <1>5
<1> QED BY <1>1, <1>2, <1>3, <1>5, <1>6 DEF T, Tokenwise

LEMMA LengthIs ==
    ASSUME NEW id \in 0..MaxRequests, NEW n \in Nat
    PROVE  Tokenwise(<<Length(n, id)>>, <<"length">>, id)
<1>1. Length(n, id) \in TokenType /\ Length(n, id).kind = "length" /\ Length(n, id).id = id
  BY DEF Length, TokenType, TokenKinds
<1>2. "length" \in TokenKinds
  BY DEF TokenKinds
<1> QED BY <1>1, <1>2 DEF Tokenwise

LEMMA ConcatIs ==
    ASSUME NEW id, NEW s, NEW t, NEW k, NEW l, Tokenwise(s, k, id), Tokenwise(t, l, id)
    PROVE  Tokenwise(s \o t, k \o l, id)
<1>1. /\ s \o t \in Seq(TokenType) /\ Len(s \o t) = Len(s) + Len(t)
      /\ \A i \in 1..Len(s) + Len(t) : (s \o t)[i] = IF i <= Len(s) THEN s[i] ELSE t[i - Len(s)]
  <2>1. s \in Seq(TokenType) /\ t \in Seq(TokenType)
    BY DEF Tokenwise
  <2> QED BY <2>1, ConcatProperties
<1>2. /\ k \o l \in Seq(TokenKinds) /\ Len(k \o l) = Len(k) + Len(l)
      /\ \A i \in 1..Len(k) + Len(l) : (k \o l)[i] = IF i <= Len(k) THEN k[i] ELSE l[i - Len(k)]
  <2>1. k \in Seq(TokenKinds) /\ l \in Seq(TokenKinds)
    BY DEF Tokenwise
  <2> QED BY <2>1, ConcatProperties
<1>3. Len(s) \in Nat /\ Len(t) \in Nat /\ Len(s) = Len(k) /\ Len(t) = Len(l)
  BY DEF Tokenwise
<1>4. ASSUME NEW i \in 1..Len(k) + Len(l)
      PROVE  (s \o t)[i].kind = (k \o l)[i] /\ (s \o t)[i].id = id
  <2>1. CASE i <= Len(k)
    BY <1>1, <1>2, <1>3, <2>1 DEF Tokenwise
  <2>2. CASE ~(i <= Len(k))
    <3>1. i - Len(k) \in 1..Len(l)
      BY <1>3, <2>2
    <3> QED BY <1>1, <1>2, <1>3, <2>2, <3>1 DEF Tokenwise
  <2> QED BY <2>1, <2>2
<1> QED BY <1>1, <1>2, <1>3, <1>4 DEF Tokenwise

(* The same of a sequence of kinds: a head, a blank line, and a body.        *)
Request(k) ==
    /\ k \in Seq(TokenKinds) /\ Len(k) >= 2 /\ k[1] \in Starts
    /\ \E m \in 1..Len(k) - 1 :
          /\ k[m + 1] = "blank"
          /\ \A i \in 1..Len(k) : k[i] \in Lead <=> i <= m
    /\ \A i \in 2..Len(k) : k[i] \notin Starts
HeadKinds(k) ==
    /\ k \in Seq(TokenKinds) /\ Len(k) >= 1 /\ k[1] \in Starts
    /\ \A i \in 1..Len(k) : k[i] \in Lead
    /\ \A i \in 2..Len(k) : k[i] \notin Starts
RestKinds(k) ==
    /\ k \in Seq(TokenKinds) /\ Len(k) >= 1 /\ k[1] = "blank"
    /\ \A i \in 1..Len(k) : k[i] \notin Lead

LEMMA HeadRest ==
    ASSUME NEW k, NEW l, HeadKinds(k), RestKinds(l)
    PROVE  Request(k \o l)
<1> DEFINE w == k \o l
           m == Len(k)
<1>1. /\ w \in Seq(TokenKinds) /\ Len(w) = m + Len(l)
      /\ \A i \in 1..m + Len(l) : w[i] = IF i <= m THEN k[i] ELSE l[i - m]
  <2>1. k \in Seq(TokenKinds) /\ l \in Seq(TokenKinds)
    BY DEF HeadKinds, RestKinds
  <2> QED BY <2>1, ConcatProperties
<1>2. m \in Nat /\ m >= 1 /\ Len(l) \in Nat /\ Len(l) >= 1
  BY DEF HeadKinds, RestKinds
<1> HIDE DEF w, m
<1>3. ASSUME NEW i \in 1..Len(w) PROVE (w[i] \in Lead <=> i <= m) /\ (w[i] \in Starts => i < 2)
  <2>1. CASE i <= m
    <3>1. w[i] = k[i] /\ i \in 1..Len(k)
      BY <1>1, <1>2, <2>1 DEF m
    <3> QED BY <2>1, <3>1 DEF HeadKinds
  <2>2. CASE ~(i <= m)
    <3>1. i - m \in 1..Len(l) /\ w[i] = l[i - m]
      BY <1>1, <1>2, <2>2
    <3> QED BY <2>2, <3>1 DEF RestKinds, Lead
  <2> QED BY <2>1, <2>2
<1>4. w[1] \in Starts
  BY <1>1, <1>2 DEF HeadKinds, m
<1>5. m \in 1..Len(w) - 1 /\ w[m + 1] = "blank"
  <2>1. w[m + 1] = l[1]
    BY <1>1, <1>2
  <2> QED BY <1>1, <1>2, <2>1 DEF RestKinds
<1>6. Len(w) >= 2 /\ \A i \in 2..Len(w) : i \in 1..Len(w) /\ ~(i < 2)
  BY <1>1, <1>2
<1>7. \A i \in 2..Len(w) : w[i] \notin Starts
  BY <1>3, <1>6
<1>8. \A i \in 1..Len(w) : w[i] \in Lead <=> i <= m
  BY <1>3
<1> QED BY <1>1, <1>4, <1>5, <1>6, <1>7, <1>8 DEF Request, w

(* Each request that a client may send is one.                               *)
LEMMA WireIs ==
    ASSUME NEW kind \in Kinds, NEW id \in 0..MaxRequests
    PROVE  \E k : Request(k) /\ Tokenwise(Wire(kind, id), k, id)
<1> USE DEF Request, HeadKinds, RestKinds, Starts, Lead, TokenKinds
<1>1. /\ Request(<<"GET", "blank">>) /\ Request(<<"POST", "blank">>)
      /\ Request(<<"POST", "badlength", "blank">>) /\ Request(<<"GET", "junk", "blank">>)
      /\ Request(<<"FOO", "blank">>) /\ Request(<<"GET9", "blank">>)
      /\ Request(<<"POST", "lowerLength", "blank", "data", "data">>)
  OBVIOUS
<1>2. HeadKinds(<<"GET">>) /\ HeadKinds(<<"POST">>) /\ HeadKinds(<<"POST", "multipart">>)
  OBVIOUS
<1>3. RestKinds(<<"blank">>) /\ RestKinds(<<"blank", "data">>) /\ RestKinds(<<"blank", "data", "data">>)
      /\ RestKinds(<<"blank", "boundary", "disposition">>)
  OBVIOUS
<1>4. ASSUME NEW b \in Seq(TokenKinds), \A i \in 1..Len(b) : b[i] \notin Lead
      PROVE  RestKinds(<<"blank">> \o b)
  <2> DEFINE w == <<"blank">> \o b
  <2>1. <<"blank">> \in Seq(TokenKinds)
    OBVIOUS
  <2> HIDE DEF TokenKinds
  <2>2. /\ w \in Seq(TokenKinds) /\ Len(w) = 1 + Len(b)
        /\ \A i \in 1..1 + Len(b) : w[i] = IF i <= 1 THEN "blank" ELSE b[i - 1]
    BY <2>1, ConcatProperties
  <2> HIDE DEF w
  <2>3. w[1] = "blank" /\ Len(w) >= 1
    BY <2>2
  <2>4. ASSUME NEW i \in 1..Len(w) PROVE w[i] \notin Lead
    <3>1. CASE i <= 1
      BY <2>2, <3>1
    <3>2. CASE ~(i <= 1)
      <4>1. i - 1 \in 1..Len(b)
        BY <2>2, <3>2
      <4> QED BY <1>4, <2>2, <3>2, <4>1
    <3> QED BY <3>1, <3>2
  <2> QED BY <2>2, <2>3, <2>4 DEF w
<1>5. RestKinds(<<"blank">> \o MultipartBody) /\ RestKinds(<<"blank">> \o Front(MultipartBody))
      /\ Len(MultipartBody) = 6
  <2> DEFINE b == MultipartBody
  <2>1. b \in Seq(TokenKinds) /\ Len(b) = 6 /\ \A i \in 1..Len(b) : b[i] \notin Lead
    BY DEF MultipartBody
  <2> HIDE DEF b, TokenKinds, Lead
  <2>2. /\ Front(b) \in Seq(TokenKinds) /\ Len(Front(b)) = 5
        /\ \A i \in 1..5 : Front(b)[i] = b[i]
    <3>1. \A i \in 1..5 : b[i] \in TokenKinds
      BY <2>1
    <3> QED BY <2>1, <3>1, SubSeqProperties DEF Front
  <2>3. \A i \in 1..Len(Front(b)) : Front(b)[i] \notin Lead
    BY <2>1, <2>2
  <2> QED BY <1>4, <2>1, <2>2, <2>3 DEF b
<1>6. ASSUME NEW k, HeadKinds(k) PROVE HeadKinds(k \o <<"length">>)
  <2> DEFINE w == k \o <<"length">>
  <2>1. <<"length">> \in Seq(TokenKinds)
    OBVIOUS
  <2> HIDE DEF TokenKinds
  <2>2. /\ w \in Seq(TokenKinds) /\ Len(w) = Len(k) + 1
        /\ \A i \in 1..Len(k) + 1 : w[i] = IF i <= Len(k) THEN k[i] ELSE "length"
    <3>1. k \in Seq(TokenKinds)
      BY <1>6
    <3> QED BY <2>1, <3>1, ConcatProperties
  <2> HIDE DEF w
  <2>3. w[1] \in Starts /\ Len(w) >= 1
    BY <1>6, <2>2
  <2>4. \A i \in 1..Len(w) : w[i] \in Lead /\ (i # 1 => w[i] \notin Starts)
    BY <1>6, <2>2
  <2> QED BY <2>2, <2>3, <2>4 DEF w
<1> HIDE DEF Request, HeadKinds, RestKinds, Starts, Lead, TokenKinds
<1>7. ASSUME NEW k, NEW n \in Nat, NEW l, HeadKinds(k), RestKinds(l)
      PROVE  \E r : Request(r) /\ Tokenwise(Tokens(k, id) \o <<Length(n, id)>> \o Tokens(l, id), r, id)
  <2>1. k \in Seq(TokenKinds) /\ l \in Seq(TokenKinds)
    BY <1>7 DEF HeadKinds, RestKinds
  <2>2. Tokenwise(Tokens(k, id), k, id) /\ Tokenwise(Tokens(l, id), l, id)
    BY <2>1, TokensIs
  <2>3. Tokenwise(Tokens(k, id) \o <<Length(n, id)>>, k \o <<"length">>, id)
    BY <2>2, LengthIs, ConcatIs
  <2>4. Tokenwise(Tokens(k, id) \o <<Length(n, id)>> \o Tokens(l, id), k \o <<"length">> \o l, id)
    BY <2>2, <2>3, ConcatIs
  <2>5. Request(k \o <<"length">> \o l)
    BY <1>6, <1>7, HeadRest
  <2> QED BY <2>4, <2>5
<1>8. ASSUME NEW k, Request(k) PROVE Tokenwise(Tokens(k, id), k, id)
  <2>1. k \in Seq(TokenKinds)
    BY <1>8 DEF Request
  <2> QED BY <2>1, TokensIs
<1>9. kind \in RequestKinds
  BY ConnectionAssumption DEF ConnectionAssumption
<1> HIDE DEF Tokens, Length
<1>10. CASE kind \in {"get", "lowerPost", "noLength", "badLength", "badHeader", "badMethod", "badVersion"}
  BY <1>1, <1>8, <1>10 DEF Wire
<1>11. CASE kind \in {"getBody", "post", "emptyPost"}
  BY <1>2, <1>3, <1>7, <1>11 DEF Wire
<1>12. CASE kind = "shortUpload"
  BY <1>2, <1>3, <1>7, <1>12 DEF Wire
<1>13. CASE kind = "upload"
  <2>1. Wire(kind, id) = Tokens(<<"POST", "multipart">>, id) \o <<Length(Len(MultipartBody), id)>>
                             \o Tokens(<<"blank">> \o MultipartBody, id)
    BY <1>13 DEF Wire
  <2>2. Len(MultipartBody) \in Nat
    BY <1>5
  <2> QED BY <1>2, <1>5, <1>7, <2>1, <2>2
<1>14. CASE kind = "cutUpload"
  <2>1. Wire(kind, id) = Tokens(<<"POST", "multipart">>, id) \o <<Length(5, id)>>
                             \o Tokens(<<"blank">> \o Front(MultipartBody), id)
    BY <1>14 DEF Wire
  <2> QED BY <1>2, <1>5, <1>7, <2>1
<1>15. CASE kind = "negativeLength"
  <2>1. Unreachable \in Nat
    BY ConnectionAssumption DEF ConnectionAssumption, Unreachable
  <2> QED BY <1>2, <1>3, <1>7, <1>15, <2>1 DEF Wire
<1> QED BY <1>9, <1>10, <1>11, <1>12, <1>13, <1>14, <1>15 DEF RequestKinds

LEMMA WireShape ==
    ASSUME NEW kind \in Kinds, NEW id \in 0..MaxRequests
    PROVE  LET w == Wire(kind, id)
           IN  /\ w \in Seq(TokenType) /\ Adjacent(w)
               /\ \A i \in 1..Len(w) : w[i].id = id /\ (w[i].kind \in Starts => i = 1)
<1> DEFINE w == Wire(kind, id)
<1>1. PICK k : Request(k) /\ Tokenwise(w, k, id)
  BY WireIs
<1> HIDE DEF w
<1>2. w \in Seq(TokenType) /\ Len(w) = Len(k) /\ Len(w) \in Nat
      /\ \A i \in 1..Len(w) : w[i].kind = k[i] /\ w[i].id = id
  BY <1>1 DEF Tokenwise
<1>3. PICK m \in 1..Len(k) - 1 : k[m + 1] = "blank" /\ \A i \in 1..Len(k) : k[i] \in Lead <=> i <= m
  BY <1>1 DEF Request
<1>4. Adjacent(w)
  <2>1. ASSUME NEW i \in 1..Len(w), w[i].kind \in Lead
        PROVE  i < Len(w) /\ w[i + 1].id = w[i].id /\ w[i + 1].kind \in Lead \cup {"blank"}
    <3>1. i <= m /\ i < Len(w) /\ i + 1 \in 1..Len(w)
      BY <1>2, <1>3, <2>1
    <3>2. k[i + 1] \in Lead \cup {"blank"}
      BY <1>2, <1>3, <3>1
    <3> QED BY <1>2, <3>1, <3>2
  <2> QED BY <2>1 DEF Adjacent
<1>5. \A i \in 1..Len(w) : w[i].kind \in Starts => i = 1
  BY <1>1, <1>2 DEF Request
<1> QED BY <1>2, <1>4, <1>5 DEF w

-----------------------------------------------------------------------------
(* The stream the server has still to read, and what a step does to it.      *)
Stream == buf \o inflight
Dropped(s, t, n) ==
    /\ t \in Seq(TokenType) /\ Len(t) = Len(s) - n
    /\ \A i \in 1..Len(s) - n : t[i] = s[i + n]

LEMMA AfterIs ==
    ASSUME NEW s \in Seq(TokenType), NEW n \in 0..Len(s)
    PROVE  Dropped(s, After(s, n), n)
<1>1. n + 1 \in Int /\ Len(s) \in Nat /\ \A i \in (n + 1)..Len(s) : s[i] \in TokenType
  BY ElementOfSeq
<1> DEFINE t == SubSeq(s, n + 1, Len(s))
<1>2. /\ t \in Seq(TokenType) /\ Len(t) = IF n + 1 <= Len(s) THEN Len(s) - (n + 1) + 1 ELSE 0
      /\ \A i \in 1..Len(s) - (n + 1) + 1 : t[i] = s[n + 1 + i - 1]
  BY <1>1, SubSeqProperties
<1> HIDE DEF t
<1>3. Len(t) = Len(s) - n
  BY <1>1, <1>2
<1>4. ASSUME NEW i \in 1..Len(s) - n PROVE t[i] = s[i + n]
  <2>1. i \in 1..Len(s) - (n + 1) + 1 /\ n + 1 + i - 1 = i + n
    BY <1>1
  <2> QED BY <1>2, <2>1
<1> QED BY <1>2, <1>3, <1>4 DEF Dropped, After, t

(* Taking tokens from the buffer takes them from the stream.                 *)
LEMMA Consumed ==
    ASSUME NEW b \in Seq(TokenType), NEW f \in Seq(TokenType), NEW n \in 0..Len(b)
    PROVE  Dropped(b \o f, After(b, n) \o f, n)
<1> DEFINE a == After(b, n)
<1>1. Dropped(b, a, n) /\ Len(b) \in Nat /\ Len(f) \in Nat
  BY AfterIs
<1> HIDE DEF a
<1>2. /\ b \o f \in Seq(TokenType) /\ Len(b \o f) = Len(b) + Len(f)
      /\ \A i \in 1..Len(b) + Len(f) : (b \o f)[i] = IF i <= Len(b) THEN b[i] ELSE f[i - Len(b)]
  BY ConcatProperties
<1>3. /\ a \o f \in Seq(TokenType) /\ Len(a \o f) = Len(a) + Len(f)
      /\ \A i \in 1..Len(a) + Len(f) : (a \o f)[i] = IF i <= Len(a) THEN a[i] ELSE f[i - Len(a)]
  BY <1>1, ConcatProperties DEF Dropped
<1>4. Len(a) = Len(b) - n /\ \A i \in 1..Len(b) - n : a[i] = b[i + n]
  BY <1>1 DEF Dropped
<1>5. ASSUME NEW i \in 1..Len(b \o f) - n PROVE (a \o f)[i] = (b \o f)[i + n]
  <2>1. i \in 1..Len(a) + Len(f) /\ i + n \in 1..Len(b) + Len(f)
    BY <1>1, <1>2, <1>4
  <2>2. CASE i <= Len(a)
    BY <1>1, <1>2, <1>3, <1>4, <2>1, <2>2
  <2>3. CASE ~(i <= Len(a))
    <3>1. i - Len(a) = i + n - Len(b) /\ ~(i + n <= Len(b))
      BY <1>1, <1>4, <2>3
    <3> QED BY <1>2, <1>3, <2>1, <2>3, <3>1
  <2> QED BY <2>2, <2>3
<1>6. Len(a \o f) = Len(b \o f) - n
  BY <1>1, <1>2, <1>3, <1>4
<1> QED BY <1>3, <1>5, <1>6 DEF Dropped, a

LEMMA DroppedKeeps ==
    ASSUME NEW s \in Seq(TokenType), NEW t, NEW n \in 0..Len(s), Dropped(s, t, n), Adjacent(s), Ordered(s)
    PROVE  Adjacent(t) /\ Ordered(t)
<1>1. Len(s) \in Nat /\ Len(t) = Len(s) - n /\ \A i \in 1..Len(t) : i + n \in 1..Len(s) /\ t[i] = s[i + n]
  BY DEF Dropped
<1>2. Adjacent(t)
  <2>1. ASSUME NEW i \in 1..Len(t), t[i].kind \in Lead
        PROVE  i < Len(t) /\ t[i + 1].id = t[i].id /\ t[i + 1].kind \in Lead \cup {"blank"}
    <3>1. i + n < Len(s) /\ s[i + n + 1].id = s[i + n].id /\ s[i + n + 1].kind \in Lead \cup {"blank"}
      BY <1>1, <2>1 DEF Adjacent
    <3>2. i < Len(t) /\ i + 1 \in 1..Len(t) /\ i + 1 + n = i + n + 1
      BY <1>1, <3>1
    <3>3. t[i + 1] = s[i + n + 1]
      BY <1>1, <3>2
    <3> QED BY <1>1, <3>1, <3>2, <3>3
  <2> QED BY <2>1 DEF Adjacent
<1>3. ASSUME NEW i \in 1..Len(t), NEW j \in 1..Len(t), i < j,
             t[i].kind \in Starts, t[j].kind \in Starts
      PROVE  t[i].id < t[j].id
  <2>1. i + n < j + n
    BY <1>1, <1>3
  <2> QED BY <1>1, <1>3, <2>1 DEF Ordered
<1>4. \A i \in 1..Len(t) : t[i].kind \in Starts => t[i].id \in 1..Len(sent)
  BY <1>1 DEF Ordered
<1> QED BY <1>2, <1>3, <1>4 DEF Ordered

(* So does the rest of a boundary line in front of what is left.             *)
LEMMA RestKeeps ==
    ASSUME NEW s \in Seq(TokenType), NEW x \in TokenType, x.kind = "rest", Adjacent(s), Ordered(s)
    PROVE  LET t == <<x>> \o s
           IN  /\ t \in Seq(TokenType) /\ Adjacent(t) /\ Ordered(t)
               /\ Len(t) = Len(s) + 1 /\ t[1] = x /\ \A i \in 2..Len(t) : t[i] = s[i - 1]
<1> DEFINE t == <<x>> \o s
<1>1. Len(s) \in Nat /\ x.kind \notin Lead /\ x.kind \notin Starts
  BY DEF Lead, Starts
<1>2. /\ t \in Seq(TokenType) /\ Len(t) = 1 + Len(s)
      /\ \A i \in 1..1 + Len(s) : t[i] = IF i <= 1 THEN x ELSE s[i - 1]
  <2>1. <<x>> \in Seq(TokenType) /\ Len(<<x>>) = 1 /\ <<x>>[1] = x
    OBVIOUS
  <2>2. /\ t \in Seq(TokenType) /\ Len(t) = Len(<<x>>) + Len(s)
        /\ \A i \in 1..Len(<<x>>) + Len(s) : t[i] = IF i <= Len(<<x>>) THEN <<x>>[i] ELSE s[i - Len(<<x>>)]
    BY <2>1, ConcatProperties
  <2> HIDE DEF t
  <2>3. ASSUME NEW i \in 1..1 + Len(s) PROVE t[i] = IF i <= 1 THEN x ELSE s[i - 1]
    BY <2>1, <2>2
  <2> QED BY <2>1, <2>2, <2>3
<1> HIDE DEF t
<1>3. Adjacent(t)
  <2>1. ASSUME NEW i \in 1..Len(t), t[i].kind \in Lead
        PROVE  i < Len(t) /\ t[i + 1].id = t[i].id /\ t[i + 1].kind \in Lead \cup {"blank"}
    <3>1. i # 1 /\ i - 1 \in 1..Len(s) /\ t[i] = s[i - 1]
      BY <1>1, <1>2, <2>1
    <3>2. i - 1 < Len(s) /\ s[i - 1 + 1].id = s[i - 1].id /\ s[i - 1 + 1].kind \in Lead \cup {"blank"}
      BY <2>1, <3>1 DEF Adjacent
    <3>3. i < Len(t) /\ t[i + 1] = s[i - 1 + 1]
      BY <1>1, <1>2, <3>1, <3>2
    <3> QED BY <3>1, <3>2, <3>3
  <2> QED BY <2>1 DEF Adjacent
<1>4. ASSUME NEW i \in 1..Len(t), t[i].kind \in Starts
      PROVE  i - 1 \in 1..Len(s) /\ t[i] = s[i - 1]
  BY <1>1, <1>2, <1>4
<1>5. Ordered(t)
  <2>1. ASSUME NEW i \in 1..Len(t), NEW j \in 1..Len(t), i < j,
               t[i].kind \in Starts, t[j].kind \in Starts
        PROVE  t[i].id < t[j].id
    <3>1. i - 1 \in 1..Len(s) /\ j - 1 \in 1..Len(s) /\ i - 1 < j - 1 /\ t[i] = s[i - 1] /\ t[j] = s[j - 1]
      BY <1>4, <2>1
    <3> QED BY <2>1, <3>1 DEF Ordered
  <2>2. \A i \in 1..Len(t) : t[i].kind \in Starts => t[i].id \in 1..Len(sent)
    BY <1>4 DEF Ordered
  <2> QED BY <2>1, <2>2 DEF Ordered
<1> QED BY <1>1, <1>2, <1>3, <1>5 DEF t

-----------------------------------------------------------------------------
(* The types.                                                                *)
RequestType ==
    [method : {"kInvalid", "kGet", "kPost"}, id : 0..MaxRequests, fields : SUBSET TokenType,
     body : Seq(TokenType), length : Nat, uploadOk : BOOLEAN]
ReplyType == [kind : {"reply", "fileError", "refusal"}, to : 0..MaxRequests, close : BOOLEAN]
HandledType ==
    [id : 0..MaxRequests, method : {"kInvalid", "kGet", "kPost"}, fields : SUBSET TokenType,
     body : Seq(TokenType), length : Nat, served : BOOLEAN]

TypeInv ==
    /\ sent \in Seq(Kinds) /\ Len(sent) <= MaxRequests
    /\ inflight \in Seq(TokenType) /\ buf \in Seq(TokenType)
    /\ state_ \in States /\ request_ \in RequestType
    /\ step \in {"loop", "parse", "parsed", "aborted"}
    /\ ok \in BOOLEAN /\ connected \in BOOLEAN /\ overlapped \in BOOLEAN /\ aborted \in BOOLEAN
    /\ replies \in Seq(ReplyType) /\ handled \in Seq(HandledType)

LEMMA TypeInvOK == TypeInv => TypeOK
<1> SUFFICES ASSUME TypeInv PROVE TypeOK
  OBVIOUS
<1>1. \A i \in DOMAIN replies : replies[i] \in ReplyType
  BY DEF TypeInv
<1> QED BY <1>1 DEF TypeInv, TypeOK, ReplyType, RequestType

(* The buffer after a step of the parser: n tokens are taken, and the rest   *)
(* of a boundary line may stay in front.                                     *)
Took(n) ==
    /\ n \in 0..Len(buf)
    /\ \/ buf' = After(buf, n)
       \/ \E id \in 0..MaxRequests : buf' = <<Token("rest", id)>> \o After(buf, n)
Takes == buf' = buf \/ \E n \in 0..Len(buf) : Took(n)

LEMMA TailIsAfter ==
    ASSUME NEW s \in Seq(TokenType), s # <<>>
    PROVE  Tail(s) = After(s, 1) /\ 1 \in 0..Len(s) /\ Head(s) = s[1] /\ 1 \in 1..Len(s) /\ s[1] \in TokenType
<1>1. Len(s) \in Nat \ {0}
  BY EmptySeq
<1>2. Tail(s) = SubSeq(s, 2, Len(s))
  BY TailIsSubSeq
<1> QED BY <1>1, <1>2 DEF After

LEMMA ParseTakes ==
    ASSUME TypeInv, ParseRequest
    PROVE  /\ inflight' = inflight /\ sent' = sent /\ overlapped' = overlapped
           /\ handled' = handled /\ Takes
<1> USE DEF TypeInv
<1>1. /\ inflight' = inflight /\ sent' = sent /\ overlapped' = overlapped /\ handled' = handled
  BY DEF ParseRequest, ParseNoLine, ParseRequestLine, ParseHeader, EndOfPostHeaders, ParseBodyWait,
         ParseBody, ParseMultipart, ParseThrows, untouched, client
<1>2. buf' = Tail(buf) /\ buf # <<>> => Takes
  BY TailIsAfter DEF Takes, Took
<1>3. ASSUME ParseNoLine \/ ParseBodyWait \/ ParseThrows PROVE Takes
  BY <1>3 DEF ParseNoLine, ParseBodyWait, ParseThrows, Takes
<1>4. ASSUME ParseRequestLine PROVE Takes
  <2>1. buf # <<>>
    BY <1>4, FirstLine DEF ParseRequestLine
  <2>2. buf' = buf \/ buf' = Tail(buf)
    BY <1>4 DEF ParseRequestLine
  <2> QED BY <1>2, <2>1, <2>2 DEF Takes
<1>5. ASSUME ParseHeader PROVE Takes
  <2>1. NthLineEnd(buf, 1) \in 1..Len(buf)
    BY <1>5, FirstLine DEF ParseHeader
  <2>2. buf' = After(buf, NthLineEnd(buf, 1))
    BY <1>5 DEF ParseHeader
  <2> QED BY <2>1, <2>2 DEF Takes, Took
<1>6. ASSUME EndOfPostHeaders PROVE Takes
  BY <1>2, <1>6 DEF EndOfPostHeaders
<1>7. ASSUME ParseBody PROVE Takes
  <2>1. request_.length \in Nat /\ ~(Len(buf) < request_.length) /\ Len(buf) \in Nat
    BY <1>7 DEF ParseBody, BodyIncomplete, RequestType
  <2>2. buf' = After(buf, request_.length)
    BY <1>7 DEF ParseBody, AfterBody
  <2> QED BY <2>1, <2>2 DEF Takes, Took
<1>8. ASSUME ParseMultipart PROVE Takes
  <2> DEFINE lines == Cardinality(LineEnds(buf))
             parsed == lines >= 4 /\ ClosingBoundaries # {}
             end == CHOOSE i \in ClosingBoundaries : \A j \in ClosingBoundaries : i <= j
             skipped == IF lines >= 4 THEN 4 ELSE lines
  <2>1. buf' = IF parsed THEN <<Token("rest", buf[end].id)>> \o After(buf, end)
               ELSE IF skipped = 0 THEN buf
               ELSE After(buf, NthLineEnd(buf, skipped))
    BY <1>8 DEF ParseMultipart
  <2>2. lines \in Nat
    <3>1. LineEnds(buf) \subseteq 1..Len(buf) /\ Len(buf) \in Nat
      BY DEF LineEnds
    <3>2. IsFiniteSet(1..Len(buf))
      BY <3>1, FS_Interval
    <3>3. IsFiniteSet(LineEnds(buf))
      BY <3>1, <3>2, FS_Subset
    <3> QED BY <3>3, FS_CardinalityType
  <2>3. CASE parsed
    <3>1. NthLineEnd(buf, 4) \in 1..Len(buf)
      <4>1. 4 \in Nat \ {0} /\ 4 <= Cardinality(LineEnds(buf)) /\ buf \in Seq(TokenType)
        BY <2>2, <2>3
      <4> QED BY <4>1, NthLineEndIs
    <3>2. ClosingBoundaries \subseteq 1..Len(buf)
      BY <3>1 DEF ClosingBoundaries
    <3>3. end \in ClosingBoundaries
      <4>1. ClosingBoundaries \subseteq Nat
        BY <3>2
      <4>2. \E i \in ClosingBoundaries : \A j \in ClosingBoundaries : i <= j
        BY <2>3, <4>1, Least
      <4> QED BY <4>2
    <3> HIDE DEF end
    <3>4. end \in 1..Len(buf) /\ buf[end].id \in 0..MaxRequests
      <4>1. end \in 1..Len(buf)
        BY <3>2, <3>3
      <4>2. buf[end] \in TokenType
        BY <4>1, ElementOfSeq
      <4> QED BY <4>1, <4>2 DEF TokenType
    <3>5. end \in 0..Len(buf)
      BY <3>4
    <3> QED BY <2>1, <2>3, <3>4, <3>5 DEF Takes, Took
  <2>4. CASE ~parsed /\ skipped = 0
    BY <2>1, <2>4 DEF Takes
  <2>5. CASE ~parsed /\ skipped # 0
    <3>1. skipped \in Nat \ {0} /\ skipped <= lines
      BY <2>2, <2>5
    <3>2. NthLineEnd(buf, skipped) \in 1..Len(buf)
      BY <3>1, NthLineEndIs
    <3> HIDE DEF parsed, skipped
    <3> QED BY <2>1, <2>5, <3>2 DEF Takes, Took
  <2> QED BY <2>3, <2>4, <2>5
<1> QED BY <1>1, <1>3, <1>4, <1>5, <1>6, <1>7, <1>8 DEF ParseRequest

StreamInv == Adjacent(Stream) /\ Ordered(Stream)
(* Nothing starts in the stream that was not in it before.                   *)
NoNewStarts ==
    \A i \in 1..Len(Stream') : Stream'[i].kind \in Starts =>
        \E j \in 1..Len(Stream) : Stream'[i] = Stream[j]

LEMMA StreamType ==
    ASSUME TypeInv
    PROVE  /\ Stream \in Seq(TokenType) /\ Len(Stream) = Len(buf) + Len(inflight)
           /\ Len(buf) \in Nat /\ Len(inflight) \in Nat
           /\ \A i \in 1..Len(buf) : Stream[i] = buf[i] /\ i \in 1..Len(Stream)
<1>1. buf \in Seq(TokenType) /\ inflight \in Seq(TokenType)
  BY DEF TypeInv
<1>2. /\ Stream \in Seq(TokenType) /\ Len(Stream) = Len(buf) + Len(inflight)
      /\ \A i \in 1..Len(buf) + Len(inflight) :
            Stream[i] = IF i <= Len(buf) THEN buf[i] ELSE inflight[i - Len(buf)]
  BY <1>1, ConcatProperties DEF Stream
<1>3. Len(buf) \in Nat /\ Len(inflight) \in Nat
  BY <1>1
<1> QED BY <1>2, <1>3

LEMMA StreamTakes ==
    ASSUME TypeInv, StreamInv, inflight' = inflight, sent' = sent, Takes
    PROVE  buf' \in Seq(TokenType) /\ StreamInv' /\ NoNewStarts
<1>1. buf \in Seq(TokenType) /\ inflight \in Seq(TokenType)
  BY DEF TypeInv
<1>2. CASE buf' = buf
  <2>1. Stream' = Stream
    BY <1>2 DEF Stream
  <2> QED BY <1>1, <1>2, <2>1 DEF StreamInv, Adjacent, Ordered, NoNewStarts
<1>3. ASSUME NEW n \in 0..Len(buf), Took(n)
      PROVE  buf' \in Seq(TokenType) /\ StreamInv' /\ NoNewStarts
  <2> DEFINE a == After(buf, n)
             t == a \o inflight
  <2>1. a \in Seq(TokenType)
    BY <1>1, AfterIs DEF Dropped
  <2>2. Dropped(Stream, t, n)
    BY <1>1, Consumed DEF Stream
  <2> HIDE DEF a
  <2>3. Stream \in Seq(TokenType) /\ n \in 0..Len(Stream)
    BY StreamType
  <2> HIDE DEF t
  <2>4. Adjacent(t) /\ Ordered(t) /\ t \in Seq(TokenType)
    BY <2>2, <2>3, DroppedKeeps DEF StreamInv, Dropped
  <2>5. \A i \in 1..Len(t) : \E j \in 1..Len(Stream) : t[i] = Stream[j]
    <3>1. ASSUME NEW i \in 1..Len(t) PROVE i + n \in 1..Len(Stream) /\ t[i] = Stream[i + n]
      BY <2>2, <2>3 DEF Dropped
    <3> QED BY <3>1
  <2>6. CASE buf' = a
    <3>1. Stream' = t
      BY <2>6 DEF Stream, t
    <3> QED BY <2>1, <2>4, <2>5, <2>6, <3>1 DEF StreamInv, Ordered, Adjacent, NoNewStarts
  <2>7. ASSUME NEW id \in 0..MaxRequests, buf' = <<Token("rest", id)>> \o a
        PROVE  buf' \in Seq(TokenType) /\ StreamInv' /\ NoNewStarts
    <3> DEFINE x == Token("rest", id)
               r == <<x>> \o t
    <3>1. x \in TokenType /\ x.kind = "rest"
      BY DEF Token, TokenType, TokenKinds
    <3> HIDE DEF x
    <3>2. /\ r \in Seq(TokenType) /\ Adjacent(r) /\ Ordered(r)
          /\ Len(r) = Len(t) + 1 /\ r[1] = x /\ \A i \in 2..Len(r) : r[i] = t[i - 1]
      BY <2>4, <3>1, RestKeeps
    <3>3. <<x>> \in Seq(TokenType) /\ buf' = <<x>> \o a
      BY <2>7, <3>1 DEF x
    <3>4. buf' \in Seq(TokenType)
      BY <2>1, <3>3, ConcatProperties
    <3>5. Stream' = r
      BY <1>1, <2>1, <3>3, ConcatAssociative DEF Stream, t
    <3> HIDE DEF r
    <3>6. ASSUME NEW i \in 1..Len(r), r[i].kind \in Starts
          PROVE  \E j \in 1..Len(Stream) : r[i] = Stream[j]
      <4>1. i # 1 /\ Len(t) \in Nat
        BY <2>4, <3>1, <3>2, <3>6 DEF Starts
      <4>2. i \in 2..Len(r) /\ i - 1 \in 1..Len(t) /\ r[i] = t[i - 1]
        BY <3>2, <4>1
      <4> QED BY <2>5, <4>2
    <3> QED BY <3>2, <3>4, <3>5, <3>6 DEF StreamInv, Ordered, Adjacent, NoNewStarts
  <2> QED BY <1>3, <2>6, <2>7 DEF Took, a
<1> QED BY <1>2, <1>3 DEF Takes

(* What the records become.                                                  *)
LEMMA RequestFields ==
    ASSUME NEW r \in RequestType
    PROVE  /\ \A m \in {"kInvalid", "kGet", "kPost"}, n \in 0..MaxRequests :
                 LET v == [r EXCEPT !.method = m, !.id = n]
                 IN  v \in RequestType /\ v.id = n /\ v.fields = r.fields
           /\ \A m \in {"kInvalid", "kGet", "kPost"} :
                 LET v == [r EXCEPT !.method = m]
                 IN  v \in RequestType /\ v.id = r.id /\ v.fields = r.fields
           /\ \A f \in SUBSET TokenType :
                 LET v == [r EXCEPT !.fields = f]
                 IN  v \in RequestType /\ v.id = r.id /\ v.fields = f
           /\ \A n \in Nat :
                 LET v == [r EXCEPT !.length = n]
                 IN  v \in RequestType /\ v.id = r.id /\ v.fields = r.fields
           /\ \A b \in Seq(TokenType) :
                 LET v == [r EXCEPT !.body = b]
                 IN  v \in RequestType /\ v.id = r.id /\ v.fields = r.fields
           /\ \A b \in BOOLEAN :
                 LET v == [r EXCEPT !.uploadOk = b]
                 IN  v \in RequestType /\ v.id = r.id /\ v.fields = r.fields
           /\ Reset(r) \in RequestType /\ Reset(r).fields = {} /\ Reset(r).method = "kInvalid"
<1> DEFINE T == TokenType
           Q == Seq(T)
           M == {"kInvalid", "kGet", "kPost"}
           I == 0..MaxRequests
<1>0. 0 \in I /\ "kInvalid" \in M /\ {} \in SUBSET T
  BY ConnectionAssumption DEF ConnectionAssumption
<1>1. r \in [method : M, id : I, fields : SUBSET T, body : Q, length : Nat, uploadOk : BOOLEAN]
  BY DEF RequestType
<1>2. RequestType = [method : M, id : I, fields : SUBSET T, body : Q, length : Nat, uploadOk : BOOLEAN]
  BY DEF RequestType
<1> HIDE DEF T, Q, M, I
<1>3. /\ \A m \in M, n \in I :
             LET v == [r EXCEPT !.method = m, !.id = n]
             IN  v \in RequestType /\ v.id = n /\ v.fields = r.fields
      /\ \A m \in M :
             LET v == [r EXCEPT !.method = m]
             IN  v \in RequestType /\ v.id = r.id /\ v.fields = r.fields
  BY <1>1, <1>2
<1>4. /\ \A f \in SUBSET T :
             LET v == [r EXCEPT !.fields = f]
             IN  v \in RequestType /\ v.id = r.id /\ v.fields = f
      /\ \A n \in Nat :
             LET v == [r EXCEPT !.length = n]
             IN  v \in RequestType /\ v.id = r.id /\ v.fields = r.fields
  BY <1>1, <1>2
<1>5. /\ \A b \in Q :
             LET v == [r EXCEPT !.body = b]
             IN  v \in RequestType /\ v.id = r.id /\ v.fields = r.fields
      /\ \A b \in BOOLEAN :
             LET v == [r EXCEPT !.uploadOk = b]
             IN  v \in RequestType /\ v.id = r.id /\ v.fields = r.fields
  BY <1>1, <1>2
<1>6. Reset(r) \in RequestType /\ Reset(r).fields = {} /\ Reset(r).method = "kInvalid"
  BY <1>0, <1>1, <1>2 DEF Reset
<1> QED BY <1>3, <1>4, <1>5, <1>6 DEF T, Q, M, I

LEMMA RefusalIs == Refusal \in ReplyType /\ Refusal.kind = "refusal" /\ Refusal.close = TRUE /\ <<Refusal>> \in Seq(ReplyType)
<1>1. 0 \in 0..MaxRequests
  BY ConnectionAssumption DEF ConnectionAssumption
<1>2. Refusal \in ReplyType /\ Refusal.kind = "refusal" /\ Refusal.close = TRUE
  BY <1>1 DEF Refusal, Reply, ReplyType
<1> HIDE DEF Refusal
<1> QED BY <1>2

LEMMA WrittenIs ==
    ASSUME TypeInv, NEW msgs \in Seq(ReplyType), Written(msgs)
    PROVE  /\ replies' \in Seq(ReplyType)
           /\ replies' = replies \/ (connected /\ replies' = replies \o msgs)
<1>1. replies \in Seq(ReplyType)
  BY DEF TypeInv
<1>2. replies \o msgs \in Seq(ReplyType)
  BY <1>1, ConcatProperties
<1> QED BY <1>1, <1>2 DEF Written

LEMMA ParseType ==
    ASSUME TypeInv, StreamInv, ParseRequest
    PROVE  TypeInv' /\ StreamInv' /\ NoNewStarts
<1> USE DEF TypeInv
<1>1. /\ inflight' = inflight /\ sent' = sent /\ overlapped' = overlapped /\ handled' = handled
      /\ buf' \in Seq(TokenType) /\ StreamInv' /\ NoNewStarts
  BY ParseTakes, StreamTakes
<1>2. request_' \in RequestType
  <2>1. CASE request_' = request_
    BY <2>1
  <2>2. CASE ParseRequestLine
    <3>1. NthLineEnd(buf, 1) \in 1..Len(buf) /\ buf # <<>>
      BY <2>2, FirstLine DEF ParseRequestLine
    <3>2. Head(buf).id \in 0..MaxRequests
      BY <3>1, TailIsAfter DEF TokenType
    <3> DEFINE m == IF NthLineEnd(buf, 1) = 1 THEN MethodWord(FirstLineKind) ELSE "kInvalid"
    <3>3. m \in {"kInvalid", "kGet", "kPost"}
      BY DEF MethodWord
    <3>4. \/ request_' = [request_ EXCEPT !.method = m, !.id = Head(buf).id]
          \/ request_' = [request_ EXCEPT !.method = m]
          \/ request_' = request_
      BY <2>2 DEF ParseRequestLine
    <3> HIDE DEF m
    <3>5. [request_ EXCEPT !.method = m, !.id = Head(buf).id] \in RequestType
      BY <3>2, <3>3, RequestFields
    <3>6. [request_ EXCEPT !.method = m] \in RequestType
      BY <3>3, RequestFields
    <3> QED BY <3>4, <3>5, <3>6
  <2>3. CASE ParseHeader
    <3>1. NthLineEnd(buf, 1) \in 1..Len(buf)
      BY <2>3, FirstLine DEF ParseHeader
    <3> DEFINE x == buf[NthLineEnd(buf, 1)]
               F == {f \in request_.fields : ~SameName(f, x)} \cup {x}
    <3>2. x \in TokenType
      BY <3>1, ElementOfSeq
    <3>3. F \in SUBSET TokenType
      BY <3>2 DEF RequestType
    <3>4. request_' = [request_ EXCEPT !.fields = F] \/ request_' = request_
      BY <2>3 DEF ParseHeader, AddHeader, RequestType
    <3> HIDE DEF F
    <3>5. [request_ EXCEPT !.fields = F] \in RequestType
      BY <3>3, RequestFields
    <3> QED BY <3>4, <3>5
  <2>4. CASE EndOfPostHeaders
    <3>1. LengthFields \subseteq TokenType
      BY DEF LengthFields, RequestType
    <3>2. \A f \in LengthFields : f.n \in Nat
      BY <3>1 DEF TokenType
    <3>3. request_' = request_ \/ \E f \in LengthFields : request_' = [request_ EXCEPT !.length = f.n]
      BY <2>4 DEF EndOfPostHeaders
    <3>4. ASSUME NEW f \in LengthFields PROVE [request_ EXCEPT !.length = f.n] \in RequestType
      BY <3>2, RequestFields
    <3> QED BY <3>3, <3>4
  <2>5. CASE ParseBody
    <3>1. request_.length \in Nat /\ ~(Len(buf) < request_.length) /\ Len(buf) \in Nat
      BY <2>5 DEF ParseBody, BodyIncomplete, RequestType
    <3>2. \A i \in 1..request_.length : buf[i] \in TokenType
      BY <3>1, ElementOfSeq
    <3> DEFINE b == SubSeq(buf, 1, request_.length)
    <3>3. b \in Seq(TokenType)
      BY <3>1, <3>2, SubSeqProperties
    <3>4. request_' = [request_ EXCEPT !.body = b]
      BY <2>5 DEF ParseBody, TakenBody
    <3> HIDE DEF b
    <3> QED BY <3>3, <3>4, RequestFields
  <2>6. CASE ParseMultipart
    <3>1. PICK b \in BOOLEAN : request_' = [request_ EXCEPT !.uploadOk = b]
      BY <2>6 DEF ParseMultipart
    <3>2. [request_ EXCEPT !.uploadOk = b] \in RequestType
      BY RequestFields
    <3> QED BY <3>1, <3>2
  <2> QED BY <2>1, <2>2, <2>3, <2>4, <2>5, <2>6 DEF ParseRequest, ParseNoLine, ParseBodyWait, ParseThrows
<1>3. state_' \in States
  BY DEF ParseRequest, ParseNoLine, ParseRequestLine, ParseHeader, EndOfPostHeaders, ParseBodyWait,
         ParseBody, ParseMultipart, ParseThrows, States
<1>4. step' \in {"loop", "parse", "parsed", "aborted"}
  BY DEF ParseRequest, ParseNoLine, ParseRequestLine, ParseHeader, EndOfPostHeaders, ParseBodyWait,
         ParseBody, ParseMultipart, ParseThrows, Parsing
<1>5. ok' \in BOOLEAN /\ aborted' \in BOOLEAN
  <2>1. ok' \in BOOLEAN
    <3>1. ok' = ok \/ ok' = FALSE \/ \E p \in BOOLEAN : ok' = p
      BY DEF ParseRequest, ParseNoLine, ParseRequestLine, ParseHeader, EndOfPostHeaders, ParseBodyWait,
             ParseBody, ParseMultipart, ParseThrows
    <3> QED BY <3>1
  <2>2. aborted' = aborted \/ aborted' = TRUE
    BY DEF ParseRequest, ParseNoLine, ParseRequestLine, ParseHeader, EndOfPostHeaders, ParseBodyWait,
           ParseBody, ParseMultipart, ParseThrows
  <2> QED BY <2>1, <2>2
<1>6. connected' \in BOOLEAN /\ replies' \in Seq(ReplyType)
  <2>1. CASE ParseThrows
    <3>1. Written(<<Refusal>>) /\ Shutdown(TRUE)
      BY <2>1 DEF ParseThrows
    <3>2. connected' \in BOOLEAN
      BY <3>1 DEF Shutdown
    <3> QED BY <3>1, <3>2, RefusalIs, WrittenIs
  <2>2. CASE ~ParseThrows
    BY <2>2 DEF ParseRequest, ParseNoLine, ParseRequestLine, ParseHeader, EndOfPostHeaders, ParseBodyWait,
                ParseBody, ParseMultipart, untouched
  <2> QED BY <2>1, <2>2
<1> QED BY <1>1, <1>2, <1>3, <1>4, <1>5, <1>6

-----------------------------------------------------------------------------
(* The other steps: what they leave of the types and of the stream.          *)
LEMMA InitType == Init => TypeInv /\ StreamInv
<1> SUFFICES ASSUME Init PROVE TypeInv /\ StreamInv
  OBVIOUS
<1>1. NoRequest \in RequestType
  BY ConnectionAssumption DEF ConnectionAssumption, NoRequest, RequestType
<1>2. TypeInv
  <2>1. \A S : <<>> \in Seq(S) /\ Len(<<>>) = 0
    OBVIOUS
  <2>2. MaxRequests \in Nat
    BY ConnectionAssumption DEF ConnectionAssumption
  <2>3. sent \in Seq(Kinds) /\ Len(sent) <= MaxRequests
    BY <2>1, <2>2 DEF Init
  <2>4. inflight \in Seq(TokenType) /\ buf \in Seq(TokenType) /\ replies \in Seq(ReplyType) /\ handled \in Seq(HandledType)
    BY <2>1 DEF Init
  <2> QED BY <1>1, <2>3, <2>4 DEF Init, TypeInv, States
<1>3. Stream \in Seq(TokenType) /\ Len(Stream) = 0
  <2>1. Len(buf) = 0 /\ Len(inflight) = 0
    BY DEF Init
  <2> QED BY <1>2, <2>1, StreamType
<1> QED BY <1>2, <1>3 DEF StreamInv, Adjacent, Ordered

LEMMA SendType ==
    ASSUME TypeInv, StreamInv, NEW kind \in Kinds, Send(kind)
    PROVE  /\ TypeInv' /\ StreamInv' /\ Len(sent') = Len(sent) + 1 /\ Len(sent) \in Nat
           /\ Len(Stream') \in Nat /\ Len(Stream') >= Len(Stream)
           /\ \A i \in 1..Len(Stream) : Stream'[i] = Stream[i]
           /\ \A i \in 1..Len(Stream') : Stream'[i].kind \in Starts =>
                 \/ i \in 1..Len(Stream)
                 \/ i = Len(Stream) + 1 /\ Stream'[i].id = Len(sent) + 1
<1> DEFINE id == Len(sent) + 1
           w == Wire(kind, id)
           s == Stream
           t == s \o w
<1>1. Len(sent) \in Nat /\ sent' = Append(sent, kind) /\ sent' \in Seq(Kinds) /\ Len(sent') = id
      /\ id \in 1..MaxRequests /\ Len(sent') <= MaxRequests
  <2>1. Len(sent) < MaxRequests /\ sent' = Append(sent, kind) /\ sent \in Seq(Kinds)
    BY DEF Send, TypeInv
  <2>2. MaxRequests \in Nat
    BY ConnectionAssumption DEF ConnectionAssumption
  <2> QED BY <2>1, <2>2, AppendProperties
<1>2. id \in 0..MaxRequests
  BY <1>1
<1>3. /\ w \in Seq(TokenType) /\ Adjacent(w)
      /\ \A i \in 1..Len(w) : w[i].id = id /\ (w[i].kind \in Starts => i = 1)
  BY <1>2, WireShape
<1>4. buf \in Seq(TokenType) /\ inflight \in Seq(TokenType) /\ s \in Seq(TokenType) /\ Len(s) \in Nat
  BY StreamType DEF TypeInv
<1>5. inflight' = inflight \o w /\ buf' = buf
  BY DEF Send
<1> HIDE DEF w
<1>6. inflight' \in Seq(TokenType) /\ Stream' = t
  <2>1. inflight \o w \in Seq(TokenType)
    BY <1>3, <1>4, ConcatProperties
  <2>2. buf \o (inflight \o w) = (buf \o inflight) \o w
    <3>1. buf \in Seq(TokenType) /\ inflight \in Seq(TokenType) /\ w \in Seq(TokenType)
      BY <1>3, <1>4
    <3> QED BY <3>1, ConcatAssociative
  <2> QED BY <1>5, <2>1, <2>2 DEF Stream
<1>7. /\ t \in Seq(TokenType) /\ Len(t) = Len(s) + Len(w) /\ Len(w) \in Nat
      /\ \A i \in 1..Len(s) + Len(w) : t[i] = IF i <= Len(s) THEN s[i] ELSE w[i - Len(s)]
  BY <1>3, <1>4, ConcatProperties
<1> HIDE DEF s, t
<1>8. \A i \in 1..Len(s) : i \in 1..Len(t) /\ t[i] = s[i]
  BY <1>4, <1>7
<1>9. ASSUME NEW i \in 1..Len(t), i \notin 1..Len(s)
      PROVE  i - Len(s) \in 1..Len(w) /\ t[i] = w[i - Len(s)]
  BY <1>4, <1>7, <1>9
<1>10. \A i \in 1..Len(t) : t[i].kind \in Starts =>
          i \in 1..Len(s) \/ (i = Len(s) + 1 /\ t[i].id = id)
  <2>1. ASSUME NEW i \in 1..Len(t), t[i].kind \in Starts, i \notin 1..Len(s)
        PROVE  i = Len(s) + 1 /\ t[i].id = id
    <3>1. i - Len(s) = 1 /\ t[i].id = id
      BY <1>3, <1>9, <2>1
    <3> QED BY <1>4, <3>1
  <2> QED BY <2>1
<1>11. Adjacent(t)
  <2>1. ASSUME NEW i \in 1..Len(t), t[i].kind \in Lead
        PROVE  i < Len(t) /\ t[i + 1].id = t[i].id /\ t[i + 1].kind \in Lead \cup {"blank"}
    <3>1. CASE i \in 1..Len(s)
      <4>1. t[i] = s[i]
        BY <1>8, <3>1
      <4>2. i < Len(s) /\ s[i + 1].id = s[i].id /\ s[i + 1].kind \in Lead \cup {"blank"}
        BY <2>1, <3>1, <4>1 DEF StreamInv, Adjacent, s
      <4>3. i + 1 \in 1..Len(s) /\ i < Len(t)
        BY <1>4, <1>7, <3>1, <4>2
      <4>4. t[i + 1] = s[i + 1]
        BY <1>8, <4>3
      <4> QED BY <4>1, <4>2, <4>3, <4>4
    <3>2. CASE i \notin 1..Len(s)
      <4> DEFINE k == i - Len(s)
      <4>1. k \in 1..Len(w) /\ t[i] = w[k]
        BY <1>9, <3>2
      <4>2. k < Len(w) /\ w[k + 1].id = w[k].id /\ w[k + 1].kind \in Lead \cup {"blank"}
        BY <1>3, <2>1, <4>1 DEF Adjacent
      <4>3. i < Len(t) /\ i + 1 \in 1..Len(t) /\ i + 1 \notin 1..Len(s) /\ i + 1 - Len(s) = k + 1
        BY <1>4, <1>7, <3>2, <4>1, <4>2
      <4>4. t[i + 1] = w[k + 1]
        <5>1. t[i + 1] = w[i + 1 - Len(s)]
          BY <1>9, <4>3
        <5> QED BY <4>3, <5>1
      <4> QED BY <4>1, <4>2, <4>3, <4>4
    <3> QED BY <3>1, <3>2
  <2> QED BY <2>1 DEF Adjacent
<1>12. Ordered(s)
  BY DEF StreamInv, s
<1>13. \A i \in 1..Len(t) : t[i].kind \in Starts => t[i].id \in 1..id
  <2>1. \A i \in 1..Len(s) : s[i].kind \in Starts => s[i].id \in 1..Len(sent)
    BY <1>12 DEF Ordered
  <2> QED BY <1>1, <1>8, <1>10, <2>1
<1>14. ASSUME NEW i \in 1..Len(t), NEW j \in 1..Len(t), i < j, t[i].kind \in Starts, t[j].kind \in Starts
       PROVE  t[i].id < t[j].id
  <2>1. i \in 1..Len(s)
    <3>1. (i \in 1..Len(s) \/ i = Len(s) + 1) /\ (j \in 1..Len(s) \/ j = Len(s) + 1)
      BY <1>10, <1>14
    <3> QED BY <1>4, <1>14, <3>1
  <2>2. t[i] = s[i] /\ s[i].kind \in Starts /\ s[i].id \in 1..Len(sent)
    BY <1>8, <1>12, <1>14, <2>1 DEF Ordered
  <2>3. CASE j \in 1..Len(s)
    BY <1>8, <1>12, <1>14, <2>1, <2>2, <2>3 DEF Ordered
  <2>4. CASE j \notin 1..Len(s)
    <3>1. t[j].id = id
      BY <1>10, <1>14, <2>4
    <3> QED BY <1>1, <2>2, <3>1
  <2> QED BY <2>3, <2>4
<1>15. StreamInv'
  BY <1>1, <1>6, <1>11, <1>13, <1>14 DEF StreamInv, Ordered, Adjacent
<1>16. TypeInv'
  <2>1. overlapped' \in BOOLEAN
    BY DEF Send, TypeInv
  <2> QED BY <1>1, <1>6, <2>1 DEF Send, TypeInv
<1>17. Len(t) \in Nat /\ Len(t) >= Len(s)
  BY <1>4, <1>7
<1> QED BY <1>1, <1>6, <1>8, <1>10, <1>15, <1>16, <1>17 DEF s

(* What TCP delivers moves from the wire to the buffer.                      *)
LEMMA ReceiveType ==
    ASSUME TypeInv, StreamInv, Receive
    PROVE  TypeInv' /\ StreamInv' /\ Stream' = Stream
<1>1. buf \in Seq(TokenType) /\ inflight \in Seq(TokenType) /\ Len(buf) \in Nat /\ Len(inflight) \in Nat
  BY DEF TypeInv
<1>2. PICK n \in 1..Len(inflight) : buf' = buf \o SubSeq(inflight, 1, n) /\ inflight' = After(inflight, n)
  BY DEF Receive
<1> DEFINE h == SubSeq(inflight, 1, n)
           r == After(inflight, n)
<1>3. h \in Seq(TokenType) /\ Len(h) = n /\ \A i \in 1..n : h[i] = inflight[i]
  <2>1. \A i \in 1..n : inflight[i] \in TokenType
    BY <1>1
  <2>2. 1 \in Int /\ n \in Int /\ 1 <= n
    BY <1>1
  <2>3. /\ h \in Seq(TokenType) /\ Len(h) = IF 1 <= n THEN n - 1 + 1 ELSE 0
        /\ \A i \in 1..(n - 1 + 1) : h[i] = inflight[1 + i - 1]
    BY <2>1, <2>2, SubSeqProperties
  <2> HIDE DEF h
  <2> QED BY <2>2, <2>3
<1>4. r \in Seq(TokenType) /\ Len(r) = Len(inflight) - n /\ \A i \in 1..Len(inflight) - n : r[i] = inflight[i + n]
  <2>1. n \in 0..Len(inflight)
    BY <1>1
  <2> QED BY <1>1, <2>1, AfterIs DEF Dropped
<1> HIDE DEF h, r
<1>5. h \o r = inflight
  <2>1. /\ h \o r \in Seq(TokenType) /\ Len(h \o r) = Len(h) + Len(r)
        /\ \A i \in 1..Len(h) + Len(r) : (h \o r)[i] = IF i <= Len(h) THEN h[i] ELSE r[i - Len(h)]
    <3>1. h \in Seq(TokenType) /\ r \in Seq(TokenType)
      BY <1>3, <1>4
    <3> QED BY <3>1, ConcatProperties
  <2>2. Len(h) + Len(r) = Len(inflight)
    BY <1>1, <1>3, <1>4
  <2>3. ASSUME NEW i \in 1..Len(inflight) PROVE (h \o r)[i] = inflight[i]
    <3>1. CASE i <= n
      BY <1>3, <2>1, <2>2, <3>1
    <3>2. CASE ~(i <= n)
      <4>1. i - n \in 1..Len(inflight) - n /\ i - n + n = i
        BY <1>1, <3>2
      <4> QED BY <1>3, <1>4, <2>1, <2>2, <3>2, <4>1
    <3> QED BY <3>1, <3>2
  <2> QED BY <1>1, <2>1, <2>2, <2>3, SeqEqual
<1>6. Stream' = Stream
  <2>1. (buf \o h) \o r = buf \o (h \o r)
    <3> DEFINE Q == Seq(TokenType)
    <3>1. buf \in Q /\ h \in Q /\ r \in Q
      BY <1>1, <1>3, <1>4
    <3>2. \A a \in Q, b \in Q, c \in Q : (a \o b) \o c = a \o (b \o c)
      BY ConcatAssociative
    <3> HIDE DEF Q
    <3> QED BY <3>1, <3>2
  <2> QED BY <1>2, <1>5, <2>1 DEF Stream, h, r
<1>7. buf' \in Seq(TokenType) /\ inflight' \in Seq(TokenType)
  <2>1. buf \o h \in Seq(TokenType)
    BY <1>1, <1>3, ConcatProperties
  <2> QED BY <1>2, <1>4, <2>1 DEF h, r
<1>8. TypeInv'
  BY <1>7 DEF TypeInv, Receive
<1>9. StreamInv'
  BY <1>6 DEF StreamInv, Adjacent, Ordered, Receive
<1> QED BY <1>6, <1>8, <1>9

LEMMA AppendTwo ==
    ASSUME NEW s \in Seq(ReplyType), NEW x \in ReplyType, NEW y \in ReplyType
    PROVE  /\ s \o <<x>> = Append(s, x)
           /\ s \o Append(<<x>>, y) = Append(Append(s, x), y)
           /\ s \o <<>> = s
<1> DEFINE T == ReplyType
<1>1. s \in Seq(T) /\ x \in T /\ y \in T
  OBVIOUS
<1> HIDE DEF T
<1>2. <<x>> \in Seq(T) /\ <<y>> \in Seq(T)
  BY <1>1
<1>3. s \o <<x>> = Append(s, x) /\ s \o <<>> = s
  BY <1>1, AppendIsConcat, ConcatEmptySeq
<1>4. Append(<<x>>, y) = <<x>> \o <<y>>
  BY <1>1, <1>2, AppendIsConcat
<1>5. s \o (<<x>> \o <<y>>) = (s \o <<x>>) \o <<y>>
  BY <1>1, <1>2, ConcatAssociative
<1>6. Append(s, x) \in Seq(T)
  BY <1>1, AppendProperties
<1>7. Append(Append(s, x), y) = Append(s, x) \o <<y>>
  BY <1>1, <1>6, AppendIsConcat
<1> QED BY <1>3, <1>4, <1>5, <1>7

(* What a step says to the client: nothing, a refusal and the end, or the    *)
(* reply to the request it holds, perhaps with an error behind it.           *)
Says ==
    \/ replies' = replies /\ (connected' => connected)
    \/ connected /\ ~connected' /\ replies' = Append(replies, Refusal)
    \/ /\ connected /\ state_ = "kGotAll"
       /\ \E close \in BOOLEAN :
             /\ connected' = ~close
             /\ \/ replies' = Append(replies, Reply("reply", request_.id, close))
                \/ replies' = Append(Append(replies, Reply("reply", request_.id, close)),
                                     Reply("fileError", request_.id, close))

LEMMA SaysRefusal ==
    ASSUME TypeInv, Written(<<Refusal>>), connected' = FALSE
    PROVE  replies' \in Seq(ReplyType) /\ Says
<1>1. replies \in Seq(ReplyType)
  BY DEF TypeInv
<1>2. replies \o <<Refusal>> = Append(replies, Refusal)
  BY <1>1, RefusalIs, AppendTwo
<1>3. replies' \in Seq(ReplyType)
  BY RefusalIs, WrittenIs
<1> QED BY <1>2, <1>3 DEF Written, Says

LEMMA SaysNothing ==
    ASSUME TypeInv, Written(<<>>), connected' => connected
    PROVE  replies' \in Seq(ReplyType) /\ Says
<1>1. replies \in Seq(ReplyType)
  BY DEF TypeInv
<1>2. replies \o <<>> = replies
  BY <1>1, ConcatEmptySeq
<1> QED BY <1>1, <1>2 DEF Written, Says

LEMMA FinishType ==
    ASSUME TypeInv, StreamInv, FinishOnMessage
    PROVE  /\ TypeInv' /\ StreamInv' /\ Stream' = Stream /\ sent' = sent /\ step = "parsed" /\ Says
           /\ \/ /\ handled' = handled /\ request_' = request_ /\ state_' = state_ /\ state_ # "kGotAll"
                 /\ connected' => ok
              \/ /\ state_ = "kGotAll" /\ state_' = "kExpectRequestLine" /\ request_' = Reset(request_)
                 /\ handled' = Append(handled, [id |-> request_.id, method |-> request_.method,
                                                fields |-> request_.fields, body |-> request_.body,
                                                length |-> request_.length, served |-> ok /\ connected])
<1>1. /\ request_ \in RequestType /\ replies \in Seq(ReplyType) /\ handled \in Seq(HandledType)
      /\ ok \in BOOLEAN /\ connected \in BOOLEAN
  BY DEF TypeInv
<1>2. step = "parsed" /\ step' = "loop" /\ UNCHANGED <<sent, inflight, overlapped, buf, ok, aborted>>
  BY DEF FinishOnMessage, client
<1>3. Stream' = Stream
  BY <1>2 DEF Stream
<1>4. StreamInv'
  BY <1>2, <1>3 DEF StreamInv, Adjacent, Ordered
<1> DEFINE refusal == IF ok THEN <<>> ELSE <<Refusal>>
<1>5. CASE state_ # "kGotAll"
  <2>1. Written(refusal) /\ Shutdown(~ok) /\ UNCHANGED <<handled, request_, state_>>
    BY <1>5 DEF FinishOnMessage
  <2>2. connected' = (connected /\ ok)
    BY <1>1, <2>1 DEF Shutdown
  <2>3. replies' \in Seq(ReplyType) /\ Says
    <3>1. CASE ok
      BY <2>1, <2>2, <3>1, SaysNothing
    <3>2. CASE ~ok
      BY <2>1, <2>2, <3>2, SaysRefusal
    <3> QED BY <3>1, <3>2
  <2>4. TypeInv'
    BY <1>2, <2>1, <2>2, <2>3 DEF TypeInv
  <2> QED BY <1>2, <1>3, <1>4, <1>5, <2>1, <2>2, <2>3, <2>4
<1>6. CASE state_ = "kGotAll"
  <2> DEFINE h == [id |-> request_.id, method |-> request_.method, fields |-> request_.fields,
                   body |-> request_.body, length |-> request_.length, served |-> ok /\ connected]
             first(close) == Reply("reply", request_.id, close)
             second(close) == Reply("fileError", request_.id, close)
             one(close) == <<first(close)>>
             two(close) == Append(one(close), second(close))
  <2>1. OnRequest(refusal, ok /\ connected)
    BY <1>6 DEF FinishOnMessage
  <2>2. PICK close \in BOOLEAN, fileError \in BOOLEAN :
           /\ handled' = Append(handled, h)
           /\ Written(IF ok /\ connected THEN IF fileError THEN two(close) ELSE one(close) ELSE refusal)
           /\ Shutdown(close \/ ~(ok /\ connected))
           /\ request_' = Reset(request_)
           /\ state_' = "kExpectRequestLine"
    BY <2>1 DEF OnRequest
  <2>3. h \in HandledType
    BY <1>1 DEF RequestType, HandledType
  <2>4. handled' \in Seq(HandledType)
    <3> HIDE DEF h
    <3> QED BY <1>1, <2>2, <2>3, AppendProperties
  <2>5. request_' \in RequestType
    BY <1>1, <2>2, RequestFields
  <2>6. replies' \in Seq(ReplyType) /\ Says /\ connected' \in BOOLEAN
    <3>1. CASE ok /\ connected
      <4>1. Written(IF fileError THEN two(close) ELSE one(close))
        BY <2>2, <3>1
      <4>2. connected' = ~close
        BY <2>2, <3>1 DEF Shutdown
      <4>3. first(close) \in ReplyType /\ second(close) \in ReplyType
        BY <1>1 DEF Reply, ReplyType, RequestType
      <4> HIDE DEF first, second
      <4>4. /\ replies \o one(close) = Append(replies, first(close))
            /\ replies \o two(close) = Append(Append(replies, first(close)), second(close))
        BY <1>1, <4>3, AppendTwo
      <4>5. Append(replies, first(close)) \in Seq(ReplyType)
        BY <1>1, <4>3, AppendProperties
      <4>6. Append(Append(replies, first(close)), second(close)) \in Seq(ReplyType)
        BY <4>3, <4>5, AppendProperties
      <4> HIDE DEF one, two
      <4>7. \/ replies' = Append(replies, first(close))
            \/ replies' = Append(Append(replies, first(close)), second(close))
        BY <3>1, <4>1, <4>4 DEF Written
      <4>8. Says
        BY <1>6, <3>1, <4>2, <4>7 DEF Says, first, second
      <4> QED BY <4>2, <4>5, <4>6, <4>7, <4>8
    <3>2. CASE ~(ok /\ connected)
      <4>1. Written(refusal) /\ connected' = FALSE
        BY <2>2, <3>2 DEF Shutdown
      <4>2. CASE ok
        BY <4>1, <4>2, SaysNothing
      <4>3. CASE ~ok
        BY <4>1, <4>3, SaysRefusal
      <4> QED BY <4>1, <4>2, <4>3
    <3> QED BY <3>1, <3>2
  <2>7. TypeInv'
    BY <1>2, <2>2, <2>4, <2>5, <2>6 DEF TypeInv, States
  <2> QED BY <1>2, <1>3, <1>4, <1>6, <2>2, <2>6, <2>7
<1> QED BY <1>5, <1>6

LEMMA StutterType ==
    ASSUME TypeInv, StreamInv, UNCHANGED vars
    PROVE  TypeInv' /\ StreamInv' /\ Stream' = Stream
<1>1. Stream' = Stream
  BY DEF vars, Stream
<1> QED BY <1>1 DEF vars, TypeInv, StreamInv, Adjacent, Ordered

LEMMA TypesInductive ==
    TypeInv /\ StreamInv /\ [Next]_vars => TypeInv' /\ StreamInv'
<1> SUFFICES ASSUME TypeInv, StreamInv, [Next]_vars PROVE TypeInv' /\ StreamInv'
  OBVIOUS
<1>1. CASE Receive
  BY <1>1, ReceiveType
<1>2. CASE ParseRequest
  BY <1>2, ParseType
<1>3. CASE FinishOnMessage
  BY <1>3, FinishType
<1>4. ASSUME NEW kind \in Kinds, Send(kind) PROVE TypeInv' /\ StreamInv'
  BY <1>4, SendType
<1>5. CASE UNCHANGED vars
  BY <1>5, StutterType
<1> QED BY <1>1, <1>2, <1>3, <1>4, <1>5 DEF Next, Server

(* Every variable of the connection has its type, for any set of requests    *)
(* and any number of them (every handler of HttpServer and HttpContext).     *)
THEOREM TypeCorrect == Spec => []TypeOK
<1> QED BY InitType, TypesInductive, TypeInvOK, PTL DEF Spec

-----------------------------------------------------------------------------
(* The replies.  Good: what the two properties ask of a sequence of replies, *)
(* and that a refusal closes.                                                *)
Good(s) ==
    /\ \A i, j \in 1..Len(s) : i < j =>
          /\ s[i].kind # "refusal"
          /\ s[j].kind = "reply" => s[i].to < s[j].to
          /\ s[j].kind = "fileError" => s[i].to <= s[j].to
          /\ s[i].close => s[j] = Reply("fileError", s[i].to, TRUE)
    /\ \A i \in 1..Len(s) : s[i].kind = "refusal" => s[i].close
Below(s, n) == \A i \in 1..Len(s) : s[i].to < n

(* One more reply keeps them good when what came before allows it.           *)
LEMMA OneMore ==
    ASSUME NEW s \in Seq(ReplyType), NEW x \in ReplyType, Good(s), x.kind = "refusal" => x.close,
           \A i \in 1..Len(s) :
              /\ s[i].kind # "refusal"
              /\ x.kind = "reply" => s[i].to < x.to
              /\ x.kind = "fileError" => s[i].to <= x.to
              /\ s[i].close => x = Reply("fileError", s[i].to, TRUE)
    PROVE  LET t == Append(s, x)
           IN  /\ t \in Seq(ReplyType) /\ Len(t) = Len(s) + 1 /\ Len(s) \in Nat /\ Good(t)
               /\ \A i \in 1..Len(s) : t[i] = s[i]
               /\ t[Len(s) + 1] = x
<1> DEFINE t == Append(s, x)
<1>1. /\ t \in Seq(ReplyType) /\ Len(t) = Len(s) + 1 /\ Len(s) \in Nat
      /\ \A i \in 1..Len(s) : t[i] = s[i]
      /\ t[Len(s) + 1] = x
  BY AppendProperties
<1> HIDE DEF t
<1>2. ASSUME NEW i \in 1..Len(t), NEW j \in 1..Len(t), i < j
      PROVE  /\ t[i].kind # "refusal"
             /\ t[j].kind = "reply" => t[i].to < t[j].to
             /\ t[j].kind = "fileError" => t[i].to <= t[j].to
             /\ t[i].close => t[j] = Reply("fileError", t[i].to, TRUE)
  <2>1. i \in 1..Len(s) /\ t[i] = s[i]
    BY <1>1, <1>2
  <2>2. CASE j \in 1..Len(s)
    <3>1. t[j] = s[j]
      BY <1>1, <2>2
    <3>2. /\ s[i].kind # "refusal"
          /\ s[j].kind = "reply" => s[i].to < s[j].to
          /\ s[j].kind = "fileError" => s[i].to <= s[j].to
          /\ s[i].close => s[j] = Reply("fileError", s[i].to, TRUE)
      BY <1>2, <2>1, <2>2 DEF Good
    <3> QED BY <2>1, <3>1, <3>2
  <2>3. CASE j \notin 1..Len(s)
    <3>1. j = Len(s) + 1 /\ t[j] = x
      BY <1>1, <1>2, <2>3
    <3> QED BY <2>1, <3>1
  <2> QED BY <2>2, <2>3
<1>3. ASSUME NEW i \in 1..Len(t), t[i].kind = "refusal" PROVE t[i].close
  <2>1. CASE i \in 1..Len(s)
    BY <1>1, <1>3, <2>1 DEF Good
  <2>2. CASE i \notin 1..Len(s)
    <3>1. i = Len(s) + 1 /\ t[i] = x
      BY <1>1, <1>3, <2>2
    <3> QED BY <1>3, <3>1
  <2> QED BY <2>1, <2>2
<1> QED BY <1>1, <1>2, <1>3 DEF Good, t

(* Nothing is said after the connection is closed, everything said is about  *)
(* a request before the one in the parser's hands, and that one is before    *)
(* every request that starts in what is still to be read.                    *)
Upcoming(n) == \A k \in 1..Len(Stream) : Stream[k].kind \in Starts => n < Stream[k].id
ReplyInv ==
    /\ Good(replies)
    /\ \A i \in 1..Len(replies) :
          /\ replies[i].close => ~connected
          /\ replies[i].to <= Len(sent)
          /\ Upcoming(replies[i].to)
    /\ state_ # "kExpectRequestLine" =>
          /\ request_.id \in 1..Len(sent)
          /\ Below(replies, request_.id)
          /\ Upcoming(request_.id)

LEMMA ReplyInvOK == TypeInv /\ ReplyInv => RepliesInOrder /\ ClosedMeansClosed
<1> SUFFICES ASSUME TypeInv, ReplyInv PROVE RepliesInOrder /\ ClosedMeansClosed
  OBVIOUS
<1>1. DOMAIN replies = 1..Len(replies)
  BY DEF TypeInv
<1> QED BY <1>1 DEF ReplyInv, Good, RepliesInOrder, ClosedMeansClosed

(* A step that speaks.                                                       *)
LEMMA SaysKeeps ==
    ASSUME TypeInv, StreamInv, ReplyInv, Says, sent' = sent, Stream' = Stream,
           \/ state_' = "kExpectRequestLine"
           \/ state_' = state_ /\ request_' = request_ /\ state_ # "kGotAll"
    PROVE  ReplyInv'
<1>1. /\ replies \in Seq(ReplyType) /\ Len(replies) \in Nat /\ Len(sent) \in Nat
      /\ request_.id \in 0..MaxRequests /\ Good(replies)
  BY DEF TypeInv, RequestType, ReplyInv
<1>2. CASE replies' = replies /\ (connected' => connected)
  BY <1>2 DEF ReplyInv, Upcoming, Below, Good
<1>3. ASSUME connected PROVE \A i \in 1..Len(replies) : ~replies[i].close /\ replies[i].kind # "refusal"
  BY <1>3 DEF ReplyInv, Good
<1>4. CASE connected /\ ~connected' /\ replies' = Append(replies, Refusal)
  <2>1. /\ Refusal \in ReplyType /\ Refusal.kind = "refusal" /\ Refusal.close /\ Refusal.to = 0
    BY RefusalIs DEF Refusal, Reply
  <2>2. \A i \in 1..Len(replies) : ~replies[i].close /\ replies[i].kind # "refusal"
    BY <1>3, <1>4
  <2> HIDE DEF Refusal
  <2>3. /\ Len(replies') = Len(replies) + 1 /\ Good(replies')
        /\ \A i \in 1..Len(replies) : replies'[i] = replies[i]
        /\ replies'[Len(replies) + 1] = Refusal
    BY <1>1, <1>4, <2>1, <2>2, OneMore
  <2>4. ASSUME NEW i \in 1..Len(replies')
        PROVE  replies'[i].to = 0 \/ \E j \in 1..Len(replies) : replies'[i] = replies[j]
    <3>1. i \in 1..Len(replies) \/ i = Len(replies) + 1
      BY <1>1, <2>3
    <3> QED BY <2>1, <2>3, <3>1
  <2>5. Upcoming(0)
    <3>1. \A k \in 1..Len(Stream) : Stream[k].kind \in Starts => Stream[k].id \in 1..Len(sent)
      BY DEF StreamInv, Ordered
    <3> QED BY <3>1 DEF Upcoming
  <2>6. ASSUME NEW i \in 1..Len(replies')
        PROVE  replies'[i].to <= Len(sent) /\ Upcoming(replies'[i].to)
    <3>1. CASE replies'[i].to = 0
      BY <1>1, <2>5, <3>1
    <3>2. ASSUME NEW j \in 1..Len(replies), replies'[i] = replies[j]
          PROVE  replies'[i].to <= Len(sent) /\ Upcoming(replies'[i].to)
      BY <3>2 DEF ReplyInv
    <3> QED BY <2>4, <3>1, <3>2
  <2>7. \A i \in 1..Len(replies'), k \in 1..Len(Stream') :
           Stream'[k].kind \in Starts => replies'[i].to < Stream'[k].id
    BY <2>6 DEF Upcoming
  <2>8. ASSUME state_' # "kExpectRequestLine"
        PROVE  /\ request_'.id \in 1..Len(sent') /\ Below(replies', request_'.id)
               /\ \A k \in 1..Len(Stream') : Stream'[k].kind \in Starts => request_'.id < Stream'[k].id
    <3>1. request_' = request_ /\ request_.id \in 1..Len(sent) /\ Below(replies, request_.id) /\ Upcoming(request_.id)
      BY <2>8 DEF ReplyInv
    <3>2. \A i \in 1..Len(replies') : replies'[i].to < request_.id
      BY <1>1, <2>4, <3>1 DEF Below
    <3> QED BY <3>1, <3>2 DEF Below, Upcoming
  <2> QED BY <1>4, <2>3, <2>6, <2>7, <2>8 DEF ReplyInv, Upcoming
<1>5. ASSUME NEW close \in BOOLEAN, connected, state_ = "kGotAll", connected' = ~close,
             \/ replies' = Append(replies, Reply("reply", request_.id, close))
             \/ replies' = Append(Append(replies, Reply("reply", request_.id, close)),
                                  Reply("fileError", request_.id, close))
      PROVE  ReplyInv'
  <2> DEFINE n == request_.id
             x == Reply("reply", n, close)
             y == Reply("fileError", n, close)
             s == Append(replies, x)
             t == Append(s, y)
  <2>1. /\ x \in ReplyType /\ x.kind = "reply" /\ x.to = n /\ x.close = close
        /\ y \in ReplyType /\ y.kind = "fileError" /\ y.to = n /\ y.close = close
    BY <1>1, <1>5 DEF Reply, ReplyType
  <2>2. n \in 1..Len(sent) /\ Below(replies, n) /\ Upcoming(n)
    BY <1>5 DEF ReplyInv
  <2>3. \A i \in 1..Len(replies) : ~replies[i].close /\ replies[i].kind # "refusal" /\ replies[i].to < n
    BY <1>3, <1>5, <2>2 DEF Below
  <2>4. close => y = Reply("fileError", x.to, TRUE)
    BY <2>1
  <2> HIDE DEF x, y, n
  <2>5. /\ s \in Seq(ReplyType) /\ Len(s) = Len(replies) + 1 /\ Good(s)
        /\ \A i \in 1..Len(replies) : s[i] = replies[i]
        /\ s[Len(replies) + 1] = x
    <3>1. /\ Good(replies) /\ x \in ReplyType /\ (x.kind = "refusal" => x.close)
          /\ \A i \in 1..Len(replies) :
                /\ replies[i].kind # "refusal"
                /\ x.kind = "reply" => replies[i].to < x.to
                /\ x.kind = "fileError" => replies[i].to <= x.to
                /\ replies[i].close => x = Reply("fileError", replies[i].to, TRUE)
      BY <1>1, <2>1, <2>3
    <3> QED BY <1>1, <3>1, OneMore
  <2> HIDE DEF s
  <2>6. ASSUME NEW i \in 1..Len(s)
        PROVE  /\ s[i].kind # "refusal" /\ s[i].to <= n
               /\ s[i].close => close /\ y = Reply("fileError", s[i].to, TRUE)
               /\ s[i].to = n \/ \E j \in 1..Len(replies) : s[i] = replies[j]
    <3>1. CASE i \in 1..Len(replies)
      <4>1. s[i] = replies[i] /\ replies[i] \in ReplyType
        BY <1>1, <2>5, <3>1
      <4>2. s[i].to \in Int /\ n \in Int
        BY <1>1, <2>2, <4>1 DEF ReplyType
      <4>3. ~replies[i].close /\ replies[i].kind # "refusal" /\ replies[i].to < n
        BY <2>3, <3>1
      <4>4. s[i].kind # "refusal" /\ s[i].to <= n /\ ~s[i].close
        BY <4>1, <4>2, <4>3
      <4>5. \E j \in 1..Len(replies) : s[i] = replies[j]
        BY <3>1, <4>1
      <4> QED BY <4>4, <4>5
    <3>2. CASE i \notin 1..Len(replies)
      <4>1. i = Len(replies) + 1
        BY <1>1, <2>5, <3>2
      <4>2. s[i] = x
        BY <2>5, <4>1
      <4>3. n \in Int
        BY <1>1, <2>2
      <4>4. s[i].kind # "refusal" /\ s[i].to <= n /\ s[i].to = n
        BY <2>1, <4>2, <4>3
      <4>5. s[i].close => close /\ y = Reply("fileError", s[i].to, TRUE)
        BY <2>1, <2>4, <4>2
      <4> QED BY <4>4, <4>5
    <3> QED BY <3>1, <3>2
  <2>7. /\ Len(t) = Len(s) + 1 /\ Len(s) \in Nat /\ Good(t)
        /\ \A i \in 1..Len(s) : t[i] = s[i]
        /\ t[Len(s) + 1] = y
    <3>1. /\ y \in ReplyType /\ (y.kind = "refusal" => y.close)
          /\ \A i \in 1..Len(s) :
                /\ s[i].kind # "refusal"
                /\ y.kind = "reply" => s[i].to < y.to
                /\ y.kind = "fileError" => s[i].to <= y.to
                /\ s[i].close => y = Reply("fileError", s[i].to, TRUE)
      BY <2>1, <2>6
    <3>2. s \in Seq(ReplyType) /\ Good(s)
      BY <2>5
    <3> QED BY <3>1, <3>2, OneMore
  <2> HIDE DEF t
  <2>8. ASSUME NEW i \in 1..Len(replies')
        PROVE  /\ replies'[i].close => close
               /\ replies'[i].to = n \/ \E j \in 1..Len(replies) : replies'[i] = replies[j]
    <3>1. CASE replies' = s
      BY <2>6, <3>1
    <3>2. CASE replies' = t
      <4>1. i \in 1..Len(s) \/ i = Len(s) + 1
        BY <2>7, <3>2
      <4> QED BY <2>1, <2>6, <2>7, <3>2, <4>1
    <3> QED BY <1>5, <3>1, <3>2 DEF s, t, x, y, n
  <2>9. Good(replies')
    BY <1>5, <2>5, <2>7 DEF s, t, x, y, n
  <2>10. state_' = "kExpectRequestLine"
    BY <1>5
  <2>11. ASSUME NEW i \in 1..Len(replies')
         PROVE  (replies'[i].close => ~connected') /\ replies'[i].to <= Len(sent) /\ Upcoming(replies'[i].to)
    <3>1. replies'[i].close => ~connected'
      BY <1>5, <2>8
    <3>2. CASE replies'[i].to = n
      BY <1>1, <2>2, <3>1, <3>2
    <3>3. ASSUME NEW j \in 1..Len(replies), replies'[i] = replies[j]
          PROVE  replies'[i].to <= Len(sent) /\ Upcoming(replies'[i].to)
      BY <3>3 DEF ReplyInv
    <3> QED BY <2>8, <3>1, <3>2, <3>3
  <2>12. \A i \in 1..Len(replies'), k \in 1..Len(Stream') :
            Stream'[k].kind \in Starts => replies'[i].to < Stream'[k].id
    BY <2>11 DEF Upcoming
  <2> QED BY <2>9, <2>10, <2>11, <2>12 DEF ReplyInv, Upcoming
<1> QED BY <1>2, <1>4, <1>5 DEF Says

(* The steps of the parser, by what they do to the request in its hands.     *)
Throws ==
    /\ state_ = "kExpectHeaders" /\ state_' = state_ /\ request_' = request_
    /\ Stream' = Stream /\ step' = "loop" /\ connected' = FALSE /\ Says
Accepts ==
    /\ state_ = "kExpectRequestLine" /\ state_' = "kExpectHeaders"
    /\ 1 \in 1..Len(Stream) /\ Stream[1].kind \in {"GET", "POST"}
    /\ request_'.id = Stream[1].id /\ request_'.fields = request_.fields
    /\ Dropped(Stream, Stream', 1) /\ step' = step /\ ok' = ok
Waits ==
    state_ = "kExpectRequestLine" /\ state_' = state_ /\ request_'.fields = request_.fields
Continues ==
    state_ # "kExpectRequestLine" /\ state_' # "kExpectRequestLine" /\ request_'.id = request_.id

LEMMA ParseSilent ==
    ASSUME ParseRequest, ~ParseThrows
    PROVE  UNCHANGED <<replies, connected>>
BY DEF ParseRequest, ParseNoLine, ParseRequestLine, ParseHeader, EndOfPostHeaders, ParseBodyWait,
       ParseBody, ParseMultipart, untouched

LEMMA ThrowsIs ==
    ASSUME TypeInv, StreamInv, ParseThrows
    PROVE  Throws
<1>1. Written(<<Refusal>>) /\ Shutdown(TRUE)
  BY DEF ParseThrows
<1>2. connected' = FALSE
  BY <1>1 DEF Shutdown
<1>3. Says
  BY <1>1, <1>2, SaysRefusal
<1>4. Stream' = Stream
  BY DEF ParseThrows, Stream, client
<1> QED BY <1>2, <1>3, <1>4 DEF ParseThrows, Parsing, Throws

LEMMA RequestLineIs ==
    ASSUME TypeInv, StreamInv, ParseRequestLine
    PROVE  Accepts \/ Waits
<1> DEFINE end == NthLineEnd(buf, 1)
           m == IF end = 1 THEN MethodWord(FirstLineKind) ELSE "kInvalid"
           a == [request_ EXCEPT !.method = m, !.id = Head(buf).id]
           b == [request_ EXCEPT !.method = m]
<1>1. buf \in Seq(TokenType) /\ inflight \in Seq(TokenType) /\ request_ \in RequestType
  BY DEF TypeInv
<1>2. HasLine(buf) /\ state_ = "kExpectRequestLine"
  BY DEF ParseRequestLine, Parsing
<1>3. buf # <<>>
  BY <1>1, <1>2, FirstLine
<1>4. Tail(buf) = After(buf, 1) /\ 1 \in 0..Len(buf) /\ Head(buf) = buf[1] /\ 1 \in 1..Len(buf) /\ buf[1] \in TokenType
  BY <1>1, <1>3, TailIsAfter
<1>5. m \in {"kInvalid", "kGet", "kPost"} /\ Head(buf).id \in 0..MaxRequests
  BY <1>4 DEF MethodWord, TokenType
<1> HIDE DEF m
<1>6. a.id = Head(buf).id /\ a.fields = request_.fields /\ b.fields = request_.fields
  <2> DEFINE h == Head(buf).id
  <2>1. request_ \in RequestType
    BY <1>1
  <2> HIDE DEF h
  <2>2. [request_ EXCEPT !.method = m, !.id = h].id = h
    BY <2>1 DEF RequestType
  <2>3. [request_ EXCEPT !.method = m, !.id = h].fields = request_.fields
    BY <2>1 DEF RequestType
  <2>4. [request_ EXCEPT !.method = m].fields = request_.fields
    BY <2>1 DEF RequestType
  <2> QED BY <2>2, <2>3, <2>4 DEF h
<1>7. \/ /\ request_' = a /\ end = 1 /\ FirstLineKind \in {"GET", "POST"} /\ buf' = Tail(buf)
         /\ inflight' = inflight /\ state_' = "kExpectHeaders" /\ step' = step /\ ok' = ok
      \/ request_' = b /\ state_' = state_
      \/ request_' = request_ /\ state_' = state_
  BY DEF ParseRequestLine, untouched, client, m
<1> HIDE DEF a, b
<1>8. ASSUME request_' = a, FirstLineKind \in {"GET", "POST"}, buf' = Tail(buf),
             inflight' = inflight, state_' = "kExpectHeaders", step' = step, ok' = ok
      PROVE  Accepts
  <2>1. Dropped(Stream, Stream', 1)
    <3>1. Dropped(buf \o inflight, After(buf, 1) \o inflight, 1)
      BY <1>1, <1>4, Consumed
    <3> QED BY <1>4, <1>8, <3>1 DEF Stream
  <2>2. Stream[1] = buf[1] /\ 1 \in 1..Len(Stream)
    BY <1>4, StreamType
  <2> QED BY <1>2, <1>4, <1>6, <1>8, <2>1, <2>2 DEF Accepts, FirstLineKind
<1> QED BY <1>2, <1>6, <1>7, <1>8 DEF Waits

LEMMA ParseKinds ==
    ASSUME TypeInv, StreamInv, ParseRequest
    PROVE  Throws \/ ((Accepts \/ Waits \/ Continues) /\ UNCHANGED <<replies, connected>>)
<1>1. CASE ParseThrows
  BY <1>1, ThrowsIs
<1>2. CASE ParseRequestLine /\ ~ParseThrows
  BY <1>2, RequestLineIs, ParseSilent
<1>3. CASE ~ParseRequestLine /\ ~ParseThrows
  <2>1. UNCHANGED <<replies, connected>>
    BY <1>3, ParseSilent
  <2>2. CASE ParseNoLine \/ ParseBodyWait
    BY <2>1, <2>2 DEF ParseNoLine, ParseBodyWait, Parsing, Waits, Continues
  <2>3. CASE ParseHeader
    <3> DEFINE F == {f \in request_.fields : ~SameName(f, buf[NthLineEnd(buf, 1)])} \cup {buf[NthLineEnd(buf, 1)]}
    <3>1. request_' = [request_ EXCEPT !.fields = F] \/ request_' = request_
      BY <2>3 DEF ParseHeader, AddHeader, TypeInv, RequestType
    <3> HIDE DEF F
    <3>2. request_'.id = request_.id
      BY <3>1 DEF TypeInv, RequestType
    <3> QED BY <2>1, <2>3, <3>2 DEF ParseHeader, Parsing, Continues
  <2>4. CASE EndOfPostHeaders
    <3>1. request_' = request_ \/ \E f \in LengthFields : request_' = [request_ EXCEPT !.length = f.n]
      BY <2>4 DEF EndOfPostHeaders
    <3>2. request_'.id = request_.id
      BY <3>1 DEF TypeInv, RequestType
    <3> QED BY <2>1, <2>4, <3>2 DEF EndOfPostHeaders, Parsing, Continues
  <2>5. CASE ParseBody
    <3>1. request_'.id = request_.id
      BY <2>5 DEF ParseBody, TypeInv, RequestType
    <3> QED BY <2>1, <2>5, <3>1 DEF ParseBody, Parsing, Continues
  <2>6. CASE ParseMultipart
    <3>1. request_'.id = request_.id
      BY <2>6 DEF ParseMultipart, TypeInv, RequestType
    <3> QED BY <2>1, <2>6, <3>1 DEF ParseMultipart, Parsing, Continues
  <2> QED BY <1>3, <2>2, <2>3, <2>4, <2>5, <2>6 DEF ParseRequest
<1> QED BY <1>1, <1>2, <1>3

LEMMA ParseReplies ==
    ASSUME TypeInv, StreamInv, ReplyInv, ParseRequest
    PROVE  ReplyInv'
<1>1. TypeInv' /\ NoNewStarts /\ sent' = sent
  BY ParseType, ParseTakes
<1>2. CASE Throws
  BY <1>1, <1>2, SaysKeeps DEF Throws
<1>3. CASE (Accepts \/ Waits \/ Continues) /\ UNCHANGED <<replies, connected>>
  <2>1. ASSUME NEW n, Upcoming(n)
        PROVE  \A k \in 1..Len(Stream') : Stream'[k].kind \in Starts => n < Stream'[k].id
    BY <1>1, <2>1 DEF Upcoming, NoNewStarts
  <2>2. /\ Good(replies)
        /\ \A i \in 1..Len(replies) :
              /\ replies[i].close => ~connected
              /\ replies[i].to <= Len(sent)
              /\ \A k \in 1..Len(Stream') : Stream'[k].kind \in Starts => replies[i].to < Stream'[k].id
    BY <2>1 DEF ReplyInv
  <2>3. CASE Waits
    BY <1>1, <1>3, <2>2, <2>3 DEF ReplyInv, Upcoming, Waits
  <2>4. CASE Continues
    <3>1. request_.id \in 1..Len(sent) /\ Below(replies, request_.id) /\ Upcoming(request_.id)
      BY <2>4 DEF ReplyInv, Continues
    <3>2. \A k \in 1..Len(Stream') : Stream'[k].kind \in Starts => request_.id < Stream'[k].id
      BY <2>1, <3>1
    <3>3. request_'.id = request_.id
      BY <2>4 DEF Continues
    <3> QED BY <1>1, <1>3, <2>2, <3>1, <3>2, <3>3 DEF ReplyInv, Upcoming, Below
  <2>5. CASE Accepts
    <3> DEFINE n == Stream[1].id
    <3>1. Stream[1].kind \in Starts /\ 1 \in 1..Len(Stream) /\ request_'.id = n /\ Dropped(Stream, Stream', 1)
      BY <2>5 DEF Accepts, Starts
    <3>2. n \in 1..Len(sent)
      BY <3>1 DEF StreamInv, Ordered
    <3>3. \A i \in 1..Len(replies) : replies[i].to < n
      BY <3>1 DEF ReplyInv, Upcoming
    <3>4. ASSUME NEW k \in 1..Len(Stream'), Stream'[k].kind \in Starts
          PROVE  n < Stream'[k].id
      <4>1. k + 1 \in 1..Len(Stream) /\ Stream'[k] = Stream[k + 1] /\ 1 < k + 1
        BY <3>1, StreamType DEF Dropped
      <4> QED BY <3>1, <3>4, <4>1 DEF StreamInv, Ordered
    <3> QED BY <1>1, <1>3, <2>2, <3>1, <3>2, <3>3, <3>4 DEF ReplyInv, Upcoming, Below
  <2> QED BY <1>3, <2>3, <2>4, <2>5
<1> QED BY <1>2, <1>3, ParseKinds

LEMMA SendReplies ==
    ASSUME TypeInv, StreamInv, ReplyInv, NEW kind \in Kinds, Send(kind)
    PROVE  ReplyInv'
<1>1. UNCHANGED <<state_, request_, connected, replies>>
  BY DEF Send
<1>2. /\ Len(sent') = Len(sent) + 1 /\ Len(sent) \in Nat
      /\ \A i \in 1..Len(Stream) : Stream'[i] = Stream[i]
      /\ \A i \in 1..Len(Stream') : Stream'[i].kind \in Starts =>
            i \in 1..Len(Stream) \/ (i = Len(Stream) + 1 /\ Stream'[i].id = Len(sent) + 1)
  BY SendType
<1>3. ASSUME NEW n \in Int, n <= Len(sent), Upcoming(n)
      PROVE  \A k \in 1..Len(Stream') : Stream'[k].kind \in Starts => n < Stream'[k].id
  <2>1. ASSUME NEW k \in 1..Len(Stream'), Stream'[k].kind \in Starts PROVE n < Stream'[k].id
    <3>1. CASE k \in 1..Len(Stream)
      BY <1>2, <1>3, <2>1, <3>1 DEF Upcoming
    <3>2. CASE Stream'[k].id = Len(sent) + 1
      BY <1>2, <1>3, <3>2
    <3> QED BY <1>2, <2>1, <3>1, <3>2
  <2> QED BY <2>1
<1>4. ASSUME NEW i \in 1..Len(replies)
      PROVE  /\ replies[i].to <= Len(sent')
             /\ \A k \in 1..Len(Stream') : Stream'[k].kind \in Starts => replies[i].to < Stream'[k].id
  <2>1. replies[i] \in ReplyType
    BY DEF TypeInv
  <2>2. replies[i].to \in Int /\ replies[i].to <= Len(sent) /\ Upcoming(replies[i].to)
    BY <2>1 DEF ReplyInv, ReplyType
  <2> QED BY <1>2, <1>3, <2>2
<1>5. ASSUME state_ # "kExpectRequestLine"
      PROVE  /\ request_.id \in 1..Len(sent') /\ Below(replies, request_.id)
             /\ \A k \in 1..Len(Stream') : Stream'[k].kind \in Starts => request_.id < Stream'[k].id
  <2>1. request_.id \in 1..Len(sent) /\ Below(replies, request_.id) /\ Upcoming(request_.id)
    BY <1>5 DEF ReplyInv
  <2>2. request_.id \in Int /\ request_.id <= Len(sent) /\ request_.id \in 1..Len(sent')
    BY <1>2, <2>1
  <2> QED BY <1>3, <2>1, <2>2
<1>6. Good(replies) /\ \A i \in 1..Len(replies) : replies[i].close => ~connected
  BY DEF ReplyInv
<1> QED BY <1>1, <1>4, <1>5, <1>6 DEF ReplyInv, Upcoming, Below

LEMMA ReplyInductive ==
    /\ Init => ReplyInv
    /\ TypeInv /\ StreamInv /\ ReplyInv /\ [Next]_vars => ReplyInv'
<1>1. Init => ReplyInv
  <2> SUFFICES ASSUME Init PROVE ReplyInv
    OBVIOUS
  <2>1. Len(replies) = 0 /\ state_ = "kExpectRequestLine"
    BY DEF Init
  <2> QED BY <2>1 DEF ReplyInv, Good, Below
<1>2. TypeInv /\ StreamInv /\ ReplyInv /\ [Next]_vars => ReplyInv'
  <2> SUFFICES ASSUME TypeInv, StreamInv, ReplyInv, [Next]_vars PROVE ReplyInv'
    OBVIOUS
  <2>1. ASSUME Stream' = Stream, UNCHANGED <<sent, state_, request_, connected, replies>> PROVE ReplyInv'
    BY <2>1 DEF ReplyInv, Upcoming, Below
  <2>2. CASE Receive
    <3>1. Stream' = Stream
      BY <2>2, ReceiveType
    <3> QED BY <2>1, <2>2, <3>1 DEF Receive
  <2>3. CASE ParseRequest
    BY <2>3, ParseReplies
  <2>4. CASE FinishOnMessage
    <3>1. /\ Stream' = Stream /\ sent' = sent /\ Says
          /\ \/ state_' = "kExpectRequestLine"
             \/ state_' = state_ /\ request_' = request_ /\ state_ # "kGotAll"
      BY <2>4, FinishType
    <3> QED BY <3>1, SaysKeeps
  <2>5. ASSUME NEW kind \in Kinds, Send(kind) PROVE ReplyInv'
    BY <2>5, SendReplies
  <2>6. CASE UNCHANGED vars
    <3>1. Stream' = Stream
      BY <2>6, StutterType
    <3> QED BY <2>1, <2>6, <3>1 DEF vars
  <2> QED BY <2>2, <2>3, <2>4, <2>5, <2>6 DEF Next, Server
<1> QED BY <1>1, <1>2

(* Replies are in the order of the requests and a refusal is the last one,   *)
(* however TCP cuts the stream (HttpServer::onMessage, onRequest).           *)
THEOREM RepliesCorrect == Spec => []RepliesInOrder
<1>1. TypeInv /\ ReplyInv => RepliesInOrder
  BY ReplyInvOK
<1> QED BY <1>1, InitType, TypesInductive, ReplyInductive, PTL DEF Spec

(* Nothing follows a message that says the connection closes, but the error  *)
(* of the file it announced (HttpServer::onRequest's shutdown).              *)
THEOREM ClosedCorrect == Spec => []ClosedMeansClosed
<1>1. TypeInv /\ ReplyInv => ClosedMeansClosed
  BY ReplyInvOK
<1> QED BY <1>1, InitType, TypesInductive, ReplyInductive, PTL DEF Spec

-----------------------------------------------------------------------------
(* The headers.  While they are read from an open connection, the next token *)
(* of the stream is a line of the same request's head.                       *)
Own(fields, id) == \A f \in fields : f.id = id
Ahead ==
    /\ 1 \in 1..Len(Stream) /\ Stream[1].id = request_.id
    /\ Stream[1].kind \in Lead \cup {"blank"}
HeadInv ==
    /\ state_ = "kExpectRequestLine" => request_.fields = {}
    /\ connected /\ state_ # "kExpectRequestLine" => Own(request_.fields, request_.id)
    /\ connected /\ state_ = "kExpectHeaders" /\ (step = "parsed" => ok) => Ahead
    /\ \A i \in 1..Len(handled) : handled[i].served => Own(handled[i].fields, handled[i].id)

LEMMA HeadInvOK == TypeInv /\ HeadInv => OwnHeaders
<1> SUFFICES ASSUME TypeInv, HeadInv PROVE OwnHeaders
  OBVIOUS
<1>1. DOMAIN handled = 1..Len(handled)
  BY DEF TypeInv
<1> QED BY <1>1 DEF HeadInv, Own, OwnHeaders

(* The line after one of the head belongs to the same head.                  *)
LEMMA NextAhead ==
    ASSUME TypeInv, StreamInv, 1 \in 1..Len(Stream), Stream[1].kind \in Lead, Dropped(Stream, Stream', 1),
           request_'.id = Stream[1].id
    PROVE  Ahead'
<1>1. 1 < Len(Stream) /\ Stream[1 + 1].id = Stream[1].id /\ Stream[1 + 1].kind \in Lead \cup {"blank"}
  BY DEF StreamInv, Adjacent
<1>2. Len(Stream) \in Nat
  BY StreamType
<1>3. 1 \in 1..Len(Stream') /\ Stream'[1] = Stream[1 + 1]
  BY <1>1, <1>2 DEF Dropped
<1> QED BY <1>1, <1>3 DEF Ahead

LEMMA HeaderIs ==
    ASSUME TypeInv, StreamInv, Ahead, ParseHeader
    PROVE  \/ /\ state_' = "kExpectHeaders" /\ request_'.id = request_.id /\ Ahead'
              /\ Own(request_.fields, request_.id) => Own(request_'.fields, request_.id)
           \/ state_' = "kGotAll" /\ request_' = request_
           \/ state_' = "kExpectHeaders" /\ request_' = request_ /\ step' = "parsed" /\ ok' = FALSE
<1> DEFINE end == NthLineEnd(buf, 1)
           x == buf[end]
           F == {f \in request_.fields : ~SameName(f, x)} \cup {x}
           blank == end = 1 /\ x.kind = "blank"
<1>1. /\ HasLine(buf) /\ state_ = "kExpectHeaders" /\ inflight' = inflight
      /\ buf' = After(buf, end)
      /\ \/ x.kind \in HasColon /\ request_' = [request_ EXCEPT !.fields = F] /\ state_' = state_
         \/ blank /\ state_' = "kGotAll" /\ request_' = request_
         \/ x.kind \notin HasColon /\ ~blank /\ ok' = FALSE /\ step' = "parsed" /\ state_' = state_ /\ request_' = request_
  BY DEF ParseHeader, Parsing, AddHeader, untouched, client
<1>2. buf \in Seq(TokenType) /\ inflight \in Seq(TokenType) /\ request_ \in RequestType
  BY DEF TypeInv
<1>3. end \in 1..Len(buf) /\ (buf[1].kind # "data" => end = 1) /\ Len(buf) \in Nat
  BY <1>1, <1>2, FirstLine
<1>4. 1 \in 1..Len(buf) /\ 1 \in 0..Len(buf)
  BY <1>3
<1>5. Stream[1] = buf[1] /\ 1 \in 1..Len(Stream)
  BY <1>4, StreamType
<1>6. end = 1 /\ x = Stream[1]
  BY <1>3, <1>5 DEF Ahead, Lead, Starts
<1>7. Dropped(Stream, Stream', 1)
  <2>1. Dropped(buf \o inflight, After(buf, 1) \o inflight, 1)
    BY <1>2, <1>4, Consumed
  <2> QED BY <1>1, <1>6, <2>1 DEF Stream
<1>8. x.id = request_.id
  BY <1>6 DEF Ahead
<1>9. \A f \in F : f \in request_.fields \/ f = x
  OBVIOUS
<1>10. F \in SUBSET TokenType
  <2>1. x \in TokenType
    BY <1>2, <1>3, ElementOfSeq
  <2> QED BY <1>2, <2>1 DEF RequestType
<1> HIDE DEF F
<1>11. ASSUME x.kind \in HasColon, request_' = [request_ EXCEPT !.fields = F], state_' = state_
       PROVE  /\ state_' = "kExpectHeaders" /\ request_'.id = request_.id /\ Ahead'
              /\ Own(request_.fields, request_.id) => Own(request_'.fields, request_.id)
  <2>1. request_'.id = request_.id /\ request_'.fields = F
    BY <1>2, <1>11 DEF RequestType
  <2>2. Stream[1].kind \in Lead
    BY <1>6, <1>11 DEF Ahead, HasColon, Lead
  <2>3. request_'.id = Stream[1].id
    BY <1>6, <1>8, <2>1
  <2>4. Ahead'
    BY <1>5, <1>7, <2>2, <2>3, NextAhead
  <2>5. Own(request_.fields, request_.id) => Own(request_'.fields, request_.id)
    BY <1>8, <1>9, <2>1 DEF Own
  <2> QED BY <1>1, <1>11, <2>1, <2>4, <2>5
<1> QED BY <1>1, <1>11

LEMMA ParseHead ==
    ASSUME TypeInv, StreamInv, HeadInv, ParseRequest
    PROVE  HeadInv'
<1>1. handled' = handled /\ TypeInv'
  BY ParseTakes, ParseType
<1>2. \A i \in 1..Len(handled) : handled[i].served => Own(handled[i].fields, handled[i].id)
  BY DEF HeadInv
<1>3. CASE ~connected'
  <2>1. state_' = "kExpectRequestLine" => state_ = "kExpectRequestLine" /\ request_'.fields = request_.fields
    BY ParseKinds DEF Throws, Accepts, Waits, Continues
  <2> QED BY <1>1, <1>2, <1>3, <2>1 DEF HeadInv
<1>4. CASE connected' /\ state_ = "kExpectRequestLine"
  <2>1. request_.fields = {}
    BY <1>4 DEF HeadInv
  <2>2. CASE Accepts
    <3>1. 1 \in 1..Len(Stream) /\ Stream[1].kind \in Lead /\ Dropped(Stream, Stream', 1) /\ request_'.id = Stream[1].id
      BY <2>2 DEF Accepts, Lead, Starts
    <3>2. Ahead'
      BY <3>1, NextAhead
    <3>3. request_'.fields = {} /\ state_' = "kExpectHeaders"
      BY <2>1, <2>2 DEF Accepts
    <3> QED BY <1>1, <1>2, <3>2, <3>3 DEF HeadInv, Own
  <2>3. CASE Waits
    <3>1. request_'.fields = {} /\ state_' = "kExpectRequestLine"
      BY <1>4, <2>1, <2>3 DEF Waits
    <3> QED BY <1>1, <1>2, <3>1 DEF HeadInv
  <2> QED BY <1>4, <2>2, <2>3, ParseKinds DEF Throws, Continues
<1>5. CASE connected' /\ state_ # "kExpectRequestLine"
  <2>1. Continues /\ connected' = connected /\ ~ParseThrows
    <3>1. ParseThrows => Throws
      BY ThrowsIs
    <3> QED BY <1>5, <3>1, ParseKinds DEF Throws, Accepts, Waits
  <2>2. Own(request_.fields, request_.id) /\ request_'.id = request_.id /\ state_' # "kExpectRequestLine" /\ connected
    BY <1>5, <2>1 DEF HeadInv, Continues
  <2>3. CASE ParseHeader
    <3>1. Ahead
      BY <2>2, <2>3 DEF HeadInv, ParseHeader, Parsing
    <3> QED BY <1>1, <1>2, <2>2, <2>3, <3>1, HeaderIs DEF HeadInv
  <2>4. CASE ~ParseHeader
    <3>1. CASE ParseNoLine
      <4>1. Stream' = Stream /\ request_' = request_ /\ state_' = state_ /\ step = "parse"
        BY <3>1 DEF ParseNoLine, Stream, untouched, client
      <4>2. state_ = "kExpectHeaders" => Ahead
        BY <2>2, <4>1 DEF HeadInv
      <4>3. state_' = "kExpectHeaders" => Ahead'
        BY <4>1, <4>2 DEF Ahead
      <4> QED BY <1>1, <1>2, <2>2, <4>1, <4>3 DEF HeadInv
    <3>2. CASE EndOfPostHeaders
      <4>1. request_' = request_ \/ \E f \in LengthFields : request_' = [request_ EXCEPT !.length = f.n]
        BY <3>2 DEF EndOfPostHeaders
      <4>2. request_'.fields = request_.fields
        BY <4>1 DEF TypeInv, RequestType
      <4>3. state_' # "kExpectHeaders" \/ (step' = "parsed" /\ ok' = FALSE)
        BY <3>2 DEF EndOfPostHeaders
      <4> QED BY <1>1, <1>2, <2>2, <4>2, <4>3 DEF HeadInv
    <3>3. CASE ParseBodyWait \/ ParseBody \/ ParseMultipart
      <4>1. request_'.fields = request_.fields /\ state_' # "kExpectHeaders"
        BY <3>3 DEF ParseBodyWait, ParseBody, ParseMultipart, Parsing, TypeInv, RequestType
      <4> QED BY <1>1, <1>2, <2>2, <4>1 DEF HeadInv
    <3>4. CASE ParseRequestLine
      BY <1>5, <3>4 DEF ParseRequestLine, Parsing
    <3> QED BY <2>1, <2>4, <3>1, <3>2, <3>3, <3>4 DEF ParseRequest
  <2> QED BY <2>3, <2>4
<1> QED BY <1>3, <1>4, <1>5

LEMMA FinishHead ==
    ASSUME TypeInv, StreamInv, HeadInv, FinishOnMessage
    PROVE  HeadInv'
<1>1. Stream' = Stream /\ step = "parsed" /\ (connected' => connected)
  <2>1. Stream' = Stream /\ step = "parsed" /\ Says
    BY FinishType
  <2> QED BY <2>1 DEF Says
<1>2. CASE handled' = handled /\ request_' = request_ /\ state_' = state_ /\ (connected' => ok)
  <2>1. Ahead => Ahead'
    BY <1>1, <1>2 DEF Ahead
  <2> QED BY <1>1, <1>2, <2>1 DEF HeadInv
<1> DEFINE h == [id |-> request_.id, method |-> request_.method, fields |-> request_.fields,
                 body |-> request_.body, length |-> request_.length, served |-> ok /\ connected]
<1>3. CASE state_ = "kGotAll" /\ state_' = "kExpectRequestLine" /\ request_' = Reset(request_)
           /\ handled' = Append(handled, h)
  <2>1. request_ \in RequestType /\ handled \in Seq(HandledType) /\ ok \in BOOLEAN /\ connected \in BOOLEAN
    BY DEF TypeInv
  <2>2. request_'.fields = {}
    BY <1>3, <2>1, RequestFields
  <2>3. h \in HandledType /\ h.fields = request_.fields /\ h.id = request_.id /\ h.served = (ok /\ connected)
    BY <2>1 DEF RequestType, HandledType
  <2>4. h.served => Own(h.fields, h.id)
    BY <1>3, <2>3 DEF HeadInv
  <2> HIDE DEF h
  <2>5. /\ Len(handled') = Len(handled) + 1 /\ Len(handled) \in Nat
        /\ \A i \in 1..Len(handled) : handled'[i] = handled[i]
        /\ handled'[Len(handled) + 1] = h
    BY <1>3, <2>1, <2>3, AppendProperties
  <2>6. ASSUME NEW i \in 1..Len(handled'), handled'[i].served
        PROVE  Own(handled'[i].fields, handled'[i].id)
    <3>1. CASE i \in 1..Len(handled)
      BY <2>5, <2>6, <3>1 DEF HeadInv
    <3>2. CASE i \notin 1..Len(handled)
      <4>1. i = Len(handled) + 1
        BY <2>5, <3>2
      <4> QED BY <2>4, <2>5, <2>6, <4>1
    <3> QED BY <3>1, <3>2
  <2> QED BY <1>3, <2>2, <2>6 DEF HeadInv
<1> QED BY <1>2, <1>3, FinishType

LEMMA HeadInductive ==
    /\ Init => HeadInv
    /\ TypeInv /\ StreamInv /\ HeadInv /\ [Next]_vars => HeadInv'
<1>1. Init => HeadInv
  <2> SUFFICES ASSUME Init PROVE HeadInv
    OBVIOUS
  <2>1. request_.fields = {} /\ Len(handled) = 0 /\ state_ = "kExpectRequestLine"
    BY DEF Init, NoRequest
  <2> QED BY <2>1 DEF HeadInv
<1>2. TypeInv /\ StreamInv /\ HeadInv /\ [Next]_vars => HeadInv'
  <2> SUFFICES ASSUME TypeInv, StreamInv, HeadInv, [Next]_vars PROVE HeadInv'
    OBVIOUS
  <2>1. CASE Receive
    <3>1. Stream' = Stream /\ UNCHANGED <<state_, request_, connected, handled>> /\ step = "loop"
      BY <2>1, ReceiveType DEF Receive
    <3>2. Ahead => Ahead'
      BY <3>1 DEF Ahead
    <3> QED BY <3>1, <3>2 DEF HeadInv
  <2>2. CASE ParseRequest
    BY <2>2, ParseHead
  <2>3. CASE FinishOnMessage
    BY <2>3, FinishHead
  <2>4. ASSUME NEW kind \in Kinds, Send(kind) PROVE HeadInv'
    <3>1. UNCHANGED <<state_, request_, step, ok, connected, handled>>
      BY <2>4 DEF Send
    <3>2. /\ Len(Stream') \in Nat /\ Len(Stream') >= Len(Stream)
          /\ \A i \in 1..Len(Stream) : Stream'[i] = Stream[i]
      BY <2>4, SendType
    <3>3. ASSUME Ahead PROVE Ahead'
      <4>1. 1 \in 1..Len(Stream) /\ Len(Stream) \in Nat
        BY <3>3, StreamType DEF Ahead
      <4>2. Stream'[1] = Stream[1] /\ 1 \in 1..Len(Stream')
        BY <3>2, <4>1
      <4> QED BY <3>1, <3>3, <4>2 DEF Ahead
    <3> QED BY <3>1, <3>3 DEF HeadInv
  <2>5. CASE UNCHANGED vars
    <3>1. Stream' = Stream /\ UNCHANGED <<state_, request_, step, ok, connected, handled>>
      BY <2>5, StutterType DEF vars
    <3>2. Ahead => Ahead'
      BY <3>1 DEF Ahead
    <3> QED BY <3>1, <3>2 DEF HeadInv
  <2> QED BY <2>1, <2>2, <2>3, <2>4, <2>5 DEF Next, Server
<1> QED BY <1>1, <1>2

(* A handler that can answer sees only header fields of the request it is    *)
(* given, none left by reset() from an earlier one (HttpRequest::swap).      *)
THEOREM HeadersCorrect == Spec => []OwnHeaders
<1> QED BY InitType, TypesInductive, HeadInductive, HeadInvOK, PTL DEF Spec
=============================================================================
