--------------------------- MODULE ProgramsProofs ---------------------------
(***************************************************************************)
(* Proofs about Programs, for any requests, whatever they ask, any cookies *)
(* a site sets and any programs that are started together.  First what is  *)
(* true of texts: a task's key tells its fields, a header that is written  *)
(* is read back, and a hash tells lists apart that have no spaces.  Then   *)
(* what is true of every step: how programs stop, who is answered with     *)
(* what, and which cookies a task is run with.                             *)
(***************************************************************************)
EXTENDS Programs, SequenceTheorems, FiniteSetTheorems, TLAPS

-----------------------------------------------------------------------------
(* Texts and keys *)

\* What follows a text of known length can be told from it.
LEMMA ConcatCancel ==
    ASSUME NEW S, NEW a \in Seq(S), NEW b \in Seq(S), NEW c \in Seq(S), NEW d \in Seq(S),
           a \o b = c \o d, Len(a) = Len(c)
    PROVE  a = c /\ b = d
<1>1. /\ Len(a \o b) = Len(a) + Len(b) /\ Len(c \o d) = Len(c) + Len(d)
      /\ \A i \in 1 .. Len(a) + Len(b) :
            (a \o b)[i] = IF i <= Len(a) THEN a[i] ELSE b[i - Len(a)]
      /\ \A i \in 1 .. Len(c) + Len(d) :
            (c \o d)[i] = IF i <= Len(c) THEN c[i] ELSE d[i - Len(c)]
    BY ConcatProperties
<1>2. /\ Len(a) \in Nat /\ Len(b) \in Nat /\ Len(c) \in Nat /\ Len(d) \in Nat
      /\ Len(b) = Len(d)
    BY <1>1, LenProperties
<1>3. \A i \in 1 .. Len(a) : a[i] = c[i]
    BY <1>1, <1>2
<1>4. \A i \in 1 .. Len(b) : b[i] = d[i]
  <2> SUFFICES ASSUME NEW i \in 1 .. Len(b) PROVE b[i] = d[i]
      OBVIOUS
  <2>1. PICK j \in 1 .. Len(a) + Len(b) : ~(j <= Len(a)) /\ j - Len(a) = i
    <3>1. Len(a) + i \in 1 .. Len(a) + Len(b)
        BY <1>2
    <3>2. ~(Len(a) + i <= Len(a)) /\ Len(a) + i - Len(a) = i
        BY <1>2
    <3> QED
        BY <3>1, <3>2
  <2>2. (a \o b)[j] = b[i]
      BY <1>1, <2>1
  <2>3. j \in 1 .. Len(c) + Len(d) /\ ~(j <= Len(c)) /\ j - Len(c) = i
      BY <1>2, <2>1
  <2>4. (c \o d)[j] = d[i]
      BY <1>1, <2>3
  <2> QED
      BY <2>2, <2>4
<1> QED
    BY <1>2, <1>3, <1>4, SeqEqual

LEMMA RecodedText ==
    ASSUME NEW s \in Text
    PROVE  /\ Recoded(s) \in Text
           /\ IsUtf8(s) => Recoded(s) = s
<1>1. /\ Len(s) \in Nat /\ DOMAIN s = 1 .. Len(s)
      /\ \A i \in DOMAIN s : s[i] \in Char
    BY LenProperties, ElementOfSeq DEF Text
<1>2. Recoded(s) \in [1 .. Len(s) -> Char]
    BY <1>1, TextAssumption DEF Recoded
<1>3. Recoded(s) \in Text /\ Len(Recoded(s)) = Len(s)
    BY <1>1, <1>2, IsASeq, LenProperties DEF Text
<1>4. IsUtf8(s) => Recoded(s) = s
  <2> HAVE IsUtf8(s)
  <2>1. \A i \in 1 .. Len(s) : Recoded(s)[i] = s[i]
      BY <1>1 DEF Recoded, IsUtf8
  <2> QED
      BY <1>3, <2>1, SeqEqual DEF Text
<1> QED
    BY <1>3, <1>4

\* What TaskOf returns, be the request one that is accepted or not.
AnyTask == [TaskType : {"extract", "page_screenshot"},
            text : [Field -> Text],
            CreatedExtractFrom : {"InnerText", "Attribute", "other"},
            CreatedAttributeName : Text,
            Headers : Headers]

LEMMA TaskTexts ==
    ASSUME NEW a \in Ask
    PROVE  TaskOf(a) \in AnyTask
<1>1. CASE a.type = "extract"
  <2>1. /\ a.link \in Link /\ a.headers \in Headers
        /\ a.link.text \in [Field -> Text] /\ a.link.attr \in Text
        /\ a.link.from \in {"InnerText", "Attribute", "other"}
      BY <1>1 DEF Ask, Link
  <2>2. SpecsText(a.link) \in [Field -> Text] /\ Recoded(a.link.attr) \in Text
      BY <2>1, RecodedText DEF SpecsText
  <2> QED
      BY <1>1, <2>1, <2>2 DEF AnyTask, TaskOf
<1>2. CASE a.type # "extract"
  <2>1. a.url \in Text /\ a.headers \in Headers
      BY <1>2 DEF Ask
  <2>2. <<>> \in Text
      BY EmptySeq DEF Text
  <2> QED
      BY <1>2, <2>1, <2>2 DEF AnyTask, TaskOf
<1> QED
    BY <1>1, <1>2

LEMMA ReceivedTexts ==
    ASSUME NEW t \in AnyTask
    PROVE  /\ Received(t) \in AnyTask
           /\ Received(t).TaskType = t.TaskType
           /\ Received(t).text = [f \in Field |-> Recoded(t.text[f])]
           /\ Received(t).Headers = [AcceptLanguage |-> Recoded(t.Headers.AcceptLanguage),
                                     Cookie |-> Recoded(t.Headers.Cookie)]
    BY RecodedText DEF AnyTask, Received, Headers

\* The worker's key is the handler's, if all texts are UTF-8.
LEMMA Utf8Received ==
    ASSUME NEW t \in AnyTask, IsUtf8Task(t)
    PROVE  CacheKey(Received(t)) = CacheKey(t)
<1>1. /\ Received(t).TaskType = t.TaskType
      /\ Received(t).text = [f \in Field |-> Recoded(t.text[f])]
      /\ Received(t).Headers = [AcceptLanguage |-> Recoded(t.Headers.AcceptLanguage),
                                Cookie |-> Recoded(t.Headers.Cookie)]
    BY ReceivedTexts
<1>2. \A f \in Field : Recoded(t.text[f]) = t.text[f]
    BY RecodedText DEF AnyTask, IsUtf8Task
<1>3. /\ Recoded(t.Headers.AcceptLanguage) = t.Headers.AcceptLanguage
      /\ Recoded(t.Headers.Cookie) = t.Headers.Cookie
    BY RecodedText DEF AnyTask, IsUtf8Task, Headers
<1>4. Received(t).text = t.text
    BY <1>1, <1>2 DEF AnyTask
<1>5. Received(t).Headers = t.Headers
    BY <1>1, <1>3 DEF AnyTask, Headers
<1> QED
    BY <1>1, <1>4, <1>5 DEF CacheKey

\* The pieces that a printed header map is put together from.
Piece == Char \cup {"map[", "Accept-Language:", "Cookie:", " ", "]"}

LEMMA PieceText ==
    ASSUME NEW s \in Text
    PROVE  s \in Seq(Piece)
<1>1. Len(s) \in Nat /\ s \in [1 .. Len(s) -> Char]
    BY LenProperties DEF Text
<1>2. s \in [1 .. Len(s) -> Piece]
    BY <1>1 DEF Piece
<1> QED
    BY <1>1, <1>2, IsASeq

PrintedLanguage(h) ==
    IF h.AcceptLanguage = <<>> THEN <<>> ELSE <<"Accept-Language:">> \o h.AcceptLanguage
PrintedCookie(h) ==
    IF h.Cookie = <<>> THEN <<>> ELSE <<"Cookie:">> \o h.Cookie
PrintedSpace(h) ==
    IF PrintedLanguage(h) = <<>> \/ PrintedCookie(h) = <<>> THEN <<>> ELSE <<" ">>

LEMMA PrintedParts ==
    ASSUME NEW h \in Headers
    PROVE  /\ Printed(h) = <<"map[">> \o (PrintedLanguage(h) \o (PrintedSpace(h)
                             \o (PrintedCookie(h) \o <<"]">>)))
           /\ PrintedLanguage(h) \in Seq(Piece) /\ PrintedCookie(h) \in Seq(Piece)
           /\ PrintedSpace(h) \in Seq(Piece)
           /\ <<"map[">> \in Seq(Piece) /\ <<"]">> \in Seq(Piece)
           /\ Printed(h) \in Seq(Piece)
<1>1. /\ h.AcceptLanguage \in Seq(Piece) /\ h.Cookie \in Seq(Piece)
    BY PieceText DEF Headers
<1>2. /\ <<"map[">> \in Seq(Piece) /\ <<"]">> \in Seq(Piece) /\ <<" ">> \in Seq(Piece)
      /\ <<"Accept-Language:">> \in Seq(Piece) /\ <<"Cookie:">> \in Seq(Piece)
      /\ <<>> \in Seq(Piece)
    BY EmptySeq DEF Piece
<1>3. /\ PrintedLanguage(h) \in Seq(Piece) /\ PrintedCookie(h) \in Seq(Piece)
    BY <1>1, <1>2, ConcatProperties DEF PrintedLanguage, PrintedCookie
<1>4. PrintedSpace(h) \in Seq(Piece)
    BY <1>2 DEF PrintedSpace
<1>5. Printed(h) = <<"map[">> \o (PrintedLanguage(h) \o (PrintedSpace(h)
                             \o (PrintedCookie(h) \o <<"]">>)))
    BY Zenon DEF Printed, PrintedLanguage, PrintedSpace, PrintedCookie
<1>6. PrintedCookie(h) \o <<"]">> \in Seq(Piece)
    BY <1>2, <1>3, ConcatProperties
<1>7. PrintedSpace(h) \o (PrintedCookie(h) \o <<"]">>) \in Seq(Piece)
    BY <1>4, <1>6, ConcatProperties
<1>8. PrintedLanguage(h) \o (PrintedSpace(h) \o (PrintedCookie(h) \o <<"]">>)) \in Seq(Piece)
    BY <1>3, <1>7, ConcatProperties
<1>9. Printed(h) \in Seq(Piece)
    BY <1>2, <1>5, <1>8, ConcatProperties
<1> QED
    BY <1>2, <1>3, <1>4, <1>5, <1>9

LEMMA EmptyText ==
    ASSUME NEW S, NEW s \in Seq(S)
    PROVE  s = <<>> <=> Len(s) = 0
BY EmptySeq, LenProperties

LEMMA PrintedTells ==
    ASSUME NEW g \in Headers, NEW h \in Headers, Printed(g) = Printed(h),
           Len(g.AcceptLanguage) = Len(h.AcceptLanguage), Len(g.Cookie) = Len(h.Cookie)
    PROVE  g = h
<1>1. /\ g.AcceptLanguage \in Seq(Piece) /\ g.Cookie \in Seq(Piece)
      /\ h.AcceptLanguage \in Seq(Piece) /\ h.Cookie \in Seq(Piece)
    BY PieceText DEF Headers
<1>2. /\ g.AcceptLanguage = <<>> <=> h.AcceptLanguage = <<>>
      /\ g.Cookie = <<>> <=> h.Cookie = <<>>
    BY <1>1, EmptyText
<1>3. \A w \in {"Accept-Language:", "Cookie:"} : \A x \in Seq(Piece) :
         /\ <<w>> \in Seq(Piece) /\ Len(<<w>>) = 1
         /\ <<w>> \o x \in Seq(Piece) /\ Len(<<w>> \o x) = 1 + Len(x) /\ <<w>> \o x # <<>>
  <2> SUFFICES ASSUME NEW w \in {"Accept-Language:", "Cookie:"}, NEW x \in Seq(Piece)
               PROVE  /\ <<w>> \in Seq(Piece) /\ Len(<<w>>) = 1
                      /\ <<w>> \o x \in Seq(Piece)
                      /\ Len(<<w>> \o x) = 1 + Len(x) /\ <<w>> \o x # <<>>
      OBVIOUS
  <2>1. <<w>> \in Seq(Piece) /\ Len(<<w>>) = 1
    <3>1. w \in Piece
        BY DEF Piece
    <3> QED
        BY <3>1
  <2>2. <<w>> \o x \in Seq(Piece) /\ Len(<<w>> \o x) = 1 + Len(x)
      BY <2>1, ConcatProperties
  <2>3. Len(x) \in Nat
      BY LenProperties
  <2>4. Len(<<w>> \o x) # 0
      BY <2>2, <2>3
  <2> QED
      BY <2>1, <2>2, <2>4, EmptyText
<1>4. /\ Len(PrintedLanguage(g)) = Len(PrintedLanguage(h))
      /\ PrintedLanguage(g) = <<>> <=> PrintedLanguage(h) = <<>>
    BY <1>1, <1>2, <1>3 DEF PrintedLanguage
<1>5. /\ Len(PrintedCookie(g)) = Len(PrintedCookie(h))
      /\ PrintedCookie(g) = <<>> <=> PrintedCookie(h) = <<>>
    BY <1>1, <1>2, <1>3 DEF PrintedCookie
<1>6. PrintedSpace(g) = PrintedSpace(h)
    BY <1>4, <1>5 DEF PrintedSpace
<1> DEFINE cookies(k)  == PrintedCookie(k) \o <<"]">>
           spaced(k)   == PrintedSpace(k) \o cookies(k)
           language(k) == PrintedLanguage(k) \o spaced(k)
<1>7. ASSUME NEW k \in Headers
      PROVE  /\ Printed(k) = <<"map[">> \o language(k)
             /\ PrintedLanguage(k) \in Seq(Piece) /\ PrintedCookie(k) \in Seq(Piece)
             /\ PrintedSpace(k) \in Seq(Piece)
             /\ <<"map[">> \in Seq(Piece) /\ <<"]">> \in Seq(Piece)
             /\ cookies(k) \in Seq(Piece) /\ spaced(k) \in Seq(Piece)
             /\ language(k) \in Seq(Piece)
  <2>1. /\ Printed(k) = <<"map[">> \o language(k)
        /\ PrintedLanguage(k) \in Seq(Piece) /\ PrintedCookie(k) \in Seq(Piece)
        /\ PrintedSpace(k) \in Seq(Piece)
        /\ <<"map[">> \in Seq(Piece) /\ <<"]">> \in Seq(Piece)
      BY PrintedParts
  <2>2. cookies(k) \in Seq(Piece)
      BY <2>1, ConcatProperties
  <2>3. spaced(k) \in Seq(Piece)
      BY <2>1, <2>2, ConcatProperties
  <2>4. language(k) \in Seq(Piece)
      BY <2>1, <2>3, ConcatProperties
  <2> QED
      BY <2>1, <2>2, <2>3, <2>4
<1> HIDE DEF cookies, spaced, language
<1>8. language(g) = language(h)
    BY <1>7, ConcatCancel
<1>9. PrintedLanguage(g) = PrintedLanguage(h) /\ spaced(g) = spaced(h)
    BY <1>4, <1>7, <1>8, ConcatCancel DEF language
<1>10. cookies(g) = cookies(h)
  <2>1. PrintedSpace(g) \o cookies(g) = PrintedSpace(g) \o cookies(h)
      BY <1>6, <1>9 DEF spaced
  <2>2. /\ PrintedSpace(g) \in Seq(Piece)
        /\ cookies(g) \in Seq(Piece) /\ cookies(h) \in Seq(Piece)
      BY <1>7
  <2> QED
      BY <2>1, <2>2, ConcatCancel
<1>11. PrintedCookie(g) = PrintedCookie(h)
    BY <1>5, <1>7, <1>10, ConcatCancel DEF cookies
<1>12. g.AcceptLanguage = h.AcceptLanguage
  <2>1. CASE g.AcceptLanguage = <<>>
      BY <1>2, <2>1
  <2>2. CASE g.AcceptLanguage # <<>>
    <3>1. <<"Accept-Language:">> \o g.AcceptLanguage = <<"Accept-Language:">> \o h.AcceptLanguage
        BY <1>2, <1>9, <2>2 DEF PrintedLanguage
    <3> QED
        BY <1>1, <1>3, <3>1, ConcatCancel
  <2> QED
      BY <2>1, <2>2
<1>13. g.Cookie = h.Cookie
  <2>1. CASE g.Cookie = <<>>
      BY <1>2, <2>1
  <2>2. CASE g.Cookie # <<>>
    <3>1. <<"Cookie:">> \o g.Cookie = <<"Cookie:">> \o h.Cookie
        BY <1>2, <1>11, <2>2 DEF PrintedCookie
    <3> QED
        BY <1>1, <1>3, <3>1, ConcatCancel
  <2> QED
      BY <2>1, <2>2
<1> QED
    BY <1>12, <1>13 DEF Headers

\* Tasks with the same key are of the same type, and equal in what the key is
\* made of if their texts have the same lengths.
LEMMA KeyTells ==
    ASSUME NEW t \in AnyTask, NEW u \in AnyTask, CacheKey(t) = CacheKey(u)
    PROVE  /\ t.TaskType = u.TaskType
           /\ SameLengths(t, u) => t.text = u.text /\ t.Headers = u.Headers
<1> DEFINE from9(v) == v.text["SelectorEnclosure"] \o Printed(v.Headers)
           from8(v) == v.text["SelectorContent"] \o from9(v)
           from7(v) == v.text["SelectorCreated"] \o from8(v)
           from6(v) == v.text["SelectorAuthor"] \o from7(v)
           from5(v) == v.text["SelectorDescription"] \o from6(v)
           from4(v) == v.text["SelectorLink"] \o from5(v)
           from3(v) == v.text["SelectorTitle"] \o from4(v)
           from2(v) == v.text["SelectorPost"] \o from3(v)
           from1(v) == v.text["URL"] \o from2(v)
<1>1. ASSUME NEW v \in AnyTask
      PROVE  /\ CacheKey(v) = <<v.TaskType, from1(v)>>
             /\ \A f \in Field : v.text[f] \in Seq(Piece)
             /\ v.Headers \in Headers /\ Printed(v.Headers) \in Seq(Piece)
             /\ from1(v) \in Seq(Piece)
             /\ from2(v) \in Seq(Piece)
             /\ from3(v) \in Seq(Piece)
             /\ from4(v) \in Seq(Piece)
             /\ from5(v) \in Seq(Piece)
             /\ from6(v) \in Seq(Piece)
             /\ from7(v) \in Seq(Piece)
             /\ from8(v) \in Seq(Piece)
             /\ from9(v) \in Seq(Piece)
  <2>1. CacheKey(v) = <<v.TaskType, from1(v)>>
      BY Zenon DEF CacheKey
  <2>2. \A f \in Field : v.text[f] \in Seq(Piece)
      BY PieceText DEF AnyTask
  <2>3. v.Headers \in Headers /\ Printed(v.Headers) \in Seq(Piece)
      BY PrintedParts DEF AnyTask
  <2>4. from9(v) \in Seq(Piece)
      BY <2>2, <2>3, ConcatProperties DEF Field, Required, Optional
  <2>5. from8(v) \in Seq(Piece)
      BY <2>2, <2>4, ConcatProperties DEF Field, Required, Optional
  <2>6. from7(v) \in Seq(Piece)
      BY <2>2, <2>5, ConcatProperties DEF Field, Required, Optional
  <2>7. from6(v) \in Seq(Piece)
      BY <2>2, <2>6, ConcatProperties DEF Field, Required, Optional
  <2>8. from5(v) \in Seq(Piece)
      BY <2>2, <2>7, ConcatProperties DEF Field, Required, Optional
  <2>9. from4(v) \in Seq(Piece)
      BY <2>2, <2>8, ConcatProperties DEF Field, Required, Optional
  <2>10. from3(v) \in Seq(Piece)
      BY <2>2, <2>9, ConcatProperties DEF Field, Required, Optional
  <2>11. from2(v) \in Seq(Piece)
      BY <2>2, <2>10, ConcatProperties DEF Field, Required, Optional
  <2>12. from1(v) \in Seq(Piece)
      BY <2>2, <2>11, ConcatProperties DEF Field, Required, Optional
  <2> QED
      BY <2>1, <2>2, <2>3, <2>4, <2>5, <2>6, <2>7, <2>8, <2>9, <2>10, <2>11, <2>12
<1> HIDE DEF from1, from2, from3, from4, from5, from6, from7, from8, from9
<1>2. t.TaskType = u.TaskType /\ from1(t) = from1(u)
  <2>1. CacheKey(t) = <<t.TaskType, from1(t)>>
      BY <1>1, Zenon
  <2>2. CacheKey(u) = <<u.TaskType, from1(u)>>
      BY <1>1, Zenon
  <2>3. <<t.TaskType, from1(t)>> = <<u.TaskType, from1(u)>>
      BY <2>1, <2>2, Zenon
  <2> QED
      BY <2>3, Zenon
<1>3. ASSUME SameLengths(t, u)
      PROVE  t.text = u.text /\ t.Headers = u.Headers
  <2>1. ASSUME NEW f \in Field, NEW x \in Seq(Piece), NEW y \in Seq(Piece),
               t.text[f] \o x = u.text[f] \o y
        PROVE  t.text[f] = u.text[f] /\ x = y
    <3>1. Len(t.text[f]) = Len(u.text[f])
        BY <1>3 DEF SameLengths
    <3>2. t.text[f] \in Seq(Piece) /\ u.text[f] \in Seq(Piece)
        BY <1>1
    <3> QED
        BY <2>1, <3>1, <3>2, ConcatCancel
  <2>2. t.text["URL"] = u.text["URL"] /\ from2(t) = from2(u)
    <3>1. t.text["URL"] \o from2(t) = u.text["URL"] \o from2(u)
        BY <1>2 DEF from1
    <3>2. "URL" \in Field /\ from2(t) \in Seq(Piece) /\ from2(u) \in Seq(Piece)
        BY <1>1 DEF Field, Required, Optional
    <3> QED
        BY <2>1, <3>1, <3>2
  <2>3. t.text["SelectorPost"] = u.text["SelectorPost"] /\ from3(t) = from3(u)
    <3>1. t.text["SelectorPost"] \o from3(t) = u.text["SelectorPost"] \o from3(u)
        BY <2>2 DEF from2
    <3>2. "SelectorPost" \in Field /\ from3(t) \in Seq(Piece) /\ from3(u) \in Seq(Piece)
        BY <1>1 DEF Field, Required, Optional
    <3> QED
        BY <2>1, <3>1, <3>2
  <2>4. t.text["SelectorTitle"] = u.text["SelectorTitle"] /\ from4(t) = from4(u)
    <3>1. t.text["SelectorTitle"] \o from4(t) = u.text["SelectorTitle"] \o from4(u)
        BY <2>3 DEF from3
    <3>2. "SelectorTitle" \in Field /\ from4(t) \in Seq(Piece) /\ from4(u) \in Seq(Piece)
        BY <1>1 DEF Field, Required, Optional
    <3> QED
        BY <2>1, <3>1, <3>2
  <2>5. t.text["SelectorLink"] = u.text["SelectorLink"] /\ from5(t) = from5(u)
    <3>1. t.text["SelectorLink"] \o from5(t) = u.text["SelectorLink"] \o from5(u)
        BY <2>4 DEF from4
    <3>2. "SelectorLink" \in Field /\ from5(t) \in Seq(Piece) /\ from5(u) \in Seq(Piece)
        BY <1>1 DEF Field, Required, Optional
    <3> QED
        BY <2>1, <3>1, <3>2
  <2>6. t.text["SelectorDescription"] = u.text["SelectorDescription"] /\ from6(t) = from6(u)
    <3>1. t.text["SelectorDescription"] \o from6(t) = u.text["SelectorDescription"] \o from6(u)
        BY <2>5 DEF from5
    <3>2. "SelectorDescription" \in Field /\ from6(t) \in Seq(Piece) /\ from6(u) \in Seq(Piece)
        BY <1>1 DEF Field, Required, Optional
    <3> QED
        BY <2>1, <3>1, <3>2
  <2>7. t.text["SelectorAuthor"] = u.text["SelectorAuthor"] /\ from7(t) = from7(u)
    <3>1. t.text["SelectorAuthor"] \o from7(t) = u.text["SelectorAuthor"] \o from7(u)
        BY <2>6 DEF from6
    <3>2. "SelectorAuthor" \in Field /\ from7(t) \in Seq(Piece) /\ from7(u) \in Seq(Piece)
        BY <1>1 DEF Field, Required, Optional
    <3> QED
        BY <2>1, <3>1, <3>2
  <2>8. t.text["SelectorCreated"] = u.text["SelectorCreated"] /\ from8(t) = from8(u)
    <3>1. t.text["SelectorCreated"] \o from8(t) = u.text["SelectorCreated"] \o from8(u)
        BY <2>7 DEF from7
    <3>2. "SelectorCreated" \in Field /\ from8(t) \in Seq(Piece) /\ from8(u) \in Seq(Piece)
        BY <1>1 DEF Field, Required, Optional
    <3> QED
        BY <2>1, <3>1, <3>2
  <2>9. t.text["SelectorContent"] = u.text["SelectorContent"] /\ from9(t) = from9(u)
    <3>1. t.text["SelectorContent"] \o from9(t) = u.text["SelectorContent"] \o from9(u)
        BY <2>8 DEF from8
    <3>2. "SelectorContent" \in Field /\ from9(t) \in Seq(Piece) /\ from9(u) \in Seq(Piece)
        BY <1>1 DEF Field, Required, Optional
    <3> QED
        BY <2>1, <3>1, <3>2
  <2>10. t.text["SelectorEnclosure"] = u.text["SelectorEnclosure"] /\ Printed(t.Headers) = Printed(u.Headers)
    <3>1. t.text["SelectorEnclosure"] \o Printed(t.Headers) = u.text["SelectorEnclosure"] \o Printed(u.Headers)
        BY <2>9 DEF from9
    <3>2. "SelectorEnclosure" \in Field /\ Printed(t.Headers) \in Seq(Piece) /\ Printed(u.Headers) \in Seq(Piece)
        BY <1>1 DEF Field, Required, Optional
    <3> QED
        BY <2>1, <3>1, <3>2
  <2>11. t.Headers = u.Headers
      BY <1>1, <1>3, <2>10, PrintedTells DEF SameLengths
  <2>12. t.text = u.text
      BY <2>2, <2>3, <2>4, <2>5, <2>6, <2>7, <2>8, <2>9, <2>10 DEF AnyTask, Field, Required, Optional
  <2> QED
      BY <2>11, <2>12
<1> QED
    BY <1>2, <1>3

-----------------------------------------------------------------------------
(* Induction.  The library states it for predicates, which no prover here  *)
(* instantiates; for sets it follows from the order of the numbers.        *)

\* A set of numbers that is not empty has a least one.
LEMMA Least ==
    ASSUME NEW T \in SUBSET Nat, T # {}
    PROVE  \E x \in T : \A y \in T : x <= y
<1>1. PICK x \in T : \A y \in T : <<y, x>> \notin OpToRel(<, Nat)
    BY NatLessThanWellFounded, WFMin, Zenon
<1>2. \A y \in T : <<y, x>> \in Nat \X Nat
    OBVIOUS
<1>3. \A y \in T : ~(y < x)
    BY <1>1, <1>2, Zenon DEF OpToRel
<1>4. x \in Nat /\ \A y \in T : y \in Nat
    OBVIOUS
<1> QED
    BY <1>3, <1>4

\* Induction up to a number, with a set in the place of a predicate.
LEMMA Induction ==
    ASSUME NEW m \in Nat, NEW T, 0 \in T, \A k \in 0 .. m - 1 : k \in T => k + 1 \in T
    PROVE  \A k \in 0 .. m : k \in T
<1> DEFINE U == {k \in 0 .. m : k \notin T}
<1> SUFFICES ASSUME U # {} PROVE FALSE
    OBVIOUS
<1>1. U \in SUBSET Nat
    OBVIOUS
<1>2. PICK x \in U : \A y \in U : x <= y
  <2> HIDE DEF U
  <2> QED
      BY <1>1, Least
<1>3. x - 1 \in 0 .. m - 1 /\ x - 1 \in T
    BY <1>2
<1>4. x - 1 + 1 \in T
    BY <1>3
<1> QED
    BY <1>2, <1>4

\* w starts with base, and each value is made by step from the one before.
Follows(w, m, base, step) ==
    /\ w[0] = base
    /\ \A k \in 1 .. m : w[k] = step[k][w[k - 1]]

\* A function that is defined by recursion exists.
LEMMA Recursion ==
    ASSUME NEW m \in Nat, NEW X, NEW base \in X, NEW step \in [1 .. m -> [X -> X]]
    PROVE  \E w \in [0 .. m -> X] : Follows(w, m, base, step)
<1> DEFINE Runs(k, w) == /\ w \in [0 .. k -> X]
                          /\ w[0] = base
                          /\ \A l \in 1 .. k : w[l] = step[l][w[l - 1]]
           T == {k \in 0 .. m : \E w \in [0 .. k -> X] : Runs(k, w)}
<1>1. 0 \in T
  <2>1. Runs(0, [l \in 0 .. 0 |-> base])
      OBVIOUS
  <2>2. [l \in 0 .. 0 |-> base] \in [0 .. 0 -> X]
      OBVIOUS
  <2>3. 0 \in 0 .. m
      OBVIOUS
  <2> HIDE DEF Runs
  <2> QED
      BY <2>1, <2>2, <2>3
<1>2. ASSUME NEW k \in 0 .. m - 1, k \in T
      PROVE  k + 1 \in T
  <2>1. PICK w \in [0 .. k -> X] : Runs(k, w)
      BY <1>2
  <2> DEFINE v == [l \in 0 .. k + 1 |-> IF l = k + 1 THEN step[k + 1][w[k]] ELSE w[l]]
  <2>2. v \in [0 .. k + 1 -> X]
    <3>1. w[k] \in X /\ k + 1 \in 1 .. m
        BY <2>1
    <3>2. step[k + 1][w[k]] \in X
        BY <3>1
    <3>3. \A l \in 0 .. k + 1 : l # k + 1 => w[l] \in X
        BY <2>1
    <3> QED
        BY <3>2, <3>3
  <2>3. v[0] = base
      BY <2>1
  <2>4. ASSUME NEW l \in 1 .. k + 1
        PROVE  v[l] = step[l][v[l - 1]]
    <3>1. CASE l = k + 1
      <4>1. v[l] = step[k + 1][w[k]] /\ v[l - 1] = w[k]
          BY <3>1
      <4> QED
          BY <3>1, <4>1
    <3>2. CASE l # k + 1
      <4>1. v[l] = w[l] /\ v[l - 1] = w[l - 1]
          BY <3>2
      <4>2. w[l] = step[l][w[l - 1]]
          BY <2>1, <3>2
      <4> QED
          BY <4>1, <4>2
    <3> QED
        BY <3>1, <3>2
  <2>5. Runs(k + 1, v)
      BY <2>2, <2>3, <2>4
  <2>6. k + 1 \in 0 .. m
      OBVIOUS
  <2> HIDE DEF v, Runs
  <2> QED
      BY <2>2, <2>5, <2>6
<1>3. m \in T
  <2> HIDE DEF T
  <2>1. \A k \in 0 .. m : k \in T
      BY <1>1, <1>2, Induction
  <2>2. m \in 0 .. m
      OBVIOUS
  <2> QED
      BY <2>1, <2>2
<1> QED
    BY <1>3 DEF Follows

-----------------------------------------------------------------------------
\* w are the texts that seqs add up to, one after the other.
Flattens(w, seqs) ==
    /\ w[0] = <<>>
    /\ \A k \in 1 .. Len(seqs) : w[k] = w[k - 1] \o seqs[k]
    /\ FlattenSeq(seqs) = w[Len(seqs)]

Flat(seqs) ==
    LET flatten[i \in 1 .. Len(seqs)] == IF i = 1 THEN seqs[i] ELSE flatten[i - 1] \o seqs[i]
    IN  flatten

LEMMA FlattenSteps ==
    ASSUME NEW S, NEW seqs \in Seq(Seq(S))
    PROVE  \E w \in [0 .. Len(seqs) -> Seq(S)] : Flattens(w, seqs)
<1> DEFINE len == Len(seqs)
           X == Seq(S)
           Cat(t, u) == t \o u
           step == [k \in 1 .. len |-> [t \in X |-> Cat(t, seqs[k])]]
           F(v) == [i \in 1 .. len |-> IF i = 1 THEN seqs[i] ELSE Cat(v[i - 1], seqs[i])]
<1>1. len \in Nat /\ \A k \in 1 .. len : seqs[k] \in X
    BY LenProperties, ElementOfSeq
<1>2. \A t, u \in X : Cat(t, u) \in X
    BY ConcatProperties
<1>3. <<>> \in X /\ \A t \in X : Cat(<<>>, t) = t
    BY EmptySeq, ConcatEmptySeq
<1>4. len = 0 => seqs = <<>>
    BY EmptySeq
<1>5. Flat(seqs) = CHOOSE u : u = F(u)
    BY Zenon DEF Flat
<1>6. FlattenSeq(seqs) = IF len = 0 THEN seqs ELSE Flat(seqs)[len]
    BY Zenon DEF FlattenSeq, Flat
<1> HIDE DEF len, X, Cat
<1>7. PICK w \in [0 .. len -> X] : Follows(w, len, <<>>, step)
  <2>1. step \in [1 .. len -> [X -> X]]
      BY <1>1, <1>2
  <2> HIDE DEF step
  <2> QED
      BY <1>1, <1>3, <2>1, Recursion
<1>8. /\ w[0] = <<>>
      /\ \A k \in 1 .. len : w[k - 1] \in X /\ w[k] = Cat(w[k - 1], seqs[k])
  <2>1. \A k \in 1 .. len : k - 1 \in 0 .. len
      BY <1>1
  <2> QED
      BY <1>7, <2>1 DEF Follows
<1> DEFINE v == [i \in 1 .. len |-> w[i]]
<1>9. v = F(v)
  <2> SUFFICES ASSUME NEW i \in 1 .. len
               PROVE  v[i] = IF i = 1 THEN seqs[i] ELSE Cat(v[i - 1], seqs[i])
      BY Zenon
  <2>1. CASE i = 1
      BY <1>1, <1>3, <1>8, <2>1
  <2>2. CASE i # 1
    <3>1. i - 1 \in 1 .. len
        BY <1>1, <2>2
    <3> QED
        BY <1>8, <2>2, <3>1
  <2> QED
      BY <2>1, <2>2
<1>10. Flat(seqs) = F(Flat(seqs))
  <2> HIDE DEF F, v
  <2> QED
      BY <1>5, <1>9, Zenon
<1>11. \A i \in 1 .. len :
          Flat(seqs)[i] = IF i = 1 THEN seqs[i] ELSE Cat(Flat(seqs)[i - 1], seqs[i])
    BY <1>10, Zenon
<1> HIDE DEF F, v
<1> DEFINE T == {k \in 0 .. len : k # 0 => Flat(seqs)[k] = w[k]}
<1>12. ASSUME NEW k \in 0 .. len - 1, k \in T
       PROVE  k + 1 \in T
  <2>1. k + 1 \in 1 .. len /\ k + 1 - 1 = k
      BY <1>1
  <2>2. w[k + 1] = Cat(w[k], seqs[k + 1])
      BY <1>8, <2>1
  <2>3. CASE k = 0
      BY <1>1, <1>3, <1>8, <1>11, <2>1, <2>2, <2>3
  <2>4. CASE k # 0
      BY <1>11, <1>12, <2>1, <2>2, <2>4
  <2> QED
      BY <2>3, <2>4
<1>13. 0 \in T
    BY <1>1
<1>14. \A k \in 0 .. len : k \in T
  <2> HIDE DEF T
  <2> QED
      BY <1>1, <1>12, <1>13, Induction
<1>15. FlattenSeq(seqs) = w[len]
    BY <1>1, <1>4, <1>6, <1>8, <1>14
<1>16. \A k \in 1 .. len : w[k] = w[k - 1] \o seqs[k]
    BY <1>8, Zenon DEF Cat
<1>17. Flattens(w, seqs)
    BY <1>8, <1>15, <1>16, Zenon DEF Flattens, len
<1> QED
    BY <1>17, Zenon DEF len, X

\* What has been added up so far is how all of it starts.
LEMMA FlattenRest ==
    ASSUME NEW S, NEW seqs \in Seq(Seq(S)),
           NEW w \in [0 .. Len(seqs) -> Seq(S)], Flattens(w, seqs), NEW k \in 0 .. Len(seqs)
    PROVE  \E t \in Seq(S) : FlattenSeq(seqs) = w[k] \o t
<1> DEFINE len == Len(seqs)
           X == Seq(S)
           all == FlattenSeq(seqs)
           Cat(t, u) == t \o u
           T == {j \in 0 .. len : \E t \in X : all = Cat(w[len - j], t)}
<1>1. len \in Nat /\ \A j \in 1 .. len : seqs[j] \in X
    BY LenProperties, ElementOfSeq
<1>2. /\ all = w[len]
      /\ \A j \in 1 .. len : w[j] = Cat(w[j - 1], seqs[j])
    BY Zenon DEF Flattens
<1>3. <<>> \in X /\ \A t \in X : Cat(t, <<>>) = t
    BY EmptySeq, ConcatEmptySeq
<1>4. \A t, u \in X : Cat(t, u) \in X
    BY ConcatProperties
<1>5. \A t, u, v \in X : Cat(Cat(t, u), v) = Cat(t, Cat(u, v))
  <2> SUFFICES ASSUME NEW t \in Seq(S), NEW u \in Seq(S), NEW v \in Seq(S)
               PROVE  (t \o u) \o v = t \o (u \o v)
      BY Zenon
  <2> QED
      BY ConcatAssociative
<1> HIDE DEF len, X, all, Cat
<1>6. w \in [0 .. len -> X] /\ k \in 0 .. len
    BY DEF len, X
<1>7. 0 \in T
  <2>1. len \in 0 .. len /\ len - 0 = len
      BY <1>1
  <2>2. all = Cat(w[len], <<>>)
      BY <1>2, <1>3, <1>6, <2>1
  <2> QED
      BY <1>1, <1>3, <2>1, <2>2
<1>8. ASSUME NEW j \in 0 .. len - 1, j \in T
      PROVE  j + 1 \in T
  <2>1. PICK t \in X : all = Cat(w[len - j], t)
      BY <1>8
  <2> DEFINE i == len - j
  <2>2. i \in 1 .. len /\ i - 1 \in 0 .. len /\ i - 1 = len - (j + 1) /\ j + 1 \in 0 .. len
      BY <1>1
  <2>3. all = Cat(w[i], t)
      BY <2>1, Zenon
  <2> HIDE DEF i
  <2>4. w[i] = Cat(w[i - 1], seqs[i]) /\ w[i - 1] \in X /\ seqs[i] \in X
      BY <1>1, <1>2, <1>6, <2>2
  <2>5. all = Cat(w[i - 1], Cat(seqs[i], t)) /\ Cat(seqs[i], t) \in X
    <3>1. Cat(seqs[i], t) \in X
        BY <1>4, <2>4
    <3>2. Cat(Cat(w[i - 1], seqs[i]), t) = Cat(w[i - 1], Cat(seqs[i], t))
        BY <1>5, <2>4
    <3>3. all = Cat(Cat(w[i - 1], seqs[i]), t)
        BY <2>3, <2>4
    <3> QED
        BY <3>1, <3>2, <3>3
  <2> QED
      BY <2>2, <2>5
<1>9. \A j \in 0 .. len : j \in T
  <2> HIDE DEF T
  <2> QED
      BY <1>1, <1>7, <1>8, Induction
<1>10. len - k \in 0 .. len /\ len - (len - k) = k
    BY <1>1, <1>6
<1>11. \E t \in X : all = Cat(w[k], t)
    BY <1>9, <1>10
<1> QED
    BY <1>11, Zenon DEF X, all, Cat

-----------------------------------------------------------------------------
(* Where a text is split *)

\* q are the places of all c in s, from just before s to just past it.
Cuts(q, n, c, s) ==
    /\ q[0] = 0 /\ q[n] = Len(s) + 1
    /\ \A m \in 1 .. n : q[m - 1] < q[m]
    /\ \A i \in 1 .. Len(s) : s[i] = c <=> \E m \in 1 .. n - 1 : i = q[m]

LEMMA CutsAscend ==
    ASSUME NEW n \in Nat, NEW q \in [0 .. n -> Nat], \A m \in 1 .. n : q[m - 1] < q[m]
    PROVE  \A a, b \in 0 .. n : a < b => q[a] < q[b]
<1> DEFINE T == {b \in 0 .. n : \A a \in 0 .. n : a < b => q[a] < q[b]}
<1>1. 0 \in T
    OBVIOUS
<1>2. ASSUME NEW k \in 0 .. n - 1, k \in T
      PROVE  k + 1 \in T
  <2>1. k + 1 \in 1 .. n /\ k + 1 - 1 = k
      OBVIOUS
  <2>2. q[k] < q[k + 1] /\ q[k] \in Nat /\ q[k + 1] \in Nat
      BY <2>1
  <2>3. ASSUME NEW a \in 0 .. n, a < k + 1
        PROVE  q[a] < q[k + 1]
    <3>1. a = k \/ (a < k /\ q[a] < q[k] /\ q[a] \in Nat)
        BY <1>2, <2>3
    <3> QED
        BY <2>2, <3>1
  <2> QED
      BY <2>1, <2>3
<1>3. \A k \in 0 .. n : k \in T
  <2> HIDE DEF T
  <2> QED
      BY <1>1, <1>2, Induction
<1> QED
    BY <1>3

LEMMA CutsCover ==
    ASSUME NEW n \in Nat, NEW q \in [0 .. n -> Nat], q[0] = 0
    PROVE  \A i \in 0 .. q[n] - 1 : \E m \in 0 .. n - 1 : q[m] <= i /\ i < q[m + 1]
<1> DEFINE T == {b \in 0 .. n : \A i \in 0 .. q[b] - 1 :
                                   \E m \in 0 .. n - 1 : q[m] <= i /\ i < q[m + 1]}
<1>1. 0 \in T
    OBVIOUS
<1>2. ASSUME NEW k \in 0 .. n - 1, k \in T
      PROVE  k + 1 \in T
  <2>1. k + 1 \in 0 .. n /\ q[k] \in Nat /\ q[k + 1] \in Nat
      OBVIOUS
  <2>2. ASSUME NEW i \in 0 .. q[k + 1] - 1
        PROVE  \E m \in 0 .. n - 1 : q[m] <= i /\ i < q[m + 1]
    <3>1. CASE i < q[k]
      <4>1. i \in 0 .. q[k] - 1
          BY <2>1, <3>1
      <4> QED
          BY <1>2, <4>1
    <3>2. CASE ~(i < q[k])
        BY <2>1, <3>2
    <3> QED
        BY <3>1, <3>2
  <2> QED
      BY <2>1, <2>2
<1>3. \A k \in 0 .. n : k \in T
  <2> HIDE DEF T
  <2> QED
      BY <1>1, <1>2, Induction
<1>4. n \in 0 .. n
    OBVIOUS
<1> QED
    BY <1>3, <1>4

\* How many c there are up to a place is which of the cuts it is behind.
LEMMA CutsCount ==
    ASSUME NEW S, NEW s \in Seq(S), NEW c, NEW n \in Nat \ {0}, NEW q \in [0 .. n -> Nat],
           Cuts(q, n, c, s),
           NEW m \in 0 .. n - 1, NEW i \in 0 .. Len(s), q[m] <= i, i < q[m + 1]
    PROVE  Count(c, s, i) = m
<1> DEFINE len == Len(s)
           At(j) == {l \in 1 .. j : s[l] = c}
           T == {k \in 0 .. n - 1 : \A j \in 0 .. len : q[k] <= j /\ j < q[k + 1] =>
                                       IsFiniteSet(At(j)) /\ Cardinality(At(j)) = k}
<1>1. len \in Nat
    BY LenProperties
<1>2. /\ q[0] = 0 /\ q[n] = len + 1
      /\ \A l \in 1 .. len : s[l] = c <=> \E k \in 1 .. n - 1 : l = q[k]
    BY DEF Cuts
<1>3. \A a, b \in 0 .. n : a < b => q[a] < q[b]
  <2>1. \A k \in 1 .. n : q[k - 1] < q[k]
      BY DEF Cuts
  <2> QED
      BY <2>1, CutsAscend
<1> HIDE DEF len, At
<1>4. ASSUME NEW k \in 0 .. n - 1, NEW l \in 1 .. len, q[k] < l, l < q[k + 1]
      PROVE  s[l] # c
  <2> SUFFICES ASSUME NEW a \in 1 .. n - 1, l = q[a] PROVE FALSE
      BY <1>2
  <2>1. a <= k \/ k + 1 <= a
      OBVIOUS
  <2>2. q[a] \in Nat /\ q[k] \in Nat /\ q[k + 1] \in Nat
      OBVIOUS
  <2>3. CASE a <= k
    <3>1. a = k \/ q[a] < q[k]
        BY <1>3, <2>3
    <3> QED
        BY <1>4, <2>2, <3>1
  <2>4. CASE k + 1 <= a
    <3>1. a = k + 1 \/ q[k + 1] < q[a]
        BY <1>3, <2>4
    <3> QED
        BY <1>4, <2>2, <3>1
  <2> QED
      BY <2>1, <2>3, <2>4
<1>5. 0 \in T
  <2> SUFFICES ASSUME NEW j \in 0 .. len, q[0] <= j, j < q[1]
               PROVE  IsFiniteSet(At(j)) /\ Cardinality(At(j)) = 0
    <3>1. 0 \in 0 .. n - 1 /\ 0 + 1 = 1
        OBVIOUS
    <3> QED
        BY <3>1
  <2>1. ASSUME NEW l \in 1 .. j PROVE s[l] # c
    <3>1. l \in 1 .. len /\ q[0] < l /\ l < q[0 + 1] /\ 0 \in 0 .. n - 1
        BY <1>1, <1>2
    <3> QED
        BY <1>4, <3>1
  <2>2. At(j) = {}
      BY <2>1 DEF At
  <2> QED
      BY <2>2, FS_EmptySet
<1>6. ASSUME NEW k \in 0 .. (n - 1) - 1, k \in T
      PROVE  k + 1 \in T
  <2> SUFFICES ASSUME NEW j \in 0 .. len, q[k + 1] <= j, j < q[k + 1 + 1]
               PROVE  IsFiniteSet(At(j)) /\ Cardinality(At(j)) = k + 1
    <3>1. k + 1 \in 0 .. n - 1
        OBVIOUS
    <3> QED
        BY <3>1
  <2>0. PICK p \in Nat : p = q[k + 1]
    <3>1. k + 1 \in 0 .. n
        OBVIOUS
    <3> QED
        BY <3>1
  <2>1. /\ k \in 0 .. n - 1 /\ k + 1 \in 0 .. n - 1 /\ k + 1 \in 1 .. n - 1
        /\ q[k] \in Nat /\ p \in Nat /\ q[k + 1 + 1] \in Nat /\ q[k] < p /\ 0 <= q[k]
      BY <1>3, <2>0
  <2>2. p \in 1 .. len /\ p - 1 \in 0 .. len /\ q[k] <= p - 1 /\ p - 1 < p
    <3>1. j \in Nat /\ j <= len /\ p <= j
        BY <1>1, <2>0
    <3> QED
        BY <1>1, <2>1, <3>1
  <2>3. IsFiniteSet(At(p - 1)) /\ Cardinality(At(p - 1)) = k
      BY <1>6, <2>0, <2>2
  <2>4. s[p] = c
      BY <1>2, <2>0, <2>1, <2>2
  <2>5. \A l \in 1 .. j : p < l => s[l] # c
    <3> SUFFICES ASSUME NEW l \in 1 .. j, p < l PROVE s[l] # c
        OBVIOUS
    <3>1. l \in 1 .. len /\ l < q[k + 1 + 1]
        BY <1>1, <2>1
    <3> QED
        BY <1>4, <2>0, <2>1, <3>1
  <2>6. At(j) = At(p - 1) \cup {p} /\ p \notin At(p - 1)
    <3>1. j \in Nat /\ p <= j
        BY <1>1, <2>0
    <3>2. p \in Nat \ {0} /\ p \notin 1 .. p - 1
        BY <2>2
    <3>3. \A l : l \in 1 .. j /\ s[l] = c <=> l = p \/ (l \in 1 .. p - 1 /\ s[l] = c)
      <4> HIDE DEF T
      <4>1. ASSUME NEW l \in 1 .. j, s[l] = c
            PROVE  l = p \/ l \in 1 .. p - 1
        <5>1. ~(p < l)
            BY <2>5, <4>1
        <5> QED
            BY <3>1, <3>2, <5>1
      <4>2. p \in 1 .. j /\ 1 .. p - 1 \subseteq 1 .. j
          BY <3>1, <3>2
      <4> QED
          BY <2>4, <4>1, <4>2
    <3>4. At(j) = At(p - 1) \cup {p}
        BY <3>3, Zenon DEF At
    <3> QED
        BY <3>2, <3>4 DEF At
  <2>7. Cardinality(At(p - 1) \cup {p}) = Cardinality(At(p - 1)) + 1
      BY <2>3, <2>6, FS_AddElement
  <2>8. IsFiniteSet(At(p - 1) \cup {p})
      BY <2>3, FS_AddElement
  <2> QED
      BY <2>3, <2>6, <2>7, <2>8
<1>7. \A k \in 0 .. n - 1 : k \in T
  <2>1. n - 1 \in Nat
      OBVIOUS
  <2> HIDE DEF T
  <2> QED
      BY <1>5, <1>6, <2>1, Induction
<1>8. Cardinality(At(i)) = m
    BY <1>7 DEF len
<1> QED
    BY <1>8 DEF Count, At

LEMMA CutsPlace ==
    ASSUME NEW S, NEW s \in Seq(S), NEW c, NEW n \in Nat \ {0}, NEW q \in [0 .. n -> Nat],
           Cuts(q, n, c, s), NEW m \in 0 .. n
    PROVE  Place(m, c, s) = q[m]
<1>1. /\ Len(s) \in Nat /\ q[n] = Len(s) + 1 /\ q[0] = 0
      /\ q[m] \in Nat /\ m \in Nat
    BY LenProperties DEF Cuts
<1>2. \A a, b \in 0 .. n : a < b => q[a] < q[b]
  <2>1. \A k \in 1 .. n : q[k - 1] < q[k]
      BY DEF Cuts
  <2> QED
      BY <2>1, CutsAscend
<1>3. q[m] <= Len(s) + 1
    BY <1>1, <1>2
<1>4. ASSUME NEW i \in 0 .. Len(s)
      PROVE  Count(c, s, i) < m <=> i < q[m]
  <2>1. PICK k \in 0 .. n - 1 : q[k] <= i /\ i < q[k + 1]
    <3>1. i \in 0 .. q[n] - 1
        BY <1>1
    <3>2. \A j \in 0 .. q[n] - 1 : \E l \in 0 .. n - 1 : q[l] <= j /\ j < q[l + 1]
        BY <1>1, CutsCover
    <3> QED
        BY <3>1, <3>2
  <2>2. Count(c, s, i) = k
      BY <2>1, CutsCount
  <2>3. q[k] \in Nat /\ q[k + 1] \in Nat /\ i \in Nat
      BY <1>1
  <2>4. CASE k < m
    <3>1. k + 1 = m \/ q[k + 1] < q[m]
        BY <1>2, <2>4
    <3> QED
        BY <1>1, <2>1, <2>2, <2>3, <2>4, <3>1
  <2>5. CASE m <= k
    <3>1. m = k \/ q[m] < q[k]
        BY <1>2, <2>5
    <3> QED
        BY <1>1, <2>1, <2>2, <2>3, <2>5, <3>1
  <2> QED
      BY <1>1, <2>4, <2>5
<1>5. {i \in 0 .. Len(s) : Count(c, s, i) < m} = 0 .. q[m] - 1
  <2>1. {i \in 0 .. Len(s) : Count(c, s, i) < m} = {i \in 0 .. Len(s) : i < q[m]}
      BY <1>4
  <2>2. {i \in 0 .. Len(s) : i < q[m]} = 0 .. q[m] - 1
      BY <1>1, <1>3
  <2> QED
      BY <2>1, <2>2
<1>6. Cardinality(0 .. q[m] - 1) = q[m]
  <2>1. 0 \in Int /\ q[m] - 1 \in Int
      BY <1>1
  <2>2. Cardinality(0 .. q[m] - 1) = IF 0 > q[m] - 1 THEN 0 ELSE q[m] - 1 - 0 + 1
      BY <2>1, FS_Interval
  <2> QED
      BY <1>1, <2>2
<1> QED
    BY <1>5, <1>6 DEF Place

\* The texts between the cuts of s.
Between(s, q, n) == [m \in 1 .. n |-> SubSeq(s, q[m - 1] + 1, q[m] - 1)]

\* A text falls apart where its cuts are.
LEMMA SplitAtCuts ==
    ASSUME NEW S, NEW s \in Seq(S), NEW c, NEW n \in Nat \ {0}, NEW q \in [0 .. n -> Nat],
           Cuts(q, n, c, s)
    PROVE  Split(s, c) = Between(s, q, n)
<1>1. Count(c, s, Len(s)) + 1 = n
  <2>1. /\ n - 1 \in 0 .. n - 1 /\ n - 1 + 1 = n
        /\ Len(s) \in Nat /\ Len(s) \in 0 .. Len(s) /\ q[n] = Len(s) + 1
      BY LenProperties DEF Cuts
  <2>2. q[n - 1] <= Len(s)
    <3>1. n \in 1 .. n /\ q[n - 1] \in Nat
        OBVIOUS
    <3>2. q[n - 1] < q[n]
        BY <3>1 DEF Cuts
    <3> QED
        BY <2>1, <3>1, <3>2
  <2>3. Count(c, s, Len(s)) = n - 1
      BY <2>1, <2>2, CutsCount
  <2> QED
      BY <2>3
<1>2. \A m \in 1 .. n : Place(m, c, s) = q[m] /\ Place(m - 1, c, s) = q[m - 1]
  <2> SUFFICES ASSUME NEW m \in 1 .. n
               PROVE  Place(m, c, s) = q[m] /\ Place(m - 1, c, s) = q[m - 1]
      OBVIOUS
  <2>1. m \in 0 .. n /\ m - 1 \in 0 .. n
      OBVIOUS
  <2> QED
      BY <2>1, CutsPlace
<1> QED
    BY <1>1, <1>2 DEF Split, Between

-----------------------------------------------------------------------------
(* Blanks and escapes *)

LEMMA SubText ==
    ASSUME NEW S, NEW s \in Seq(S), NEW m \in Int, NEW n \in Int, m .. n \subseteq 1 .. Len(s)
    PROVE  /\ SubSeq(s, m, n) \in Seq(S)
           /\ Len(SubSeq(s, m, n)) = IF m <= n THEN n - m + 1 ELSE 0
           /\ \A i \in 1 .. n - m + 1 : SubSeq(s, m, n)[i] = s[m + i - 1]
<1>1. \A i \in m .. n : s[i] \in S
    BY ElementOfSeq
<1> QED
    BY <1>1, SubSeqProperties

Blank(s, i, j) == \A k \in i .. j : s[k] = " "
Leading(s)     == {i \in DOMAIN s : Blank(s, 1, i)}
Kept(s)        == {i \in DOMAIN s : ~Blank(s, 1, i) /\ ~Blank(s, i, Len(s))}

LEMMA TrimRange ==
    ASSUME NEW S, NEW s \in Seq(S)
    PROVE  /\ TrimSpace(s) = SubSeq(s, Cardinality(Leading(s)) + 1,
                                       Cardinality(Leading(s)) + Cardinality(Kept(s)))
           /\ IsFiniteSet(Leading(s)) /\ Leading(s) \subseteq 1 .. Len(s)
           /\ IsFiniteSet(Kept(s)) /\ Kept(s) \subseteq 1 .. Len(s)
           /\ Cardinality(Leading(s)) \in Nat /\ Cardinality(Kept(s)) \in Nat
           /\ Cardinality(Leading(s)) + Cardinality(Kept(s)) <= Len(s)
           /\ TrimSpace(s) \in Seq(S)
<1>1. Len(s) \in Nat /\ DOMAIN s = 1 .. Len(s) /\ \A i \in 1 .. Len(s) : s[i] \in S
    BY LenProperties, ElementOfSeq
<1>2. TrimSpace(s) = SubSeq(s, Cardinality(Leading(s)) + 1,
                               Cardinality(Leading(s)) + Cardinality(Kept(s)))
    BY DEF TrimSpace, Leading, Kept, Blank
<1>3. IsFiniteSet(1 .. Len(s)) /\ Cardinality(1 .. Len(s)) = Len(s)
  <2>1. /\ IsFiniteSet(1 .. Len(s))
        /\ Cardinality(1 .. Len(s)) = IF 1 > Len(s) THEN 0 ELSE Len(s) - 1 + 1
      BY <1>1, FS_Interval
  <2> QED
      BY <1>1, <2>1
<1>4. /\ Leading(s) \subseteq 1 .. Len(s) /\ Kept(s) \subseteq 1 .. Len(s)
      /\ Leading(s) \cap Kept(s) = {}
    BY <1>1 DEF Leading, Kept
<1>5. IsFiniteSet(Leading(s)) /\ IsFiniteSet(Kept(s))
    BY <1>3, <1>4, FS_Subset
<1>6. Cardinality(Leading(s)) \in Nat /\ Cardinality(Kept(s)) \in Nat
    BY <1>5, FS_CardinalityType
<1>7. Cardinality(Leading(s)) + Cardinality(Kept(s)) <= Len(s)
  <2>1. Cardinality(Leading(s) \cup Kept(s))
          = Cardinality(Leading(s)) + Cardinality(Kept(s)) - Cardinality(Leading(s) \cap Kept(s))
      BY <1>5, FS_Union
  <2>2. Cardinality(Leading(s) \cap Kept(s)) = 0
      BY <1>4, FS_EmptySet
  <2>3. Leading(s) \cup Kept(s) \in SUBSET (1 .. Len(s))
      BY <1>4
  <2>4. Cardinality(Leading(s) \cup Kept(s)) <= Len(s)
      BY <1>3, <2>3, FS_Subset
  <2> QED
      BY <1>1, <1>6, <2>1, <2>2, <2>4
<1>8. TrimSpace(s) \in Seq(S)
  <2> DEFINE m == Cardinality(Leading(s)) + 1
             n == Cardinality(Leading(s)) + Cardinality(Kept(s))
  <2>1. m \in Int /\ n \in Int /\ m .. n \subseteq 1 .. Len(s)
      BY <1>1, <1>6, <1>7
  <2>2. \A i \in m .. n : s[i] \in S
      BY <1>1, <2>1
  <2> HIDE DEF m, n
  <2>3. SubSeq(s, m, n) \in Seq(S)
      BY <2>1, <2>2, SubSeqProperties
  <2> QED
      BY <1>2, <2>3 DEF m, n
<1> QED
    BY <1>2, <1>4, <1>5, <1>6, <1>7, <1>8

LEMMA MovedUp ==
    ASSUME NEW A, IsFiniteSet(A), A \subseteq Nat
    PROVE  /\ IsFiniteSet({i + 1 : i \in A})
           /\ Cardinality({i + 1 : i \in A}) = Cardinality(A)
<1> DEFINE B == {i + 1 : i \in A}
           f == [i \in A |-> i + 1]
<1>1. f \in Bijection(A, B)
  <2>1. f \in [A -> B] /\ \A i \in A : f[i] = i + 1
      OBVIOUS
  <2>2. \A i, j \in A : f[i] = f[j] => i = j
      BY <2>1
  <2>3. \A b \in B : \E i \in A : f[i] = b
      OBVIOUS
  <2> HIDE DEF f, B
  <2> QED
      BY <2>1, <2>2, <2>3 DEF Bijection, Injection, Surjection, IsInjective
<1>2. ExistsBijection(A, B)
    BY <1>1 DEF ExistsBijection
<1> HIDE DEF B
<1>3. IsFiniteSet(B) /\ Cardinality(B) = Cardinality(A)
    BY <1>2, FS_Bijection
<1> QED
    BY <1>3 DEF B

\* u is s with a blank in front.
BlankBefore(u, s) ==
    /\ Len(u) = Len(s) + 1
    /\ u[1] = " "
    /\ \A i \in 1 .. Len(s) : u[i + 1] = s[i]

\* A blank in front is trimmed.
LEMMA TrimBlank ==
    ASSUME NEW S, NEW s \in Seq(S), NEW u \in Seq(S), BlankBefore(u, s)
    PROVE  TrimSpace(u) = TrimSpace(s)
<1> DEFINE len == Len(s)
           lead == Cardinality(Leading(s))
           kept == Cardinality(Kept(s))
<1>1. len \in Nat /\ DOMAIN s = 1 .. len /\ DOMAIN u = 1 .. len + 1 /\ Len(u) = len + 1
    BY LenProperties DEF BlankBefore
<1>2. ASSUME NEW k \in 2 .. len + 1
      PROVE  u[k] = s[k - 1] /\ k - 1 \in 1 .. len
  <2>1. k - 1 \in 1 .. Len(s) /\ (k - 1) + 1 = k
      BY <1>1
  <2>2. u[(k - 1) + 1] = s[k - 1]
      BY <2>1 DEF BlankBefore
  <2> QED
      BY <2>1, <2>2
<1> HIDE DEF len
<1>3. ASSUME NEW i \in 1 .. len
      PROVE  /\ Blank(u, 1, i + 1) <=> Blank(s, 1, i)
             /\ Blank(u, i + 1, len + 1) <=> Blank(s, i, len)
  <2>1. \A k \in 1 .. len : u[k + 1] = s[k]
      BY DEF len, BlankBefore
  <2>2. ASSUME Blank(u, 1, i + 1) PROVE Blank(s, 1, i)
    <3> SUFFICES ASSUME NEW k \in 1 .. i PROVE s[k] = " "
        BY DEF Blank
    <3>1. k \in 1 .. len /\ k + 1 \in 1 .. i + 1
        BY <1>1
    <3> QED
        BY <2>1, <2>2, <3>1 DEF Blank
  <2>3. ASSUME Blank(s, 1, i) PROVE Blank(u, 1, i + 1)
    <3> SUFFICES ASSUME NEW k \in 1 .. i + 1 PROVE u[k] = " "
        BY DEF Blank
    <3>1. CASE k = 1
        BY <3>1 DEF BlankBefore
    <3>2. CASE k # 1
      <4>1. k \in 2 .. len + 1 /\ k - 1 \in 1 .. i
          BY <1>1, <3>2
      <4> QED
          BY <1>2, <2>3, <4>1 DEF Blank
    <3> QED
        BY <3>1, <3>2
  <2>4. ASSUME Blank(u, i + 1, len + 1) PROVE Blank(s, i, len)
    <3> SUFFICES ASSUME NEW k \in i .. len PROVE s[k] = " "
        BY DEF Blank
    <3>1. k \in 1 .. len /\ k + 1 \in i + 1 .. len + 1
        BY <1>1
    <3> QED
        BY <2>1, <2>4, <3>1 DEF Blank
  <2>5. ASSUME Blank(s, i, len) PROVE Blank(u, i + 1, len + 1)
    <3> SUFFICES ASSUME NEW k \in i + 1 .. len + 1 PROVE u[k] = " "
        BY DEF Blank
    <3>1. k \in 2 .. len + 1 /\ k - 1 \in i .. len
        BY <1>1
    <3> QED
        BY <1>2, <2>5, <3>1 DEF Blank
  <2> QED
      BY <2>2, <2>3, <2>4, <2>5
<1>4. Blank(u, 1, 1)
  <2>1. u[1] = " "
      BY Zenon DEF BlankBefore
  <2>2. \A k \in 1 .. 1 : k = 1
      OBVIOUS
  <2> QED
      BY <2>1, <2>2 DEF Blank
<1>5. /\ \A i : i \in Leading(s) <=> i \in 1 .. len /\ Blank(s, 1, i)
      /\ \A i : i \in Leading(u) <=> i \in 1 .. len + 1 /\ Blank(u, 1, i)
      /\ \A i : i \in Kept(s) <=> i \in 1 .. len /\ ~Blank(s, 1, i) /\ ~Blank(s, i, len)
      /\ \A i : i \in Kept(u) <=> i \in 1 .. len + 1 /\ ~Blank(u, 1, i) /\ ~Blank(u, i, len + 1)
    BY <1>1, Zenon DEF Leading, Kept, len
<1>6. Leading(u) = {i + 1 : i \in Leading(s)} \cup {1}
  <2>1. ASSUME NEW i \in Leading(u), i # 1
        PROVE  i - 1 \in Leading(s) /\ i = (i - 1) + 1
    <3>1. i \in 1 .. len + 1 /\ Blank(u, 1, i) /\ i - 1 \in 1 .. len /\ (i - 1) + 1 = i
        BY <1>1, <1>5, <2>1
    <3> QED
        BY <1>3, <1>5, <3>1
  <2>2. ASSUME NEW i \in Leading(s)
        PROVE  i + 1 \in Leading(u)
    <3>1. i \in 1 .. len /\ Blank(s, 1, i) /\ i + 1 \in 1 .. len + 1
        BY <1>1, <1>5
    <3> QED
        BY <1>3, <1>5, <3>1
  <2>3. 1 \in Leading(u)
      BY <1>1, <1>4, <1>5
  <2> QED
      BY <2>1, <2>2, <2>3
<1>7. Kept(u) = {i + 1 : i \in Kept(s)}
  <2>1. ASSUME NEW i \in Kept(u)
        PROVE  i - 1 \in Kept(s) /\ i = (i - 1) + 1
    <3>1. i # 1
        BY <1>4, <1>5
    <3>2. /\ i \in 1 .. len + 1 /\ ~Blank(u, 1, i) /\ ~Blank(u, i, len + 1)
          /\ i - 1 \in 1 .. len /\ (i - 1) + 1 = i
        BY <1>1, <1>5, <3>1
    <3> QED
        BY <1>3, <1>5, <3>2
  <2>2. ASSUME NEW i \in Kept(s)
        PROVE  i + 1 \in Kept(u)
    <3>1. /\ i \in 1 .. len /\ ~Blank(s, 1, i) /\ ~Blank(s, i, len)
          /\ i + 1 \in 1 .. len + 1
        BY <1>1, <1>5
    <3> QED
        BY <1>3, <1>5, <3>1
  <2> QED
      BY <2>1, <2>2
<1>8. /\ lead \in Nat /\ kept \in Nat /\ lead + kept <= len
      /\ IsFiniteSet(Leading(s)) /\ IsFiniteSet(Kept(s))
      /\ Leading(s) \subseteq 1 .. len /\ Kept(s) \subseteq 1 .. len
    BY TrimRange DEF len
<1>9. Cardinality(Kept(u)) = kept
  <2> DEFINE up == {i + 1 : i \in Kept(s)}
  <2>1. IsFiniteSet(up) /\ Cardinality(up) = kept
    <3>1. IsFiniteSet(Kept(s)) /\ Kept(s) \subseteq Nat
        BY <1>8
    <3> QED
        BY <3>1, MovedUp
  <2>2. Kept(u) = up
      BY <1>7
  <2> HIDE DEF up
  <2> QED
      BY <2>1, <2>2
<1>10. Cardinality(Leading(u)) = lead + 1
  <2> DEFINE up == {i + 1 : i \in Leading(s)}
  <2>1. IsFiniteSet(up) /\ Cardinality(up) = lead
    <3>1. IsFiniteSet(Leading(s)) /\ Leading(s) \subseteq Nat
        BY <1>8
    <3> QED
        BY <3>1, MovedUp
  <2>2. 1 \notin up
      BY <1>8
  <2>3. Leading(u) = up \cup {1}
      BY <1>6
  <2> HIDE DEF up
  <2>4. Cardinality(up \cup {1}) = Cardinality(up) + 1
      BY <2>1, <2>2, FS_AddElement
  <2> QED
      BY <2>1, <2>3, <2>4
<1> HIDE DEF lead, kept
<1>11. /\ TrimSpace(u) = SubSeq(u, lead + 2, lead + 1 + kept)
       /\ TrimSpace(s) = SubSeq(s, lead + 1, lead + kept)
  <2>1. lead + 1 + 1 = lead + 2
      BY <1>8
  <2> QED
      BY <1>9, <1>10, <2>1, TrimRange DEF lead, kept
<1>12. SubSeq(u, lead + 2, lead + 1 + kept) = SubSeq(s, lead + 1, lead + kept)
  <2> DEFINE m == lead + 1
             n == lead + kept
             k == lead + 2
             l == lead + 1 + kept
             a == SubSeq(u, k, l)
             b == SubSeq(s, m, n)
  <2>1. /\ m .. n \subseteq 1 .. len /\ k .. l \subseteq 1 .. len + 1
        /\ m \in Int /\ n \in Int /\ k \in Int /\ l \in Int
        /\ n - m + 1 = kept /\ l - k + 1 = kept /\ k = m + 1 /\ m \in Nat /\ kept \in Nat
        /\ (m <= n <=> kept # 0) /\ (k <= l <=> kept # 0)
      BY <1>1, <1>8
  <2> HIDE DEF m, n, k, l
  <2>2. k \in Int /\ l \in Int /\ k .. l \subseteq 1 .. Len(u)
      BY <1>1, <2>1
  <2>3. /\ a \in Seq(S)
        /\ Len(a) = IF k <= l THEN l - k + 1 ELSE 0
        /\ \A i \in 1 .. l - k + 1 : a[i] = u[k + i - 1]
      BY <2>2, SubText
  <2>4. /\ b \in Seq(S)
        /\ Len(b) = IF m <= n THEN n - m + 1 ELSE 0
        /\ \A i \in 1 .. n - m + 1 : b[i] = s[m + i - 1]
      BY <1>1, <2>1, SubText DEF len
  <2> HIDE DEF a, b
  <2>5. Len(a) = kept /\ Len(b) = kept
      BY <2>1, <2>3, <2>4
  <2>6. ASSUME NEW i \in 1 .. kept
        PROVE  a[i] = b[i]
    <3>1. m + i - 1 \in m .. n /\ k + i - 1 = (m + i - 1) + 1
        BY <2>1
    <3>2. m + i - 1 \in 1 .. Len(s)
        BY <2>1, <3>1 DEF len
    <3>3. a[i] = u[(m + i - 1) + 1] /\ b[i] = s[m + i - 1]
        BY <2>1, <2>3, <2>4, <3>1
    <3> QED
        BY <3>2, <3>3 DEF BlankBefore
  <2>7. a = b
      BY <2>3, <2>4, <2>5, <2>6, SeqEqual
  <2> QED
      BY <2>7 DEF a, b, m, n, k, l
<1> QED
    BY <1>11, <1>12

\* The characters of headers and of what is hashed.
Glyph == Char \cup {" ", "=", ";", "+", "%", "%20", "%3D", "%3B", "%2B", "%25", "[", "]"}

LEMMA EscapedGlyph ==
    ASSUME NEW c
    PROVE  /\ Escaped(c) # " " /\ Escaped(c) # "=" /\ Escaped(c) # ";" /\ Escaped(c) # "%"
           /\ c \notin {"%20", "%3D", "%3B", "%2B", "%25"} => Unescaped(Escaped(c)) = c
           /\ c \in Glyph => Escaped(c) \in Glyph /\ Unescaped(c) \in Glyph
BY DEF Escaped, Unescaped, Glyph

LEMMA EscapedText ==
    ASSUME NEW s \in Seq(Glyph)
    PROVE  /\ QueryEscape(s) \in Seq(Glyph) /\ Len(QueryEscape(s)) = Len(s)
           /\ QueryUnescape(s) \in Seq(Glyph) /\ Len(QueryUnescape(s)) = Len(s)
           /\ \A i \in 1 .. Len(s) : /\ QueryEscape(s)[i] = Escaped(s[i])
                                     /\ QueryUnescape(s)[i] = Unescaped(s[i])
<1>1. Len(s) \in Nat /\ DOMAIN s = 1 .. Len(s) /\ \A i \in 1 .. Len(s) : s[i] \in Glyph
    BY LenProperties, ElementOfSeq
<1>2. /\ QueryEscape(s) \in [1 .. Len(s) -> Glyph]
      /\ QueryUnescape(s) \in [1 .. Len(s) -> Glyph]
    BY <1>1, EscapedGlyph DEF QueryEscape, QueryUnescape
<1>3. \A t : t \in [1 .. Len(s) -> Glyph] => t \in Seq(Glyph) /\ Len(t) = Len(s)
    BY <1>1
<1>4. \A i \in 1 .. Len(s) : /\ QueryEscape(s)[i] = Escaped(s[i])
                             /\ QueryUnescape(s)[i] = Unescaped(s[i])
    BY <1>1 DEF QueryEscape, QueryUnescape
<1> QED
    BY <1>2, <1>3, <1>4

LEMMA EscapeBack ==
    ASSUME NEW s \in Seq(Glyph), Raw(s)
    PROVE  QueryUnescape(QueryEscape(s)) = s
<1>1. Len(s) \in Nat /\ DOMAIN s = 1 .. Len(s)
    BY LenProperties
<1> DEFINE e == QueryEscape(s)
           u == QueryUnescape(e)
<1>2. e \in Seq(Glyph) /\ Len(e) = Len(s) /\ \A i \in 1 .. Len(s) : e[i] = Escaped(s[i])
    BY EscapedText
<1> HIDE DEF e
<1>3. u \in Seq(Glyph) /\ Len(u) = Len(s) /\ \A i \in 1 .. Len(s) : u[i] = Unescaped(e[i])
    BY <1>2, EscapedText
<1> HIDE DEF u
<1>4. \A i \in 1 .. Len(s) : Unescaped(Escaped(s[i])) = s[i]
    BY <1>1, EscapedGlyph DEF Raw
<1>5. \A i \in 1 .. Len(s) : u[i] = s[i]
    BY <1>2, <1>3, <1>4
<1>6. u = s
    BY <1>3, <1>5, SeqEqual
<1> QED
    BY <1>6 DEF u, e

LEMMA FirstPlace ==
    ASSUME NEW S, NEW s \in Seq(S), NEW c, NEW e \in 1 .. Len(s),
           s[e] = c, \A i \in 1 .. e - 1 : s[i] # c
    PROVE  Place(1, c, s) = e
<1>1. Len(s) \in Nat
    BY LenProperties
<1>2. ASSUME NEW i \in 0 .. Len(s)
      PROVE  Count(c, s, i) < 1 <=> i < e
  <2> DEFINE A == {j \in 1 .. i : s[j] = c}
  <2>1. IsFiniteSet(A) /\ Cardinality(A) \in Nat
    <3>1. IsFiniteSet(1 .. i)
        BY FS_Interval
    <3> QED
        BY <3>1, FS_Subset, FS_CardinalityType
  <2>2. Cardinality(A) = 0 <=> A = {}
      BY <2>1, FS_EmptySet
  <2>3. i < e => A = {}
    <3> SUFFICES ASSUME i < e, NEW j \in 1 .. i PROVE s[j] # c
        OBVIOUS
    <3>1. j \in 1 .. e - 1
        BY <1>1
    <3> QED
        BY <3>1
  <2>4. ~(i < e) => e \in A
    <3>1. ~(i < e) => e \in 1 .. i
        BY <1>1
    <3> QED
        BY <3>1
  <2> HIDE DEF A
  <2>5. Cardinality(A) < 1 <=> i < e
      BY <2>1, <2>2, <2>3, <2>4
  <2> QED
      BY <2>5, Zenon DEF Count, A
<1>3. {i \in 0 .. Len(s) : Count(c, s, i) < 1} = {i \in 0 .. Len(s) : i < e}
    BY <1>2
<1>4. {i \in 0 .. Len(s) : i < e} = 0 .. e - 1
    BY <1>1
<1>5. Cardinality(0 .. e - 1) = e
  <2>1. 0 \in Int /\ e - 1 \in Int
      BY <1>1
  <2>2. Cardinality(0 .. e - 1) = IF 0 > e - 1 THEN 0 ELSE e - 1 - 0 + 1
      BY <2>1, FS_Interval
  <2> QED
      BY <1>1, <2>2
<1> QED
    BY <1>3, <1>4, <1>5 DEF Place

\* A text with a piece in its middle.
LEMMA MiddlePiece ==
    ASSUME NEW S, NEW a \in Seq(S), NEW b \in Seq(S), NEW t \in Seq(S)
    PROVE  SubSeq(a \o (b \o t), Len(a) + 1, Len(a) + Len(b)) = b
<1> DEFINE s == a \o (b \o t)
           la == Len(a)
           lb == Len(b)
           m == la + 1
           n == la + lb
           p == SubSeq(s, m, n)
<1>1. la \in Nat /\ lb \in Nat /\ Len(t) \in Nat
    BY LenProperties
<1>2. /\ b \o t \in Seq(S) /\ Len(b \o t) = lb + Len(t)
      /\ \A i \in 1 .. lb + Len(t) : (b \o t)[i] = IF i <= lb THEN b[i] ELSE t[i - lb]
    BY ConcatProperties
<1>3. /\ s \in Seq(S) /\ Len(s) = la + Len(b \o t)
      /\ \A i \in 1 .. la + Len(b \o t) : s[i] = IF i <= la THEN a[i] ELSE (b \o t)[i - la]
    BY <1>2, ConcatProperties
<1>4. ASSUME NEW i \in 1 .. lb
      PROVE  s[la + i] = b[i]
  <2>1. /\ la + i \in 1 .. la + Len(b \o t) /\ ~(la + i <= la) /\ la + i - la = i
        /\ i \in 1 .. lb + Len(t) /\ i <= lb
      BY <1>1, <1>2
  <2>2. (b \o t)[i] = b[i]
      BY <1>2, <2>1
  <2>3. s[la + i] = (b \o t)[la + i - la]
      BY <1>3, <2>1
  <2> QED
      BY <2>1, <2>2, <2>3
<1>5. Len(s) = la + lb + Len(t)
    BY <1>1, <1>2, <1>3
<1> HIDE DEF s, la, lb
<1>6. /\ m \in Int /\ n \in Int /\ m .. n \subseteq 1 .. Len(s) /\ n - m + 1 = lb
      /\ (m <= n <=> lb # 0) /\ \A i \in 1 .. lb : m + i - 1 = la + i
    BY <1>1, <1>5
<1> HIDE DEF m, n
<1>7. /\ p \in Seq(S)
      /\ Len(p) = IF m <= n THEN n - m + 1 ELSE 0
      /\ \A i \in 1 .. n - m + 1 : p[i] = s[m + i - 1]
    BY <1>3, <1>6, SubText
<1> HIDE DEF p
<1>8. Len(p) = lb /\ \A i \in 1 .. lb : p[i] = s[la + i]
    BY <1>1, <1>6, <1>7
<1>9. p = b
    BY <1>4, <1>7, <1>8, SeqEqual DEF lb
<1> QED
    BY <1>9 DEF p, m, n, s, la, lb

LEMMA EndPieces ==
    ASSUME NEW S, NEW a \in Seq(S), NEW b \in Seq(S)
    PROVE  /\ SubSeq(a \o b, 1, Len(a)) = a
           /\ SubSeq(a \o b, Len(a) + 1, Len(a) + Len(b)) = b
<1>1. <<>> \in Seq(S) /\ Len(<<>>) = 0 /\ Len(a) \in Nat
    BY EmptySeq, LenProperties
<1>2. SubSeq(<<>> \o (a \o b), Len(<<>>) + 1, Len(<<>>) + Len(a)) = a
    BY <1>1, MiddlePiece
<1>3. <<>> \o (a \o b) = a \o b /\ b \o <<>> = b
    BY ConcatEmptySeq, ConcatProperties
<1>4. SubSeq(a \o (b \o <<>>), Len(a) + 1, Len(a) + Len(b)) = b
    BY <1>1, MiddlePiece
<1> QED
    BY <1>1, <1>2, <1>3, <1>4

LEMMA ContainsConcat ==
    ASSUME NEW S, NEW a \in Seq(S), NEW b \in Seq(S), NEW c
    PROVE  Contains(a \o b, c) <=> Contains(a, c) \/ Contains(b, c)
<1>1. Len(a) \in Nat /\ Len(b) \in Nat
    BY LenProperties
<1>2. /\ Len(a \o b) = Len(a) + Len(b)
      /\ \A i \in 1 .. Len(a) + Len(b) :
            (a \o b)[i] = IF i <= Len(a) THEN a[i] ELSE b[i - Len(a)]
    BY ConcatProperties
<1>3. ASSUME Contains(a \o b, c) PROVE Contains(a, c) \/ Contains(b, c)
  <2>1. PICK i \in 1 .. Len(a) + Len(b) : (a \o b)[i] = c
      BY <1>2, <1>3 DEF Contains
  <2>2. CASE i <= Len(a)
    <3>1. i \in 1 .. Len(a) /\ a[i] = c
        BY <1>1, <1>2, <2>1, <2>2
    <3> QED
        BY <3>1 DEF Contains
  <2>3. CASE ~(i <= Len(a))
    <3>1. i - Len(a) \in 1 .. Len(b) /\ b[i - Len(a)] = c
        BY <1>1, <1>2, <2>1, <2>3
    <3> QED
        BY <3>1 DEF Contains
  <2> QED
      BY <2>2, <2>3
<1>4. ASSUME Contains(a, c) PROVE Contains(a \o b, c)
  <2>1. PICK i \in 1 .. Len(a) : a[i] = c
      BY <1>4 DEF Contains
  <2>2. i \in 1 .. Len(a \o b) /\ (a \o b)[i] = c
      BY <1>1, <1>2, <2>1
  <2> QED
      BY <2>2 DEF Contains
<1>5. ASSUME Contains(b, c) PROVE Contains(a \o b, c)
  <2>1. PICK i \in 1 .. Len(b) : b[i] = c
      BY <1>5 DEF Contains
  <2>2. PICK j \in 1 .. Len(a) + Len(b) : ~(j <= Len(a)) /\ j - Len(a) = i
    <3>1. /\ Len(a) + i \in 1 .. Len(a) + Len(b)
          /\ ~(Len(a) + i <= Len(a)) /\ Len(a) + i - Len(a) = i
        BY <1>1
    <3> QED
        BY <3>1
  <2>3. (a \o b)[j] = c
      BY <1>2, <2>1, <2>2
  <2> QED
      BY <1>2, <2>3 DEF Contains
<1> QED
    BY <1>3, <1>4, <1>5

LEMMA OneGlyph ==
    ASSUME NEW S, NEW d \in S
    PROVE  /\ <<d>> \in Seq(S) /\ Len(<<d>>) = 1 /\ <<d>>[1] = d
           /\ \A c : Contains(<<d>>, c) <=> c = d
<1>1. <<d>> \in Seq(S) /\ Len(<<d>>) = 1 /\ <<d>>[1] = d
    OBVIOUS
<1>2. \A i : i \in 1 .. 1 <=> i = 1
    OBVIOUS
<1>3. ASSUME NEW c PROVE Contains(<<d>>, c) <=> c = d
    BY <1>1, <1>2, Zenon DEF Contains
<1> QED
    BY <1>1, <1>3

\* A cookie's part of a header is read as its name and its value.
LEMMA ParsePart ==
    ASSUME NEW a \in Seq(Glyph), NEW b \in Seq(Glyph), ~Contains(a, "=")
    PROVE  ParseCookie(a \o (<<"=">> \o b))
             = <<TrimSpace(QueryUnescape(a)), TrimSpace(QueryUnescape(b))>>
<1> DEFINE sep == <<"=">>
           s == a \o (sep \o b)
           e == Len(a) + 1
<1>1. "=" \in Glyph
    BY DEF Glyph
<1>2. sep \in Seq(Glyph) /\ Len(sep) = 1 /\ sep[1] = "="
    BY <1>1, OneGlyph
<1> HIDE DEF sep
<1>3. Len(a) \in Nat /\ Len(b) \in Nat
    BY LenProperties
<1>4. /\ sep \o b \in Seq(Glyph) /\ Len(sep \o b) = 1 + Len(b)
      /\ (sep \o b)[1] = "="
  <2>1. /\ sep \o b \in Seq(Glyph) /\ Len(sep \o b) = Len(sep) + Len(b)
        /\ \A i \in 1 .. Len(sep) + Len(b) :
              (sep \o b)[i] = IF i <= Len(sep) THEN sep[i] ELSE b[i - Len(sep)]
      BY <1>2, ConcatProperties
  <2>2. 1 \in 1 .. Len(sep) + Len(b) /\ 1 <= Len(sep)
      BY <1>2, <1>3
  <2> QED
      BY <1>2, <2>1, <2>2
<1>5. /\ s \in Seq(Glyph) /\ Len(s) = Len(a) + (1 + Len(b))
      /\ \A i \in 1 .. Len(a) + (1 + Len(b)) :
            s[i] = IF i <= Len(a) THEN a[i] ELSE (sep \o b)[i - Len(a)]
  <2> DEFINE r == sep \o b
  <2>1. r \in Seq(Glyph)
      BY <1>4
  <2>2. Len(r) = 1 + Len(b)
      BY <1>4
  <2> HIDE DEF r
  <2>3. /\ a \o r \in Seq(Glyph) /\ Len(a \o r) = Len(a) + Len(r)
        /\ \A i \in 1 .. Len(a) + Len(r) :
              (a \o r)[i] = IF i <= Len(a) THEN a[i] ELSE r[i - Len(a)]
      BY <2>1, ConcatProperties
  <2> QED
      BY <2>2, <2>3 DEF r
<1>6. Place(1, "=", s) = e
  <2>1. /\ e \in 1 .. Len(a) + (1 + Len(b)) /\ ~(e <= Len(a)) /\ e - Len(a) = 1
        /\ e - 1 = Len(a)
      BY <1>3
  <2>2. s[e] = "="
      BY <1>4, <1>5, <2>1
  <2>3. ASSUME NEW i \in 1 .. e - 1 PROVE s[i] # "="
    <3>1. i \in 1 .. Len(a) /\ i <= Len(a) /\ i \in 1 .. Len(a) + (1 + Len(b))
        BY <1>3
    <3>2. s[i] = a[i]
        BY <1>5, <3>1
    <3>3. a[i] # "="
        BY <3>1 DEF Contains
    <3> QED
        BY <3>2, <3>3
  <2>4. e \in 1 .. Len(s)
      BY <1>5, <2>1
  <2> HIDE DEF s, e
  <2> QED
      BY <1>5, <2>2, <2>3, <2>4, FirstPlace
<1>7. SubSeq(s, 1, e - 1) = a
  <2>1. e - 1 = Len(a)
      BY <1>3
  <2> QED
      BY <1>4, <2>1, EndPieces
<1>8. SubSeq(s, e + 1, Len(s)) = b
  <2>1. s = (a \o sep) \o b /\ a \o sep \in Seq(Glyph)
      BY <1>2, ConcatAssociative, ConcatProperties
  <2>2. Len(a \o sep) = e
    <3>1. Len(a \o sep) = Len(a) + Len(sep)
        BY <1>2, ConcatProperties
    <3> QED
        BY <1>2, <3>1
  <2>3. SubSeq((a \o sep) \o b, Len(a \o sep) + 1, Len(a \o sep) + Len(b)) = b
      BY <2>1, EndPieces
  <2>4. e + Len(b) = Len(s)
      BY <1>3, <1>5
  <2> QED
      BY <2>1, <2>2, <2>3, <2>4
<1>9. ParseCookie(s) = <<TrimSpace(QueryUnescape(a)), TrimSpace(QueryUnescape(b))>>
    BY <1>6, <1>7, <1>8 DEF ParseCookie
<1> QED
    BY <1>9 DEF s, sep

LEMMA Joined ==
    ASSUME NEW S, NEW a \in Seq(S), NEW b \in Seq(S)
    PROVE  /\ a \o b \in Seq(S)
           /\ Len(a \o b) = Len(a) + Len(b) /\ Len(a) \in Nat /\ Len(b) \in Nat
    BY ConcatProperties, LenProperties

\* One text after another, for steps that need not look into it.
Cat(s, t) == s \o t

LEMMA CatThree ==
    ASSUME NEW S, NEW a \in Seq(S), NEW b \in Seq(S), NEW c \in Seq(S)
    PROVE  /\ Cat(a, b) \in Seq(S)
           /\ Cat(Cat(a, b), c) = Cat(a, Cat(b, c))
    BY ConcatAssociative DEF Cat

LEMMA CatContains ==
    ASSUME NEW S, NEW a \in Seq(S), NEW b \in Seq(S), NEW c
    PROVE  Contains(Cat(a, b), c) <=> Contains(a, c) \/ Contains(b, c)
    BY ContainsConcat, Zenon DEF Cat

LEMMA CatSpaceless ==
    ASSUME NEW S, NEW a \in Seq(S), NEW b \in Seq(S), ~Contains(a, " "), ~Contains(b, " ")
    PROVE  ~Contains(Cat(a, b), " ")
    BY CatContains, Zenon

LEMMA CatFour ==
    ASSUME NEW S, NEW a \in Seq(S), NEW b \in Seq(S), NEW c \in Seq(S), NEW d \in Seq(S)
    PROVE  Cat(Cat(Cat(a, b), c), d) = Cat(a, Cat(b, Cat(c, d)))
<1>1. Cat(a, b) \in Seq(S) /\ Cat(c, d) \in Seq(S)
    BY CatThree
<1>2. Cat(Cat(Cat(a, b), c), d) = Cat(Cat(a, b), Cat(c, d))
    BY <1>1, CatThree
<1>3. Cat(Cat(a, b), Cat(c, d)) = Cat(a, Cat(b, Cat(c, d)))
    BY <1>1, CatThree
<1> QED
    BY <1>2, <1>3

\* seqs are pieces without c, with a c before each but the first.
Joins(seqs, pieces, c) ==
    /\ Len(seqs) = Len(pieces)
    /\ \A i \in 1 .. Len(pieces) : seqs[i] = IF i = 1 THEN pieces[i] ELSE <<c>> \o pieces[i]
    /\ \A i \in 1 .. Len(pieces) : ~Contains(pieces[i], c)

\* A text that is put together with c falls apart into what it was made from.
LEMMA JoinSplit ==
    ASSUME NEW S, NEW c \in S, NEW seqs \in Seq(Seq(S)), NEW pieces \in Seq(Seq(S)),
           pieces # <<>>, Joins(seqs, pieces, c)
    PROVE  Split(FlattenSeq(seqs), c) = pieces
<1> DEFINE n == Len(pieces)
           X == Seq(S)
           all == FlattenSeq(seqs)
<1>1. /\ n \in Nat \ {0} /\ Len(seqs) = n
      /\ \A i \in 1 .. n : seqs[i] \in X /\ pieces[i] \in X
  <2>1. Len(seqs) = n
      BY DEF Joins
  <2> QED
      BY <2>1, EmptySeq, ElementOfSeq
<1>2. /\ seqs[1] = pieces[1]
      /\ \A i \in 2 .. n : seqs[i] = <<c>> \o pieces[i]
  <2>1. 1 \in 1 .. n /\ \A i \in 2 .. n : i \in 1 .. n /\ i # 1
      BY <1>1
  <2> QED
      BY <2>1, Zenon DEF Joins
<1>3. PICK w \in [0 .. n -> X] : Flattens(w, seqs)
    BY <1>1, FlattenSteps
<1>4. /\ w[0] = <<>> /\ all = w[n]
      /\ \A k \in 1 .. n : w[k] = w[k - 1] \o seqs[k]
    BY <1>1, <1>3, Zenon DEF Flattens
<1>5. /\ \A k \in 0 .. n : w[k] \in X /\ Len(w[k]) \in Nat
      /\ \A k \in 1 .. n : k - 1 \in 0 .. n
  <2>1. \A k \in 0 .. n : w[k] \in X
      BY <1>3
  <2> QED
      BY <1>1, <2>1, LenProperties
<1>6. w[1] = pieces[1] /\ Len(w[0]) = 0
  <2>1. 1 \in 1 .. n /\ 1 - 1 = 0
      BY <1>1
  <2>2. w[1] = <<>> \o seqs[1] /\ seqs[1] \in X
      BY <1>1, <1>4, <2>1, Zenon
  <2> QED
      BY <1>2, <1>4, <2>2, ConcatEmptySeq, EmptySeq
<1>7. ASSUME NEW j \in 1 .. n - 1, NEW k \in 2 .. n, k = j + 1
      PROVE  /\ w[j] \o <<c>> \in X /\ Len(w[j] \o <<c>>) = Len(w[j]) + 1
             /\ w[k] = (w[j] \o <<c>>) \o pieces[k]
             /\ Len(w[k]) = Len(w[j]) + 1 + Len(pieces[k])
             /\ Len(pieces[k]) \in Nat
  <2>1. k \in 1 .. n /\ k - 1 = j /\ w[j] \in X /\ pieces[k] \in X
      BY <1>1, <1>5, <1>7
  <2>2. <<c>> \in X /\ Len(<<c>>) = 1
      BY OneGlyph
  <2>3. w[k] = w[j] \o (<<c>> \o pieces[k])
      BY <1>2, <1>4, <2>1, Zenon
  <2> DEFINE v == w[j]
             p == pieces[k]
             d == <<c>>
  <2>4. v \in X /\ p \in X /\ d \in X
      BY <2>1, <2>2
  <2> HIDE DEF v, p, d
  <2>5. (v \o d) \o p = v \o (d \o p)
    <3>1. v \in Seq(S) /\ d \in Seq(S) /\ p \in Seq(S)
        BY <2>4
    <3>2. Cat(Cat(v, d), p) = Cat(v, Cat(d, p))
        BY <3>1, CatThree
    <3> QED
        BY <3>2, Zenon DEF Cat
  <2>6. v \o d \in X /\ Len(v \o d) = Len(v) + Len(d)
      BY <2>4, Joined
  <2>7. Len((v \o d) \o p) = Len(v \o d) + Len(p) /\ Len(p) \in Nat
      BY <2>4, <2>6, Joined
  <2>8. w[k] = (v \o d) \o p
      BY <2>3, <2>5 DEF v, p, d
  <2>9. Len(d) = 1
      BY <2>2 DEF d
  <2>10. Len(w[k]) = Len(v) + 1 + Len(p) /\ Len(v \o d) = Len(v) + 1
      BY <2>6, <2>7, <2>8, <2>9
  <2> QED
      BY <2>6, <2>7, <2>8, <2>10 DEF v, p, d
<1>8. ASSUME NEW k \in 0 .. n
      PROVE  \E t \in X : all = w[k] \o t
  <2>1. k \in 0 .. Len(seqs) /\ w \in [0 .. Len(seqs) -> Seq(S)]
      BY <1>1
  <2> HIDE DEF n
  <2> QED
      BY <1>3, <2>1, FlattenRest, Zenon
<1> DEFINE q == [k \in 0 .. n |-> IF k = 0 THEN 0 ELSE Len(w[k]) + 1]
<1>9. /\ q \in [0 .. n -> Nat] /\ q[0] = 0
      /\ \A k \in 1 .. n : q[k] = Len(w[k]) + 1
    BY <1>1, <1>5
<1> HIDE DEF q, n, X, all
<1>10. \A m \in 1 .. n : q[m - 1] < q[m]
  <2> SUFFICES ASSUME NEW m \in 1 .. n PROVE q[m - 1] < q[m]
      OBVIOUS
  <2>1. CASE m = 1
    <3>1. q[m] = Len(w[m]) + 1 /\ Len(w[m]) \in Nat /\ q[m - 1] = 0
        BY <1>1, <1>5, <1>9, <2>1
    <3> QED
        BY <3>1
  <2>2. CASE m # 1
    <3>1. m \in 2 .. n /\ m - 1 \in 1 .. n
        BY <1>1, <2>2
    <3>2. PICK j \in 1 .. n - 1 : j = m - 1 /\ m = j + 1 /\ j \in 1 .. n /\ j \in 0 .. n
        BY <1>1, <3>1
    <3>3. Len(w[m]) = Len(w[j]) + 1 + Len(pieces[m]) /\ Len(pieces[m]) \in Nat
        BY <1>7, <3>1, <3>2
    <3>4. q[m] = Len(w[m]) + 1 /\ q[m - 1] = Len(w[j]) + 1 /\ Len(w[j]) \in Nat
        BY <1>5, <1>9, <3>2
    <3> DEFINE x == Len(w[m])
               y == Len(w[j])
               z == Len(pieces[m])
    <3> HIDE DEF x, y, z
    <3>5. x = y + 1 + z /\ z \in Nat /\ q[m] = x + 1 /\ q[m - 1] = y + 1 /\ y \in Nat
        BY <3>3, <3>4 DEF x, y, z
    <3> QED
        BY <3>5
  <2> QED
      BY <2>1, <2>2
<1>11. ASSUME NEW m \in 1 .. n - 1
       PROVE  all[q[m]] = c /\ q[m] \in 1 .. Len(all)
  <2>1. m + 1 \in 2 .. n /\ m + 1 - 1 = m /\ m \in 1 .. n /\ m + 1 \in 0 .. n
      BY <1>1
  <2>2. PICK t \in X : all = w[m + 1] \o t
      BY <1>8, <2>1
  <2> DEFINE v == w[m]
             d == <<c>>
             p == pieces[m + 1]
  <2>3. w[m + 1] = (v \o d) \o p
      BY <1>7, <2>1, Zenon
  <2>4. v \in X /\ d \in X /\ p \in X /\ d[1] = c /\ Len(d) = 1
      BY <1>1, <1>5, <2>1, OneGlyph DEF X
  <2> HIDE DEF v, d, p
  <2>5. p \o t \in X /\ v \o (d \o (p \o t)) = ((v \o d) \o p) \o t
    <3>1. p \o t \in X
        BY <2>4, Joined DEF X
    <3>2. ((v \o d) \o p) \o t = v \o (d \o (p \o t))
      <4>1. v \in Seq(S) /\ d \in Seq(S) /\ p \in Seq(S) /\ t \in Seq(S)
          BY <2>2, <2>4 DEF X
      <4>2. Cat(Cat(Cat(v, d), p), t) = Cat(v, Cat(d, Cat(p, t)))
          BY <4>1, CatFour
      <4> QED
          BY <4>2, Zenon DEF Cat
    <3> QED
        BY <3>1, <3>2
  <2>6. /\ d \o (p \o t) \in X /\ Len(d \o (p \o t)) = 1 + Len(p \o t)
        /\ (d \o (p \o t))[1] = c
    <3> DEFINE r == p \o t
    <3>1. r \in X /\ Len(r) \in Nat
        BY <2>5, LenProperties DEF X
    <3> HIDE DEF r
    <3>2. /\ d \o r \in X /\ Len(d \o r) = Len(d) + Len(r)
          /\ \A i \in 1 .. Len(d) + Len(r) :
                (d \o r)[i] = IF i <= Len(d) THEN d[i] ELSE r[i - Len(d)]
        BY <2>4, <3>1, ConcatProperties DEF X
    <3>3. 1 \in 1 .. Len(d) + Len(r) /\ 1 <= Len(d)
        BY <2>4, <3>1
    <3> QED
        BY <2>4, <3>2, <3>3 DEF r
  <2>7. /\ all = v \o (d \o (p \o t))
        /\ Len(p \o t) \in Nat /\ Len(v) \in Nat
      BY <2>2, <2>3, <2>4, <2>5, LenProperties DEF X
  <2> DEFINE u == d \o (p \o t)
  <2>8. u \in X
      BY <2>6
  <2>9. Len(u) = 1 + Len(p \o t) /\ u[1] = c /\ all = v \o u
      BY <2>6, <2>7
  <2> HIDE DEF u
  <2>10. /\ Len(v \o u) = Len(v) + Len(u)
         /\ \A i \in 1 .. Len(v) + Len(u) :
               (v \o u)[i] = IF i <= Len(v) THEN v[i] ELSE u[i - Len(v)]
      BY <2>4, <2>8, ConcatProperties DEF X
  <2>11. /\ Len(v) + 1 \in 1 .. Len(v) + Len(u) /\ ~(Len(v) + 1 <= Len(v))
         /\ Len(v) + 1 - Len(v) = 1
      BY <2>7, <2>9
  <2>12. (v \o u)[Len(v) + 1] = c
      BY <2>9, <2>10, <2>11
  <2>13. q[m] = Len(v) + 1
      BY <1>9, <2>1 DEF v
  <2> QED
      BY <2>9, <2>10, <2>11, <2>12, <2>13
<1>12. ASSUME NEW i \in 1 .. Len(all), all[i] = c
       PROVE  \E m \in 1 .. n - 1 : i = q[m]
  <2> DEFINE T == {k \in 0 .. n : \A j \in 1 .. Len(w[k]) :
                                     w[k][j] = c => \E m \in 1 .. k - 1 : j = q[m]}
  <2>1. 0 \in T
      BY <1>1, <1>6
  <2>2. ASSUME NEW k \in 0 .. n - 1, k \in T
        PROVE  k + 1 \in T
    <3> SUFFICES ASSUME NEW j \in 1 .. Len(w[k + 1]), w[k + 1][j] = c
                 PROVE  \E m \in 1 .. k : j = q[m]
      <4>1. k + 1 \in 0 .. n /\ k + 1 - 1 = k
          BY <1>1
      <4> QED
          BY <4>1
    <3>1. CASE k = 0
      <4>1. 1 \in 1 .. n /\ w[k + 1] = pieces[1]
          BY <1>1, <1>6, <3>1
      <4>2. Contains(pieces[1], c)
          BY <4>1 DEF Contains
      <4> QED
          BY <4>1, <4>2 DEF Joins, n
    <3>2. CASE k # 0
      <4>1. /\ k + 1 \in 2 .. n /\ k + 1 \in 1 .. n /\ k + 1 - 1 = k
            /\ k \in 1 .. n /\ k \in 0 .. n /\ k \in 1 .. n - 1
          BY <1>1, <3>2
      <4> DEFINE v == w[k]
                 x == v \o <<c>>
                 p == pieces[k + 1]
      <4>2. w[k + 1] = x \o p /\ x \in X /\ Len(x) = Len(v) + 1 /\ Len(p) \in Nat
          BY <1>7, <4>1, Zenon
      <4>3. v \in X /\ p \in X /\ Len(v) \in Nat
          BY <1>1, <1>5, <4>1
      <4>4. ~Contains(p, c)
          BY <1>1, <4>1 DEF Joins, n
      <4>5. /\ <<c>> \in X /\ Len(<<c>>) = 1
          BY OneGlyph DEF X
      <4>6. \A l \in 1 .. Len(v) : x[l] = v[l]
        <5> DEFINE d == <<c>>
        <5>1. d \in X
            BY <4>5
        <5>2. Len(d) = 1
            BY <4>5
        <5> HIDE DEF d, v
        <5>3. \A l \in 1 .. Len(v) + Len(d) :
                 (v \o d)[l] = IF l <= Len(v) THEN v[l] ELSE d[l - Len(v)]
            BY <4>3, <5>1, ConcatProperties DEF X
        <5>4. \A l \in 1 .. Len(v) : l \in 1 .. Len(v) + Len(d) /\ l <= Len(v)
            BY <4>3, <5>2
        <5> QED
            BY <5>3, <5>4 DEF d
      <4> HIDE DEF x, p, v
      <4>7. \A l \in 1 .. Len(x) + Len(p) :
               (x \o p)[l] = IF l <= Len(x) THEN x[l] ELSE p[l - Len(x)]
          BY <4>2, <4>3, ConcatProperties DEF X
      <4>8. Len(x \o p) = Len(x) + Len(p) /\ Len(x) \in Nat
          BY <4>2, <4>3, ConcatProperties, LenProperties DEF X
      <4>9. j \in 1 .. Len(x) + Len(p) /\ (x \o p)[j] = c
          BY <4>2, <4>8
      <4>10. j <= Len(x)
        <5> SUFFICES ASSUME ~(j <= Len(x)) PROVE FALSE
            OBVIOUS
        <5>1. j - Len(x) \in 1 .. Len(p)
            BY <4>2, <4>8, <4>9
        <5>2. p[j - Len(x)] = c
            BY <4>7, <4>9
        <5> QED
            BY <4>4, <5>1, <5>2 DEF Contains
      <4>11. CASE j = Len(x)
        <5>1. j = q[k]
            BY <1>9, <4>1, <4>2, <4>11 DEF v
        <5>2. k \in 1 .. k
            BY <4>1
        <5> QED
            BY <5>1, <5>2
      <4>12. CASE j # Len(x)
        <5>1. j \in 1 .. Len(v)
            BY <4>2, <4>3, <4>9, <4>10, <4>12
        <5>2. v[j] = c
            BY <4>6, <4>7, <4>9, <4>10, <5>1
        <5>3. PICK m \in 1 .. k - 1 : j = q[m]
            BY <2>2, <5>1, <5>2 DEF v
        <5>4. m \in 1 .. k
            BY <4>1
        <5> QED
            BY <5>3, <5>4
      <4> QED
          BY <4>11, <4>12
    <3> QED
        BY <3>1, <3>2
  <2>3. \A k \in 0 .. n : k \in T
    <3> HIDE DEF T
    <3> QED
        BY <1>1, <2>1, <2>2, Induction
  <2>4. n \in T
      BY <1>1, <2>3
  <2> QED
      BY <1>4, <1>12, <2>4
<1>13. Cuts(q, n, c, all)
  <2>1. q[n] = Len(all) + 1
      BY <1>1, <1>4, <1>9
  <2>2. \A i \in 1 .. Len(all) : all[i] = c <=> \E m \in 1 .. n - 1 : i = q[m]
      BY <1>11, <1>12
  <2> QED
      BY <1>9, <1>10, <2>1, <2>2 DEF Cuts
<1>14. all \in Seq(S)
    BY <1>1, <1>4, <1>5 DEF X
<1>15. Split(all, c) = Between(all, q, n)
  <2>1. n \in Nat \ {0} /\ q \in [0 .. n -> Nat]
      BY <1>1, <1>9
  <2> QED
      BY <1>13, <1>14, <2>1, SplitAtCuts
<1>16. ASSUME NEW m \in 1 .. n
       PROVE  SubSeq(all, q[m - 1] + 1, q[m] - 1) = pieces[m]
  <2>1. PICK t \in X : all = w[m] \o t
    <3>1. m \in 0 .. n
        BY <1>1
    <3> QED
        BY <1>8, <3>1
  <2>2. q[m] - 1 = Len(w[m]) /\ Len(w[m]) \in Nat
      BY <1>1, <1>5, <1>9
  <2>3. CASE m = 1
    <3>1. q[m - 1] + 1 = 1 /\ w[m] = pieces[m] /\ w[m] \in Seq(S)
        BY <1>1, <1>5, <1>6, <1>9, <2>3 DEF X
    <3>2. SubSeq(w[m] \o t, 1, Len(w[m])) = w[m]
        BY <3>1, EndPieces DEF X
    <3> QED
        BY <2>1, <2>2, <3>1, <3>2
  <2>4. CASE m # 1
    <3>1. m \in 2 .. n /\ m - 1 \in 1 .. n /\ m - 1 \in 0 .. n
        BY <1>1, <2>4
    <3>7. PICK j \in 1 .. n - 1 : j = m - 1 /\ m = j + 1
        BY <1>1, <3>1
    <3> DEFINE x == w[j] \o <<c>>
               p == pieces[m]
    <3>2. /\ x \in X /\ Len(x) = Len(w[j]) + 1 /\ w[m] = x \o p
          /\ Len(w[m]) = Len(w[j]) + 1 + Len(p)
        BY <1>7, <3>1, <3>7, Zenon
    <3>3. q[m - 1] = Len(w[j]) + 1 /\ p \in X
        BY <1>1, <1>9, <3>1, <3>7
    <3> HIDE DEF x, p
    <3>4. all = x \o (p \o t)
      <4>1. (x \o p) \o t = x \o (p \o t)
        <5>1. x \in Seq(S) /\ p \in Seq(S) /\ t \in Seq(S)
            BY <2>1, <3>2, <3>3 DEF X
        <5>2. Cat(Cat(x, p), t) = Cat(x, Cat(p, t))
            BY <5>1, CatThree
        <5> QED
            BY <5>2, Zenon DEF Cat
      <4> QED
          BY <2>1, <3>2, <4>1, Zenon
    <3>5. SubSeq(x \o (p \o t), Len(x) + 1, Len(x) + Len(p)) = p
        BY <3>2, <3>3, MiddlePiece DEF X
    <3>6. q[m - 1] + 1 = Len(x) + 1 /\ q[m] - 1 = Len(x) + Len(p)
        BY <2>2, <3>2, <3>3
    <3> QED
        BY <3>4, <3>5, <3>6 DEF p
  <2> QED
      BY <2>3, <2>4
<1>17. pieces = [m \in 1 .. n |-> pieces[m]]
    BY DEF n
<1> QED
    BY <1>15, <1>16, <1>17 DEF all, Between
-----------------------------------------------------------------------------
(* A header, written and read *)

\* What stands for a cookie between the separators of a header.
Part(first, n, v) ==
    (IF first THEN QueryEscape(n) ELSE <<" ">> \o QueryEscape(n)) \o (<<"=">> \o QueryEscape(v))

LEMMA NoneEscaped ==
    ASSUME NEW s \in Seq(Glyph)
    PROVE  \A c \in {"=", ";", "%"} : ~Contains(QueryEscape(s), c)
<1> SUFFICES ASSUME NEW c \in {"=", ";", "%"}, NEW i \in 1 .. Len(QueryEscape(s)),
                    QueryEscape(s)[i] = c
             PROVE  FALSE
    BY DEF Contains
<1>1. QueryEscape(s)[i] = Escaped(s[i])
    BY EscapedText
<1> QED
    BY <1>1, EscapedGlyph

\* A name after a blank is read as the name, after a blank.
LEMMA BlankName ==
    ASSUME NEW n \in Seq(Glyph), Raw(n)
    PROVE  /\ <<" ">> \o QueryEscape(n) \in Seq(Glyph)
           /\ \A c \in {"=", ";", "%"} : ~Contains(<<" ">> \o QueryEscape(n), c)
           /\ BlankBefore(QueryUnescape(<<" ">> \o QueryEscape(n)), n)
<1> DEFINE b == <<" ">>
           e == QueryEscape(n)
           s == b \o e
           u == QueryUnescape(s)
<1>1. " " \in Glyph
    BY DEF Glyph
<1>2. /\ b \in Seq(Glyph) /\ Len(b) = 1 /\ b[1] = " "
      /\ \A c : Contains(b, c) <=> c = " "
    BY <1>1, OneGlyph
<1>3. e \in Seq(Glyph) /\ Len(e) = Len(n) /\ Len(n) \in Nat
    BY EscapedText, LenProperties
<1>4. \A c \in {"=", ";", "%"} : ~Contains(e, c)
    BY NoneEscaped
<1>5. QueryUnescape(e) = n
    BY EscapeBack
<1>6. \A i \in 1 .. Len(n) : n[i] = Unescaped(e[i])
  <2>1. \A i \in 1 .. Len(e) : QueryUnescape(e)[i] = Unescaped(e[i])
      BY <1>3, EscapedText
  <2> QED
      BY <1>3, <1>5, <2>1
<1> HIDE DEF b, e
<1>7. /\ s \in Seq(Glyph) /\ Len(s) = 1 + Len(n)
      /\ \A i \in 1 .. 1 + Len(n) : s[i] = IF i <= 1 THEN b[i] ELSE e[i - 1]
  <2>1. /\ s \in Seq(Glyph) /\ Len(s) = Len(b) + Len(e)
        /\ \A i \in 1 .. Len(b) + Len(e) : s[i] = IF i <= Len(b) THEN b[i] ELSE e[i - Len(b)]
    <3>1. b \in Seq(Glyph) /\ e \in Seq(Glyph)
        BY <1>2, <1>3
    <3> QED
        BY <3>1, ConcatProperties
  <2>2. Len(b) = 1 /\ Len(e) = Len(n)
      BY <1>2, <1>3
  <2> HIDE DEF s
  <2> QED
      BY <2>1, <2>2
<1>8. \A c \in {"=", ";", "%"} : ~Contains(s, c)
  <2> SUFFICES ASSUME NEW c \in {"=", ";", "%"} PROVE ~Contains(s, c)
      OBVIOUS
  <2>1. c # " "
      OBVIOUS
  <2>2. Contains(s, c) <=> Contains(b, c) \/ Contains(e, c)
      BY <1>2, <1>3, ContainsConcat
  <2> QED
      BY <1>2, <1>4, <2>1, <2>2
<1>9. Len(u) = Len(n) + 1 /\ \A i \in 1 .. Len(n) + 1 : u[i] = Unescaped(s[i])
  <2> HIDE DEF s
  <2>1. Len(u) = Len(s) /\ \A i \in 1 .. Len(s) : u[i] = Unescaped(s[i])
      BY <1>7, EscapedText
  <2> QED
      BY <1>3, <1>7, <2>1
<1>10. u[1] = " "
  <2>1. 1 \in 1 .. Len(n) + 1 /\ 1 \in 1 .. 1 + Len(n) /\ 1 <= 1
      BY <1>3
  <2>2. u[1] = Unescaped(s[1]) /\ s[1] = b[1]
      BY <1>7, <1>9, <2>1
  <2>3. Unescaped(" ") = " "
      BY DEF Unescaped
  <2> QED
      BY <1>2, <2>2, <2>3
<1>11. \A i \in 1 .. Len(n) : u[i + 1] = n[i]
  <2> SUFFICES ASSUME NEW i \in 1 .. Len(n) PROVE u[i + 1] = n[i]
      OBVIOUS
  <2>1. /\ i + 1 \in 1 .. Len(n) + 1 /\ i + 1 \in 1 .. 1 + Len(n)
        /\ ~(i + 1 <= 1) /\ i + 1 - 1 = i
      BY <1>3
  <2> HIDE DEF u, s
  <2>2. u[i + 1] = Unescaped(s[i + 1]) /\ s[i + 1] = e[i]
      BY <1>7, <1>9, <2>1
  <2> QED
      BY <1>6, <2>2
<1> HIDE DEF u, s
<1>12. BlankBefore(u, n)
    BY <1>9, <1>10, <1>11, Zenon DEF BlankBefore
<1> QED
    BY <1>7, <1>8, <1>12 DEF u, s, b, e

LEMMA CookiePart ==
    ASSUME NEW first \in BOOLEAN, NEW n \in Seq(Glyph), NEW v \in Seq(Glyph), Raw(n), Raw(v)
    PROVE  /\ Part(first, n, v) \in Seq(Glyph)
           /\ Contains(Part(first, n, v), "=")
           /\ ~Contains(Part(first, n, v), ";") /\ ~Contains(Part(first, n, v), "%")
           /\ ParseCookie(Part(first, n, v)) = <<TrimSpace(n), TrimSpace(v)>>
<1> DEFINE a == IF first THEN QueryEscape(n) ELSE <<" ">> \o QueryEscape(n)
           sep == <<"=">>
           b == QueryEscape(v)
<1>1. /\ a \in Seq(Glyph) /\ \A c \in {"=", ";", "%"} : ~Contains(a, c)
  <2>1. CASE first
      BY <2>1, EscapedText, NoneEscaped
  <2>2. CASE ~first
      BY <2>2, BlankName
  <2> QED
      BY <2>1, <2>2
<1>2. TrimSpace(QueryUnescape(a)) = TrimSpace(n)
  <2>1. CASE first
      BY <2>1, EscapeBack
  <2>2. CASE ~first
    <3> DEFINE s == <<" ">> \o QueryEscape(n)
    <3>1. s \in Seq(Glyph) /\ BlankBefore(QueryUnescape(s), n)
        BY BlankName
    <3>2. a = s
        BY <2>2
    <3> HIDE DEF s, a
    <3>3. QueryUnescape(s) \in Seq(Glyph)
        BY <3>1, EscapedText
    <3> QED
        BY <3>1, <3>2, <3>3, TrimBlank
  <2> QED
      BY <2>1, <2>2
<1>3. "=" \in Glyph
    BY DEF Glyph
<1>4. sep \in Seq(Glyph) /\ \A c : Contains(sep, c) <=> c = "="
    BY <1>3, OneGlyph
<1>5. b \in Seq(Glyph) /\ QueryUnescape(b) = v /\ \A c \in {"=", ";", "%"} : ~Contains(b, c)
    BY EscapedText, EscapeBack, NoneEscaped
<1> HIDE DEF a, b
<1>6. ParseCookie(a \o (sep \o b)) = <<TrimSpace(QueryUnescape(a)), TrimSpace(QueryUnescape(b))>>
    BY <1>1, <1>5, ParsePart
<1> HIDE DEF sep
<1>7. sep \o b \in Seq(Glyph) /\ a \o (sep \o b) \in Seq(Glyph)
    BY <1>1, <1>4, <1>5, ConcatProperties
<1>8. \A c : Contains(a \o (sep \o b), c) <=> Contains(a, c) \/ Contains(sep, c) \/ Contains(b, c)
  <2> SUFFICES ASSUME NEW c
               PROVE  Contains(a \o (sep \o b), c)
                        <=> Contains(a, c) \/ Contains(sep, c) \/ Contains(b, c)
      OBVIOUS
  <2>1. Contains(sep \o b, c) <=> Contains(sep, c) \/ Contains(b, c)
      BY <1>4, <1>5, ContainsConcat
  <2> DEFINE r == sep \o b
  <2>2. r \in Seq(Glyph)
      BY <1>7
  <2> HIDE DEF r
  <2>3. Contains(a \o r, c) <=> Contains(a, c) \/ Contains(r, c)
      BY <1>1, <2>2, ContainsConcat
  <2> QED
      BY <2>1, <2>3 DEF r
<1> DEFINE p == a \o (sep \o b)
<1>9. p = Part(first, n, v)
    BY Zenon DEF Part, a, b, sep
<1>10. p \in Seq(Glyph) /\ ParseCookie(p) = <<TrimSpace(n), TrimSpace(v)>>
    BY <1>2, <1>5, <1>6, <1>7
<1>11. Contains(p, "=") /\ ~Contains(p, ";") /\ ~Contains(p, "%")
  <2>1. "=" # ";" /\ "=" # "%"
      OBVIOUS
  <2> QED
      BY <1>1, <1>4, <1>5, <1>8, <2>1
<1> HIDE DEF p
<1> QED
    BY <1>9, <1>10, <1>11

LEMMA TwoGlyphs ==
    ASSUME NEW S, NEW c \in S, NEW d \in S
    PROVE  <<c, d>> \in Seq(S) /\ <<c, d>> = <<c>> \o <<d>>
<1>1. <<c, d>> \in Seq(S) /\ Len(<<c, d>>) = 2 /\ <<c, d>>[1] = c /\ <<c, d>>[2] = d
    OBVIOUS
<1>2. <<c>> \in Seq(S) /\ <<d>> \in Seq(S) /\ Len(<<c>>) = 1 /\ Len(<<d>>) = 1
    OBVIOUS
<1>3. <<c>> \o <<d>> = <<c, d>>
  <2>1. Append(<<c>>, d) = <<c>> \o <<d>>
      BY <1>2, AppendIsConcat
  <2> DEFINE one == <<c>>
             s == Append(one, d)
             t == <<c, d>>
  <2>2. /\ one \in Seq(S) /\ Len(one) = 1 /\ one[1] = c
        /\ t \in Seq(S) /\ Len(t) = 2 /\ t[1] = c /\ t[2] = d
      BY <1>1, <1>2
  <2> HIDE DEF one, t
  <2>3. /\ s \in Seq(S) /\ Len(s) = Len(one) + 1
        /\ \A i \in 1 .. Len(one) : s[i] = one[i]
        /\ s[Len(one) + 1] = d
    <3>1. one \in Seq(S)
        BY <2>2
    <3> QED
        BY <3>1, AppendProperties
  <2> HIDE DEF s
  <2>4. Len(s) = 2 /\ s[1] = c /\ s[2] = d
      BY <2>2, <2>3
  <2>5. s = t
      BY <2>2, <2>3, <2>4, SeqEqual
  <2> QED
      BY <2>1, <2>5 DEF s, t, one
<1> QED
    BY <1>1, <1>3

\* How a cookie is written: as its part, after a separator unless it is first.
LEMMA CookieWritten ==
    ASSUME NEW first \in BOOLEAN, NEW n \in Seq(Glyph), NEW v \in Seq(Glyph)
    PROVE  (IF first THEN <<>> ELSE <<";", " ">>) \o QueryEscape(n) \o <<"=">> \o QueryEscape(v)
             = IF first THEN Part(first, n, v) ELSE <<";">> \o Part(first, n, v)
<1> DEFINE a == QueryEscape(n)
           b == QueryEscape(v)
           x == IF first THEN <<>> ELSE <<";", " ">>
           sep == <<"=">>
           semi == <<";">>
           blank == <<" ">>
<1>1. ";" \in Glyph /\ " " \in Glyph /\ "=" \in Glyph
    BY DEF Glyph
<1>2. sep \in Seq(Glyph) /\ semi \in Seq(Glyph) /\ blank \in Seq(Glyph)
    BY <1>1, OneGlyph
<1>3. a \in Seq(Glyph) /\ b \in Seq(Glyph)
    BY EscapedText
<1>4. <<";", " ">> = semi \o blank /\ <<";", " ">> \in Seq(Glyph)
    BY <1>1, TwoGlyphs
<1>5. x \in Seq(Glyph)
  <2>1. <<>> \in Seq(Glyph)
      BY EmptySeq
  <2> QED
      BY <1>4, <2>1
<1>6. Cat(Cat(Cat(x, a), sep), b) = Cat(x, Cat(a, Cat(sep, b))) /\ Cat(sep, b) \in Seq(Glyph)
  <2>1. x \in Seq(Glyph) /\ a \in Seq(Glyph) /\ sep \in Seq(Glyph) /\ b \in Seq(Glyph)
      BY <1>2, <1>3, <1>5
  <2> HIDE DEF x, a, b, sep
  <2>2. Cat(Cat(Cat(x, a), sep), b) = Cat(x, Cat(a, Cat(sep, b)))
      BY <2>1, CatFour
  <2>3. Cat(sep, b) \in Seq(Glyph)
      BY <2>1, CatThree
  <2> QED
      BY <2>2, <2>3
<1>7. Cat(a, Cat(sep, b)) \in Seq(Glyph)
  <2> HIDE DEF a, b, sep
  <2> QED
      BY <1>3, <1>6, CatThree
<1>8. CASE first
  <2>1. Part(first, n, v) = Cat(a, Cat(sep, b))
      BY <1>8, Zenon DEF Part, Cat
  <2> DEFINE r == Cat(a, Cat(sep, b))
  <2>2. Cat(<<>>, r) = r
    <3>1. r \in Seq(Glyph)
        BY <1>7
    <3> HIDE DEF r
    <3> QED
        BY <3>1, ConcatEmptySeq DEF Cat
  <2>3. x = <<>>
      BY <1>8
  <2>4. Cat(Cat(Cat(x, a), sep), b) = Part(first, n, v)
      BY <1>6, <2>1, <2>2, <2>3, Zenon
  <2> QED
      BY <1>8, <2>4, Zenon DEF Cat
<1>9. CASE ~first
  <2>1. Part(first, n, v) = Cat(Cat(blank, a), Cat(sep, b))
      BY <1>9, Zenon DEF Part, Cat
  <2>2. x = Cat(semi, blank)
      BY <1>4, <1>9, Zenon DEF Cat
  <2> HIDE DEF x, a, sep, b, blank, semi
  <2>3. /\ Cat(Cat(semi, blank), Cat(a, Cat(sep, b)))
             = Cat(semi, Cat(blank, Cat(a, Cat(sep, b))))
        /\ Cat(Cat(blank, a), Cat(sep, b)) = Cat(blank, Cat(a, Cat(sep, b)))
      BY <1>2, <1>3, <1>6, <1>7, CatThree
  <2>4. Cat(Cat(Cat(x, a), sep), b) = Cat(semi, Part(first, n, v))
      BY <1>6, <2>1, <2>2, <2>3, Zenon
  <2> QED
      BY <1>9, <2>4, Zenon DEF Cat, x, a, sep, b, semi
<1> QED
    BY <1>8, <1>9

\* A list of cookies that EncodeCookieHeader writes is read by ParseCookieHeader
\* as it was, but trimmed, whatever separators, signs and blanks are in it.
THEOREM HeaderReadBack ==
    ASSUME NEW cookies \in Seq(Seq(Glyph) \X Seq(Glyph)), cookies # <<>>,
           \A i \in DOMAIN cookies : Raw(cookies[i][1]) /\ Raw(cookies[i][2])
    PROVE  ParseCookieHeader(EncodeCookieHeader(cookies)) = Trimmed(cookies)
<1> DEFINE L == Len(cookies)
           P(i) == Part(i = 1, cookies[i][1], cookies[i][2])
           pieces == [i \in 1 .. L |-> P(i)]
           W(i) == IF i = 1 THEN P(i) ELSE <<";">> \o P(i)
           seqs == [i \in 1 .. L |-> W(i)]
           part(i) == pieces[i]
<1>1. L \in Nat \ {0} /\ DOMAIN cookies = 1 .. L
    BY EmptySeq, LenProperties
<1>2. \A i \in 1 .. L : /\ cookies[i][1] \in Seq(Glyph) /\ cookies[i][2] \in Seq(Glyph)
                        /\ Raw(cookies[i][1]) /\ Raw(cookies[i][2])
  <2>1. \A i \in 1 .. L : cookies[i] \in Seq(Glyph) \X Seq(Glyph)
      BY <1>1, ElementOfSeq
  <2> QED
      BY <1>1, <2>1
<1>3. ASSUME NEW i \in 1 .. L
      PROVE  /\ P(i) \in Seq(Glyph)
             /\ Contains(P(i), "=") /\ ~Contains(P(i), ";") /\ ~Contains(P(i), "%")
             /\ ParseCookie(P(i)) = <<TrimSpace(cookies[i][1]), TrimSpace(cookies[i][2])>>
  <2>1. (i = 1) \in BOOLEAN
      OBVIOUS
  <2> QED
      BY <1>2, <2>1, CookiePart
<1>4. EncodeCookieHeader(cookies) = FlattenSeq(seqs)
  <2>1. ASSUME NEW i \in 1 .. L
        PROVE  (IF i = 1 THEN <<>> ELSE <<";", " ">>)
                 \o QueryEscape(cookies[i][1]) \o <<"=">> \o QueryEscape(cookies[i][2]) = W(i)
    <3>1. (i = 1) \in BOOLEAN
        OBVIOUS
    <3> QED
        BY <1>2, <3>1, CookieWritten
  <2>2. [i \in DOMAIN cookies |->
           (IF i = 1 THEN <<>> ELSE <<";", " ">>)
           \o QueryEscape(cookies[i][1]) \o <<"=">> \o QueryEscape(cookies[i][2])] = seqs
      BY <1>1, <2>1, Zenon
  <2> QED
      BY <2>2, Zenon DEF EncodeCookieHeader
<1> HIDE DEF P
<1>5. ";" \in Glyph
    BY DEF Glyph
<1>6. \A i \in 1 .. L : <<";">> \o P(i) \in Seq(Glyph)
  <2> SUFFICES ASSUME NEW i \in 1 .. L PROVE <<";">> \o P(i) \in Seq(Glyph)
      OBVIOUS
  <2>1. <<";">> \in Seq(Glyph) /\ P(i) \in Seq(Glyph)
      BY <1>3, <1>5, OneGlyph
  <2> QED
      BY <2>1, ConcatProperties
<1>7. /\ pieces \in Seq(Seq(Glyph)) /\ Len(pieces) = L
      /\ \A i \in 1 .. L : pieces[i] = P(i)
  <2>1. \A i \in 1 .. L : P(i) \in Seq(Glyph)
      BY <1>3
  <2> QED
      BY <1>1, <2>1
<1>8. /\ seqs \in Seq(Seq(Glyph)) /\ Len(seqs) = L
      /\ \A i \in 1 .. L : seqs[i] = W(i)
  <2>1. \A i \in 1 .. L : W(i) \in Seq(Glyph)
      BY <1>3, <1>6
  <2> HIDE DEF W
  <2> QED
      BY <1>1, <2>1
<1>9. pieces # <<>>
    BY <1>1, <1>7
<1> HIDE DEF pieces, seqs, L
<1>10. Joins(seqs, pieces, ";")
  <2>1. \A i \in 1 .. L : seqs[i] = IF i = 1 THEN pieces[i] ELSE <<";">> \o pieces[i]
      BY <1>7, <1>8
  <2>2. \A i \in 1 .. L : ~Contains(pieces[i], ";")
      BY <1>3, <1>7
  <2> QED
      BY <1>7, <1>8, <2>1, <2>2 DEF Joins
<1>11. Split(FlattenSeq(seqs), ";") = pieces
    BY <1>5, <1>7, <1>8, <1>9, <1>10, JoinSplit
<1>12. DOMAIN pieces = 1 .. L
    BY <1>7
<1>13. \A i \in DOMAIN pieces : Contains(pieces[i], "=") /\ ~Contains(pieces[i], "%")
    BY <1>3, <1>7, <1>12
<1>14. ParseCookieHeader(FlattenSeq(seqs)) = [i \in DOMAIN pieces |-> ParseCookie(pieces[i])]
    BY <1>11, <1>13, Zenon DEF ParseCookieHeader
<1>15. \A i \in 1 .. L : ParseCookie(pieces[i])
                           = <<TrimSpace(cookies[i][1]), TrimSpace(cookies[i][2])>>
    BY <1>3, <1>7
<1>16. [i \in DOMAIN pieces |-> ParseCookie(pieces[i])] = Trimmed(cookies)
    BY <1>1, <1>12, <1>15 DEF Trimmed, L
<1> QED
    BY <1>4, <1>14, <1>16
-----------------------------------------------------------------------------
(* What is read from a header *)

LEMMA PlaceRange ==
    ASSUME NEW S, NEW s \in Seq(S), NEW c, NEW n
    PROVE  Place(n, c, s) \in 0 .. Len(s) + 1 /\ Count(c, s, Len(s)) \in Nat
<1>1. Len(s) \in Nat
    BY LenProperties
<1> DEFINE A == {i \in 0 .. Len(s) : Count(c, s, i) < n}
           B == {j \in 1 .. Len(s) : s[j] = c}
<1>2. /\ IsFiniteSet(0 .. Len(s)) /\ IsFiniteSet(1 .. Len(s))
      /\ Cardinality(0 .. Len(s)) = Len(s) + 1
  <2>1. /\ IsFiniteSet(0 .. Len(s))
        /\ Cardinality(0 .. Len(s)) = IF 0 > Len(s) THEN 0 ELSE Len(s) - 0 + 1
      BY <1>1, FS_Interval
  <2>2. IsFiniteSet(1 .. Len(s))
      BY <1>1, FS_Interval
  <2> QED
      BY <1>1, <2>1, <2>2
<1>3. A \subseteq 0 .. Len(s) /\ B \subseteq 1 .. Len(s)
    OBVIOUS
<1> HIDE DEF A, B
<1>4. IsFiniteSet(A) /\ Cardinality(A) <= Cardinality(0 .. Len(s)) /\ IsFiniteSet(B)
    BY <1>2, <1>3, FS_Subset
<1>5. Cardinality(A) \in Nat /\ Cardinality(B) \in Nat
    BY <1>4, FS_CardinalityType
<1>6. Cardinality(A) \in 0 .. Len(s) + 1
    BY <1>1, <1>2, <1>4, <1>5
<1> QED
    BY <1>5, <1>6 DEF A, B, Place, Count

LEMMA CookieRead ==
    ASSUME NEW part \in Seq(Glyph)
    PROVE  ParseCookie(part) \in Seq(Glyph) \X Seq(Glyph)
<1> DEFINE e == Place(1, "=", part)
           len == Len(part)
           a == SubSeq(part, 1, e - 1)
           b == SubSeq(part, e + 1, len)
<1>1. e \in 0 .. len + 1 /\ len \in Nat
    BY PlaceRange, LenProperties
<1>2. /\ 1 \in Int /\ e - 1 \in Int /\ e + 1 \in Int /\ len \in Int
      /\ 1 .. e - 1 \subseteq 1 .. len /\ e + 1 .. len \subseteq 1 .. len
  <2> HIDE DEF e, len
  <2> QED
      BY <1>1
<1>3. a \in Seq(Glyph) /\ b \in Seq(Glyph)
  <2> HIDE DEF e
  <2> QED
      BY <1>2, SubText
<1> HIDE DEF a, b
<1>4. QueryUnescape(a) \in Seq(Glyph) /\ QueryUnescape(b) \in Seq(Glyph)
    BY <1>3, EscapedText
<1>5. TrimSpace(QueryUnescape(a)) \in Seq(Glyph) /\ TrimSpace(QueryUnescape(b)) \in Seq(Glyph)
    BY <1>4, TrimRange
<1> QED
    BY <1>5 DEF ParseCookie, a, b

LEMMA PieceWithin ==
    ASSUME NEW len \in Nat, NEW p \in 0 .. len + 1, NEW q \in 0 .. len + 1
    PROVE  p + 1 \in Int /\ q - 1 \in Int /\ p + 1 .. q - 1 \subseteq 1 .. len
    OBVIOUS

LEMMA Listed ==
    ASSUME NEW S, NEW n \in Nat, NEW f, f = [j \in 1 .. n |-> f[j]], \A j \in 1 .. n : f[j] \in S
    PROVE  f \in Seq(S) /\ Len(f) = n
<1> DEFINE g == [j \in 1 .. n |-> f[j]]
<1>1. g \in Seq(S) /\ Len(g) = n
    OBVIOUS
<1> QED
    BY <1>1, Zenon

LEMMA HeaderRead ==
    ASSUME NEW h \in Seq(Glyph)
    PROVE  ParseCookieHeader(h) \in Seq(Seq(Glyph) \X Seq(Glyph))
<1> DEFINE n == Count(";", h, Len(h)) + 1
           from(m) == Place(m - 1, ";", h) + 1
           upto(m) == Place(m, ";", h) - 1
           parts == Split(h, ";")
<1>1. n \in Nat /\ Len(h) \in Nat
  <2>1. Count(";", h, Len(h)) \in Nat
      BY PlaceRange
  <2>2. Len(h) \in Nat
      BY LenProperties
  <2> DEFINE k == Count(";", h, Len(h))
  <2>3. k \in Nat
      BY <2>1
  <2> HIDE DEF k
  <2>4. k + 1 \in Nat
      BY <2>3
  <2> QED
      BY <2>2, <2>4 DEF k
<1>2. ASSUME NEW m \in 1 .. n
      PROVE  SubSeq(h, from(m), upto(m)) \in Seq(Glyph)
  <2>1. Place(m - 1, ";", h) \in 0 .. Len(h) + 1 /\ Place(m, ";", h) \in 0 .. Len(h) + 1
      BY PlaceRange
  <2>2. from(m) \in Int /\ upto(m) \in Int /\ from(m) .. upto(m) \subseteq 1 .. Len(h)
    <3> DEFINE p == Place(m - 1, ";", h)
               q == Place(m, ";", h)
               len == Len(h)
    <3>1. p \in 0 .. len + 1 /\ q \in 0 .. len + 1 /\ len \in Nat
        BY <1>1, <2>1
    <3> HIDE DEF p, q, len
    <3>2. p + 1 \in Int /\ q - 1 \in Int /\ p + 1 .. q - 1 \subseteq 1 .. len
        BY <3>1, PieceWithin
    <3> QED
        BY <3>2, Zenon DEF p, q, len
  <2> HIDE DEF from, upto
  <2> QED
      BY <2>2, SubText
<1>3. parts = [m \in 1 .. n |-> SubSeq(h, from(m), upto(m))]
    BY Zenon DEF Split
<1> HIDE DEF from, upto, n
<1>4. DOMAIN parts = 1 .. n /\ \A m \in 1 .. n : parts[m] \in Seq(Glyph)
    BY <1>2, <1>3
<1> HIDE DEF parts
<1>5. \A m \in 1 .. n : ParseCookie(parts[m]) \in Seq(Glyph) \X Seq(Glyph)
    BY <1>4, CookieRead
<1>6. [m \in DOMAIN parts |-> ParseCookie(parts[m])] \in Seq(Seq(Glyph) \X Seq(Glyph))
    BY <1>1, <1>4, <1>5
<1>7. <<>> \in Seq(Seq(Glyph) \X Seq(Glyph))
    BY EmptySeq
<1>8. \/ ParseCookieHeader(h) = <<>>
      \/ ParseCookieHeader(h) = [m \in DOMAIN parts |-> ParseCookie(parts[m])]
    BY Zenon DEF ParseCookieHeader, parts
<1> QED
    BY <1>6, <1>7, <1>8

-----------------------------------------------------------------------------
(* What is hashed *)

LEMMA CatCancel ==
    ASSUME NEW S, NEW a \in Seq(S), NEW b \in Seq(S), NEW c \in Seq(S)
    PROVE  /\ Cat(a, b) = Cat(a, c) => b = c
           /\ Cat(b, a) = Cat(c, a) => b = c
    BY ConcatSimplifications, Zenon DEF Cat

\* It does not matter whether texts are put together one by one or two by two.
LEMMA TwoByTwo ==
    ASSUME NEW S, NEW A \in Seq(Seq(S)), NEW B \in Seq(Seq(S)), Len(B) = 2 * Len(A),
           \A i \in 1 .. Len(A) : A[i] = Cat(B[2 * i - 1], B[2 * i])
    PROVE  FlattenSeq(A) = FlattenSeq(B) /\ FlattenSeq(A) \in Seq(S)
<1> DEFINE n == Len(A)
           X == Seq(S)
<1>1. /\ n \in Nat /\ Len(B) = 2 * n
      /\ \A i \in 1 .. n : A[i] \in X
      /\ \A i \in 1 .. 2 * n : B[i] \in X
  <2>1. \A i \in 1 .. Len(B) : B[i] \in X
      BY ElementOfSeq
  <2> QED
      BY <2>1, LenProperties, ElementOfSeq
<1>2. PICK w \in [0 .. n -> X] : Flattens(w, A)
    BY FlattenSteps
<1>3. PICK u \in [0 .. Len(B) -> X] : Flattens(u, B)
    BY FlattenSteps
<1>4. /\ w[0] = <<>> /\ FlattenSeq(A) = w[n]
      /\ \A k \in 1 .. n : w[k] = Cat(w[k - 1], A[k])
    BY <1>2, Zenon DEF Flattens, Cat
<1>5. /\ u[0] = <<>> /\ FlattenSeq(B) = u[2 * n]
      /\ \A k \in 1 .. 2 * n : u[k] = Cat(u[k - 1], B[k])
    BY <1>1, <1>3, Zenon DEF Flattens, Cat
<1> DEFINE T == {k \in 0 .. n : w[k] = u[2 * k]}
<1>6. 0 \in T
  <2>1. 0 \in 0 .. n /\ 2 * 0 = 0
      BY <1>1
  <2> QED
      BY <1>4, <1>5, <2>1
<1>7. ASSUME NEW k \in 0 .. n - 1, k \in T
      PROVE  k + 1 \in T
  <2>1. PICK i \in 1 .. n : i = k + 1 /\ i - 1 = k
      BY <1>1
  <2>2. PICK l \in 0 .. 2 * n : l = 2 * k
      BY <1>1
  <2>3. /\ 2 * i - 1 \in 1 .. 2 * n /\ 2 * i \in 1 .. 2 * n
        /\ 2 * i - 1 - 1 = l /\ 2 * i - 1 = 2 * i - 1
      BY <1>1, <2>1, <2>2
  <2> DEFINE a == B[2 * i - 1]
             b == B[2 * i]
  <2>4. w[i] = Cat(w[k], A[i]) /\ A[i] = Cat(a, b)
      BY <1>4, <2>1
  <2>5. u[2 * i - 1] = Cat(u[l], a) /\ u[2 * i] = Cat(u[2 * i - 1], b)
      BY <1>5, <2>3
  <2>6. u[l] \in X /\ a \in X /\ b \in X /\ w[k] = u[l]
    <3>1. u[l] \in X
        BY <1>1, <1>3, <2>2
    <3>2. w[k] = u[l]
        BY <1>7, <2>2
    <3> QED
        BY <1>1, <2>3, <3>1, <3>2
  <2> HIDE DEF a, b
  <2>7. Cat(Cat(u[l], a), b) = Cat(u[l], Cat(a, b))
      BY <2>6, CatThree
  <2>8. w[i] = u[2 * i]
      BY <2>4, <2>5, <2>6, <2>7
  <2> QED
      BY <2>1, <2>8
<1>8. \A k \in 0 .. n : k \in T
  <2> HIDE DEF T
  <2> QED
      BY <1>1, <1>6, <1>7, Induction
<1>9. n \in 0 .. n
    BY <1>1
<1>10. w[n] = u[2 * n]
    BY <1>8, <1>9
<1> QED
    BY <1>2, <1>4, <1>5, <1>9, <1>10

\* The texts of the list that is hashed, between the spaces.
Printing(cookies) ==
    [j \in 1 .. 2 * Len(cookies) |->
        LET i == (j + 1) \div 2
        IN  IF j = 2 * i THEN Cat(cookies[i][2], <<"]">>) ELSE Cat(<<"[">>, cookies[i][1])]

\* The same, each but the first after a space.
Spaced(cookies) ==
    [j \in 1 .. 2 * Len(cookies) |->
        IF j = 1 THEN Printing(cookies)[j] ELSE Cat(<<" ">>, Printing(cookies)[j])]

Cookies == Seq(Seq(Glyph) \X Seq(Glyph))

Spaceless(cookies) ==
    \A i \in 1 .. Len(cookies) : ~Contains(cookies[i][1], " ") /\ ~Contains(cookies[i][2], " ")

LEMMA CookieTexts ==
    ASSUME NEW cookies \in Cookies
    PROVE  /\ Len(cookies) \in Nat /\ DOMAIN cookies = 1 .. Len(cookies)
           /\ \A i \in 1 .. Len(cookies) :
                 /\ cookies[i][1] \in Seq(Glyph) /\ cookies[i][2] \in Seq(Glyph)
                 /\ cookies[i] = <<cookies[i][1], cookies[i][2]>>
<1>1. \A i \in 1 .. Len(cookies) : cookies[i] \in Seq(Glyph) \X Seq(Glyph)
    BY ElementOfSeq DEF Cookies
<1> QED
    BY <1>1, LenProperties DEF Cookies

LEMMA Marks ==
    /\ <<"[">> \in Seq(Glyph) /\ <<"]">> \in Seq(Glyph) /\ <<" ">> \in Seq(Glyph)
    /\ ~Contains(<<"[">>, " ") /\ ~Contains(<<"]">>, " ")
    /\ " " \in Glyph
<1>1. "[" \in Glyph /\ "]" \in Glyph /\ " " \in Glyph /\ "[" # " " /\ "]" # " "
    BY DEF Glyph
<1> QED
    BY <1>1, OneGlyph

LEMMA PrintedHalves ==
    ASSUME NEW cookies \in Cookies, NEW i \in 1 .. Len(cookies)
    PROVE  /\ 2 * i - 1 \in 1 .. 2 * Len(cookies) /\ 2 * i \in 1 .. 2 * Len(cookies)
           /\ Printing(cookies)[2 * i - 1] = Cat(<<"[">>, cookies[i][1])
           /\ Printing(cookies)[2 * i] = Cat(cookies[i][2], <<"]">>)
<1>1. Len(cookies) \in Nat
    BY CookieTexts
<1>2. /\ 2 * i - 1 \in 1 .. 2 * Len(cookies) /\ 2 * i \in 1 .. 2 * Len(cookies)
      /\ (2 * i - 1 + 1) \div 2 = i /\ (2 * i + 1) \div 2 = i /\ 2 * i - 1 # 2 * i
    BY <1>1
<1> QED
    BY <1>2, Zenon DEF Printing

LEMMA Twice ==
    ASSUME NEW n \in Nat
    PROVE  2 * n \in Nat
    OBVIOUS

LEMMA Halves ==
    ASSUME NEW n \in Nat, NEW j \in 1 .. 2 * n
    PROVE  \E i \in 1 .. n : j = 2 * i - 1 \/ j = 2 * i
<1> DEFINE i == (j + 1) \div 2
<1>1. i \in 1 .. n /\ (j = 2 * i - 1 \/ j = 2 * i)
    OBVIOUS
<1> QED
    BY <1>1

\* Without spaces of its own, the list falls apart into these texts.
LEMMA PrintingTexts ==
    ASSUME NEW cookies \in Cookies,
           Spaceless(cookies)
    PROVE  /\ Printing(cookies) \in Seq(Seq(Glyph)) /\ Spaced(cookies) \in Seq(Seq(Glyph))
           /\ Len(Printing(cookies)) = 2 * Len(cookies)
           /\ Len(Spaced(cookies)) = 2 * Len(cookies)
           /\ Joins(Spaced(cookies), Printing(cookies), " ")
<1> DEFINE n == 2 * Len(cookies)
           p == Printing(cookies)
           s == Spaced(cookies)
<1>1. n \in Nat /\ Len(cookies) \in Nat
  <2>1. Len(cookies) \in Nat
      BY CookieTexts
  <2> QED
      BY <2>1, Twice, Zenon
<1>2. ASSUME NEW j \in 1 .. n
      PROVE  p[j] \in Seq(Glyph) /\ ~Contains(p[j], " ")
  <2>1. PICK i \in 1 .. Len(cookies) : j = 2 * i - 1 \/ j = 2 * i
      BY <1>1, Halves
  <2>2. \/ p[j] = Cat(<<"[">>, cookies[i][1])
        \/ p[j] = Cat(cookies[i][2], <<"]">>)
      BY <2>1, PrintedHalves
  <2>3. /\ cookies[i][1] \in Seq(Glyph) /\ cookies[i][2] \in Seq(Glyph)
        /\ ~Contains(cookies[i][1], " ") /\ ~Contains(cookies[i][2], " ")
      BY CookieTexts DEF Spaceless
  <2> DEFINE a == cookies[i][1]
             b == cookies[i][2]
             l == <<"[">>
             r == <<"]">>
  <2>4. /\ a \in Seq(Glyph) /\ b \in Seq(Glyph) /\ l \in Seq(Glyph) /\ r \in Seq(Glyph)
        /\ ~Contains(a, " ") /\ ~Contains(b, " ") /\ ~Contains(l, " ") /\ ~Contains(r, " ")
      BY <2>3, Marks
  <2> HIDE DEF a, b, l, r
  <2>5. Cat(l, a) \in Seq(Glyph) /\ Cat(b, r) \in Seq(Glyph)
      BY <2>4, CatThree
  <2>6. ~Contains(Cat(l, a), " ") /\ ~Contains(Cat(b, r), " ")
      BY <2>4, CatSpaceless, Zenon
  <2> QED
      BY <2>2, <2>5, <2>6 DEF a, b, l, r
<1>3. DOMAIN p = 1 .. n /\ p = [j \in 1 .. n |-> p[j]]
    BY DEF Printing
<1>4. p \in Seq(Seq(Glyph)) /\ Len(p) = n
  <2>1. p = [j \in 1 .. n |-> p[j]] /\ \A j \in 1 .. n : p[j] \in Seq(Glyph)
      BY <1>2, <1>3
  <2> HIDE DEF p, n
  <2> QED
      BY <1>1, <2>1, Listed
<1>5. \A j \in 1 .. n : s[j] = IF j = 1 THEN p[j] ELSE Cat(<<" ">>, p[j])
    BY Zenon DEF Spaced
<1>6. DOMAIN s = 1 .. n /\ s = [j \in 1 .. n |-> s[j]]
    BY DEF Spaced
<1>7. \A j \in 1 .. n : s[j] \in Seq(Glyph)
  <2> DEFINE b == <<" ">>
  <2>1. b \in Seq(Glyph)
      BY Marks
  <2>2. \A j \in 1 .. n : s[j] = IF j = 1 THEN p[j] ELSE Cat(b, p[j])
      BY <1>5
  <2> HIDE DEF b, p, s, n
  <2>3. \A j \in 1 .. n : Cat(b, p[j]) \in Seq(Glyph)
      BY <1>2, <2>1, CatThree
  <2> QED
      BY <1>2, <2>2, <2>3
<1>8. s \in Seq(Seq(Glyph)) /\ Len(s) = n
  <2>1. s = [j \in 1 .. n |-> s[j]]
      BY <1>6
  <2> HIDE DEF s, n
  <2> QED
      BY <1>1, <1>7, <2>1, Listed
<1>9. Joins(s, p, " ")
  <2>1. Len(s) = Len(p) /\ \A j \in 1 .. Len(p) : ~Contains(p[j], " ")
      BY <1>2, <1>4, <1>8
  <2>2. \A j \in 1 .. Len(p) : s[j] = IF j = 1 THEN p[j] ELSE <<" ">> \o p[j]
      BY <1>4, <1>5, Zenon DEF Cat
  <2> HIDE DEF s, p
  <2> QED
      BY <2>1, <2>2, Zenon DEF Joins
<1> QED
    BY <1>4, <1>8, <1>9

\* What is put together of a cookie for its hash.
Hashed(cookies, i) ==
    (IF i = 1 THEN <<"[">> ELSE <<" ", "[">>)
        \o cookies[i][1] \o <<" ">> \o cookies[i][2] \o <<"]">>

LEMMA HashedPair ==
    ASSUME NEW cookies \in Cookies, NEW i \in 1 .. Len(cookies)
    PROVE  /\ Hashed(cookies, i) = Cat(Spaced(cookies)[2 * i - 1], Spaced(cookies)[2 * i])
           /\ Hashed(cookies, i) \in Seq(Glyph)
<1> DEFINE a == cookies[i][1]
           b == cookies[i][2]
           l == <<"[">>
           r == <<"]">>
           d == <<" ">>
           x == IF i = 1 THEN l ELSE Cat(d, l)
<1>1. /\ a \in Seq(Glyph) /\ b \in Seq(Glyph)
      /\ l \in Seq(Glyph) /\ r \in Seq(Glyph) /\ d \in Seq(Glyph)
    BY CookieTexts, Marks
<1>2. Cat(d, l) = <<" ", "[">>
  <2>1. " " \in Glyph /\ "[" \in Glyph
      BY DEF Glyph
  <2> QED
      BY <2>1, TwoGlyphs DEF Cat
<1>3. Hashed(cookies, i) = Cat(Cat(Cat(Cat(x, a), d), b), r)
    BY <1>2, Zenon DEF Hashed, Cat
<1>4. /\ Spaced(cookies)[2 * i - 1] = IF i = 1 THEN Cat(l, a) ELSE Cat(d, Cat(l, a))
      /\ Spaced(cookies)[2 * i] = Cat(d, Cat(b, r))
  <2>1. (2 * i - 1 = 1 <=> i = 1) /\ 2 * i # 1
      OBVIOUS
  <2>2. /\ 2 * i - 1 \in 1 .. 2 * Len(cookies) /\ 2 * i \in 1 .. 2 * Len(cookies)
        /\ Printing(cookies)[2 * i - 1] = Cat(l, a)
        /\ Printing(cookies)[2 * i] = Cat(b, r)
      BY PrintedHalves
  <2>3. \A j \in 1 .. 2 * Len(cookies) :
           Spaced(cookies)[j] = IF j = 1 THEN Printing(cookies)[j]
                                ELSE Cat(d, Printing(cookies)[j])
      BY Zenon DEF Spaced
  <2> HIDE DEF a, b, l, r, d
  <2> QED
      BY <2>1, <2>2, <2>3, Zenon
<1> HIDE DEF a, b, l, r, d
<1>5. /\ Cat(l, a) \in Seq(Glyph) /\ Cat(d, l) \in Seq(Glyph) /\ Cat(b, r) \in Seq(Glyph)
      /\ Cat(Cat(d, l), a) = Cat(d, Cat(l, a))
    BY <1>1, CatThree
<1>6. x \in Seq(Glyph) /\ Cat(x, a) = IF i = 1 THEN Cat(l, a) ELSE Cat(d, Cat(l, a))
    BY <1>1, <1>5
<1> HIDE DEF x
<1>7. Cat(x, a) \in Seq(Glyph)
    BY <1>1, <1>6, CatThree
<1> DEFINE y == Cat(x, a)
<1>8. y \in Seq(Glyph)
    BY <1>7
<1> HIDE DEF y
<1>9. Cat(Cat(Cat(y, d), b), r) = Cat(y, Cat(d, Cat(b, r)))
    BY <1>1, <1>8, CatFour
<1>10. Cat(d, Cat(b, r)) \in Seq(Glyph)
    BY <1>1, <1>5, CatThree
<1>11. Cat(y, Cat(d, Cat(b, r))) \in Seq(Glyph)
    BY <1>8, <1>10, CatThree
<1>12. Hashed(cookies, i) = Cat(y, Cat(d, Cat(b, r)))
    BY <1>3, <1>9 DEF y
<1>13. y = Spaced(cookies)[2 * i - 1]
    BY <1>4, <1>6 DEF y
<1> QED
    BY <1>4, <1>11, <1>12, <1>13

\* What is hashed, without the brackets around it.
Inner(cookies) == FlattenSeq([i \in DOMAIN cookies |-> Hashed(cookies, i)])

LEMMA HashedWhole ==
    ASSUME NEW cookies \in Cookies
    PROVE  CookiesHash(cookies) = Cat(Cat(<<"[">>, Inner(cookies)), <<"]">>)
    BY Zenon DEF CookiesHash, Inner, Hashed, Cat

LEMMA InnerSplit ==
    ASSUME NEW cookies \in Cookies,
           Spaceless(cookies)
    PROVE  /\ Inner(cookies) \in Seq(Glyph)
           /\ cookies # <<>> => Split(Inner(cookies), " ") = Printing(cookies)
           /\ cookies = <<>> => Inner(cookies) = <<>>
<1> DEFINE n == Len(cookies)
           A == [i \in 1 .. n |-> Hashed(cookies, i)]
           B == Spaced(cookies)
<1>1. n \in Nat /\ DOMAIN cookies = 1 .. n
    BY CookieTexts
<1>2. A \in Seq(Seq(Glyph)) /\ Len(A) = n /\ \A i \in 1 .. n : A[i] = Hashed(cookies, i)
  <2>1. \A i \in 1 .. n : A[i] = Hashed(cookies, i)
      BY Zenon
  <2>2. A = [i \in 1 .. n |-> A[i]]
      BY Zenon
  <2>3. \A i \in 1 .. n : A[i] \in Seq(Glyph)
      BY <2>1, HashedPair
  <2> HIDE DEF A, n
  <2> QED
      BY <1>1, <2>1, <2>2, <2>3, Listed
<1>3. Inner(cookies) = FlattenSeq(A)
    BY <1>1, Zenon DEF Inner
<1>4. /\ B \in Seq(Seq(Glyph)) /\ Len(B) = 2 * n /\ Len(Printing(cookies)) = 2 * n
      /\ Printing(cookies) \in Seq(Seq(Glyph))
      /\ Joins(B, Printing(cookies), " ")
    BY PrintingTexts
<1>5. \A i \in 1 .. n : A[i] = Cat(B[2 * i - 1], B[2 * i])
    BY <1>2, HashedPair
<1> HIDE DEF A, B
<1>6. FlattenSeq(A) = FlattenSeq(B) /\ FlattenSeq(A) \in Seq(Glyph)
  <2> DEFINE m == Len(A)
  <2>1. Len(B) = 2 * m /\ \A i \in 1 .. m : A[i] = Cat(B[2 * i - 1], B[2 * i])
      BY <1>2, <1>4, <1>5
  <2> QED
      BY <1>2, <1>4, <2>1, TwoByTwo, Zenon
<1>7. ASSUME cookies # <<>>
      PROVE  Split(FlattenSeq(B), " ") = Printing(cookies)
  <2>1. n # 0
      BY <1>7, EmptySeq DEF Cookies
  <2>2. Printing(cookies) # <<>>
    <3> DEFINE p == Printing(cookies)
    <3>1. Len(p) = 2 * n
        BY <1>4
    <3>2. 2 * n # 0
        BY <1>1, <2>1
    <3>3. Len(<<>>) = 0
        OBVIOUS
    <3> QED
        BY <3>1, <3>2, <3>3, Zenon
  <2> QED
      BY <1>4, <2>2, Marks, JoinSplit, Zenon
<1>8. ASSUME cookies = <<>>
      PROVE  FlattenSeq(A) = <<>>
  <2>1. Len(A) = 0
      BY <1>2, <1>8, EmptySeq
  <2>2. PICK w \in [0 .. Len(A) -> Seq(Glyph)] : Flattens(w, A)
      BY <1>2, FlattenSteps
  <2> QED
      BY <2>1, <2>2 DEF Flattens
<1> QED
    BY <1>3, <1>6, <1>7, <1>8

\* A list that has no cookie is not hashed as one that has some.
LEMMA NoneHashed ==
    ASSUME NEW c \in Cookies, NEW d \in Cookies, Spaceless(c), Spaceless(d),
           c = <<>>, d # <<>>
    PROVE  Inner(c) # Inner(d)
<1> SUFFICES ASSUME Inner(c) = Inner(d) PROVE FALSE
    OBVIOUS
<1>1. Inner(c) = <<>>
    BY InnerSplit
<1>2. Split(Inner(d), " ") = Printing(d)
    BY InnerSplit
<1>3. Len(d) \in Nat /\ Len(d) # 0
  <2>1. Len(d) \in Nat
      BY CookieTexts
  <2>2. Len(d) # 0
      BY EmptySeq DEF Cookies
  <2> QED
      BY <2>1, <2>2
<1>4. Len(Printing(d)) = 2 * Len(d)
    BY PrintingTexts
<1>5. Count(" ", <<>>, 0) = 0
  <2>1. {j \in 1 .. 0 : <<>>[j] = " "} = {}
      OBVIOUS
  <2> QED
      BY <2>1, FS_EmptySet DEF Count
<1>6. DOMAIN Split(<<>>, " ") = 1 .. 1
  <2>1. Len(<<>>) = 0
      OBVIOUS
  <2>2. DOMAIN Split(<<>>, " ") = 1 .. Count(" ", <<>>, Len(<<>>)) + 1
      BY Zenon DEF Split
  <2>3. 0 + 1 = 1
      OBVIOUS
  <2> QED
      BY <1>5, <2>1, <2>2, <2>3, Zenon
<1>7. DOMAIN Printing(d) = 1 .. 2 * Len(d)
    BY DEF Printing
<1>8. 1 .. 1 = 1 .. 2 * Len(d)
    BY <1>1, <1>2, <1>6, <1>7, Zenon
<1> DEFINE k == Len(d)
<1>9. k \in Nat /\ k # 0 /\ 1 .. 1 = 1 .. 2 * k
    BY <1>3, <1>8
<1> HIDE DEF k
<1>10. 2 \in 1 .. 2 * k /\ 2 \notin 1 .. 1
    BY <1>9
<1> QED
    BY <1>9, <1>10

LEMMA PairEqual ==
    ASSUME NEW c, NEW d, c = <<c[1], c[2]>>, d = <<d[1], d[2]>>, c[1] = d[1], c[2] = d[2]
    PROVE  c = d
    BY Zenon

\* The cookie store's key tells lists apart in which no name or value has a space:
\* no brackets in them can make one list print as another.
THEOREM PlainHash ==
    ASSUME NEW c \in Cookies, NEW d \in Cookies, Spaceless(c), Spaceless(d),
           CookiesHash(c) = CookiesHash(d)
    PROVE  c = d
<1>1. Inner(c) = Inner(d)
  <2> DEFINE l == <<"[">>
             r == <<"]">>
             x == Cat(l, Inner(c))
             y == Cat(l, Inner(d))
  <2>1. /\ l \in Seq(Glyph) /\ r \in Seq(Glyph)
        /\ Inner(c) \in Seq(Glyph) /\ Inner(d) \in Seq(Glyph)
      BY Marks, InnerSplit
  <2>2. Cat(x, r) = Cat(y, r)
      BY HashedWhole
  <2> HIDE DEF l, r
  <2>3. x \in Seq(Glyph) /\ y \in Seq(Glyph)
      BY <2>1, CatThree
  <2>4. x = y
    <3> HIDE DEF x, y
    <3> QED
        BY <2>1, <2>2, <2>3, CatCancel
  <2> QED
      BY <2>1, <2>4, CatCancel
<1>2. CASE c = <<>> \/ d = <<>>
  <2>1. ~(c = <<>> /\ d # <<>>)
      BY <1>1, NoneHashed
  <2>2. ~(d = <<>> /\ c # <<>>)
      BY <1>1, NoneHashed
  <2> QED
      BY <1>2, <2>1, <2>2
<1>3. CASE c # <<>> /\ d # <<>>
  <2>1. Printing(c) = Printing(d)
    <3>1. Split(Inner(c), " ") = Printing(c) /\ Split(Inner(d), " ") = Printing(d)
        BY <1>3, InnerSplit
    <3> QED
        BY <1>1, <3>1
  <2>2. Len(c) = Len(d) /\ Len(c) \in Nat
    <3>1. Len(c) \in Nat /\ Len(d) \in Nat
        BY CookieTexts
    <3>2. 2 * Len(c) = 2 * Len(d)
        BY <2>1, PrintingTexts
    <3> QED
        BY <3>1, <3>2
  <2>3. ASSUME NEW i \in 1 .. Len(c)
        PROVE  c[i] = d[i]
    <3>1. i \in 1 .. Len(d)
        BY <2>2
    <3> DEFINE l == <<"[">>
               r == <<"]">>
    <3>2. /\ Printing(c)[2 * i - 1] = Cat(l, c[i][1])
          /\ Printing(c)[2 * i] = Cat(c[i][2], r)
          /\ Printing(d)[2 * i - 1] = Cat(l, d[i][1])
          /\ Printing(d)[2 * i] = Cat(d[i][2], r)
        BY <3>1, PrintedHalves
    <3>3. /\ c[i][1] \in Seq(Glyph) /\ c[i][2] \in Seq(Glyph)
          /\ d[i][1] \in Seq(Glyph) /\ d[i][2] \in Seq(Glyph)
          /\ c[i] = <<c[i][1], c[i][2]>> /\ d[i] = <<d[i][1], d[i][2]>>
        BY <3>1, CookieTexts
    <3>4. l \in Seq(Glyph) /\ r \in Seq(Glyph)
        BY Marks
    <3>5. Cat(l, c[i][1]) = Cat(l, d[i][1]) /\ Cat(c[i][2], r) = Cat(d[i][2], r)
        BY <2>1, <3>2
    <3> HIDE DEF l, r
    <3>6. c[i][1] = d[i][1] /\ c[i][2] = d[i][2]
        BY <3>3, <3>4, <3>5, CatCancel
    <3> QED
        BY <3>3, <3>6, PairEqual, Zenon
  <2> QED
      BY <2>2, <2>3, SeqEqual DEF Cookies
<1> QED
    BY <1>2, <1>3

-----------------------------------------------------------------------------
(* Types *)

USE DEF Program, Idle, Goto, mainVars, webVars, cbVars, dataVars

LEMMA CookieLists ==
    /\ Len(SiteCookies) \in Nat /\ 0 \in 0 .. Len(SiteCookies)
    /\ \A n \in DOMAIN SiteCookies : n \in 0 .. Len(SiteCookies)
BY LenProperties, ProgramsAssumption

LEMMA NoneSent == <<>> \in SentLists
BY DEF SentLists

LEMMA FoundLists ==
    ASSUME TypeOK, NEW r \in Req, NEW answers \in BOOLEAN
    PROVE  GetCookies(r, answers) \in SentLists
<1>1. ask \in Choice /\ store[r] \in 0 .. Len(SiteCookies)
    BY DEF TypeOK
<1>2. store[r] # 0 => store[r] \in DOMAIN SiteCookies
    BY <1>1, LenProperties, ProgramsAssumption
<1>3. Client(ask, r)[2] \in SentLists
    BY <1>1, SMT DEF SentLists
<1>4. store[r] # 0 => Readings[store[r]] \in SentLists
    BY <1>2, SMT DEF SentLists
<1> QED
    BY <1>3, <1>4, NoneSent, Zenon DEF GetCookies

LEMMA InitTypeOK ==
    ASSUME Init PROVE TypeOK
<1>1. /\ at \in [Program -> {"boot", "run", "returned", "closing", "unwind", "panic", "down"}]
      /\ signalled \in [Program -> BOOLEAN] /\ listening \in BOOLEAN /\ err \in BOOLEAN
    BY DEF Init
<1>2. /\ stage \in [Program -> Nat]
      /\ store \in [Req -> 0 .. Len(SiteCookies)] /\ saved \in [Req -> 0 .. Len(SiteCookies)]
    BY CookieLists DEF Init
<1> QED
    BY <1>1, <1>2, NoneSent DEF Init, TypeOK

\* What a fetch may do to the cookie store.
LEMMA KeepTypes ==
    ASSUME TypeOK, KeepCookies
    PROVE  /\ store' \in [Req -> 0 .. Len(SiteCookies)]
           /\ saved' \in [Req -> 0 .. Len(SiteCookies)]
<1>1. ASSUME NEW n \in DOMAIN SiteCookies, UpdateCookies(cb.task, n)
      PROVE  /\ store' \in [Req -> 0 .. Len(SiteCookies)]
             /\ saved' \in [Req -> 0 .. Len(SiteCookies)]
  <2>1. n \in 0 .. Len(SiteCookies)
      BY LenProperties, ProgramsAssumption
  <2> QED
      BY <1>1, <2>1 DEF TypeOK, UpdateCookies
<1> QED
    BY <1>1 DEF TypeOK, KeepCookies

LEMMA MainTypeOK ==
    ASSUME TypeOK, NEW p \in Program, Main(p)
    PROVE  TypeOK'
<1>1. CASE Boot(p)
  <2>1. stage' \in [Program -> Nat]
      BY <1>1 DEF TypeOK, Boot
  <2>2. listening' \in BOOLEAN
      BY <1>1, Zenon DEF TypeOK, Boot
  <2>3. /\ at' \in [Program -> {"boot", "run", "returned", "closing", "unwind", "panic", "down"}]
        /\ at["worker"] = "boot" \/ at'["worker"] = at["worker"]
      BY <1>1 DEF TypeOK, Boot
  <2>4. UNCHANGED <<ask, signalled, webVars, queue, cbVars, dataVars, put, cut>>
      BY <1>1, Zenon DEF Boot
  <2> QED
      BY <2>1, <2>2, <2>3, <2>4 DEF TypeOK
<1>2. CASE Exit(p)
  <2>1. /\ at' \in [Program -> {"boot", "run", "returned", "closing", "unwind", "panic", "down"}]
        /\ p = "worker" \/ at'["worker"] = at["worker"]
      BY <1>2 DEF TypeOK, Exit
  <2>2. stage' \in [Program -> Nat] /\ signalled' \in [Program -> BOOLEAN]
      BY <1>2 DEF TypeOK, Exit
  <2>3. req' \in [Req -> {"new", "refused", "waiting", "answered", "error", "cut"}]
      BY <1>2 DEF TypeOK, Exit
  <2>4. (p = "worker" /\ cb' = Idle /\ err' = FALSE) \/ (p # "worker" /\ UNCHANGED <<cb, err>>)
      BY <1>2 DEF Exit
  <2>5. UNCHANGED <<ask, listening, ans, queue, dataVars, put, cut>>
      BY <1>2, Zenon DEF Exit
  <2>6. /\ cb' \in [at : {"idle", "run", "check", "ack", "put"}, task : Req \cup {None},
                  sent : SentLists, res : {"none", "result", "null", "error"}]
        /\ cb'.at # "idle" =>
              cb'.task # None /\ at'["worker"] \in {"run", "returned", "unwind", "panic"}
        /\ err' \in BOOLEAN
    <3>1. CASE p = "worker"
      <4>1. cb' = Idle /\ err' = FALSE
          BY <2>4, <3>1
      <4> QED
          BY <4>1, NoneSent
    <3>2. CASE p # "worker"
      <4>1. cb' = cb /\ err' = err /\ at'["worker"] = at["worker"]
          BY <2>1, <2>4, <3>2
      <4> QED
          BY <4>1 DEF TypeOK
    <3> QED
        BY <3>1, <3>2
  <2> QED
      BY <2>1, <2>2, <2>3, <2>5, <2>6 DEF TypeOK
<1>3. CASE Return
    BY <1>3 DEF TypeOK, Return
<1>4. CASE CheckErr
    BY <1>4 DEF TypeOK, CheckErr
<1>5. CASE Shutdown
    BY <1>5 DEF TypeOK, Shutdown
<1>6. CASE ShutdownEnds
    BY <1>6 DEF TypeOK, ShutdownEnds
<1>7. CASE RunTool
    BY <1>7 DEF TypeOK, RunTool
<1> QED
    BY <1>1, <1>2, <1>3, <1>4, <1>5, <1>6, <1>7 DEF Main

LEMMA NextTypeOK ==
    ASSUME TypeOK, [Next]_vars PROVE TypeOK'
<1>1. ASSUME NEW p \in Program, Main(p) PROVE TypeOK'
    BY <1>1, MainTypeOK
<1>2. ASSUME NEW p \in Program, Signal(p) PROVE TypeOK'
    BY <1>2 DEF TypeOK, Signal
<1>3. ASSUME NEW r \in Req, Handle(r) PROVE TypeOK'
  <2>1. req' \in [Req -> {"new", "refused", "waiting", "answered", "error", "cut"}]
      BY <1>3 DEF TypeOK, Handle
  <2>2. ans' \in [Req -> Req \cup {None}] /\ queue' \subseteq Req
      BY <1>3 DEF TypeOK, Handle
  <2>3. UNCHANGED <<ask, mainVars, cbVars, dataVars, put, cut>>
      BY <1>3, Zenon DEF Handle
  <2> QED
      BY <2>1, <2>2, <2>3 DEF TypeOK
<1>4. ASSUME NEW r \in Req, Timeout(r) PROVE TypeOK'
    BY <1>4 DEF TypeOK, Timeout
<1>5. ASSUME NEW r \in Req, Take(r) PROVE TypeOK'
  <2>1. PICK answers \in BOOLEAN :
          cb' = [at |-> "run", task |-> r, sent |-> GetCookies(r, answers), res |-> "none"]
      BY <1>5, Zenon DEF Take
  <2>2. /\ r # None
        /\ at["worker"] = "run" /\ cut' \subseteq Req
        /\ UNCHANGED <<ask, mainVars, webVars, queue, err, dataVars, put>>
      BY <1>5, ProgramsAssumption DEF TypeOK, Take
  <2>3. GetCookies(r, answers) \in SentLists
      BY FoundLists
  <2> QED
      BY <2>1, <2>2, <2>3 DEF TypeOK
<1>6. ASSUME NEW ok \in BOOLEAN, Run(ok) PROVE TypeOK'
  <2>1. store' \in [Req -> 0 .. Len(SiteCookies)] /\ saved' \in [Req -> 0 .. Len(SiteCookies)]
      BY <1>6, KeepTypes, Zenon DEF Run
  <2>2. err' \in BOOLEAN /\ cut' \subseteq Req
      BY <1>6 DEF TypeOK, Run
  <2>3. /\ cb' = [cb EXCEPT !.at = "check", !.sent = <<>>, !.res = IF ok THEN "result" ELSE "null"]
        /\ cb.at = "run"
        /\ UNCHANGED <<ask, mainVars, webVars, queue, bucket, put>>
      BY <1>6, Zenon DEF Run
  <2> QED
      BY <2>1, <2>2, <2>3, NoneSent DEF TypeOK
<1>7. CASE RunPanics
  <2>1. store' \in [Req -> 0 .. Len(SiteCookies)] /\ saved' \in [Req -> 0 .. Len(SiteCookies)]
      BY <1>7, KeepTypes, Zenon DEF RunPanics
  <2> QED
      BY <1>7, <2>1, NoneSent DEF TypeOK, RunPanics
<1>8. CASE Check
    BY <1>8 DEF TypeOK, Check
<1>9. CASE Ack
    BY <1>9, NoneSent DEF TypeOK, Ack
<1>10. CASE PutFails
    BY <1>10, NoneSent DEF TypeOK, PutFails
<1>11. CASE Put
  <2>1. cb.task \in Req
      BY <1>11 DEF TypeOK, Put
  <2> QED
      BY <1>11, <2>1, NoneSent DEF TypeOK, Put
<1>12. CASE UNCHANGED vars
    BY <1>12 DEF TypeOK, vars
<1> QED
    BY <1>1, <1>2, <1>3, <1>4, <1>5, <1>6, <1>7, <1>8, <1>9, <1>10, <1>11, <1>12
    DEF Next, Callback

\* Every variable of the programs, their handlers and their callback keeps its
\* type; no callback runs in a worker that is not, or no longer, up.
THEOREM TypeCorrect == Spec => []TypeOK
<1>1. Init => TypeOK
    BY InitTypeOK
<1>2. TypeOK /\ [Next]_vars => TypeOK'
    BY NextTypeOK
<1> QED
    BY <1>1, <1>2, PTL DEF Spec

-----------------------------------------------------------------------------
(* A worker that stops *)

\* Between the interrupt and the end of the process: who is still at work there
\* has been told; a task is queued until its Ack; and neither a task that was
\* cut nor a nil result gets past the context.
Stopping ==
    /\ at["worker"] = "returned" => signalled["worker"]
    /\ cb.at # "idle" /\ at["worker"] \in {"unwind", "panic"} => signalled["worker"]
    /\ cb.at \in {"run", "check"} => cb.task \in queue
    /\ cb.at = "run" => cb.task \notin cut
    /\ cb.at = "ack" /\ cb.task \in cut => signalled["worker"]
    /\ cb.at = "check" /\ cb.task \in cut => signalled["worker"]
    /\ cb.at = "check" /\ cb.res = "null" /\ ~err => signalled["worker"]
    /\ cb.at \in {"ack", "put"} /\ cb.res = "null" => signalled["worker"]

LEMMA MainStopping ==
    ASSUME TypeOK, Stopping, StopIsSafe, NEW p \in Program, Main(p)
    PROVE  Stopping' /\ StopIsSafe'
<1>1. CASE Boot(p)
  <2>1. /\ UNCHANGED <<cb, err, signalled, queue, cut, bucket>>
        /\ at[p] = "boot" /\ at'[p] \in {"boot", "run", "panic"}
        /\ \A q \in Program : q # p => at'[q] = at[q]
      BY <1>1 DEF TypeOK, Boot
  <2>2. p = "worker" => cb.at = "idle"
      BY <2>1 DEF TypeOK
  <2> QED
      BY <2>1, <2>2 DEF TypeOK, Stopping, StopIsSafe
<1>2. CASE Exit(p)
  <2>1. /\ UNCHANGED <<queue, cut, bucket>>
        /\ at'[p] = "down" /\ \A q \in Program : q # p => at'[q] = at[q]
        /\ \A q \in Program : q # p => signalled'[q] = signalled[q]
      BY <1>2 DEF TypeOK, Exit
  <2>2. CASE p = "worker"
    <3>1. cb' = Idle
        BY <1>2, <2>2 DEF Exit
    <3> QED
        BY <2>1, <2>2, <3>1 DEF Stopping, StopIsSafe
  <2>3. CASE p # "worker"
    <3>1. UNCHANGED <<cb, err>>
        BY <1>2, <2>3 DEF Exit
    <3> QED
        BY <2>1, <2>3, <3>1 DEF Stopping, StopIsSafe
  <2> QED
      BY <2>2, <2>3
<1>3. CASE Return
    BY <1>3 DEF TypeOK, Stopping, StopIsSafe, Return
<1>4. CASE CheckErr
    BY <1>4 DEF TypeOK, Stopping, StopIsSafe, CheckErr
<1>5. CASE Shutdown
    BY <1>5 DEF TypeOK, Stopping, StopIsSafe, Shutdown
<1>6. CASE ShutdownEnds
    BY <1>6 DEF TypeOK, Stopping, StopIsSafe, ShutdownEnds
<1>7. CASE RunTool
    BY <1>7 DEF TypeOK, Stopping, StopIsSafe, RunTool
<1> QED
    BY <1>1, <1>2, <1>3, <1>4, <1>5, <1>6, <1>7 DEF Main

LEMMA NextStopping ==
    ASSUME TypeOK, Stopping, StopIsSafe, [Next]_vars
    PROVE  Stopping' /\ StopIsSafe'
<1>1. ASSUME NEW p \in Program, Main(p) PROVE Stopping' /\ StopIsSafe'
    BY <1>1, MainStopping
<1>2. ASSUME NEW p \in Program, Signal(p) PROVE Stopping' /\ StopIsSafe'
    BY <1>2 DEF TypeOK, Stopping, StopIsSafe, Signal
<1>3. ASSUME NEW r \in Req, Handle(r) PROVE Stopping' /\ StopIsSafe'
  <2>1. UNCHANGED <<mainVars, cbVars, dataVars, put, cut>> /\ queue \subseteq queue'
      BY <1>3 DEF Handle
  <2> QED
      BY <2>1 DEF Stopping, StopIsSafe
<1>4. ASSUME NEW r \in Req, Timeout(r) PROVE Stopping' /\ StopIsSafe'
    BY <1>4 DEF Stopping, StopIsSafe, Timeout
<1>5. ASSUME NEW r \in Req, Take(r) PROVE Stopping' /\ StopIsSafe'
    BY <1>5 DEF TypeOK, Stopping, StopIsSafe, Take
<1>6. ASSUME NEW ok \in BOOLEAN, Run(ok) PROVE Stopping' /\ StopIsSafe'
  <2>1. /\ cb.at = "run" /\ cb'.at = "check" /\ cb'.task = cb.task
        /\ cb'.res = IF ok THEN "result" ELSE "null"
        /\ UNCHANGED <<mainVars, queue, bucket>>
      BY <1>6 DEF TypeOK, Run
  <2>2. err' = ~ok
      BY <1>6 DEF Run
  <2>3. cut' = IF ~ok /\ at["worker"] \in {"unwind", "panic"} THEN cut \cup {cb.task} ELSE cut
      BY <1>6 DEF Run
  <2>4. cb.task \in cut' => signalled["worker"]
      BY <2>1, <2>3 DEF Stopping
  <2>5. cb'.res = "null" => err'
      BY <2>1, <2>2
  <2> QED
      BY <2>1, <2>3, <2>4, <2>5 DEF Stopping, StopIsSafe
<1>7. CASE RunPanics
    BY <1>7 DEF TypeOK, Stopping, StopIsSafe, RunPanics
<1>8. CASE Check
    BY <1>8 DEF TypeOK, Stopping, StopIsSafe, Check
<1>9. CASE Ack
    BY <1>9 DEF TypeOK, Stopping, StopIsSafe, Ack
<1>10. CASE PutFails
    BY <1>10 DEF TypeOK, Stopping, StopIsSafe, PutFails
<1>11. CASE Put
  <2>1. cb.task \in Req /\ cb.res # "null"
      BY <1>11 DEF TypeOK, Stopping, Put
  <2>2. \A r \in Req : bucket'[r] \in {bucket[r], cb.task}
      BY <1>11, <2>1 DEF TypeOK, Put
  <2>3. cb' = Idle /\ UNCHANGED <<mainVars, queue, cut>>
      BY <1>11 DEF Put
  <2> QED
      BY <2>1, <2>2, <2>3, ProgramsAssumption DEF Stopping, StopIsSafe
<1>12. CASE UNCHANGED vars
    BY <1>12 DEF vars, Stopping, StopIsSafe
<1> QED
    BY <1>1, <1>2, <1>3, <1>4, <1>5, <1>6, <1>7, <1>8, <1>9, <1>10, <1>11, <1>12
    DEF Next, Callback

\* A worker that is interrupted stores no nil result and loses no task that
\* failed because connections were closed under it, for any tasks, and whenever
\* the interrupt comes.
THEOREM StoppingIsSafe == Spec => []StopIsSafe
<1>1. Init => Stopping /\ StopIsSafe
    BY ProgramsAssumption DEF Init, Stopping, StopIsSafe
<1>2. TypeOK /\ Stopping /\ StopIsSafe /\ [Next]_vars => Stopping' /\ StopIsSafe'
    BY NextStopping
<1> QED
    BY <1>1, <1>2, TypeCorrect, PTL DEF Spec

-----------------------------------------------------------------------------
(* Answers *)

LEMMA AskTasks ==
    ASSUME NEW n \in Choice, NEW r \in Req
    PROVE  /\ TaskFor(n, r) \in AnyTask
           /\ Payload(n, r) \in AnyTask
<1>1. Asks[n][r] \in Ask
    BY ElementOfSeq, LenProperties, ProgramsAssumption DEF Choice
<1> QED
    BY <1>1, TaskTexts, ReceivedTexts DEF TaskFor, Payload

LEMMA MeetsKey ==
    ASSUME NEW n \in Choice, NEW r \in Req, NEW t \in Req
    PROVE  Meets[n][r][t] <=> CacheKey(TaskFor(n, r)) = CacheKey(Payload(n, t))
BY DEF Meets

LEMMA MeetsOwn ==
    ASSUME NEW n \in Choice, NEW r \in Req, IsUtf8Task(TaskFor(n, r))
    PROVE  Meets[n][r][r]
<1>1. TaskFor(n, r) \in AnyTask
    BY AskTasks
<1>2. CacheKey(Payload(n, r)) = CacheKey(TaskFor(n, r))
    BY <1>1, Utf8Received DEF Payload
<1> QED
    BY <1>2, MeetsKey

\* What is stored or answered has the key it is looked up by; who has published
\* has a handler that waits, or that has stopped waiting.
Answering ==
    /\ \A r \in Req : bucket[r] \in Req => Meets[ask][r][bucket[r]]
    /\ \A r \in Req : ans[r] # None => Meets[ask][r][ans[r]]
    /\ \A r \in queue : req[r] # "new"
    /\ cb.at # "idle" => req[cb.task] # "new"
    /\ \A r \in put : req[r] # "new"

LEMMA MainAnswering ==
    ASSUME TypeOK, Answering, OwnAnswerArrives, NEW p \in Program, Main(p)
    PROVE  Answering' /\ OwnAnswerArrives'
<1>1. /\ UNCHANGED <<ask, ans, queue, bucket, put>>
      /\ cb' = cb \/ cb' = Idle
      /\ \A r \in Req : req'[r] = req[r] \/ req'[r] = "cut"
    BY DEF TypeOK, Main, Boot, Exit, Return, CheckErr, Shutdown, ShutdownEnds, RunTool
<1> QED
    BY <1>1 DEF TypeOK, Answering, OwnAnswerArrives

LEMMA NextAnswering ==
    ASSUME TypeOK, Answering, OwnAnswerArrives, [Next]_vars
    PROVE  Answering' /\ OwnAnswerArrives'
<1>1. ASSUME NEW p \in Program, Main(p) PROVE Answering' /\ OwnAnswerArrives'
    BY <1>1, MainAnswering
<1>2. ASSUME NEW p \in Program, Signal(p) PROVE Answering' /\ OwnAnswerArrives'
    BY <1>2 DEF Answering, OwnAnswerArrives, Signal
<1>3. ASSUME NEW r \in Req, Handle(r) PROVE Answering' /\ OwnAnswerArrives'
  <2>1. /\ UNCHANGED <<ask, cbVars, bucket, put>>
        /\ req[r] = "new" /\ req'[r] # "new"
        /\ \A q \in Req : q # r => req'[q] = req[q] /\ ans'[q] = ans[q]
        /\ ans'[r] = ans[r] \/ (bucket[r] \in Req /\ ans'[r] = bucket[r])
        /\ queue' = queue \/ queue' = queue \cup {r}
      BY <1>3 DEF TypeOK, Handle
  <2>2. r \notin put
      BY <2>1 DEF Answering
  <2>3. \A q \in put : q # r /\ req'[q] = req[q]
      BY <2>1, <2>2 DEF TypeOK
  <2>4. OwnAnswerArrives'
      BY <2>1, <2>3 DEF OwnAnswerArrives
  <2>5. \A q \in Req : req[q] # "new" => req'[q] # "new"
      BY <2>1
  <2>6. \A q \in Req : ans'[q] # None => Meets[ask][q][ans'[q]]
      BY <2>1 DEF Answering
  <2>7. \A q \in queue' : req'[q] # "new"
      BY <2>1, <2>5 DEF TypeOK, Answering
  <2>8. (cb.at # "idle" => req'[cb.task] # "new") /\ \A q \in put : req'[q] # "new"
      BY <2>5 DEF TypeOK, Answering
  <2> QED
      BY <2>1, <2>4, <2>6, <2>7, <2>8 DEF Answering
<1>4. ASSUME NEW r \in Req, Timeout(r) PROVE Answering' /\ OwnAnswerArrives'
    BY <1>4 DEF TypeOK, Answering, OwnAnswerArrives, Timeout
<1>5. ASSUME NEW r \in Req, Take(r) PROVE Answering' /\ OwnAnswerArrives'
    BY <1>5 DEF TypeOK, Answering, OwnAnswerArrives, Take
<1>6. ASSUME NEW ok \in BOOLEAN, Run(ok) PROVE Answering' /\ OwnAnswerArrives'
  <2>1. /\ cb.at = "run" /\ cb'.task = cb.task
        /\ UNCHANGED <<ask, webVars, queue, bucket, put>>
      BY <1>6 DEF TypeOK, Run
  <2> QED
      BY <2>1 DEF Answering, OwnAnswerArrives
<1>7. CASE RunPanics
    BY <1>7 DEF TypeOK, Answering, OwnAnswerArrives, RunPanics
<1>8. CASE Check
    BY <1>8 DEF TypeOK, Answering, OwnAnswerArrives, Check
<1>9. CASE Ack
    BY <1>9 DEF TypeOK, Answering, OwnAnswerArrives, Ack
<1>10. CASE PutFails
    BY <1>10 DEF TypeOK, Answering, OwnAnswerArrives, PutFails
<1>11. CASE Put
  <2> DEFINE t == cb.task
  <2>1. t \in Req /\ req[t] # "new" /\ ask \in Choice
      BY <1>11 DEF TypeOK, Answering, Put
  <2>2. UNCHANGED <<ask, queue>> /\ put' = put \cup {t} /\ cb' = Idle
      BY <1>11 DEF Put
  <2>3. ASSUME NEW r \in Req
        PROVE  /\ bucket'[r] \in {bucket[r], Null} \/ (bucket'[r] = t /\ Meets[ask][r][t])
               /\ ans'[r] = ans[r] \/ (ans'[r] = t /\ Meets[ask][r][t])
               /\ req'[r] = req[r] \/ req'[r] \in {"error", "answered"}
               /\ Meets[ask][r][t] => req'[r] # "waiting"
      BY <1>11 DEF TypeOK, Put
  <2> HIDE DEF t
  <2>4. Answering'
    <3>1. \A r \in Req : bucket'[r] \in Req => Meets[ask][r][bucket'[r]]
        BY <2>3, ProgramsAssumption DEF Answering
    <3>2. \A r \in Req : ans'[r] # None => Meets[ask][r][ans'[r]]
        BY <2>3 DEF Answering
    <3>3. \A r \in Req : req[r] # "new" => req'[r] # "new"
        BY <2>3
    <3>4. \A r \in queue \cup put' : req'[r] # "new"
        BY <2>1, <2>2, <3>3 DEF TypeOK, Answering
    <3> QED
        BY <2>2, <3>1, <3>2, <3>4 DEF Answering
  <2>5. IsUtf8Task(TaskFor(ask, t)) => req'[t] # "waiting"
      BY <2>1, <2>3, MeetsOwn
  <2> QED
      BY <2>1, <2>2, <2>3, <2>4, <2>5 DEF TypeOK, OwnAnswerArrives
<1>12. CASE UNCHANGED vars
    BY <1>12 DEF vars, Answering, OwnAnswerArrives
<1> QED
    BY <1>1, <1>2, <1>3, <1>4, <1>5, <1>6, <1>7, <1>8, <1>9, <1>10, <1>11, <1>12
    DEF Next, Callback

LEMMA AnsweringAlways == Spec => [](TypeOK /\ Answering /\ OwnAnswerArrives)
<1>1. Init => Answering /\ OwnAnswerArrives
    BY ProgramsAssumption DEF Init, Answering, OwnAnswerArrives
<1>2. TypeOK /\ Answering /\ OwnAnswerArrives /\ [Next]_vars => Answering' /\ OwnAnswerArrives'
    BY NextAnswering
<1> QED
    BY <1>1, <1>2, TypeCorrect, PTL DEF Spec

\* Whoever waits for a result, of a task whose texts are all UTF-8, no longer
\* waits once that has been stored, for any texts a request can be made of.
THEOREM OwnAnswersArrive == Spec => []OwnAnswerArrives
BY AnsweringAlways, PTL

\* No request is answered with the result of a task of another type, or of one
\* that differs in the URL, a selector or a header, unless a text of one is
\* longer than it is in the other: for any texts at all.
THEOREM AnswersFit == Spec => []AnswerFits
<1>1. TypeOK /\ Answering => AnswerFits
  <2> SUFFICES ASSUME TypeOK, Answering, NEW r \in Req, ans[r] # None
               PROVE  LET t == Payload(ask, ans[r])
                          u == TaskFor(ask, r)
                      IN  /\ t.TaskType = u.TaskType
                          /\ SameLengths(t, u) => t.text = u.text /\ t.Headers = u.Headers
      BY DEF AnswerFits
  <2>1. ask \in Choice /\ ans[r] \in Req
      BY DEF TypeOK
  <2>2. CacheKey(TaskFor(ask, r)) = CacheKey(Payload(ask, ans[r]))
      BY <2>1, MeetsKey DEF Answering
  <2>3. TaskFor(ask, r) \in AnyTask /\ Payload(ask, ans[r]) \in AnyTask
      BY <2>1, AskTasks
  <2> QED
      BY <2>2, <2>3, KeyTells
<1> QED
    BY <1>1, AnsweringAlways, PTL

-----------------------------------------------------------------------------
(* Cookies *)

LEMMA TextGlyphs ==
    ASSUME NEW s \in Text
    PROVE  s \in Seq(Glyph)
<1>1. Len(s) \in Nat /\ s \in [1 .. Len(s) -> Char]
    BY LenProperties DEF Text
<1>2. s \in [1 .. Len(s) -> Glyph]
    BY <1>1 DEF Glyph
<1> QED
    BY <1>1, <1>2, IsASeq

\* What is sent with a task is a list of cookies.
LEMMA SentCookies ==
    ASSUME NEW n \in Choice, NEW r \in Req
    PROVE  Client(n, r)[2] \in Cookies
<1>1. Payload(n, r) \in AnyTask
    BY AskTasks
<1>2. Payload(n, r).Headers.Cookie \in Text
    BY <1>1 DEF AnyTask, Headers
<1>3. ParseCookieHeader(Payload(n, r).Headers.Cookie) \in Cookies
    BY <1>2, TextGlyphs, HeaderRead DEF Cookies
<1> QED
    BY <1>3 DEF Client

\* Clients whose cookies have no spaces share an entry only if they are one.
LEMMA PlainEntries ==
    ASSUME NEW n \in Choice, NEW r \in Req, NEW s \in Req,
           Spaceless(Client(n, r)[2]), Spaceless(Client(n, s)[2])
    PROVE  SameEntry[n][r][s] <=> SameClient[n][r][s]
<1> DEFINE c == Client(n, r)
           d == Client(n, s)
<1>1. /\ SameEntry[n][r][s] <=> StoreKey(n, r) = StoreKey(n, s)
      /\ SameClient[n][r][s] <=> c = d
    BY Zenon DEF SameEntry, SameClient
<1>2. c[2] \in Cookies /\ d[2] \in Cookies
    BY SentCookies
<1>3. c = <<c[1], c[2]>> /\ d = <<d[1], d[2]>>
    BY DEF Client
<1>4. StoreKey(n, r) = <<c[1], CookiesHash(c[2])>> /\ StoreKey(n, s) = <<d[1], CookiesHash(d[2])>>
    BY Zenon DEF StoreKey
<1> HIDE DEF c, d
<1>5. CookiesHash(c[2]) = CookiesHash(d[2]) => c[2] = d[2]
    BY <1>2, PlainHash DEF c, d
<1> QED
    BY <1>1, <1>3, <1>4, <1>5

LEMMA SameEntryBack ==
    ASSUME NEW n \in Choice, NEW r \in Req, NEW s \in Req, SameEntry[n][r][s]
    PROVE  SameEntry[n][s][r] /\ SameEntry[n][r][r]
    BY Zenon DEF SameEntry

LEMMA SharedClient ==
    ASSUME NEW n \in Choice, NEW r \in Req, NEW s \in Req, SameClient[n][r][s]
    PROVE  SameEntry[n][r][s]
<1>1. Client(n, r) = Client(n, s)
    BY Zenon DEF SameClient
<1> QED
    BY <1>1, Zenon DEF SameEntry, StoreKey

LEMMA ReadableList ==
    ASSUME NEW n \in Choice, NEW r \in Req
    PROVE  Readable[n][r] <=> Client(n, r)[2] # <<>>
    BY Zenon DEF Readable

LEMMA ReadableClient ==
    ASSUME NEW n \in Choice, NEW r \in Req, NEW s \in Req, SameClient[n][r][s], Readable[n][r]
    PROVE  Readable[n][s]
<1>1. Client(n, r) = Client(n, s)
    BY Zenon DEF SameClient
<1> QED
    BY <1>1, ReadableList

\* Nobody who shares an entry with r has a space in a cookie.
PlainGroup(r) == \A s \in Req : SameEntry[ask][r][s] => Plain(s)

\* No entry is an empty list; a list is stored only for a client whose header
\* can be read, as nothing is sent for another, and the last one is in his entry
\* if that is not shared.
Keeping ==
    /\ \A r \in Req :
          /\ store[r] # 0 => SiteCookies[store[r]] # <<>>
          /\ saved[r] # 0 => Readable[ask][r]
          /\ PlainGroup(r) => saved[r] = store[r]
    /\ cb.at = "run" /\ cb.sent # <<>> => Readable[ask][cb.task]

LEMMA PlainMeans ==
    ASSUME ask \in Choice, NEW r \in Req, Plain(r)
    PROVE  Spaceless(Client(ask, r)[2])
<1> DEFINE c == Client(ask, r)[2]
<1>1. c \in Cookies
    BY SentCookies
<1>2. DOMAIN c = 1 .. Len(c)
  <2> HIDE DEF c
  <2> QED
      BY <1>1, CookieTexts
<1>3. \A i \in 1 .. Len(c) : \A j \in {1, 2} : ~Contains(c[i][j], " ")
    BY <1>2, Zenon DEF Plain
<1> HIDE DEF c
<1>4. Spaceless(c)
    BY <1>3 DEF Spaceless
<1> QED
    BY <1>4 DEF c

LEMMA UpdateKeeping ==
    ASSUME TypeOK, Keeping, NEW x \in Req, NEW n \in DOMAIN SiteCookies,
           Readable[ask][x], UpdateCookies(x, n), UNCHANGED ask, cb'.at # "run"
    PROVE  Keeping'
<1> SUFFICES ASSUME ~UNCHANGED <<store, saved>> PROVE Keeping'
    BY DEF Keeping, PlainGroup, Plain
<1>1. ask \in Choice /\ n \in 1 .. Len(SiteCookies) /\ SiteCookies[n] # <<>>
  <2>1. ask \in Choice
      BY DEF TypeOK
  <2>2. n \in 1 .. Len(SiteCookies)
      BY LenProperties, ProgramsAssumption
  <2>3. SiteCookies[n] # <<>>
      BY Zenon DEF UpdateCookies
  <2> QED
      BY <2>1, <2>2, <2>3
<1>2. ASSUME NEW r \in Req
      PROVE  /\ store'[r] = IF SameEntry[ask][x][r] THEN n ELSE store[r]
             /\ saved'[r] = IF SameClient[ask][x][r] THEN n ELSE saved[r]
    BY DEF UpdateCookies
<1>3. ASSUME NEW r \in Req
      PROVE  store'[r] # 0 => SiteCookies[store'[r]] # <<>>
    BY <1>1, <1>2 DEF Keeping
<1>4. ASSUME NEW r \in Req
      PROVE  saved'[r] # 0 => Readable[ask][r]
  <2>1. SameClient[ask][x][r] => Readable[ask][r]
      BY <1>1, ReadableClient
  <2> QED
      BY <1>2, <2>1 DEF Keeping
<1>5. ASSUME NEW r \in Req, PlainGroup(r)
      PROVE  saved'[r] = store'[r]
  <2>1. saved[r] = store[r]
      BY <1>5 DEF Keeping
  <2>2. CASE SameEntry[ask][x][r]
    <3>1. SameEntry[ask][r][x] /\ SameEntry[ask][r][r]
        BY <1>1, <2>2, SameEntryBack
    <3>2. Plain(x) /\ Plain(r)
        BY <1>5, <3>1 DEF PlainGroup
    <3>3. SameClient[ask][x][r]
        BY <1>1, <2>2, <3>2, PlainMeans, PlainEntries
    <3> QED
        BY <1>2, <2>2, <3>3
  <2>3. CASE ~SameEntry[ask][x][r]
    <3>1. ~SameClient[ask][x][r]
        BY <1>1, <2>3, SharedClient
    <3> QED
        BY <1>2, <2>1, <2>3, <3>1
  <2> QED
      BY <2>2, <2>3
<1>6. \A r \in Req : PlainGroup(r)' <=> PlainGroup(r)
    BY Zenon DEF PlainGroup, Plain
<1> QED
    BY <1>3, <1>4, <1>5, <1>6 DEF Keeping

LEMMA NextKeeping ==
    ASSUME TypeOK, Keeping, [Next]_vars
    PROVE  Keeping'
<1>1. ASSUME UNCHANGED <<ask, store, saved>>, cb' = cb \/ cb'.at # "run" PROVE Keeping'
    BY <1>1 DEF Keeping, PlainGroup, Plain
<1>2. ASSUME NEW p \in Program, Main(p) PROVE Keeping'
  <2>1. UNCHANGED <<ask, store, saved>> /\ (cb' = cb \/ cb' = Idle)
      BY <1>2, Zenon DEF Main, Boot, Exit, Return, CheckErr, Shutdown, ShutdownEnds, RunTool
  <2> QED
      BY <1>1, <2>1
<1>3. ASSUME NEW p \in Program, Signal(p) PROVE Keeping'
    BY <1>1, <1>3, Zenon DEF Signal
<1>4. ASSUME NEW r \in Req, Handle(r) \/ Timeout(r) PROVE Keeping'
    BY <1>1, <1>4, Zenon DEF Handle, Timeout
<1>5. ASSUME NEW r \in Req, Take(r) PROVE Keeping'
  <2>1. PICK answers \in BOOLEAN :
          cb' = [at |-> "run", task |-> r, sent |-> GetCookies(r, answers), res |-> "none"]
      BY <1>5, Zenon DEF Take
  <2>2. UNCHANGED <<ask, store, saved>>
      BY <1>5, Zenon DEF Take
  <2>3. ask \in Choice
      BY DEF TypeOK
  <2>4. ~Readable[ask][r] => GetCookies(r, answers) = <<>>
      BY <2>3, ReadableList, Zenon DEF GetCookies
  <2>5. cb'.at = "run" /\ cb'.sent # <<>> => Readable'[ask'][cb'.task]
      BY <2>1, <2>2, <2>4
  <2> QED
      BY <2>2, <2>5 DEF Keeping, PlainGroup, Plain
<1>6. ASSUME cb.at = "run", KeepCookies, UNCHANGED ask, cb'.at # "run" PROVE Keeping'
  <2>1. cb.task \in Req
      BY <1>6 DEF TypeOK
  <2>2. \/ UNCHANGED <<store, saved>>
        \/ /\ Readable[ask][cb.task]
           /\ \E n \in DOMAIN SiteCookies : UpdateCookies(cb.task, n)
      BY <1>6, Zenon DEF KeepCookies, Keeping
  <2> QED
      BY <1>1, <1>6, <2>1, <2>2, UpdateKeeping
<1>7. ASSUME NEW ok \in BOOLEAN, Run(ok) PROVE Keeping'
  <2>1. cb'.at = "check"
      BY <1>7 DEF TypeOK, Run
  <2> QED
      BY <1>6, <1>7, <2>1 DEF Run
<1>8. CASE RunPanics
    BY <1>6, <1>8 DEF RunPanics
<1>9. ASSUME Check \/ Ack \/ Put \/ PutFails PROVE Keeping'
  <2>1. UNCHANGED <<ask, store, saved>>
      BY <1>9, Zenon DEF Check, Ack, Put, PutFails
  <2>2. \/ cb' = Idle
        \/ cb' = [cb EXCEPT !.at = "put"]
        \/ cb' = [cb EXCEPT !.at = "ack", !.res = IF err THEN "error" ELSE @]
      BY <1>9, Zenon DEF Check, Ack, Put, PutFails
  <2>3. cb'.at # "run"
    <3>1. CASE cb' = Idle
        BY <3>1
    <3>2. CASE cb' = [cb EXCEPT !.at = "put"]
        BY <3>2 DEF TypeOK
    <3>3. CASE cb' = [cb EXCEPT !.at = "ack", !.res = IF err THEN "error" ELSE @]
      <4> DEFINE res == IF err THEN "error" ELSE cb.res
      <4>1. cb' = [cb EXCEPT !.at = "ack", !.res = res]
          BY <3>3
      <4> HIDE DEF res
      <4> QED
          BY <4>1 DEF TypeOK
    <3> QED
        BY <2>2, <3>1, <3>2, <3>3
  <2> QED
      BY <1>1, <2>1, <2>3
<1>10. CASE UNCHANGED vars
    BY <1>1, <1>10, Zenon DEF vars
<1> QED
    BY <1>2, <1>3, <1>4, <1>5, <1>7, <1>8, <1>9, <1>10 DEF Next, Callback

\* A list from the store is what the site set, but trimmed.
LEMMA ReadFromStore ==
    ASSUME NEW n \in DOMAIN SiteCookies, SiteCookies[n] # <<>>
    PROVE  Readings[n] = Trimmed(SiteCookies[n]) /\ Readings[n] # <<>>
<1> DEFINE c == SiteCookies[n]
<1>1. c \in Seq(Text \X Text)
    BY ElementOfSeq, LenProperties, ProgramsAssumption
<1>2. c \in Seq(Seq(Glyph) \X Seq(Glyph))
  <2> HIDE DEF c
  <2>1. Len(c) \in Nat /\ c = [i \in 1 .. Len(c) |-> c[i]]
        /\ \A i \in 1 .. Len(c) : c[i] \in Text \X Text
      BY <1>1, LenProperties, ElementOfSeq
  <2>2. Text \X Text \subseteq Seq(Glyph) \X Seq(Glyph)
      BY TextGlyphs
  <2>3. \A i \in 1 .. Len(c) : c[i] \in Seq(Glyph) \X Seq(Glyph)
      BY <2>1, <2>2
  <2> QED
      BY <2>1, <2>3, Listed
<1>3. \A i \in DOMAIN c : Raw(c[i][1]) /\ Raw(c[i][2])
    BY CookieAssumption, Zenon
<1>4. Readings[n] = ParseCookieHeader(EncodeCookieHeader(c))
    BY Zenon DEF Readings
<1>5. Readings[n] = Trimmed(c)
  <2>1. c # <<>>
      OBVIOUS
  <2> HIDE DEF c
  <2> QED
      BY <1>2, <1>3, <1>4, <2>1, HeaderReadBack
<1>6. Trimmed(c) # <<>>
  <2> HIDE DEF c
  <2>1. DOMAIN c = 1 .. Len(c) /\ Len(c) \in Nat
      BY <1>1, LenProperties
  <2>2. Len(c) # 0
      BY <1>1, EmptySeq DEF c
  <2>3. DOMAIN Trimmed(c) = DOMAIN c
      BY DEF Trimmed
  <2>4. 1 \in DOMAIN Trimmed(c) /\ 1 \notin DOMAIN <<>>
      BY <2>1, <2>2, <2>3
  <2> QED
      BY <2>4, Zenon
<1> QED
    BY <1>5, <1>6 DEF c

\* A task that is run with cookies is run with those its site set last for its
\* client of which the put succeeded, trimmed, or with those of its own header;
\* and a store that answers always has some for a header that can be read: for
\* any lists of cookies, whatever characters their names and values are made of.
THEOREM CookiesAreKept == Spec => CookiesReturn
<1> DEFINE A == \A r \in Req : Take(r) =>
                    /\ Readable[ask][r] => GetCookies(r, TRUE) # <<>>
                    /\ PlainGroup(r) => cb'.sent \in {<<>>, StoredLast(r)}
<1>1. TypeOK /\ Keeping => A
  <2> SUFFICES ASSUME TypeOK, Keeping, NEW r \in Req, Take(r)
               PROVE  /\ Readable[ask][r] => GetCookies(r, TRUE) # <<>>
                      /\ PlainGroup(r) => cb'.sent \in {<<>>, StoredLast(r)}
      BY Zenon
  <2>1. ask \in Choice
      BY DEF TypeOK
  <2>2. store[r] # 0 => store[r] \in DOMAIN SiteCookies /\ SiteCookies[store[r]] # <<>>
    <3>1. store[r] \in 0 .. Len(SiteCookies)
        BY DEF TypeOK
    <3>2. DOMAIN SiteCookies = 1 .. Len(SiteCookies) /\ Len(SiteCookies) \in Nat
        BY LenProperties, ProgramsAssumption
    <3> QED
        BY <3>1, <3>2 DEF Keeping
  <2>3. store[r] # 0 => Readings[store[r]] = Trimmed(SiteCookies[store[r]])
                        /\ Readings[store[r]] # <<>>
      BY <2>2, ReadFromStore
  <2>4. Readable[ask][r] <=> Client(ask, r)[2] # <<>>
      BY <2>1, ReadableList
  <2>5. Readable[ask][r] => GetCookies(r, TRUE) # <<>>
      BY <2>3, <2>4, Zenon DEF GetCookies
  <2>6. PlainGroup(r) => cb'.sent \in {<<>>, StoredLast(r)}
    <3> HAVE PlainGroup(r)
    <3>1. saved[r] = store[r] /\ (saved[r] # 0 => Readable[ask][r])
        BY DEF Keeping
    <3>2. GetCookies(r, TRUE) = StoredLast(r)
      <4>1. CASE saved[r] = 0
          BY <3>1, <4>1, Zenon DEF StoredLast, GetCookies
      <4>2. CASE saved[r] # 0
          BY <2>3, <3>1, <4>2, Zenon DEF StoredLast, GetCookies
      <4> QED
          BY <4>1, <4>2
    <3>3. GetCookies(r, FALSE) = <<>>
        BY Zenon DEF GetCookies
    <3>4. PICK answers \in BOOLEAN :
            cb' = [at |-> "run", task |-> r, sent |-> GetCookies(r, answers), res |-> "none"]
        BY Zenon DEF Take
    <3>5. cb'.sent = GetCookies(r, answers)
        BY <3>4
    <3> QED
        BY <3>2, <3>3, <3>5, Zenon
  <2> QED
      BY <2>5, <2>6
<1>2. Init => Keeping
    BY DEF Init, Keeping
<1>3. TypeOK /\ Keeping /\ [Next]_vars => Keeping'
    BY NextKeeping
<1>4. CookiesReturn <=> [][A]_cb
    BY Zenon DEF CookiesReturn, PlainGroup
<1> HIDE DEF A
<1>5. A => [A]_cb
    OBVIOUS
<1> QED
    BY <1>1, <1>2, <1>3, <1>4, <1>5, TypeCorrect, PTL DEF Spec
=============================================================================
