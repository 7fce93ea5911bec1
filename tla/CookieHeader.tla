---------------------------- MODULE CookieHeader ----------------------------
(***************************************************************************)
(* Cookies as text (internal/cookiemgr/utils.go).  A text is a sequence of *)
(* characters; an escape such as "%3D" counts as one, and a "%" on its own *)
(* is one that begins no escape.  A list of cookies is a sequence of pairs *)
(* of texts, name and value; a header that cannot be read gives <<>>,      *)
(* which no header that can be read gives.                                 *)
(***************************************************************************)
EXTENDS Naturals, Sequences, FiniteSets, SequencesExt

\* What net/url writes for a character, and what it reads an escape as.
Escaped(c) == CASE c = " " -> "+"   [] c = "=" -> "%3D" [] c = ";" -> "%3B"
                [] c = "+" -> "%2B" [] c = "%" -> "%25" [] OTHER -> c
Unescaped(c) == CASE c \in {"+", "%20"} -> " " [] c = "%3D" -> "=" [] c = "%3B" -> ";"
                  [] c = "%2B" -> "+"          [] c = "%25" -> "%" [] OTHER -> c

\* A text that is not from a header: no character in it stands for an escape.
Raw(s) == \A i \in DOMAIN s : s[i] \notin {"%20", "%3D", "%3B", "%2B", "%25"}

QueryEscape(s)   == [i \in DOMAIN s |-> Escaped(s[i])]
QueryUnescape(s) == [i \in DOMAIN s |-> Unescaped(s[i])]

Count(c, s, i) == Cardinality({j \in 1 .. i : s[j] = c})

\* Where the n-th c of s is: 0 for none, and past its end if there are fewer.
Place(n, c, s) == Cardinality({i \in 0 .. Len(s) : Count(c, s, i) < n})

\* The parts of s between its characters c; there is always at least one.
Split(s, c) ==
    [n \in 1 .. Count(c, s, Len(s)) + 1 |-> SubSeq(s, Place(n - 1, c, s) + 1, Place(n, c, s) - 1)]

TrimSpace(s) ==
    LET Blank(i, j) == \A k \in i .. j : s[k] = " "
        leading == Cardinality({i \in DOMAIN s : Blank(1, i)})
        kept    == Cardinality({i \in DOMAIN s : ~Blank(1, i) /\ ~Blank(i, Len(s))})
    IN  SubSeq(s, leading + 1, leading + kept)

\* A part of a header is read up to its first "=", and the rest is the value.
ParseCookie(part) ==
    LET eq == Place(1, "=", part)
    IN  <<TrimSpace(QueryUnescape(SubSeq(part, 1, eq - 1))),
          TrimSpace(QueryUnescape(SubSeq(part, eq + 1, Len(part))))>>

\* One part that cannot be read is enough for none to be.
ParseCookieHeader(header) ==
    LET parts == Split(header, ";")
    IN  IF \A i \in DOMAIN parts : Contains(parts[i], "=") /\ ~Contains(parts[i], "%")
        THEN [i \in DOMAIN parts |-> ParseCookie(parts[i])]
        ELSE <<>>

\* Mutant of EncodeCookieHeader: names and values as they are.
EncodeUnescaped(cookies) ==
    FlattenSeq([i \in DOMAIN cookies |->
        (IF i = 1 THEN <<>> ELSE <<";", " ">>) \o cookies[i][1] \o <<"=">> \o cookies[i][2]])

EncodeCookieHeader(cookies) ==
    FlattenSeq([i \in DOMAIN cookies |->
        (IF i = 1 THEN <<>> ELSE <<";", " ">>)
        \o QueryEscape(cookies[i][1]) \o <<"=">> \o QueryEscape(cookies[i][2])])

\* What is hashed is the list as fmt prints it, which only a space between
\* name and value takes apart.  The hash itself tells all texts apart.
CookiesHash(cookies) ==
    <<"[">> \o FlattenSeq([i \in DOMAIN cookies |->
        (IF i = 1 THEN <<"[">> ELSE <<" ", "[">>)
        \o cookies[i][1] \o <<" ">> \o cookies[i][2] \o <<"]">>]) \o <<"]">>

\* A list of cookies as it comes back from a header: names and values trimmed.
Trimmed(cookies) ==
    [i \in DOMAIN cookies |-> <<TrimSpace(cookies[i][1]), TrimSpace(cookies[i][2])>>]
=============================================================================
