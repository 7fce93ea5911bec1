----------------------------- MODULE FeedProofs -----------------------------
(***************************************************************************)
(* Proofs about Feed, for pages of any length and posts of any content.    *)
(* The first part is about extractContent, a recursive function over the   *)
(* nodes of a post: it keeps what it should keep, in order, and its tags   *)
(* closed.  The second part is about the two loops: the feed has the good  *)
(* posts and no others, and where nothing was left out an author's link is *)
(* his own.                                                                *)
(***************************************************************************)
EXTENDS Feed, FiniteSetTheorems, TLAPS

-----------------------------------------------------------------------------
(* Induction.  The library states it for predicates, which no prover here  *)
(* instantiates; for sets it follows from the order of the numbers.        *)

\* A set of numbers that is not empty has a least one.
LEMMA Least ==
    ASSUME NEW T \in SUBSET Nat, T # {}
    PROVE  \E x \in T : \A y \in T : x <= y
<1>1. PICK x \in T : \A y \in T : <<y, x>> \notin OpToRel(<, Nat)
    BY NatLessThanWellFounded, WFMin, Zenon
<1>2. \A y \in T : <<y, x>> \in Nat \X Nat
    OBVIOUS
<1>3. \A y \in T : ~(y < x)
    BY <1>1, <1>2, Zenon DEF OpToRel
<1>4. x \in Nat /\ \A y \in T : y \in Nat
    OBVIOUS
<1> QED
    BY <1>3, <1>4

\* Induction up to a number, with a set in the place of a predicate.
LEMMA Induction ==
    ASSUME NEW m \in Nat, NEW T, 0 \in T, \A k \in 0 .. m - 1 : k \in T => k + 1 \in T
    PROVE  \A k \in 0 .. m : k \in T
<1> DEFINE U == {k \in 0 .. m : k \notin T}
<1> SUFFICES ASSUME U # {} PROVE FALSE
    OBVIOUS
<1>1. U \in SUBSET Nat
    OBVIOUS
<1>2. PICK x \in U : \A y \in U : x <= y
  <2> HIDE DEF U
  <2> QED
      BY <1>1, Least
<1>3. x - 1 \in 0 .. m - 1 /\ x - 1 \in T
    BY <1>2
<1>4. x - 1 + 1 \in T
    BY <1>3
<1> QED
    BY <1>2, <1>4

\* w starts with base, and each value is made by step from the one before.
Follows(w, m, base, step) ==
    /\ w[0] = base
    /\ \A k \in 1 .. m : w[k] = step[k][w[k - 1]]

\* A function that is defined by recursion exists.
LEMMA Recursion ==
    ASSUME NEW m \in Nat, NEW X, NEW base \in X, NEW step \in [1 .. m -> [X -> X]]
    PROVE  \E w \in [0 .. m -> X] : Follows(w, m, base, step)
<1> DEFINE Runs(k, w) == /\ w \in [0 .. k -> X]
                          /\ w[0] = base
                          /\ \A l \in 1 .. k : w[l] = step[l][w[l - 1]]
           T == {k \in 0 .. m : \E w \in [0 .. k -> X] : Runs(k, w)}
<1>1. 0 \in T
  <2>1. Runs(0, [l \in 0 .. 0 |-> base])
      OBVIOUS
  <2>2. [l \in 0 .. 0 |-> base] \in [0 .. 0 -> X]
      OBVIOUS
  <2>3. 0 \in 0 .. m
      OBVIOUS
  <2> HIDE DEF Runs
  <2> QED
      BY <2>1, <2>2, <2>3
<1>2. ASSUME NEW k \in 0 .. m - 1, k \in T
      PROVE  k + 1 \in T
  <2>1. PICK w \in [0 .. k -> X] : Runs(k, w)
      BY <1>2
  <2> DEFINE v == [l \in 0 .. k + 1 |-> IF l = k + 1 THEN step[k + 1][w[k]] ELSE w[l]]
  <2>2. v \in [0 .. k + 1 -> X]
    <3>1. w[k] \in X /\ k + 1 \in 1 .. m
        BY <2>1
    <3>2. step[k + 1][w[k]] \in X
        BY <3>1
    <3>3. \A l \in 0 .. k + 1 : l # k + 1 => w[l] \in X
        BY <2>1
    <3> QED
        BY <3>2, <3>3
  <2>3. v[0] = base
      BY <2>1
  <2>4. ASSUME NEW l \in 1 .. k + 1
        PROVE  v[l] = step[l][v[l - 1]]
    <3>1. CASE l = k + 1
      <4>1. v[l] = step[k + 1][w[k]] /\ v[l - 1] = w[k]
          BY <3>1
      <4> QED
          BY <3>1, <4>1
    <3>2. CASE l # k + 1
      <4>1. v[l] = w[l] /\ v[l - 1] = w[l - 1]
          BY <3>2
      <4>2. w[l] = step[l][w[l - 1]]
          BY <2>1, <3>2
      <4> QED
          BY <4>1, <4>2
    <3> QED
        BY <3>1, <3>2
  <2>5. Runs(k + 1, v)
      BY <2>2, <2>3, <2>4
  <2>6. k + 1 \in 0 .. m
      OBVIOUS
  <2> HIDE DEF v, Runs
  <2> QED
      BY <2>2, <2>5, <2>6
<1>3. m \in T
  <2> HIDE DEF T
  <2>1. \A k \in 0 .. m : k \in T
      BY <1>1, <1>2, Induction
  <2>2. m \in 0 .. m
      OBVIOUS
  <2> QED
      BY <2>1, <2>2
<1> QED
    BY <1>3 DEF Follows

-----------------------------------------------------------------------------
(* extractContent: the walk over a post's nodes *)

Content == [blocks : Seq(Seq(Nat)), paragraph : Seq(Nat)]

Walk(ts) ==
    LET walk[k \in 0..Len(ts)] ==
          IF k = 0 THEN Begin ELSE Visit(walk[k - 1], ts[k], k)
    IN  walk

LEMMA FinishType ==
    ASSUME NEW c \in Content
    PROVE  /\ FinishParagraph(c) \in Content
           /\ FinishParagraph(c).paragraph = <<>>
<1>1. <<>> \in Seq(Nat)
    OBVIOUS
<1>2. Append(c.blocks, c.paragraph) \in Seq(Seq(Nat))
    BY DEF Content
<1> QED
    BY <1>1, <1>2 DEF FinishParagraph, Content

LEMMA ImageType ==
    ASSUME NEW c \in Content, NEW k \in Nat
    PROVE  [c EXCEPT !.blocks = Append(@, <<k>>)] \in Content
<1>1. <<k>> \in Seq(Nat)
    OBVIOUS
<1>2. Append(c.blocks, <<k>>) \in Seq(Seq(Nat))
    BY <1>1 DEF Content
<1> QED
    BY <1>2 DEF Content

LEMMA NoteType ==
    ASSUME NEW c \in Content, NEW k \in Nat
    PROVE  [c EXCEPT !.paragraph = Append(@, k)] \in Content
<1>1. Append(c.paragraph, k) \in Seq(Nat)
    BY DEF Content
<1> QED
    BY <1>1 DEF Content

LEMMA VisitType ==
    ASSUME NEW c \in Content, NEW t \in Token, NEW k \in Nat
    PROVE  Visit(c, t, k) \in Content
<1>1. AddImage(c, k) \in Content
    BY FinishType, ImageType DEF AddImage
<1>2. FinishParagraph(c) \in Content
    BY FinishType
<1>3. [c EXCEPT !.paragraph = Append(@, k)] \in Content
    BY NoteType
<1> QED
    BY <1>1, <1>2, <1>3 DEF Visit, Token

\* The walk is what its recursive definition says.
LEMMA WalkSteps ==
    ASSUME NEW ts \in Seq(Token)
    PROVE  /\ Len(ts) \in Nat
           /\ Walk(ts) \in [0..Len(ts) -> Content]
           /\ Walk(ts)[0] = Begin
           /\ \A k \in 1..Len(ts) : Walk(ts)[k] = Visit(Walk(ts)[k - 1], ts[k], k)
           /\ ExtractContent(ts) = FinishParagraph(Walk(ts)[Len(ts)]).blocks
<1> DEFINE len == Len(ts)
           step == [k \in 1..len |-> [c \in Content |-> Visit(c, ts[k], k)]]
           F(w) == [k \in 0..len |-> IF k = 0 THEN Begin ELSE Visit(w[k - 1], ts[k], k)]
<1>1. len \in Nat /\ \A k \in 1..len : ts[k] \in Token
    OBVIOUS
<1>2. step \in [1..len -> [Content -> Content]]
    BY <1>1, VisitType
<1>3. Begin \in Content
    BY DEF Begin, Content
<1>4. PICK w \in [0..len -> Content] : Follows(w, len, Begin, step)
  <2> HIDE DEF step, len
  <2> QED
      BY <1>1, <1>2, <1>3, Recursion
<1>5. ASSUME NEW k \in 1..len
      PROVE  w[k] = Visit(w[k - 1], ts[k], k)
  <2>1. w[k - 1] \in Content
      BY <1>1, <1>4
  <2> QED
      BY <1>4, <2>1 DEF Follows
<1>6. w = F(w)
    BY <1>1, <1>4, <1>5 DEF Follows
<1>7. Walk(ts) = CHOOSE v : v = F(v)
    BY Zenon DEF Walk
<1>8. Walk(ts) = F(Walk(ts))
  <2> HIDE DEF F
  <2> QED
      BY <1>6, <1>7, Zenon
<1>9. \A k \in 0..len : Walk(ts)[k] = IF k = 0 THEN Begin ELSE Visit(Walk(ts)[k - 1], ts[k], k)
    BY <1>8
<1>10. Walk(ts) = w
  <2> DEFINE T == {k \in 0..len : Walk(ts)[k] = w[k]}
  <2>1. 0 \in T
      BY <1>1, <1>4, <1>9 DEF Follows
  <2>2. ASSUME NEW k \in 0..len - 1, k \in T
        PROVE  k + 1 \in T
    <3>1. k + 1 \in 1..len /\ k + 1 - 1 = k
        BY <1>1
    <3>2. Walk(ts)[k + 1] = Visit(Walk(ts)[k], ts[k + 1], k + 1)
        BY <1>1, <1>9, <3>1
    <3>3. w[k + 1] = Visit(w[k], ts[k + 1], k + 1)
        BY <1>5, <3>1
    <3> QED
        BY <2>2, <3>1, <3>2, <3>3
  <2>3. \A k \in 0..len : k \in T
    <3> HIDE DEF T, len
    <3> QED
        BY <1>1, <2>1, <2>2, Induction
  <2>4. Walk(ts) = [k \in 0..len |-> Walk(ts)[k]]
      BY <1>8
  <2> QED
      BY <2>3, <2>4
<1>11. ExtractContent(ts) = FinishParagraph(Walk(ts)[Len(ts)]).blocks
    BY Zenon DEF ExtractContent, Walk
<1> QED
    BY <1>1, <1>4, <1>5, <1>10, <1>11 DEF Follows

\* What is in the content so far is in the order of the walk, and is from it.
OrderInv(c, k) ==
    /\ \A a, b \in DOMAIN c.blocks : \A x \in DOMAIN c.blocks[a], y \in DOMAIN c.blocks[b] :
          a < b \/ (a = b /\ x < y) => c.blocks[a][x] < c.blocks[b][y]
    /\ \A x, y \in DOMAIN c.paragraph : x < y => c.paragraph[x] < c.paragraph[y]
    /\ \A a \in DOMAIN c.blocks : \A x \in DOMAIN c.blocks[a] :
          /\ c.blocks[a][x] <= k
          /\ \A y \in DOMAIN c.paragraph : c.blocks[a][x] < c.paragraph[y]
    /\ \A y \in DOMAIN c.paragraph : c.paragraph[y] <= k

\* Is the token at j in the content so far?
Has(c, j) ==
    \/ \E a \in DOMAIN c.blocks : \E x \in DOMAIN c.blocks[a] : c.blocks[a][x] = j
    \/ \E x \in DOMAIN c.paragraph : c.paragraph[x] = j

\* A block that comes last.
LEMMA LastBlock ==
    ASSUME NEW b \in Seq(Seq(Nat)), NEW s \in Seq(Nat)
    PROVE  /\ Len(b) \in Nat /\ DOMAIN b = 1..Len(b)
           /\ DOMAIN Append(b, s) = 1..Len(b) + 1
           /\ \A a \in DOMAIN Append(b, s) :
                Append(b, s)[a] = IF a = Len(b) + 1 THEN s ELSE b[a]
           /\ \A a \in DOMAIN b : b[a] \in Seq(Nat)
OBVIOUS

LEMMA FinishOrder ==
    ASSUME NEW c \in Content, NEW k \in Nat, OrderInv(c, k)
    PROVE  /\ OrderInv(FinishParagraph(c), k)
           /\ \A j : Has(c, j) <=> Has(FinishParagraph(c), j)
<1>1. CASE c.paragraph = <<>>
    BY <1>1 DEF FinishParagraph
<1>2. CASE c.paragraph # <<>>
  <2> DEFINE b == c.blocks
             s == c.paragraph
             d == Append(b, s)
  <2>1. b \in Seq(Seq(Nat)) /\ s \in Seq(Nat)
      BY DEF Content
  <2>2. /\ Len(b) \in Nat /\ DOMAIN b = 1..Len(b) /\ DOMAIN d = 1..Len(b) + 1
        /\ \A a \in DOMAIN d : d[a] = IF a = Len(b) + 1 THEN s ELSE b[a]
      BY <2>1, LastBlock
  <2>3. FinishParagraph(c).blocks = d /\ FinishParagraph(c).paragraph = <<>>
      BY <1>2 DEF FinishParagraph
  <2>4. /\ \A a1, a2 \in DOMAIN b : \A x \in DOMAIN b[a1], y \in DOMAIN b[a2] :
              a1 < a2 \/ (a1 = a2 /\ x < y) => b[a1][x] < b[a2][y]
        /\ \A x, y \in DOMAIN s : x < y => s[x] < s[y]
        /\ \A a \in DOMAIN b : \A x \in DOMAIN b[a] :
              b[a][x] <= k /\ \A y \in DOMAIN s : b[a][x] < s[y]
        /\ \A y \in DOMAIN s : s[y] <= k
      BY DEF OrderInv
  <2> HIDE DEF b, s, d
  <2>5. \A a1, a2 \in DOMAIN d : \A x \in DOMAIN d[a1], y \in DOMAIN d[a2] :
           a1 < a2 \/ (a1 = a2 /\ x < y) => d[a1][x] < d[a2][y]
    <3> SUFFICES ASSUME NEW a1 \in DOMAIN d, NEW a2 \in DOMAIN d,
                        NEW x \in DOMAIN d[a1], NEW y \in DOMAIN d[a2],
                        a1 < a2 \/ (a1 = a2 /\ x < y)
                 PROVE  d[a1][x] < d[a2][y]
        OBVIOUS
    <3>1. CASE a2 # Len(b) + 1
        BY <2>2, <2>4, <3>1
    <3>2. CASE a2 = Len(b) + 1 /\ a1 # a2
        BY <2>2, <2>4, <3>2
    <3>3. CASE a2 = Len(b) + 1 /\ a1 = a2
        BY <2>2, <2>4, <3>3
    <3> QED
        BY <3>1, <3>2, <3>3
  <2>6. \A a \in DOMAIN d : \A x \in DOMAIN d[a] : d[a][x] <= k
      BY <2>2, <2>4
  <2>7. OrderInv(FinishParagraph(c), k)
      BY <2>3, <2>5, <2>6 DEF OrderInv
  <2>8. \A j : Has(c, j) <=>
                 \/ \E a \in DOMAIN b : \E x \in DOMAIN b[a] : b[a][x] = j
                 \/ \E x \in DOMAIN s : s[x] = j
      BY DEF Has, b, s
  <2>9. \A j : Has(FinishParagraph(c), j) <=>
                 \E a \in DOMAIN d : \E x \in DOMAIN d[a] : d[a][x] = j
      BY <2>3 DEF Has
  <2>10. ASSUME NEW j
         PROVE  Has(c, j) <=> Has(FinishParagraph(c), j)
    <3>1. ASSUME Has(c, j) PROVE Has(FinishParagraph(c), j)
      <4>1. CASE \E a \in DOMAIN b : \E x \in DOMAIN b[a] : b[a][x] = j
        <5>1. PICK a \in DOMAIN b : \E x \in DOMAIN b[a] : b[a][x] = j
            BY <4>1
        <5>2. a \in DOMAIN d /\ d[a] = b[a]
            BY <2>2, <5>1
        <5> QED
            BY <2>9, <5>1, <5>2
      <4>2. CASE \E x \in DOMAIN s : s[x] = j
        <5>1. Len(b) + 1 \in DOMAIN d /\ d[Len(b) + 1] = s
            BY <2>2
        <5> QED
            BY <2>9, <4>2, <5>1
      <4> QED
          BY <2>8, <3>1, <4>1, <4>2
    <3>2. ASSUME Has(FinishParagraph(c), j) PROVE Has(c, j)
        BY <2>2, <2>8, <2>9, <3>2
    <3> QED
        BY <3>1, <3>2
  <2> QED
      BY <2>7, <2>10
<1> QED
    BY <1>1, <1>2

LEMMA ImageOrder ==
    ASSUME NEW c \in Content, NEW k \in Nat, OrderInv(c, k), c.paragraph = <<>>
    PROVE  LET d == [c EXCEPT !.blocks = Append(@, <<k + 1>>)]
           IN  /\ OrderInv(d, k + 1)
               /\ \A j : Has(d, j) <=> j = k + 1 \/ Has(c, j)
<1> DEFINE b == c.blocks
           s == <<k + 1>>
           d == Append(b, s)
           e == [c EXCEPT !.blocks = Append(@, <<k + 1>>)]
<1>1. b \in Seq(Seq(Nat)) /\ s \in Seq(Nat) /\ DOMAIN s = {1} /\ s[1] = k + 1
    BY DEF Content
<1>2. /\ Len(b) \in Nat /\ DOMAIN b = 1..Len(b) /\ DOMAIN d = 1..Len(b) + 1
      /\ \A a \in DOMAIN d : d[a] = IF a = Len(b) + 1 THEN s ELSE b[a]
      /\ \A a \in DOMAIN b : \A x \in DOMAIN b[a] : b[a][x] \in Nat
  <2>1. \A a \in DOMAIN b : b[a] \in Seq(Nat)
      BY <1>1
  <2> QED
      BY <1>1, <2>1, LastBlock
<1>3. e.blocks = d /\ e.paragraph = <<>>
    BY DEF Content
<1>4. /\ \A a1, a2 \in DOMAIN b : \A x \in DOMAIN b[a1], y \in DOMAIN b[a2] :
            a1 < a2 \/ (a1 = a2 /\ x < y) => b[a1][x] < b[a2][y]
      /\ \A a \in DOMAIN b : \A x \in DOMAIN b[a] : b[a][x] <= k
    BY DEF OrderInv
<1>5. \A j : Has(c, j) <=> \E a \in DOMAIN b : \E x \in DOMAIN b[a] : b[a][x] = j
    BY DEF Has
<1> HIDE DEF b, s, d, e
<1>6. \A a1, a2 \in DOMAIN d : \A x \in DOMAIN d[a1], y \in DOMAIN d[a2] :
         a1 < a2 \/ (a1 = a2 /\ x < y) => d[a1][x] < d[a2][y]
  <2> SUFFICES ASSUME NEW a1 \in DOMAIN d, NEW a2 \in DOMAIN d,
                      NEW x \in DOMAIN d[a1], NEW y \in DOMAIN d[a2],
                      a1 < a2 \/ (a1 = a2 /\ x < y)
               PROVE  d[a1][x] < d[a2][y]
      OBVIOUS
  <2>1. CASE a2 # Len(b) + 1
      BY <1>2, <1>4, <2>1
  <2>2. CASE a2 = Len(b) + 1 /\ a1 # a2
    <3>1. d[a1][x] <= k /\ d[a1][x] \in Nat
        BY <1>2, <1>4, <2>2
    <3>2. d[a2] = s
        BY <1>2, <2>2
    <3>3. d[a2][y] = k + 1
        BY <1>1, <3>2
    <3> QED
        BY <3>1, <3>3
  <2>3. CASE a2 = Len(b) + 1 /\ a1 = a2
      BY <1>1, <1>2, <2>3
  <2> QED
      BY <2>1, <2>2, <2>3
<1>7. \A a \in DOMAIN d : \A x \in DOMAIN d[a] : d[a][x] <= k + 1
    BY <1>1, <1>2, <1>4
<1>8. OrderInv(e, k + 1)
    BY <1>3, <1>6, <1>7 DEF OrderInv
<1>9. \A j : Has(e, j) <=> \E a \in DOMAIN d : \E x \in DOMAIN d[a] : d[a][x] = j
    BY <1>3 DEF Has
<1>10. ASSUME NEW j
       PROVE  Has(e, j) <=> j = k + 1 \/ Has(c, j)
  <2>1. ASSUME Has(e, j) PROVE j = k + 1 \/ Has(c, j)
    <3>1. PICK a \in DOMAIN d : \E x \in DOMAIN d[a] : d[a][x] = j
        BY <1>9, <2>1
    <3>2. CASE a = Len(b) + 1
      <4>1. d[a] = s
          BY <1>2, <3>2
      <4> QED
          BY <1>1, <3>1, <4>1
    <3>3. CASE a # Len(b) + 1
      <4>1. a \in DOMAIN b /\ d[a] = b[a]
          BY <1>2, <3>3
      <4> QED
          BY <1>5, <3>1, <4>1
    <3> QED
        BY <3>2, <3>3
  <2>2. ASSUME j = k + 1 PROVE Has(e, j)
    <3>1. Len(b) + 1 \in DOMAIN d /\ d[Len(b) + 1] = s
        BY <1>2
    <3> QED
        BY <1>1, <1>9, <2>2, <3>1
  <2>3. ASSUME Has(c, j) PROVE Has(e, j)
    <3>1. PICK a \in DOMAIN b : \E x \in DOMAIN b[a] : b[a][x] = j
        BY <1>5, <2>3
    <3>2. a \in DOMAIN d /\ d[a] = b[a]
        BY <1>2, <3>1
    <3> QED
        BY <1>9, <3>1, <3>2
  <2> QED
      BY <2>1, <2>2, <2>3
<1> QED
    BY <1>8, <1>10 DEF e

LEMMA NoteOrder ==
    ASSUME NEW c \in Content, NEW k \in Nat, OrderInv(c, k)
    PROVE  LET d == [c EXCEPT !.paragraph = Append(@, k + 1)]
           IN  /\ OrderInv(d, k + 1)
               /\ \A j : Has(d, j) <=> j = k + 1 \/ Has(c, j)
<1> DEFINE b == c.blocks
           s == c.paragraph
           p == Append(s, k + 1)
           e == [c EXCEPT !.paragraph = Append(@, k + 1)]
<1>1. b \in Seq(Seq(Nat)) /\ s \in Seq(Nat)
    BY DEF Content
<1>2. /\ Len(s) \in Nat /\ DOMAIN s = 1..Len(s) /\ DOMAIN p = 1..Len(s) + 1
      /\ \A x \in DOMAIN p : p[x] = IF x = Len(s) + 1 THEN k + 1 ELSE s[x]
      /\ \A x \in DOMAIN s : s[x] \in Nat
      /\ \A a \in DOMAIN b : \A x \in DOMAIN b[a] : b[a][x] \in Nat
  <2>1. \A a \in DOMAIN b : b[a] \in Seq(Nat)
      BY <1>1
  <2> QED
      BY <1>1, <2>1
<1>3. e.blocks = b /\ e.paragraph = p
    BY DEF Content
<1>4. /\ \A a1, a2 \in DOMAIN b : \A x \in DOMAIN b[a1], y \in DOMAIN b[a2] :
            a1 < a2 \/ (a1 = a2 /\ x < y) => b[a1][x] < b[a2][y]
      /\ \A x, y \in DOMAIN s : x < y => s[x] < s[y]
      /\ \A a \in DOMAIN b : \A x \in DOMAIN b[a] :
            b[a][x] <= k /\ \A y \in DOMAIN s : b[a][x] < s[y]
      /\ \A y \in DOMAIN s : s[y] <= k
    BY DEF OrderInv
<1>5. \A j : Has(c, j) <=> \/ \E a \in DOMAIN b : \E x \in DOMAIN b[a] : b[a][x] = j
                           \/ \E x \in DOMAIN s : s[x] = j
    BY DEF Has
<1> HIDE DEF b, s, p, e
<1>6. \A x, y \in DOMAIN p : x < y => p[x] < p[y]
    BY <1>2, <1>4
<1>7. \A a \in DOMAIN b : \A x \in DOMAIN b[a] :
         b[a][x] <= k + 1 /\ \A y \in DOMAIN p : b[a][x] < p[y]
    BY <1>2, <1>4
<1>8. \A y \in DOMAIN p : p[y] <= k + 1
    BY <1>2, <1>4
<1>9. OrderInv(e, k + 1)
    BY <1>3, <1>4, <1>6, <1>7, <1>8 DEF OrderInv
<1>10. \A j : Has(e, j) <=> \/ \E a \in DOMAIN b : \E x \in DOMAIN b[a] : b[a][x] = j
                            \/ \E x \in DOMAIN p : p[x] = j
    BY <1>3 DEF Has
<1>11. \A j : (\E x \in DOMAIN p : p[x] = j) <=> j = k + 1 \/ \E x \in DOMAIN s : s[x] = j
  <2> SUFFICES ASSUME NEW j
               PROVE  (\E x \in DOMAIN p : p[x] = j)
                        <=> j = k + 1 \/ \E x \in DOMAIN s : s[x] = j
      OBVIOUS
  <2>1. Len(s) + 1 \in DOMAIN p /\ p[Len(s) + 1] = k + 1
      BY <1>2
  <2>2. \A x \in DOMAIN s : x \in DOMAIN p /\ p[x] = s[x]
      BY <1>2
  <2>3. \A x \in DOMAIN p : p[x] = k + 1 \/ (x \in DOMAIN s /\ p[x] = s[x])
      BY <1>2
  <2> QED
      BY <2>1, <2>2, <2>3
<1>12. \A j : Has(e, j) <=> j = k + 1 \/ Has(c, j)
    BY <1>5, <1>10, <1>11
<1> QED
    BY <1>9, <1>12 DEF e

LEMMA LaterOrder ==
    ASSUME NEW c \in Content, NEW k \in Nat, OrderInv(c, k)
    PROVE  OrderInv(c, k + 1)
<1>1. c.blocks \in Seq(Seq(Nat)) /\ c.paragraph \in Seq(Nat)
    BY DEF Content
<1>2. \A a \in DOMAIN c.blocks : c.blocks[a] \in Seq(Nat)
    BY <1>1
<1>3. \A a \in DOMAIN c.blocks : \A x \in DOMAIN c.blocks[a] : c.blocks[a][x] \in Nat
    BY <1>2
<1>4. \A x \in DOMAIN c.paragraph : c.paragraph[x] \in Nat
    BY <1>1
<1> QED
    BY <1>3, <1>4 DEF OrderInv

\* A turn of the walk keeps the order, and what is in the content; and what is
\* kept gets into it.
LEMMA VisitOrder ==
    ASSUME NEW c \in Content, NEW k \in Nat, NEW t \in Token, OrderInv(c, k)
    PROVE  /\ OrderInv(Visit(c, t, k + 1), k + 1)
           /\ \A j : Has(c, j) => Has(Visit(c, t, k + 1), j)
           /\ t \in {"text", "img"} => Has(Visit(c, t, k + 1), k + 1)
<1>1. /\ FinishParagraph(c) \in Content /\ FinishParagraph(c).paragraph = <<>>
      /\ OrderInv(FinishParagraph(c), k)
      /\ \A j : Has(c, j) <=> Has(FinishParagraph(c), j)
    BY FinishType, FinishOrder
<1>2. CASE t = "img"
  <2>1. Visit(c, t, k + 1) = [FinishParagraph(c) EXCEPT !.blocks = Append(@, <<k + 1>>)]
      BY <1>2 DEF Visit, AddImage
  <2> DEFINE f == FinishParagraph(c)
             d == [f EXCEPT !.blocks = Append(@, <<k + 1>>)]
  <2>2. f \in Content /\ OrderInv(f, k) /\ f.paragraph = <<>>
      BY <1>1
  <2>3. OrderInv(d, k + 1) /\ \A j : Has(d, j) <=> j = k + 1 \/ Has(f, j)
    <3> HIDE DEF f
    <3> QED
        BY <2>2, ImageOrder
  <2> QED
      BY <1>1, <2>1, <2>3
<1>3. CASE t = "noimg"
  <2>1. Visit(c, t, k + 1) = FinishParagraph(c)
      BY <1>3 DEF Visit
  <2> QED
      BY <1>1, <1>3, <2>1, LaterOrder
<1>4. CASE t \in {"text", "open", "close"}
  <2>1. Visit(c, t, k + 1) = [c EXCEPT !.paragraph = Append(@, k + 1)]
      BY <1>4 DEF Visit
  <2> QED
      BY <2>1, NoteOrder
<1>5. CASE t = "blank"
  <2>1. Visit(c, t, k + 1) = c
      BY <1>5 DEF Visit
  <2> QED
      BY <1>5, <2>1, LaterOrder
<1> QED
    BY <1>2, <1>3, <1>4, <1>5 DEF Token

\* The content of any walk has what is kept, in order.
LEMMA ContentOrder ==
    ASSUME NEW ts \in Seq(Token)
    PROVE  LET c == ExtractContent(ts)
           IN  /\ c \in Seq(Seq(Nat))
               /\ \A k \in Kept(ts) :
                    \E a \in DOMAIN c : \E x \in DOMAIN c[a] : c[a][x] = k
               /\ \A a, b \in DOMAIN c : \A x \in DOMAIN c[a], y \in DOMAIN c[b] :
                    a < b \/ (a = b /\ x < y) => c[a][x] < c[b][y]
<1> DEFINE len == Len(ts)
           w == Walk(ts)
           P(k) == /\ OrderInv(w[k], k)
                   /\ \A j \in 1..k : ts[j] \in {"text", "img"} => Has(w[k], j)
           T == {k \in 0..len : P(k)}
<1>1. /\ len \in Nat /\ w \in [0..len -> Content] /\ w[0] = Begin
      /\ \A k \in 1..len : w[k] = Visit(w[k - 1], ts[k], k)
      /\ ExtractContent(ts) = FinishParagraph(w[len]).blocks
    BY WalkSteps
<1>2. \A k \in 1..len : ts[k] \in Token
    OBVIOUS
<1> HIDE DEF len, w
<1>3. 0 \in T
  <2>1. OrderInv(Begin, 0)
      BY DEF OrderInv, Begin
  <2> QED
      BY <1>1, <2>1
<1>4. ASSUME NEW k \in 0..len - 1, k \in T
      PROVE  k + 1 \in T
  <2>1. k \in Nat /\ k \in 0..len /\ k + 1 \in 1..len /\ k + 1 - 1 = k /\ k + 1 \in 0..len
      BY <1>1
  <2>2. w[k] \in Content /\ ts[k + 1] \in Token /\ w[k + 1] = Visit(w[k], ts[k + 1], k + 1)
      BY <1>1, <1>2, <2>1
  <2>3. OrderInv(w[k], k) /\ \A j \in 1..k : ts[j] \in {"text", "img"} => Has(w[k], j)
      BY <1>4
  <2>4. /\ OrderInv(w[k + 1], k + 1)
        /\ \A j : Has(w[k], j) => Has(w[k + 1], j)
        /\ ts[k + 1] \in {"text", "img"} => Has(w[k + 1], k + 1)
      BY <2>1, <2>2, <2>3, VisitOrder
  <2>5. \A j \in 1..k + 1 : j \in 1..k \/ j = k + 1
      BY <2>1
  <2>6. P(k + 1)
      BY <2>3, <2>4, <2>5
  <2> QED
      BY <2>1, <2>6
<1>5. len \in T
  <2> HIDE DEF T
  <2>1. \A k \in 0..len : k \in T
      BY <1>1, <1>3, <1>4, Induction
  <2>2. len \in 0..len
      BY <1>1
  <2> QED
      BY <2>1, <2>2
<1> DEFINE d == FinishParagraph(w[len])
<1>6. w[len] \in Content
    BY <1>1
<1>7. /\ d \in Content /\ d.paragraph = <<>> /\ OrderInv(d, len)
      /\ \A j : Has(w[len], j) <=> Has(d, j)
    BY <1>1, <1>5, <1>6, FinishType, FinishOrder
<1>8. \A j \in Kept(ts) : Has(d, j)
  <2>1. \A j \in Kept(ts) : j \in 1..len /\ ts[j] \in {"text", "img"}
      BY DEF Kept, len
  <2> QED
      BY <1>5, <1>7, <2>1
<1> HIDE DEF d
<1> QED
    BY <1>1, <1>7, <1>8 DEF Has, OrderInv, Content, d

\* The tokens of a block.
Places(s) == {s[x] : x \in DOMAIN s}

Balanced(ts, K) == Opened(ts, K) = Closed(ts, K)

\* The blocks so far are balanced, and what the paragraph under way has open
\* is what the walk has open.
TagInv(ts, c, k) ==
    /\ \A a \in DOMAIN c.blocks : Balanced(ts, Places(c.blocks[a]))
    /\ Places(c.paragraph) \subseteq 1..k
    /\ Opened(ts, Places(c.paragraph)) + Closed(ts, 1..k)
         = Closed(ts, Places(c.paragraph)) + Opened(ts, 1..k)

LEMMA CountTags ==
    ASSUME NEW ts, NEW K, IsFiniteSet(K)
    PROVE  /\ Opened(ts, K) \in Nat /\ Closed(ts, K) \in Nat
           /\ \A k, M : k \notin K /\ M = K \cup {k} =>
                /\ Opened(ts, M) = IF ts[k] = "open" THEN Opened(ts, K) + 1 ELSE Opened(ts, K)
                /\ Closed(ts, M) = IF ts[k] = "close" THEN Closed(ts, K) + 1 ELSE Closed(ts, K)
<1> DEFINE Of(t, L) == {j \in L : ts[j] = t}
<1>1. ASSUME NEW t
      PROVE  IsFiniteSet(Of(t, K)) /\ Cardinality(Of(t, K)) \in Nat
  <2>1. Of(t, K) \in SUBSET K
      OBVIOUS
  <2> QED
      BY <2>1, FS_Subset, FS_CardinalityType
<1>2. ASSUME NEW t, NEW k, k \notin K
      PROVE  Cardinality(Of(t, K \cup {k}))
                  = IF ts[k] = t THEN Cardinality(Of(t, K)) + 1 ELSE Cardinality(Of(t, K))
  <2>2. IsFiniteSet(Of(t, K))
      BY <1>1
  <2>3. CASE ts[k] = t
    <3>1. Of(t, K \cup {k}) = Of(t, K) \cup {k} /\ k \notin Of(t, K)
        BY <1>2, <2>3
    <3> HIDE DEF Of
    <3> QED
        BY <2>2, <2>3, <3>1, FS_AddElement
  <2>4. CASE ts[k] # t
    <3>1. Of(t, K \cup {k}) = Of(t, K)
        BY <2>4
    <3> QED
        BY <2>4, <3>1
  <2> QED
      BY <2>3, <2>4
<1>3. \A L : Opened(ts, L) = Cardinality(Of("open", L)) /\ Closed(ts, L) = Cardinality(Of("close", L))
    BY DEF Opened, Closed
<1> HIDE DEF Of
<1>4. Opened(ts, K) \in Nat /\ Closed(ts, K) \in Nat
    BY <1>1, <1>3
<1>5. ASSUME NEW k, NEW M, k \notin K, M = K \cup {k}
      PROVE  /\ Opened(ts, M) = IF ts[k] = "open" THEN Opened(ts, K) + 1 ELSE Opened(ts, K)
             /\ Closed(ts, M) = IF ts[k] = "close" THEN Closed(ts, K) + 1 ELSE Closed(ts, K)
    BY <1>2, <1>3, <1>5, Zenon
<1> QED
    BY <1>4, <1>5

LEMMA CountNone ==
    ASSUME NEW ts
    PROVE  Opened(ts, {}) = 0 /\ Closed(ts, {}) = 0
<1>1. {k \in {} : ts[k] = "open"} = {} /\ {k \in {} : ts[k] = "close"} = {}
    OBVIOUS
<1> QED
    BY <1>1, FS_EmptySet DEF Opened, Closed

\* What one more token changes.
LEMMA CountNext ==
    ASSUME NEW ts, NEW k \in Nat
    PROVE  /\ Opened(ts, 1..k) \in Nat /\ Closed(ts, 1..k) \in Nat
           /\ Opened(ts, 1..k + 1)
                = IF ts[k + 1] = "open" THEN Opened(ts, 1..k) + 1 ELSE Opened(ts, 1..k)
           /\ Closed(ts, 1..k + 1)
                = IF ts[k + 1] = "close" THEN Closed(ts, 1..k) + 1 ELSE Closed(ts, 1..k)
<1>1. 1..k + 1 = (1..k) \cup {k + 1} /\ k + 1 \notin 1..k
    OBVIOUS
<1>2. IsFiniteSet(1..k)
    BY FS_Interval
<1> QED
    BY <1>1, <1>2, CountTags, Zenon

LEMMA NoPlaces == Places(<<>>) = {}
BY DEF Places

LEMMA FinishTags ==
    ASSUME NEW ts, NEW c \in Content, NEW k \in Nat, TagInv(ts, c, k), Balanced(ts, 1..k)
    PROVE  TagInv(ts, FinishParagraph(c), k)
<1>1. CASE c.paragraph = <<>>
    BY <1>1 DEF FinishParagraph
<1>2. CASE c.paragraph # <<>>
  <2> DEFINE b == c.blocks
             s == c.paragraph
             d == Append(b, s)
  <2>1. b \in Seq(Seq(Nat)) /\ s \in Seq(Nat)
      BY DEF Content
  <2>2. /\ Len(b) \in Nat /\ DOMAIN b = 1..Len(b) /\ DOMAIN d = 1..Len(b) + 1
        /\ \A a \in DOMAIN d : d[a] = IF a = Len(b) + 1 THEN s ELSE b[a]
      BY <2>1, LastBlock
  <2>3. FinishParagraph(c).blocks = d /\ FinishParagraph(c).paragraph = <<>>
      BY <1>2 DEF FinishParagraph
  <2>4. /\ IsFiniteSet(1..k) /\ Places(s) \subseteq 1..k
        /\ Opened(ts, Places(s)) + Closed(ts, 1..k) = Closed(ts, Places(s)) + Opened(ts, 1..k)
        /\ \A a \in DOMAIN b : Balanced(ts, Places(b[a]))
      BY FS_Interval DEF TagInv
  <2> HIDE DEF b, s, d
  <2>5. Balanced(ts, Places(s))
    <3>1. IsFiniteSet(Places(s)) /\ k + 1 \notin Places(s)
        BY <2>4, FS_Subset
    <3>2. Opened(ts, Places(s)) \in Nat /\ Closed(ts, Places(s)) \in Nat
        BY <3>1, CountTags
    <3>3. Opened(ts, 1..k) \in Nat /\ Closed(ts, 1..k) \in Nat
        BY CountNext
    <3> QED
        BY <2>4, <3>2, <3>3 DEF Balanced
  <2>6. \A a \in DOMAIN d : Balanced(ts, Places(d[a]))
      BY <2>2, <2>4, <2>5
  <2>7. Opened(ts, Places(<<>>)) + Closed(ts, 1..k) = Closed(ts, Places(<<>>)) + Opened(ts, 1..k)
      BY NoPlaces, CountNone, CountNext DEF Balanced
  <2> QED
      BY <2>3, <2>6, <2>7, NoPlaces DEF TagInv
<1> QED
    BY <1>1, <1>2

\* A turn of the walk keeps it, if no tag is open around an image.
LEMMA VisitTags ==
    ASSUME NEW ts, NEW c \in Content, NEW k \in Nat, ts[k + 1] \in Token, TagInv(ts, c, k),
           ts[k + 1] \in {"img", "noimg"} => Balanced(ts, 1..k + 1)
    PROVE  TagInv(ts, Visit(c, ts[k + 1], k + 1), k + 1)
<1> DEFINE t == ts[k + 1]
<1>1. /\ Opened(ts, 1..k) \in Nat /\ Closed(ts, 1..k) \in Nat
      /\ Opened(ts, 1..k + 1) = IF t = "open" THEN Opened(ts, 1..k) + 1 ELSE Opened(ts, 1..k)
      /\ Closed(ts, 1..k + 1) = IF t = "close" THEN Closed(ts, 1..k) + 1 ELSE Closed(ts, 1..k)
    BY CountNext
<1>2. 1..k \subseteq 1..k + 1
    OBVIOUS
<1>3. ASSUME NEW d, TagInv(ts, d, k), t \notin {"open", "close"}
      PROVE  TagInv(ts, d, k + 1)
    BY <1>1, <1>2, <1>3 DEF TagInv
<1>4. ASSUME t \in {"img", "noimg"}
      PROVE  /\ FinishParagraph(c) \in Content /\ FinishParagraph(c).paragraph = <<>>
             /\ TagInv(ts, FinishParagraph(c), k + 1)
  <2>1. Balanced(ts, 1..k)
      BY <1>1, <1>4 DEF Balanced
  <2> QED
      BY <1>3, <1>4, <2>1, FinishType, FinishTags
<1>5. CASE t = "img"
  <2> DEFINE f == FinishParagraph(c)
             b == f.blocks
             d == Append(b, <<k + 1>>)
             e == [f EXCEPT !.blocks = Append(@, <<k + 1>>)]
  <2>1. Visit(c, t, k + 1) = e
      BY <1>5 DEF Visit, AddImage
  <2>2. f \in Content /\ f.paragraph = <<>> /\ TagInv(ts, f, k + 1)
      BY <1>4, <1>5
  <2> HIDE DEF f
  <2>3. b \in Seq(Seq(Nat)) /\ <<k + 1>> \in Seq(Nat)
      BY <2>2 DEF Content
  <2>4. e.blocks = d /\ e.paragraph = <<>>
      BY <2>2 DEF Content
  <2>5. /\ DOMAIN b = 1..Len(b) /\ DOMAIN d = 1..Len(b) + 1
        /\ \A a \in DOMAIN d : d[a] = IF a = Len(b) + 1 THEN <<k + 1>> ELSE b[a]
      BY <2>3, LastBlock
  <2>6. Balanced(ts, Places(<<k + 1>>))
    <3> DEFINE M == Places(<<k + 1>>)
    <3>1. M = {} \cup {k + 1} /\ k + 1 \notin {}
        BY DEF Places
    <3> HIDE DEF M
    <3>2. Opened(ts, M) = Opened(ts, {}) /\ Closed(ts, M) = Closed(ts, {})
        BY <1>5, <3>1, CountTags, FS_EmptySet
    <3> QED
        BY <3>2, CountNone DEF Balanced, M
  <2>7. \A a \in DOMAIN d : Balanced(ts, Places(d[a]))
    <3>1. \A a \in DOMAIN b : Balanced(ts, Places(b[a]))
        BY <2>2 DEF TagInv
    <3> HIDE DEF b, d
    <3> QED
        BY <2>5, <2>6, <3>1
  <2>8. TagInv(ts, e, k + 1)
    <3> HIDE DEF d, e
    <3> QED
        BY <2>2, <2>4, <2>7 DEF TagInv
  <2> QED
      BY <2>1, <2>8
<1>6. CASE t = "noimg"
  <2>1. Visit(c, t, k + 1) = FinishParagraph(c)
      BY <1>6 DEF Visit
  <2> QED
      BY <1>4, <1>6, <2>1
<1>7. CASE t \in {"text", "open", "close"}
  <2> DEFINE s == c.paragraph
             p == Append(s, k + 1)
             e == [c EXCEPT !.paragraph = Append(@, k + 1)]
  <2>1. Visit(c, t, k + 1) = e
      BY <1>7 DEF Visit
  <2>2. s \in Seq(Nat) /\ Places(s) \subseteq 1..k
      BY DEF Content, TagInv
  <2>3. e.blocks = c.blocks /\ e.paragraph = p
      BY DEF Content
  <2>4. Places(p) = Places(s) \cup {k + 1}
    <3>1. /\ Len(s) \in Nat /\ DOMAIN s = 1..Len(s) /\ DOMAIN p = 1..Len(s) + 1
          /\ \A x \in DOMAIN p : p[x] = IF x = Len(s) + 1 THEN k + 1 ELSE s[x]
        BY <2>2
    <3> HIDE DEF s, p
    <3>2. p[Len(s) + 1] = k + 1 /\ Len(s) + 1 \in DOMAIN p
        BY <3>1
    <3>3. \A x \in DOMAIN s : x \in DOMAIN p /\ p[x] = s[x]
        BY <3>1
    <3>4. \A x \in DOMAIN p : p[x] = k + 1 \/ (x \in DOMAIN s /\ p[x] = s[x])
        BY <3>1
    <3> DEFINE U == Places(p)
               V == Places(s)
    <3>5. U = {p[x] : x \in DOMAIN p} /\ V = {s[x] : x \in DOMAIN s}
        BY DEF Places
    <3> HIDE DEF U, V
    <3>6. U = V \cup {k + 1}
        BY <3>2, <3>3, <3>4, <3>5
    <3> QED
        BY <3>6 DEF U, V
  <2>5. IsFiniteSet(Places(s)) /\ k + 1 \notin Places(s)
    <3>1. IsFiniteSet(1..k) /\ k + 1 \notin 1..k
        BY FS_Interval
    <3> HIDE DEF s
    <3> QED
        BY <2>2, <3>1, FS_Subset
  <2>6. /\ Opened(ts, Places(s)) \in Nat /\ Closed(ts, Places(s)) \in Nat
        /\ Opened(ts, Places(p))
             = IF t = "open" THEN Opened(ts, Places(s)) + 1 ELSE Opened(ts, Places(s))
        /\ Closed(ts, Places(p))
             = IF t = "close" THEN Closed(ts, Places(s)) + 1 ELSE Closed(ts, Places(s))
    <3>1. \A j, M : j \notin Places(s) /\ M = Places(s) \cup {j} =>
            /\ Opened(ts, M)
                 = IF ts[j] = "open" THEN Opened(ts, Places(s)) + 1 ELSE Opened(ts, Places(s))
            /\ Closed(ts, M)
                 = IF ts[j] = "close" THEN Closed(ts, Places(s)) + 1 ELSE Closed(ts, Places(s))
        BY <2>5, CountTags, Zenon
    <3>2. Opened(ts, Places(s)) \in Nat /\ Closed(ts, Places(s)) \in Nat
        BY <2>5, CountTags, Zenon
    <3> HIDE DEF s, p
    <3> QED
        BY <2>4, <2>5, <3>1, <3>2, Zenon
  <2>7. Places(p) \subseteq 1..k + 1
      BY <2>2, <2>4
  <2>8. Opened(ts, Places(p)) + Closed(ts, 1..k + 1) = Closed(ts, Places(p)) + Opened(ts, 1..k + 1)
    <3>1. Opened(ts, Places(s)) + Closed(ts, 1..k) = Closed(ts, Places(s)) + Opened(ts, 1..k)
        BY DEF TagInv
    <3> HIDE DEF s, p
    <3> QED
        BY <1>1, <2>6, <3>1
  <2> HIDE DEF p, e
  <2> QED
      BY <2>1, <2>3, <2>7, <2>8 DEF TagInv
<1>8. CASE t = "blank"
  <2>1. Visit(c, t, k + 1) = c
      BY <1>8 DEF Visit
  <2> QED
      BY <1>3, <1>8, <2>1
<1> QED
    BY <1>5, <1>6, <1>7, <1>8 DEF Token

\* In the content of a walk with no tag open around an image, and none at its
\* end, every block is balanced.
LEMMA ContentTags ==
    ASSUME NEW ts \in Seq(Token), Balanced(ts, DOMAIN ts),
           \A k \in DOMAIN ts : ts[k] \in {"img", "noimg"} => Balanced(ts, 1..k)
    PROVE  \A a \in DOMAIN ExtractContent(ts) : Balanced(ts, Places(ExtractContent(ts)[a]))
<1> DEFINE len == Len(ts)
           w == Walk(ts)
           T == {k \in 0..len : TagInv(ts, w[k], k)}
<1>1. /\ len \in Nat /\ w \in [0..len -> Content] /\ w[0] = Begin
      /\ \A k \in 1..len : w[k] = Visit(w[k - 1], ts[k], k)
      /\ ExtractContent(ts) = FinishParagraph(w[len]).blocks
    BY WalkSteps
<1>2. DOMAIN ts = 1..len /\ \A k \in 1..len : ts[k] \in Token
    OBVIOUS
<1> HIDE DEF len, w
<1>3. 0 \in T
  <2>1. 1..0 = {}
      OBVIOUS
  <2>2. TagInv(ts, Begin, 0)
      BY <2>1, NoPlaces, CountNone DEF TagInv, Begin
  <2> QED
      BY <1>1, <2>2
<1>4. ASSUME NEW k \in 0..len - 1, k \in T
      PROVE  k + 1 \in T
  <2>1. k \in Nat /\ k \in 0..len /\ k + 1 \in 1..len /\ k + 1 - 1 = k /\ k + 1 \in 0..len
      BY <1>1
  <2>2. w[k] \in Content /\ ts[k + 1] \in Token /\ w[k + 1] = Visit(w[k], ts[k + 1], k + 1)
      BY <1>1, <1>2, <2>1
  <2>3. ts[k + 1] \in {"img", "noimg"} => Balanced(ts, 1..k + 1)
      BY <1>2, <2>1
  <2>4. TagInv(ts, w[k + 1], k + 1)
      BY <1>4, <2>1, <2>2, <2>3, VisitTags
  <2> QED
      BY <2>1, <2>4
<1>5. len \in T
  <2> HIDE DEF T
  <2>1. \A k \in 0..len : k \in T
      BY <1>1, <1>3, <1>4, Induction
  <2>2. len \in 0..len
      BY <1>1
  <2> QED
      BY <2>1, <2>2
<1>6. w[len] \in Content
    BY <1>1
<1>7. TagInv(ts, FinishParagraph(w[len]), len)
    BY <1>1, <1>2, <1>5, <1>6, FinishTags
<1> QED
    BY <1>1, <1>7 DEF TagInv

-----------------------------------------------------------------------------
(* The two loops *)

\* The items the worker may make of this page.
PostItems == {ExtractPost(k) : k \in 1..Len(page)}

TypeInv ==
    /\ page \in Seq(Post)
    /\ pc \in {"parse", "make", "done", "failed"}
    /\ n \in Nat
    /\ items \in Seq(PostItems)
    /\ entries \in Seq(Entry)

\* How many posts the worker has been through, and how many items the
\* webserver.
Parses == IF pc = "parse" THEN n ELSE Len(page)
Makes  == IF pc = "parse" THEN 0 ELSE IF pc = "make" THEN n ELSE Len(items)

\* The items are the posts so far that have what is required, in order.
ItemsInv ==
    /\ Parses <= Len(page)
    /\ \A i \in 1..Len(items) :
         items[i].post <= Parses /\ HasRequired(page[items[i].post])
    /\ \A k \in 1..Parses :
         HasRequired(page[k]) => \E i \in 1..Len(items) : items[i].post = k
    /\ \A i, j \in 1..Len(items) : i < j => items[i].post < items[j].post

\* The entries are the items so far whose link parses, in order.
EntriesInv ==
    /\ Makes <= Len(items)
    /\ \A i \in 1..Len(entries) :
         \E j \in 1..Makes : entries[i].post = items[j].post /\ items[j].link # "bad"
    /\ \A j \in 1..Makes :
         items[j].link # "bad" =>
           \E i \in 1..Len(entries) : entries[i].post = items[j].post
    /\ \A i, j \in 1..Len(entries) : i < j => entries[i].post < entries[j].post

\* Until an item is left out, an entry has the place of its item.
PlaceInv ==
    /\ Len(entries) <= Makes
    /\ \A m \in 1..Makes :
         (\A j \in 1..m : items[j].link # "bad") =>
           m <= Len(entries) /\ entries[m].post = items[m].post
    /\ pc = "done" =>
         \A i \in 1..Len(entries) : entries[i].author => entries[i].uri = items[i].uri

-----------------------------------------------------------------------------
\* What an item says of its post.
LEMMA ItemFields ==
    ASSUME page \in Seq(Post), NEW k \in 1..Len(page)
    PROVE  /\ ExtractPost(k).post = k
           /\ ExtractPost(k).link = page[k].link
           /\ ExtractPost(k).author = page[k].author.name
           /\ ExtractPost(k).uri = OwnUri(k)
           /\ ExtractPost(k).uri \in Nat
           /\ ExtractPost(k).author \in BOOLEAN
<1>1. page[k] \in Post
    OBVIOUS
<1>2. page[k].author \in Author
    BY <1>1 DEF Post
<1>3. page[k].author.name \in BOOLEAN
    BY <1>2 DEF Author
<1> QED
    BY <1>3 DEF ExtractPost, OwnUri

\* Every item is of a post.
LEMMA ItemOfPost ==
    ASSUME TypeInv, NEW i \in 1..Len(items)
    PROVE  /\ items[i].post \in 1..Len(page)
           /\ items[i].link = page[items[i].post].link
           /\ items[i].uri = OwnUri(items[i].post)
           /\ items[i].uri \in Nat
           /\ items[i].author \in BOOLEAN
<1>1. items[i] \in PostItems
    BY DEF TypeInv
<1>2. PICK k \in 1..Len(page) : items[i] = ExtractPost(k)
    BY <1>1 DEF PostItems
<1> QED
    BY <1>2, ItemFields DEF TypeInv

\* The entry of an item.
LEMMA EntryFields ==
    ASSUME TypeInv, NEW i \in 1..Len(items)
    PROVE  /\ MakeEntry(items[i]) \in Entry
           /\ MakeEntry(items[i]).post = items[i].post
BY ItemOfPost DEF MakeEntry, Entry, TypeInv

-----------------------------------------------------------------------------
\* What the last step makes of the entries: their authors' links.
LEMMA MadeEntries ==
    ASSUME TypeInv, PlaceInv, Made, entries # <<>>
    PROVE  /\ entries' \in Seq(Entry)
           /\ Len(entries') = Len(entries)
           /\ Len(entries) <= Len(items)
           /\ \A i \in 1..Len(entries) :
                /\ entries'[i].post = entries[i].post
                /\ entries'[i].author = entries[i].author
                /\ entries'[i].uri = AuthorUri(i)
<1>1. Len(entries) \in Nat /\ Len(items) \in Nat /\ Len(entries) <= Len(items)
    BY DEF PlaceInv, Made, Makes, TypeInv
<1>2. \A i \in 1..Len(entries) : AuthorUri(i) \in Nat
  <2> TAKE i \in 1..Len(entries)
  <2>1. i \in 1..Len(items)
      BY <1>1
  <2> QED
      BY <2>1, ItemOfPost DEF AuthorUri
<1>3. entries' = [i \in 1..Len(entries) |-> [entries[i] EXCEPT !.uri = AuthorUri(i)]]
    BY DEF Made
<1>4. \A i \in 1..Len(entries) : entries[i] \in Entry
    BY DEF TypeInv
<1>5. \A i \in 1..Len(entries) : [entries[i] EXCEPT !.uri = AuthorUri(i)] \in Entry
    BY <1>2, <1>4 DEF Entry
<1>6. \A i \in 1..Len(entries) :
         /\ [entries[i] EXCEPT !.uri = AuthorUri(i)].post = entries[i].post
         /\ [entries[i] EXCEPT !.uri = AuthorUri(i)].author = entries[i].author
         /\ [entries[i] EXCEPT !.uri = AuthorUri(i)].uri = AuthorUri(i)
    BY <1>4 DEF Entry
<1>7. entries' \in Seq(Entry) /\ Len(entries') = Len(entries)
  <2> DEFINE g(i) == [entries[i] EXCEPT !.uri = AuthorUri(i)]
  <2>1. entries' = [i \in 1..Len(entries) |-> g(i)]
      BY <1>3
  <2>2. \A i \in 1..Len(entries) : g(i) \in Entry
      BY <1>5
  <2> HIDE DEF g
  <2>3. entries' \in [1..Len(entries) -> Entry]
      BY <2>1, <2>2
  <2> QED
      BY <1>1, <2>3
<1> QED
    BY <1>1, <1>3, <1>6, <1>7

\* The loops keep their types.
LEMMA TypeStep ==
    ASSUME TypeInv, PlaceInv, [Next]_vars
    PROVE  TypeInv'
<1>0. page' = page
    BY DEF Next, ParsePost, Parsed, AddEntry, Made, vars
<1>1. PostItems' = PostItems
    BY <1>0 DEF PostItems, ExtractPost
<1>2. CASE ParsePost
  <2>1. n + 1 \in 1..Len(page)
      BY <1>2 DEF ParsePost, TypeInv
  <2>2. ExtractPost(n + 1) \in PostItems
      BY <2>1 DEF PostItems
  <2>3. items' \in Seq(PostItems)
      BY <1>2, <2>2 DEF ParsePost, TypeInv
  <2> QED
      BY <1>0, <1>1, <1>2, <2>3 DEF ParsePost, TypeInv
<1>3. CASE Parsed
    BY <1>0, <1>1, <1>3 DEF Parsed, TypeInv
<1>4. CASE AddEntry
  <2> DEFINE e == MakeEntry(items[n + 1])
  <2>1. n + 1 \in 1..Len(items)
      BY <1>4 DEF AddEntry, TypeInv
  <2>2. e \in Entry
      BY <2>1, EntryFields
  <2>3. entries' = entries \/ entries' = Append(entries, e)
      BY <1>4 DEF AddEntry
  <2>4. entries' \in Seq(Entry)
    <3> HIDE DEF e
    <3> QED
        BY <2>2, <2>3 DEF TypeInv
  <2> QED
      BY <1>0, <1>1, <1>4, <2>4 DEF AddEntry, TypeInv
<1>5. CASE Made
  <2>1. entries' \in Seq(Entry)
      BY <1>5, MadeEntries DEF Made, TypeInv
  <2> QED
      BY <1>0, <1>1, <1>5, <2>1 DEF Made, TypeInv
<1>6. CASE UNCHANGED vars
    BY <1>0, <1>1, <1>6 DEF vars, TypeInv
<1> QED
    BY <1>2, <1>3, <1>4, <1>5, <1>6 DEF Next

\* The worker's loop keeps its invariant.
LEMMA ItemsStep ==
    ASSUME TypeInv, ItemsInv, [Next]_vars
    PROVE  ItemsInv'
<1> USE DEF ItemsInv
<1>0. page' = page /\ \A p : HasRequired(p)' = HasRequired(p)
    BY DEF Next, ParsePost, Parsed, AddEntry, Made, vars, HasRequired
<1>1. CASE ParsePost
  <2> DEFINE k == n + 1
             e == ExtractPost(k)
  <2>1. /\ k \in 1..Len(page) /\ n \in Nat
        /\ Parses = n /\ Parses' = k
      BY <1>1 DEF ParsePost, TypeInv, Parses
  <2>2. e.post = k
      BY <2>1, ItemFields DEF TypeInv
  <2>3. CASE ~HasRequired(page[k])
    <3>1. items' = items
        BY <1>1, <2>3 DEF ParsePost
    <3>2. \A i \in 1..Len(items) :
            items[i].post <= k /\ HasRequired(page[items[i].post])
      <4> TAKE i \in 1..Len(items)
      <4>1. items[i].post \in Nat
          BY ItemOfPost
      <4> QED
          BY <2>1, <4>1
    <3>3. \A j \in 1..k :
            HasRequired(page[j]) => \E i \in 1..Len(items) : items[i].post = j
      <4> TAKE j \in 1..k
      <4>1. CASE j = k
          BY <2>3, <4>1
      <4>2. CASE j # k
          BY <2>1, <4>2
      <4> QED
          BY <4>1, <4>2
    <3>4. k <= Len(page)
        BY <2>1
    <3> HIDE DEF k
    <3> QED
        BY <1>0, <2>1, <3>1, <3>2, <3>3, <3>4
  <2>4. CASE HasRequired(page[k])
    <3>1. items' = Append(items, e)
        BY <1>1, <2>4 DEF ParsePost
    <3> HIDE DEF e
    <3>2. /\ Len(items') = Len(items) + 1 /\ Len(items) \in Nat
          /\ items'[Len(items) + 1] = e
          /\ \A i \in 1..Len(items) : items'[i] = items[i]
        BY <3>1 DEF TypeInv
    <3>3. \A i \in 1..Len(items) : items[i].post \in Nat
        BY ItemOfPost
    <3>4. \A i \in 1..Len(items') :
            items'[i].post <= k /\ HasRequired(page[items'[i].post])
      <4> TAKE i \in 1..Len(items')
      <4>1. CASE i = Len(items) + 1
          BY <2>1, <2>2, <2>4, <3>2, <4>1
      <4>2. CASE i # Len(items) + 1
        <5>1. i \in 1..Len(items) /\ items'[i] = items[i]
            BY <3>2, <4>2
        <5>2. items[i].post <= n /\ HasRequired(page[items[i].post])
            BY <2>1, <5>1
        <5>3. items[i].post \in Nat
            BY <3>3, <5>1
        <5> QED
            BY <2>1, <5>1, <5>2, <5>3
      <4> QED
          BY <4>1, <4>2
    <3>5. \A j \in 1..k :
            HasRequired(page[j]) => \E i \in 1..Len(items') : items'[i].post = j
      <4> TAKE j \in 1..k
      <4>1. CASE j = k
          BY <2>2, <3>2, <4>1
      <4>2. CASE j # k
          BY <2>1, <3>2, <4>2
      <4> QED
          BY <4>1, <4>2
    <3>6. \A i, j \in 1..Len(items') : i < j => items'[i].post < items'[j].post
      <4> TAKE i, j \in 1..Len(items')
      <4> HAVE i < j
      <4>1. i \in 1..Len(items) /\ items'[i] = items[i]
          BY <3>2
      <4>2. CASE j = Len(items) + 1
        <5>1. items[i].post <= n /\ items[i].post \in Nat
            BY <2>1, <3>3, <4>1
        <5>2. items'[j].post = k
            BY <2>2, <3>2, <4>2
        <5> QED
            BY <2>1, <4>1, <5>1, <5>2
      <4>3. CASE j # Len(items) + 1
        <5>1. j \in 1..Len(items) /\ items'[j] = items[j]
            BY <3>2, <4>3
        <5> QED
            BY <4>1, <5>1
      <4> QED
          BY <4>2, <4>3
    <3> QED
        BY <1>0, <2>1, <3>4, <3>5, <3>6
  <2> QED
      BY <2>3, <2>4
<1>2. CASE Parsed
  <2>1. Parses' = Parses /\ items' = items
      BY <1>2 DEF Parsed, Parses
  <2> QED
      BY <1>0, <2>1
<1>3. CASE AddEntry \/ Made
  <2>1. Parses' = Parses /\ items' = items
      BY <1>3 DEF AddEntry, Made, Parses
  <2> QED
      BY <1>0, <2>1
<1>4. CASE UNCHANGED vars
    BY <1>0, <1>4 DEF vars, Parses
<1> QED
    BY <1>1, <1>2, <1>3, <1>4 DEF Next

\* The webserver's loop keeps its invariant: the items it has been through do
\* not change under it.
LEMMA EntriesStep ==
    ASSUME TypeInv, ItemsInv, EntriesInv, PlaceInv, [Next]_vars
    PROVE  EntriesInv'
<1> USE DEF EntriesInv
<1>0. Len(items) \in Nat /\ Len(entries) \in Nat /\ n \in Nat
    BY DEF TypeInv
<1>1. CASE ParsePost
  <2>1. Makes = 0 /\ Makes' = 0 /\ entries' = entries
      BY <1>1 DEF ParsePost, Makes
  <2>2. Len(entries) = 0
      BY <1>0, <2>1 DEF PlaceInv
  <2>3. Len(items') \in Nat
    <3>1. TypeInv'
        BY TypeStep
    <3> QED
        BY <3>1 DEF TypeInv
  <2> QED
      BY <2>1, <2>2, <2>3
<1>2. CASE Parsed
  <2>1. Makes = 0 /\ Makes' = 0 /\ entries' = entries /\ items' = items
    <3>1. CASE items = <<>>
        BY <1>2, <3>1 DEF Parsed, Makes
    <3>2. CASE items # <<>>
        BY <1>2, <3>2 DEF Parsed, Makes
    <3> QED
        BY <3>1, <3>2
  <2> QED
      BY <2>1
<1>3. CASE AddEntry
  <2> DEFINE k == n + 1
             e == MakeEntry(items[k])
  <2>1. /\ k \in 1..Len(items) /\ items' = items
        /\ Makes = n /\ Makes' = k
      BY <1>0, <1>3 DEF AddEntry, Makes
  <2>2. \A j \in 1..Len(items) : items[j].post \in Nat
      BY ItemOfPost
  <2>3. CASE items[k].link = "bad"
    <3>1. entries' = entries
        BY <1>3, <2>3 DEF AddEntry
    <3>2. \A i \in 1..Len(entries) :
            \E j \in 1..k : entries[i].post = items[j].post /\ items[j].link # "bad"
        BY <1>0, <2>1
    <3>3. \A j \in 1..k :
            items[j].link # "bad" =>
              \E i \in 1..Len(entries) : entries[i].post = items[j].post
      <4> TAKE j \in 1..k
      <4>1. CASE j = k
          BY <2>3, <4>1
      <4>2. CASE j # k
          BY <1>0, <2>1, <4>2
      <4> QED
          BY <4>1, <4>2
    <3>4. k <= Len(items)
        BY <1>0, <2>1
    <3> HIDE DEF k
    <3> QED
        BY <2>1, <3>1, <3>2, <3>3, <3>4
  <2>4. CASE items[k].link # "bad"
    <3>1. entries' = Append(entries, e)
        BY <1>3, <2>4 DEF AddEntry
    <3>2. e.post = items[k].post
        BY <2>1, EntryFields
    <3> HIDE DEF e
    <3>3. /\ Len(entries') = Len(entries) + 1
          /\ entries'[Len(entries) + 1] = e
          /\ \A i \in 1..Len(entries) : entries'[i] = entries[i]
        BY <3>1 DEF TypeInv
    <3>4. \A i \in 1..Len(entries') :
            \E j \in 1..k : entries'[i].post = items[j].post /\ items[j].link # "bad"
      <4> TAKE i \in 1..Len(entries')
      <4>1. CASE i = Len(entries) + 1
          BY <2>1, <2>4, <3>2, <3>3, <4>1
      <4>2. CASE i # Len(entries) + 1
        <5>1. i \in 1..Len(entries) /\ entries'[i] = entries[i]
            BY <1>0, <3>3, <4>2
        <5>2. PICK m \in 1..n : entries[i].post = items[m].post /\ items[m].link # "bad"
            BY <2>1, <5>1
        <5>3. m \in 1..k
            BY <1>0
        <5>4. entries'[i].post = items[m].post
            BY <5>1, <5>2
        <5> HIDE DEF k, EntriesInv
        <5> QED
            BY <5>2, <5>3, <5>4
      <4> QED
          BY <4>1, <4>2
    <3>5. \A j \in 1..k :
            items[j].link # "bad" =>
              \E i \in 1..Len(entries') : entries'[i].post = items[j].post
      <4> TAKE j \in 1..k
      <4>1. CASE j = k
          BY <1>0, <3>2, <3>3, <4>1
      <4>2. CASE j # k
        <5>1. SUFFICES ASSUME items[j].link # "bad"
                       PROVE  \E i \in 1..Len(entries') : entries'[i].post = items[j].post
            OBVIOUS
        <5>2. PICK i \in 1..Len(entries) : entries[i].post = items[j].post
            BY <1>0, <2>1, <4>2, <5>1
        <5> QED
            BY <1>0, <3>3, <5>2
      <4> QED
          BY <4>1, <4>2
    <3>6. \A i, j \in 1..Len(entries') :
            i < j => entries'[i].post < entries'[j].post
      <4> TAKE i, j \in 1..Len(entries')
      <4> HAVE i < j
      <4>1. i \in 1..Len(entries) /\ entries'[i] = entries[i]
          BY <1>0, <3>3
      <4>2. CASE j = Len(entries) + 1
        <5>1. PICK m \in 1..n : entries[i].post = items[m].post
            BY <2>1, <4>1
        <5>2. m \in 1..Len(items) /\ m < k
            BY <1>0, <2>1
        <5>3. items[m].post < items[k].post
            BY <2>1, <5>2 DEF ItemsInv
        <5> QED
            BY <3>2, <3>3, <4>1, <4>2, <5>1, <5>3
      <4>3. CASE j # Len(entries) + 1
        <5>1. j \in 1..Len(entries) /\ entries'[j] = entries[j]
            BY <1>0, <3>3, <4>3
        <5> QED
            BY <4>1, <5>1
      <4> QED
          BY <4>2, <4>3
    <3>7. k <= Len(items)
        BY <1>0, <2>1
    <3> HIDE DEF k
    <3> QED
        BY <2>1, <3>4, <3>5, <3>6, <3>7
  <2> QED
      BY <2>3, <2>4
<1>4. CASE Made
  <2>1. Makes = Len(items) /\ Makes' = Len(items) /\ items' = items
    <3>1. CASE entries = <<>>
        BY <1>4, <3>1 DEF Made, Makes
    <3>2. CASE entries # <<>>
        BY <1>4, <3>2 DEF Made, Makes
    <3> QED
        BY <3>1, <3>2
  <2>2. /\ Len(entries') = Len(entries)
        /\ \A i \in 1..Len(entries) : entries'[i].post = entries[i].post
    <3>1. CASE entries = <<>>
        BY <1>4, <3>1 DEF Made
    <3>2. CASE entries # <<>>
        BY <1>4, <3>2, MadeEntries
    <3> QED
        BY <3>1, <3>2
  <2> QED
      BY <1>0, <2>1, <2>2
<1>5. CASE UNCHANGED vars
    BY <1>5 DEF vars, Makes
<1> QED
    BY <1>1, <1>2, <1>3, <1>4, <1>5 DEF Next

\* An entry keeps the place it was given.
LEMMA PlaceStep ==
    ASSUME TypeInv, PlaceInv, [Next]_vars
    PROVE  PlaceInv'
<1>0. Len(items) \in Nat /\ Len(entries) \in Nat /\ n \in Nat
    BY DEF TypeInv
<1>1. CASE ParsePost
  <2>1. Makes = 0 /\ Makes' = 0 /\ entries' = entries /\ pc' = "parse"
      BY <1>1 DEF ParsePost, Makes
  <2> QED
      BY <1>0, <2>1 DEF PlaceInv
<1>2. CASE Parsed
  <2>1. /\ Makes = 0 /\ Makes' = 0 /\ entries' = entries /\ items' = items
        /\ pc' # "done"
    <3>1. CASE items = <<>>
        BY <1>2, <3>1 DEF Parsed, Makes
    <3>2. CASE items # <<>>
        BY <1>2, <3>2 DEF Parsed, Makes
    <3> QED
        BY <3>1, <3>2
  <2> QED
      BY <1>0, <2>1 DEF PlaceInv
<1>3. CASE AddEntry
  <2> DEFINE k == n + 1
             e == MakeEntry(items[k])
  <2>1. /\ k \in 1..Len(items) /\ items' = items /\ pc' = "make"
        /\ Makes = n /\ Makes' = k
      BY <1>0, <1>3 DEF AddEntry, Makes
  <2>2. Len(entries) <= n
      BY <2>1 DEF PlaceInv
  <2>3. \A m \in 1..n :
          (\A j \in 1..m : items[j].link # "bad") =>
            m <= Len(entries) /\ entries[m].post = items[m].post
      BY <2>1 DEF PlaceInv
  <2>4. CASE items[k].link = "bad"
    <3>1. entries' = entries
        BY <1>3, <2>4 DEF AddEntry
    <3>2. \A m \in 1..k :
            (\A j \in 1..m : items[j].link # "bad") =>
              m <= Len(entries) /\ entries[m].post = items[m].post
      <4> TAKE m \in 1..k
      <4> HAVE \A j \in 1..m : items[j].link # "bad"
      <4>1. m # k
          BY <1>0, <2>1, <2>4
      <4> QED
          BY <1>0, <2>3, <4>1
    <3>3. Len(entries) <= k
        BY <1>0, <2>2
    <3> HIDE DEF k
    <3> QED
        BY <2>1, <3>1, <3>2, <3>3 DEF PlaceInv
  <2>5. CASE items[k].link # "bad"
    <3>1. entries' = Append(entries, e)
        BY <1>3, <2>5 DEF AddEntry
    <3>2. e.post = items[k].post
        BY <2>1, EntryFields
    <3> HIDE DEF e
    <3>3. /\ Len(entries') = Len(entries) + 1
          /\ entries'[Len(entries) + 1] = e
          /\ \A i \in 1..Len(entries) : entries'[i] = entries[i]
        BY <3>1 DEF TypeInv
    <3>4. \A m \in 1..k :
            (\A j \in 1..m : items[j].link # "bad") =>
              m <= Len(entries') /\ entries'[m].post = items[m].post
      <4> TAKE m \in 1..k
      <4> HAVE \A j \in 1..m : items[j].link # "bad"
      <4>1. CASE m # k
        <5>1. m \in 1..n
            BY <1>0, <4>1
        <5>2. m <= Len(entries) /\ entries[m].post = items[m].post
            BY <2>3, <5>1
        <5> QED
            BY <1>0, <3>3, <5>1, <5>2
      <4>2. CASE m = k
        <5>1. n <= Len(entries)
          <6>1. CASE n = 0
              BY <1>0, <6>1
          <6>2. CASE n # 0
            <7>1. n \in 1..n /\ \A j \in 1..n : j \in 1..m
                BY <1>0, <4>2, <6>2
            <7> QED
                BY <2>3, <7>1
          <6> QED
              BY <6>1, <6>2
        <5>2. Len(entries) = n
            BY <1>0, <2>2, <5>1
        <5> QED
            BY <1>0, <3>2, <3>3, <4>2, <5>2
      <4> QED
          BY <4>1, <4>2
    <3>5. Len(entries') <= k
        BY <1>0, <2>2, <3>3
    <3> HIDE DEF k
    <3> QED
        BY <2>1, <3>4, <3>5 DEF PlaceInv
  <2> QED
      BY <2>4, <2>5
<1>4. CASE Made
  <2>1. Makes = Len(items) /\ Makes' = Len(items) /\ items' = items
    <3>1. CASE entries = <<>>
        BY <1>4, <3>1 DEF Made, Makes
    <3>2. CASE entries # <<>>
        BY <1>4, <3>2 DEF Made, Makes
    <3> QED
        BY <3>1, <3>2
  <2>2. CASE entries = <<>>
    <3>1. pc' = "failed" /\ entries' = entries
        BY <1>4, <2>2 DEF Made
    <3> QED
        BY <2>1, <3>1 DEF PlaceInv
  <2>3. CASE entries # <<>>
    <3>1. /\ Len(entries') = Len(entries)
          /\ \A i \in 1..Len(entries) : entries'[i].post = entries[i].post
        BY <1>4, <2>3, MadeEntries
    <3>2. \A m \in 1..Len(items) :
            (\A j \in 1..m : items[j].link # "bad") =>
              m <= Len(entries') /\ entries'[m].post = items[m].post
        BY <1>0, <2>1, <3>1 DEF PlaceInv
    <3>3. \A i \in 1..Len(entries) : entries'[i].author => entries'[i].uri = items[i].uri
        BY <1>4, <2>3, MadeEntries DEF AuthorUri
    <3> QED
        BY <2>1, <3>1, <3>2, <3>3 DEF PlaceInv
  <2> QED
      BY <2>2, <2>3
<1>5. CASE UNCHANGED vars
    BY <1>5 DEF vars, Makes, PlaceInv
<1> QED
    BY <1>1, <1>2, <1>3, <1>4, <1>5 DEF Next

-----------------------------------------------------------------------------
FeedInv == TypeInv /\ ItemsInv /\ EntriesInv /\ PlaceInv

LEMMA FeedInvariant == Spec => []FeedInv
<1>1. Init => FeedInv
  <2> SUFFICES ASSUME Init PROVE FeedInv
      OBVIOUS
  <2>1. page \in Seq(Post) /\ pc = "parse" /\ n = 0 /\ items = <<>> /\ entries = <<>>
      BY FeedAssumption DEF Init
  <2>2. Len(page) \in Nat
      BY <2>1
  <2>3. Parses = 0 /\ Makes = 0
      BY <2>1 DEF Parses, Makes
  <2>4. TypeInv
      BY <2>1 DEF TypeInv
  <2>5. ItemsInv
      BY <2>1, <2>2, <2>3 DEF ItemsInv
  <2>6. EntriesInv
      BY <2>1, <2>3 DEF EntriesInv
  <2>7. PlaceInv
      BY <2>1, <2>3 DEF PlaceInv
  <2> QED
      BY <2>4, <2>5, <2>6, <2>7 DEF FeedInv
<1>2. FeedInv /\ [Next]_vars => FeedInv'
    BY TypeStep, ItemsStep, EntriesStep, PlaceStep DEF FeedInv
<1> QED
    BY <1>1, <1>2, PTL DEF Spec

\* The feed of a page of any length has its good posts, each once and in
\* their order: makeFeed and parse leave out what they say they leave out.
THEOREM FeedComplete == Spec => []FeedIsComplete
<1>1. FeedInv => FeedIsComplete
  <2> SUFFICES ASSUME FeedInv, pc \in {"done", "failed"}
               PROVE  /\ \A k \in 1..Len(page) :
                           Good(page[k]) <=> \E i \in 1..Len(entries) : entries[i].post = k
                      /\ \A i, j \in 1..Len(entries) :
                           i < j => entries[i].post < entries[j].post
      BY DEF FeedIsComplete
  <2> USE DEF FeedInv
  <2>1. Parses = Len(page) /\ Makes = Len(items)
      BY DEF Parses, Makes
  <2>2. ASSUME NEW k \in 1..Len(page), Good(page[k])
        PROVE  \E i \in 1..Len(entries) : entries[i].post = k
    <3>1. HasRequired(page[k]) /\ page[k].link # "bad"
        BY <2>2 DEF Good, HasRequired
    <3>2. PICK j \in 1..Len(items) : items[j].post = k
        BY <2>1, <3>1 DEF ItemsInv
    <3>3. items[j].link # "bad"
        BY <3>1, <3>2, ItemOfPost
    <3> QED
        BY <2>1, <3>2, <3>3 DEF EntriesInv
  <2>3. ASSUME NEW k \in 1..Len(page), NEW i \in 1..Len(entries), entries[i].post = k
        PROVE  Good(page[k])
    <3>1. PICK j \in 1..Len(items) : entries[i].post = items[j].post /\ items[j].link # "bad"
        BY <2>1 DEF EntriesInv
    <3>2. items[j].post = k
        BY <2>3, <3>1
    <3>3. HasRequired(page[k])
        BY <3>2 DEF ItemsInv
    <3>4. page[k].link # "bad"
        BY <3>1, <3>2, ItemOfPost
    <3>5. page[k].link \in {"none", "good", "bad"}
      <4>1. page[k] \in Post
          BY DEF TypeInv
      <4> QED
          BY <4>1 DEF Post
    <3> QED
        BY <3>3, <3>4, <3>5 DEF Good, HasRequired
  <2>4. \A i, j \in 1..Len(entries) : i < j => entries[i].post < entries[j].post
      BY DEF EntriesInv
  <2> QED
      BY <2>2, <2>3, <2>4
<1> QED
    BY <1>1, FeedInvariant, PTL

\* Up to the first item that makeFeed leaves out, a named author has his own
\* link: there the places of entries and items agree.
THEOREM AuthorsOwn == Spec => []AuthorIsOwn
<1>1. FeedInv => AuthorIsOwn
  <2> SUFFICES ASSUME FeedInv, pc = "done",
                      NEW i \in 1..Len(entries),
                      \A j \in 1..i : items[j].link # "bad",
                      entries[i].author
               PROVE  entries[i].uri = OwnUri(entries[i].post)
      BY DEF AuthorIsOwn
  <2> USE DEF FeedInv
  <2>1. Makes = Len(items) /\ Len(items) \in Nat /\ Len(entries) \in Nat
      BY DEF Makes, TypeInv
  <2>2. i \in 1..Len(items)
      BY <2>1 DEF PlaceInv
  <2>3. entries[i].post = items[i].post
      BY <2>1, <2>2 DEF PlaceInv
  <2>4. entries[i].uri = items[i].uri
      BY DEF PlaceInv
  <2> QED
      BY <2>2, <2>3, <2>4, ItemOfPost
<1> QED
    BY <1>1, FeedInvariant, PTL
-----------------------------------------------------------------------------
\* The page stays one of those there may be.
LEMMA PageInvariant == Spec => [](page \in Pages)
<1>1. Init => page \in Pages
    BY DEF Init
<1>2. page \in Pages /\ [Next]_vars => (page \in Pages)'
    BY DEF Next, ParsePost, Parsed, AddEntry, Made, vars
<1> QED
    BY <1>1, <1>2, PTL DEF Spec

\* The content of an item is that of its post.
LEMMA ItemContent ==
    ASSUME TypeInv, NEW i \in 1..Len(items)
    PROVE  /\ items[i].post \in 1..Len(page)
           /\ page[items[i].post].content \in Seq(Token)
           /\ items[i].content = ExtractContent(page[items[i].post].content)
<1>1. PICK k \in 1..Len(page) : items[i] = ExtractPost(k)
    BY DEF TypeInv, PostItems
<1>2. page[k] \in Post
    BY DEF TypeInv
<1>3. page[k].content \in Seq(Token)
    BY <1>2 DEF Post
<1>4. items[i].post = k /\ items[i].content = ExtractContent(page[k].content)
    BY <1>1 DEF ExtractPost
<1> QED
    BY <1>3, <1>4

\* Posts, items and entries have their types, on any page.  That an item's
\* content is one is what the walk over any nodes comes to.
THEOREM TypeCorrect == Spec => []TypeOK
<1>1. FeedInv => TypeOK
  <2> SUFFICES ASSUME FeedInv PROVE items \in Seq(Item)
      BY DEF TypeOK, FeedInv, TypeInv
  <2>1. items \in Seq(PostItems) /\ TypeInv /\ ItemsInv
      BY DEF FeedInv, TypeInv
  <2>2. ASSUME NEW i \in 1..Len(items)
        PROVE  items[i] \in Item
    <3>1. PICK k \in 1..Len(page) : items[i] = ExtractPost(k)
        BY <2>1 DEF PostItems
    <3>2. page[k] \in Post /\ ExtractPost(k).post = k
        BY <2>1, ItemFields DEF TypeInv
    <3>3. page[k].link \in {"good", "bad"}
        BY <2>1, <3>1, <3>2 DEF ItemsInv, HasRequired, Post
    <3>4. page[k].content \in Seq(Token) /\ page[k].author \in Author
        BY <3>2 DEF Post
    <3>5. ExtractContent(page[k].content) \in Seq(Seq(Nat))
        BY <3>4, ContentOrder
    <3>6. page[k].author.name \in BOOLEAN /\ k \in Nat
        BY <3>4 DEF Author
    <3> QED
        BY <3>1, <3>3, <3>5, <3>6 DEF ExtractPost, Item
  <2> QED
      BY <2>1, <2>2
<1> QED
    BY <1>1, FeedInvariant, PTL

\* Whatever the nodes of a post are, its item has every text and every image
\* of it, once and in their order.
THEOREM ContentIsKept == Spec => []ContentKeepsOrder
<1>1. FeedInv => ContentKeepsOrder
  <2> SUFFICES ASSUME FeedInv, NEW i \in 1..Len(items)
               PROVE  LET c  == items[i].content
                          ts == page[items[i].post].content
                      IN  /\ \A k \in Kept(ts) :
                               \E a \in DOMAIN c : \E x \in DOMAIN c[a] : c[a][x] = k
                          /\ \A a, b \in DOMAIN c : \A x \in DOMAIN c[a], y \in DOMAIN c[b] :
                               a < b \/ (a = b /\ x < y) => c[a][x] < c[b][y]
      BY DEF ContentKeepsOrder
  <2>1. /\ page[items[i].post].content \in Seq(Token)
        /\ items[i].content = ExtractContent(page[items[i].post].content)
      BY ItemContent DEF FeedInv
  <2> QED
      BY <2>1, ContentOrder
<1> QED
    BY <1>1, FeedInvariant, PTL

\* Whatever the nodes of a post are, as long as no image is inside of a tag
\* that is kept, every paragraph closes the tags that it opens.
THEOREM TagsClosed == Spec => []TagsAreClosed
<1>1. FeedInv /\ page \in Pages => TagsAreClosed
  <2> SUFFICES ASSUME FeedInv, page \in Pages, NEW i \in 1..Len(items),
                      \A k \in DOMAIN page[items[i].post].content :
                         page[items[i].post].content[k] \in {"img", "noimg"} =>
                            Opened(page[items[i].post].content, 1..k)
                              = Closed(page[items[i].post].content, 1..k),
                      NEW a \in DOMAIN items[i].content
               PROVE  LET ts == page[items[i].post].content
                          c  == items[i].content
                          K  == {c[a][x] : x \in DOMAIN c[a]}
                      IN  Opened(ts, K) = Closed(ts, K)
      BY DEF TagsAreClosed
  <2> DEFINE ts == page[items[i].post].content
             c == items[i].content
  <2>1. items[i].post \in DOMAIN page /\ ts \in Seq(Token) /\ c = ExtractContent(ts)
      BY ItemContent DEF FeedInv, TypeInv
  <2>2. Balanced(ts, DOMAIN ts)
      BY <2>1, FeedAssumption DEF Balanced
  <2>3. \A k \in DOMAIN ts : ts[k] \in {"img", "noimg"} => Balanced(ts, 1..k)
      BY DEF Balanced
  <2>4. Balanced(ts, Places(c[a]))
    <3>1. a \in DOMAIN c
        OBVIOUS
    <3> HIDE DEF ts, c
    <3> QED
        BY <2>1, <2>2, <2>3, <3>1, ContentTags
  <2> QED
      BY <2>4 DEF Balanced, Places
<1> QED
    BY <1>1, FeedInvariant, PageInvariant, PTL
=============================================================================
