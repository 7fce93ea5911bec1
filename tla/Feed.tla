-------------------------------- MODULE Feed --------------------------------
(***************************************************************************)
(* From a page to a feed: htmlParser.parse on a worker (pwextractor), and  *)
(* makeFeed on the webserver (internal/api/http).                          *)
(*                                                                         *)
(* The worker's loop turns posts into items and leaves out posts without   *)
(* title, link or date; the webserver's loop turns items into entries and  *)
(* leaves out items whose link does not parse.  Posts, items and entries   *)
(* are told apart by the number of their post on the page.  A post's       *)
(* content is the walk over its nodes: texts, images, and where a tag that *)
(* is kept opens and closes.                                               *)
(***************************************************************************)
EXTENDS Naturals, Sequences, FiniteSets

CONSTANTS
    Pages \* the pages there may be, each a sequence of posts

\* A blank text and an image without a source are in the walk, but not in the
\* content.
Token == {"text", "blank", "img", "noimg", "open", "close"}

Opened(ts, K) == Cardinality({k \in K : ts[k] = "open"})
Closed(ts, K) == Cardinality({k \in K : ts[k] = "close"})

\* What the task's selectors find in a post.  A link may be one that does not
\* parse; an author may have a link, a name, or both.
Author == [name : BOOLEAN, link : BOOLEAN]

Post == [title   : BOOLEAN,
         link    : {"none", "good", "bad"},
         date    : BOOLEAN,
         author  : Author,
         content : Seq(Token)]

\* The walk closes every tag that it opened, when it is through with the node.
ASSUME FeedAssumption ==
    /\ Pages \subseteq Seq(Post)
    /\ \A p \in Pages : \A k \in DOMAIN p :
          LET ts == p[k].content IN Opened(ts, DOMAIN ts) = Closed(ts, DOMAIN ts)

VARIABLES
    page,    \* the page
    pc,      \* where the two loops are
    n,       \* posts, or items, that the loop has been through
    items,   \* TaskResult.Items
    entries  \* the feed's entries

vars == <<page, pc, n, items, entries>>

Item == [post : Nat, link : {"good", "bad"}, author : BOOLEAN, uri : Nat,
         content : Seq(Seq(Nat))]

Entry == [post : Nat, author : BOOLEAN, uri : Nat]

TypeOK ==
    /\ page \in Seq(Post)
    /\ pc \in {"parse", "make", "done", "failed"}
    /\ n \in Nat
    /\ items \in Seq(Item)
    /\ entries \in Seq(Entry)

Init ==
    /\ page \in Pages
    /\ pc = "parse"
    /\ n = 0
    /\ items = <<>>
    /\ entries = <<>>

-----------------------------------------------------------------------------
(* extractContent *)

\* Paragraphs and images so far, and the paragraph under way; of each, the
\* numbers of the tokens in it.
Begin == [blocks |-> <<>>, paragraph |-> <<>>]

FinishParagraph(c) ==
    IF c.paragraph = <<>> THEN c
    ELSE [blocks |-> Append(c.blocks, c.paragraph), paragraph |-> <<>>]

\* Mutant of AddImage: the text before the image is not finished first.
AddImageAtOnce(c, k) == [c EXCEPT !.blocks = Append(@, <<k>>)]

AddImage(c, k) ==
    LET d == FinishParagraph(c)
    IN  [d EXCEPT !.blocks = Append(@, <<k>>)]

\* Mutant of Visit: a tag is not closed.
VisitUnclosed(c, t, k) ==
    CASE t = "img" -> AddImage(c, k)
      [] t = "noimg" -> FinishParagraph(c)
      [] t \in {"text", "open"} -> [c EXCEPT !.paragraph = Append(@, k)]
      [] OTHER -> c

Visit(c, t, k) ==
    CASE t = "img" -> AddImage(c, k)
      [] t = "noimg" -> FinishParagraph(c)
      [] t \in {"text", "open", "close"} -> [c EXCEPT !.paragraph = Append(@, k)]
      [] OTHER -> c

ExtractContent(ts) ==
    LET walk[k \in 0..Len(ts)] ==
          IF k = 0 THEN Begin ELSE Visit(walk[k - 1], ts[k], k)
    IN  FinishParagraph(walk[Len(ts)]).blocks

-----------------------------------------------------------------------------
(* parse *)

\* Mutant of HasRequired: a post need not have a link.
HasTitleAndDate(p) == p.title /\ p.date

HasRequired(p) == p.title /\ p.link # "none" /\ p.date

\* A link is made absolute; one that does not parse stays as it is.
ExtractPost(k) ==
    LET p == page[k]
    IN  [post    |-> k,
         link    |-> p.link,
         author  |-> p.author.name,
         uri     |-> IF p.author.link THEN k ELSE 0,
         content |-> ExtractContent(p.content)]

ParsePost ==
    /\ pc = "parse" /\ n < Len(page)
    /\ n' = n + 1
    /\ items' = IF HasRequired(page[n + 1])
                THEN Append(items, ExtractPost(n + 1)) ELSE items
    /\ UNCHANGED <<page, pc, entries>>

\* The task ends: with an error if there is no item, and so if there is no
\* post.
Parsed ==
    /\ pc = "parse" /\ n = Len(page)
    /\ pc' = IF items = <<>> THEN "failed" ELSE "make"
    /\ n' = 0
    /\ UNCHANGED <<page, items, entries>>

-----------------------------------------------------------------------------
(* makeFeed *)

\* The author of an entry is named only if there is a name.
MakeEntry(item) == [post |-> item.post, author |-> item.author, uri |-> 0]

\* Mutant of AddEntry: the loop ends at an item it leaves out.
AddUntilBad ==
    /\ pc = "make" /\ n < Len(items)
    /\ IF items[n + 1].link = "bad"
       THEN /\ n' = Len(items)
            /\ UNCHANGED entries
       ELSE /\ n' = n + 1
            /\ entries' = Append(entries, MakeEntry(items[n + 1]))
    /\ UNCHANGED <<page, pc, items>>

AddEntry ==
    /\ pc = "make" /\ n < Len(items)
    /\ n' = n + 1
    /\ entries' = IF items[n + 1].link = "bad" THEN entries
                  ELSE Append(entries, MakeEntry(items[n + 1]))
    /\ UNCHANGED <<page, pc, items>>

\* Mutant of AuthorUri: the places are counted from one and from zero.
AuthorUriBefore(i) ==
    IF entries[i].author /\ i > 1 THEN items[i - 1].uri ELSE 0

\* Authors' links are copied by the place of the entry, not of its item.
AuthorUri(i) == IF entries[i].author THEN items[i].uri ELSE 0

\* An error if there is no entry.
Made ==
    /\ pc = "make" /\ n = Len(items)
    /\ IF entries = <<>>
       THEN pc' = "failed" /\ UNCHANGED entries
       ELSE /\ pc' = "done"
            /\ entries' = [i \in 1..Len(entries) |->
                             [entries[i] EXCEPT !.uri = AuthorUri(i)]]
    /\ UNCHANGED <<page, n, items>>

Next == ParsePost \/ Parsed \/ AddEntry \/ Made

Spec == Init /\ [][Next]_vars

-----------------------------------------------------------------------------
(* Properties *)

\* A post that belongs into the feed.
Good(p) == p.title /\ p.link = "good" /\ p.date

\* The feed has the page's good posts, each once and in the page's order; and
\* there is no feed only where there is no good post.
FeedIsComplete ==
    pc \in {"done", "failed"} =>
      /\ \A k \in 1..Len(page) :
           Good(page[k]) <=> \E i \in 1..Len(entries) : entries[i].post = k
      /\ \A i, j \in 1..Len(entries) : i < j => entries[i].post < entries[j].post

OwnUri(k) == IF page[k].author.link THEN k ELSE 0

\* A named author's link is his own, unless an item at or before the place of
\* the entry was left out: then it may be another author's.
AuthorIsOwn ==
    pc = "done" =>
      \A i \in 1..Len(entries) :
         (\A j \in 1..i : items[j].link # "bad") /\ entries[i].author =>
            entries[i].uri = OwnUri(entries[i].post)

Kept(ts) == {k \in DOMAIN ts : ts[k] \in {"text", "img"}}

\* An item's content has every text and every image of its post, once and in
\* their order, though texts are collected and images are not.
ContentKeepsOrder ==
    \A i \in 1..Len(items) :
       LET c  == items[i].content
           ts == page[items[i].post].content
       IN  /\ \A k \in Kept(ts) :
                \E a \in DOMAIN c : \E x \in DOMAIN c[a] : c[a][x] = k
           /\ \A a, b \in DOMAIN c : \A x \in DOMAIN c[a], y \in DOMAIN c[b] :
                a < b \/ (a = b /\ x < y) => c[a][x] < c[b][y]

\* The tags of every paragraph are closed in it, unless an image was inside of
\* one: an image ends the paragraph, but not the tags around it.
TagsAreClosed ==
    \A i \in 1..Len(items) :
       LET ts == page[items[i].post].content
           c  == items[i].content
       IN  (\A k \in DOMAIN ts :
              ts[k] \in {"img", "noimg"} => Opened(ts, 1..k) = Closed(ts, 1..k))
           => \A a \in DOMAIN c :
                LET K == {c[a][x] : x \in DOMAIN c[a]}
                IN  Opened(ts, K) = Closed(ts, K)
=============================================================================
