------------------------------- MODULE MCFeed -------------------------------
(***************************************************************************)
(* Small pages for Feed: pages of a few posts without content, and pages   *)
(* of one post with any content of a few nodes.                            *)
(***************************************************************************)
EXTENDS Feed

CONSTANTS MaxPosts, MaxTokens

\* Every author has a name or a link, or both.
Authors == {[name |-> TRUE, link |-> TRUE], [name |-> FALSE, link |-> TRUE],
            [name |-> TRUE, link |-> FALSE]}

Linked == {[title |-> TRUE, link |-> l, date |-> TRUE, author |-> a, content |-> <<>>] :
             l \in {"good", "bad"}, a \in Authors}

\* A post that lacks one of what is required.
Lacking ==
    LET p == CHOOSE p \in Linked : p.link = "good"
    IN  {[p EXCEPT !.title = FALSE], [p EXCEPT !.link = "none"], [p EXCEPT !.date = FALSE]}

Bare == Linked \cup Lacking

Plain(c) ==
    [title |-> TRUE, link |-> "good", date |-> TRUE,
     author |-> [name |-> FALSE, link |-> FALSE], content |-> c]

\* What the walk over a tree of nodes can be: every tag that opens closes.
Walks ==
    {ts \in UNION {[1..k -> Token] : k \in 0..MaxTokens} :
       /\ \A k \in 0..Len(ts) : Opened(ts, 1..k) >= Closed(ts, 1..k)
       /\ Opened(ts, DOMAIN ts) = Closed(ts, DOMAIN ts)}

SmallPages ==
    UNION {[1..k -> Bare] : k \in 0..MaxPosts} \cup {<<Plain(c)>> : c \in Walks}
=============================================================================
