--------------------------- MODULE MCRenderService ---------------------------
(***************************************************************************)
(* Small instances of RenderService for TLC.                               *)
(***************************************************************************)
EXTENDS RenderService, TLC

CONSTANTS f1, f2, s1, k1, k2, a

\* Requests for one feed, which accept results of different ages, and for a
\* screenshot of its page.
FeedAndScreenshot == [r \in Req |-> IF r \in Screenshot THEN k2 ELSE k1]
Ages == [r \in Req |-> IF r = f1 THEN 1 ELSE 0]

\* One client asks for everything.
OneAddress == [r \in Req |-> a]
=============================================================================
