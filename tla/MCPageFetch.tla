----------------------------- MODULE MCPageFetch -----------------------------
(***************************************************************************)
(* Small instances of PageFetch for TLC.                                   *)
(***************************************************************************)
EXTENDS PageFetch, TLC

CONSTANTS f1, f2, f3, w1, w2, site, ip, page, anna, ann, bert

\* The first two calls are on different workers, of clients whose cookies print
\* the same; the third one, of another client, comes after the first one.
TwoWorkers == f1 :> w1 @@ f2 :> w2 @@ f3 :> w1
OneSite    == [f \in Fetch |-> site]
OnePage    == [f \in Fetch |-> page]
Clients    == f1 :> anna @@ f2 :> ann @@ f3 :> bert
Prints     == [c \in Client |-> IF c = bert THEN bert ELSE anna]
=============================================================================
