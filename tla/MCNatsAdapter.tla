---------------------------- MODULE MCNatsAdapter ----------------------------
(***************************************************************************)
(* Small instances of NatsAdapter for TLC.                                 *)
(***************************************************************************)
EXTENDS NatsAdapter, TLC

CONSTANTS k1, s1, r1, r2, r3, r4

\* Every request is for one key on one webserver.
OneServer == [r \in Req |-> s1]
OneKey    == [r \in Req |-> k1]

\* Nothing but the constants above tells requests, or workers, apart.
Symmetry == Permutations(Req) \cup Permutations(Worker)
=============================================================================
