-------------------------- MODULE MCCheckRateLimit --------------------------
(***************************************************************************)
(* Small instances of CheckRateLimit for TLC.                              *)
(***************************************************************************)
EXTENDS CheckRateLimit, TLC

CONSTANTS c1, c2, c3, c4, a, b

\* The last call comes from another address than the rest.
TwoAddresses == [c \in Call |-> IF c = c4 THEN b ELSE a]
=============================================================================
