------------------------------ MODULE MCWizard ------------------------------
(***************************************************************************)
(* A small instance of Wizard for TLC: two fields, one of them required,   *)
(* the other one with a default, as the cache lifetime has; and links that *)
(* hold the first one only, of an older wizard and of a cleared field.     *)
(***************************************************************************)
EXTENDS Wizard, TLC

CONSTANTS url, attr, good, bad, g1, g2, p1, p2

AllGood   == [f \in Field |-> {good}]
AtFirst   == [f \in Field |-> IF f = attr THEN good ELSE Empty]

FromElsewhere ==
    {[version |-> 0, data |-> url :> good],
     [version |-> 1, data |-> url :> good]}
=============================================================================
