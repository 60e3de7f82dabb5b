---------------------------- MODULE MCClaudeCalls ----------------------------
(***************************************************************************)
(* ClaudeCalls on two calls of unlike sizes.  A tick is a quarter of an    *)
(* hour, so min_age is less than one and half an hour is two.              *)
(***************************************************************************)
EXTENDS ClaudeCalls, TLC

CONSTANTS c1, c2

MCWorst == c1 :> 2 @@ c2 :> 3
MCHold  == c1 :> 2 @@ c2 :> 4
MCCosts == {0, 1, 4}
=============================================================================
