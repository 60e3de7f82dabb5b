---------------------------- MODULE MCClaudeAdmit ----------------------------
(***************************************************************************)
(* ClaudeAdmit on two callers.  A tick is the margin of ten seconds, in    *)
(* which a request reaches the gateway; no hold grows stale meanwhile.     *)
(***************************************************************************)
EXTENDS ClaudeAdmit, TLC

CONSTANTS c1, c2

MCWorst == c1 :> 2 @@ c2 :> 2
MCHold  == c1 :> 2 @@ c2 :> 3
MCCosts == {0, 3}
=============================================================================
