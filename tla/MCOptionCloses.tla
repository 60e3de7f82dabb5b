--------------------------- MODULE MCOptionCloses ---------------------------
(***************************************************************************)
(* OptionCloses on three closes, of which the account holds two.           *)
(***************************************************************************)
EXTENDS OptionCloses, TLC

CONSTANTS c1, c2, c3

MCSize == c1 :> 1 @@ c2 :> 1 @@ c3 :> 2
=============================================================================
