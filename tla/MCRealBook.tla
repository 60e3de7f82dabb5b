----------------------------- MODULE MCRealBook -----------------------------
(***************************************************************************)
(* RealBook on a spread of one unit with two closes that may be sent for   *)
(* it, and an open of two units on the other side of one of its legs.      *)
(***************************************************************************)
EXTENDS RealBook, TLC

CONSTANTS o1, o2, c1, c2, ka, kb

MCStructure == o1 :> (ka :> 1 @@ kb :> -1) @@ o2 :> (kb :> 1)
MCSize      == o1 :> 1 @@ o2 :> 2
MCTarget    == c1 :> o1 @@ c2 :> o1

Alike == Permutations(Closes)
=============================================================================
