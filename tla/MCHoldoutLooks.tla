--------------------------- MODULE MCHoldoutLooks ---------------------------
(***************************************************************************)
(* HoldoutLooks on two families of one lineage that has one look left.     *)
(***************************************************************************)
EXTENDS HoldoutLooks, TLC

CONSTANTS f1, f2, p1, p2

MCLineage == [x \in Families |-> f1]
MCWrites  == f1 :> {p1, p2} @@ f2 :> {p1}
=============================================================================
