---------------------------- MODULE MCStockCloses ----------------------------
(* StockCloses on three sales of one share each. *)
EXTENDS StockCloses, TLC

CONSTANTS a, b, c, SPY
SizeThree == (a :> 1 @@ b :> 1 @@ c :> 1)
OneStock  == [o \in Orders |-> SPY]
Symmetry  == Permutations(Orders)

\* A handler whose reading is stale can only end refused: it is taken no further.
NoneStale == \A o \in Orders : phase[o] \in Reads => Fresh(o)
=============================================================================
