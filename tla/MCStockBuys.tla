----------------------------- MODULE MCStockBuys -----------------------------
(* StockBuys on buys of one or two names. *)
EXTENDS StockBuys, TLC

CONSTANTS a, b, c, SPY, QQQ
SizeTwo   == (a :> 2 @@ b :> 1)
SizeMixed     == (a :> 2 @@ b :> 1 @@ c :> 1)
TwoStocks == [o \in Orders |-> IF o = a THEN SPY ELSE QQQ]
Mixed     == [o \in Orders |-> IF o = c THEN QQQ ELSE SPY]

\* A handler whose reading is stale can only end refused: it is taken no further.
NoneStale == \A o \in Orders : phase[o] \in Reads => Fresh(o)
=============================================================================
