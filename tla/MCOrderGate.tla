----------------------------- MODULE MCOrderGate -----------------------------
(* OrderGate on four requests over two days of one tick each. *)
EXTENDS OrderGate, TLC

CreditOpen == [venue |-> "alpaca", exit |-> FALSE, credit |-> TRUE, amount |-> 2]
SmallOpen  == [venue |-> "alpaca", exit |-> FALSE, credit |-> FALSE, amount |-> 1]
CloseOrder == [venue |-> "alpaca", exit |-> TRUE, credit |-> FALSE, amount |-> 1]
KalshiBuy  == [venue |-> "kalshi", exit |-> FALSE, credit |-> FALSE, amount |-> 2]

MCOrders == {CreditOpen, SmallOpen, CloseOrder, KalshiBuy}
TwoEquities == {2, 5}
Symmetry == Permutations(Requests)

(* How many of each order the four requests carry: opens that fit the day   *)
(* one by one but not together, opens enough to want the exits' places, and *)
(* Kalshi's orders and exits beside them.                                   *)
Mixes ==
    {CreditOpen :> 2 @@ SmallOpen :> 1 @@ CloseOrder :> 1 @@ KalshiBuy :> 0,
     CreditOpen :> 0 @@ SmallOpen :> 3 @@ CloseOrder :> 1 @@ KalshiBuy :> 0,
     CreditOpen :> 1 @@ SmallOpen :> 0 @@ CloseOrder :> 2 @@ KalshiBuy :> 1,
     CreditOpen :> 1 @@ SmallOpen :> 0 @@ CloseOrder :> 1 @@ KalshiBuy :> 2}

MCInit == Init /\ [o \in Orders |-> Cardinality({r \in Requests : order[r] = o})] \in Mixes
MCSpec == MCInit /\ [][Next]_vars
=============================================================================
