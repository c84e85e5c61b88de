----------------------------- MODULE StockUnits -----------------------------
(***************************************************************************)
(* What the award stock promises: the units 0..StockOf[a]-1 of award a are *)
(* handed to raffles, each unit to at most one raffle and for good, and no *)
(* raffle gets two.                                                        *)
(***************************************************************************)
EXTENDS Integers

CONSTANTS Requests, Awards, StockOf

VARIABLE sold    \* the sales: triples of a raffle, an award and a unit of it

Init == sold = {}

Sell(r, a, u) ==
    /\ u \in 0..(StockOf[a] - 1)
    /\ \A t \in sold : t[1] # r /\ <<t[2], t[3]>> # <<a, u>>
    /\ sold' = sold \cup {<<r, a, u>>}

Next == \E r \in Requests, a \in Awards : \E u \in 0..(StockOf[a] - 1) : Sell(r, a, u)

Spec == Init /\ [][Next]_sold
=============================================================================
