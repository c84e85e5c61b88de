-------------------------- MODULE MCStrategyRaffle --------------------------
(***************************************************************************)
(* Instances of StrategyRaffle for TLC.                                    *)
(***************************************************************************)
EXTENDS StrategyRaffle, TLC

CONSTANTS r1, r2, r3, m1, prize, luck, gift

(* Chains. *)
NoRules == <<>>
BlackThenWeight == <<"rule_blacklist", "rule_weight">>

(* Rule trees: lock, then stock, and the luck award when one of them takes *)
(* over.  A line to "" ends the walk.                                      *)
Line(value, to) == [type |-> "EQUAL", value |-> value, to |-> to]

StockTree ==
    [n \in TreeNames |->
       CASE n = "rule_lock"       -> <<Line("ALLOW", "rule_stock"), Line("TAKE_OVER", "rule_luck_award")>>
         [] n = "rule_stock"      -> <<Line("TAKE_OVER", "rule_luck_award"), Line("ALLOW", "")>>
         [] n = "rule_luck_award" -> <<>>]

(* The tree sells one unit per walk and guards the awards behind it. *)
ASSUME TreeIsSound == SellsOnce({"rule_luck_award"}) /\ StockGuards

(* Rates of one per award give pools of one index per award. *)
OneList == {[a \in Awards |-> IF a = luck THEN 0 ELSE 10000]}
TwoLists == {[a \in Awards |-> 10000],
             [a \in Awards |-> IF a = luck THEN 0 ELSE 10000],
             [a \in Awards |-> IF a = prize THEN 10000 ELSE 0]}

NoWeights == [k \in {} |-> {}]
TwoWeights == (1 :> {prize, luck}) @@ (2 :> {luck})

StockOne == [a \in Awards |-> IF a = prize THEN 1 ELSE 0]
StockTwo == [a \in Awards |-> IF a = prize THEN 2 ELSE 0]

(* The queues NewAsynqServer serves, and those with a worker for critical. *)
RepositoryQueues == {"activity_sku_stock_consume", "default", "low"}
WithCriticalWorker == RepositoryQueues \cup {StockQueue}

SellingFaults == {"fail", "replyLost", "restore", "asmFail"}
PoolFaults == {"relist", "poolExpire", "redeliver", "lockExpire"}
RestoreAndExpiry == {"restore", "lockExpire"}
NoFaults == {}

Symmetry == Permutations(Requests)
=============================================================================
