---------------------------- MODULE MCRaffleDraw ----------------------------
(***************************************************************************)
(* Instances of RaffleDraw for TLC.                                        *)
(***************************************************************************)
EXTENDS RaffleDraw, TLC

CONSTANTS r1, r2, r3, o1, o2, o3, a1, a2, b1, b2, w1, w2

(* The dimensions: the day is the one that changes period. *)
DimSeqTotal == <<"total">>
DimSeqTotalDay == <<"total", "day">>
DimSeqAll == <<"total", "month", "day">>

(* PeriodOf: the total has one period, days change at midnight, both days are *)
(* in the same month.                                                         *)
Calendar == [d \in {"total", "month", "day"} |->
               [t \in Days |-> CASE d = "total" -> 0
                                 [] d = "month" -> 1
                                 [] d = "day"   -> t]]

GrantOne == [d \in {"total", "month", "day"} |-> 1]
GrantTwo == [d \in {"total", "month", "day"} |-> 2]

Symmetry == Permutations(Requests) \cup Permutations(Orders) \cup Permutations(Awards)
            \cup Permutations(Workers)

Reload == {"reload"}
NoFaults == {}
(* Everything that can go wrong while a Draw is served or a task dispatched. *)
RequestFaults == {"reject", "saveFail", "ackLost", "replyLost", "compensateFail", "collision",
                  "raffleFail", "awardFail", "deleteFail", "crash", "expire",
                  "routeFail", "markFail", "workerCrash"}
(* Loads, of which the query may run while draws go on. *)
LoadFaults == {"query", "armory", "loadFail"}
(* What a Draw may suffer without a reservation being given back. *)
LossFaults == {"reject", "replyLost", "raffleFail", "awardFail", "deleteFail", "crash", "expire"}
TransientFaults == {"routeFail", "crash"}
=============================================================================
