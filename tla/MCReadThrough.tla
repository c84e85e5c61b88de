---------------------------- MODULE MCReadThrough ----------------------------
(***************************************************************************)
(* Instances of ReadThrough for TLC.                                       *)
(***************************************************************************)
EXTENDS ReadThrough

CONSTANTS q1, q2

(* Both calls in one process, or in two. *)
MCHomes == {[c \in {q1, q2} |-> 1], [c \in {q1, q2} |-> IF c = q1 THEN 1 ELSE 2]}
MCClients == {QueryNoUsedRaffleOrder, QueryAwardRuleWeight}
AllCacheFaults == CacheFaultKinds
==============================================================================
