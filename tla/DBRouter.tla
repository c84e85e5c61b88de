------------------------------ MODULE DBRouter ------------------------------
(***************************************************************************)
(* DBStrategy: which database and which table suffix the hash of a user id  *)
(* leads to.                                                               *)
(***************************************************************************)
EXTENDS Naturals, FiniteSets

(* The databases NewDBRouter opens, and those the outbox job scans. *)
Databases(dbCount) == 1..dbCount

(* The suffix of the table: the index among all tables of all databases. *)
Suffix(hash, dbCount, tbCount) == hash % (dbCount * tbCount)

(* Mutant: databases are counted from zero. *)
FromZero(suffix, tbCount) == suffix \div tbCount

DatabaseOf(suffix, tbCount) == suffix \div tbCount + 1

DBStrategy(hash, dbCount, tbCount) ==
    LET idx == Suffix(hash, dbCount, tbCount)
    IN  [db |-> DatabaseOf(idx, tbCount), suffix |-> idx]

(* Every hash finds a database that exists and that the outbox job scans, a  *)
(* table suffix exists in one database only, and every database has its      *)
(* share of tbCount tables: no user's rows are out of reach of the job and   *)
(* no two databases hold the same table.                                    *)
RoutesPartition(dbCount, tbCount, Hashes) ==
    LET R == {DBStrategy(h, dbCount, tbCount) : h \in Hashes}
    IN  /\ \A r \in R : r.db \in Databases(dbCount)
        /\ \A r, q \in R : r.suffix = q.suffix => r.db = q.db
        /\ \A d \in Databases(dbCount) : Cardinality({r \in R : r.db = d}) = tbCount
=============================================================================
