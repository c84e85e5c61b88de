------------------------------ MODULE CdcSync ------------------------------
(***************************************************************************)
(* cdc-sync: row events of MySQL's binlog are applied one document at a     *)
(* time to an Elasticsearch index.  A failed write ends the process; no     *)
(* position is saved, so a restart reads the binlog from its oldest event. *)
(* The tables are the shards of one logical table.                         *)
(***************************************************************************)
EXTENDS Naturals, Sequences, FiniteSets, SequencesExt

CONSTANTS
    Shards,          \* physical tables, in whatever schema
    PrimaryKeys,     \* values of their primary keys
    MaxEvents,       \* bound: events written
    WritesPerEvent,  \* document writes that fit into the five seconds of an event
    CdcFaults,       \* what may go wrong
    NoRow            \* no row, no document

CdcFaultKinds ==
    {"esFail",       \* a write of Elasticsearch fails, done or not
     "cdcCrash",     \* the process dies
     "purge"}        \* MySQL removes the oldest event

ASSUME CdcAssumption ==
    /\ MaxEvents \in Nat /\ WritesPerEvent \in Nat
    /\ CdcFaults \subseteq CdcFaultKinds
    /\ IsFiniteSet(PrimaryKeys) /\ NoRow \notin PrimaryKeys /\ NoRow \notin Nat

VARIABLES
    table,           \* the rows: by shard and key, the number of the event that wrote it
    used,            \* the shards that ever had a row with a key (history)
    binlog,          \* events written, the purged ones included
    oldest,          \* index of the oldest event MySQL still has
    cpc,             \* "down" or "run"
    at,              \* index of the event in work, or where the last reading ended
    write,           \* index of its next document write
    doc              \* the documents, by identifier

cdcVars == <<table, used, binlog, oldest, cpc, at, write, doc>>

(* A row change: the key before and after, NoRow where there is none. *)
Change == [old : PrimaryKeys \cup {NoRow}, new : PrimaryKeys \cup {NoRow}]
Document == [shard : Shards, version : 1..MaxEvents]

(* Rows, events and positions are what they should be. *)
CdcTypeOK ==
    /\ table \in [Shards -> [PrimaryKeys -> 1..MaxEvents \cup {NoRow}]]
    /\ used \in [PrimaryKeys -> SUBSET Shards]
    /\ Len(binlog) <= MaxEvents
    /\ \A i \in DOMAIN binlog : binlog[i].shard \in Shards /\ binlog[i].changes \in Seq(Change)
    /\ oldest \in 1..Len(binlog) + 1
    /\ cpc \in {"down", "run"}
    /\ at \in oldest..Len(binlog) + 1
    /\ write \in Nat
    /\ doc \in [PrimaryKeys -> Document \cup {NoRow}]

CdcInit ==
    /\ table = [s \in Shards |-> [k \in PrimaryKeys |-> NoRow]]
    /\ used = [k \in PrimaryKeys |-> {}]
    /\ binlog = <<>>
    /\ oldest = 1
    /\ cpc = "down"
    /\ at = 1
    /\ write = 1
    /\ doc = [k \in PrimaryKeys |-> NoRow]

-----------------------------------------------------------------------------
(* MySQL: a transaction and the event it leaves in the binlog *)

Version == Len(binlog) + 1

Log(s, changes) ==
    /\ Len(binlog) < MaxEvents
    /\ binlog' = Append(binlog, [shard |-> s, changes |-> changes])
    /\ UNCHANGED <<oldest, cpc, at, write, doc>>

Present(s) == {k \in PrimaryKeys : table[s][k] # NoRow}

(* One statement inserts, or deletes, the rows of some keys. *)
InsertRows(s, K) ==
    /\ K # {} /\ K \cap Present(s) = {}
    /\ Log(s, [i \in 1..Cardinality(K) |-> [old |-> NoRow, new |-> SetToSeq(K)[i]]])
    /\ table' = [table EXCEPT ![s] = [k \in PrimaryKeys |-> IF k \in K THEN Version ELSE @[k]]]
    /\ used' = [k \in PrimaryKeys |-> IF k \in K THEN used[k] \cup {s} ELSE used[k]]

DeleteRows(s, K) ==
    /\ K # {} /\ K \subseteq Present(s)
    /\ Log(s, [i \in 1..Cardinality(K) |-> [old |-> SetToSeq(K)[i], new |-> NoRow]])
    /\ table' = [table EXCEPT ![s] = [k \in PrimaryKeys |-> IF k \in K THEN NoRow ELSE @[k]]]
    /\ UNCHANGED used

(* One row is updated, its key perhaps too. *)
UpdateRow(s, k, l) ==
    /\ k \in Present(s) /\ (l = k \/ l \notin Present(s))
    /\ Log(s, <<[old |-> k, new |-> l]>>)
    /\ table' = [table EXCEPT ![s] = [@ EXCEPT ![k] = NoRow, ![l] = Version]]
    /\ used' = [used EXCEPT ![l] = @ \cup {s}]

-----------------------------------------------------------------------------
(* cdc-sync *)

(* Mutant: the reading begins with an event that may have been removed. *)
FirstEvent == 1

(* No position is kept. *)
StartAt == oldest

(* The configuration is complete, Elasticsearch answers the ping, and the    *)
(* canal reads from the oldest event.                                       *)
Run ==
    /\ cpc = "down"
    /\ cpc' = "run"
    /\ at' = StartAt
    /\ write' = 1
    /\ UNCHANGED <<table, used, binlog, oldest, doc>>

(* The primary key alone, in an index whose name drops the shard. *)
DocumentID(s, k) == k

(* The columns of the row, with the names of its schema and table. *)
RowToDocument(e) == [shard |-> binlog[e].shard, version |-> e]

Upsert(e, k) == <<DocumentID(binlog[e].shard, k), RowToDocument(e)>>
Delete(e, k) == <<DocumentID(binlog[e].shard, k), NoRow>>

(* Mutant: the document of the old key stays. *)
KeepOldDocument(e, c) == IF c.new = NoRow THEN <<Delete(e, c.old)>> ELSE <<Upsert(e, c.new)>>

(* The writes of one row change. *)
ChangeWrites(e, c) ==
    (IF c.old # NoRow /\ c.old # c.new THEN <<Delete(e, c.old)>> ELSE <<>>)
        \o (IF c.new # NoRow THEN <<Upsert(e, c.new)>> ELSE <<>>)

(* The writes of OnRow for event e, in order. *)
Writes(e) == FlattenSeq([i \in DOMAIN binlog[e].changes |-> ChangeWrites(e, binlog[e].changes[i])])

Written(w) == [doc EXCEPT ![w[1]] = w[2]]

CanWrite == cpc = "run" /\ at <= Len(binlog)

(* Mutant: 404 is an error to a delete as well. *)
NotFoundIsError(w) == w[2] = NoRow => doc[w[1]] # NoRow

(* A delete of a document that is not there counts as done. *)
WriteAccepted(w) == TRUE

(* The last write of an event ends OnRow, and the canal goes on to the next. *)
WriteDocument ==
    /\ CanWrite
    /\ write <= WritesPerEvent
    /\ WriteAccepted(Writes(at)[write])
    /\ doc' = Written(Writes(at)[write])
    /\ IF write = Len(Writes(at)) THEN at' = at + 1 /\ write' = 1
       ELSE at' = at /\ write' = write + 1
    /\ UNCHANGED <<table, used, binlog, oldest, cpc>>

(* A write fails, perhaps after it took effect, or the time is over: the     *)
(* error ends canal.Run and the process.                                    *)
WriteFails ==
    /\ CanWrite
    /\ "esFail" \in CdcFaults \/ write > WritesPerEvent \/ ~WriteAccepted(Writes(at)[write])
    /\ doc' \in {doc, Written(Writes(at)[write])}
    /\ cpc' = "down"
    /\ UNCHANGED <<table, used, binlog, oldest, at, write>>

CdcCrash ==
    /\ "cdcCrash" \in CdcFaults
    /\ cpc = "run"
    /\ cpc' = "down"
    /\ UNCHANGED <<table, used, binlog, oldest, at, write, doc>>

(* Binlogs are kept until the reading in progress, or the last one, is past. *)
Purge ==
    /\ "purge" \in CdcFaults
    /\ oldest < at
    /\ oldest' = oldest + 1
    /\ UNCHANGED <<table, used, binlog, cpc, at, write, doc>>

CdcNext ==
    \/ \E s \in Shards :
          \/ \E K \in SUBSET PrimaryKeys : InsertRows(s, K) \/ DeleteRows(s, K)
          \/ \E k, l \in PrimaryKeys : UpdateRow(s, k, l)
    \/ Run
    \/ WriteDocument
    \/ WriteFails
    \/ CdcCrash
    \/ Purge

CdcSpec == CdcInit /\ [][CdcNext]_cdcVars

WriteAt(i, n) == at = i /\ write = n /\ WriteDocument

-----------------------------------------------------------------------------
(* Properties *)

CaughtUp == cpc = "run" /\ at = Len(binlog) + 1

(* After any number of failed writes, crashes in the middle of an event and  *)
(* replays of what was applied before, a synchronisation that has caught up  *)
(* has for every key that one shard alone ever used the row of that shard,   *)
(* and no document when the row is gone.                                    *)
DocumentsMatchRows ==
    CaughtUp =>
        \A k \in PrimaryKeys : \A s \in Shards :
            used[k] = {s} =>
                doc[k] = IF table[s][k] = NoRow THEN NoRow
                         ELSE [shard |-> s, version |-> table[s][k]]

(* The synchronisation catches up again and again, although every failure    *)
(* sends it back to the oldest event.                                       *)
CatchesUp == []<>CaughtUp
=============================================================================
