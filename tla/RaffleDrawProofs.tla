-------------------------- MODULE RaffleDrawProofs --------------------------
(***************************************************************************)
(* Theorems about RaffleDraw, for every value of its constants.            *)
(***************************************************************************)
EXTENDS RaffleDraw, FiniteSetTheorems, TLAPS

----------------------------------------------------------------------------
(* Constants *)

LEMMA DimsFacts ==
    /\ "total" \in Dims
    /\ \A i \in 1..Len(DimSeq) : DimSeq[i] \in Dims
    /\ \A i \in 2..Len(DimSeq) : DimSeq[i] \in PeriodDims
    /\ PeriodDims \subseteq Dims
    /\ 0 \in Periods /\ 1 \in Days
  BY DimsAssumption, CalendarAssumption DEF Dims, PeriodDims, Periods, Days

----------------------------------------------------------------------------
(* Type correctness: first how a process changes its own record *)

LEMMA GotoType ==
    ASSUME RequestTypeOK, NEW r \in Requests, NEW label \in RequestPC, Goto(r, label),
           label \in OrderPC => req[r].order \in Orders,
           label \in AwardPC => req[r].award \in Awards
    PROVE  RequestTypeOK'
  <1>1. req[r] \in RequestRec
    BY DEF RequestTypeOK
  <1>2. [req[r] EXCEPT !.pc = label] \in RequestRec
    BY <1>1 DEF RequestRec
  <1>3. req' = [req EXCEPT ![r] = [req[r] EXCEPT !.pc = label]]
    BY DEF Goto
  <1>4. QED BY <1>1, <1>2, <1>3 DEF RequestTypeOK, RequestRec

LEMMA FailType ==
    ASSUME RequestTypeOK, NEW r \in Requests, Fail(r)
    PROVE  RequestTypeOK'
  BY DimsFacts DEF RequestTypeOK, RequestRec, Fail, RequestPC, OrderPC, AwardPC

LEMMA WorkerGotoType ==
    ASSUME WorkerTypeOK, NEW w \in Workers, worker[w].pc # "idle",
           NEW label \in {"ok", "err"}, WorkerGoto(w, label)
    PROVE  WorkerTypeOK'
  <1>1. worker[w] \in WorkerRec
    BY DEF WorkerTypeOK
  <1>2. [worker[w] EXCEPT !.pc = label] \in WorkerRec
    BY <1>1 DEF WorkerRec
  <1>3. worker' = [worker EXCEPT ![w] = [worker[w] EXCEPT !.pc = label]]
    BY DEF WorkerGoto
  <1>4. QED BY <1>1, <1>2, <1>3 DEF WorkerTypeOK, WorkerRec

LEMMA WorkerIdleType ==
    ASSUME WorkerTypeOK, NEW w \in Workers, worker' = [worker EXCEPT ![w] = IdleWorker]
    PROVE  WorkerTypeOK'
  BY DEF WorkerTypeOK, WorkerRec, IdleWorker, Topics

----------------------------------------------------------------------------
(* Type correctness, action by action *)

LEMMA InitTypeOK == Init => TypeOK
  <1> SUFFICES ASSUME Init PROVE TypeOK
    OBVIOUS
  <1>1. today \in Days /\ RedisTypeOK /\ LedgerTypeOK
    BY DimsFacts DEF Init, RedisTypeOK, LedgerTypeOK, Count
  <1>2. RecordTypeOK
    BY DEF Init, RecordTypeOK
  <1>3. RequestTypeOK
    BY DimsFacts DEF Init, RequestTypeOK, RequestRec, RequestPC, OrderPC, AwardPC
  <1>4. WorkerTypeOK
    BY DEF Init, WorkerTypeOK, WorkerRec, IdleWorker, Topics
  <1>5. LoaderTypeOK
    BY DimsFacts DEF Init, LoaderTypeOK, LoaderRec, IdleLoader, LoadKinds
  <1>6. QED BY <1>1, <1>2, <1>3, <1>4, <1>5 DEF TypeOK

(* A reservation and a compensation leave every key a count. *)
LEMMA AddToKeysType ==
    ASSUME RedisTypeOK, NEW t \in Days, NEW delta \in {-1, 1},
           delta = -1 => \A d \in Dims : Serves(surplus[d][Period(d, t)])
    PROVE  AddToKeys(t, delta) \in [Dims -> [Periods -> Count]]
  <1> SUFFICES ASSUME NEW d \in Dims
               PROVE  [surplus[d] EXCEPT ![Period(d, t)] =
                          IF @ = Nil THEN delta ELSE @ + delta] \in [Periods -> Count]
    BY DEF AddToKeys
  <1>1. surplus[d] \in [Periods -> Count] /\ Period(d, t) \in Periods
    BY CalendarAssumption DEF RedisTypeOK, Period
  <1>2. (IF surplus[d][Period(d, t)] = Nil THEN delta ELSE surplus[d][Period(d, t)] + delta)
          \in Count
    <2>1. surplus[d][Period(d, t)] \in Count
      BY <1>1
    <2>2. QED BY <2>1, NilAssumption DEF Count, Serves
  <1>3. QED BY <1>1, <1>2

LEMMA DrawTypeOK ==
    ASSUME TypeOK, NEW r \in Requests, Draw(r)
    PROVE  TypeOK'
  <1> USE DEF TypeOK, redisVars, ledgerVars, orderVars, outboxVars
  <1>0. /\ req[r] \in RequestRec
        /\ req[r].pc \in OrderPC => req[r].order \in Orders
        /\ req[r].pc \in AwardPC => req[r].award \in Awards
    BY DEF RequestTypeOK
  <1>1. CASE RejectDraw(r)
    BY <1>1, FailType DEF RejectDraw, RedisTypeOK, LedgerTypeOK, RecordTypeOK,
                          WorkerTypeOK, LoaderTypeOK
  <1>2. CASE QueryActivityAccount(r)
    <2>1. CachedTotal \in Nat
      BY DimsFacts, NilAssumption DEF CachedTotal, RedisTypeOK, LedgerTypeOK, Count
    <2>2. RedisTypeOK'
      BY <1>2, <2>1 DEF QueryActivityAccount, RedisTypeOK, Count
    <2>3. CASE Fail(r)
      BY <1>2, <2>2, <2>3, FailType
      DEF QueryActivityAccount, LedgerTypeOK, RecordTypeOK, WorkerTypeOK, LoaderTypeOK
    <2>4. ASSUME NEW t \in 1..today, req' = [req EXCEPT ![r].pc = "day", ![r].day = t]
          PROVE  TypeOK'
      <3>0. t \in Days
        BY CalendarAssumption DEF Days
      <3>1. [req[r] EXCEPT !.pc = "day", !.day = t] \in RequestRec
        BY <1>0, <3>0 DEF RequestRec, RequestPC
      <3>2. req' = [req EXCEPT ![r] = [req[r] EXCEPT !.pc = "day", !.day = t]]
        BY <2>4, <1>0 DEF RequestTypeOK
      <3>3. RequestTypeOK'
        BY <1>0, <3>1, <3>2 DEF RequestTypeOK, RequestRec, OrderPC, AwardPC
      <3>4. QED
        BY <1>2, <2>2, <3>3
        DEF QueryActivityAccount, LedgerTypeOK, RecordTypeOK, WorkerTypeOK, LoaderTypeOK
    <2>5. QED BY <1>2, <2>3, <2>4 DEF QueryActivityAccount
  <1>3. CASE QueryActivityAccountDay(r) \/ QueryActivityAccountMonth(r)
    <2>1. RequestTypeOK'
      BY <1>3, FailType, GotoType
      DEF QueryActivityAccountDay, QueryActivityAccountMonth, RequestPC, OrderPC, AwardPC
    <2>2. QED
      BY <1>3, <2>1 DEF QueryActivityAccountDay, QueryActivityAccountMonth, RedisTypeOK,
                        LedgerTypeOK, RecordTypeOK, WorkerTypeOK, LoaderTypeOK
  <1>4. ASSUME NEW o \in Orders, NEW label \in {"saveLite", "raffle"},
               req' = [req EXCEPT ![r].pc = label, ![r].order = o]
        PROVE  RequestTypeOK'
    <2>1. [req[r] EXCEPT !.pc = label, !.order = o] \in RequestRec
      BY <1>0 DEF RequestRec, RequestPC
    <2>2. req' = [req EXCEPT ![r] = [req[r] EXCEPT !.pc = label, !.order = o]]
      BY <1>4, <1>0 DEF RequestTypeOK
    <2>3. QED BY <1>0, <2>1, <2>2 DEF RequestTypeOK, RequestRec, OrderPC, AwardPC
  <1>5. CASE ReuseOrder(r)
    <2>1. pending \in Orders
      BY <1>5 DEF ReuseOrder, RedisTypeOK
    <2>2. RequestTypeOK'
      BY <1>5, <2>1, <1>4 DEF ReuseOrder
    <2>3. QED
      BY <1>5, <2>2 DEF ReuseOrder, RedisTypeOK, LedgerTypeOK, RecordTypeOK,
                        WorkerTypeOK, LoaderTypeOK
  <1>6. CASE RefuseOrder(r)
    BY <1>6, FailType DEF RefuseOrder, RedisTypeOK, LedgerTypeOK, RecordTypeOK,
                          WorkerTypeOK, LoaderTypeOK
  <1>7. ASSUME NEW o \in Orders, ReserveOrder(r, o) PROVE TypeOK'
    <2>1. AddToKeys(today, -1) \in [Dims -> [Periods -> Count]]
      BY <1>7, AddToKeysType DEF ReserveOrder, QuotaKeysServe
    <2>2. RedisTypeOK'
      BY <1>7, <2>1 DEF ReserveOrder, RedisTypeOK
    <2>3. RequestTypeOK'
      BY <1>7, <1>4 DEF ReserveOrder
    <2>4. QED
      BY <1>7, <2>2, <2>3 DEF ReserveOrder, LedgerTypeOK, RecordTypeOK,
                              WorkerTypeOK, LoaderTypeOK
  <1>8. CASE SaveLite(r)
    <2>1. req[r].order \in Orders /\ req[r].day \in Days
      BY <1>0, <1>8 DEF SaveLite, OrderPC, RequestRec
    <2>2. RecordTypeOK'
      BY <1>8, <2>1 DEF SaveLite, InsertOrder, InsertTask, RecordTypeOK
    <2>3. RequestTypeOK'
      BY <1>8, <2>1, GotoType DEF SaveLite, RequestPC, AwardPC
    <2>4. QED
      BY <1>8, <2>2, <2>3 DEF SaveLite, RedisTypeOK, LedgerTypeOK, WorkerTypeOK, LoaderTypeOK
  <1>9. CASE SaveLiteDuplicate(r) \/ SaveLiteFail(r)
    <2>1. RequestTypeOK'
      BY <1>9, <1>0, GotoType DEF SaveLiteDuplicate, SaveLiteFail, RequestPC, OrderPC, AwardPC
    <2>2. QED
      BY <1>9, <2>1 DEF SaveLiteDuplicate, SaveLiteFail, RedisTypeOK, LedgerTypeOK,
                        RecordTypeOK, WorkerTypeOK, LoaderTypeOK
  <1>10. CASE Compensate(r)
    <2>1. req[r].day \in Days
      BY <1>0 DEF RequestRec
    <2>2. RedisTypeOK'
      BY <1>10, <2>1, AddToKeysType DEF Compensate, GiveBack, RedisTypeOK
    <2>3. QED
      BY <1>10, <2>2, FailType DEF Compensate, LedgerTypeOK, RecordTypeOK,
                                   WorkerTypeOK, LoaderTypeOK
  <1>11. CASE CompensateFail(r) \/ PerformRaffleFail(r) \/ SaveAwardFail(r) \/ Crash(r)
    BY <1>11, FailType
    DEF CompensateFail, PerformRaffleFail, SaveAwardFail, Crash, RedisTypeOK, LedgerTypeOK,
        RecordTypeOK, WorkerTypeOK, LoaderTypeOK
  <1>12. ASSUME NEW a \in Awards, PerformRaffle(r, a) PROVE TypeOK'
    <2>1. [req[r] EXCEPT !.pc = "award", !.award = a] \in RequestRec
      BY <1>0 DEF RequestRec, RequestPC
    <2>2. req' = [req EXCEPT ![r] = [req[r] EXCEPT !.pc = "award", !.award = a]]
      BY <1>12, <1>0 DEF PerformRaffle, RequestTypeOK
    <2>3. RequestTypeOK'
      BY <1>12, <1>0, <2>1, <2>2 DEF PerformRaffle, RequestTypeOK, RequestRec, OrderPC, AwardPC
    <2>4. QED
      BY <1>12, <2>3 DEF PerformRaffle, RedisTypeOK, LedgerTypeOK, RecordTypeOK,
                         WorkerTypeOK, LoaderTypeOK
  <1>13. CASE SaveAward(r)
    <2>1. req[r].order \in Orders /\ req[r].award \in Awards
      BY <1>0, <1>13 DEF SaveAward, OrderPC, AwardPC
    <2>2. RecordTypeOK'
      BY <1>13, <2>1 DEF SaveAward, InsertTask, RecordTypeOK
    <2>3. RequestTypeOK'
      BY <1>13, <2>1, GotoType, FailType DEF SaveAward, RequestPC
    <2>4. QED
      BY <1>13, <2>2, <2>3 DEF SaveAward, RedisTypeOK, LedgerTypeOK, WorkerTypeOK, LoaderTypeOK
  <1>14. CASE SaveAwardDuplicate(r) \/ DeletePending(r)
    <2>1. RequestTypeOK'
      BY <1>14, <1>0, GotoType DEF SaveAwardDuplicate, DeletePending, RequestPC, OrderPC, AwardPC
    <2>2. QED
      BY <1>14, <2>1 DEF SaveAwardDuplicate, DeletePending, RedisTypeOK, LedgerTypeOK,
                         RecordTypeOK, WorkerTypeOK, LoaderTypeOK
  <1>15. QED
    BY <1>1, <1>2, <1>3, <1>5, <1>6, <1>7, <1>8, <1>9, <1>10, <1>11, <1>12, <1>13, <1>14,
       Draw(r) DEF Draw, CreateOrder, SaveUserAwardRecord

(* The transaction of SaveCreatePartakeOrderAggregate leaves every row a count. *)
LEMMA DeductType ==
    ASSUME LedgerTypeOK, NEW o \in Orders, CanDeduct(o)
    PROVE  /\ account \in [Dims -> Nat]
           /\ [d \in Dims |-> account[d] - 1] \in [Dims -> Nat]
           /\ DeductPeriodRows(orderDay[o]) \in [PeriodDims -> [Periods -> Count]]
  <1>1. account \in [Dims -> Nat]
    BY DEF LedgerTypeOK, CanDeduct
  <1>2. \A d \in Dims : account[d] \in Nat /\ account[d] - 1 \in Nat
    BY <1>1 DEF CanDeduct
  <1>3. ASSUME NEW d \in PeriodDims
        PROVE  [periodRow[d] EXCEPT ![Period(d, orderDay[o])] =
                   IF @ = Nil THEN NewPeriodRow(d) ELSE @ - 1] \in [Periods -> Count]
    <2> DEFINE p == Period(d, orderDay[o])
    <2>1. periodRow[d] \in [Periods -> Count]
      BY DEF LedgerTypeOK
    <2>2. p \in Periods =>
             (IF periodRow[d][p] = Nil THEN NewPeriodRow(d) ELSE periodRow[d][p] - 1) \in Count
      <3>1. p \in Periods => periodRow[d][p] \in Count
        BY <2>1
      <3>2. QED BY <1>2, <3>1, DimsFacts DEF CanDeduct, NewPeriodRow, Count
    <2>3. QED BY <2>1, <2>2
  <1>4. QED BY <1>1, <1>2, <1>3 DEF DeductPeriodRows

LEMMA DispatchTypeOK ==
    ASSUME TypeOK, NEW w \in Workers, DispatchSingleTask(w)
    PROVE  TypeOK'
  <1> USE DEF TypeOK, redisVars, ledgerVars, orderVars, outboxVars
  <1>0. worker[w] \in WorkerRec /\ (worker[w].pc # "idle" => worker[w].order \in Orders)
    BY DEF WorkerTypeOK
  <1>1. ASSUME NEW topic \in Topics, NEW o \in Orders, QueryTask(w, topic, o) PROVE TypeOK'
    <2>1. WorkerTypeOK'
      BY <1>1 DEF QueryTask, WorkerTypeOK, WorkerRec
    <2>2. QED
      BY <1>1, <2>1 DEF QueryTask, RedisTypeOK, LedgerTypeOK, RecordTypeOK, RequestTypeOK,
                        LoaderTypeOK
  <1>2. CASE SaveOrderRecord(w)
    <2>1. worker[w].order \in Orders
      BY <1>0, <1>2 DEF SaveOrderRecord
    <2>2. WorkerTypeOK'
      BY <1>2, WorkerGotoType DEF SaveOrderRecord
    <2>3. LedgerTypeOK'
      BY <1>2, <2>1, DeductType DEF SaveOrderRecord, LedgerTypeOK
    <2>4. RecordTypeOK'
      BY <1>2, <2>1 DEF SaveOrderRecord, RecordTypeOK
    <2>5. QED
      BY <1>2, <2>2, <2>3, <2>4 DEF SaveOrderRecord, RedisTypeOK, RequestTypeOK, LoaderTypeOK
  <1>3. CASE SaveOrderRecordAgain(w) \/ SaveOrderRecordRefused(w) \/ RouteFail(w)
    <2>1. WorkerTypeOK'
      BY <1>3, WorkerGotoType DEF SaveOrderRecordAgain, SaveOrderRecordRefused, RouteFail
    <2>2. QED
      BY <1>3, <2>1 DEF SaveOrderRecordAgain, SaveOrderRecordRefused, RouteFail, RedisTypeOK,
                        LedgerTypeOK, RecordTypeOK, RequestTypeOK, LoaderTypeOK
  <1>4. CASE SendMessage(w)
    <2>1. WorkerTypeOK'
      BY <1>4, WorkerGotoType DEF SendMessage
    <2>2. RecordTypeOK'
      BY <1>4, <1>0 DEF SendMessage, RecordTypeOK
    <2>3. QED
      BY <1>4, <2>1, <2>2 DEF SendMessage, RedisTypeOK, LedgerTypeOK, RequestTypeOK, LoaderTypeOK
  <1>5. CASE MarkTask(w)
    <2>1. worker[w].order \in Orders /\ worker[w].topic \in Topics
      BY <1>0, <1>5 DEF MarkTask, WorkerRec
    <2>2. RecordTypeOK'
      BY <1>5, <2>1 DEF MarkTask, StateAfter, RecordTypeOK
    <2>3. QED
      BY <1>5, <2>2, WorkerIdleType
      DEF MarkTask, RedisTypeOK, LedgerTypeOK, RequestTypeOK, LoaderTypeOK
  <1>6. CASE MarkTaskFail(w) \/ WorkerCrash(w)
    <2>1. WorkerTypeOK'
      BY <1>6, WorkerGotoType, WorkerIdleType DEF MarkTaskFail, WorkerCrash
    <2>2. QED
      BY <1>6, <2>1 DEF MarkTaskFail, WorkerCrash, RedisTypeOK, LedgerTypeOK, RecordTypeOK,
                        RequestTypeOK, LoaderTypeOK
  <1>7. QED
    BY <1>1, <1>2, <1>3, <1>4, <1>5, <1>6, DispatchSingleTask(w)
    DEF DispatchSingleTask, RouteTaskByTopic

LEMMA LoadTypeOK ==
    ASSUME TypeOK, LoadAccount
    PROVE  TypeOK'
  <1> USE DEF TypeOK, redisVars, ledgerVars, orderVars, outboxVars
  <1>0. IdleLoader \in LoaderRec /\ IdleLoader.pc = "idle"
    BY DimsFacts DEF IdleLoader, LoaderRec, LoadKinds
  <1>1. ASSUME NEW k \in LoadKinds, LoadStart(k) PROVE TypeOK'
    <2>1. account \in [Dims -> Nat]
      BY <1>1 DEF LoadStart, LedgerTypeOK
    <2>2. LoaderTypeOK'
      BY <1>1, <2>1 DEF LoadStart, LoaderTypeOK, LoaderRec
    <2>3. QED
      BY <1>1, <2>2 DEF LoadStart, RedisTypeOK, LedgerTypeOK, RecordTypeOK, RequestTypeOK,
                        WorkerTypeOK
  <1>2. ASSUME NEW t \in Days, LoadPeriodRow(t) PROVE TypeOK'
    <2> DEFINE d == DimSeq[loader.i]
               p == Period(d, t)
    <2>1. d \in PeriodDims /\ loader.i \in Nat /\ loader.i >= 2 /\ loader \in LoaderRec
      BY <1>2, DimsFacts, DimsAssumption DEF LoadPeriodRow, LoaderTypeOK, LoaderRec
    <2>2. p \in Periods
      BY <2>1, DimsFacts, CalendarAssumption DEF Period
    <2>3. periodRow[d][p] \in Count /\ loader.val \in [Dims -> Nat] /\ loader.val[d] \in Nat
      BY <2>1, <2>2, DimsFacts DEF LedgerTypeOK, LoaderRec
    <2>4. PICK new \in Nat :
             loader' = [loader EXCEPT !.i = loader.i + 1, !.day = today,
                                      !.val = [loader.val EXCEPT ![d] = new]]
      <3>1. CASE loader' = [loader EXCEPT !.i = loader.i + 1, !.day = today, !.val =
                   [loader.val EXCEPT ![d] = IF periodRow[d][p] = Nil THEN loader.val[d]
                                             ELSE periodRow[d][p]]]
        BY <2>3, <3>1 DEF Count
      <3>2. CASE loader' = [loader EXCEPT !.i = loader.i + 1, !.day = today]
        <4>1. loader.val = [loader.val EXCEPT ![d] = loader.val[d]]
          BY <2>3
        <4>2. loader' = [loader EXCEPT !.i = loader.i + 1, !.day = today,
                                       !.val = [loader.val EXCEPT ![d] = loader.val[d]]]
          BY <2>1, <3>2, <4>1 DEF LoaderRec
        <4>3. QED BY <2>3, <4>2
      <3>3. QED BY <1>2, <2>1, <3>1, <3>2 DEF LoadPeriodRow
    <2> HIDE DEF p, d
    <2>5. [loader.val EXCEPT ![d] = new] \in [Dims -> Nat]
      BY <2>3
    <2>6. LoaderTypeOK'
      <3>1. loader.pc = "query" /\ loader.i + 1 \in Nat /\ loader.i + 1 >= 2
        BY <1>2, <2>1 DEF LoadPeriodRow
      <3>2. loader' \in LoaderRec
        BY <2>1, <2>4, <2>5, <3>1 DEF LoaderRec
      <3>3. loader'.pc = "query" /\ loader'.i = loader.i + 1
        BY <2>1, <2>4, <3>1 DEF LoaderRec
      <3>4. QED BY <3>1, <3>2, <3>3 DEF LoaderTypeOK
    <2>7. LedgerTypeOK'
      <3>1. periodRow' = periodRow \/ periodRow' = [periodRow EXCEPT ![d][p] = loader.val[d]]
        BY <1>2 DEF LoadPeriodRow, d, p
      <3>2. periodRow' \in [PeriodDims -> [Periods -> Count]]
        BY <2>1, <2>3, <3>1 DEF LedgerTypeOK, Count
      <3>3. QED BY <1>2, <3>2 DEF LoadPeriodRow, LedgerTypeOK
    <2>8. QED
      BY <1>2, <2>6, <2>7 DEF LoadPeriodRow, RedisTypeOK, RecordTypeOK, RequestTypeOK,
                              WorkerTypeOK
  <1>3. ASSUME NEW t \in Days, LoadSnapshot(t) PROVE TypeOK'
    <2>1. LoaderTypeOK'
      <3>1. CASE loader.kind = "query"
        BY <1>0, <1>3, <3>1 DEF LoadSnapshot, LoaderTypeOK
      <3>2. CASE loader.kind # "query"
        <4>1. 1 \in 1..Len(DimSeq)
          BY DimsAssumption
        <4>2. loader' = [loader EXCEPT !.pc = "cache", !.i = 1, !.day = t]
          BY <1>3, <3>2 DEF LoadSnapshot
        <4>3. QED BY <4>1, <4>2 DEF LoaderTypeOK, LoaderRec
      <3>3. QED BY <3>1, <3>2
    <2>2. RedisTypeOK'
      BY <1>3, DimsFacts DEF LoadSnapshot, RedisTypeOK, LoaderTypeOK, LoaderRec, Count
    <2>3. QED
      BY <1>3, <2>1, <2>2 DEF LoadSnapshot, LedgerTypeOK, RecordTypeOK, RequestTypeOK,
                              WorkerTypeOK
  <1>4. CASE LoadSurplusKey
    <2>1. DimSeq[loader.i] \in Dims /\ loader.val[DimSeq[loader.i]] \in Nat
      BY <1>4, DimsFacts DEF LoadSurplusKey, LoaderTypeOK, LoaderRec
    <2>2. RedisTypeOK'
      BY <1>4, <2>1 DEF LoadSurplusKey, RedisTypeOK, Count
    <2>3. LoaderTypeOK'
      <3>1. CASE loader.i = Len(DimSeq)
        BY <1>0, <1>4, <3>1 DEF LoadSurplusKey, LoaderTypeOK
      <3>2. CASE loader.i # Len(DimSeq)
        <4>1. loader.i + 1 \in 1..Len(DimSeq)
          BY <1>4, <3>2, DimsAssumption DEF LoadSurplusKey, LoaderTypeOK
        <4>2. loader' = [loader EXCEPT !.i = loader.i + 1]
          BY <1>4, <3>2 DEF LoadSurplusKey
        <4>3. QED BY <1>4, <4>1, <4>2 DEF LoadSurplusKey, LoaderTypeOK, LoaderRec
      <3>3. QED BY <3>1, <3>2
    <2>4. QED
      BY <1>4, <2>2, <2>3 DEF LoadSurplusKey, LedgerTypeOK, RecordTypeOK, RequestTypeOK,
                              WorkerTypeOK
  <1>5. CASE LoadFail
    BY <1>0, <1>5 DEF LoadFail, RedisTypeOK, LedgerTypeOK, RecordTypeOK, RequestTypeOK,
                      WorkerTypeOK, LoaderTypeOK
  <1>6. QED BY <1>1, <1>2, <1>3, <1>4, <1>5, LoadAccount DEF LoadAccount

LEMMA NextTypeOK == TypeOK /\ [Next]_vars => TypeOK'
  <1> SUFFICES ASSUME TypeOK, [Next]_vars PROVE TypeOK'
    OBVIOUS
  <1> USE DEF redisVars, ledgerVars, orderVars, outboxVars
  <1>1. ASSUME NEW r \in Requests, Draw(r) PROVE TypeOK'
    BY <1>1, DrawTypeOK
  <1>2. ASSUME NEW w \in Workers, DispatchSingleTask(w) PROVE TypeOK'
    BY <1>2, DispatchTypeOK
  <1>3. ASSUME NEW b \in Recharges, NEW t \in Days, SaveOrder(b, t) PROVE TypeOK'
    <2>1. account' \in [Dims -> Nat]
      BY <1>3, GrantAssumption, NilAssumption DEF SaveOrder, TypeOK, LedgerTypeOK
    <2>2. ASSUME NEW d \in PeriodDims
          PROVE  [periodRow[d] EXCEPT ![Period(d, t)] = PlusGrant(@, d)]
                    \in [Periods -> Count]
      <3>1. periodRow[d] \in [Periods -> Count] /\ Grant[d] \in Nat
        BY DimsFacts, GrantAssumption DEF TypeOK, LedgerTypeOK
      <3>2. Period(d, t) \in Periods => PlusGrant(periodRow[d][Period(d, t)], d) \in Count
        <4>1. Period(d, t) \in Periods => periodRow[d][Period(d, t)] \in Count
          BY <3>1
        <4>2. QED BY <3>1, <4>1 DEF PlusGrant, Count
      <3>3. QED BY <3>1, <3>2
    <2>3. periodRow' \in [PeriodDims -> [Periods -> Count]]
      BY <1>3, <2>2 DEF SaveOrder, TypeOK, LedgerTypeOK
    <2>4. QED
      BY <1>3, <2>1, <2>3
      DEF SaveOrder, TypeOK, LedgerTypeOK, RedisTypeOK, RecordTypeOK, RequestTypeOK,
          WorkerTypeOK, LoaderTypeOK
  <1>4. CASE LoadAccount
    BY <1>4, LoadTypeOK
  <1>5. CASE Midnight
    BY <1>5, CalendarAssumption
    DEF Midnight, Days, TypeOK, LedgerTypeOK, RedisTypeOK, RecordTypeOK, RequestTypeOK,
        WorkerTypeOK, LoaderTypeOK
  <1>6. CASE Expire
    <2>1. RedisTypeOK'
      BY <1>6 DEF Expire, ExpireSnapshot, ExpireSurplus, ExpirePending, TypeOK, RedisTypeOK, Count
    <2>2. QED
      BY <1>6, <2>1
      DEF Expire, ExpireSnapshot, ExpireSurplus, ExpirePending, TypeOK, LedgerTypeOK,
          RecordTypeOK, RequestTypeOK, WorkerTypeOK, LoaderTypeOK
  <1>7. CASE UNCHANGED vars
    BY <1>7 DEF vars, TypeOK, LedgerTypeOK, RedisTypeOK, RecordTypeOK, RequestTypeOK,
                WorkerTypeOK, LoaderTypeOK
  <1>8. QED
    BY <1>1, <1>2, <1>3, <1>4, <1>5, <1>6, <1>7 DEF Next

(* Every reachable state is well typed: in particular the counters of Redis *)
(* and MySQL are never negative.                                            *)
THEOREM TypeCorrect == Spec => []TypeOK
  BY InitTypeOK, NextTypeOK, PTL DEF Spec
=============================================================================
