------------------------- MODULE RaffleLedgerProofs -------------------------
(***************************************************************************)
(* The quota ledger of RaffleDraw: however often and from however many     *)
(* goroutines SaveCreatePartakeOrderAggregate runs for an order, it is     *)
(* counted once, in the account and in its own day and month; and neither  *)
(* the keys of DecrSurplusQuota nor the awards outgrow the recharges.      *)
(***************************************************************************)
EXTENDS RaffleOutboxProofs

(* A saved order knows its day. *)
OrderDated == \A o \in Orders : orderState[o] # "none" => orderDay[o] \in Days

(* What a load carries from its first read is covered by the recharges. *)
LoaderCapped == loader.pc # "idle" => \A d \in Dims : loader.val[d] <= Granted(d)

LedgerInv ==
    /\ OutboxInv
    /\ OrderDated
    /\ LedgerBalanced
    /\ PeriodCapped
    /\ LoaderCapped

----------------------------------------------------------------------------
(* Counting *)

LEMMA GrantedType ==
    ASSUME recharged \in SUBSET Recharges, NEW d \in Dims
    PROVE  Granted(d) \in Nat
  <1>1. Cardinality(recharged) \in Nat
    BY FiniteAssumption, FS_Subset, FS_CardinalityType
  <1>2. \A g, n \in Nat : g * n \in Nat
    OBVIOUS
  <1>3. QED BY <1>1, <1>2, GrantAssumption DEF Granted

LEMMA GrantedGrows ==
    ASSUME recharged \in SUBSET Recharges, NEW b \in Recharges, b \notin recharged,
           recharged' = recharged \cup {b}, NEW d \in Dims
    PROVE  Granted(d)' = Granted(d) + Grant[d]
  <1>1. IsFiniteSet(recharged) /\ Cardinality(recharged) \in Nat
    BY FiniteAssumption, FS_Subset, FS_CardinalityType
  <1>2. Cardinality(recharged') = Cardinality(recharged) + 1
    BY <1>1, FS_AddElement
  <1>3. \A g, n \in Nat : g * (n + 1) = g * n + g
    OBVIOUS
  <1>4. QED BY <1>1, <1>2, <1>3, GrantAssumption DEF Granted

LEMMA SyncedFinite ==
    /\ IsFiniteSet(Synced) /\ Cardinality(Synced) \in Nat
    /\ \A d, p : IsFiniteSet(SyncedIn(d, p)) /\ Cardinality(SyncedIn(d, p)) \in Nat
  <1>1. Synced \subseteq Orders /\ \A d, p : SyncedIn(d, p) \subseteq Orders
    BY DEF Synced, SyncedIn
  <1>2. QED BY <1>1, FiniteAssumption, FS_Subset, FS_CardinalityType

----------------------------------------------------------------------------
LEMMA InitLedgerInv == Init => LedgerInv
  <1> SUFFICES ASSUME Init PROVE LedgerInv
    OBVIOUS
  <1>1. OutboxInv
    BY InitOutboxInv
  <1>2. Synced = {} /\ \A d, p : SyncedIn(d, p) = {}
    BY DEF Init, Synced, SyncedIn
  <1>3. LedgerBalanced /\ OrderDated
    BY <1>2 DEF Init, LedgerBalanced, OrderDated
  <1>4. PeriodCapped /\ LoaderCapped
    BY <1>2 DEF Init, PeriodCapped, LoaderCapped, IdleLoader
  <1>5. QED BY <1>1, <1>3, <1>4 DEF LedgerInv

(* Steps that touch neither the ledger nor an order. *)
LEMMA LedgerFrame ==
    ASSUME LedgerInv, OutboxInv', LoaderCapped',
           UNCHANGED <<recharged, account, periodRow, syncState, orderDay>>,
           \A o \in Orders : orderState'[o] # "none" => orderState[o] # "none"
    PROVE  LedgerInv'
  <1>1. UNCHANGED <<Synced>> /\ (\A d \in Dims : Granted(d)' = Granted(d))
        /\ (\A d \in PeriodDims, p \in Periods : SyncedIn(d, p)' = SyncedIn(d, p))
    BY DEF Synced, SyncedIn, Granted
  <1>2. LedgerBalanced'
    BY <1>1 DEF LedgerInv, LedgerBalanced
  <1>3. PeriodCapped'
    BY <1>1, DimsFacts DEF LedgerInv, PeriodCapped
  <1>4. QED BY <1>2, <1>3 DEF LedgerInv, OrderDated

LEMMA DrawLedgerInv ==
    ASSUME LedgerInv, OutboxInv', NEW r \in Requests, Draw(r)
    PROVE  LedgerInv'
  <1>0. LoaderCapped'
    <2>1. UNCHANGED <<loader, recharged>>
      BY Draw(r)
      DEF Draw, CreateOrder, SaveUserAwardRecord, RejectDraw, QueryActivityAccount,
          QueryActivityAccountDay, QueryActivityAccountMonth, ReuseOrder, RefuseOrder, ReserveOrder, SaveLite,
          SaveLiteDuplicate, SaveLiteFail, Compensate, CompensateFail, PerformRaffle,
          PerformRaffleFail, SaveAward, SaveAwardDuplicate, SaveAwardFail, DeletePending, Crash,
          ledgerVars
    <2>2. QED BY <2>1 DEF LedgerInv, LoaderCapped, Granted
  <1>1. CASE UNCHANGED <<ledgerVars, orderVars>>
    BY <1>0, <1>1, LedgerFrame DEF ledgerVars, orderVars
  <1>2. CASE SaveLite(r)
    <2> DEFINE o == req[r].order
    <2>1. o \in Orders /\ req[r].day \in Days
      BY <1>2 DEF SaveLite, LedgerInv, OutboxInv, TypeOK, RequestTypeOK, RequestRec, OrderPC
    <2>2. /\ orderState[o] = "none"
          /\ orderState' = [orderState EXCEPT ![o] = "create"]
          /\ syncState' = [syncState EXCEPT ![o] = "create"]
          /\ orderDay' = [orderDay EXCEPT ![o] = req[r].day]
          /\ UNCHANGED <<recharged, account, periodRow>>
      BY <1>2 DEF SaveLite, InsertOrder, ledgerVars
    <2> HIDE DEF o
    <2>3. syncState[o] = "none"
      BY <2>1, <2>2 DEF LedgerInv, OutboxInv, RowWhole
    <2>4. Synced' = Synced
      BY <2>1, <2>2, <2>3 DEF Synced, LedgerInv, OutboxInv, TypeOK, RecordTypeOK
    <2>5. \A q \in Synced : orderDay'[q] = orderDay[q]
      BY <2>1, <2>2, <2>3 DEF Synced, LedgerInv, OutboxInv, TypeOK, RecordTypeOK
    <2>6. \A d, p : SyncedIn(d, p)' = SyncedIn(d, p)
      BY <2>4, <2>5 DEF SyncedIn, Period
    <2>7. LedgerBalanced' /\ PeriodCapped'
      BY <2>2, <2>4, <2>6 DEF LedgerInv, LedgerBalanced, PeriodCapped, Granted
    <2>8. OrderDated'
      BY <2>1, <2>2 DEF LedgerInv, OrderDated, OutboxInv, TypeOK, RecordTypeOK
    <2>9. QED BY <1>0, <2>7, <2>8 DEF LedgerInv
  <1>3. CASE SaveAward(r)
    <2>1. \A o \in Orders : orderState'[o] # "none" => orderState[o] # "none"
      BY <1>3 DEF SaveAward, LedgerInv, OutboxInv, TypeOK, RecordTypeOK
    <2>2. QED BY <1>0, <1>3, <2>1, LedgerFrame DEF SaveAward, ledgerVars
  <1>4. QED
    BY <1>1, <1>2, <1>3, Draw(r)
    DEF Draw, CreateOrder, SaveUserAwardRecord, RejectDraw, QueryActivityAccount,
        QueryActivityAccountDay, QueryActivityAccountMonth, ReuseOrder, RefuseOrder, ReserveOrder, SaveLiteDuplicate,
        SaveLiteFail, Compensate, CompensateFail, PerformRaffle, PerformRaffleFail,
        SaveAwardDuplicate, SaveAwardFail, DeletePending, Crash, ledgerVars, orderVars

(* The transaction that counts an order. *)
LEMMA SaveOrderRecordLedgerInv ==
    ASSUME LedgerInv, OutboxInv', NEW w \in Workers, SaveOrderRecord(w)
    PROVE  LedgerInv'
  <1> DEFINE o == worker[w].order
  <1> USE DEF LedgerInv
  <1>1. o \in Orders /\ syncState[o] # "completed" /\ CanDeduct(o)
    BY DEF SaveOrderRecord, AlreadySynced, OutboxInv, TypeOK, WorkerTypeOK
  <1>2. /\ account' = [d \in Dims |-> account[d] - 1]
        /\ periodRow' = DeductPeriodRows(orderDay[o])
        /\ syncState' = [syncState EXCEPT ![o] = "completed"]
        /\ UNCHANGED <<recharged, orderState, orderDay, loader>>
    BY DEF SaveOrderRecord
  <1>3. orderDay[o] \in Days
    <2>1. worker[w].pc = "route" /\ worker[w].topic = SaveOrderRecordTopic
      BY DEF SaveOrderRecord
    <2>2. taskState[SaveOrderRecordTopic][o] # "none"
      BY <2>1 DEF OutboxInv, WorkerHoldsTask
    <2>3. QED BY <1>1, <2>2 DEF OutboxInv, OutboxMatchesFacts, OrderDated
  <1> HIDE DEF o
  <1>4. account \in [Dims -> Nat] /\ account' \in [Dims -> Nat]
    BY <1>1, <1>2, DeductType DEF OutboxInv, TypeOK
  <1>5. o \notin Synced /\ Synced' = Synced \cup {o}
    BY <1>1, <1>2 DEF Synced, OutboxInv, TypeOK, RecordTypeOK
  <1>6. Cardinality(Synced') = Cardinality(Synced) + 1
    BY <1>5, SyncedFinite, FS_AddElement
  <1>7. \A d \in Dims : Granted(d)' = Granted(d) /\ Granted(d) \in Nat
    BY <1>2, GrantedType DEF Granted, OutboxInv, TypeOK, LedgerTypeOK
  <1>8. account # Nil /\ account' # Nil
    BY <1>4, NilAssumption
  <1>9. LedgerBalanced'
    <2>1. \A d \in Dims : account'[d] = account[d] - 1
      BY <1>2
    <2>2. \A d \in Dims : account[d] = Granted(d) - Cardinality(Synced)
      BY <1>8 DEF LedgerBalanced
    <2>3. \A d \in Dims : account'[d] = Granted(d)' - Cardinality(Synced')
      BY <1>4, <1>6, <1>7, <2>1, <2>2, SyncedFinite
    <2>4. QED BY <1>8, <2>3 DEF LedgerBalanced
  <1>10. ASSUME NEW d \in PeriodDims, NEW p \in Periods
         PROVE  IF periodRow'[d][p] = Nil THEN SyncedIn(d, p)' = {}
                ELSE periodRow'[d][p] + Cardinality(SyncedIn(d, p)') <= Granted(d)'
    <2>1. periodRow \in [PeriodDims -> [Periods -> Count]] /\ periodRow[d][p] \in Count
      BY DEF OutboxInv, TypeOK, LedgerTypeOK
    <2>2. d \in Dims /\ Period(d, orderDay[o]) \in Periods
      BY <1>3, DimsFacts, CalendarAssumption DEF Period
    <2>3. periodRow'[d] = [periodRow[d] EXCEPT ![Period(d, orderDay[o])] =
                              IF @ = Nil THEN NewPeriodRow(d) ELSE @ - 1]
      BY <1>2 DEF DeductPeriodRows
    <2>4. IF periodRow[d][p] = Nil THEN SyncedIn(d, p) = {}
          ELSE periodRow[d][p] + Cardinality(SyncedIn(d, p)) <= Granted(d)
      BY DEF PeriodCapped
    <2>5. CASE p # Period(d, orderDay[o])
      <3>1. periodRow'[d][p] = periodRow[d][p]
        BY <2>1, <2>3, <2>5
      <3>2. SyncedIn(d, p)' = SyncedIn(d, p)
        BY <1>2, <1>5, <2>5 DEF SyncedIn, Period
      <3>3. QED BY <1>7, <2>2, <2>4, <3>1, <3>2
    <2>6. CASE p = Period(d, orderDay[o])
      <3>1. periodRow'[d][p] = IF periodRow[d][p] = Nil THEN account[d] - 1
                               ELSE periodRow[d][p] - 1
        BY <2>1, <2>3, <2>6 DEF NewPeriodRow
      <3>2. SyncedIn(d, p)' = SyncedIn(d, p) \cup {o} /\ o \notin SyncedIn(d, p)
        BY <1>2, <1>5, <2>6 DEF SyncedIn, Period
      <3>3. Cardinality(SyncedIn(d, p)') = Cardinality(SyncedIn(d, p)) + 1
        BY <3>2, SyncedFinite, FS_AddElement
      <3>4. account[d] > 0 /\ account[d] \in Nat /\ account[d] <= Granted(d)
        BY <1>1, <1>4, <1>7, <1>8, <2>2, SyncedFinite DEF CanDeduct, LedgerBalanced
      <3>5. CASE periodRow[d][p] = Nil
        <4>1. Cardinality(SyncedIn(d, p)) = 0
          BY <2>4, <3>5, FS_EmptySet
        <4>2. periodRow'[d][p] = account[d] - 1 /\ periodRow'[d][p] # Nil
          BY <3>1, <3>4, <3>5, NilAssumption
        <4>3. QED BY <1>7, <2>2, <3>3, <3>4, <4>1, <4>2
      <3>6. CASE periodRow[d][p] # Nil
        <4>1. periodRow[d][p] \in Nat /\ periodRow[d][p] > 0
          BY <1>1, <2>1, <2>6, <3>6 DEF CanDeduct, Count
        <4>2. periodRow'[d][p] = periodRow[d][p] - 1 /\ periodRow'[d][p] # Nil
          BY <3>1, <3>6, <4>1, NilAssumption
        <4>3. QED BY <1>7, <2>2, <2>4, <3>3, <3>6, <4>1, <4>2, SyncedFinite
      <3>7. QED BY <3>5, <3>6
    <2>7. QED BY <2>5, <2>6
  <1>11. PeriodCapped'
    BY <1>10 DEF PeriodCapped
  <1>12. OrderDated' /\ LoaderCapped'
    BY <1>2, <1>7 DEF OrderDated, LoaderCapped
  <1>13. QED BY <1>9, <1>11, <1>12

LEMMA RechargeLedgerInv ==
    ASSUME LedgerInv, OutboxInv', NEW b \in Recharges, NEW t \in Days, SaveOrder(b, t)
    PROVE  LedgerInv'
  <1> USE DEF LedgerInv
  <1>1. /\ recharged \in SUBSET Recharges /\ b \notin recharged
        /\ recharged' = recharged \cup {b}
        /\ account' = [d \in Dims |-> IF account = Nil THEN Grant[d] ELSE account[d] + Grant[d]]
        /\ UNCHANGED <<syncState, orderDay, orderState, loader>>
    BY DEF SaveOrder, OutboxInv, TypeOK, LedgerTypeOK, orderVars
  <1>2. \A d \in Dims : /\ Granted(d)' = Granted(d) + Grant[d]
                        /\ Granted(d) \in Nat /\ Grant[d] \in Nat
    BY <1>1, GrantedGrows, GrantedType, GrantAssumption
  <1>3. Synced' = Synced /\ \A d, p : SyncedIn(d, p)' = SyncedIn(d, p)
    BY <1>1 DEF Synced, SyncedIn, Period
  <1>4. account' \in [Dims -> Nat] /\ account' # Nil
    <2>1. account' \in [Dims -> Nat]
      BY <1>1, <1>2 DEF OutboxInv, TypeOK, LedgerTypeOK
    <2>2. QED BY <2>1, NilAssumption
  <1>5. \A d \in Dims : account'[d] = Granted(d)' - Cardinality(Synced')
    <2>1. CASE account = Nil
      <3>1. Cardinality(recharged) = 0 /\ Cardinality(Synced) = 0
        BY <2>1, FS_EmptySet DEF LedgerBalanced
      <3>2. \A d \in Dims : Granted(d) = 0
        BY <1>2, <3>1 DEF Granted
      <3>3. \A d \in Dims : account'[d] = Grant[d]
        BY <1>1, <2>1
      <3>4. QED BY <1>2, <1>3, <3>1, <3>2, <3>3
    <2>2. CASE account # Nil
      <3>1. \A d \in Dims : account[d] = Granted(d) - Cardinality(Synced)
        BY <2>2 DEF LedgerBalanced
      <3>2. \A d \in Dims : account'[d] = account[d] + Grant[d]
        BY <1>1, <2>2
      <3>3. QED BY <1>2, <1>3, <3>1, <3>2, SyncedFinite
    <2>3. QED BY <2>1, <2>2
  <1>6. LedgerBalanced'
    BY <1>4, <1>5 DEF LedgerBalanced
  <1>7. ASSUME NEW d \in PeriodDims, NEW p \in Periods
        PROVE  IF periodRow'[d][p] = Nil THEN SyncedIn(d, p)' = {}
               ELSE periodRow'[d][p] + Cardinality(SyncedIn(d, p)') <= Granted(d)'
    <2>1. periodRow[d] \in [Periods -> Count] /\ periodRow[d][p] \in Count /\ d \in Dims
      BY DimsFacts DEF OutboxInv, TypeOK, LedgerTypeOK
    <2>2. IF periodRow[d][p] = Nil THEN SyncedIn(d, p) = {}
          ELSE periodRow[d][p] + Cardinality(SyncedIn(d, p)) <= Granted(d)
      BY DEF PeriodCapped
    <2>3. \/ periodRow'[d][p] = periodRow[d][p]
          \/ periodRow'[d][p] = PlusGrant(periodRow[d][p], d)
      BY <2>1 DEF SaveOrder
    <2>4. CASE periodRow'[d][p] = periodRow[d][p]
      BY <1>2, <1>3, <2>1, <2>2, <2>4, SyncedFinite DEF Count
    <2>5. CASE periodRow'[d][p] = PlusGrant(periodRow[d][p], d)
      <3>1. CASE periodRow[d][p] = Nil
        <4>1. periodRow'[d][p] = Grant[d] /\ Cardinality(SyncedIn(d, p)') = 0
          BY <1>3, <2>2, <2>5, <3>1, FS_EmptySet DEF PlusGrant
        <4>2. QED BY <1>2, <2>1, <4>1, NilAssumption
      <3>2. CASE periodRow[d][p] # Nil
        <4>1. periodRow[d][p] \in Nat /\ periodRow'[d][p] = periodRow[d][p] + Grant[d]
          BY <2>1, <2>5, <3>2 DEF PlusGrant, Count
        <4>2. QED BY <1>2, <1>3, <2>1, <2>2, <3>2, <4>1, NilAssumption, SyncedFinite
      <3>3. QED BY <3>1, <3>2
    <2>6. QED BY <2>3, <2>4, <2>5
  <1>8. PeriodCapped'
    BY <1>7 DEF PeriodCapped
  <1>9. LoaderCapped'
    <2>1. loader.val \in [Dims -> Nat]
      BY DEF OutboxInv, TypeOK, LoaderTypeOK, LoaderRec
    <2>2. QED BY <1>1, <1>2, <2>1 DEF LoaderCapped
  <1>10. QED BY <1>1, <1>6, <1>8, <1>9 DEF OrderDated

(* A load reads the account, and creates the period rows that are missing. *)
LEMMA LoadLedgerInv ==
    ASSUME LedgerInv, OutboxInv', LoadAccount
    PROVE  LedgerInv'
  <1> USE DEF LedgerInv
  <1>0. \A d \in Dims : Granted(d) \in Nat
    BY GrantedType DEF OutboxInv, TypeOK, LedgerTypeOK
  <1>1. ASSUME NEW k \in LoadKinds, LoadStart(k) PROVE LedgerInv'
    <2>1. account # Nil /\ loader'.val = account /\ UNCHANGED <<ledgerVars, orderVars>>
      BY <1>1 DEF LoadStart
    <2>2. account \in [Dims -> Nat]
      BY <2>1 DEF OutboxInv, TypeOK, LedgerTypeOK
    <2>3. \A d \in Dims : account[d] <= Granted(d)
      BY <1>0, <2>1, <2>2, SyncedFinite DEF LedgerBalanced
    <2>4. LoaderCapped'
      BY <2>1, <2>3 DEF LoaderCapped, Granted, ledgerVars
    <2>5. QED BY <2>1, <2>4, LedgerFrame DEF ledgerVars, orderVars
  <1>2. ASSUME NEW t \in Days, LoadPeriodRow(t) PROVE LedgerInv'
    <2> DEFINE d == DimSeq[loader.i]
               p == Period(d, t)
    <2>1. /\ d \in PeriodDims /\ d \in Dims /\ loader \in LoaderRec
          /\ loader.pc = "query" /\ loader.val \in [Dims -> Nat]
      BY <1>2, DimsFacts, DimsAssumption
      DEF LoadPeriodRow, OutboxInv, TypeOK, LoaderTypeOK, LoaderRec
    <2>2. p \in Periods
      BY <2>1, CalendarAssumption DEF Period
    <2>3. /\ \/ loader' = [loader EXCEPT !.i = loader.i + 1, !.day = today, !.val =
                   [loader.val EXCEPT ![d] = IF periodRow[d][p] = Nil THEN loader.val[d]
                                             ELSE periodRow[d][p]]]
             \/ loader' = [loader EXCEPT !.i = loader.i + 1, !.day = today]
          /\ \/ periodRow' = periodRow
             \/ periodRow[d][p] = Nil /\ periodRow' = [periodRow EXCEPT ![d][p] = loader.val[d]]
          /\ UNCHANGED <<recharged, account, orderVars>>
      BY <1>2, <2>1 DEF LoadPeriodRow, LoaderRec
    <2> HIDE DEF p, d
    <2>4. /\ periodRow \in [PeriodDims -> [Periods -> Count]] /\ periodRow[d][p] \in Count
          /\ loader.val[d] \in Nat /\ loader.val[d] <= Granted(d)
      BY <2>1, <2>2 DEF OutboxInv, TypeOK, LedgerTypeOK, LoaderCapped
    <2>5. IF periodRow[d][p] = Nil THEN SyncedIn(d, p) = {}
          ELSE periodRow[d][p] + Cardinality(SyncedIn(d, p)) <= Granted(d)
      BY <2>1, <2>2 DEF PeriodCapped
    <2>6. periodRow[d][p] # Nil => periodRow[d][p] <= Granted(d)
      BY <1>0, <2>1, <2>4, <2>5, SyncedFinite DEF Count
    <2>7. /\ Synced' = Synced /\ (\A x, y : SyncedIn(x, y)' = SyncedIn(x, y))
          /\ \A x \in Dims : Granted(x)' = Granted(x)
      BY <2>3 DEF Synced, SyncedIn, Granted, Period, orderVars
    <2>8. \A x \in Dims : loader'.val[x] <= Granted(x)
      <3>1. \/ loader'.val = [loader.val EXCEPT ![d] = IF periodRow[d][p] = Nil
                                                       THEN loader.val[d] ELSE periodRow[d][p]]
            \/ loader'.val = loader.val
        BY <2>1, <2>3 DEF LoaderRec
      <3>2. QED BY <2>1, <2>4, <2>6, <3>1 DEF LoaderCapped
    <2>9. LoaderCapped'
      BY <2>7, <2>8 DEF LoaderCapped
    <2>10. ASSUME NEW x \in PeriodDims, NEW y \in Periods
           PROVE  IF periodRow'[x][y] = Nil THEN SyncedIn(x, y)' = {}
                  ELSE periodRow'[x][y] + Cardinality(SyncedIn(x, y)') <= Granted(x)'
      <3>0. x \in Dims
        BY DimsFacts
      <3>1. IF periodRow[x][y] = Nil THEN SyncedIn(x, y) = {}
            ELSE periodRow[x][y] + Cardinality(SyncedIn(x, y)) <= Granted(x)
        BY DEF PeriodCapped
      <3>2. CASE periodRow'[x][y] = periodRow[x][y]
        BY <2>7, <3>0, <3>1, <3>2
      <3>3. CASE x = d /\ y = p /\ periodRow[d][p] = Nil /\ periodRow'[d][p] = loader.val[d]
        <4>1. Cardinality(SyncedIn(x, y)') = 0
          BY <2>5, <2>7, <3>3, FS_EmptySet
        <4>2. QED BY <2>4, <2>7, <3>0, <3>3, <4>1, NilAssumption
      <3>4. QED BY <2>1, <2>2, <2>3, <2>4, <3>2, <3>3
    <2>11. PeriodCapped'
      BY <2>10 DEF PeriodCapped
    <2>12. LedgerBalanced' /\ OrderDated'
      BY <2>3, <2>7 DEF LedgerBalanced, OrderDated, orderVars
    <2>13. QED BY <2>9, <2>11, <2>12
  <1>3. CASE (\E t \in Days : LoadSnapshot(t)) \/ LoadSurplusKey \/ LoadFail
    <2>1. UNCHANGED <<ledgerVars, orderVars>>
      BY <1>3 DEF LoadSnapshot, LoadSurplusKey, LoadFail
    <2>2. loader'.pc = "idle" \/ (loader'.val = loader.val /\ loader.pc # "idle")
      <3>1. loader \in LoaderRec /\ loader.pc # "idle" /\ IdleLoader.pc = "idle"
        BY <1>3 DEF LoadSnapshot, LoadSurplusKey, LoadFail, IdleLoader, OutboxInv, TypeOK,
                    LoaderTypeOK
      <3>2. \/ loader' = IdleLoader
            \/ \E t \in Days : loader' = [loader EXCEPT !.pc = "cache", !.i = 1, !.day = t]
            \/ loader' = [loader EXCEPT !.i = loader.i + 1]
        BY <1>3 DEF LoadSnapshot, LoadSurplusKey, LoadFail
      <3>3. QED BY <3>1, <3>2 DEF LoaderRec
    <2>3. LoaderCapped'
      BY <2>1, <2>2 DEF LoaderCapped, Granted, ledgerVars
    <2>4. QED BY <2>1, <2>3, LedgerFrame DEF ledgerVars, orderVars
  <1>4. QED BY <1>1, <1>2, <1>3, LoadAccount DEF LoadAccount

LEMMA NextLedgerInv == LedgerInv /\ [Next]_vars => LedgerInv'
  <1> SUFFICES ASSUME LedgerInv, [Next]_vars PROVE LedgerInv'
    OBVIOUS
  <1>0. OutboxInv'
    BY NextOutboxInv DEF LedgerInv
  <1>1. ASSUME NEW r \in Requests, Draw(r) PROVE LedgerInv'
    BY <1>0, <1>1, DrawLedgerInv
  <1>2. ASSUME NEW w \in Workers, SaveOrderRecord(w) PROVE LedgerInv'
    BY <1>0, <1>2, SaveOrderRecordLedgerInv
  <1>3. ASSUME NEW b \in Recharges, NEW t \in Days, SaveOrder(b, t) PROVE LedgerInv'
    BY <1>0, <1>3, RechargeLedgerInv
  <1>4. CASE LoadAccount
    BY <1>0, <1>4, LoadLedgerInv
  <1>5. CASE UNCHANGED <<ledgerVars, orderVars, loader>>
    <2>1. LoaderCapped'
      BY <1>5 DEF LedgerInv, LoaderCapped, Granted, ledgerVars
    <2>2. QED BY <1>0, <1>5, <2>1, LedgerFrame DEF ledgerVars, orderVars
  <1>6. ASSUME NEW w \in Workers, DispatchSingleTask(w) PROVE LedgerInv'
    BY <1>2, <1>5, <1>6
    DEF DispatchSingleTask, RouteTaskByTopic, QueryTask, SaveOrderRecordAgain,
        SaveOrderRecordRefused, SendMessage, RouteFail, MarkTask, MarkTaskFail, WorkerCrash
  <1>7. Midnight \/ Expire \/ UNCHANGED vars => UNCHANGED <<ledgerVars, orderVars, loader>>
    BY DEF Midnight, Expire, ExpireSnapshot, ExpireSurplus, ExpirePending, vars
  <1>8. QED BY <1>1, <1>3, <1>4, <1>5, <1>6, <1>7 DEF Next

(* LedgerInv holds in every reachable state. *)
THEOREM LedgerInductive == Spec => []LedgerInv
  BY InitLedgerInv, NextLedgerInv, PTL DEF Spec

(* Each column of the account is what was recharged less one per synced     *)
(* order: overlapping dispatchers, crashes and lost acknowledgements do not *)
(* count an order twice.                                                    *)
THEOREM LedgerCorrect == Spec => []LedgerBalanced
  <1>1. LedgerInv => LedgerBalanced
    BY DEF LedgerInv
  <1>2. QED BY <1>1, LedgerInductive, PTL

(* The day and month rows, whoever creates them, never allow more draws than *)
(* were recharged.                                                           *)
THEOREM PeriodsCorrect == Spec => []PeriodCapped
  <1>1. LedgerInv => PeriodCapped
    BY DEF LedgerInv
  <1>2. QED BY <1>1, LedgerInductive, PTL

----------------------------------------------------------------------------
(* The Redis quota keys against the ledger: as long as the keys are loaded  *)
(* before the first draw only, neither they nor the awards outgrow what was *)
(* recharged.                                                               *)

TotalKey == surplus["total"][0]

(* What the total key still allows; a missing key allows nothing. *)
KeyValue == IF TotalKey = Nil THEN 0 ELSE TotalKey

(* A load is on its way to write the total key. *)
Loading ==
    \/ loader.pc = "query" /\ loader.kind # "query"
    \/ loader.pc = "cache" /\ loader.i = 1

(* No draw begins under a load that has yet to write the total key. *)
QuietLoad == Loading => NoDrawYet

(* The reservations a client can still turn into an award, and the key.  *)
KeyWithin == KeyValue + (IF pending = Nil THEN 0 ELSE 1) <= Granted("total")

KeyInv == LedgerInv /\ QuietLoad /\ KeyWithin

----------------------------------------------------------------------------
(* The state a proof step needs. *)
LEMMA KeyTypes ==
    ASSUME LedgerInv
    PROVE  /\ TypeOK /\ req \in [Requests -> RequestRec] /\ pending \in Orders \cup {Nil}
           /\ surplus \in [Dims -> [Periods -> Count]] /\ TotalKey \in Count /\ KeyValue \in Nat
           /\ Granted("total") \in Nat /\ loader \in LoaderRec /\ Nil \notin Orders /\ Nil \notin Nat
           /\ today \in Days /\ \A t \in Days : Period("total", t) = 0
  <1>1. TypeOK
    BY DEF LedgerInv, OutboxInv
  <1>2. surplus \in [Dims -> [Periods -> Count]] /\ TotalKey \in Count
    BY <1>1, DimsFacts DEF TypeOK, RedisTypeOK, TotalKey
  <1>3. Granted("total") \in Nat
    BY <1>1, GrantedType, DimsFacts DEF TypeOK, LedgerTypeOK
  <1>4. QED
    BY <1>1, <1>2, <1>3, NilAssumption, CalendarAssumption
    DEF TypeOK, RedisTypeOK, RequestTypeOK, LoaderTypeOK, KeyValue, Count, Period

(* A step of a call changes its own record. *)
LEMMA DrawOwnRecord ==
    ASSUME TypeOK, NEW r \in Requests, Draw(r)
    PROVE  /\ \A q \in Requests : q # r => req'[q] = req[q]
           /\ UNCHANGED <<recharged, loader>>
  <1>1. req \in [Requests -> RequestRec]
    BY DEF TypeOK, RequestTypeOK
  <1>2. QED
    BY <1>1
    DEF Draw, CreateOrder, SaveUserAwardRecord, RejectDraw, QueryActivityAccount,
        QueryActivityAccountDay, QueryActivityAccountMonth, ReuseOrder, RefuseOrder, ReserveOrder,
        SaveLite, SaveLiteDuplicate, SaveLiteFail, Compensate, CompensateFail, PerformRaffle,
        PerformRaffleFail, SaveAward, SaveAwardDuplicate, SaveAwardFail, DeletePending, Crash,
        Goto, Fail, ledgerVars

(* The reservation script takes one from the total key. *)
LEMMA ReserveTakesOne ==
    ASSUME LedgerInv, NEW r \in Requests, NEW o \in Orders, ReserveOrder(r, o)
    PROVE  /\ pending' = o /\ pending = Nil
           /\ TotalKey \in Nat /\ TotalKey > 0 /\ TotalKey' = TotalKey - 1
  <1> USE KeyTypes, DimsFacts
  <1>1. surplus["total"][Period("total", today)] = TotalKey
    BY DEF TotalKey
  <1>2. TotalKey # Nil /\ TotalKey > 0 /\ TotalKey \in Nat
    BY <1>1 DEF ReserveOrder, QuotaKeysServe, Serves, Count
  <1>3. surplus'["total"] = [surplus["total"] EXCEPT ![0] = IF @ = Nil THEN -1 ELSE @ + -1]
    BY DEF ReserveOrder, AddToKeys
  <1>4. surplus["total"] \in [Periods -> Count] /\ 0 \in Periods
    OBVIOUS
  <1>5. TotalKey' = TotalKey + -1
    BY <1>2, <1>3, <1>4 DEF TotalKey
  <1>6. QED BY <1>2, <1>5 DEF ReserveOrder

(* What a call does to the total key and the pending order: a reservation    *)
(* moves one from the key to the order, a compensation moves it back.       *)
LEMMA DrawKeys ==
    ASSUME LedgerInv, NEW r \in Requests, Draw(r)
    PROVE  \/ TotalKey' = TotalKey /\ pending' \in {pending, Nil}
           \/ /\ \E o \in Orders : ReserveOrder(r, o) /\ pending' = o
              /\ pending = Nil /\ TotalKey \in Nat /\ TotalKey > 0 /\ TotalKey' = TotalKey - 1
           \/ /\ Compensate(r) /\ pending # Nil /\ pending' = Nil
              /\ TotalKey' = IF TotalKey = Nil THEN 1 ELSE TotalKey + 1
  <1> USE KeyTypes, DimsFacts
  <1>1. CASE UNCHANGED <<surplus, pending>>
    BY <1>1 DEF TotalKey
  <1>2. ASSUME NEW o \in Orders, ReserveOrder(r, o)
        PROVE  /\ pending' = o /\ pending = Nil
               /\ TotalKey \in Nat /\ TotalKey > 0 /\ TotalKey' = TotalKey - 1
    BY <1>2, ReserveTakesOne
  <1>3. ASSUME Compensate(r), pending = req[r].order
        PROVE  /\ pending # Nil /\ pending' = Nil
               /\ TotalKey' = IF TotalKey = Nil THEN 1 ELSE TotalKey + 1
    <2>1. req[r].order \in Orders /\ req[r].day \in Days
      BY <1>3 DEF Compensate, TypeOK, RequestTypeOK, RequestRec, OrderPC
    <2>2. surplus'["total"] = [surplus["total"] EXCEPT ![0] = IF @ = Nil THEN 1 ELSE @ + 1]
      BY <1>3, <2>1 DEF Compensate, GiveBack, AddToKeys
    <2>3. surplus["total"] \in [Periods -> Count] /\ 0 \in Periods
      OBVIOUS
    <2>4. TotalKey' = IF TotalKey = Nil THEN 1 ELSE TotalKey + 1
      BY <2>2, <2>3 DEF TotalKey
    <2>5. QED BY <1>3, <2>1, <2>4 DEF Compensate, GiveBack
  <1>4. CASE DeletePending(r)
    BY <1>4 DEF DeletePending, TotalKey
  <1>5. CASE Compensate(r)
    BY <1>1, <1>3, <1>5 DEF Compensate
  <1>6. QED
    BY <1>1, <1>2, <1>4, <1>5
    DEF Draw, CreateOrder, SaveUserAwardRecord, RejectDraw, QueryActivityAccount,
        QueryActivityAccountDay, QueryActivityAccountMonth, ReuseOrder, RefuseOrder,
        SaveLite, SaveLiteDuplicate, SaveLiteFail, CompensateFail, PerformRaffle,
        PerformRaffleFail, SaveAward, SaveAwardDuplicate, SaveAwardFail, Crash, redisVars

(* Without a total key and without an order in use no call gets past its     *)
(* reservation.                                                             *)
LEMMA DrawStaysQuiet ==
    ASSUME LedgerInv, NoDrawYet, NEW r \in Requests, Draw(r)
    PROVE  NoDrawYet'
  <1> USE KeyTypes, DimsFacts
  <1>1. /\ pending = Nil /\ TotalKey = Nil
        /\ \A o \in Orders : orderState[o] = "none" /\ awardRow[o] = Nil
        /\ \A q \in Requests : req[q].pc # "done" => req[q].order \notin Orders
    BY DEF NoDrawYet, InUse, TotalKey
  <1>2. req[r].pc \notin OrderPC \ {"done"}
    BY <1>1 DEF TypeOK, RequestTypeOK
  <1>3. ~QuotaKeysServe
    BY <1>1 DEF QuotaKeysServe, Serves, TotalKey
  <1>4. /\ \/ RejectDraw(r) \/ QueryActivityAccount(r) \/ QueryActivityAccountDay(r)
           \/ QueryActivityAccountMonth(r) \/ RefuseOrder(r) \/ Crash(r)
        /\ req[r].pc # "done"
    BY <1>1, <1>2, <1>3
    DEF Draw, CreateOrder, SaveUserAwardRecord, ReuseOrder, ReserveOrder, SaveLite,
        SaveLiteDuplicate, SaveLiteFail, Compensate, CompensateFail, PerformRaffle,
        PerformRaffleFail, SaveAward, SaveAwardDuplicate, SaveAwardFail, DeletePending, OrderPC,
        RejectDraw, QueryActivityAccount, QueryActivityAccountDay, QueryActivityAccountMonth,
        RefuseOrder, Crash
  <1>5. UNCHANGED <<surplus, pending, orderState, awardRow>>
    BY <1>4
    DEF RejectDraw, QueryActivityAccount, QueryActivityAccountDay, QueryActivityAccountMonth,
        RefuseOrder, Crash, redisVars, orderVars
  <1>6. req'[r].order \notin Orders
    <2>1. req[r].order \notin Orders /\ req[r] \in RequestRec
      BY <1>1, <1>4
    <2>2. CASE Fail(r)
      BY <2>2 DEF Fail
    <2>3. ASSUME NEW label, Goto(r, label) PROVE req'[r].order = req[r].order
      BY <2>1, <2>3 DEF Goto, RequestRec
    <2>4. ASSUME NEW t, req' = [req EXCEPT ![r].pc = "day", ![r].day = t]
          PROVE  req'[r].order = req[r].order
      <3>1. req'[r] = [req[r] EXCEPT !.pc = "day", !.day = t]
        BY <2>4
      <3>2. QED BY <2>1, <3>1 DEF RequestRec
    <2>5. QED
      BY <1>4, <2>1, <2>2, <2>3, <2>4
      DEF RejectDraw, QueryActivityAccount, QueryActivityAccountDay, QueryActivityAccountMonth,
          RefuseOrder, Crash
  <1>7. \A q \in Requests : req'[q].pc # "done" => req'[q].order \notin Orders
    BY <1>1, <1>6, DrawOwnRecord
  <1>8. InUse' = {}
    BY <1>1, <1>5, <1>7 DEF InUse
  <1>9. QED BY <1>1, <1>5, <1>8 DEF NoDrawYet, TotalKey

(* The load writes the total key while no draw has begun, from an account    *)
(* that was recharged, and then leaves it alone.                            *)
LEMMA LoadKeys ==
    ASSUME "reload" \notin Faults, LedgerInv, QuietLoad, LoadAccount
    PROVE  /\ QuietLoad'
           /\ UNCHANGED <<pending, recharged, orderState, awardRow, req>>
           /\ \/ TotalKey' = TotalKey
              \/ NoDrawYet /\ TotalKey' \in Nat /\ TotalKey' <= Granted("total")
  <1> USE KeyTypes, DimsFacts
  <1>1. UNCHANGED <<pending, recharged, orderState, awardRow, req>>
    BY DEF LoadAccount, LoadStart, LoadPeriodRow, LoadSnapshot, LoadSurplusKey, LoadFail,
           redisVars, ledgerVars, orderVars
  <1>2. ASSUME TotalKey' = TotalKey, NoDrawYet PROVE NoDrawYet'
    BY <1>1, <1>2 DEF NoDrawYet, InUse, TotalKey
  <1>3. ASSUME NEW k \in LoadKinds, LoadStart(k)
        PROVE  QuietLoad' /\ TotalKey' = TotalKey
    <2>1. TotalKey' = TotalKey /\ (k # "query" => NoDrawYet)
      BY <1>3 DEF LoadStart, redisVars, TotalKey
    <2>2. loader'.kind = k /\ loader'.pc = "query"
      BY <1>3 DEF LoadStart
    <2>3. QED BY <1>2, <2>1, <2>2 DEF QuietLoad, Loading
  <1>4. ASSUME NEW t \in Days, LoadPeriodRow(t)
        PROVE  QuietLoad' /\ TotalKey' = TotalKey
    <2>1. TotalKey' = TotalKey /\ loader.pc = "query"
      BY <1>4 DEF LoadPeriodRow, redisVars, TotalKey
    <2>2. loader'.kind = loader.kind /\ loader'.pc = "query"
      <3> DEFINE d == DimSeq[loader.i]
      <3>1. \/ \E v : loader' = [loader EXCEPT !.i = loader.i + 1, !.day = today, !.val = v]
            \/ loader' = [loader EXCEPT !.i = loader.i + 1, !.day = today]
        BY <1>4 DEF LoadPeriodRow
      <3>2. QED BY <2>1, <3>1 DEF LoaderRec
    <2>3. QED BY <1>2, <2>1, <2>2 DEF QuietLoad, Loading
  <1>5. ASSUME NEW t \in Days, LoadSnapshot(t)
        PROVE  QuietLoad' /\ TotalKey' = TotalKey
    <2>1. TotalKey' = TotalKey /\ loader.pc = "query"
      BY <1>5 DEF LoadSnapshot, TotalKey
    <2>2. CASE loader.kind = "query"
      BY <1>5, <2>2 DEF LoadSnapshot, IdleLoader, QuietLoad, Loading, TotalKey
    <2>3. CASE loader.kind # "query"
      BY <1>2, <2>1, <2>3 DEF QuietLoad, Loading
    <2>4. QED BY <2>1, <2>2, <2>3
  <1>6. ASSUME LoadSurplusKey
        PROVE  /\ QuietLoad'
               /\ \/ TotalKey' = TotalKey
                  \/ NoDrawYet /\ TotalKey' \in Nat /\ TotalKey' <= Granted("total")
    <2> DEFINE d == DimSeq[loader.i]
    <2>1. /\ loader.pc = "cache" /\ loader.i \in 1..Len(DimSeq) /\ loader.day \in Days
          /\ loader.val \in [Dims -> Nat] /\ Len(DimSeq) \in Nat
      BY <1>6, DimsAssumption DEF LoadSurplusKey, TypeOK, LoaderTypeOK, LoaderRec
    <2>2. /\ surplus' = [surplus EXCEPT ![d][Period(d, loader.day)] = loader.val[d]]
          /\ loader' = IF loader.i = Len(DimSeq) THEN IdleLoader
                       ELSE [loader EXCEPT !.i = @ + 1]
      BY <1>6 DEF LoadSurplusKey
    <2>3. loader'.pc # "query" /\ (loader'.pc = "cache" => loader'.i # 1)
      <3>1. CASE loader' = IdleLoader
        BY <3>1 DEF IdleLoader
      <3>2. CASE loader' = [loader EXCEPT !.i = @ + 1]
        <4>1. loader'.pc = "cache" /\ loader'.i = loader.i + 1
          BY <2>1, <3>2 DEF LoaderRec
        <4>2. QED BY <2>1, <4>1
      <3>3. QED BY <2>2, <3>1, <3>2
    <2>4. QuietLoad'
      BY <2>3 DEF QuietLoad, Loading
    <2>5. CASE loader.i = 1
      <3>1. d = "total" /\ Period(d, loader.day) = 0
        BY <2>1, <2>5, DimsAssumption
      <3>2. TotalKey' = loader.val["total"]
        BY <2>2, <3>1 DEF TotalKey
      <3>3. NoDrawYet
        BY <2>1, <2>5 DEF QuietLoad, Loading
      <3>4. loader.val["total"] \in Nat /\ loader.val["total"] <= Granted("total")
        BY <2>1 DEF LedgerInv, LoaderCapped
      <3>5. QED BY <2>4, <3>2, <3>3, <3>4
    <2>6. CASE loader.i # 1
      <3>1. loader.i \in 2..Len(DimSeq)
        BY <2>1, <2>6
      <3>2. d # "total" /\ d \in Dims
        BY <2>1, <3>1, DimsAssumption
      <3>3. TotalKey' = TotalKey
        BY <2>2, <3>2 DEF TotalKey
      <3>4. QED BY <2>4, <3>3
    <2>7. QED BY <2>5, <2>6
  <1>7. ASSUME LoadFail PROVE QuietLoad' /\ TotalKey' = TotalKey
    BY <1>7 DEF LoadFail, IdleLoader, QuietLoad, Loading, TotalKey, redisVars
  <1>8. QED BY <1>1, <1>3, <1>4, <1>5, <1>6, <1>7 DEF LoadAccount

(* Workers, recharges, time and expiry: the total key and the pending order  *)
(* stay or are gone, and what was recharged never shrinks.                  *)
LEMMA OtherKeys ==
    ASSUME LedgerInv,
           \/ \E w \in Workers : DispatchSingleTask(w)
           \/ \E b \in Recharges, t \in Days : SaveOrder(b, t)
           \/ Midnight
           \/ Expire
           \/ UNCHANGED vars
    PROVE  /\ UNCHANGED <<loader, orderState, awardRow, req>>
           /\ TotalKey' \in {TotalKey, Nil} /\ pending' \in {pending, Nil}
           /\ Granted("total")' \in Nat /\ Granted("total")' >= Granted("total")
  <1> USE KeyTypes, DimsFacts
  <1>1. UNCHANGED <<loader, orderState, awardRow, req>>
    BY DEF DispatchSingleTask, RouteTaskByTopic, QueryTask, SaveOrderRecord, SaveOrderRecordAgain,
           SaveOrderRecordRefused, SendMessage, RouteFail, MarkTask, MarkTaskFail, WorkerCrash,
           SaveOrder, Midnight, Expire, ExpireSnapshot, ExpireSurplus, ExpirePending, vars, orderVars
  <1>2. ASSUME NEW b \in Recharges, NEW t \in Days, SaveOrder(b, t)
        PROVE  Granted("total")' \in Nat /\ Granted("total")' >= Granted("total")
    <2>1. /\ recharged \in SUBSET Recharges /\ b \notin recharged
          /\ recharged' = recharged \cup {b}
      BY <1>2 DEF SaveOrder, TypeOK, LedgerTypeOK
    <2>2. Granted("total")' = Granted("total") + Grant["total"]
      BY <2>1, GrantedGrows
    <2>3. QED BY <2>2, GrantAssumption
  <1>3. CASE \E b \in Recharges, t \in Days : SaveOrder(b, t)
    BY <1>1, <1>2, <1>3 DEF SaveOrder, redisVars, TotalKey
  <1>4. ASSUME UNCHANGED recharged
        PROVE  Granted("total")' \in Nat /\ Granted("total")' >= Granted("total")
    BY <1>4 DEF Granted
  <1>5. CASE UNCHANGED <<redisVars, recharged>>
    BY <1>1, <1>4, <1>5 DEF redisVars, TotalKey
  <1>6. ASSUME NEW d \in Dims, NEW p \in Periods, ExpireSurplus(d, p)
        PROVE  TotalKey' \in {TotalKey, Nil} /\ UNCHANGED <<pending, recharged>>
    BY <1>6 DEF ExpireSurplus, TotalKey, ledgerVars
  <1>7. CASE ExpirePending
    BY <1>1, <1>4, <1>7 DEF ExpirePending, TotalKey, ledgerVars
  <1>8. CASE ExpireSnapshot
    BY <1>1, <1>4, <1>8 DEF ExpireSnapshot, TotalKey, ledgerVars
  <1>9. CASE Expire
    BY <1>1, <1>4, <1>6, <1>7, <1>8, <1>9 DEF Expire
  <1>10. CASE (\E w \in Workers : DispatchSingleTask(w)) \/ Midnight \/ UNCHANGED vars
    BY <1>5, <1>10
    DEF DispatchSingleTask, RouteTaskByTopic, QueryTask, SaveOrderRecord, SaveOrderRecordAgain,
        SaveOrderRecordRefused, SendMessage, RouteFail, MarkTask, MarkTaskFail, WorkerCrash,
        Midnight, vars, ledgerVars
  <1>11. QED BY <1>3, <1>9, <1>10

(* Without a reload no draw begins while the first load is under way. *)
LEMMA QuietInductive ==
    ASSUME "reload" \notin Faults, LedgerInv, QuietLoad, [Next]_vars
    PROVE  QuietLoad'
  <1>1. ASSUME NEW r \in Requests, Draw(r) PROVE QuietLoad'
    <2>1. TypeOK
      BY KeyTypes
    <2>2. UNCHANGED loader
      BY <1>1, <2>1, DrawOwnRecord
    <2>3. QED BY <1>1, <2>2, DrawStaysQuiet DEF QuietLoad, Loading
  <1>2. CASE LoadAccount
    BY <1>2, LoadKeys
  <1>3. CASE \/ \E w \in Workers : DispatchSingleTask(w)
             \/ \E b \in Recharges, t \in Days : SaveOrder(b, t)
             \/ Midnight \/ Expire \/ UNCHANGED vars
    <2>1. /\ UNCHANGED <<loader, orderState, awardRow, req>>
          /\ TotalKey' \in {TotalKey, Nil} /\ pending' \in {pending, Nil}
      BY <1>3, OtherKeys
    <2>2. NoDrawYet => NoDrawYet'
      BY <2>1, KeyTypes DEF NoDrawYet, InUse, TotalKey
    <2>3. QED BY <2>1, <2>2 DEF QuietLoad, Loading
  <1>4. QED BY <1>1, <1>2, <1>3 DEF Next

(* Every step keeps what the quota keys may still grant within the ledger. *)
LEMMA KeyInductive ==
    ASSUME "reload" \notin Faults, KeyInv, [Next]_vars
    PROVE  KeyInv'
  <1>1. LedgerInv /\ QuietLoad /\ KeyWithin
    BY DEF KeyInv
  <1>2. LedgerInv' /\ QuietLoad'
    BY <1>1, NextLedgerInv, QuietInductive
  <1> DEFINE n == IF pending = Nil THEN 0 ELSE 1
  <1>3. /\ KeyValue \in Nat /\ TotalKey \in Count /\ Granted("total") \in Nat /\ n \in {0, 1}
        /\ KeyValue + n <= Granted("total") /\ Nil \notin Nat /\ Nil \notin Orders
    BY <1>1, KeyTypes DEF KeyWithin
  <1>4. KeyWithin'
    <2>1. ASSUME NEW r \in Requests, Draw(r) PROVE KeyWithin'
      <3>1. Granted("total")' = Granted("total")
        BY <1>1, <2>1, DrawOwnRecord, KeyTypes DEF Granted
      <3>2. CASE TotalKey' = TotalKey /\ pending' \in {pending, Nil}
        BY <1>3, <3>1, <3>2 DEF KeyWithin, KeyValue
      <3>3. CASE /\ \E o \in Orders : pending' = o
                 /\ pending = Nil /\ TotalKey \in Nat /\ TotalKey > 0 /\ TotalKey' = TotalKey - 1
        <4>1. KeyValue = TotalKey /\ KeyValue' = TotalKey - 1
          BY <1>3, <3>3 DEF KeyValue
        <4>2. pending' # Nil
          BY <1>3, <3>3
        <4>3. QED BY <1>3, <3>1, <3>3, <4>1, <4>2 DEF KeyWithin
      <3>4. CASE /\ pending # Nil /\ pending' = Nil
                 /\ TotalKey' = IF TotalKey = Nil THEN 1 ELSE TotalKey + 1
        <4>1. KeyValue' = KeyValue + 1
          BY <1>3, <3>4 DEF KeyValue, Count
        <4>2. QED BY <1>3, <3>1, <3>4, <4>1 DEF KeyWithin
      <3>5. QED BY <1>1, <2>1, <3>2, <3>3, <3>4, DrawKeys
    <2>2. CASE LoadAccount
      <3>1. /\ UNCHANGED <<pending, recharged>>
            /\ \/ TotalKey' = TotalKey
               \/ NoDrawYet /\ TotalKey' \in Nat /\ TotalKey' <= Granted("total")
        BY <1>1, <2>2, LoadKeys
      <3>2. Granted("total")' = Granted("total")
        BY <3>1 DEF Granted
      <3>3. NoDrawYet => pending = Nil
        BY <1>1, KeyTypes DEF NoDrawYet, InUse
      <3>4. QED BY <1>3, <3>1, <3>2, <3>3 DEF KeyWithin, KeyValue
    <2>3. CASE \/ \E w \in Workers : DispatchSingleTask(w)
               \/ \E b \in Recharges, t \in Days : SaveOrder(b, t)
               \/ Midnight \/ Expire \/ UNCHANGED vars
      <3>1. /\ TotalKey' \in {TotalKey, Nil} /\ pending' \in {pending, Nil}
            /\ Granted("total")' \in Nat /\ Granted("total")' >= Granted("total")
        BY <1>1, <2>3, OtherKeys
      <3>2. QED BY <1>3, <3>1 DEF KeyWithin, KeyValue, Count
    <2>4. QED BY <2>1, <2>2, <2>3 DEF Next
  <1>5. QED BY <1>2, <1>4 DEF KeyInv

(* There are no keys at the start. *)
LEMMA KeyInit == Init => KeyInv
  <1> SUFFICES ASSUME Init PROVE KeyInv
    OBVIOUS
  <1>1. LedgerInv
    BY InitLedgerInv
  <1>2. QuietLoad
    BY DEF Init, QuietLoad, Loading, IdleLoader
  <1>3. KeyWithin
    <2>1. pending = Nil /\ KeyValue = 0
      BY DimsFacts DEF Init, KeyValue, TotalKey
    <2>2. Granted("total") \in Nat
      BY <1>1, KeyTypes
    <2>3. QED BY <2>1, <2>2 DEF KeyWithin
  <1>4. QED BY <1>1, <1>2, <1>3 DEF KeyInv

(* compensatePendingRaffleOrder and CacheGetOrCreateNoUsedRaffleOrder: the   *)
(* total key and the pending order stay within what was recharged, for any   *)
(* number of calls and any faults, as long as the keys are not loaded again  *)
(* once draws have begun.                                                   *)
THEOREM KeysCorrect ==
    ASSUME "reload" \notin Faults
    PROVE  Spec => []KeysWithinGrant
  <1>1. KeyInv => KeysWithinGrant
    BY DEF KeyInv, KeyWithin, KeyValue, TotalKey, KeysWithinGrant
  <1>2. KeyInv /\ [Next]_vars => KeyInv'
    BY KeyInductive
  <1>3. QED BY <1>1, <1>2, KeyInit, PTL DEF Spec

----------------------------------------------------------------------------
(* Awards against the recharges, when no reservation is given back *)

LivePC == {"saveLite", "raffle", "award"}

(* Orders with an award, or that may still get one. *)
Live == {o \in Orders :
           \/ awardRow[o] # Nil
           \/ pending = o
           \/ \E r \in Requests : req[r].order = o /\ req[r].pc \in LivePC}

(* No call is about to compensate. *)
NothingGivenBack == \A r \in Requests : req[r].pc # "compensate"

(* Each of these orders took one from the total key. *)
LiveWithin == KeyValue + Cardinality(Live) <= Granted("total")

AwardInv == LedgerInv /\ QuietLoad /\ NothingGivenBack /\ LiveWithin

(* The orders with an award, or that may still get one, are finitely many. *)
LEMMA LiveFinite == IsFiniteSet(Live) /\ Cardinality(Live) \in Nat
  <1>1. Live \subseteq Orders
    BY DEF Live
  <1>2. QED BY <1>1, FiniteAssumption, FS_Subset, FS_CardinalityType

(* A call gives life to an order by reserving it only. *)
LEMMA DrawLives ==
    ASSUME "saveFail" \notin Faults, "ackLost" \notin Faults,
           LedgerInv, NothingGivenBack, NEW r \in Requests, Draw(r)
    PROVE  /\ NothingGivenBack'
           /\ \/ Live' \subseteq Live
              \/ \E o \in Orders : ReserveOrder(r, o) /\ Live' \subseteq Live \cup {o}
  <1> USE KeyTypes
  <1>1. req[r] \in RequestRec /\ \A q \in Requests : q # r => req'[q] = req[q]
    BY DrawOwnRecord
  <1> DEFINE Own(o) == req'[r].order = o /\ req'[r].pc \in LivePC
             Kept == /\ req'[r].pc # "compensate"
                     /\ \A o \in Orders : Own(o) \/ awardRow'[o] # Nil \/ pending' = o => o \in Live
  <1>2. ASSUME Kept PROVE NothingGivenBack' /\ Live' \subseteq Live
    BY <1>1, <1>2 DEF NothingGivenBack, Live
  <1>3. ASSUME Fail(r) PROVE req'[r].pc = "failed"
    BY <1>3 DEF Fail
  <1>4. ASSUME NEW label, Goto(r, label) PROVE req'[r].pc = label /\ req'[r].order = req[r].order
    BY <1>1, <1>4 DEF Goto, RequestRec
  <1>5. /\ \A o \in Orders : awardRow[o] # Nil => o \in Live
        /\ \A o \in Orders : pending = o => o \in Live
        /\ req[r].order \in Orders /\ req[r].pc \in LivePC => req[r].order \in Live
    BY DEF Live
  <1>6. CASE /\ UNCHANGED <<pending, awardRow>>
             /\ \/ Fail(r)
                \/ Goto(r, "month") \/ Goto(r, "reserve") \/ Goto(r, "delete")
                \/ req[r].pc \in LivePC /\ Goto(r, "raffle")
    <2>1. Kept
      BY <1>3, <1>4, <1>5, <1>6 DEF LivePC
    <2>2. QED BY <1>2, <2>1
  <1>7. CASE QueryActivityAccount(r)
    <2>1. UNCHANGED <<pending, awardRow>>
      BY <1>7 DEF QueryActivityAccount
    <2>2. ASSUME NEW t, req' = [req EXCEPT ![r].pc = "day", ![r].day = t] PROVE req'[r].pc = "day"
      <3>1. req'[r] = [req[r] EXCEPT !.pc = "day", !.day = t]
        BY <2>2
      <3>2. QED BY <1>1, <3>1 DEF RequestRec
    <2>3. req'[r].pc \in {"day", "failed"}
      BY <1>3, <1>7, <2>2 DEF QueryActivityAccount
    <2>4. Kept
      BY <1>5, <2>1, <2>3 DEF LivePC
    <2>5. QED BY <1>2, <2>4
  <1>8. ASSUME NEW o, NEW label, req' = [req EXCEPT ![r].pc = label, ![r].order = o]
        PROVE  req'[r].pc = label /\ req'[r].order = o
    <2>1. req'[r] = [req[r] EXCEPT !.pc = label, !.order = o]
      BY <1>8
    <2>2. QED BY <1>1, <2>1 DEF RequestRec
  <1>9. CASE ReuseOrder(r)
    <2>1. /\ pending # Nil /\ UNCHANGED <<pending, awardRow>>
          /\ req' = [req EXCEPT ![r].pc = "raffle", ![r].order = pending]
      BY <1>9 DEF ReuseOrder, redisVars
    <2>2. req'[r].pc = "raffle" /\ req'[r].order = pending
      BY <1>8, <2>1
    <2>3. Kept
      BY <1>5, <2>1, <2>2 DEF LivePC
    <2>4. QED BY <1>2, <2>3
  <1>10. ASSUME NEW o \in Orders, ReserveOrder(r, o)
         PROVE  NothingGivenBack' /\ Live' \subseteq Live \cup {o}
    <2>1. req'[r].pc \in {"saveLite", "raffle"} /\ req'[r].order = o
      BY <1>8, <1>10 DEF ReserveOrder
    <2>2. pending' = o /\ awardRow' = awardRow
      BY <1>10 DEF ReserveOrder
    <2>3. NothingGivenBack'
      BY <1>1, <2>1 DEF NothingGivenBack
    <2>4. QED BY <1>1, <2>1, <2>2, <2>3 DEF Live
  <1>11. CASE \E a \in Awards : PerformRaffle(r, a)
    <2>1. PICK a \in Awards : req' = [req EXCEPT ![r].pc = "award", ![r].award = a]
      BY <1>11 DEF PerformRaffle
    <2>2. req'[r] = [req[r] EXCEPT !.pc = "award", !.award = a]
      BY <2>1
    <2>3. req'[r].pc = "award" /\ req'[r].order = req[r].order
      BY <1>1, <2>2 DEF RequestRec
    <2>4. req[r].pc = "raffle" /\ UNCHANGED <<pending, awardRow>>
      BY <1>11 DEF PerformRaffle, redisVars
    <2>5. Kept
      BY <1>5, <2>3, <2>4 DEF LivePC
    <2>6. QED BY <1>2, <2>5
  <1>12. CASE SaveAward(r)
    <2>1. /\ req[r].pc = "award" /\ pending' = pending
          /\ awardRow' = [awardRow EXCEPT ![req[r].order] = req[r].award]
          /\ Goto(r, "delete") \/ Fail(r)
      BY <1>12 DEF SaveAward, redisVars
    <2>2. req[r].order \in Live
      BY <1>5, <2>1 DEF LivePC, TypeOK, RequestTypeOK, OrderPC
    <2>3. \A o \in Orders : awardRow'[o] # Nil => o \in Live
      BY <1>5, <2>1, <2>2 DEF TypeOK, RecordTypeOK
    <2>4. Kept
      BY <1>3, <1>4, <1>5, <2>1, <2>3 DEF LivePC
    <2>5. QED BY <1>2, <2>4
  <1>13. CASE DeletePending(r)
    <2>1. /\ pending' \in {pending, Nil} /\ awardRow' = awardRow /\ Goto(r, "done")
      BY <1>13 DEF DeletePending
    <2>2. Kept
      BY <1>4, <1>5, <2>1 DEF LivePC
    <2>3. QED BY <1>2, <2>2
  <1>14. ~SaveLiteFail(r) /\ ~Compensate(r) /\ ~CompensateFail(r)
    BY DEF SaveLiteFail, Compensate, CompensateFail, NothingGivenBack
  <1>15. CASE SaveLite(r)
    BY <1>6, <1>15 DEF SaveLite, redisVars, LivePC
  <1>16. CASE RejectDraw(r) \/ QueryActivityAccountDay(r) \/ QueryActivityAccountMonth(r)
              \/ RefuseOrder(r) \/ SaveLiteDuplicate(r) \/ PerformRaffleFail(r)
              \/ SaveAwardDuplicate(r) \/ SaveAwardFail(r) \/ Crash(r)
    BY <1>6, <1>16
    DEF RejectDraw, QueryActivityAccountDay, QueryActivityAccountMonth, RefuseOrder,
        SaveLiteDuplicate, PerformRaffleFail, SaveAwardDuplicate, SaveAwardFail, Crash, redisVars,
        LivePC
  <1>17. QED
    BY <1>7, <1>9, <1>10, <1>11, <1>12, <1>13, <1>14, <1>15, <1>16
    DEF Draw, CreateOrder, SaveUserAwardRecord

(* Every step keeps the orders that live within the ledger and the keys. *)
LEMMA AwardInductive ==
    ASSUME "reload" \notin Faults, "saveFail" \notin Faults, "ackLost" \notin Faults,
           AwardInv, [Next]_vars
    PROVE  AwardInv'
  <1>1. LedgerInv /\ QuietLoad /\ NothingGivenBack /\ LiveWithin
    BY DEF AwardInv
  <1>2. LedgerInv' /\ QuietLoad'
    BY <1>1, NextLedgerInv, QuietInductive
  <1>3. /\ KeyValue \in Nat /\ TotalKey \in Count /\ Granted("total") \in Nat
        /\ IsFiniteSet(Live) /\ Cardinality(Live) \in Nat
        /\ KeyValue + Cardinality(Live) <= Granted("total") /\ Nil \notin Nat /\ Nil \notin Orders
    BY <1>1, KeyTypes, LiveFinite DEF LiveWithin
  <1>4. ASSUME Live' \subseteq Live
        PROVE  Cardinality(Live') \in Nat /\ Cardinality(Live') <= Cardinality(Live)
    BY <1>3, <1>4, FS_Subset, FS_CardinalityType
  <1>5. ASSUME NEW r \in Requests, Draw(r) PROVE NothingGivenBack' /\ LiveWithin'
    <2>1. /\ NothingGivenBack'
          /\ \/ Live' \subseteq Live
             \/ \E o \in Orders : ReserveOrder(r, o) /\ Live' \subseteq Live \cup {o}
      BY <1>1, <1>5, DrawLives
    <2>2. Granted("total")' = Granted("total")
      BY <1>1, <1>5, DrawOwnRecord, KeyTypes DEF Granted
    <2>3. ASSUME NEW o \in Orders, ReserveOrder(r, o), Live' \subseteq Live \cup {o}
          PROVE  LiveWithin'
      <3>1. TotalKey \in Nat /\ TotalKey > 0 /\ TotalKey' = TotalKey - 1
        BY <1>1, <2>3, ReserveTakesOne
      <3>2. PICK more : more = Live \cup {o}
        OBVIOUS
      <3>3. /\ IsFiniteSet(more) /\ Cardinality(more) \in Nat
            /\ Cardinality(more) <= Cardinality(Live) + 1
        <4>1. CASE o \in Live
          <5>1. more = Live
            BY <3>2, <4>1
          <5>2. QED BY <1>3, <5>1
        <4>2. CASE o \notin Live
          <5>1. IsFiniteSet(more) /\ Cardinality(more) = Cardinality(Live) + 1
            BY <1>3, <3>2, <4>2, FS_AddElement
          <5>2. QED BY <1>3, <5>1
        <4>3. QED BY <4>1, <4>2
      <3>4. Cardinality(Live') \in Nat /\ Cardinality(Live') <= Cardinality(Live) + 1
        <4>1. IsFiniteSet(Live') /\ Cardinality(Live') <= Cardinality(more)
          BY <2>3, <3>2, <3>3, FS_Subset
        <4>2. Cardinality(Live') \in Nat
          BY <4>1, FS_CardinalityType
        <4>3. QED BY <1>3, <3>3, <4>1, <4>2
      <3>5. KeyValue = TotalKey /\ KeyValue' = TotalKey - 1
        BY <1>3, <3>1 DEF KeyValue
      <3>6. QED BY <1>3, <2>2, <3>1, <3>4, <3>5 DEF LiveWithin
    <2>4. ASSUME Live' \subseteq Live, ~\E o \in Orders : ReserveOrder(r, o) PROVE LiveWithin'
      <3>1. TotalKey' = TotalKey
        BY <1>1, <1>5, <2>4, DrawKeys DEF Compensate, NothingGivenBack
      <3>2. QED BY <1>3, <1>4, <2>2, <2>4, <3>1 DEF LiveWithin, KeyValue
    <2>5. QED BY <2>1, <2>3, <2>4
  <1>6. CASE LoadAccount
    <2>1. /\ UNCHANGED <<pending, recharged, awardRow, req>>
          /\ \/ TotalKey' = TotalKey
             \/ NoDrawYet /\ TotalKey' \in Nat /\ TotalKey' <= Granted("total")
      BY <1>1, <1>6, LoadKeys
    <2>2. Granted("total")' = Granted("total") /\ Live' = Live /\ NothingGivenBack'
      BY <1>1, <2>1 DEF Granted, Live, NothingGivenBack
    <2>3. CASE TotalKey' = TotalKey
      BY <1>2, <1>3, <2>2, <2>3 DEF LiveWithin, KeyValue, AwardInv
    <2>4. CASE NoDrawYet /\ TotalKey' \in Nat /\ TotalKey' <= Granted("total")
      <3>1. Live = {}
        BY <2>4 DEF NoDrawYet, InUse, Live, LivePC
      <3>2. Cardinality(Live) = 0
        BY <3>1, FS_EmptySet
      <3>3. KeyValue' = TotalKey'
        BY <1>3, <2>4 DEF KeyValue
      <3>4. LiveWithin'
        BY <2>2, <2>4, <3>2, <3>3 DEF LiveWithin
      <3>5. QED BY <1>2, <2>2, <3>4 DEF AwardInv
    <2>5. QED BY <2>1, <2>3, <2>4
  <1>7. CASE \/ \E w \in Workers : DispatchSingleTask(w)
             \/ \E b \in Recharges, t \in Days : SaveOrder(b, t)
             \/ Midnight \/ Expire \/ UNCHANGED vars
    <2>1. /\ UNCHANGED <<awardRow, req>>
          /\ TotalKey' \in {TotalKey, Nil} /\ pending' \in {pending, Nil}
          /\ Granted("total")' \in Nat /\ Granted("total")' >= Granted("total")
      BY <1>1, <1>7, OtherKeys
    <2>2. Live' \subseteq Live /\ NothingGivenBack'
      BY <1>1, <1>3, <2>1 DEF Live, NothingGivenBack
    <2>3. KeyValue' \in Nat /\ KeyValue' <= KeyValue
      BY <1>3, <2>1 DEF KeyValue, Count
    <2>4. LiveWithin'
      BY <1>3, <1>4, <2>1, <2>2, <2>3 DEF LiveWithin
    <2>5. QED BY <1>2, <2>2, <2>4 DEF AwardInv
  <1>8. QED BY <1>2, <1>5, <1>6, <1>7 DEF Next, AwardInv

(* SaveUserAwardRecord: no user wins more often than the total count that    *)
(* was recharged, for any number of calls that reuse, crash, expire or       *)
(* collide, as long as the keys are not loaded again once draws have begun   *)
(* and no SaveLite transaction fails, so that nothing is given back.        *)
THEOREM AwardsCorrect ==
    ASSUME "reload" \notin Faults, "saveFail" \notin Faults, "ackLost" \notin Faults
    PROVE  Spec => []AwardsWithinQuota
  <1>1. Init => AwardInv
    <2> SUFFICES ASSUME Init PROVE AwardInv
      OBVIOUS
    <2>1. KeyInv
      BY KeyInit
    <2>2. Live = {} /\ KeyValue = 0 /\ NothingGivenBack
      BY NilAssumption, DimsFacts
      DEF Init, Live, LivePC, KeyValue, TotalKey, NothingGivenBack
    <2>3. Cardinality(Live) = 0
      BY <2>2, FS_EmptySet
    <2>4. Granted("total") \in Nat
      BY <2>1, KeyTypes DEF KeyInv
    <2>5. QED BY <2>1, <2>2, <2>3, <2>4 DEF AwardInv, KeyInv, LiveWithin
  <1>2. AwardInv /\ [Next]_vars => AwardInv'
    BY AwardInductive
  <1>3. AwardInv => AwardsWithinQuota
    <2> SUFFICES ASSUME AwardInv PROVE AwardsWithinQuota
      OBVIOUS
    <2> DEFINE Won == {o \in Orders : awardRow[o] # Nil}
    <2>1. Won \subseteq Live
      BY DEF Live
    <2>2. IsFiniteSet(Live) /\ Cardinality(Live) \in Nat
      BY LiveFinite
    <2>3. IsFiniteSet(Won) /\ Cardinality(Won) <= Cardinality(Live) /\ Cardinality(Won) \in Nat
      BY <2>1, <2>2, FS_Subset, FS_CardinalityType
    <2>4. KeyValue \in Nat /\ Granted("total") \in Nat /\ KeyValue + Cardinality(Live) <= Granted("total")
      BY KeyTypes DEF AwardInv, LiveWithin
    <2>5. Cardinality(Won) <= Granted("total")
      BY <2>2, <2>3, <2>4
    <2>6. QED BY <2>5 DEF AwardsWithinQuota
  <1>4. QED BY <1>1, <1>2, <1>3, PTL DEF Spec
=============================================================================
