----------------------------- MODULE RaffleDraw -----------------------------
(***************************************************************************)
(* The draw pipeline of one user in one activity: the Draw handler, the    *)
(* Redis quota keys and pending order it works on, the MySQL ledger, the   *)
(* outbox of tasks written in the same transactions, the job that          *)
(* dispatches them, and the recharge and load operations that move the     *)
(* quota.  Every Redis key and every row is keyed by (user, activity), so  *)
(* users do not interact here and one user stands for all.                 *)
(*                                                                         *)
(* Granularity: one action per Redis command or script, per MySQL          *)
(* statement outside a transaction and per MySQL transaction; between two  *)
(* of them any other process may run.                                      *)
(***************************************************************************)
EXTENDS Integers, Sequences, FiniteSets

CONSTANTS
    Requests,    \* Draw calls; each is served once
    Orders,      \* order identifiers (12 random digits in the code)
    Awards,      \* award identifiers a raffle may return
    Workers,     \* goroutines of the task dispatch job, over all its runs
    Recharges,   \* out_business_no values of quota recharges
    DimSeq,      \* quota dimensions in loading order: <<"total", "month", "day">>
    LastDay,     \* bound: the model follows days 1..LastDay
    PeriodOf,    \* PeriodOf[d][t]: the period of dimension d that day t is in
    Grant,       \* Grant[d]: the count of dimension d one recharge adds
    Faults,      \* which faults and optional operations may happen
    Nil          \* no Redis key, no row, no value

Dims == {DimSeq[i] : i \in DOMAIN DimSeq}
PeriodDims == Dims \ {"total"}
Days == 1..LastDay
Periods == 0..LastDay

FaultKinds ==
    {"reject",          \* a read of CreateOrder fails, or the activity is closed
     "saveFail",        \* the SaveLite transaction is rolled back
     "ackLost",         \* a transaction commits and its acknowledgement is lost
     "replyLost",       \* the reservation script runs, its reply is lost, the client retries
     "compensateFail",  \* the compensation script is not executed
     "collision",       \* a new order draws the identifier of an existing one
     "raffleFail",      \* PerformRaffle returns an error
     "awardFail",       \* the award transaction is rolled back
     "deleteFail",      \* the pending key is not deleted
     "crash",           \* the process serving a request dies
     "expire",          \* a Redis key reaches its TTL
     "reload",          \* an account load runs although draws have begun
     "loadFail",        \* loading stops half way
     "query",           \* QueryUserActivityAccount is called
     "armory",          \* the armory loads accounts (its call in the service is commented out)
     "routeFail",       \* a dispatched task fails for a transient reason
     "markFail",        \* the task's state is not updated
     "workerCrash"}     \* the process running the dispatch job dies

ASSUME DimsAssumption ==
    /\ DimSeq \in Seq(STRING)
    /\ Len(DimSeq) > 0
    /\ DimSeq[1] = "total"
    /\ \A i \in 2..Len(DimSeq) : DimSeq[i] # "total"

ASSUME CalendarAssumption ==
    /\ LastDay \in Nat \ {0}
    /\ \A d \in Dims, t \in Days : PeriodOf[d][t] \in Periods
    /\ \A t \in Days : PeriodOf["total"][t] = 0

ASSUME GrantAssumption == \A d \in Dims : Grant[d] \in Nat

ASSUME FiniteAssumption == IsFiniteSet(Orders) /\ IsFiniteSet(Recharges)

ASSUME FaultsAssumption == Faults \subseteq FaultKinds

ASSUME NilAssumption ==
    /\ Nil \notin Nat
    /\ Nil \notin Orders
    /\ Nil \notin Awards
    /\ Nil \notin [Dims -> Nat]

SaveOrderRecordTopic == "save_order_record"
SendAwardTopic == "send_award"
Topics == {SaveOrderRecordTopic, SendAwardTopic}

Count == Nat \cup {Nil}

----------------------------------------------------------------------------
VARIABLES
    today,       \* the date time.Now() returns
    (* Redis *)
    snapshot,    \* account key: the cached TotalCountSurplus, or Nil
    surplus,     \* surplus[d][p]: the surplus key of dimension d, period p, or Nil
    pending,     \* pending_raffle_order key: its oid, or Nil
    (* MySQL *)
    recharged,   \* out_business_no of the raffle_activity_order rows
    account,     \* raffle_activity_account: *_count_surplus per dimension, or Nil
    periodRow,   \* raffle_activity_account_day and _month: the surplus, or Nil
    orderState,  \* user_raffle_order: order_state, "none" when there is no row
    syncState,   \* user_raffle_order: account_sync_state, "none" when no row
    orderDay,    \* user_raffle_order: the day of order_time, 0 when no row
    awardRow,    \* user_award_record by order_id: its award, or Nil
    taskState,   \* taskState[topic][o]: the outbox row's state, or "none"
    published,   \* orders whose send_award message reached RabbitMQ
    (* processes *)
    req,         \* the Draw requests
    worker,      \* the dispatcher's goroutines
    loader       \* the account load in progress (one at a time)

redisVars == <<snapshot, surplus, pending>>
ledgerVars == <<recharged, account, periodRow>>
orderVars == <<orderState, syncState, orderDay>>
outboxVars == <<taskState, published>>
vars == <<today, redisVars, ledgerVars, orderVars, awardRow, outboxVars,
          req, worker, loader>>

RequestPC == {"idle", "day", "month", "reserve", "saveLite", "compensate", "raffle",
              "award", "delete", "done", "failed"}
RequestRec == [pc : RequestPC, order : Orders \cup {Nil},
               award : Awards \cup {Nil}, day : Days]
WorkerRec == [pc : {"idle", "route", "ok", "err"},
              topic : Topics, order : Orders \cup {Nil}]
LoadKinds == {"load", "query", "armory"}
LoaderRec == [pc : {"idle", "query", "cache"}, kind : LoadKinds,
              i : Nat, day : Days, val : [Dims -> Nat]]

(* Where a call holds an order, and where also an award. *)
OrderPC == {"saveLite", "compensate", "raffle", "award", "delete", "done"}
AwardPC == {"award", "delete", "done"}

RedisTypeOK ==
    /\ snapshot \in Count
    /\ surplus \in [Dims -> [Periods -> Count]]
    /\ pending \in Orders \cup {Nil}

LedgerTypeOK ==
    /\ recharged \in SUBSET Recharges
    /\ account \in [Dims -> Nat] \cup {Nil}
    /\ periodRow \in [PeriodDims -> [Periods -> Count]]

RecordTypeOK ==
    /\ orderState \in [Orders -> {"none", "create", "used"}]
    /\ syncState \in [Orders -> {"none", "create", "completed"}]
    /\ orderDay \in [Orders -> Days \cup {0}]
    /\ awardRow \in [Orders -> Awards \cup {Nil}]
    /\ taskState \in [Topics -> [Orders -> {"none", "create", "fail", "completed"}]]
    /\ published \in SUBSET Orders

RequestTypeOK ==
    /\ req \in [Requests -> RequestRec]
    /\ \A r \in Requests : /\ req[r].pc \in OrderPC => req[r].order \in Orders
                           /\ req[r].pc \in AwardPC => req[r].award \in Awards

WorkerTypeOK ==
    /\ worker \in [Workers -> WorkerRec]
    /\ \A w \in Workers : worker[w].pc # "idle" => worker[w].order \in Orders

LoaderTypeOK ==
    /\ loader \in LoaderRec
    /\ loader.pc = "query" => loader.i >= 2
    /\ loader.pc = "cache" => loader.i \in 1..Len(DimSeq)

(* Types of all variables; counts never go below zero although a script and *)
(* a transaction decrement them.  A call, a goroutine and a load hold what   *)
(* their next step needs.                                                    *)
TypeOK ==
    /\ today \in Days
    /\ RedisTypeOK
    /\ LedgerTypeOK
    /\ RecordTypeOK
    /\ RequestTypeOK
    /\ WorkerTypeOK
    /\ LoaderTypeOK

IdleWorker == [pc |-> "idle", topic |-> SaveOrderRecordTopic, order |-> Nil]
IdleLoader == [pc |-> "idle", kind |-> "load", i |-> 0, day |-> 1,
               val |-> [d \in Dims |-> 0]]

(* Before anything happens: no account, no key, no order. *)
Init ==
    /\ today = 1
    /\ snapshot = Nil
    /\ surplus = [d \in Dims |-> [p \in Periods |-> Nil]]
    /\ pending = Nil
    /\ recharged = {}
    /\ account = Nil
    /\ periodRow = [d \in PeriodDims |-> [p \in Periods |-> Nil]]
    /\ orderState = [o \in Orders |-> "none"]
    /\ syncState = [o \in Orders |-> "none"]
    /\ orderDay = [o \in Orders |-> 0]
    /\ awardRow = [o \in Orders |-> Nil]
    /\ taskState = [t \in Topics |-> [o \in Orders |-> "none"]]
    /\ published = {}
    /\ req = [r \in Requests |->
                 [pc |-> "idle", order |-> Nil, award |-> Nil, day |-> 1]]
    /\ worker = [w \in Workers |-> IdleWorker]
    /\ loader = IdleLoader

----------------------------------------------------------------------------
(* Helpers *)

Goto(r, label) == req' = [req EXCEPT ![r].pc = label]

(* The call returns an error; its local variables are gone. *)
Fail(r) == req' = [req EXCEPT ![r] = [pc |-> "failed", order |-> Nil,
                                      award |-> Nil, day |-> 1]]

(* The period of dimension d on day t, the date part of its key or row. *)
Period(d, t) == PeriodOf[d][t]

(* The surplus keys of day t, each changed by delta; INCR creates a missing key. *)
AddToKeys(t, delta) ==
    [d \in Dims |-> [surplus[d] EXCEPT ![Period(d, t)] =
                        IF @ = Nil THEN delta ELSE @ + delta]]

(* Orders a client, Redis or MySQL still knows. *)
InUse == {o \in Orders :
            \/ pending = o
            \/ orderState[o] # "none"
            \/ awardRow[o] # Nil
            \/ \E r \in Requests : req[r].order = o /\ req[r].pc # "done"}

----------------------------------------------------------------------------
(* CreateOrder: the account filter *)

(* A closed activity, a date outside it or a failed read ends the call. *)
RejectDraw(r) ==
    /\ "reject" \in Faults
    /\ req[r].pc \in {"idle", "day", "month", "reserve"}
    /\ Fail(r)
    /\ UNCHANGED <<today, redisVars, ledgerVars, orderVars, awardRow, outboxVars,
                   worker, loader>>

(* What Once returns for the account key: the cached copy, else the row; a *)
(* missing row is cached too, as JSON null, and read back as zero counts.  *)
CachedTotal == IF snapshot # Nil THEN snapshot
               ELSE IF account # Nil THEN account["total"] ELSE 0

(* currentTime was taken when the call began, perhaps before midnight. *)
QueryActivityAccount(r) ==
    /\ req[r].pc = "idle"
    /\ snapshot' = CachedTotal
    /\ IF CachedTotal <= 0 THEN Fail(r)
       ELSE \E t \in 1..today : req' = [req EXCEPT ![r].pc = "day", ![r].day = t]
    /\ UNCHANGED <<today, surplus, pending, ledgerVars, orderVars, awardRow,
                   outboxVars, worker, loader>>

(* The day row, then the month row, is checked when it exists. *)
PeriodExhausted(d, t) ==
    /\ d \in PeriodDims
    /\ periodRow[d][Period(d, t)] # Nil
    /\ periodRow[d][Period(d, t)] <= 0

QueryActivityAccountDay(r) ==
    /\ req[r].pc = "day"
    /\ IF PeriodExhausted("day", req[r].day) THEN Fail(r) ELSE Goto(r, "month")
    /\ UNCHANGED <<today, redisVars, ledgerVars, orderVars, awardRow, outboxVars,
                   worker, loader>>

QueryActivityAccountMonth(r) ==
    /\ req[r].pc = "month"
    /\ IF PeriodExhausted("month", req[r].day) THEN Fail(r) ELSE Goto(r, "reserve")
    /\ UNCHANGED <<today, redisVars, ledgerVars, orderVars, awardRow, outboxVars,
                   worker, loader>>

----------------------------------------------------------------------------
(* CacheGetOrCreateNoUsedRaffleOrder: one Lua script *)

(* Mutant: the script compares with < 0. *)
ServesAtZero(v) == v # Nil /\ v >= 0

(* A surplus key serves a reservation when it exists and is not used up. *)
Serves(v) == v # Nil /\ v > 0

QuotaKeysServe == \A d \in Dims : Serves(surplus[d][Period(d, today)])

ReuseOrder(r) ==
    /\ req[r].pc = "reserve"
    /\ pending # Nil
    /\ req' = [req EXCEPT ![r].pc = "raffle", ![r].order = pending]
    /\ UNCHANGED <<today, redisVars, ledgerVars, orderVars, awardRow, outboxVars,
                   worker, loader>>

RefuseOrder(r) ==
    /\ req[r].pc = "reserve"
    /\ pending = Nil
    /\ ~QuotaKeysServe
    /\ Fail(r)
    /\ UNCHANGED <<today, redisVars, ledgerVars, orderVars, awardRow, outboxVars,
                   worker, loader>>

(* Takes one from each key of today and makes o the pending order.  The order *)
(* row is saved next; when the script's reply is lost the client's retry      *)
(* finds o pending and takes it for a reused order, which is not saved.       *)
ReserveOrder(r, o) ==
    /\ req[r].pc = "reserve"
    /\ pending = Nil
    /\ QuotaKeysServe
    /\ o \in InUse => "collision" \in Faults
    /\ surplus' = AddToKeys(today, -1)
    /\ pending' = o
    /\ \/ req' = [req EXCEPT ![r].pc = "saveLite", ![r].order = o]
       \/ "replyLost" \in Faults /\ req' = [req EXCEPT ![r].pc = "raffle", ![r].order = o]
    /\ UNCHANGED <<today, snapshot, ledgerVars, orderVars, awardRow, outboxVars,
                   worker, loader>>

----------------------------------------------------------------------------
(* SaveLiteUserRaffleOrder: order row and save_order_record task in one      *)
(* transaction; a duplicate order_id counts as saved, an error compensates.  *)

(* Mutant: the transaction commits without its outbox row. *)
OmitTask(topic, o) == UNCHANGED taskState

InsertTask(topic, o) == taskState' = [taskState EXCEPT ![topic][o] = "create"]

InsertOrder(r) ==
    LET o == req[r].order IN
    /\ orderState[o] = "none"
    /\ orderState' = [orderState EXCEPT ![o] = "create"]
    /\ syncState' = [syncState EXCEPT ![o] = "create"]
    /\ orderDay' = [orderDay EXCEPT ![o] = req[r].day]
    /\ InsertTask(SaveOrderRecordTopic, o)

SaveLite(r) ==
    /\ req[r].pc = "saveLite"
    /\ InsertOrder(r)
    /\ \/ Goto(r, "raffle")
       \/ "ackLost" \in Faults /\ Goto(r, "compensate")
    /\ UNCHANGED <<today, redisVars, ledgerVars, awardRow, published, worker, loader>>

SaveLiteDuplicate(r) ==
    /\ req[r].pc = "saveLite"
    /\ orderState[req[r].order] # "none"
    /\ Goto(r, "raffle")
    /\ UNCHANGED <<today, redisVars, ledgerVars, orderVars, awardRow, outboxVars,
                   worker, loader>>

SaveLiteFail(r) ==
    /\ "saveFail" \in Faults
    /\ req[r].pc = "saveLite"
    /\ Goto(r, "compensate")
    /\ UNCHANGED <<today, redisVars, ledgerVars, orderVars, awardRow, outboxVars,
                   worker, loader>>

(* Mutant: the keys are given back and the order stays pending. *)
GiveBackKeepPending(t) == surplus' = AddToKeys(t, 1) /\ UNCHANGED pending

GiveBack(t) == surplus' = AddToKeys(t, 1) /\ pending' = Nil

(* compensatePendingRaffleOrder: one Lua script.  Only while the order is still *)
(* pending are the keys of the order's own day given back.                      *)
Compensate(r) ==
    /\ req[r].pc = "compensate"
    /\ IF pending = req[r].order
       THEN GiveBack(req[r].day)
       ELSE UNCHANGED <<surplus, pending>>
    /\ Fail(r)
    /\ UNCHANGED <<today, snapshot, ledgerVars, orderVars, awardRow, outboxVars,
                   worker, loader>>

CompensateFail(r) ==
    /\ "compensateFail" \in Faults
    /\ req[r].pc = "compensate"
    /\ Fail(r)
    /\ UNCHANGED <<today, redisVars, ledgerVars, orderVars, awardRow, outboxVars,
                   worker, loader>>

----------------------------------------------------------------------------
(* PerformRaffle, SaveUserAwardRecord and the reply *)

PerformRaffle(r, a) ==
    /\ req[r].pc = "raffle"
    /\ req' = [req EXCEPT ![r].pc = "award", ![r].award = a]
    /\ UNCHANGED <<today, redisVars, ledgerVars, orderVars, awardRow, outboxVars,
                   worker, loader>>

PerformRaffleFail(r) ==
    /\ "raffleFail" \in Faults
    /\ req[r].pc = "raffle"
    /\ Fail(r)
    /\ UNCHANGED <<today, redisVars, ledgerVars, orderVars, awardRow, outboxVars,
                   worker, loader>>

(* Mutant: the award is upserted. *)
AwardIsReplaceable(o) == TRUE

(* The unique index on user_award_record.order_id. *)
AwardIsNew(o) == awardRow[o] = Nil

(* Award record, send_award task and order state in one transaction; the     *)
(* UPDATE of an order row that does not exist changes nothing and is not an  *)
(* error.                                                                    *)
SaveAward(r) ==
    LET o == req[r].order IN
    /\ req[r].pc = "award"
    /\ AwardIsNew(o)
    /\ awardRow' = [awardRow EXCEPT ![o] = req[r].award]
    /\ InsertTask(SendAwardTopic, o)
    /\ orderState' = [orderState EXCEPT ![o] = IF @ = "none" THEN @ ELSE "used"]
    /\ \/ Goto(r, "delete")
       \/ "ackLost" \in Faults /\ Fail(r)
    /\ UNCHANGED <<today, redisVars, ledgerVars, syncState, orderDay, published,
                   worker, loader>>

SaveAwardDuplicate(r) ==
    /\ req[r].pc = "award"
    /\ ~AwardIsNew(req[r].order)
    /\ Goto(r, "delete")
    /\ UNCHANGED <<today, redisVars, ledgerVars, orderVars, awardRow, outboxVars,
                   worker, loader>>

SaveAwardFail(r) ==
    /\ "awardFail" \in Faults
    /\ req[r].pc = "award"
    /\ Fail(r)
    /\ UNCHANGED <<today, redisVars, ledgerVars, orderVars, awardRow, outboxVars,
                   worker, loader>>

(* The pending key is deleted whichever order it holds; a failed delete is   *)
(* only logged.  Then Draw replies with the award of its own raffle.         *)
DeletePending(r) ==
    /\ req[r].pc = "delete"
    /\ \/ pending' = Nil
       \/ "deleteFail" \in Faults /\ pending' = pending
    /\ Goto(r, "done")
    /\ UNCHANGED <<today, snapshot, surplus, ledgerVars, orderVars, awardRow,
                   outboxVars, worker, loader>>

Crash(r) ==
    /\ "crash" \in Faults
    /\ req[r].pc \notin {"idle", "done", "failed"}
    /\ Fail(r)
    /\ UNCHANGED <<today, redisVars, ledgerVars, orderVars, awardRow, outboxVars,
                   worker, loader>>

----------------------------------------------------------------------------
(* The outbox dispatcher: SendAwardMessage.ProcessTask every 5 seconds, one  *)
(* goroutine per task read.  Runs may overlap, so two goroutines may hold    *)
(* the same task.  The 6 minute age of "create" tasks and the batch limit    *)
(* are timing: a task may be picked at any moment after it is written.       *)

WorkerGoto(w, label) == worker' = [worker EXCEPT ![w].pc = label]

(* Mutant: failed tasks are not selected again. *)
DispatchableOnce(s) == s = "create"

(* States QueryNoSendMessageTaskList selects. *)
Dispatchable(s) == s \in {"fail", "create"}

QueryTask(w, topic, o) ==
    /\ worker[w].pc = "idle"
    /\ Dispatchable(taskState[topic][o])
    /\ worker' = [worker EXCEPT ![w] = [pc |-> "route", topic |-> topic, order |-> o]]
    /\ UNCHANGED <<today, redisVars, ledgerVars, orderVars, awardRow, outboxVars,
                   req, loader>>

(* Mutant: account_sync_state is not tested. *)
NeverSynced(o) == FALSE

(* SaveCreatePartakeOrderAggregate: the order row is locked and its          *)
(* account_sync_state makes a second execution a no-op.                      *)
AlreadySynced(o) == syncState[o] = "completed"

(* Every column of the account and every existing period row of the order's  *)
(* own date must have something left.                                        *)
CanDeduct(o) ==
    /\ account # Nil
    /\ \A d \in Dims : account[d] > 0
    /\ \A d \in PeriodDims : LET row == periodRow[d][Period(d, orderDay[o])]
                             IN  row # Nil => row > 0

(* Mutant: the new row starts from the account without the draw it counts. *)
NewPeriodRowUndeducted(d) == account[d]

(* A missing period row is created from the account read before the update.  *)
NewPeriodRow(d) == account[d] - 1

DeductPeriodRows(t) ==
    [d \in PeriodDims |-> [periodRow[d] EXCEPT ![Period(d, t)] =
                              IF @ = Nil THEN NewPeriodRow(d) ELSE @ - 1]]

SaveOrderRecord(w) ==
    LET o == worker[w].order IN
    /\ worker[w].pc = "route"
    /\ worker[w].topic = SaveOrderRecordTopic
    /\ ~AlreadySynced(o)
    /\ CanDeduct(o)
    /\ account' = [d \in Dims |-> account[d] - 1]
    /\ periodRow' = DeductPeriodRows(orderDay[o])
    /\ syncState' = [syncState EXCEPT ![o] = "completed"]
    /\ \/ WorkerGoto(w, "ok")
       \/ "ackLost" \in Faults /\ WorkerGoto(w, "err")
    /\ UNCHANGED <<today, redisVars, recharged, orderState, orderDay, awardRow,
                   outboxVars, req, loader>>

SaveOrderRecordAgain(w) ==
    /\ worker[w].pc = "route"
    /\ worker[w].topic = SaveOrderRecordTopic
    /\ AlreadySynced(worker[w].order)
    /\ WorkerGoto(w, "ok")
    /\ UNCHANGED <<today, redisVars, ledgerVars, orderVars, awardRow, outboxVars,
                   req, loader>>

SaveOrderRecordRefused(w) ==
    LET o == worker[w].order IN
    /\ worker[w].pc = "route"
    /\ worker[w].topic = SaveOrderRecordTopic
    /\ ~AlreadySynced(o)
    /\ ~CanDeduct(o)
    /\ WorkerGoto(w, "err")
    /\ UNCHANGED <<today, redisVars, ledgerVars, orderVars, awardRow, outboxVars,
                   req, loader>>

(* TaskUsecase.SendMessage: publish to RabbitMQ; an error may come after the *)
(* broker took the message.                                                  *)
SendMessage(w) ==
    /\ worker[w].pc = "route"
    /\ worker[w].topic = SendAwardTopic
    /\ published' = published \cup {worker[w].order}
    /\ \/ WorkerGoto(w, "ok")
       \/ "ackLost" \in Faults /\ WorkerGoto(w, "err")
    /\ UNCHANGED <<today, redisVars, ledgerVars, orderVars, awardRow, taskState,
                   req, loader>>

RouteFail(w) ==
    /\ "routeFail" \in Faults
    /\ worker[w].pc = "route"
    /\ WorkerGoto(w, "err")
    /\ UNCHANGED <<today, redisVars, ledgerVars, orderVars, awardRow, outboxVars,
                   req, loader>>

(* Mutant: the outcome of the routing is ignored. *)
CompletedAnyway(outcome) == "completed"

(* dispatchSingleTask's update of the task: no condition on the state found. *)
StateAfter(outcome) == IF outcome = "ok" THEN "completed" ELSE "fail"

MarkTask(w) ==
    /\ worker[w].pc \in {"ok", "err"}
    /\ taskState' = [taskState EXCEPT ![worker[w].topic][worker[w].order] =
                        StateAfter(worker[w].pc)]
    /\ worker' = [worker EXCEPT ![w] = IdleWorker]
    /\ UNCHANGED <<today, redisVars, ledgerVars, orderVars, awardRow, published,
                   req, loader>>

(* A failed update to "completed" is followed by one to "fail", and that one *)
(* may fail too; its result is ignored.                                      *)
MarkTaskFail(w) ==
    /\ "markFail" \in Faults
    /\ \/ worker[w].pc = "ok" /\ WorkerGoto(w, "err")
       \/ worker[w].pc = "err" /\ worker' = [worker EXCEPT ![w] = IdleWorker]
    /\ UNCHANGED <<today, redisVars, ledgerVars, orderVars, awardRow, outboxVars,
                   req, loader>>

WorkerCrash(w) ==
    /\ "workerCrash" \in Faults
    /\ worker[w].pc # "idle"
    /\ worker' = [worker EXCEPT ![w] = IdleWorker]
    /\ UNCHANGED <<today, redisVars, ledgerVars, orderVars, awardRow, outboxVars,
                   req, loader>>

----------------------------------------------------------------------------
(* Recharge: Repository.SaveOrder, one transaction guarded by the unique     *)
(* out_business_no.  A dimension whose count is zero gets no period row; the *)
(* others that of the day t the recharge order was built on.                 *)
PlusGrant(v, d) == IF v = Nil THEN Grant[d] ELSE v + Grant[d]

SaveOrder(b, t) ==
    /\ b \notin recharged
    /\ t <= today
    /\ recharged' = recharged \cup {b}
    /\ account' = [d \in Dims |-> IF account = Nil THEN Grant[d]
                                  ELSE account[d] + Grant[d]]
    /\ periodRow' = [d \in PeriodDims |->
                        IF Grant[d] = 0 THEN periodRow[d]
                        ELSE [periodRow[d] EXCEPT ![Period(d, t)] = PlusGrant(@, d)]]
    /\ UNCHANGED <<today, redisVars, orderVars, awardRow, outboxVars,
                   req, worker, loader>>

----------------------------------------------------------------------------
(* Loading the account into Redis: LoadUserActivityAccount ("load"), the     *)
(* armory ("armory") and QueryUserActivityAccount ("query", which stops      *)
(* after the rows).  Without "reload" an account is loaded before its first  *)
(* draw only.                                                                *)
NoDrawYet == InUse = {} /\ surplus["total"][0] = Nil

LoadStart(k) ==
    /\ loader.pc = "idle"
    /\ account # Nil
    /\ k \in {"query", "armory"} => k \in Faults
    /\ k # "query" => "reload" \in Faults \/ NoDrawYet
    /\ loader' = [pc |-> "query", kind |-> k, i |-> 2, day |-> today, val |-> account]
    /\ UNCHANGED <<today, redisVars, ledgerVars, orderVars, awardRow, outboxVars,
                   req, worker>>

(* A date t that time.Now() gave after the load's previous statement. *)
DateRead(t) == loader.day <= t /\ t <= today

(* QueryActivityAccountEntity reads each period row and creates a missing    *)
(* one from the account it read first (when the INSERT finds a duplicate the *)
(* row is read again).  The armory only reads, and takes a failed read for a *)
(* missing row.                                                              *)
LoadPeriodRow(t) ==
    LET d == DimSeq[loader.i]
        p == Period(d, t)
        row == periodRow[d][p]
    IN  /\ loader.pc = "query"
        /\ loader.i <= Len(DimSeq)
        /\ DateRead(t)
        /\ \/ loader' = [loader EXCEPT !.i = @ + 1, !.day = today,
                            !.val[d] = IF row = Nil THEN @ ELSE row]
           \/ /\ "loadFail" \in Faults
              /\ loader.kind = "armory"
              /\ loader' = [loader EXCEPT !.i = @ + 1, !.day = today]
        /\ periodRow' = IF row = Nil /\ loader.kind # "armory"
                        THEN [periodRow EXCEPT ![d][p] = loader.val[d]]
                        ELSE periodRow
        /\ UNCHANGED <<today, redisVars, recharged, account, orderVars, awardRow,
                       outboxVars, req, worker>>

(* cacheActivityAccountSnapshot: the account key, then each surplus key, of  *)
(* the date read before the first of them.                                   *)
LoadSnapshot(t) ==
    /\ loader.pc = "query"
    /\ loader.i > Len(DimSeq)
    /\ DateRead(t)
    /\ IF loader.kind = "query"
       THEN /\ loader' = IdleLoader
            /\ UNCHANGED snapshot
       ELSE /\ loader' = [loader EXCEPT !.pc = "cache", !.i = 1, !.day = t]
            /\ snapshot' = loader.val["total"]
    /\ UNCHANGED <<today, surplus, pending, ledgerVars, orderVars, awardRow,
                   outboxVars, req, worker>>

LoadSurplusKey ==
    LET d == DimSeq[loader.i] IN
    /\ loader.pc = "cache"
    /\ surplus' = [surplus EXCEPT ![d][Period(d, loader.day)] = loader.val[d]]
    /\ loader' = IF loader.i = Len(DimSeq) THEN IdleLoader
                 ELSE [loader EXCEPT !.i = @ + 1]
    /\ UNCHANGED <<today, snapshot, pending, ledgerVars, orderVars, awardRow,
                   outboxVars, req, worker>>

LoadFail ==
    /\ "loadFail" \in Faults
    /\ loader.pc # "idle"
    /\ loader' = IdleLoader
    /\ UNCHANGED <<today, redisVars, ledgerVars, orderVars, awardRow, outboxVars,
                   req, worker>>

----------------------------------------------------------------------------
(* Time: midnight, and the TTLs of the Redis keys *)

Midnight ==
    /\ today < LastDay
    /\ today' = today + 1
    /\ UNCHANGED <<redisVars, ledgerVars, orderVars, awardRow, outboxVars,
                   req, worker, loader>>

ExpireSnapshot ==
    /\ "expire" \in Faults
    /\ snapshot # Nil
    /\ snapshot' = Nil
    /\ UNCHANGED <<today, surplus, pending, ledgerVars, orderVars, awardRow,
                   outboxVars, req, worker, loader>>

ExpireSurplus(d, p) ==
    /\ "expire" \in Faults
    /\ surplus[d][p] # Nil
    /\ surplus' = [surplus EXCEPT ![d][p] = Nil]
    /\ UNCHANGED <<today, snapshot, pending, ledgerVars, orderVars, awardRow,
                   outboxVars, req, worker, loader>>

ExpirePending ==
    /\ "expire" \in Faults
    /\ pending # Nil
    /\ pending' = Nil
    /\ UNCHANGED <<today, snapshot, surplus, ledgerVars, orderVars, awardRow,
                   outboxVars, req, worker, loader>>

----------------------------------------------------------------------------
CreateOrder(r) ==
    \/ RejectDraw(r)
    \/ QueryActivityAccount(r)
    \/ QueryActivityAccountDay(r)
    \/ QueryActivityAccountMonth(r)
    \/ ReuseOrder(r)
    \/ RefuseOrder(r)
    \/ \E o \in Orders : ReserveOrder(r, o)
    \/ SaveLite(r)
    \/ SaveLiteDuplicate(r)
    \/ SaveLiteFail(r)
    \/ Compensate(r)
    \/ CompensateFail(r)

SaveUserAwardRecord(r) ==
    \/ SaveAward(r)
    \/ SaveAwardDuplicate(r)
    \/ SaveAwardFail(r)
    \/ DeletePending(r)

Draw(r) ==
    \/ CreateOrder(r)
    \/ \E a \in Awards : PerformRaffle(r, a)
    \/ PerformRaffleFail(r)
    \/ SaveUserAwardRecord(r)
    \/ Crash(r)

RouteTaskByTopic(w) ==
    \/ SaveOrderRecord(w)
    \/ SaveOrderRecordAgain(w)
    \/ SaveOrderRecordRefused(w)
    \/ SendMessage(w)

DispatchSingleTask(w) ==
    \/ \E topic \in Topics, o \in Orders : QueryTask(w, topic, o)
    \/ RouteTaskByTopic(w)
    \/ RouteFail(w)
    \/ MarkTask(w)
    \/ MarkTaskFail(w)
    \/ WorkerCrash(w)

LoadAccount ==
    \/ \E k \in LoadKinds : LoadStart(k)
    \/ \E t \in Days : LoadPeriodRow(t) \/ LoadSnapshot(t)
    \/ LoadSurplusKey
    \/ LoadFail

Expire ==
    \/ ExpireSnapshot
    \/ \E d \in Dims, p \in Periods : ExpireSurplus(d, p)
    \/ ExpirePending

Next ==
    \/ \E r \in Requests : Draw(r)
    \/ \E w \in Workers : DispatchSingleTask(w)
    \/ \E b \in Recharges, t \in Days : SaveOrder(b, t)
    \/ LoadAccount
    \/ Midnight
    \/ Expire

Spec == Init /\ [][Next]_vars

(* The job runs every 5 seconds and reads every task that is due, so a task  *)
(* that stays dispatchable is picked, and a goroutine runs to its end.  A    *)
(* transient failure does not hit a task for ever: the routing that is       *)
(* possible again and again succeeds some time.                              *)
Fairness ==
    /\ \A w \in Workers :
         /\ WF_vars(MarkTask(w))
         /\ SF_vars(RouteTaskByTopic(w))
         /\ \A topic \in Topics, o \in Orders : SF_vars(QueryTask(w, topic, o))

FairSpec == Spec /\ Fairness

----------------------------------------------------------------------------
(* Properties *)

Synced == {o \in Orders : syncState[o] = "completed"}
SyncedIn(d, p) == {o \in Synced : Period(d, orderDay[o]) = p}
Granted(d) == Grant[d] * Cardinality(recharged)

(* SaveCreatePartakeOrderAggregate runs at least once per order, from        *)
(* overlapping goroutines, after lost acknowledgements and crashes; yet each *)
(* column of the account is what was recharged less one per synced order.    *)
LedgerBalanced ==
    IF account = Nil THEN recharged = {} /\ Synced = {}
    ELSE \A d \in Dims : account[d] = Granted(d) - Cardinality(Synced)

(* The day and month rows, created by a recharge, by the sync or by a load   *)
(* from a counter that is not reset: what a period has spent and has left    *)
(* is never more than what was recharged in all.                             *)
PeriodCapped ==
    \A d \in PeriodDims, p \in Periods :
       IF periodRow[d][p] = Nil THEN SyncedIn(d, p) = {}
       ELSE periodRow[d][p] + Cardinality(SyncedIn(d, p)) <= Granted(d)

(* The outbox rows are written with the facts they announce: an order row    *)
(* has its save_order_record task, an award its send_award task, and no task *)
(* announces what is not there; a used order has its award.                  *)
OutboxMatchesFacts ==
    \A o \in Orders :
       /\ orderState[o] # "none" <=> taskState[SaveOrderRecordTopic][o] # "none"
       /\ awardRow[o] # Nil <=> taskState[SendAwardTopic][o] # "none"
       /\ orderState[o] = "used" => awardRow[o] # Nil

(* A task is marked completed only after its effect: the account deducted or *)
(* the message published, whatever other goroutines did in between.          *)
CompletedMeansDone ==
    \A o \in Orders :
       /\ taskState[SaveOrderRecordTopic][o] = "completed" => o \in Synced
       /\ taskState[SendAwardTopic][o] = "completed" => o \in published

(* What is recorded stays: an award is never replaced by that of another     *)
(* raffle on the same order, and no order is taken back to an earlier state. *)
RecordsAreFinal ==
    [][\A o \in Orders :
          /\ awardRow[o] # Nil => awardRow'[o] = awardRow[o]
          /\ orderState[o] = "used" => orderState'[o] = "used"
          /\ o \in Synced => o \in Synced']_vars

(* A reservation is given back at most once, and only the reservation that   *)
(* is still pending: with the keys loaded before the first draw, the total   *)
(* key and the pending order together stay within what was recharged.        *)
KeysWithinGrant ==
    surplus["total"][0] # Nil =>
       surplus["total"][0] + (IF pending = Nil THEN 0 ELSE 1) <= Granted("total")

(* While the quota keys are only loaded before the first draw and no         *)
(* reservation is given back, no crash, expiry, lost reply or lost delete    *)
(* lets a user win more often than the total count recharged.                *)
AwardsWithinQuota ==
    Cardinality({o \in Orders : awardRow[o] # Nil}) <= Granted("total")

(* The order row is there before anything is awarded on the order            *)
(* (CreateOrder: the minimal order is written first).                        *)
AwardHasOrderRoot ==
    \A o \in Orders : awardRow[o] # Nil => orderState[o] # "none"

(* order_id makes the award idempotent: a repeated Draw on an order answers  *)
(* with the award recorded for it.                                           *)
ReplyMatchesRecord ==
    \A r \in Requests : req[r].pc = "done" => awardRow[req[r].order] = req[r].award

(* The asynchronous task closes the quota account of every saved order.      *)
EveryOrderIsSynced ==
    \A o \in Orders : orderState[o] # "none" ~> o \in Synced

(* Every recorded award is announced to RabbitMQ.                            *)
EveryAwardIsPublished ==
    \A o \in Orders : awardRow[o] # Nil ~> o \in published
=============================================================================
