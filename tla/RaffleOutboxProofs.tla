------------------------- MODULE RaffleOutboxProofs -------------------------
(***************************************************************************)
(* The outbox of RaffleDraw: the tasks match the facts they announce, a    *)
(* completed task has had its effect, and recorded facts are final, for    *)
(* any number of requests, orders and goroutines and any set of faults.    *)
(***************************************************************************)
EXTENDS RaffleDrawProofs

(* An order row carries both states or is not there. *)
RowWhole == \A o \in Orders : orderState[o] = "none" <=> syncState[o] = "none"

(* A goroutine works on a task that exists, and after a successful routing *)
(* the task's effect is there.                                             *)
WorkerHoldsTask ==
    \A w \in Workers :
       LET o == worker[w].order IN
       /\ worker[w].pc # "idle" => taskState[worker[w].topic][o] # "none"
       /\ worker[w].pc = "ok" =>
             /\ worker[w].topic = SaveOrderRecordTopic => o \in Synced
             /\ worker[w].topic = SendAwardTopic => o \in published

OutboxInv ==
    /\ TypeOK
    /\ RowWhole
    /\ OutboxMatchesFacts
    /\ CompletedMeansDone
    /\ WorkerHoldsTask

LEMMA InitOutboxInv == Init => OutboxInv
  <1> SUFFICES ASSUME Init PROVE OutboxInv
    OBVIOUS
  <1>1. TypeOK
    BY InitTypeOK
  <1>2. RowWhole /\ OutboxMatchesFacts /\ CompletedMeansDone
    BY DEF Init, RowWhole, OutboxMatchesFacts, CompletedMeansDone, Synced, Topics
  <1>3. WorkerHoldsTask
    BY DEF Init, WorkerHoldsTask, IdleWorker
  <1>4. QED BY <1>1, <1>2, <1>3 DEF OutboxInv

LEMMA OutboxFrame ==
    ASSUME OutboxInv, TypeOK',
           UNCHANGED <<orderState, syncState, awardRow, taskState, published, worker>>
    PROVE  OutboxInv'
  BY DEF OutboxInv, RowWhole, OutboxMatchesFacts, CompletedMeansDone, WorkerHoldsTask, Synced

LEMMA DrawOutboxInv ==
    ASSUME OutboxInv, TypeOK', NEW r \in Requests, Draw(r)
    PROVE  OutboxInv'
  <1> USE DEF OutboxInv
  <1>1. CASE UNCHANGED <<orderState, syncState, awardRow, taskState, published, worker>>
    BY <1>1, OutboxFrame
  <1>2. CASE SaveLite(r)
    <2> DEFINE o == req[r].order
    <2>1. o \in Orders
      BY <1>2 DEF SaveLite, TypeOK, RequestTypeOK, OrderPC
    <2>2. /\ orderState[o] = "none"
          /\ orderState' = [orderState EXCEPT ![o] = "create"]
          /\ syncState' = [syncState EXCEPT ![o] = "create"]
          /\ taskState' = [taskState EXCEPT ![SaveOrderRecordTopic][o] = "create"]
          /\ UNCHANGED <<awardRow, published, worker>>
      BY <1>2 DEF SaveLite, InsertOrder, InsertTask
    <2> HIDE DEF o
    <2>3. syncState[o] = "none" /\ taskState[SaveOrderRecordTopic][o] = "none"
      BY <2>1, <2>2 DEF RowWhole, OutboxMatchesFacts
    <2>4. RowWhole' /\ OutboxMatchesFacts' /\ CompletedMeansDone'
      BY <2>1, <2>2, <2>3
      DEF TypeOK, RecordTypeOK, Topics, SaveOrderRecordTopic, SendAwardTopic,
          RowWhole, OutboxMatchesFacts, CompletedMeansDone, Synced
    <2>5. WorkerHoldsTask'
      BY <2>1, <2>2, <2>3
      DEF TypeOK, RecordTypeOK, WorkerTypeOK, WorkerRec, Topics, SaveOrderRecordTopic,
          SendAwardTopic, WorkerHoldsTask, Synced
    <2>6. QED BY <2>4, <2>5
  <1>3. CASE SaveAward(r)
    <2> DEFINE o == req[r].order
    <2>1. o \in Orders /\ req[r].award \in Awards
      BY <1>3 DEF SaveAward, TypeOK, RequestTypeOK, OrderPC, AwardPC
    <2>2. /\ awardRow[o] = Nil
          /\ awardRow' = [awardRow EXCEPT ![o] = req[r].award]
          /\ orderState' = [orderState EXCEPT ![o] = IF @ = "none" THEN @ ELSE "used"]
          /\ taskState' = [taskState EXCEPT ![SendAwardTopic][o] = "create"]
          /\ UNCHANGED <<syncState, published, worker>>
      BY <1>3 DEF SaveAward, AwardIsNew, InsertTask
    <2> HIDE DEF o
    <2>3. taskState[SendAwardTopic][o] = "none" /\ req[r].award # Nil
      BY <2>1, <2>2, NilAssumption DEF OutboxMatchesFacts
    <2>4. RowWhole' /\ OutboxMatchesFacts' /\ CompletedMeansDone'
      BY <2>1, <2>2, <2>3
      DEF TypeOK, RecordTypeOK, Topics, SaveOrderRecordTopic, SendAwardTopic,
          RowWhole, OutboxMatchesFacts, CompletedMeansDone, Synced
    <2>5. WorkerHoldsTask'
      BY <2>1, <2>2, <2>3
      DEF TypeOK, RecordTypeOK, WorkerTypeOK, WorkerRec, Topics, SaveOrderRecordTopic,
          SendAwardTopic, WorkerHoldsTask, Synced
    <2>6. QED BY <2>4, <2>5
  <1>4. QED
    BY <1>1, <1>2, <1>3, Draw(r)
    DEF Draw, CreateOrder, SaveUserAwardRecord, RejectDraw, QueryActivityAccount,
        QueryActivityAccountDay, QueryActivityAccountMonth, ReuseOrder, RefuseOrder, ReserveOrder,
        SaveLiteDuplicate, SaveLiteFail, Compensate, CompensateFail, PerformRaffle, PerformRaffleFail,
        SaveAwardDuplicate, SaveAwardFail, DeletePending, Crash, orderVars, outboxVars

(* A goroutine's own step keeps what the others hold. *)
LEMMA WorkerOutboxInv ==
    ASSUME OutboxInv, TypeOK', NEW w \in Workers, NEW rec \in WorkerRec,
           worker' = [worker EXCEPT ![w] = rec],
           UNCHANGED <<orderState, syncState, awardRow, taskState, published>>,
           rec.pc # "idle" => taskState[rec.topic][rec.order] # "none",
           rec.pc = "ok" => /\ rec.topic = SaveOrderRecordTopic => rec.order \in Synced
                            /\ rec.topic = SendAwardTopic => rec.order \in published
    PROVE  OutboxInv'
  <1>1. RowWhole' /\ OutboxMatchesFacts' /\ CompletedMeansDone'
    BY DEF OutboxInv, RowWhole, OutboxMatchesFacts, CompletedMeansDone, Synced
  <1>2. WorkerHoldsTask'
    BY DEF OutboxInv, WorkerHoldsTask, Synced, TypeOK, WorkerTypeOK
  <1>3. QED BY <1>1, <1>2 DEF OutboxInv

LEMMA DispatchOutboxInv ==
    ASSUME OutboxInv, TypeOK', NEW w \in Workers, DispatchSingleTask(w)
    PROVE  OutboxInv'
  <1> USE DEF OutboxInv, orderVars, outboxVars
  <1> DEFINE o == worker[w].order
             topic == worker[w].topic
  <1>0. /\ worker[w] \in WorkerRec /\ topic \in Topics
        /\ worker \in [Workers -> WorkerRec]
        /\ worker[w].pc # "idle" => o \in Orders /\ taskState[topic][o] # "none"
    BY DEF TypeOK, WorkerTypeOK, WorkerRec, WorkerHoldsTask
  <1>1. ASSUME NEW t \in Topics, NEW q \in Orders, QueryTask(w, t, q) PROVE OutboxInv'
    <2>1. [pc |-> "route", topic |-> t, order |-> q] \in WorkerRec
      BY <1>1 DEF WorkerRec
    <2>2. QED BY <1>1, <2>1, WorkerOutboxInv DEF QueryTask, Dispatchable
  <1>2. ASSUME NEW label \in {"ok", "err"}, WorkerGoto(w, label)
        PROVE  worker' = [worker EXCEPT ![w] = [pc |-> label, topic |-> topic, order |-> o]]
    <2>1. [worker[w] EXCEPT !.pc = label] = [pc |-> label, topic |-> topic, order |-> o]
      BY <1>0 DEF WorkerRec
    <2>2. worker' = [worker EXCEPT ![w] = [worker[w] EXCEPT !.pc = label]]
      BY <1>2 DEF WorkerGoto
    <2>3. QED BY <2>1, <2>2
  <1>3. IdleWorker \in WorkerRec /\ IdleWorker.pc = "idle"
    BY DEF IdleWorker, WorkerRec, Topics
  <1>4. CASE SaveOrderRecord(w)
    <2>1. o \in Orders /\ topic = SaveOrderRecordTopic /\ taskState[topic][o] # "none"
      BY <1>0, <1>4 DEF SaveOrderRecord
    <2>2. /\ syncState' = [syncState EXCEPT ![o] = "completed"]
          /\ UNCHANGED <<orderState, awardRow, taskState, published>>
      BY <1>4 DEF SaveOrderRecord
    <2>3. PICK label \in {"ok", "err"} :
             worker' = [worker EXCEPT ![w] = [pc |-> label, topic |-> topic, order |-> o]]
      BY <1>2, <1>4 DEF SaveOrderRecord
    <2> HIDE DEF o, topic
    <2>4. RowWhole' /\ OutboxMatchesFacts'
      BY <2>1, <2>2 DEF TypeOK, RecordTypeOK, RowWhole, OutboxMatchesFacts
    <2>5. Synced' = Synced \cup {o}
      BY <2>1, <2>2 DEF TypeOK, RecordTypeOK, Synced
    <2>6. CompletedMeansDone'
      BY <2>2, <2>5 DEF CompletedMeansDone
    <2>7. WorkerHoldsTask'
      BY <1>0, <2>1, <2>2, <2>3, <2>5 DEF WorkerHoldsTask, SaveOrderRecordTopic, SendAwardTopic
    <2>8. QED BY <2>4, <2>6, <2>7
  <1>5. CASE SaveOrderRecordAgain(w)
    <2>1. /\ worker' = [worker EXCEPT ![w] = [pc |-> "ok", topic |-> topic, order |-> o]]
          /\ topic = SaveOrderRecordTopic /\ o \in Orders /\ o \in Synced
          /\ taskState[topic][o] # "none"
      BY <1>0, <1>2, <1>5 DEF SaveOrderRecordAgain, AlreadySynced, Synced
    <2>2. [pc |-> "ok", topic |-> topic, order |-> o] \in WorkerRec
      BY <1>0, <2>1 DEF WorkerRec
    <2>3. QED
      BY <1>5, <2>1, <2>2, WorkerOutboxInv
      DEF SaveOrderRecordAgain, SaveOrderRecordTopic, SendAwardTopic
  <1>6. CASE SaveOrderRecordRefused(w) \/ RouteFail(w)
    <2>1. /\ worker' = [worker EXCEPT ![w] = [pc |-> "err", topic |-> topic, order |-> o]]
          /\ o \in Orders /\ taskState[topic][o] # "none"
      BY <1>0, <1>2, <1>6 DEF SaveOrderRecordRefused, RouteFail
    <2>2. [pc |-> "err", topic |-> topic, order |-> o] \in WorkerRec
      BY <1>0, <2>1 DEF WorkerRec
    <2>3. QED
      BY <1>6, <2>1, <2>2, WorkerOutboxInv DEF SaveOrderRecordRefused, RouteFail
  <1>7. CASE SendMessage(w)
    <2>1. o \in Orders /\ topic = SendAwardTopic /\ taskState[topic][o] # "none"
      BY <1>0, <1>7 DEF SendMessage
    <2>2. /\ published' = published \cup {o}
          /\ UNCHANGED <<orderState, syncState, awardRow, taskState>>
      BY <1>7 DEF SendMessage
    <2>3. PICK label \in {"ok", "err"} :
             worker' = [worker EXCEPT ![w] = [pc |-> label, topic |-> topic, order |-> o]]
      BY <1>2, <1>7 DEF SendMessage
    <2> HIDE DEF o, topic
    <2>4. RowWhole' /\ OutboxMatchesFacts' /\ CompletedMeansDone'
      BY <2>2 DEF RowWhole, OutboxMatchesFacts, CompletedMeansDone, Synced
    <2>5. WorkerHoldsTask'
      BY <1>0, <2>1, <2>2, <2>3
      DEF WorkerHoldsTask, Synced, SaveOrderRecordTopic, SendAwardTopic
    <2>6. QED BY <2>4, <2>5
  <1>8. CASE MarkTask(w)
    <2>1. /\ o \in Orders /\ taskState[topic][o] # "none"
          /\ worker[w].pc = "ok" => /\ topic = SaveOrderRecordTopic => o \in Synced
                                    /\ topic = SendAwardTopic => o \in published
      BY <1>0, <1>8 DEF MarkTask, WorkerHoldsTask
    <2>2. /\ taskState' = [taskState EXCEPT ![topic][o] = StateAfter(worker[w].pc)]
          /\ worker' = [worker EXCEPT ![w] = IdleWorker]
          /\ UNCHANGED <<orderState, syncState, awardRow, published>>
          /\ StateAfter(worker[w].pc) \in {"completed", "fail"}
          /\ StateAfter(worker[w].pc) = "completed" => worker[w].pc = "ok"
      BY <1>8 DEF MarkTask, StateAfter
    <2>3. taskState \in [Topics -> [Orders -> {"none", "create", "fail", "completed"}]]
      BY DEF TypeOK, RecordTypeOK
    <2> HIDE DEF o, topic
    <2>4. \A t \in Topics, q \in Orders :
             taskState'[t][q] = IF t = topic /\ q = o THEN StateAfter(worker[w].pc)
                                ELSE taskState[t][q]
      BY <1>0, <2>1, <2>2, <2>3
    <2>5. RowWhole' /\ OutboxMatchesFacts'
      BY <2>1, <2>2, <2>4 DEF RowWhole, OutboxMatchesFacts, Topics
    <2>6. CompletedMeansDone'
      BY <2>1, <2>2, <2>4 DEF CompletedMeansDone, Synced, Topics
    <2>7. WorkerHoldsTask'
      BY <1>0, <1>3, <2>1, <2>2, <2>4
      DEF WorkerHoldsTask, Synced, TypeOK, WorkerTypeOK, WorkerRec
    <2>8. QED BY <2>5, <2>6, <2>7
  <1>9. CASE MarkTaskFail(w) /\ worker[w].pc = "ok" /\ WorkerGoto(w, "err")
    <2>1. /\ worker' = [worker EXCEPT ![w] = [pc |-> "err", topic |-> topic, order |-> o]]
          /\ o \in Orders /\ taskState[topic][o] # "none"
      BY <1>0, <1>2, <1>9
    <2>2. [pc |-> "err", topic |-> topic, order |-> o] \in WorkerRec
      BY <1>0, <2>1 DEF WorkerRec
    <2>3. QED BY <1>9, <2>1, <2>2, WorkerOutboxInv DEF MarkTaskFail
  <1>10. CASE (MarkTaskFail(w) \/ WorkerCrash(w)) /\ worker' = [worker EXCEPT ![w] = IdleWorker]
    BY <1>3, <1>10, WorkerOutboxInv DEF MarkTaskFail, WorkerCrash
  <1>11. MarkTaskFail(w) => \/ worker[w].pc = "ok" /\ WorkerGoto(w, "err")
                            \/ worker' = [worker EXCEPT ![w] = IdleWorker]
    BY DEF MarkTaskFail
  <1>12. WorkerCrash(w) => worker' = [worker EXCEPT ![w] = IdleWorker]
    BY DEF WorkerCrash
  <1>13. QED
    BY <1>1, <1>4, <1>5, <1>6, <1>7, <1>8, <1>9, <1>10, <1>11, <1>12, DispatchSingleTask(w)
    DEF DispatchSingleTask, RouteTaskByTopic

LEMMA NextOutboxInv == OutboxInv /\ [Next]_vars => OutboxInv'
  <1> SUFFICES ASSUME OutboxInv, [Next]_vars PROVE OutboxInv'
    OBVIOUS
  <1>0. TypeOK'
    BY NextTypeOK DEF OutboxInv
  <1>1. ASSUME NEW r \in Requests, Draw(r) PROVE OutboxInv'
    BY <1>0, <1>1, DrawOutboxInv
  <1>2. ASSUME NEW w \in Workers, DispatchSingleTask(w) PROVE OutboxInv'
    BY <1>0, <1>2, DispatchOutboxInv
  <1>3. CASE UNCHANGED <<orderState, syncState, awardRow, taskState, published, worker>>
    BY <1>0, <1>3, OutboxFrame
  <1>4. (\E b \in Recharges, t \in Days : SaveOrder(b, t)) \/ LoadAccount \/ Midnight \/ Expire
          \/ UNCHANGED vars
          => UNCHANGED <<orderState, syncState, awardRow, taskState, published, worker>>
    BY DEF SaveOrder, LoadAccount, LoadStart, LoadPeriodRow, LoadSnapshot, LoadSurplusKey,
           LoadFail, Midnight, Expire, ExpireSnapshot, ExpireSurplus, ExpirePending,
           vars, orderVars, outboxVars
  <1>5. QED BY <1>1, <1>2, <1>3, <1>4 DEF Next

(* OutboxInv holds in every reachable state. *)
THEOREM OutboxInductive == Spec => []OutboxInv
  BY InitOutboxInv, NextOutboxInv, PTL DEF Spec

(* The order rows and awards have exactly the tasks that announce them, *)
(* whatever fails.                                                      *)
THEOREM OutboxCorrect == Spec => []OutboxMatchesFacts
  <1>1. OutboxInv => OutboxMatchesFacts
    BY DEF OutboxInv
  <1>2. QED BY <1>1, OutboxInductive, PTL

(* No task is completed before its effect, however many goroutines dispatch *)
(* it.                                                                      *)
THEOREM CompletedCorrect == Spec => []CompletedMeansDone
  <1>1. OutboxInv => CompletedMeansDone
    BY DEF OutboxInv
  <1>2. QED BY <1>1, OutboxInductive, PTL

(* What RecordsAreFinal says of one step. *)
FinalStep ==
    \A o \in Orders :
       /\ awardRow[o] # Nil => awardRow'[o] = awardRow[o]
       /\ orderState[o] = "used" => orderState'[o] = "used"
       /\ o \in Synced => o \in Synced'

LEMMA NextFinal == OutboxInv /\ [Next]_vars => FinalStep
  <1> SUFFICES ASSUME OutboxInv, [Next]_vars PROVE FinalStep
    OBVIOUS
  <1> USE DEF orderVars, outboxVars
  <1>1. CASE UNCHANGED <<orderState, syncState, awardRow>>
    BY <1>1 DEF FinalStep, Synced
  <1>2. ASSUME NEW r \in Requests, SaveLite(r) PROVE FinalStep
    <2>1. req[r].order \in Orders
      BY <1>2 DEF SaveLite, OutboxInv, TypeOK, RequestTypeOK, OrderPC
    <2>2. orderState[req[r].order] = "none" /\ syncState[req[r].order] = "none"
      BY <1>2, <2>1 DEF SaveLite, InsertOrder, OutboxInv, RowWhole
    <2>3. QED
      BY <1>2, <2>1, <2>2
      DEF SaveLite, InsertOrder, FinalStep, Synced, OutboxInv, TypeOK, RecordTypeOK
  <1>3. ASSUME NEW r \in Requests, SaveAward(r) PROVE FinalStep
    BY <1>3 DEF SaveAward, AwardIsNew, FinalStep, Synced, OutboxInv, TypeOK, RecordTypeOK
  <1>4. ASSUME NEW w \in Workers, SaveOrderRecord(w) PROVE FinalStep
    BY <1>4 DEF SaveOrderRecord, FinalStep, Synced, OutboxInv, TypeOK, RecordTypeOK
  <1>5. ASSUME NEW r \in Requests, Draw(r) PROVE FinalStep
    BY <1>1, <1>2, <1>3, <1>5
    DEF Draw, CreateOrder, SaveUserAwardRecord, RejectDraw, QueryActivityAccount,
        QueryActivityAccountDay, QueryActivityAccountMonth, ReuseOrder, RefuseOrder, ReserveOrder,
        SaveLiteDuplicate, SaveLiteFail, Compensate, CompensateFail, PerformRaffle, PerformRaffleFail,
        SaveAwardDuplicate, SaveAwardFail, DeletePending, Crash
  <1>6. ASSUME NEW w \in Workers, DispatchSingleTask(w) PROVE FinalStep
    BY <1>1, <1>4, <1>6
    DEF DispatchSingleTask, RouteTaskByTopic, QueryTask, SaveOrderRecordAgain,
        SaveOrderRecordRefused, SendMessage, RouteFail, MarkTask, MarkTaskFail, WorkerCrash
  <1>7. (\E b \in Recharges, t \in Days : SaveOrder(b, t)) \/ LoadAccount \/ Midnight \/ Expire
          \/ UNCHANGED vars
          => UNCHANGED <<orderState, syncState, awardRow>>
    BY DEF SaveOrder, LoadAccount, LoadStart, LoadPeriodRow, LoadSnapshot, LoadSurplusKey,
           LoadFail, Midnight, Expire, ExpireSnapshot, ExpireSurplus, ExpirePending, vars
  <1>8. QED BY <1>1, <1>5, <1>6, <1>7 DEF Next

(* No step replaces a recorded award, reopens a used order or takes back a *)
(* synced one: the unique index, the conditional insert and the single     *)
(* direction of the state updates suffice, whatever fails.                 *)
THEOREM RecordsFinal == Spec => RecordsAreFinal
  BY OutboxInductive, NextFinal, PTL DEF Spec, RecordsAreFinal, FinalStep
=============================================================================
