---------------------------- MODULE RebateProofs ----------------------------
(***************************************************************************)
(* Theorems about Rebate, for any number of calls, instances, dates and     *)
(* configurations and any faults.                                          *)
(***************************************************************************)
EXTENDS Rebate, SequenceTheorems, WellFoundedInduction, TLAPS

(* The records of calls and consumers. *)
CallRec == [pc : {"start", "save", "publish", "done", "failed"},
            day : SignDays, list : SUBSET ConfigIds]
InstRec == [pc : {"down", "idle", "handle", "create", "ack"},
            msg : Message \cup {NoMsg}, missing : SUBSET Rows]

Waiting(i) == inst[i].pc \in {"down", "idle"}

-----------------------------------------------------------------------------
(* The order of the configurations *)

(* Every set of configurations has one that is handled first. *)
LEMMA FirstExists ==
    ASSUME NEW S \in SUBSET Nat, S # {}
    PROVE  \E x \in S : \A y \in S : x <= y
<1>1. \E x \in S : \A y \in S : <<y, x>> \notin OpToRel(<, Nat)
      BY NatLessThanWellFounded, WFMin
<1>2. PICK x \in S : \A y \in S : <<y, x>> \notin OpToRel(<, Nat)
      BY <1>1
<1>3. \A y \in S : ~(y < x)
      BY <1>2 DEF OpToRel
<1>4. QED BY <1>3

-----------------------------------------------------------------------------
(* The broker: messages only ever move *)

(* What a message queue gives and takes are messages. *)
LEMMA QueueType ==
    ASSUME queue \in Seq(Message), NEW m \in Message
    PROVE  /\ Append(queue, m) \in Seq(Message)
           /\ Requeue(queue, m) \in Seq(Message)
           /\ queue # <<>> => Head(queue) \in Message /\ Tail(queue) \in Seq(Message)
<1>1. <<m>> \in Seq(Message)
      OBVIOUS
<1>2. QED BY <1>1, HeadTailProperties DEF Requeue

-----------------------------------------------------------------------------
(* Type correctness *)

(* A consumer that ends a delivery, with whatever error. *)
LEMMA EndWithStep ==
    ASSUME RebateTypeOK, NEW k \in Instances, ~Waiting(k), NEW err, EndWith(k, err)
    PROVE  \/ /\ err = "duplicate"
              /\ inst' = [inst EXCEPT ![k] = [inst[k] EXCEPT !.pc = "ack", !.missing = {}]]
              /\ queue' = queue
           \/ /\ err # "duplicate"
              /\ inst' = [inst EXCEPT ![k] = IdleInst]
              /\ queue' = Requeue(queue, inst[k].msg)
BY DEF EndWith, AfterError, FreedInst

(* No call runs, every instance is down and all tables are empty at the start. *)
LEMMA RebateInitType == RebateInit => RebateTypeOK
<1> SUFFICES ASSUME RebateInit PROVE RebateTypeOK
    OBVIOUS
<1>1. IdleCall \in CallRec /\ DownInst \in InstRec
      BY SignDaysAssumption DEF IdleCall, CallRec, DownInst, InstRec
<1>2. call \in [SignCalls -> CallRec] /\ inst \in [Instances -> InstRec]
      BY <1>1 DEF RebateInit
<1>3. \A k \in Instances : inst[k].msg = NoMsg <=> inst[k].pc \in {"down", "idle"}
      BY DEF RebateInit, DownInst
<1>4. bound \in BOOLEAN
      BY DEF RebateInit
<1>5. credited \in [BizIds -> Nat] /\ queue \in Seq(Message)
      BY DEF RebateInit
<1>6. QED BY <1>2, <1>3, <1>4, <1>5 DEF RebateInit, RebateTypeOK, CallRec, InstRec

(* A biz_id is made of a configuration's type and a date. *)
LEMMA BizType ==
    ASSUME NEW i \in ConfigIds, NEW d \in SignDays
    PROVE  BizID(i, d) \in BizIds
<1>1. Configs[i] \in [type : RebateTypes, valid : BOOLEAN]
  <2> DEFINE S == [type : RebateTypes, valid : BOOLEAN]
  <2> HIDE DEF S
  <2>1. Configs \in Seq(S)
        BY ConfigsAssumption DEF S
  <2>2. Configs[i] \in S
        BY <2>1, ElementOfSeq DEF ConfigIds
  <2>3. QED BY <2>2 DEF S
<1>2. Configs[i].type \in RebateTypes
      BY <1>1
<1>3. QED BY <1>2 DEF BizID, BizIds

(* Every step of a call leaves records, messages and rows what they are. *)
LEMMA SignStepType ==
    ASSUME RebateTypeOK, NEW c \in SignCalls, SignStep(c)
    PROVE  RebateTypeOK'
<1> USE DEF RebateTypeOK
<1>1. call[c] \in CallRec
      BY DEF CallRec
<1>2. \A x \in CallRec : call' = [call EXCEPT ![c] = x] => call' \in [SignCalls -> CallRec]
      BY DEF CallRec
<1>3. UNCHANGED inst => \A k \in Instances : inst'[k].msg = NoMsg <=> inst'[k].pc \in {"down", "idle"}
      OBVIOUS
<1>4. ASSUME NEW pc \in {"start", "save", "publish", "done", "failed"}, CallGoto(c, pc)
      PROVE  call' \in [SignCalls -> CallRec]
      BY <1>1, <1>4 DEF CallGoto, CallRec
<1>5. ASSUME NEW d \in SignDays, QueryConfig(c, d) PROVE RebateTypeOK'
  <2>1. call' \in [SignCalls -> CallRec]
    <3>1. CASE CallGoto(c, "failed")
          BY <1>4, <3>1
    <3>2. CASE call' = [call EXCEPT ![c].day = d, ![c].list = open,
                                    ![c].pc = IF open = {} THEN "done" ELSE "save"]
          BY <1>1, <3>2 DEF CallRec
    <3>3. QED BY <1>5, <3>1, <3>2 DEF QueryConfig
  <2>2. QED BY <1>5, <1>3, <2>1 DEF QueryConfig, CallRec, brokerVars, ledgerRows
<1>6. CASE SaveUserRebateOrder(c)
  <2>1. call' \in [SignCalls -> CallRec]
        BY <1>4, <1>6 DEF SaveUserRebateOrder, SaveFailed
  <2>2. Inserted(c) \subseteq BizIds
        BY <1>1, BizType DEF Inserted, OrderBiz, CallRec
  <2>3. rebateOrder' \subseteq BizIds
        BY <1>6, <2>2 DEF SaveUserRebateOrder
  <2>4. QED BY <1>6, <1>3, <2>1, <2>3 DEF SaveUserRebateOrder, CallRec, brokerVars, ledgerRows
<1>7. CASE PublishSendRebate(c)
  <2>1. PICK i \in call[c].list :
           /\ \/ queue' = IF Routed THEN Append(queue, [biz |-> OrderBiz(c, i), config |-> i])
                         ELSE queue
              \/ UNCHANGED queue
           /\ call' = [call EXCEPT ![c].list = @ \ {i},
                                   ![c].pc = IF call[c].list = {i} THEN "done" ELSE "publish"]
        BY <1>7 DEF PublishSendRebate
  <2>2. [biz |-> OrderBiz(c, i), config |-> i] \in Message
        BY <1>1, BizType DEF OrderBiz, CallRec, Message
  <2>3. queue' \in Seq(Message)
        BY <2>1, <2>2, QueueType
  <2>4. call' \in [SignCalls -> CallRec]
        BY <1>1, <2>1 DEF CallRec
  <2>5. QED BY <1>7, <1>3, <2>3, <2>4 DEF PublishSendRebate, CallRec, ledgerRows
<1>8. CASE CallCrash(c)
  <2>1. call' \in [SignCalls -> CallRec]
        BY <1>4, <1>8 DEF CallCrash
  <2>2. QED BY <1>8, <1>3, <2>1 DEF CallCrash, CallRec, brokerVars, ledgerRows
<1>9. QED BY <1>5, <1>6, <1>7, <1>8 DEF SignStep

(* How a step of a consumer changes its record and the queue. *)
LEMMA ConsumerShape ==
    ASSUME RebateTypeOK, NEW k \in Instances, ConsumerStep(k)
    PROVE  /\ inst' = [inst EXCEPT ![k] = inst'[k]]
           /\ inst'[k] \in InstRec
           /\ inst'[k].msg = NoMsg <=> Waiting(k)'
           /\ \/ inst'[k].msg = inst[k].msg /\ queue' = queue
              \/ inst[k].pc = "ack" /\ inst'[k].msg = NoMsg /\ queue' = queue
              \/ inst'[k].msg = NoMsg /\ ~Waiting(k) /\ queue' = Requeue(queue, inst[k].msg)
              \/ /\ queue # <<>> /\ queue' = Tail(queue)
                 /\ inst'[k].msg = Head(queue) /\ inst'[k].pc = "handle"
<1> USE DEF InstRec, Waiting
<1>1. inst[k] \in InstRec /\ (inst[k].msg = NoMsg <=> Waiting(k)) /\ inst \in [Instances -> InstRec]
      BY DEF RebateTypeOK
<1>2. IdleInst \in InstRec /\ DownInst \in InstRec /\ IdleInst.msg = NoMsg /\ DownInst.msg = NoMsg
      /\ IdleInst.pc = "idle" /\ DownInst.pc = "down"
      BY DEF IdleInst, DownInst
<1>3. CASE StartConsumer(k)
      BY <1>1, <1>3 DEF StartConsumer
<1>4. CASE Deliver(k)
  <2>1. Head(queue) \in Message /\ Head(queue) # NoMsg
        BY <1>4, HeadTailProperties, NoMsgAssumption DEF Deliver, RebateTypeOK
  <2>2. QED BY <1>1, <1>4, <2>1 DEF Deliver
<1>5. CASE HandleOther(k)
      BY <1>1, <1>5 DEF HandleOther, brokerVars
<1>6. ASSUME NEW err, EndWith(k, err), ~Waiting(k)
      PROVE  /\ inst' = [inst EXCEPT ![k] = inst'[k]]
             /\ inst'[k] \in InstRec
             /\ inst'[k].msg = NoMsg <=> Waiting(k)'
             /\ \/ inst'[k].msg = inst[k].msg /\ queue' = queue
                \/ inst'[k].msg = NoMsg /\ ~Waiting(k) /\ queue' = Requeue(queue, inst[k].msg)
  <2>1. CASE inst' = [inst EXCEPT ![k] = [inst[k] EXCEPT !.pc = "ack", !.missing = {}]]
             /\ queue' = queue
        BY <1>1, <1>6, <2>1
  <2>2. CASE inst' = [inst EXCEPT ![k] = IdleInst] /\ queue' = Requeue(queue, inst[k].msg)
        BY <1>1, <1>2, <1>6, <2>2
  <2>3. QED BY <1>6, <2>1, <2>2, EndWithStep
<1>7. CASE HandleFail(k)
      BY <1>6, <1>7 DEF HandleFail
<1>8. CASE SaveOrderBegin(k)
  <2>1. CASE EndWith(k, "duplicate")
        BY <1>6, <1>8, <2>1 DEF SaveOrderBegin
  <2>2. CASE inst' = [inst EXCEPT ![k].pc = "create", ![k].missing = Rows \ rows] /\ UNCHANGED queue
        BY <1>1, <1>8, <2>2 DEF SaveOrderBegin
  <2>3. QED BY <1>8, <2>1, <2>2 DEF SaveOrderBegin
<1>9. CASE SaveOrderEnd(k)
  <2>1. CASE inst' = [inst EXCEPT ![k].pc = "ack", ![k].missing = {}] /\ UNCHANGED queue
        BY <1>1, <1>9, <2>1 DEF SaveOrderEnd
  <2>2. CASE \E err : EndWith(k, err)
        BY <1>6, <1>9, <2>2 DEF SaveOrderEnd
  <2>3. QED BY <1>9, <2>1, <2>2 DEF SaveOrderEnd
<1>10. CASE Ack(k)
      BY <1>1, <1>2, <1>10 DEF Ack, FreedInst
<1>11. CASE InstCrash(k)
      BY <1>1, <1>2, <1>11 DEF InstCrash
<1>12. QED BY <1>3, <1>4, <1>5, <1>7, <1>8, <1>9, <1>10, <1>11 DEF ConsumerStep

(* A step of a consumer leaves records, messages and rows what they are. *)
LEMMA ConsumerStepType ==
    ASSUME RebateTypeOK, NEW k \in Instances, ConsumerStep(k)
    PROVE  RebateTypeOK'
<1>1. inst' \in [Instances -> InstRec]
      BY ConsumerShape DEF RebateTypeOK, InstRec
<1>2. \A j \in Instances : inst'[j].msg = NoMsg <=> inst'[j].pc \in {"down", "idle"}
      BY ConsumerShape DEF RebateTypeOK, InstRec, Waiting
<1>3. queue' \in Seq(Message)
  <2>1. inst[k].msg \in Message \cup {NoMsg} /\ (~Waiting(k) => inst[k].msg # NoMsg)
        BY DEF RebateTypeOK, Waiting
  <2>2. queue \in Seq(Message)
        BY DEF RebateTypeOK
  <2>3. CASE ~Waiting(k) /\ queue' = Requeue(queue, inst[k].msg)
        BY <2>1, <2>2, <2>3, QueueType
  <2>4. CASE queue # <<>> /\ queue' = Tail(queue)
        BY <2>2, <2>4, HeadTailProperties
  <2>5. QED BY <2>2, <2>3, <2>4, ConsumerShape
<1>4. /\ activityOrder' \subseteq BizIds /\ credited' \in [BizIds -> Nat] /\ rows' \subseteq Rows
      /\ settled' \subseteq Message
  <2>1. CASE UNCHANGED <<ledgerRows, settled>>
        BY <2>1 DEF RebateTypeOK, ledgerRows
  <2>2. CASE SaveOrderEnd(k)
    <3>1. inst[k].msg.biz \in BizIds
          BY <2>2 DEF SaveOrderEnd, RebateTypeOK, Message
    <3>2. QED BY <2>2, <3>1 DEF SaveOrderEnd, RebateTypeOK, ledgerRows
  <2>3. CASE Ack(k)
        BY <2>3 DEF Ack, RebateTypeOK, ledgerRows
  <2>4. QED BY <2>1, <2>2, <2>3
            DEF ConsumerStep, StartConsumer, Deliver, HandleOther, HandleFail, SaveOrderBegin,
                InstCrash, brokerVars, ledgerRows
<1>5. bound' \in BOOLEAN
      BY DEF RebateTypeOK, ConsumerStep, StartConsumer, Deliver, HandleOther, HandleFail,
             SaveOrderBegin, SaveOrderEnd, Ack, InstCrash, brokerVars
<1>6. UNCHANGED <<open, rebateOrder, call>>
      BY DEF ConsumerStep, StartConsumer, Deliver, HandleOther, HandleFail,
             SaveOrderBegin, SaveOrderEnd, Ack, InstCrash
<1>7. QED BY <1>1, <1>2, <1>3, <1>4, <1>5, <1>6 DEF RebateTypeOK, InstRec

(* An operator, a query of the account and a new period only touch the       *)
(* configurations that are open and the rows that exist.                    *)
OtherStep ==
    \/ \E n \in ConfigIds : OpenConfig(n)
    \/ \E r \in Rows : QueryCreatesRow(r) \/ NewPeriod(r)

(* What other use cases and the operator do touches configurations and rows only. *)
LEMMA OtherStepFrame ==
    ASSUME OtherStep, RebateTypeOK
    PROVE  /\ UNCHANGED <<rebateOrder, bound, queue, settled, activityOrder, credited, call, inst>>
           /\ open' \subseteq ConfigIds /\ rows' \subseteq Rows
BY DEF OtherStep, OpenConfig, QueryCreatesRow, NewPeriod, brokerVars, ledgerRows, RebateTypeOK

(* Every step of calls, broker and consumers keeps the type invariant. *)
LEMMA RebateStepType == RebateTypeOK /\ [RebateNext]_rebateVars => RebateTypeOK'
<1> SUFFICES ASSUME RebateTypeOK, [RebateNext]_rebateVars PROVE RebateTypeOK'
    OBVIOUS
<1>1. CASE OtherStep
      BY <1>1, OtherStepFrame DEF RebateTypeOK
<1>2. CASE UNCHANGED rebateVars
      BY <1>2 DEF rebateVars, RebateTypeOK
<1>3. QED BY <1>1, <1>2, SignStepType, ConsumerStepType DEF RebateNext, OtherStep

(* Requests, queue, consumers and rows stay well formed, and a consumer of   *)
(* RabbitMQServer holds one delivery exactly while it works on it.          *)
THEOREM RebateTypeCorrect == RebateSpec => []RebateTypeOK
BY RebateInitType, RebateStepType, PTL DEF RebateSpec

-----------------------------------------------------------------------------
(* The recharge: what the database, not the messages, makes exactly once *)

(* An open transaction is about a sku message whose order does not exist,    *)
(* and the unique index admits one per out_business_no.                     *)
CreatingIsNew ==
    \A k \in Instances : inst[k].pc = "create" =>
        /\ Grantable(inst[k].msg)
        /\ inst[k].msg.biz \notin activityOrder
        /\ \A j \in Instances \ {k} : inst[j].pc = "create" => inst[j].msg.biz # inst[k].msg.biz

CreditInv == RebateTypeOK /\ CreditedOnce /\ CreatingIsNew

(* A consumer enters an open transaction in SaveOrderBegin alone, and only a *)
(* commit in SaveOrderEnd changes orders and credits.                       *)
LEMMA ConsumerCredits ==
    ASSUME RebateTypeOK, NEW k \in Instances, ConsumerStep(k)
    PROVE  /\ inst'[k].pc = "create" =>
                 /\ ~AlreadyRecharged(inst[k].msg.biz) /\ ~InsertWaits(k)
                 /\ Grantable(inst[k].msg) /\ inst'[k].msg = inst[k].msg
                 /\ UNCHANGED <<activityOrder, credited>>
           /\ \/ UNCHANGED <<activityOrder, credited>>
              \/ /\ inst[k].pc = "create"
                 /\ activityOrder' = activityOrder \cup {inst[k].msg.biz}
                 /\ credited' = [credited EXCEPT ![inst[k].msg.biz] = @ + 1]
<1> USE DEF ledgerRows
<1>0. inst \in [Instances -> InstRec]
      BY DEF RebateTypeOK, InstRec
<1>1. \A err : ~Waiting(k) /\ EndWith(k, err) => inst'[k].pc # "create"
  <2> SUFFICES ASSUME NEW err, ~Waiting(k), EndWith(k, err) PROVE inst'[k].pc # "create"
      OBVIOUS
  <2>1. CASE inst' = [inst EXCEPT ![k] = [inst[k] EXCEPT !.pc = "ack", !.missing = {}]]
        BY <1>0, <2>1 DEF InstRec
  <2>2. CASE inst' = [inst EXCEPT ![k] = IdleInst]
        BY <1>0, <2>2 DEF IdleInst, DownInst
  <2>3. QED BY <2>1, <2>2, EndWithStep
<1>2. CASE StartConsumer(k) \/ Deliver(k) \/ HandleOther(k) \/ Ack(k) \/ InstCrash(k)
      BY <1>0, <1>2 DEF StartConsumer, Deliver, HandleOther, Ack, InstCrash, FreedInst, IdleInst,
                        DownInst, InstRec
<1>3. CASE HandleFail(k)
      BY <1>0, <1>1, <1>3 DEF HandleFail, Waiting
<1>4. CASE SaveOrderBegin(k)
      BY <1>0, <1>1, <1>4 DEF SaveOrderBegin, Waiting, InstRec
<1>5. CASE SaveOrderEnd(k)
      BY <1>0, <1>1, <1>5 DEF SaveOrderEnd, Waiting, InstRec
<1>6. QED BY <1>2, <1>3, <1>4, <1>5 DEF ConsumerStep

(* A consumer credits only an order it inserted in the same transaction. *)
LEMMA ConsumerKeepsCredits ==
    ASSUME CreditInv, NEW k \in Instances, ConsumerStep(k)
    PROVE  CreditedOnce' /\ CreatingIsNew'
<1>1. RebateTypeOK /\ CreditedOnce /\ CreatingIsNew
      BY DEF CreditInv
<1>2. \A j \in Instances : j # k => inst'[j] = inst[j]
      BY <1>1, ConsumerShape DEF RebateTypeOK
<1>3. CreditedOnce'
  <2>1. CASE UNCHANGED <<activityOrder, credited>>
        BY <1>1, <2>1 DEF CreditedOnce
  <2>2. CASE /\ inst[k].pc = "create"
             /\ activityOrder' = activityOrder \cup {inst[k].msg.biz}
             /\ credited' = [credited EXCEPT ![inst[k].msg.biz] = @ + 1]
        BY <1>1, <2>2 DEF CreditedOnce, CreatingIsNew, RebateTypeOK
  <2>3. QED BY <1>1, <2>1, <2>2, ConsumerCredits
<1>4. CreatingIsNew'
  <2> SUFFICES ASSUME NEW j \in Instances, inst'[j].pc = "create"
               PROVE  /\ Grantable(inst'[j].msg)
                      /\ inst'[j].msg.biz \notin activityOrder'
                      /\ \A i \in Instances \ {j} :
                            inst'[i].pc = "create" => inst'[i].msg.biz # inst'[j].msg.biz
      BY DEF CreatingIsNew, Grantable
  <2>1. CASE j = k
        BY <1>1, <1>2, <2>1, ConsumerCredits DEF CreatingIsNew, AlreadyRecharged, InsertWaits
  <2>2. CASE j # k
    <3>1. inst'[j] = inst[j]
          BY <1>2, <2>2
    <3>2. inst'[j].msg.biz \notin activityOrder'
          BY <1>1, <2>2, <3>1, ConsumerCredits DEF CreatingIsNew
    <3>3. QED BY <1>1, <1>2, <2>2, <3>1, <3>2, ConsumerCredits DEF CreatingIsNew, InsertWaits
  <2>3. QED BY <2>1, <2>2
<1>5. QED BY <1>3, <1>4

(* Calls, operators and queries leave orders, credits and consumers alone. *)
LEMMA OthersKeepConsumers ==
    ASSUME RebateTypeOK, (\E c \in SignCalls : SignStep(c)) \/ OtherStep \/ UNCHANGED rebateVars
    PROVE  UNCHANGED <<activityOrder, credited, settled, inst>>
<1>1. CASE \E c \in SignCalls : SignStep(c)
      BY <1>1 DEF SignStep, QueryConfig, SaveUserRebateOrder, PublishSendRebate, CallCrash,
                  brokerVars, ledgerRows
<1>2. QED BY <1>1, OtherStepFrame DEF rebateVars

(* The credit invariant holds in every reachable state. *)
LEMMA CreditInductive == RebateSpec => []CreditInv
<1>1. RebateInit => CreditInv
  <2> SUFFICES ASSUME RebateInit PROVE CreditInv
      OBVIOUS
  <2>1. CreditedOnce /\ CreatingIsNew
        BY DEF RebateInit, CreditedOnce, CreatingIsNew, DownInst
  <2>2. QED BY <2>1, RebateInitType DEF CreditInv
<1>2. CreditInv /\ [RebateNext]_rebateVars => CreditInv'
  <2> SUFFICES ASSUME CreditInv, [RebateNext]_rebateVars PROVE CreditInv'
      OBVIOUS
  <2>1. RebateTypeOK'
        BY RebateStepType DEF CreditInv
  <2>2. CASE \E k \in Instances : ConsumerStep(k)
        BY <2>1, <2>2, ConsumerKeepsCredits DEF CreditInv
  <2>3. CASE UNCHANGED <<activityOrder, credited, settled, inst>>
        BY <2>1, <2>3 DEF CreditInv, CreditedOnce, CreatingIsNew, Grantable
  <2>4. QED BY <2>2, <2>3, OthersKeepConsumers DEF RebateNext, OtherStep, CreditInv
<1>3. QED BY <1>1, <1>2, PTL DEF RebateSpec

(* SaveOrder: however often a message is delivered, and however consumers    *)
(* crash or race, the account is credited once per out_business_no, exactly  *)
(* when its order exists.                                                   *)
THEOREM CreditedExactlyOnce == RebateSpec => []CreditedOnce
<1>1. CreditInv => CreditedOnce
      BY DEF CreditInv
<1>2. QED BY <1>1, CreditInductive, PTL

-----------------------------------------------------------------------------
(* The acknowledgement: nothing but a recharge that is in the database *)

(* A consumer about to acknowledge a sku message knows its order exists. *)
AckIsCredited ==
    \A k \in Instances :
        inst[k].pc = "ack" /\ Grantable(inst[k].msg) => inst[k].msg.biz \in activityOrder

SettleInv == CreditInv /\ AckIsCredited /\ SettledMeansCredited

(* With gap locks a consumer gets to its acknowledgement by an unhandled     *)
(* message, by the duplicate of an order that exists, or by a commit.       *)
LEMMA AckReached ==
    ASSUME GapLocks, RebateTypeOK, NEW k \in Instances, ConsumerStep(k), inst'[k].pc = "ack"
    PROVE  /\ inst'[k].msg = inst[k].msg
           /\ Grantable(inst[k].msg) =>
                 \/ inst[k].pc = "ack"
                 \/ AlreadyRecharged(inst[k].msg.biz)
                 \/ inst[k].msg.biz \in activityOrder'
<1>0. inst \in [Instances -> InstRec]
      BY DEF RebateTypeOK, InstRec
<1>1. ASSUME NEW err, err # "duplicate", ~Waiting(k), EndWith(k, err) PROVE FALSE
  <2>1. inst' = [inst EXCEPT ![k] = IdleInst]
        BY <1>1, EndWithStep
  <2>2. QED BY <1>0, <2>1 DEF IdleInst, DownInst
<1>2. CASE StartConsumer(k) \/ Deliver(k) \/ HandleOther(k) \/ Ack(k) \/ InstCrash(k)
      BY <1>0, <1>2 DEF StartConsumer, Deliver, HandleOther, Ack, InstCrash, FreedInst, IdleInst,
                        DownInst, InstRec
<1>3. CASE HandleFail(k)
      BY <1>1, <1>3 DEF HandleFail, Waiting
<1>4. CASE SaveOrderBegin(k)
  <2>1. CASE AlreadyRecharged(inst[k].msg.biz)
    <3>1. EndWith(k, "duplicate") /\ ~Waiting(k)
          BY <1>4, <2>1 DEF SaveOrderBegin, Waiting
    <3>2. inst' = [inst EXCEPT ![k] = [inst[k] EXCEPT !.pc = "ack", !.missing = {}]]
          BY <3>1, EndWithStep
    <3>3. QED BY <1>0, <2>1, <3>2 DEF InstRec
  <2>2. CASE ~AlreadyRecharged(inst[k].msg.biz)
        BY <1>0, <1>4, <2>2 DEF SaveOrderBegin, InstRec
  <2>3. QED BY <2>1, <2>2
<1>5. CASE SaveOrderEnd(k)
  <2>1. ~Waiting(k)
        BY <1>5 DEF SaveOrderEnd, Waiting
  <2>2. CASE inst' = [inst EXCEPT ![k].pc = "ack", ![k].missing = {}]
             /\ activityOrder' = activityOrder \cup {inst[k].msg.biz}
        BY <1>0, <2>2 DEF InstRec
  <2>3. CASE EndWith(k, "unknown") \/ EndWith(k, "deadlock")
        BY <1>1, <2>1, <2>3
  <2>4. QED BY <1>5, <2>2, <2>3 DEF SaveOrderEnd
<1>6. QED BY <1>2, <1>3, <1>4, <1>5 DEF ConsumerStep

(* A consumer acknowledges only what it credited or found credited. *)
LEMMA ConsumerKeepsSettled ==
    ASSUME GapLocks, SettleInv, NEW k \in Instances, ConsumerStep(k)
    PROVE  AckIsCredited' /\ SettledMeansCredited'
<1>1. RebateTypeOK /\ AckIsCredited /\ SettledMeansCredited
      BY DEF SettleInv, CreditInv
<1>2. activityOrder \subseteq activityOrder'
      BY <1>1, ConsumerCredits
<1>3. \A j \in Instances : j # k => inst'[j] = inst[j]
      BY <1>1, ConsumerShape DEF RebateTypeOK
<1>4. AckIsCredited'
  <2> SUFFICES ASSUME NEW j \in Instances, inst'[j].pc = "ack", Grantable(inst'[j].msg)
               PROVE  inst'[j].msg.biz \in activityOrder'
      BY DEF AckIsCredited, Grantable
  <2>1. CASE j = k
        BY <1>1, <1>2, <2>1, AckReached DEF AckIsCredited, AlreadyRecharged
  <2>2. CASE j # k
        BY <1>1, <1>2, <1>3, <2>2 DEF AckIsCredited
  <2>3. QED BY <2>1, <2>2
<1>5. SettledMeansCredited'
  <2>1. settled' = settled \/ (inst[k].pc = "ack" /\ settled' = settled \cup {inst[k].msg})
        BY DEF ConsumerStep, StartConsumer, Deliver, HandleOther, HandleFail, SaveOrderBegin,
               SaveOrderEnd, Ack, InstCrash, brokerVars
  <2>2. QED BY <1>1, <1>2, <2>1 DEF SettledMeansCredited, AckIsCredited, Grantable
<1>6. QED BY <1>4, <1>5

(* RebateListener: with MySQL's gap locks no sku message is acknowledged     *)
(* before its recharge is committed, whatever fails, crashes or races.      *)
THEOREM SettledIsCredited ==
    ASSUME GapLocks
    PROVE  RebateSpec => []SettledMeansCredited
<1>1. RebateInit => AckIsCredited /\ SettledMeansCredited
      BY DEF RebateInit, AckIsCredited, SettledMeansCredited, DownInst
<1>2. SettleInv /\ CreditInv' /\ [RebateNext]_rebateVars => SettleInv'
  <2> SUFFICES ASSUME SettleInv, CreditInv', [RebateNext]_rebateVars PROVE SettleInv'
      OBVIOUS
  <2>1. CASE \E k \in Instances : ConsumerStep(k)
        BY <2>1, ConsumerKeepsSettled DEF SettleInv
  <2>2. CASE UNCHANGED <<activityOrder, credited, settled, inst>>
        BY <2>2 DEF SettleInv, AckIsCredited, SettledMeansCredited, Grantable
  <2>3. QED BY <2>1, <2>2, OthersKeepConsumers DEF RebateNext, OtherStep, SettleInv, CreditInv
<1>3. SettleInv => SettledMeansCredited
      BY DEF SettleInv
<1>4. CreditInv /\ AckIsCredited /\ SettledMeansCredited => SettleInv
      BY DEF SettleInv
<1>5. QED BY <1>1, <1>2, <1>3, <1>4, CreditInductive, PTL DEF RebateSpec

-----------------------------------------------------------------------------
(* The rebate order behind a recharge *)

(* No configuration of another type has a smaller id than one of a sku: the  *)
(* sku's order is not lost when an earlier insert is a duplicate.           *)
SkuFirst ==
    \A i, j \in ConfigIds : i < j /\ Configs[j].type = "sku" => Configs[i].type = "sku"

HasOrder(m) == Grantable(m) => m.biz \in rebateOrder

(* Every sku message on its way, and every one yet to be published, has its  *)
(* rebate order.                                                            *)
MessagesHaveOrders ==
    /\ \A i \in DOMAIN queue : HasOrder(queue[i])
    /\ \A k \in Instances : ~Waiting(k) => HasOrder(inst[k].msg)
    /\ \A c \in SignCalls : call[c].pc = "publish" =>
          \A i \in call[c].list : Configs[i].type = "sku" => OrderBiz(c, i) \in rebateOrder

OrderInv == CreditInv /\ RechargeHasRebateOrder /\ MessagesHaveOrders

(* SaveUserRebateOrder commits nothing but an order for every sku of the     *)
(* call, or finds it there: the first configuration of the call is a sku     *)
(* with the same biz_id, and it is either inserted or a duplicate.          *)
LEMMA SkusAreSaved ==
    ASSUME SkuFirst, RebateTypeOK, NEW c \in SignCalls,
           NEW i \in call[c].list, Configs[i].type = "sku"
    PROVE  OrderBiz(c, i) \in rebateOrder \cup Inserted(c)
<1>1. call[c].list \in SUBSET ConfigIds /\ ConfigIds \in SUBSET Nat
      BY ConfigsAssumption DEF RebateTypeOK, ConfigIds
<1>2. PICK x \in call[c].list : \A y \in call[c].list : x <= y
      BY <1>1, FirstExists
<1>3. HandledBefore(c, x) = {}
      BY <1>1, <1>2 DEF HandledBefore
<1>4. OrderBiz(c, x) = OrderBiz(c, i)
  <2>1. x \in Nat /\ i \in Nat /\ x <= i
        BY <1>1, <1>2
  <2>2. Configs[x].type = "sku"
        BY <1>1, <2>1, x = i \/ x < i DEF SkuFirst
  <2>3. QED BY <2>2 DEF OrderBiz, BizID
<1>5. CASE Duplicate(c, x)
      BY <1>3, <1>4, <1>5 DEF Duplicate
<1>6. CASE ~Duplicate(c, x)
      BY <1>3, <1>4, <1>6 DEF Inserted
<1>7. QED BY <1>5, <1>6

(* CreateOrder publishes no message before its rebate order is committed. *)
LEMMA SignStepKeepsOrders ==
    ASSUME SkuFirst, OrderInv, NEW c \in SignCalls, SignStep(c)
    PROVE  RechargeHasRebateOrder' /\ MessagesHaveOrders'
<1>1. /\ RebateTypeOK /\ RechargeHasRebateOrder /\ MessagesHaveOrders
      /\ call \in [SignCalls -> CallRec] /\ queue \in Seq(Message)
      BY DEF OrderInv, CreditInv, RebateTypeOK, CallRec
<1>2. UNCHANGED <<activityOrder, inst>>
      BY <1>1, OthersKeepConsumers
<1>3. CASE UNCHANGED <<rebateOrder, queue>> /\ \A d \in SignCalls : call'[d].pc = "publish" => call'[d] = call[d]
      BY <1>1, <1>2, <1>3
      DEF RechargeHasRebateOrder, MessagesHaveOrders, HasOrder, Grantable, OrderBiz, BizID, Waiting
<1>4. CASE SaveUserRebateOrder(c)
  <2>1. UNCHANGED queue /\ rebateOrder \subseteq rebateOrder'
        BY <1>4 DEF SaveUserRebateOrder, brokerVars
  <2>2. \A d \in SignCalls : /\ call'[d].day = call[d].day /\ call'[d].list = call[d].list
                             /\ d # c => call'[d] = call[d]
        BY <1>1, <1>4 DEF SaveUserRebateOrder, SaveFailed, CallGoto, CallRec
  <2>3. call'[c].pc = "publish" => rebateOrder' = rebateOrder \cup Inserted(c)
        BY <1>1, <1>4 DEF SaveUserRebateOrder, SaveFailed, CallGoto, CallRec
  <2>4. ASSUME NEW d \in SignCalls, call'[d].pc = "publish", NEW i \in call'[d].list,
               Configs[i].type = "sku"
        PROVE  BizID(i, call'[d].day) \in rebateOrder'
    <3>0. call'[d].day = call[d].day /\ call'[d].list = call[d].list
          BY <2>2
    <3>1. BizID(i, call'[d].day) = OrderBiz(d, i) /\ i \in call[d].list
          BY <3>0 DEF OrderBiz, BizID
    <3>2. CASE d = c
          BY <1>1, <2>3, <2>4, <3>1, <3>2, SkusAreSaved
    <3>3. CASE d # c
          BY <1>1, <2>1, <2>2, <2>4, <3>1, <3>3 DEF MessagesHaveOrders
    <3>4. QED BY <3>2, <3>3
  <2>5. QED BY <1>1, <1>2, <2>1, <2>4
            DEF RechargeHasRebateOrder, MessagesHaveOrders, HasOrder, Grantable, Waiting, OrderBiz, BizID
<1>5. CASE PublishSendRebate(c)
  <2>1. PICK i \in call[c].list :
           /\ \/ queue' = Append(queue, [biz |-> OrderBiz(c, i), config |-> i])
              \/ queue' = queue
           /\ call' = [call EXCEPT ![c].list = @ \ {i},
                                   ![c].pc = IF call[c].list = {i} THEN "done" ELSE "publish"]
        BY <1>5 DEF PublishSendRebate
  <2>2. /\ rebateOrder' = rebateOrder /\ call[c].pc = "publish"
        BY <1>5 DEF PublishSendRebate
  <2>3. HasOrder([biz |-> OrderBiz(c, i), config |-> i])
        BY <1>1, <2>2 DEF HasOrder, Grantable, MessagesHaveOrders
  <2>4. \A n \in DOMAIN queue' : HasOrder(queue'[n])
    <3>1. CASE queue' = Append(queue, [biz |-> OrderBiz(c, i), config |-> i])
      <4> DEFINE m == [biz |-> OrderBiz(c, i), config |-> i]
      <4>1. m \in Message
            BY <1>1, BizType DEF OrderBiz, CallRec, Message
      <4> HIDE DEF m
      <4>2. \A n \in DOMAIN queue' : queue'[n] = m \/ (n \in DOMAIN queue /\ queue'[n] = queue[n])
            BY <1>1, <3>1, <4>1, AppendProperties DEF m
      <4>3. QED BY <1>1, <2>3, <4>2 DEF MessagesHaveOrders, m
    <3>2. CASE queue' = queue
          BY <1>1, <3>2 DEF MessagesHaveOrders
    <3>3. QED BY <2>1, <3>1, <3>2
  <2>5. \A d \in SignCalls : /\ call'[d].day = call[d].day /\ call'[d].list \subseteq call[d].list
                             /\ call'[d].pc = "publish" => call[d].pc = "publish"
        BY <1>1, <2>1, <2>2 DEF CallRec
  <2>6. \A d \in SignCalls : call'[d].pc = "publish" =>
           \A n \in call'[d].list : Configs[n].type = "sku" => BizID(n, call'[d].day) \in rebateOrder'
        BY <1>1, <2>2, <2>5 DEF MessagesHaveOrders, OrderBiz, BizID
  <2>7. QED BY <1>1, <1>2, <2>2, <2>4, <2>6
            DEF RechargeHasRebateOrder, MessagesHaveOrders, HasOrder, Grantable, Waiting, OrderBiz, BizID
<1>6. CASE (\E d \in SignDays : QueryConfig(c, d)) \/ CallCrash(c)
  <2>1. UNCHANGED <<rebateOrder, queue>>
        BY <1>6 DEF QueryConfig, CallCrash, brokerVars
  <2>2. \A d \in SignCalls : call'[d].pc = "publish" => call'[d] = call[d]
    <3>1. CASE CallGoto(c, "failed")
          BY <1>1, <3>1 DEF CallGoto, CallRec
    <3>2. ASSUME NEW d \in SignDays,
                 call' = [call EXCEPT ![c].day = d, ![c].list = open,
                                      ![c].pc = IF open = {} THEN "done" ELSE "save"]
          PROVE  \A e \in SignCalls : call'[e].pc = "publish" => call'[e] = call[e]
          BY <1>1, <3>2 DEF CallRec
    <3>3. QED BY <1>6, <3>1, <3>2 DEF QueryConfig, CallCrash
  <2>3. QED BY <1>3, <2>1, <2>2
<1>7. QED BY <1>4, <1>5, <1>6 DEF SignStep

(* A consumer creates a recharge only from a message, which has its order. *)
LEMMA ConsumerKeepsOrders ==
    ASSUME OrderInv, NEW k \in Instances, ConsumerStep(k)
    PROVE  RechargeHasRebateOrder' /\ MessagesHaveOrders'
<1>1. /\ RebateTypeOK /\ RechargeHasRebateOrder /\ MessagesHaveOrders /\ CreatingIsNew
      /\ queue \in Seq(Message) /\ inst \in [Instances -> InstRec]
      /\ \A j \in Instances : inst[j].msg = NoMsg <=> Waiting(j)
      BY DEF OrderInv, CreditInv, RebateTypeOK, InstRec, Waiting
<1>2. UNCHANGED <<rebateOrder, call>>
      BY DEF ConsumerStep, StartConsumer, Deliver, HandleOther, HandleFail,
             SaveOrderBegin, SaveOrderEnd, Ack, InstCrash
<1>3. \A j \in Instances : j # k => inst'[j] = inst[j]
      BY <1>1, ConsumerShape
<1>4. RechargeHasRebateOrder'
      BY <1>1, <1>2, ConsumerCredits
      DEF RechargeHasRebateOrder, CreatingIsNew, MessagesHaveOrders, HasOrder, Waiting
<1>5. /\ \A n \in DOMAIN queue' : HasOrder(queue'[n])
      /\ ~Waiting(k)' => HasOrder(inst'[k].msg)
  <2>1. CASE (inst'[k].msg = inst[k].msg \/ inst'[k].msg = NoMsg) /\ queue' = queue
        BY <1>1, <2>1, ConsumerShape DEF MessagesHaveOrders
  <2>2. CASE inst'[k].msg = NoMsg /\ ~Waiting(k) /\ queue' = Requeue(queue, inst[k].msg)
    <3> DEFINE m == inst[k].msg
    <3>1. m \in Message
          BY <1>1, <2>2 DEF InstRec
    <3> HIDE DEF m
    <3>2. \A n \in DOMAIN queue' : queue'[n] = m \/ (n - 1 \in DOMAIN queue /\ queue'[n] = queue[n - 1])
      <4>1. queue' = <<m>> \o queue
            BY <2>2 DEF Requeue, m
      <4>2. QED BY <1>1, <3>1, <4>1
    <3>3. HasOrder(m)
          BY <1>1, <2>2 DEF MessagesHaveOrders, m
    <3>4. QED BY <1>1, <2>2, <3>2, <3>3, ConsumerShape DEF MessagesHaveOrders
  <2>3. CASE queue # <<>> /\ queue' = Tail(queue) /\ inst'[k].msg = Head(queue)
    <3>1. /\ 1 \in DOMAIN queue /\ Head(queue) = queue[1]
          /\ \A n \in DOMAIN queue' : n + 1 \in DOMAIN queue /\ queue'[n] = queue[n + 1]
          BY <1>1, <2>3
    <3>2. QED BY <1>1, <2>3, <3>1 DEF MessagesHaveOrders
  <2>4. QED BY <1>1, <2>1, <2>2, <2>3, ConsumerShape
<1>6. MessagesHaveOrders'
      BY <1>1, <1>2, <1>3, <1>5 DEF MessagesHaveOrders, HasOrder, Grantable, Waiting, OrderBiz, BizID
<1>7. QED BY <1>4, <1>6

(* SaveUserRebateOrder and RebateListener: when the ids of the sku           *)
(* configurations come first, no account is recharged by a rebate whose      *)
(* order was not saved, although order and message are written apart and a   *)
(* duplicate ends the transaction early.                                    *)
THEOREM RechargesHaveOrders ==
    ASSUME SkuFirst
    PROVE  RebateSpec => []RechargeHasRebateOrder
<1>1. RebateInit => RechargeHasRebateOrder /\ MessagesHaveOrders
      BY DEF RebateInit, RechargeHasRebateOrder, MessagesHaveOrders, DownInst, IdleCall, Waiting
<1>2. OrderInv /\ CreditInv' /\ [RebateNext]_rebateVars => OrderInv'
  <2> SUFFICES ASSUME OrderInv, CreditInv', [RebateNext]_rebateVars PROVE OrderInv'
      OBVIOUS
  <2>1. CASE \E k \in Instances : ConsumerStep(k)
        BY <2>1, ConsumerKeepsOrders DEF OrderInv
  <2>2. CASE \E c \in SignCalls : SignStep(c)
        BY <2>2, SignStepKeepsOrders DEF OrderInv
  <2>3. CASE UNCHANGED <<rebateOrder, queue, activityOrder, call, inst>>
        BY <2>3 DEF OrderInv, RechargeHasRebateOrder, MessagesHaveOrders, HasOrder, Grantable, Waiting,
                    OrderBiz, BizID
  <2>4. QED BY <2>1, <2>2, <2>3, OtherStepFrame
            DEF RebateNext, OtherStep, OrderInv, CreditInv, rebateVars
<1>3. OrderInv => RechargeHasRebateOrder
      BY DEF OrderInv
<1>4. CreditInv /\ RechargeHasRebateOrder /\ MessagesHaveOrders => OrderInv
      BY DEF OrderInv
<1>5. QED BY <1>1, <1>2, <1>3, <1>4, CreditInductive, PTL DEF RebateSpec

=============================================================================
