------------------------------- MODULE Rebate -------------------------------
(***************************************************************************)
(* The rebate for a daily sign-in, end to end: CalendarSignRebate saves one *)
(* rebate order per open configuration and publishes a message for each;   *)
(* RabbitMQ queues them; the consumer of some service instance recharges   *)
(* the user's draws.  One user and one activity are followed: all keys and *)
(* rows are the user's.                                                    *)
(***************************************************************************)
EXTENDS Naturals, Sequences, FiniteSets

CONSTANTS
    SignCalls,       \* calls of CalendarSignRebate, each served once
    Instances,       \* service instances, each with a consumer of the queue
    SignDays,        \* dates on which a call may run
    Configs,         \* rows of daily_behavior_rebate for "sign", by id
    SendRebate,      \* the configured topic: conf.RabbitMQ.topic.send_rebate
    GapLocks,        \* MySQL's REPEATABLE READ: an UPDATE of a missing row locks its place
    RebateFaults,    \* what may go wrong
    NoMsg            \* no message

RebateFaultKinds ==
    {"queryFail",    \* the configurations cannot be read
     "saveFail",     \* the transaction of the rebate orders is rolled back
     "ackLost",      \* a transaction commits but its caller gets an error
     "publishLost",  \* a publish fails, or is taken and lost (there are no confirms)
     "callCrash",    \* the process serving a call dies
     "handleFail",   \* a read of the listener fails, or it panics on a missing sku
     "instCrash",    \* a consuming instance dies or loses its channel
     "configChange"} \* an operator opens a configuration

RebateTypes == {"sku", "integral"}

(* Each configuration has a type; its value may not parse as a sku. *)
ASSUME ConfigsAssumption == Configs \in Seq([type : RebateTypes, valid : BOOLEAN])
ASSUME SignDaysAssumption == SignDays # {}
ASSUME RebateFaultsAssumption == RebateFaults \subseteq RebateFaultKinds
ASSUME GapLocksAssumption == GapLocks \in BOOLEAN

ActivityAwardSendTopic == "activity_award_send_topic"

VARIABLES
    open,            \* configurations whose state is "open"
    rebateOrder,     \* biz_id of the rows of user_behavior_rebate_order
    bound,           \* the consumers' queue exists and is bound (both are durable)
    queue,           \* messages waiting, oldest first
    settled,         \* messages acknowledged (history)
    activityOrder,   \* out_business_no of the rows of raffle_activity_order
    credited,        \* how often the account was credited per out_business_no (history)
    rows,            \* whether the account row and the rows of its current periods exist
    call,            \* the calls: pc, date, configurations read and not yet published
    inst             \* the consumers: pc, unacknowledged message, rows found missing

brokerVars == <<bound, queue, settled>>
ledgerRows == <<activityOrder, credited, rows>>
rebateVars == <<open, rebateOrder, bound, queue, settled, activityOrder, credited, rows,
                call, inst>>

Rows == {"account", "period"}
ConfigIds == DOMAIN Configs
BizIds == RebateTypes \X SignDays

(* The user, the type and the date: the configuration is not part of it. *)
BizID(c, d) == <<Configs[c].type, d>>

Message == [biz : BizIds, config : ConfigIds]

ASSUME NoMsgAssumption == NoMsg \notin Message

IdleCall == [pc |-> "start", day |-> CHOOSE d \in SignDays : TRUE, list |-> {}]
DownInst == [pc |-> "down", msg |-> NoMsg, missing |-> {}]

(* The configurations, requests, messages and rows are what they should be;  *)
(* a consumer holds one unacknowledged message at most (prefetch 1) and does *)
(* so exactly while it works on it.                                          *)
RebateTypeOK ==
    /\ open \subseteq ConfigIds
    /\ rebateOrder \subseteq BizIds
    /\ bound \in BOOLEAN
    /\ queue \in Seq(Message)
    /\ settled \subseteq Message
    /\ activityOrder \subseteq BizIds
    /\ credited \in [BizIds -> Nat]
    /\ rows \subseteq Rows
    /\ call \in [SignCalls -> [pc : {"start", "save", "publish", "done", "failed"},
                               day : SignDays, list : SUBSET ConfigIds]]
    /\ inst \in [Instances -> [pc : {"down", "idle", "handle", "create", "ack"},
                               msg : Message \cup {NoMsg}, missing : SUBSET Rows]]
    /\ \A k \in Instances : inst[k].msg = NoMsg <=> inst[k].pc \in {"down", "idle"}

RebateInit ==
    /\ open \in SUBSET ConfigIds
    /\ rebateOrder = {}
    /\ bound = FALSE
    /\ queue = <<>>
    /\ settled = {}
    /\ activityOrder = {}
    /\ credited = [b \in BizIds |-> 0]
    /\ rows = {}
    /\ call = [c \in SignCalls |-> IdleCall]
    /\ inst = [k \in Instances |-> DownInst]

-----------------------------------------------------------------------------
(* CalendarSignRebate and CreateOrder *)

CallGoto(c, pc) == call' = [call EXCEPT ![c].pc = pc]

(* The date is read first; without an open configuration there is nothing   *)
(* to save and the call succeeds.                                           *)
QueryConfig(c, d) ==
    /\ call[c].pc = "start"
    /\ \/ call' = [call EXCEPT ![c].day = d, ![c].list = open,
                               ![c].pc = IF open = {} THEN "done" ELSE "save"]
       \/ "queryFail" \in RebateFaults /\ CallGoto(c, "failed")
    /\ UNCHANGED <<open, rebateOrder, brokerVars, ledgerRows, inst>>

(* The biz_id of the order for configuration i. *)
OrderBiz(c, i) == BizID(i, call[c].day)

(* The configurations are handled in the order of their ids. *)
HandledBefore(c, i) == {j \in call[c].list : j < i}

(* A row with the order's biz_id, of an earlier call or of this transaction. *)
Duplicate(c, i) == OrderBiz(c, i) \in rebateOrder \cup {OrderBiz(c, j) : j \in HandledBefore(c, i)}

(* The inserts before the first duplicate.  A duplicate ends the loop, the   *)
(* transaction commits and counts as success.                               *)
Inserted(c) == {OrderBiz(c, i) : i \in {n \in call[c].list :
                                          \A m \in HandledBefore(c, n) \cup {n} : ~Duplicate(c, m)}}

(* Mutant: messages are published whether or not the transaction succeeded. *)
PublishAnyway(c) == CallGoto(c, "publish")

(* An error of the transaction ends the call before anything is published. *)
SaveFailed(c) == CallGoto(c, "failed")

SaveUserRebateOrder(c) ==
    /\ call[c].pc = "save"
    /\ \/ /\ rebateOrder' = rebateOrder \cup Inserted(c)
          /\ CallGoto(c, "publish")
       \/ /\ "saveFail" \in RebateFaults
          /\ SaveFailed(c)
          /\ UNCHANGED rebateOrder
       \/ /\ "ackLost" \in RebateFaults
          /\ rebateOrder' = rebateOrder \cup Inserted(c)
          /\ SaveFailed(c)
    /\ UNCHANGED <<open, brokerVars, ledgerRows, inst>>

(* The fanout exchange hands a message to the queues bound to it and drops   *)
(* it when there is none.                                                   *)
Routed == bound /\ SendRebate = ActivityAwardSendTopic

(* One message per order, whatever the transaction inserted; the result of   *)
(* each publish is ignored.                                                 *)
PublishSendRebate(c) ==
    /\ call[c].pc = "publish"
    /\ \E i \in call[c].list :
          /\ HandledBefore(c, i) = {}
          /\ \/ queue' = IF Routed THEN Append(queue, [biz |-> OrderBiz(c, i), config |-> i]) ELSE queue
             \/ "publishLost" \in RebateFaults /\ UNCHANGED queue
          /\ call' = [call EXCEPT ![c].list = @ \ {i},
                                  ![c].pc = IF call[c].list = {i} THEN "done" ELSE "publish"]
    /\ UNCHANGED <<open, rebateOrder, bound, settled, ledgerRows, inst>>

CallCrash(c) ==
    /\ "callCrash" \in RebateFaults
    /\ call[c].pc \in {"save", "publish"}
    /\ CallGoto(c, "failed")
    /\ UNCHANGED <<open, rebateOrder, brokerVars, ledgerRows, inst>>

OpenConfig(n) ==
    /\ "configChange" \in RebateFaults
    /\ n \notin open
    /\ open' = open \cup {n}
    /\ UNCHANGED <<rebateOrder, brokerVars, ledgerRows, call, inst>>

-----------------------------------------------------------------------------
(* RabbitMQServer and RebateListener *)

StartConsumer(k) ==
    /\ inst[k].pc = "down"
    /\ bound' = TRUE
    /\ inst' = [inst EXCEPT ![k].pc = "idle"]
    /\ UNCHANGED <<open, rebateOrder, queue, settled, ledgerRows, call>>

Deliver(k) ==
    /\ inst[k].pc = "idle"
    /\ queue # <<>>
    /\ inst' = [inst EXCEPT ![k].pc = "handle", ![k].msg = Head(queue)]
    /\ queue' = Tail(queue)
    /\ UNCHANGED <<open, rebateOrder, bound, settled, ledgerRows, call>>

(* Mutant: a refused message is not put back. *)
Discard(q, m) == q

(* Nack(false, true), and the broker's own step for a closed channel: the    *)
(* message returns to its place at the head.                                *)
Requeue(q, m) == <<m>> \o q

IdleInst == [DownInst EXCEPT !.pc = "idle"]

(* Mutant: a finished consumer keeps its delivery. *)
HeldInst(k) == [inst[k] EXCEPT !.pc = "idle"]

(* A consumer that is done with its delivery. *)
FreedInst(k) == IdleInst

(* Mutant: every error is taken for the duplicate of a recharge made before. *)
SettleAnyError(err) == "ack"

(* The listener reports success for a duplicate and asks for a retry after   *)
(* any other error.                                                         *)
AfterError(err) == IF err = "duplicate" THEN "ack" ELSE "requeue"

(* The delivery of k ends with error err. *)
EndWith(k, err) ==
    IF AfterError(err) = "ack"
    THEN inst' = [inst EXCEPT ![k].pc = "ack", ![k].missing = {}] /\ UNCHANGED queue
    ELSE /\ inst' = [inst EXCEPT ![k] = FreedInst(k)]
         /\ queue' = Requeue(queue, inst[k].msg)

Grantable(m) == Configs[m.config].type = "sku" /\ Configs[m.config].valid

(* Integral rebates and skus that do not parse are acknowledged unhandled. *)
HandleOther(k) ==
    /\ inst[k].pc = "handle"
    /\ ~Grantable(inst[k].msg)
    /\ inst' = [inst EXCEPT ![k].pc = "ack"]
    /\ UNCHANGED <<open, rebateOrder, brokerVars, ledgerRows, call>>

(* A failing read of sku, activity or counts asks for a retry; a sku without *)
(* a row makes the use case panic, and handle puts the message back as well. *)
HandleFail(k) ==
    /\ "handleFail" \in RebateFaults
    /\ inst[k].pc = "handle"
    /\ Grantable(inst[k].msg)
    /\ EndWith(k, "read")
    /\ UNCHANGED <<open, rebateOrder, bound, settled, ledgerRows, call>>

(* Mutant: out_business_no is not unique. *)
NeverRecharged(b) == FALSE

(* The unique index on out_business_no refuses the order. *)
AlreadyRecharged(b) == b \in activityOrder

(* The unique index makes the insert wait for an open transaction with the   *)
(* same number.                                                             *)
InsertWaits(k) == \E j \in Instances \ {k} : inst[j].pc = "create" /\ inst[j].msg.biz = inst[k].msg.biz

(* SaveOrder: the order is inserted and the account and period rows updated; *)
(* rows that are missing are created below.                                 *)
SaveOrderBegin(k) ==
    /\ inst[k].pc = "handle"
    /\ Grantable(inst[k].msg)
    /\ ~InsertWaits(k)
    /\ IF AlreadyRecharged(inst[k].msg.biz)
       THEN EndWith(k, "duplicate")
       ELSE inst' = [inst EXCEPT ![k].pc = "create", ![k].missing = Rows \ rows] /\ UNCHANGED queue
    /\ UNCHANGED <<open, rebateOrder, bound, settled, ledgerRows, call>>

(* Another transaction has created a row that this one found missing. *)
CreateConflict(k) == inst[k].missing \cap rows # {}

(* The missing rows are inserted and the transaction commits.  After a       *)
(* conflict it is rolled back: with gap locks as the victim of a deadlock,   *)
(* without them with the duplicate of a row that is not the order's.        *)
SaveOrderEnd(k) ==
    LET b == inst[k].msg.biz
        Commit == /\ activityOrder' = activityOrder \cup {b}
                  /\ credited' = [credited EXCEPT ![b] = @ + 1]
                  /\ rows' = Rows
    IN  /\ inst[k].pc = "create"
        /\ \/ /\ ~CreateConflict(k)
              /\ Commit
              /\ inst' = [inst EXCEPT ![k].pc = "ack", ![k].missing = {}]
              /\ UNCHANGED queue
           \/ /\ ~CreateConflict(k)
              /\ "ackLost" \in RebateFaults
              /\ Commit
              /\ EndWith(k, "unknown")
           \/ /\ CreateConflict(k)
              /\ EndWith(k, IF GapLocks THEN "deadlock" ELSE "duplicate")
              /\ UNCHANGED ledgerRows
        /\ UNCHANGED <<open, rebateOrder, bound, settled, call>>

Ack(k) ==
    /\ inst[k].pc = "ack"
    /\ settled' = settled \cup {inst[k].msg}
    /\ inst' = [inst EXCEPT ![k] = FreedInst(k)]
    /\ UNCHANGED <<open, rebateOrder, bound, queue, ledgerRows, call>>

(* An open transaction is rolled back and the broker takes the delivery back. *)
InstCrash(k) ==
    /\ "instCrash" \in RebateFaults
    /\ inst[k].pc # "down"
    /\ inst' = [inst EXCEPT ![k] = DownInst]
    /\ queue' = IF inst[k].msg = NoMsg THEN queue ELSE Requeue(queue, inst[k].msg)
    /\ UNCHANGED <<open, rebateOrder, bound, settled, ledgerRows, call>>

(* QueryActivityAccountEntity creates missing period rows of an existing      *)
(* account; with gap locks it waits for transactions that found them missing. *)
QueryCreatesRow(r) ==
    /\ "account" \in rows
    /\ r \in Rows \ rows
    /\ GapLocks => \A k \in Instances : inst[k].pc = "create" => r \notin inst[k].missing
    /\ rows' = rows \cup {r}
    /\ UNCHANGED <<open, rebateOrder, brokerVars, activityOrder, credited, call, inst>>

(* A new day or month has no rows yet. *)
NewPeriod(r) ==
    /\ r \in {"period"} \cap rows
    /\ \A k \in Instances : inst[k].pc # "create"
    /\ rows' = rows \ {r}
    /\ UNCHANGED <<open, rebateOrder, brokerVars, activityOrder, credited, call, inst>>

-----------------------------------------------------------------------------

SignStep(c) ==
    \/ \E d \in SignDays : QueryConfig(c, d)
    \/ SaveUserRebateOrder(c)
    \/ PublishSendRebate(c)
    \/ CallCrash(c)

ConsumerStep(k) ==
    \/ StartConsumer(k)
    \/ Deliver(k)
    \/ HandleOther(k)
    \/ HandleFail(k)
    \/ SaveOrderBegin(k)
    \/ SaveOrderEnd(k)
    \/ Ack(k)
    \/ InstCrash(k)

RebateNext ==
    \/ \E c \in SignCalls : SignStep(c)
    \/ \E k \in Instances : ConsumerStep(k)
    \/ \E n \in ConfigIds : OpenConfig(n)
    \/ \E r \in Rows : QueryCreatesRow(r) \/ NewPeriod(r)

RebateSpec == RebateInit /\ [][RebateNext]_rebateVars

(* Some instance is restarted and consumes; reads and transactions that are  *)
(* tried again and again succeed in the end.                                *)
Settles(k) == Ack(k) \/ (SaveOrderEnd(k) /\ inst'[k].pc = "ack")

RebateFairness ==
    /\ WF_rebateVars(\E k \in Instances : StartConsumer(k))
    /\ SF_rebateVars(\E k \in Instances : Deliver(k))
    /\ SF_rebateVars(\E k \in Instances : HandleOther(k) \/ SaveOrderBegin(k))
    /\ SF_rebateVars(\E k \in Instances : Settles(k))
    /\ SF_rebateVars(\E k \in Instances : SaveOrderEnd(k))

RebateFairSpec == RebateSpec /\ RebateFairness

-----------------------------------------------------------------------------
(* Properties *)

(* A message reaches the listener again after a crash, a lost reply or a     *)
(* repeated sign-in, and two configurations may share a biz_id; still the    *)
(* account is credited at most once per out_business_no, exactly when its    *)
(* order exists.                                                            *)
CreditedOnce == \A b \in BizIds : credited[b] = IF b \in activityOrder THEN 1 ELSE 0

(* The listener lets go of a sku message only when its recharge is in the    *)
(* database: no error of any step, and no concurrent creation of the account *)
(* rows, is mistaken for success.                                           *)
SettledMeansCredited == \A m \in settled : Grantable(m) => m.biz \in activityOrder

(* The recharge made by some consumer has the rebate order that was saved by *)
(* the call which published its message, although order and message are not *)
(* written together.                                                        *)
RechargeHasRebateOrder == activityOrder \subseteq rebateOrder

(* What the broker has taken is recharged in the end, through crashes of the *)
(* consumers, failing reads and refused transactions.                       *)
EveryRebateCredited ==
    \A b \in BizIds :
        (\E i \in DOMAIN queue : queue[i].biz = b /\ Grantable(queue[i]))
            ~> (b \in activityOrder)
=============================================================================
