--------------------------- MODULE StrategyRaffle ---------------------------
(***************************************************************************)
(* The raffle of one strategy: PerformRaffle (rule chain, draw from a pool *)
(* in Redis, rule tree, stock), the armory that assembles the pools, and   *)
(* the asynq handler that takes sold units off the award rows.             *)
(*                                                                         *)
(* Granularity: one action per Redis command, pipeline or enqueue; rule    *)
(* configuration is constant, the rates of the award rows may change.      *)
(***************************************************************************)
EXTENDS AwardPool, Sequences

CONSTANTS
    Requests,      \* calls of PerformRaffle
    Assemblers,    \* calls of the armory that may run at the same time
    Awards,        \* award identifiers
    Rows,          \* awards that have a strategy_award row of the strategy
    Lists,         \* award_rate columns the rows may have: [Awards -> Nat]
    MaxEntries,    \* bound: fields of a rate table
    RuleModels,    \* strategy.rule_models
    BlackAward,    \* award of rule_blacklist
    WeightAwards,  \* rule_weight: the awards of each weight
    Scores,        \* counts of draws a user may have
    TreeAwards,    \* awards whose rule_models names the rule tree
    Root, Nodes,   \* the tree: its root and its nodes
    Lines,         \* lines of each node, in the order of the table
    LockCount,     \* rule_value of rule_lock
    LuckAward,     \* award of rule_luck_award
    StockOf,       \* units of each award that operators put on sale
    ServedQueues,  \* queues that asynq servers process
    Faults,        \* which faults and operator actions may happen
    Nil            \* no Redis key, no value, award id 0

Weights == DOMAIN WeightAwards
Pools == {0} \cup Weights       \* 0: the pool of the whole strategy
Indexes == 0..(MaxEntries - 1)
TreeNames == {"rule_lock", "rule_stock", "rule_luck_award"}
ChainNames == {"rule_blacklist", "rule_weight", "rule_default"}
StockQueue == "critical"

ASSUME ConfigAssumption ==
    /\ IsFiniteSet(Awards) /\ Nil \notin Awards /\ Nil \notin Int
    /\ Rows \subseteq Awards /\ TreeAwards \subseteq Awards
    /\ Lists \subseteq [Awards -> Nat]
    /\ {BlackAward, LuckAward} \subseteq Awards
    /\ Weights \subseteq Nat \ {0}
    /\ Scores \subseteq Nat
    /\ MaxEntries \in Nat
    /\ StockOf \in [Awards -> Nat]
    /\ LockCount \in Nat
    /\ RuleModels \in Seq(STRING)
    /\ Nodes \subseteq TreeNames
    /\ Lines \in [Nodes -> Seq([type : STRING, value : STRING, to : STRING])]

(* Mutant: the awards of a weight are not filtered. *)
UnfilteredAwards(p) == Rows

(* The awards of a pool: all, or those of its weight. *)
AwardsOf(p) == IF p = 0 THEN Rows ELSE Rows \cap WeightAwards[p]

ASSUME PoolsFit ==
    \A l \in Lists, p \in Pools : PoolSize(l, AwardsOf(p)) \in 0..MaxEntries

FaultKinds ==
    {"fail",        \* a call returns an error or its process dies
     "replyLost",   \* a Redis reply is lost and the client sends the command again
     "relist",      \* the rates are changed, the cached list is dropped
     "poolExpire",  \* a key of a pool reaches its TTL
     "asmFail",     \* an assembly ends with an error
     "restore",     \* an operator sets the count key
     "redeliver",   \* asynq runs a task again after its effect
     "lockExpire"}  \* a unit lock reaches its TTL of a day

ASSUME FaultsAssumption == Faults \subseteq FaultKinds

VARIABLES
    list,        \* award_rate columns of strategy_award
    cachedList,  \* the cached award list, or Nil
    rangeKey,    \* range key of each pool, or Nil
    table,       \* rate table of each pool: field -> award or Nil
    asm,         \* each assembler
    req,         \* each raffle
    count,       \* count key of each award, or Nil
    locks,       \* unit locks of each award
    queue,       \* stock tasks in the queue, per award
    row          \* award_count_surplus of each award

poolVars == <<list, cachedList, rangeKey, table, asm>>
stockVars == <<count, locks>>
vars == <<poolVars, req, stockVars, queue, row>>

----------------------------------------------------------------------------
(* The rule chain *)

(* openLogicChain: the known models, then the default; the default alone   *)
(* when there are no models or the first is unknown.                       *)
Chain == IF RuleModels = <<>> \/ RuleModels[1] \notin ChainNames
         THEN <<"rule_default">>
         ELSE Append(SelectSeq(RuleModels, LAMBDA m : m \in ChainNames), "rule_default")

NewRaffle == [pc |-> "chain", step |-> 1, score |-> Nil, pool |-> Nil, range |-> 0,
              award |-> Nil, node |-> "", left |-> 0, unit |-> Nil, result |-> Nil]

IdleAssembler == [pc |-> "idle", list |-> Nil, pool |-> 0, todo |-> {}]

Init ==
    /\ list \in Lists
    /\ cachedList = Nil
    /\ rangeKey = [p \in Pools |-> Nil]
    /\ table = [p \in Pools |-> [i \in Indexes |-> Nil]]
    /\ asm = [m \in Assemblers |-> IdleAssembler]
    /\ req = [r \in Requests |-> NewRaffle]
    /\ count \in {[a \in Awards |-> Nil], StockOf}
    /\ locks = [a \in Awards |-> {}]
    /\ queue = [a \in Awards |-> 0]
    /\ row = StockOf

Goto(r, label) == req' = [req EXCEPT ![r].pc = label]

(* An error or a recovered panic: the call ends, what it did stays. *)
Fail(r) == Goto(r, "failed")

AtNode(r, name) == req[r].pc = "chain" /\ Chain[req[r].step] = name

NextInChain(r) == req' = [req EXCEPT ![r].step = @ + 1]

(* A listed user gets the blacklist's award, everyone else goes on. *)
BlackListLogic(r) ==
    /\ AtNode(r, "rule_blacklist")
    /\ \/ req' = [req EXCEPT ![r].pc = "build", ![r].result = BlackAward]
       \/ NextInChain(r)
    /\ UNCHANGED <<poolVars, stockVars, queue, row>>

Reached(score) == {k \in Weights : k <= score}

(* The user's draw count selects the pool of the largest weight reached. *)
WeightLogic(r) ==
    /\ AtNode(r, "rule_weight")
    /\ \E score \in Scores :
          \/ /\ Reached(score) = {}
             /\ req' = [req EXCEPT ![r].score = score, ![r].step = @ + 1]
          \/ /\ Reached(score) # {}
             /\ req' = [req EXCEPT ![r].score = score, ![r].pc = "range",
                                   ![r].pool = Max(Reached(score))]
    /\ UNCHANGED <<poolVars, stockVars, queue, row>>

DefaultLogic(r) ==
    /\ AtNode(r, "rule_default")
    /\ req' = [req EXCEPT ![r].pc = "range", ![r].pool = 0]
    /\ UNCHANGED <<poolVars, stockVars, queue, row>>

----------------------------------------------------------------------------
(* getRandomAwardID: two reads of Redis *)

GetRateRange(r) ==
    /\ req[r].pc = "range"
    /\ LET range == rangeKey[req[r].pool]
       IN  IF range = Nil \/ range <= 0 THEN Fail(r)
           ELSE req' = [req EXCEPT ![r].pc = "index", ![r].range = range]
    /\ UNCHANGED <<poolVars, stockVars, queue, row>>

(* A field that is missing is an error.  Only an award of the default rule *)
(* goes through the rule tree.                                             *)
GetStrategyAwardAssemble(r) ==
    /\ req[r].pc = "index"
    /\ \E i \in 0..(req[r].range - 1) :
          LET award == table[req[r].pool][i]
          IN  IF award = Nil THEN Fail(r)
              ELSE req' = [req EXCEPT ![r].pc = IF req[r].pool = 0 THEN "tree" ELSE "build",
                                      ![r].award = award, ![r].result = award]
    /\ UNCHANGED <<poolVars, stockVars, queue, row>>

----------------------------------------------------------------------------
(* The rule tree *)

(* next: the first line that matches; without lines the walk ends, with lines *)
(* and no match it panics.                                                    *)
Matching(node, check) ==
    {i \in DOMAIN Lines[node] : Lines[node][i].type = "EQUAL" /\ Lines[node][i].value = check}

Panics(node, check) ==
    \/ Lines[node] # <<>> /\ Matching(node, check) = {}
    \/ /\ Matching(node, check) # {}
       /\ Lines[node][Min(Matching(node, check))].to \notin Nodes \cup {""}

Successor(node, check) ==
    IF Lines[node] = <<>> THEN "" ELSE Lines[node][Min(Matching(node, check))].to

(* The node's verdict and award, then its successor, "" at the end. *)
Advance(r, check, award) ==
    LET node == req[r].node
        next == Successor(node, check)
    IN  IF Panics(node, check) THEN Fail(r)
        ELSE req' = [req EXCEPT ![r].pc = IF next = "" THEN "build" ELSE "node",
                                ![r].node = next, ![r].result = award]

(* QueryStrategyRuleModel: an award without a row has no tree. *)
HasTree(a) == a \in TreeAwards \cap Rows

(* newDecisionTreeEngine. *)
HasRoot == Root \in Nodes

(* raffleRuleTree: awards without a tree are final; a tree without its root *)
(* is an error.                                                             *)
OpenTree(r) ==
    /\ req[r].pc = "tree"
    /\ IF ~HasTree(req[r].award) THEN Goto(r, "build")
       ELSE IF ~HasRoot THEN Fail(r)
       ELSE req' = [req EXCEPT ![r].pc = "node", ![r].node = Root]
    /\ UNCHANGED <<poolVars, stockVars, queue, row>>

InNode(r, name) == req[r].pc = "node" /\ req[r].node = name

(* The user's draw count is the constant 10 in the code. *)
LockNode(r) ==
    /\ InNode(r, "rule_lock")
    /\ Advance(r, IF 10 >= LockCount THEN "ALLOW" ELSE "TAKE_OVER", req[r].award)
    /\ UNCHANGED <<poolVars, stockVars, queue, row>>

LuckAwardNode(r) ==
    /\ InNode(r, "rule_luck_award")
    /\ Advance(r, "TAKE_OVER", LuckAward)
    /\ UNCHANGED <<poolVars, stockVars, queue, row>>

----------------------------------------------------------------------------
(* rule_stock: DECR, SETNX, enqueue *)

(* DECR creates a missing key; a client that missed the reply decrements   *)
(* once more.                                                              *)
Decremented(a) ==
    LET v == IF count[a] = Nil THEN 0 ELSE count[a]
    IN  {v - 1} \cup (IF "replyLost" \in Faults THEN {v - 2} ELSE {})

(* Mutant: an exhausted stock does not divert the raffle. *)
NoStockAllows == "ALLOW"

(* The verdict on a raffle for which no unit is left. *)
NoStock == "TAKE_OVER"

DecrStock(r) ==
    /\ InNode(r, "rule_stock")
    /\ \E v \in Decremented(req[r].award) :
          /\ count' = [count EXCEPT ![req[r].award] = v]
          /\ IF v < 0 THEN Advance(r, NoStock, req[r].award)
             ELSE req' = [req EXCEPT ![r].pc = "lock", ![r].left = v]
    /\ UNCHANGED <<poolVars, locks, queue, row>>

(* Mutant: the lock is set whether or not it exists. *)
AlwaysLockable(r) == TRUE

Lockable(r) == req[r].left \notin locks[req[r].award]

(* The value DECR returned names the unit.  When the reply of SETNX is lost *)
(* the client's second SETNX finds the first one's lock.                    *)
LockUnit(r) ==
    /\ req[r].pc = "lock"
    /\ Lockable(r)
    /\ locks' = [locks EXCEPT ![req[r].award] = @ \cup {req[r].left}]
    /\ \/ req' = [req EXCEPT ![r].pc = "send", ![r].unit = req[r].left]
       \/ "replyLost" \in Faults /\ Advance(r, NoStock, req[r].award)
    /\ UNCHANGED <<poolVars, count, queue, row>>

UnitLocked(r) ==
    /\ req[r].pc = "lock"
    /\ ~Lockable(r)
    /\ Advance(r, NoStock, req[r].award)
    /\ UNCHANGED <<poolVars, stockVars, queue, row>>

(* Mutant: the task is enqueued again after an answer. *)
EnqueueTwice(a) == queue' = [queue EXCEPT ![a] = @ + 2]

(* AwardStockConsumeSendQueue. *)
Enqueue(a) == queue' = [queue EXCEPT ![a] = @ + 1]

(* An enqueue whose answer is lost is an error. *)
SendQueue(r) ==
    /\ req[r].pc = "send"
    /\ Enqueue(req[r].award)
    /\ \/ Advance(r, "ALLOW", req[r].award)
       \/ "replyLost" \in Faults /\ Fail(r)
    /\ UNCHANGED <<poolVars, stockVars, row>>

(* QueryStrategyAward: without a row the entity is empty, its award id 0. *)
StrategyAward(a) == IF a \in Rows THEN a ELSE Nil

BuildRaffleAward(r) ==
    /\ req[r].pc = "build"
    /\ req' = [req EXCEPT ![r].pc = "done", ![r].result = StrategyAward(@)]
    /\ UNCHANGED <<poolVars, stockVars, queue, row>>

RaffleFail(r) ==
    /\ "fail" \in Faults
    /\ req[r].pc \notin {"done", "failed"}
    /\ Fail(r)
    /\ UNCHANGED <<poolVars, stockVars, queue, row>>

----------------------------------------------------------------------------
(* assembleLotteryStrategy *)

(* Weight pools are assembled when the strategy has the rule. *)
WeightPools == IF \E i \in DOMAIN RuleModels : RuleModels[i] = "rule_weight"
               THEN Weights ELSE {}

(* The award list comes from the cache when it is there. *)
StrategyAwardList == IF cachedList = Nil THEN list ELSE cachedList

StartAssembly(m) ==
    /\ asm[m].pc = "idle"
    /\ cachedList' = StrategyAwardList
    /\ asm' = [asm EXCEPT ![m] = [pc |-> "range", list |-> StrategyAwardList, pool |-> 0,
                                  todo |-> WeightPools]]
    /\ UNCHANGED <<list, rangeKey, table, req, stockVars, queue, row>>

(* Mutant: the stored length is the expected capacity. *)
ExpectedCap(l, S) == RateRange(l, S)

(* The length of the pool is its range. *)
StoredRange(l, S) == PoolSize(l, S)

(* StoreStrategyAwardPool: the range of the pool, *)
StoreRange(m) ==
    /\ asm[m].pc = "range"
    /\ rangeKey' = [rangeKey EXCEPT ![asm[m].pool] = StoredRange(asm[m].list, AwardsOf(asm[m].pool))]
    /\ asm' = [asm EXCEPT ![m].pc = "table"]
    /\ UNCHANGED <<list, cachedList, table, req, stockVars, queue, row>>

(* The pool in every order a shuffle can give. *)
Shuffled(l, S) ==
    {t \in [0..(PoolSize(l, S) - 1) -> S] :
        \A a \in S : Cardinality({i \in DOMAIN t : t[i] = a}) = Count(l, S, a)}

(* then its fields; those beyond its length stay.  HSET without fields is an *)
(* error.  The next weight is any that is left.                              *)
StoreTable(m) ==
    LET p == asm[m].pool
        S == AwardsOf(p)
    IN  /\ asm[m].pc = "table"
        /\ IF PoolSize(asm[m].list, S) = 0
           THEN UNCHANGED table /\ asm' = [asm EXCEPT ![m] = IdleAssembler]
           ELSE /\ \E t \in Shuffled(asm[m].list, S) :
                      table' = [table EXCEPT ![p] =
                                  [i \in Indexes |-> IF i \in DOMAIN t THEN t[i] ELSE @[i]]]
                /\ \/ /\ asm[m].todo = {}
                      /\ asm' = [asm EXCEPT ![m] = IdleAssembler]
                   \/ \E q \in asm[m].todo :
                         asm' = [asm EXCEPT ![m].pc = "range", ![m].pool = q,
                                            ![m].todo = @ \ {q}]
        /\ UNCHANGED <<list, cachedList, rangeKey, req, stockVars, queue, row>>

AssemblyFail(m) ==
    /\ "asmFail" \in Faults
    /\ asm[m].pc # "idle"
    /\ asm' = [asm EXCEPT ![m] = IdleAssembler]
    /\ UNCHANGED <<list, cachedList, rangeKey, table, req, stockVars, queue, row>>

----------------------------------------------------------------------------
(* The asynq handler and the environment *)

(* Mutant: the update has no condition. *)
RowAlwaysServes(a) == TRUE

RowServes(a) == row[a] > 0

(* UpdateStrategyAwardStock; at a surplus of zero the handler fails and the *)
(* task stays for a retry.                                                  *)
ProcessTask(a) ==
    /\ StockQueue \in ServedQueues
    /\ queue[a] > 0
    /\ RowServes(a)
    /\ row' = [row EXCEPT ![a] = @ - 1]
    /\ \/ queue' = [queue EXCEPT ![a] = @ - 1]
       \/ "redeliver" \in Faults /\ UNCHANGED queue
    /\ UNCHANGED <<poolVars, req, stockVars>>

(* The rows are edited, or the cached list is dropped. *)
Relist(l) ==
    /\ "relist" \in Faults
    /\ \/ list' = l /\ UNCHANGED cachedList
       \/ cachedList' = Nil /\ UNCHANGED list
    /\ UNCHANGED <<rangeKey, table, asm, req, stockVars, queue, row>>

PoolExpire(p) ==
    /\ "poolExpire" \in Faults
    /\ \/ rangeKey' = [rangeKey EXCEPT ![p] = Nil] /\ UNCHANGED table
       \/ table' = [table EXCEPT ![p] = [i \in Indexes |-> Nil]] /\ UNCHANGED rangeKey
    /\ UNCHANGED <<list, cachedList, asm, req, stockVars, queue, row>>

(* No code sets the count key: operators do, also to restore it later. *)
RestoreStock(a, n) ==
    /\ "restore" \in Faults
    /\ count' = [count EXCEPT ![a] = n]
    /\ UNCHANGED <<poolVars, req, locks, queue, row>>

LockExpire(a, u) ==
    /\ "lockExpire" \in Faults
    /\ locks' = [locks EXCEPT ![a] = @ \ {u}]
    /\ UNCHANGED <<poolVars, req, count, queue, row>>

----------------------------------------------------------------------------
RaffleStep(r) ==
    \/ BlackListLogic(r)
    \/ WeightLogic(r)
    \/ DefaultLogic(r)
    \/ GetRateRange(r)
    \/ GetStrategyAwardAssemble(r)
    \/ OpenTree(r)
    \/ LockNode(r)
    \/ LuckAwardNode(r)
    \/ DecrStock(r)
    \/ LockUnit(r)
    \/ UnitLocked(r)
    \/ SendQueue(r)
    \/ BuildRaffleAward(r)
    \/ RaffleFail(r)

Assemble(m) ==
    \/ StartAssembly(m)
    \/ StoreRange(m)
    \/ StoreTable(m)
    \/ AssemblyFail(m)

Environment ==
    \/ \E l \in Lists : Relist(l)
    \/ \E p \in Pools : PoolExpire(p)
    \/ \E a \in Awards : \E n \in 0..StockOf[a] : RestoreStock(a, n)
    \/ \E a \in Awards : \E u \in locks[a] : LockExpire(a, u)

Next ==
    \/ \E r \in Requests : RaffleStep(r)
    \/ \E m \in Assemblers : Assemble(m)
    \/ \E a \in Awards : ProcessTask(a)
    \/ Environment

Spec == Init /\ [][Next]_vars

(* A served queue is processed and handlers that fail are retried; a raffle *)
(* that has begun goes on.                                                  *)
Fairness ==
    /\ \A a \in Awards : WF_vars(ProcessTask(a))
    /\ \A r \in Requests : WF_vars(RaffleStep(r))

FairSpec == Spec /\ Fairness

----------------------------------------------------------------------------
(* Properties *)

RafflePC == {"chain", "range", "index", "tree", "node", "lock", "send", "build",
             "done", "failed"}

AwardOrNil == Awards \cup {Nil}

RaffleRec == [pc : RafflePC, step : Nat, score : Scores \cup {Nil},
              pool : Pools \cup {Nil}, range : 0..MaxEntries, award : AwardOrNil,
              node : Nodes \cup {""}, left : Nat, unit : Nat \cup {Nil},
              result : AwardOrNil]

AssemblerRec == [pc : {"idle", "range", "table"}, list : Lists \cup {Nil}, pool : Pools,
                 todo : SUBSET Weights]

PoolTypeOK ==
    /\ list \in Lists
    /\ cachedList \in Lists \cup {Nil}
    /\ rangeKey \in [Pools -> (0..MaxEntries) \cup {Nil}]
    /\ table \in [Pools -> [Indexes -> AwardOrNil]]
    /\ asm \in [Assemblers -> AssemblerRec]

StockTypeOK ==
    /\ count \in [Awards -> Int \cup {Nil}]
    /\ locks \in [Awards -> SUBSET Nat]
    /\ queue \in [Awards -> Nat]
    /\ row \in [Awards -> Nat]

(* Keys, rows and local variables have values of their kind; a raffle is    *)
(* only ever at nodes of its tree and no surplus column goes below zero.    *)
TypeOK == PoolTypeOK /\ StockTypeOK /\ req \in [Requests -> RaffleRec]

(* A is a set of nodes a walk cannot leave once rule_stock has allowed the   *)
(* raffle, and rule_stock is not one of them: no walk sells two units.  A    *)
(* tree without cycles has such a set.                                      *)
SellsOnce(A) ==
    /\ A \subseteq Nodes \ {"rule_stock"}
    /\ "rule_stock" \in Nodes /\ ~Panics("rule_stock", "ALLOW") =>
          Successor("rule_stock", "ALLOW") \in A \cup {""}
    /\ \A node \in A, check \in {"ALLOW", "TAKE_OVER"} :
          ~Panics(node, check) => Successor(node, check) \in A \cup {""}

(* rule_stock guards the award: rule_lock never ends a walk, and neither     *)
(* does rule_stock when it takes over.                                      *)
StockGuards ==
    /\ "rule_lock" \in Nodes =>
          \A check \in {"ALLOW", "TAKE_OVER"} :
             Panics("rule_lock", check) \/ Successor("rule_lock", check) # ""
    /\ "rule_stock" \in Nodes =>
          Panics("rule_stock", "TAKE_OVER") \/ Successor("rule_stock", "TAKE_OVER") # ""

(* Raffles of the default rule that ended with award a. *)
Winners(a) == {r \in Requests : req[r].pc = "done" /\ req[r].pool = 0 /\ req[r].result = a}

(* Restoring the count key, lost replies and dying processes never hand out *)
(* more of an award with a stock rule than its units (SubtractionAwardStock: *)
(* every unit is locked).                                                   *)
NoOversell == \A a \in TreeAwards \ {LuckAward} : Cardinality(Winners(a)) <= StockOf[a]

(* The locked units are handed out as StockUnits promises. *)
Units == INSTANCE StockUnits
         WITH sold <- {<<r, req[r].award, req[r].unit>> :
                          r \in {q \in Requests : req[q].unit # Nil}}

(* Each unit goes to at most one raffle, a raffle takes at most one, and a  *)
(* unit that was handed out never returns.                                  *)
ImplementsStockUnits == Units!Spec

(* A raffle that passed the weight rule is drawn from the pool of the       *)
(* largest weight its user reached, and gets an award of that weight        *)
(* whatever assemblies, failures and expiries did to the pools.             *)
WeightedDraw ==
    \A r \in Requests :
       LET k == Max(Reached(req[r].score))
       IN  req[r].pc = "done" /\ req[r].score # Nil /\ Reached(req[r].score) # {} =>
              req[r].pool = k /\ req[r].result \in WeightAwards[k] \cup {Nil}

(* Between assemblies that run one at a time, the fields a draw can hit are *)
(* exactly those of one list of awards, each award with the number of       *)
(* indexes its rate gives, though a table is never cleared before it is     *)
(* written and the range is written first.  A key that expired is missing.  *)
PoolMatchesList ==
    \A p \in Pools :
       \/ rangeKey[p] = Nil \/ table[p] = [i \in Indexes |-> Nil]
       \/ \E m \in Assemblers : asm[m].pc = "table" /\ asm[m].pool = p
       \/ \E l \in Lists :
             [i \in 0..(rangeKey[p] - 1) |-> table[p][i]] \in Shuffled(l, AwardsOf(p))

(* The rows never run ahead of the sales: what was taken off a row or waits *)
(* in the queue was locked before.                                          *)
RowNotAhead ==
    \A a \in Awards : StockOf[a] - row[a] + queue[a] <= Cardinality(locks[a])

(* Every unit sold is taken off its row in the end. *)
EveryUnitPersisted == \A a \in Awards : queue[a] > 0 ~> queue[a] = 0
=============================================================================
