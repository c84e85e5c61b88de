------------------------ MODULE StrategyRaffleProofs ------------------------
(***************************************************************************)
(* Theorems about StrategyRaffle, for any number of raffles, awards and     *)
(* pools and any rule configuration.                                       *)
(***************************************************************************)
EXTENDS StrategyRaffle, AwardPoolProofs

----------------------------------------------------------------------------
(* Extremes of sets of naturals *)

(* The largest weight a user has reached exists and is a weight. *)
LEMMA MaxReached ==
    ASSUME NEW score \in Nat, Reached(score) # {}
    PROVE  Max(Reached(score)) \in Reached(score)
<1> DEFINE S == {score - k : k \in Reached(score)}
<1>1. Reached(score) \subseteq Nat /\ \A k \in Reached(score) : k <= score
      BY ConfigAssumption DEF Reached
<1>2. S \in SUBSET Nat /\ S # {}
      BY <1>1
<1>3. PICK x \in S : \A y \in S : x <= y
      BY <1>2, LeastExists
<1>4. PICK k \in Reached(score) : x = score - k
      OBVIOUS
<1>5. \A j \in Reached(score) : k >= j
  <2> SUFFICES ASSUME NEW j \in Reached(score) PROVE k >= j
      OBVIOUS
  <2>1. score - j \in S
        OBVIOUS
  <2>2. score - k <= score - j
        BY <1>3, <1>4, <2>1
  <2>3. QED BY <1>1, <2>2
<1>6. QED BY <1>4, <1>5 DEF Max

----------------------------------------------------------------------------
(* Type correctness *)

(* What a raffle knows at each of its steps. *)
RaffleAt(q) ==
    /\ q.pc \in {"range", "index"} => q.pool \in Pools
    /\ q.pc \in {"tree", "node", "lock", "send"} => q.award \in Awards /\ q.pool = 0
    /\ q.pc = "node" => q.node \in Nodes
    /\ q.pc \in {"lock", "send"} => q.node = "rule_stock" /\ "rule_stock" \in Nodes

(* An assembler at work has an award list. *)
AssemblerAt(x) == x.pc # "idle" => x.list \in Lists

TypeInv ==
    /\ TypeOK
    /\ \A r \in Requests : RaffleAt(req[r])
    /\ \A m \in Assemblers : AssemblerAt(asm[m])

(* What the assumptions on the constants say, in the form the proofs use. *)
LEMMA ConstantFacts ==
    /\ Nil \notin Awards /\ Nil \notin Int
    /\ Pools \subseteq Nat /\ 0 \in Pools /\ Weights \subseteq Pools
    /\ Scores \subseteq Nat /\ BlackAward \in Awards /\ LuckAward \in Awards
    /\ StockOf \in [Awards -> Nat] /\ MaxEntries \in Nat /\ Nodes \subseteq TreeNames
    /\ \A p \in Pools : AwardsOf(p) \subseteq Awards
BY ConfigAssumption DEF Pools, AwardsOf

(* Before any raffle or assembly the state is well formed. *)
LEMMA InitTypeInv == Init => TypeInv
<1> SUFFICES ASSUME Init PROVE TypeInv
    OBVIOUS
<1> USE ConstantFacts
<1>1. PoolTypeOK
      BY DEF Init, PoolTypeOK, AwardOrNil, IdleAssembler, AssemblerRec
<1>2. StockTypeOK
  <2>1. count \in [Awards -> Int \cup {Nil}]
    <3>1. CASE count = StockOf
          BY <3>1
    <3>2. CASE count = [a \in Awards |-> Nil]
          BY <3>2
    <3>3. QED BY <3>1, <3>2 DEF Init
  <2>2. QED BY <2>1 DEF Init, StockTypeOK
<1>3. NewRaffle \in RaffleRec /\ RaffleAt(NewRaffle)
      BY DEF NewRaffle, RaffleRec, RafflePC, AwardOrNil, RaffleAt
<1>4. AssemblerAt(IdleAssembler)
      BY DEF AssemblerAt, IdleAssembler
<1>5. QED BY <1>1, <1>2, <1>3, <1>4 DEF Init, TypeInv, TypeOK

(* The end of a call and the next step of its walk keep the record. *)
LEMMA FailStep ==
    ASSUME TypeInv, NEW r \in Requests, Fail(r)
    PROVE  /\ req' = [req EXCEPT ![r] = req'[r]]
           /\ req'[r] = [req[r] EXCEPT !.pc = "failed"]
           /\ req'[r] \in RaffleRec /\ RaffleAt(req'[r])
BY DEF TypeInv, TypeOK, Fail, Goto, RaffleRec, RafflePC, RaffleAt

(* Leaving a node of the tree: the request alone changes, to a node or to an end. *)
LEMMA AdvanceStep ==
    ASSUME TypeInv, NEW r \in Requests, req[r].pc \in {"node", "lock", "send"},
           NEW check, NEW award \in Awards, Advance(r, check, award)
    PROVE  /\ req' = [req EXCEPT ![r] = req'[r]]
           /\ req'[r] \in RaffleRec /\ RaffleAt(req'[r])
           /\ req'[r].unit = req[r].unit /\ req'[r].award = req[r].award
           /\ req'[r].pool = req[r].pool /\ req'[r].score = req[r].score
           /\ \/ req'[r].pc = "failed"
              \/ /\ ~Panics(req[r].node, check)
                 /\ req'[r].node = Successor(req[r].node, check)
                 /\ req'[r].pc = IF req'[r].node = "" THEN "build" ELSE "node"
                 /\ req'[r].result = award
<1>1. req \in [Requests -> RaffleRec] /\ RaffleAt(req[r])
      BY DEF TypeInv, TypeOK
<1>2. CASE Fail(r)
  <2>1. /\ req' = [req EXCEPT ![r] = req'[r]]
        /\ req'[r] = [req[r] EXCEPT !.pc = "failed"]
        /\ req'[r] \in RaffleRec /\ RaffleAt(req'[r])
        BY <1>2, FailStep
  <2>2. QED BY <1>1, <2>1 DEF RaffleRec
<1>3. CASE ~Panics(req[r].node, check)
  <2> DEFINE next == Successor(req[r].node, check)
  <2>1. next \in Nodes \cup {""}
        BY <1>3 DEF Panics, Successor
  <2>2. req' = [req EXCEPT ![r].pc = IF next = "" THEN "build" ELSE "node",
                           ![r].node = next, ![r].result = award]
        BY <1>3 DEF Advance
  <2> HIDE DEF next
  <2>3. /\ req' = [req EXCEPT ![r] = req'[r]]
        /\ req'[r] = [req[r] EXCEPT !.pc = IF next = "" THEN "build" ELSE "node",
                                    !.node = next, !.result = award]
        BY <1>1, <2>2
  <2>4. req'[r] \in RaffleRec /\ RaffleAt(req'[r])
        BY <1>1, <2>1, <2>3 DEF RaffleRec, RafflePC, AwardOrNil, RaffleAt
  <2>5. QED BY <1>1, <1>3, <2>3, <2>4 DEF RaffleRec, next
<1>4. QED BY <1>2, <1>3 DEF Advance

(* A step of a raffle changes its own record, to one that fits its place in  *)
(* the program.                                                             *)
LEMMA RaffleStepShape ==
    ASSUME TypeInv, NEW r \in Requests, RaffleStep(r)
    PROVE  /\ req' = [req EXCEPT ![r] = req'[r]]
           /\ req'[r] \in RaffleRec /\ RaffleAt(req'[r])
<1> USE DEF RaffleRec, RafflePC, RaffleAt
<1>1. /\ req \in [Requests -> RaffleRec] /\ req[r] \in RaffleRec /\ RaffleAt(req[r])
      BY DEF TypeInv, TypeOK
<1> DEFINE Shaped == /\ req' = [req EXCEPT ![r] = req'[r]]
                     /\ req'[r] \in RaffleRec /\ RaffleAt(req'[r])
<1>2. ASSUME NEW check, NEW award \in Awards, Advance(r, check, award),
             req[r].pc \in {"node", "lock", "send"}
      PROVE  Shaped
      BY <1>2, AdvanceStep
<1>3. CASE BlackListLogic(r)
  <2>1. CASE req' = [req EXCEPT ![r].pc = "build", ![r].result = BlackAward]
        BY <1>1, <2>1, ConstantFacts DEF AwardOrNil
  <2>2. CASE NextInChain(r)
    <3>1. req'[r] = [req[r] EXCEPT !.step = req[r].step + 1] /\ req' = [req EXCEPT ![r] = req'[r]]
          BY <1>1, <2>2 DEF NextInChain
    <3>2. req[r].pc = "chain"
          BY <1>3 DEF BlackListLogic, AtNode
    <3>3. PICK n \in Nat : n = req[r].step + 1
      <4>1. req[r].step \in Nat
            BY <1>1
      <4>2. QED BY <4>1
    <3>4. req'[r] \in RaffleRec
          BY <1>1, <3>1, <3>3
    <3>5. req'[r].pc = "chain"
          BY <1>1, <3>1, <3>2
    <3>6. QED BY <3>1, <3>4, <3>5
  <2>3. QED BY <1>3, <2>1, <2>2 DEF BlackListLogic
<1>4. CASE WeightLogic(r)
  <2>1. PICK score \in Scores :
          \/ /\ Reached(score) = {}
             /\ req' = [req EXCEPT ![r].score = score, ![r].step = @ + 1]
          \/ /\ Reached(score) # {}
             /\ req' = [req EXCEPT ![r].score = score, ![r].pc = "range",
                                   ![r].pool = Max(Reached(score))]
        BY <1>4 DEF WeightLogic
  <2>2. CASE req' = [req EXCEPT ![r].score = score, ![r].step = @ + 1]
    <3>1. /\ req'[r] = [req[r] EXCEPT !.score = score, !.step = req[r].step + 1]
          /\ req' = [req EXCEPT ![r] = req'[r]]
          BY <1>1, <2>2
    <3>2. req[r].pc = "chain"
          BY <1>4 DEF WeightLogic, AtNode
    <3>3. PICK n \in Nat : n = req[r].step + 1
      <4>1. req[r].step \in Nat
            BY <1>1
      <4>2. QED BY <4>1
    <3>4. req'[r] \in RaffleRec
          BY <1>1, <3>1, <3>3
    <3>5. req'[r].pc = "chain"
          BY <1>1, <3>1, <3>2
    <3>6. QED BY <3>1, <3>4, <3>5
  <2>3. CASE /\ Reached(score) # {}
             /\ req' = [req EXCEPT ![r].score = score, ![r].pc = "range",
                                   ![r].pool = Max(Reached(score))]
    <3>1. Max(Reached(score)) \in Pools
          BY <2>3, MaxReached, ConstantFacts DEF Reached
    <3>2. QED BY <1>1, <2>3, <3>1
  <2>4. QED BY <2>1, <2>2, <2>3
<1>5. CASE DefaultLogic(r)
      BY <1>1, <1>5, ConstantFacts DEF DefaultLogic
<1>6. CASE GetRateRange(r)
  <2>1. CASE Fail(r)
        BY <2>1, FailStep
  <2>2. CASE rangeKey[req[r].pool] \in 0..MaxEntries /\
             req' = [req EXCEPT ![r].pc = "index", ![r].range = rangeKey[req[r].pool]]
        BY <1>1, <1>6, <2>2 DEF GetRateRange
  <2>3. rangeKey[req[r].pool] \in 0..MaxEntries \cup {Nil}
        BY <1>1, <1>6 DEF GetRateRange, TypeInv, TypeOK, PoolTypeOK
  <2>4. QED BY <1>6, <2>1, <2>2, <2>3 DEF GetRateRange
<1>7. CASE GetStrategyAwardAssemble(r)
  <2>1. PICK i \in 0..(req[r].range - 1) :
          LET award == table[req[r].pool][i]
          IN  IF award = Nil THEN Fail(r)
              ELSE req' = [req EXCEPT ![r].pc = IF req[r].pool = 0 THEN "tree" ELSE "build",
                                      ![r].award = award, ![r].result = award]
        BY <1>7 DEF GetStrategyAwardAssemble
  <2>2. table[req[r].pool][i] \in AwardOrNil
    <3>1. req[r].range \in 0..MaxEntries /\ MaxEntries \in Nat
          BY <1>1, ConstantFacts
    <3>2. i \in Indexes
          BY <3>1 DEF Indexes
    <3>3. req[r].pool \in Pools
          BY <1>1, <1>7 DEF GetStrategyAwardAssemble
    <3>4. table \in [Pools -> [Indexes -> AwardOrNil]]
          BY DEF TypeInv, TypeOK, PoolTypeOK
    <3>5. QED BY <3>2, <3>3, <3>4
  <2>3. CASE Fail(r)
        BY <2>3, FailStep
  <2>4. CASE table[req[r].pool][i] # Nil
    <3> DEFINE award == table[req[r].pool][i]
    <3>1. award \in Awards
          BY <2>2, <2>4 DEF AwardOrNil
    <3>2. req' = [req EXCEPT ![r].pc = IF req[r].pool = 0 THEN "tree" ELSE "build",
                             ![r].award = award, ![r].result = award]
          BY <2>1, <2>4
    <3> HIDE DEF award
    <3>3. /\ req' = [req EXCEPT ![r] = req'[r]]
          /\ req'[r] = [req[r] EXCEPT !.pc = IF req[r].pool = 0 THEN "tree" ELSE "build",
                                      !.award = award, !.result = award]
          BY <1>1, <3>2
    <3>4. QED BY <1>1, <3>1, <3>3 DEF AwardOrNil
  <2>5. QED BY <2>1, <2>3, <2>4
<1>8. CASE OpenTree(r)
  <2>1. CASE Fail(r)
        BY <2>1, FailStep
  <2>2. CASE Goto(r, "build")
        BY <1>1, <2>2 DEF Goto
  <2>3. CASE Root \in Nodes /\ req' = [req EXCEPT ![r].pc = "node", ![r].node = Root]
        BY <1>1, <1>8, <2>3 DEF OpenTree
  <2>4. QED BY <1>8, <2>1, <2>2, <2>3 DEF OpenTree, HasRoot
<1>9. CASE LockNode(r) \/ LuckAwardNode(r)
      BY <1>1, <1>2, <1>9, ConstantFacts DEF LockNode, LuckAwardNode, InNode
<1>10. CASE DecrStock(r)
  <2>1. PICK v \in Decremented(req[r].award) :
           IF v < 0 THEN Advance(r, NoStock, req[r].award)
           ELSE req' = [req EXCEPT ![r].pc = "lock", ![r].left = v]
        BY <1>10 DEF DecrStock
  <2>2. req[r].pc = "node" /\ req[r].node = "rule_stock" /\ req[r].award \in Awards
        BY <1>1, <1>10 DEF DecrStock, InNode
  <2>3. v \in Int
    <3>1. count[req[r].award] \in Int \cup {Nil}
          BY <2>2 DEF TypeInv, TypeOK, StockTypeOK
    <3>2. QED BY <3>1 DEF Decremented
  <2>4. CASE v < 0
        BY <1>2, <2>1, <2>2, <2>4
  <2>5. CASE ~(v < 0)
    <3>1. /\ req' = [req EXCEPT ![r] = req'[r]]
          /\ req'[r] = [req[r] EXCEPT !.pc = "lock", !.left = v]
          BY <1>1, <2>1, <2>5
    <3>2. v \in Nat
          BY <2>3, <2>5
    <3>3. QED BY <1>1, <2>2, <3>1, <3>2
  <2>6. QED BY <2>4, <2>5
<1>11. CASE LockUnit(r)
  <2>1. CASE req' = [req EXCEPT ![r].pc = "send", ![r].unit = req[r].left]
        BY <1>1, <1>11, <2>1 DEF LockUnit
  <2>2. QED BY <1>1, <1>2, <1>11, <2>1 DEF LockUnit
<1>12. CASE UnitLocked(r)
      BY <1>1, <1>2, <1>12 DEF UnitLocked
<1>13. CASE SendQueue(r)
      BY <1>1, <1>2, <1>13, FailStep DEF SendQueue
<1>14. CASE BuildRaffleAward(r)
      BY <1>1, <1>14 DEF BuildRaffleAward, StrategyAward, AwardOrNil
<1>15. CASE RaffleFail(r)
      BY <1>15, FailStep DEF RaffleFail
<1>16. QED BY <1>3, <1>4, <1>5, <1>6, <1>7, <1>8, <1>9, <1>10, <1>11, <1>12, <1>13, <1>14, <1>15
           DEF RaffleStep

(* What a raffle step does to the stock: most steps nothing. *)
LEMMA RaffleStepFrame ==
    ASSUME NEW r, RaffleStep(r)
    PROVE  /\ UNCHANGED <<poolVars, row>>
           /\ DecrStock(r) \/ LockUnit(r) \/ SendQueue(r) \/ UNCHANGED <<stockVars, queue>>
BY DEF RaffleStep, BlackListLogic, WeightLogic, DefaultLogic, GetRateRange,
       GetStrategyAwardAssemble, OpenTree, LockNode, LuckAwardNode, DecrStock, LockUnit,
       UnitLocked, SendQueue, BuildRaffleAward, RaffleFail, poolVars, stockVars

(* Every step of PerformRaffle keeps the type invariant. *)
LEMMA RaffleStepType ==
    ASSUME TypeInv, NEW r \in Requests, RaffleStep(r)
    PROVE  TypeInv'
<1>1. UNCHANGED <<list, cachedList, rangeKey, table, asm, row>>
      BY RaffleStepFrame DEF poolVars
<1>2. PoolTypeOK' /\ \A m \in Assemblers : AssemblerAt(asm'[m])
      BY <1>1 DEF TypeInv, TypeOK, PoolTypeOK
<1>3. req' \in [Requests -> RaffleRec] /\ \A q \in Requests : RaffleAt(req'[q])
      BY RaffleStepShape DEF TypeInv, TypeOK
<1>4. StockTypeOK'
  <2>1. StockTypeOK /\ RaffleAt(req[r]) /\ req[r] \in RaffleRec
        BY DEF TypeInv, TypeOK
  <2>2. CASE DecrStock(r)
    <3>1. PICK v \in Decremented(req[r].award) : count' = [count EXCEPT ![req[r].award] = v]
          BY <2>2 DEF DecrStock
    <3>2. req[r].award \in Awards
          BY <2>1, <2>2 DEF DecrStock, InNode, RaffleAt
    <3>3. count[req[r].award] \in Int \cup {Nil}
          BY <2>1, <3>2 DEF StockTypeOK
    <3>4. v \in Int
          BY <3>3 DEF Decremented
    <3>5. QED BY <1>1, <2>1, <2>2, <3>1, <3>2, <3>4 DEF StockTypeOK, DecrStock
  <2>3. CASE LockUnit(r)
    <3>1. req[r].left \in Nat
          BY <2>1 DEF RaffleRec
    <3>2. QED BY <1>1, <2>1, <2>3, <3>1 DEF LockUnit, StockTypeOK
  <2>4. CASE SendQueue(r)
    <3>1. req[r].award \in Awards
          BY <2>1, <2>4 DEF SendQueue, RaffleAt
    <3>2. QED BY <1>1, <2>1, <2>4, <3>1 DEF SendQueue, Enqueue, StockTypeOK, stockVars
  <2>5. QED BY <1>1, <2>1, <2>2, <2>3, <2>4, RaffleStepFrame DEF StockTypeOK, stockVars
<1>5. QED BY <1>2, <1>3, <1>4 DEF TypeInv, TypeOK

(* Assembling: every pool that is stored fits its table. *)
LEMMA AssembleType ==
    ASSUME TypeInv, NEW m \in Assemblers, Assemble(m)
    PROVE  TypeInv'
<1>1. UNCHANGED <<list, req, count, locks, queue, row>>
      BY DEF Assemble, StartAssembly, StoreRange, StoreTable, AssemblyFail, stockVars
<1>2. /\ PoolTypeOK /\ asm[m] \in AssemblerRec /\ AssemblerAt(asm[m])
      /\ asm \in [Assemblers -> AssemblerRec]
      BY DEF TypeInv, TypeOK, PoolTypeOK
<1>3. \A x : x \in AssemblerRec /\ AssemblerAt(x) /\ asm' = [asm EXCEPT ![m] = x]
         => asm' \in [Assemblers -> AssemblerRec] /\ \A n \in Assemblers : AssemblerAt(asm'[n])
      BY <1>2 DEF TypeInv
<1>4. IdleAssembler \in AssemblerRec /\ AssemblerAt(IdleAssembler)
      BY ConstantFacts DEF IdleAssembler, AssemblerRec, AssemblerAt
<1> DEFINE Done == PoolTypeOK' /\ \A n \in Assemblers : AssemblerAt(asm'[n])
<1>5. ASSUME StartAssembly(m) PROVE Done
  <2> DEFINE x == [pc |-> "range", list |-> StrategyAwardList, pool |-> 0, todo |-> WeightPools]
  <2>1. StrategyAwardList \in Lists
        BY <1>2 DEF StrategyAwardList, PoolTypeOK
  <2>2. x \in AssemblerRec /\ AssemblerAt(x)
        BY <2>1, ConstantFacts DEF AssemblerRec, AssemblerAt, WeightPools
  <2>3. asm' \in [Assemblers -> AssemblerRec] /\ \A n \in Assemblers : AssemblerAt(asm'[n])
        BY <1>3, <1>5, <2>2 DEF StartAssembly
  <2>4. QED BY <1>1, <1>2, <1>5, <2>1, <2>3 DEF StartAssembly, PoolTypeOK
<1>6. ASSUME StoreRange(m) PROVE Done
  <2>1. asm[m].list \in Lists /\ asm[m].pool \in Pools
        BY <1>2, <1>6 DEF StoreRange, AssemblerAt, AssemblerRec
  <2>2. StoredRange(asm[m].list, AwardsOf(asm[m].pool)) \in 0..MaxEntries
        BY <2>1, PoolsFit DEF StoredRange
  <2>3. rangeKey' \in [Pools -> (0..MaxEntries) \cup {Nil}]
        BY <1>2, <1>6, <2>1, <2>2 DEF StoreRange, PoolTypeOK
  <2>4. asm' \in [Assemblers -> AssemblerRec] /\ \A n \in Assemblers : AssemblerAt(asm'[n])
    <3>1. asm' = [asm EXCEPT ![m] = [asm[m] EXCEPT !.pc = "table"]]
          BY <1>6 DEF StoreRange
    <3>2. [asm[m] EXCEPT !.pc = "table"] \in AssemblerRec
          /\ AssemblerAt([asm[m] EXCEPT !.pc = "table"])
          BY <1>2, <2>1 DEF AssemblerRec, AssemblerAt
    <3>3. QED BY <1>3, <3>1, <3>2
  <2>5. QED BY <1>1, <1>2, <1>6, <2>3, <2>4 DEF StoreRange, PoolTypeOK
<1>7. ASSUME StoreTable(m) PROVE Done
  <2> DEFINE p == asm[m].pool
             S == AwardsOf(p)
  <2>1. asm[m].list \in Lists /\ p \in Pools /\ S \subseteq Awards
        BY <1>2, <1>7, ConstantFacts DEF StoreTable, AssemblerAt, AssemblerRec
  <2>2. table' \in [Pools -> [Indexes -> AwardOrNil]]
    <3>1. table \in [Pools -> [Indexes -> AwardOrNil]]
          BY <1>2 DEF PoolTypeOK
    <3>2. ASSUME NEW t \in Shuffled(asm[m].list, S),
                 table' = [table EXCEPT ![p] =
                              [i \in Indexes |-> IF i \in DOMAIN t THEN t[i] ELSE @[i]]]
          PROVE  table' \in [Pools -> [Indexes -> AwardOrNil]]
      <4>1. \A i \in DOMAIN t : t[i] \in AwardOrNil
            BY <2>1 DEF Shuffled, AwardOrNil
      <4>2. [i \in Indexes |-> IF i \in DOMAIN t THEN t[i] ELSE table[p][i]] \in [Indexes -> AwardOrNil]
            BY <2>1, <3>1, <4>1
      <4>3. QED BY <3>1, <3>2, <4>2
    <3>3. QED BY <1>7, <3>1, <3>2 DEF StoreTable
  <2>3. asm' \in [Assemblers -> AssemblerRec] /\ \A n \in Assemblers : AssemblerAt(asm'[n])
    <3>1. CASE asm' = [asm EXCEPT ![m] = IdleAssembler]
          BY <1>3, <1>4, <3>1
    <3>2. ASSUME NEW q \in asm[m].todo,
                 asm' = [asm EXCEPT ![m].pc = "range", ![m].pool = q, ![m].todo = @ \ {q}]
          PROVE  asm' \in [Assemblers -> AssemblerRec] /\ \A n \in Assemblers : AssemblerAt(asm'[n])
      <4> DEFINE x == [asm[m] EXCEPT !.pc = "range", !.pool = q, !.todo = asm[m].todo \ {q}]
      <4>1. q \in Pools
            BY <1>2, <3>2, ConstantFacts DEF AssemblerRec
      <4>2. x \in AssemblerRec /\ AssemblerAt(x)
            BY <1>2, <2>1, <4>1 DEF AssemblerRec, AssemblerAt
      <4>3. asm' = [asm EXCEPT ![m] = x]
            BY <1>2, <3>2
      <4>4. QED BY <1>3, <4>2, <4>3
    <3>3. QED BY <1>7, <3>1, <3>2 DEF StoreTable
  <2>4. QED BY <1>1, <1>2, <1>7, <2>2, <2>3 DEF StoreTable, PoolTypeOK
<1>8. ASSUME AssemblyFail(m) PROVE Done
  <2>1. asm' \in [Assemblers -> AssemblerRec] /\ \A n \in Assemblers : AssemblerAt(asm'[n])
        BY <1>3, <1>4, <1>8 DEF AssemblyFail
  <2>2. QED BY <1>1, <1>2, <1>8, <2>1 DEF AssemblyFail, PoolTypeOK
<1>9. Done
      BY <1>5, <1>6, <1>7, <1>8 DEF Assemble
<1>10. QED BY <1>1, <1>9 DEF TypeInv, TypeOK, StockTypeOK

(* The asynq handler never takes a row below zero, and operators and expiry  *)
(* leave keys what they are.                                                *)
LEMMA OtherStepType ==
    ASSUME TypeInv, (\E a \in Awards : ProcessTask(a)) \/ Environment \/ UNCHANGED vars
    PROVE  TypeInv'
<1> USE DEF TypeInv, TypeOK
<1>1. ASSUME NEW a \in Awards, ProcessTask(a) PROVE TypeInv'
  <2>1. row' \in [Awards -> Nat] /\ queue' \in [Awards -> Nat]
        BY <1>1 DEF ProcessTask, RowServes, StockTypeOK
  <2>2. QED BY <1>1, <2>1 DEF ProcessTask, poolVars, stockVars, PoolTypeOK, StockTypeOK
<1>2. ASSUME NEW l \in Lists, Relist(l) PROVE TypeInv'
      BY <1>2 DEF Relist, stockVars, PoolTypeOK, StockTypeOK
<1>3. ASSUME NEW p \in Pools, PoolExpire(p) PROVE TypeInv'
      BY <1>3 DEF PoolExpire, stockVars, PoolTypeOK, StockTypeOK, AwardOrNil
<1>4. ASSUME NEW a \in Awards, NEW n \in 0..StockOf[a], RestoreStock(a, n) PROVE TypeInv'
  <2>1. count' \in [Awards -> Int \cup {Nil}]
        BY <1>4, ConstantFacts DEF RestoreStock, StockTypeOK
  <2>2. QED BY <1>4, <2>1 DEF RestoreStock, poolVars, PoolTypeOK, StockTypeOK
<1>5. ASSUME NEW a \in Awards, NEW u \in locks[a], LockExpire(a, u) PROVE TypeInv'
      BY <1>5 DEF LockExpire, poolVars, PoolTypeOK, StockTypeOK
<1>6. CASE UNCHANGED vars
      BY <1>6 DEF vars, poolVars, stockVars, PoolTypeOK, StockTypeOK
<1>7. QED BY <1>1, <1>2, <1>3, <1>4, <1>5, <1>6 DEF Environment

(* The type invariant holds in every reachable state. *)
LEMMA TypeInductive == Spec => []TypeInv
<1>1. TypeInv /\ [Next]_vars => TypeInv'
      BY RaffleStepType, AssembleType, OtherStepType DEF Next
<1>2. QED BY <1>1, InitTypeInv, PTL DEF Spec

(* PerformRaffle, the armory and the asynq handler keep keys, rows and       *)
(* local variables of their kind: no raffle leaves the nodes of its tree,    *)
(* no table is indexed outside its fields, no surplus goes below zero.      *)
THEOREM RaffleTypeCorrect == Spec => []TypeOK
<1>1. TypeInv => TypeOK
      BY DEF TypeInv
<1>2. QED BY <1>1, TypeInductive, PTL

----------------------------------------------------------------------------
(* What each step of a raffle leaves alone: its score, award and unit are    *)
(* set in one place each, its pool at the end of the chain.                 *)

(* Each field of a raffle is written by one step of the chain or the tree only. *)
LEMMA RaffleKeeps ==
    ASSUME TypeInv, NEW r \in Requests, RaffleStep(r)
    PROVE  /\ WeightLogic(r) \/ req'[r].score = req[r].score
           /\ GetStrategyAwardAssemble(r) \/ req'[r].award = req[r].award
           /\ LockUnit(r) \/ req'[r].unit = req[r].unit
           /\ req[r].pc = "chain" \/ req'[r].pool = req[r].pool
<1> USE DEF RaffleRec
<1>1. req \in [Requests -> RaffleRec] /\ req[r] \in RaffleRec /\ RaffleAt(req[r])
      BY DEF TypeInv, TypeOK
<1> DEFINE Kept == /\ req'[r].score = req[r].score /\ req'[r].award = req[r].award
                   /\ req'[r].unit = req[r].unit /\ req'[r].pool = req[r].pool
<1>2. ASSUME NEW check, NEW award \in Awards, Advance(r, check, award),
             req[r].pc \in {"node", "lock", "send"}
      PROVE  Kept
      BY <1>2, AdvanceStep
<1>3. ASSUME Fail(r) PROVE Kept
  <2>1. req'[r] = [req[r] EXCEPT !.pc = "failed"]
        BY <1>3, FailStep
  <2>2. QED BY <1>1, <2>1
<1>4. CASE BlackListLogic(r)
  <2>1. req[r].pc = "chain"
        BY <1>4 DEF BlackListLogic, AtNode
  <2>2. \/ req'[r] = [req[r] EXCEPT !.pc = "build", !.result = BlackAward]
        \/ req'[r] = [req[r] EXCEPT !.step = req[r].step + 1]
        BY <1>1, <1>4 DEF BlackListLogic, NextInChain
  <2>3. Kept
        BY <1>1, <2>2
  <2>4. QED BY <2>3
<1>5. CASE DefaultLogic(r)
  <2>1. req'[r] = [req[r] EXCEPT !.pc = "range", !.pool = 0] /\ req[r].pc = "chain"
        BY <1>1, <1>5 DEF DefaultLogic, AtNode
  <2>2. QED BY <1>1, <2>1
<1>6. CASE WeightLogic(r)
  <2>1. req[r].pc = "chain"
        BY <1>6 DEF WeightLogic, AtNode
  <2>2. \E score \in Scores :
          \/ req'[r] = [req[r] EXCEPT !.score = score, !.step = req[r].step + 1]
          \/ req'[r] = [req[r] EXCEPT !.score = score, !.pc = "range", !.pool = Max(Reached(score))]
        BY <1>1, <1>6 DEF WeightLogic
  <2>3. req'[r].award = req[r].award /\ req'[r].unit = req[r].unit
        BY <1>1, <2>2
  <2>4. QED BY <1>6, <2>1, <2>3
<1>7. CASE GetRateRange(r)
  <2>1. CASE Fail(r)
        BY <1>3, <2>1
  <2>2. CASE req' = [req EXCEPT ![r].pc = "index", ![r].range = rangeKey[req[r].pool]]
    <3>1. req'[r] = [req[r] EXCEPT !.pc = "index", !.range = rangeKey[req[r].pool]]
          BY <1>1, <2>2
    <3>2. Kept
          BY <1>1, <3>1
    <3>3. QED BY <3>2
  <2>3. QED BY <1>7, <2>1, <2>2 DEF GetRateRange
<1>8. CASE GetStrategyAwardAssemble(r)
  <2>1. CASE Fail(r)
        BY <1>3, <2>1
  <2>2. ASSUME NEW award, NEW label,
               req' = [req EXCEPT ![r].pc = label, ![r].award = award, ![r].result = award]
        PROVE  req'[r].score = req[r].score /\ req'[r].unit = req[r].unit /\ req'[r].pool = req[r].pool
    <3>1. req'[r] = [req[r] EXCEPT !.pc = label, !.award = award, !.result = award]
          BY <1>1, <2>2
    <3>2. QED BY <1>1, <3>1
  <2>3. QED BY <1>8, <2>1, <2>2 DEF GetStrategyAwardAssemble
<1>9. CASE OpenTree(r)
  <2>1. CASE Fail(r)
        BY <1>3, <2>1
  <2>2. CASE Goto(r, "build")
    <3>1. req'[r] = [req[r] EXCEPT !.pc = "build"]
          BY <1>1, <2>2 DEF Goto
    <3>2. Kept
          BY <1>1, <3>1
    <3>3. QED BY <3>2
  <2>3. CASE req' = [req EXCEPT ![r].pc = "node", ![r].node = Root]
    <3>1. req'[r] = [req[r] EXCEPT !.pc = "node", !.node = Root]
          BY <1>1, <2>3
    <3>2. Kept
          BY <1>1, <3>1
    <3>3. QED BY <3>2
  <2>4. QED BY <1>9, <2>1, <2>2, <2>3 DEF OpenTree
<1>10. CASE LockNode(r) \/ LuckAwardNode(r) \/ UnitLocked(r)
  <2>1. Kept
        BY <1>1, <1>2, <1>10, ConstantFacts DEF LockNode, LuckAwardNode, UnitLocked, InNode, RaffleAt
  <2>2. QED BY <2>1
<1>11. CASE DecrStock(r)
  <2>1. req[r].pc = "node" /\ req[r].award \in Awards
        BY <1>1, <1>11 DEF DecrStock, InNode, RaffleAt
  <2>2. ASSUME Advance(r, NoStock, req[r].award) PROVE Kept
        BY <1>2, <2>1, <2>2
  <2>3. ASSUME NEW v, req' = [req EXCEPT ![r].pc = "lock", ![r].left = v] PROVE Kept
    <3>1. req'[r] = [req[r] EXCEPT !.pc = "lock", !.left = v]
          BY <1>1, <2>3
    <3>2. QED BY <1>1, <3>1
  <2>4. Kept
        BY <1>11, <2>2, <2>3 DEF DecrStock
  <2>5. QED BY <2>4
<1>12. CASE LockUnit(r)
  <2>1. req[r].pc = "lock" /\ req[r].award \in Awards
        BY <1>1, <1>12 DEF LockUnit, RaffleAt
  <2>2. CASE Advance(r, NoStock, req[r].award)
        BY <1>2, <2>1, <2>2
  <2>3. CASE req' = [req EXCEPT ![r].pc = "send", ![r].unit = req[r].left]
    <3>1. req'[r] = [req[r] EXCEPT !.pc = "send", !.unit = req[r].left]
          BY <1>1, <2>3
    <3>2. QED BY <1>1, <1>12, <3>1
  <2>4. QED BY <1>12, <2>2, <2>3 DEF LockUnit
<1>13. CASE SendQueue(r) \/ RaffleFail(r) \/ BuildRaffleAward(r)
  <2>1. CASE Fail(r)
        BY <1>3, <2>1
  <2>2. CASE SendQueue(r) /\ Advance(r, "ALLOW", req[r].award)
        BY <1>1, <1>2, <2>2 DEF SendQueue, RaffleAt
  <2>3. CASE BuildRaffleAward(r)
    <3>1. req'[r] = [req[r] EXCEPT !.pc = "done", !.result = StrategyAward(req[r].result)]
          BY <1>1, <2>3 DEF BuildRaffleAward
    <3>2. Kept
          BY <1>1, <3>1
    <3>3. QED BY <3>2
  <2>4. QED BY <1>13, <2>1, <2>2, <2>3 DEF SendQueue, RaffleFail
<1>14. QED BY <1>4, <1>5, <1>6, <1>7, <1>8, <1>9, <1>10, <1>11, <1>12, <1>13 DEF RaffleStep

----------------------------------------------------------------------------
(* The pool a raffle is drawn from *)

(* A rate table only ever holds awards of its pool, whichever assemblies     *)
(* wrote it and whatever was left from earlier ones.                        *)
TableOfPool == \A p \in Pools : \A i \in Indexes : table[p][i] \in AwardsOf(p) \cup {Nil}

(* A raffle whose user reached a weight. *)
WeightAt(q) ==
    q.score # Nil /\ Reached(q.score) # {} =>
        /\ q.pool = Max(Reached(q.score))
        /\ q.pc \in {"range", "index", "build", "done", "failed"}
        /\ q.pc \in {"build", "done"} => q.result \in WeightAwards[q.pool] \cup {Nil}

WeightInv == TypeInv /\ TableOfPool /\ \A r \in Requests : WeightAt(req[r])

(* The armory writes into a table only awards of the pool it is for. *)
LEMMA TableKept ==
    ASSUME WeightInv, [Next]_vars
    PROVE  TableOfPool'
<1>1. TableOfPool /\ TypeInv /\ table \in [Pools -> [Indexes -> AwardOrNil]]
      BY DEF WeightInv, TypeInv, TypeOK, PoolTypeOK
<1>2. CASE UNCHANGED table
      BY <1>1, <1>2 DEF TableOfPool
<1>3. ASSUME NEW m \in Assemblers, StoreTable(m) PROVE TableOfPool'
  <2> DEFINE p == asm[m].pool
             S == AwardsOf(p)
  <2>1. p \in Pools
        BY <1>1 DEF TypeInv, TypeOK, PoolTypeOK, AssemblerRec
  <2>2. ASSUME NEW t \in Shuffled(asm[m].list, S),
               table' = [table EXCEPT ![p] =
                            [i \in Indexes |-> IF i \in DOMAIN t THEN t[i] ELSE @[i]]]
        PROVE  TableOfPool'
    <3>1. \A i \in DOMAIN t : t[i] \in S
          BY DEF Shuffled
    <3>2. \A i \in Indexes : table'[p][i] = IF i \in DOMAIN t THEN t[i] ELSE table[p][i]
          BY <1>1, <2>1, <2>2
    <3>3. \A o \in Pools : o # p => table'[o] = table[o]
          BY <1>1, <2>2
    <3>4. QED BY <1>1, <3>1, <3>2, <3>3 DEF TableOfPool
  <2>3. QED BY <1>2, <1>3, <2>2 DEF StoreTable
<1>4. ASSUME NEW p \in Pools, PoolExpire(p) PROVE TableOfPool'
      BY <1>1, <1>4 DEF PoolExpire, TableOfPool
<1>5. QED
      BY <1>2, <1>3, <1>4, RaffleStepFrame
      DEF Next, Assemble, StartAssembly, StoreRange, AssemblyFail, ProcessTask, Environment, Relist,
          RestoreStock, LockExpire, vars, poolVars

(* A raffle draws from the pool that its own score reached. *)
LEMMA RaffleKeepsWeight ==
    ASSUME WeightInv, NEW r \in Requests, RaffleStep(r)
    PROVE  WeightAt(req'[r])
<1>1. /\ TypeInv /\ TableOfPool /\ WeightAt(req[r]) /\ req \in [Requests -> RaffleRec]
      /\ req[r] \in RaffleRec /\ RaffleAt(req[r])
      BY DEF WeightInv, TypeInv, TypeOK
<1> SUFFICES ASSUME req'[r].score # Nil, Reached(req'[r].score) # {}
             PROVE  WeightAt(req'[r])
    BY DEF WeightAt
<1>2. CASE WeightLogic(r)
  <2>1. PICK score \in Scores :
          \/ /\ Reached(score) = {}
             /\ req' = [req EXCEPT ![r].score = score, ![r].step = @ + 1]
          \/ /\ Reached(score) # {}
             /\ req' = [req EXCEPT ![r].score = score, ![r].pc = "range",
                                   ![r].pool = Max(Reached(score))]
        BY <1>2 DEF WeightLogic
  <2>2. req'[r].score = score
        BY <1>1, <2>1 DEF RaffleRec
  <2>3. req' = [req EXCEPT ![r].score = score, ![r].pc = "range", ![r].pool = Max(Reached(score))]
        BY <2>1, <2>2
  <2>4. req'[r].pc = "range" /\ req'[r].pool = Max(Reached(req'[r].score))
        BY <1>1, <2>2, <2>3 DEF RaffleRec
  <2>5. QED BY <2>4 DEF WeightAt
<1>3. CASE ~WeightLogic(r)
  <2>1. /\ req'[r].score = req[r].score /\ req[r].pc \in {"range", "index", "build", "done", "failed"}
        /\ req[r].pool = Max(Reached(req[r].score)) /\ req[r].score \in Nat
        BY <1>1, <1>3, RaffleKeeps, ConstantFacts DEF WeightAt, RaffleRec
  <2>2. req'[r].pool = req[r].pool
        BY <1>1, <2>1, RaffleKeeps
  <2>3. req[r].pool \in Weights
        BY <2>1, MaxReached DEF Reached
  <2>4. req[r].pool # 0 /\ AwardsOf(req[r].pool) \subseteq WeightAwards[req[r].pool]
        BY <2>3, ConfigAssumption DEF AwardsOf
  <2>5. \/ GetRateRange(r) \/ GetStrategyAwardAssemble(r) \/ BuildRaffleAward(r) \/ RaffleFail(r)
        BY <1>3, <2>1
        DEF RaffleStep, BlackListLogic, DefaultLogic, AtNode, OpenTree, LockNode, LuckAwardNode,
            DecrStock, InNode, LockUnit, UnitLocked, SendQueue
  <2>6. \/ req'[r].pc \in {"index", "failed"}
        \/ req'[r].pc \in {"build", "done"} /\ req'[r].result \in WeightAwards[req[r].pool] \cup {Nil}
    <3>1. CASE Fail(r)
          BY <1>1, <3>1 DEF Fail, Goto, RaffleRec
    <3>2. CASE GetRateRange(r)
      <4>1. CASE req' = [req EXCEPT ![r].pc = "index", ![r].range = rangeKey[req[r].pool]]
        <5>1. req'[r] = [req[r] EXCEPT !.pc = "index", !.range = rangeKey[req[r].pool]]
              BY <1>1, <4>1
        <5>2. QED BY <1>1, <5>1 DEF RaffleRec
      <4>2. QED BY <3>1, <3>2, <4>1 DEF GetRateRange
    <3>3. CASE GetStrategyAwardAssemble(r)
      <4>1. PICK i \in 0..(req[r].range - 1) :
              LET award == table[req[r].pool][i]
              IN  IF award = Nil THEN Fail(r)
                  ELSE req' = [req EXCEPT ![r].pc = IF req[r].pool = 0 THEN "tree" ELSE "build",
                                          ![r].award = award, ![r].result = award]
            BY <3>3 DEF GetStrategyAwardAssemble
      <4>2. i \in Indexes
        <5>1. req[r].range \in 0..MaxEntries /\ MaxEntries \in Nat
              BY <1>1, ConstantFacts DEF RaffleRec
        <5>2. QED BY <5>1 DEF Indexes
      <4>3. table[req[r].pool][i] \in WeightAwards[req[r].pool] \cup {Nil}
            BY <1>1, <2>3, <2>4, <4>2, ConstantFacts DEF TableOfPool
      <4>4. CASE table[req[r].pool][i] # Nil
        <5> DEFINE award == table[req[r].pool][i]
        <5>1. req' = [req EXCEPT ![r].pc = "build", ![r].award = award, ![r].result = award]
              BY <2>4, <4>1, <4>4
        <5> HIDE DEF award
        <5>2. req'[r] = [req[r] EXCEPT !.pc = "build", !.award = award, !.result = award]
              BY <1>1, <5>1
        <5>3. req'[r].pc = "build" /\ req'[r].result = award
              BY <1>1, <5>2 DEF RaffleRec
        <5>4. QED BY <4>3, <5>3 DEF award
      <4>5. QED BY <3>1, <4>1, <4>4
    <3>4. CASE BuildRaffleAward(r)
      <4>1. req[r].pc = "build" /\ req' = [req EXCEPT ![r].pc = "done", ![r].result = StrategyAward(@)]
            BY <3>4 DEF BuildRaffleAward
      <4>2. req'[r].pc = "done" /\ req'[r].result = StrategyAward(req[r].result)
            BY <1>1, <4>1 DEF RaffleRec
      <4>3. QED BY <1>1, <2>1, <4>1, <4>2 DEF WeightAt, StrategyAward
    <3>5. QED BY <2>5, <3>1, <3>2, <3>3, <3>4 DEF RaffleFail
  <2>7. QED BY <2>1, <2>2, <2>6 DEF WeightAt
<1>4. QED BY <1>2, <1>3

(* Only raffle steps change raffles. *)
LEMMA OthersKeepRaffles ==
    ASSUME [Next]_vars, \A r \in Requests : ~RaffleStep(r)
    PROVE  UNCHANGED req
BY DEF Next, Assemble, StartAssembly, StoreRange, StoreTable, AssemblyFail, ProcessTask,
       Environment, Relist, PoolExpire, RestoreStock, LockExpire, vars

(* WeightLogic, the armory and getRandomAwardID: a raffle is drawn from the  *)
(* pool of the largest weight its user reached and wins an award of that     *)
(* weight, for any rules and rates, with any number of assemblies at once.  *)
THEOREM WeightsRespected == Spec => []WeightedDraw
<1>1. Init => WeightInv
  <2> SUFFICES ASSUME Init PROVE WeightInv
      OBVIOUS
  <2>1. TableOfPool /\ \A r \in Requests : WeightAt(req[r])
        BY DEF Init, TableOfPool, WeightAt, NewRaffle
  <2>2. QED BY <2>1, InitTypeInv DEF WeightInv
<1>2. WeightInv /\ TypeInv' /\ [Next]_vars => WeightInv'
  <2> SUFFICES ASSUME WeightInv, TypeInv', [Next]_vars PROVE WeightInv'
      OBVIOUS
  <2>1. \A q \in Requests : WeightAt(req'[q])
    <3>1. ASSUME NEW r \in Requests, RaffleStep(r), NEW q \in Requests PROVE WeightAt(req'[q])
      <4>1. CASE q = r
            BY <3>1, <4>1, RaffleKeepsWeight
      <4>2. CASE q # r
        <5>1. req'[q] = req[q]
              BY <3>1, <4>2, RaffleStepShape DEF WeightInv, TypeInv, TypeOK
        <5>2. QED BY <5>1 DEF WeightInv
      <4>3. QED BY <4>1, <4>2
    <3>2. CASE UNCHANGED req
          BY <3>2 DEF WeightInv
    <3>3. QED BY <3>1, <3>2, OthersKeepRaffles
  <2>2. QED BY <2>1, TableKept DEF WeightInv
<1>3. WeightInv => WeightedDraw
      BY DEF WeightInv, WeightAt, WeightedDraw
<1>4. QED BY <1>1, <1>2, <1>3, TypeInductive, PTL DEF Spec

----------------------------------------------------------------------------
(* The pools *)

(* What the fields of a pool that a draw can hit should be. *)
Matches(p) ==
    \E l \in Lists : [i \in 0..(rangeKey[p] - 1) |-> table[p][i]] \in Shuffled(l, AwardsOf(p))

(* An assembler about to write the fields of a pool has written its range,   *)
(* which may have expired since.                                            *)
RangeFirst ==
    \A m \in Assemblers : asm[m].pc = "table" =>
       rangeKey[asm[m].pool] \in {Nil, PoolSize(asm[m].list, AwardsOf(asm[m].pool))}

PoolInv == TypeInv /\ RangeFirst /\ PoolMatchesList

(* The rates of the awards of a pool are numbers. *)
LEMMA PoolsAreRated ==
    ASSUME NEW l \in Lists, NEW p \in Pools
    PROVE  Rated(l, AwardsOf(p))
<1>1. l \in [Awards -> Nat] /\ AwardsOf(p) \subseteq Awards
      BY ConfigAssumption, ConstantFacts
<1>2. IsFiniteSet(AwardsOf(p))
      BY <1>1, ConfigAssumption, FS_Subset
<1>3. QED BY <1>1, <1>2 DEF Rated

(* StoreStrategyAwardPool leaves a pool whose fields, as far as its range     *)
(* goes, are those of the list it was assembled from; also one without an    *)
(* index, for which the HSET fails.                                         *)
LEMMA TableMatches ==
    ASSUME PoolInv, NEW m \in Assemblers, StoreTable(m), NEW p \in Pools, p = asm[m].pool
    PROVE  rangeKey'[p] = Nil \/ Matches(p)'
<1>1. PICK l \in Lists : l = asm[m].list
      BY DEF PoolInv, TypeInv, AssemblerAt, StoreTable
<1>2. PICK S : S = AwardsOf(p)
      OBVIOUS
<1>3. PICK n \in Nat : n = PoolSize(l, S) /\ n <= MaxEntries
      BY <1>2, PoolsFit, ConfigAssumption
<1>4. rangeKey' = rangeKey /\ rangeKey[p] \in {Nil, n}
      BY <1>1, <1>2, <1>3 DEF PoolInv, RangeFirst, StoreTable
<1>5. SUFFICES ASSUME rangeKey[p] = n
               PROVE  [i \in 0..(n - 1) |-> table'[p][i]] \in Shuffled(l, S)
      BY <1>2, <1>4 DEF Matches
<1>6. CASE n = 0
  <2>1. 0..(n - 1) = {}
        BY <1>6
  <2>2. \A a \in S : Count(l, S, a) = 0
        BY <1>2, <1>3, <1>6, PoolsAreRated, PoolTypes
  <2>3. PICK t : t = [i \in 0..(n - 1) |-> table'[p][i]]
        OBVIOUS
  <2>4. t \in [0..(n - 1) -> S] /\ DOMAIN t = {}
        BY <2>1, <2>3
  <2>5. \A a \in S : Cardinality({i \in DOMAIN t : t[i] = a}) = Count(l, S, a)
    <3>1. \A a \in S : {i \in DOMAIN t : t[i] = a} = {}
          BY <2>4
    <3>2. QED BY <2>2, <3>1, FS_EmptySet
  <2>6. QED BY <1>3, <2>3, <2>4, <2>5 DEF Shuffled
<1>7. CASE n # 0
  <2>1. PICK t \in Shuffled(l, S) :
           table' = [table EXCEPT ![p] = [i \in Indexes |-> IF i \in DOMAIN t THEN t[i] ELSE @[i]]]
    <3>1. PoolSize(asm[m].list, AwardsOf(asm[m].pool)) # 0
          BY <1>1, <1>2, <1>3, <1>7
    <3>2. \E t \in Shuffled(asm[m].list, AwardsOf(asm[m].pool)) :
             table' = [table EXCEPT ![asm[m].pool] =
                          [i \in Indexes |-> IF i \in DOMAIN t THEN t[i] ELSE @[i]]]
          BY <3>1 DEF StoreTable
    <3>3. Shuffled(asm[m].list, AwardsOf(asm[m].pool)) = Shuffled(l, S)
          BY <1>1, <1>2
    <3>4. PICK t \in Shuffled(l, S) :
             table' = [table EXCEPT ![asm[m].pool] =
                          [i \in Indexes |-> IF i \in DOMAIN t THEN t[i] ELSE @[i]]]
          BY <3>2, <3>3, Zenon
    <3>5. table' = [table EXCEPT ![p] = [i \in Indexes |-> IF i \in DOMAIN t THEN t[i] ELSE @[i]]]
          BY <3>4
    <3>6. QED BY <3>5
  <2>2. t \in [0..(n - 1) -> S]
        BY <1>3 DEF Shuffled
  <2>3. \A i \in 0..(n - 1) : i \in Indexes
        BY <1>3, ConfigAssumption DEF Indexes
  <2>4. table \in [Pools -> [Indexes -> AwardOrNil]]
        BY DEF PoolInv, TypeInv, TypeOK, PoolTypeOK
  <2>5. \A i \in 0..(n - 1) : table'[p][i] = t[i]
        BY <2>1, <2>2, <2>3, <2>4
  <2>6. [i \in 0..(n - 1) |-> table'[p][i]] = t
        BY <2>2, <2>5
  <2>7. QED BY <2>1, <2>6
<1>8. QED BY <1>6, <1>7

(* Every step of one assembler, and of everything else, keeps the pools. *)
LEMMA PoolsKept ==
    ASSUME PoolInv, [Next]_vars, "asmFail" \notin Faults, \A m, n \in Assemblers : m = n
    PROVE  RangeFirst' /\ PoolMatchesList'
<1>1. /\ TypeInv /\ RangeFirst /\ PoolMatchesList
      /\ rangeKey \in [Pools -> (0..MaxEntries) \cup {Nil}]
      /\ table \in [Pools -> [Indexes -> AwardOrNil]]
      /\ asm \in [Assemblers -> AssemblerRec]
      BY DEF PoolInv, TypeInv, TypeOK, PoolTypeOK
<1>2. \A p \in Pools : \/ rangeKey[p] = Nil \/ table[p] = [i \in Indexes |-> Nil]
                       \/ \E m \in Assemblers : asm[m].pc = "table" /\ asm[m].pool = p
                       \/ Matches(p)
      BY <1>1 DEF PoolMatchesList, Matches
<1>3. (\A p \in Pools : \/ rangeKey'[p] = Nil \/ table'[p] = [i \in Indexes |-> Nil]
                        \/ \E m \in Assemblers : asm'[m].pc = "table" /\ asm'[m].pool = p
                        \/ Matches(p)') => PoolMatchesList'
      BY DEF PoolMatchesList, Matches
<1>4. ASSUME NEW p \in Pools, rangeKey'[p] = rangeKey[p], table'[p] = table[p]
      PROVE  Matches(p) => Matches(p)'
      BY <1>4 DEF Matches
<1>5. CASE UNCHANGED <<rangeKey, table, asm>>
      BY <1>1, <1>2, <1>3, <1>4, <1>5 DEF RangeFirst
<1>6. ASSUME NEW m \in Assemblers, StartAssembly(m) PROVE RangeFirst' /\ PoolMatchesList'
  <2>1. asm[m].pc = "idle" /\ asm'[m].pc = "range" /\ rangeKey' = rangeKey /\ table' = table
        BY <1>1, <1>6 DEF StartAssembly
  <2>2. QED BY <1>2, <1>3, <1>4, <2>1 DEF RangeFirst
<1>7. ASSUME NEW m \in Assemblers, StoreRange(m) PROVE RangeFirst' /\ PoolMatchesList'
  <2>1. PICK p \in Pools : p = asm[m].pool
        BY <1>1 DEF AssemblerRec
  <2>2. /\ asm[m].pc = "range" /\ asm'[m].pc = "table" /\ asm'[m].pool = p
        /\ asm'[m].list = asm[m].list /\ table' = table
        BY <1>1, <1>7, <2>1 DEF StoreRange, AssemblerRec
  <2>3. /\ rangeKey'[p] = PoolSize(asm[m].list, AwardsOf(p))
        /\ \A q \in Pools : q # p => rangeKey'[q] = rangeKey[q]
        BY <1>1, <1>7, <2>1 DEF StoreRange, StoredRange
  <2>4. RangeFirst'
        BY <2>2, <2>3 DEF RangeFirst
  <2>5. QED BY <1>2, <1>3, <1>4, <2>2, <2>3, <2>4
<1>8. ASSUME NEW m \in Assemblers, StoreTable(m) PROVE RangeFirst' /\ PoolMatchesList'
  <2>1. PICK p \in Pools : p = asm[m].pool
        BY <1>1 DEF AssemblerRec
  <2>2. /\ asm[m].pc = "table" /\ asm'[m].pc # "table" /\ rangeKey' = rangeKey
        /\ \A q \in Pools : q # p => table'[q] = table[q]
    <3>1. asm'[m].pc # "table"
      <4>1. CASE asm' = [asm EXCEPT ![m] = IdleAssembler]
            BY <1>1, <4>1 DEF IdleAssembler
      <4>2. ASSUME NEW q \in asm[m].todo,
                   asm' = [asm EXCEPT ![m].pc = "range", ![m].pool = q, ![m].todo = @ \ {q}]
            PROVE  asm'[m].pc # "table"
        <5>1. asm'[m] = [asm[m] EXCEPT !.pc = "range", !.pool = q, !.todo = asm[m].todo \ {q}]
              BY <1>1, <4>2
        <5>2. QED BY <1>1, <5>1 DEF AssemblerRec
      <4>3. QED BY <1>8, <4>1, <4>2 DEF StoreTable
    <3>2. \A q \in Pools : q # p => table'[q] = table[q]
          BY <1>1, <1>8, <2>1 DEF StoreTable
    <3>3. QED BY <1>8, <3>1, <3>2 DEF StoreTable
  <2>3. rangeKey'[p] = Nil \/ Matches(p)'
        BY <1>8, <2>1, TableMatches
  <2>4. RangeFirst'
        BY <2>2 DEF RangeFirst
  <2>5. QED BY <1>2, <1>3, <1>4, <2>1, <2>2, <2>3, <2>4
<1>9. ASSUME NEW p \in Pools, PoolExpire(p) PROVE RangeFirst' /\ PoolMatchesList'
  <2>1. /\ asm' = asm /\ \A q \in Pools : q # p => rangeKey'[q] = rangeKey[q] /\ table'[q] = table[q]
        /\ \/ rangeKey'[p] = Nil
           \/ table'[p] = [i \in Indexes |-> Nil] /\ rangeKey'[p] = rangeKey[p]
        BY <1>1, <1>9 DEF PoolExpire
  <2>2. RangeFirst'
        BY <1>1, <2>1 DEF RangeFirst, AssemblerRec
  <2>3. QED BY <1>2, <1>3, <1>4, <2>1, <2>2
<1>10. QED
      BY <1>5, <1>6, <1>7, <1>8, <1>9, RaffleStepFrame
      DEF Next, Assemble, AssemblyFail, ProcessTask, Environment, Relist, RestoreStock, LockExpire,
          vars, poolVars

(* assembleLotteryStrategy: while assemblies run one at a time and to their   *)
(* end, the fields a draw can hit are those of one award list, for any lists *)
(* and weights, though old fields stay beyond the end of a table, the range   *)
(* is written first and keys expire.  Two assemblies at once, or one that     *)
(* ends between range and table, break it.                                  *)
THEOREM PoolsAreOfOneList ==
    ASSUME "asmFail" \notin Faults, \A m, n \in Assemblers : m = n
    PROVE  Spec => []PoolMatchesList
<1>1. Init => PoolInv
      BY InitTypeInv DEF Init, PoolInv, RangeFirst, PoolMatchesList, IdleAssembler
<1>2. PoolInv /\ TypeInv' /\ [Next]_vars => PoolInv'
      BY PoolsKept DEF PoolInv
<1>3. PoolInv => PoolMatchesList
      BY DEF PoolInv
<1>4. QED BY <1>1, <1>2, <1>3, TypeInductive, PTL DEF Spec

----------------------------------------------------------------------------
(* Where a raffle goes *)

(* The steps that walk the rule tree. *)
Walks(r) == \/ LockNode(r) \/ LuckAwardNode(r) \/ DecrStock(r) \/ LockUnit(r)
            \/ UnitLocked(r) \/ SendQueue(r)

(* The action behind each place in the program. *)
LEMMA RaffleGoes ==
    ASSUME TypeInv, NEW r \in Requests, RaffleStep(r)
    PROVE  /\ req'[r].pc = "send" => LockUnit(r)
           /\ req'[r].pc = "lock" => DecrStock(r)
           /\ req'[r].pc = "tree" => GetStrategyAwardAssemble(r)
           /\ req'[r].pc \in {"chain", "range", "index"} => req[r].pc \in {"chain", "range"}
           /\ req'[r].pc = "node" => OpenTree(r) \/ Walks(r)
<1> USE DEF RaffleRec
<1>1. req \in [Requests -> RaffleRec] /\ req[r] \in RaffleRec /\ RaffleAt(req[r])
      BY DEF TypeInv, TypeOK
<1> DEFINE To(S) == req'[r].pc \in S
<1>2. ASSUME NEW label, req' = [req EXCEPT ![r].pc = label] PROVE To({label})
      BY <1>1, <1>2
<1>3. ASSUME Fail(r) PROVE To({"failed"})
      BY <1>2, <1>3 DEF Fail, Goto
<1>4. ASSUME NEW check, NEW award \in Awards, Advance(r, check, award),
             req[r].pc \in {"node", "lock", "send"}
      PROVE  To({"node", "build", "failed"})
      BY <1>4, AdvanceStep
<1>5. CASE BlackListLogic(r)
  <2>1. req[r].pc = "chain"
        BY <1>5 DEF BlackListLogic, AtNode
  <2>2. \/ req'[r] = [req[r] EXCEPT !.pc = "build", !.result = BlackAward]
        \/ req'[r] = [req[r] EXCEPT !.step = req[r].step + 1]
        BY <1>1, <1>5 DEF BlackListLogic, NextInChain
  <2>3. To({"build", "chain"})
        BY <1>1, <2>1, <2>2
  <2>4. QED BY <2>1, <2>3
<1>6. CASE DefaultLogic(r)
  <2>1. req'[r] = [req[r] EXCEPT !.pc = "range", !.pool = 0] /\ req[r].pc = "chain"
        BY <1>1, <1>6 DEF DefaultLogic, AtNode
  <2>2. QED BY <1>1, <2>1
<1>7. CASE WeightLogic(r)
  <2>1. req[r].pc = "chain"
        BY <1>7 DEF WeightLogic, AtNode
  <2>2. \E score \in Scores :
          \/ req'[r] = [req[r] EXCEPT !.score = score, !.step = req[r].step + 1]
          \/ req'[r] = [req[r] EXCEPT !.score = score, !.pc = "range", !.pool = Max(Reached(score))]
        BY <1>1, <1>7 DEF WeightLogic
  <2>3. To({"chain", "range"})
        BY <1>1, <2>1, <2>2
  <2>4. QED BY <2>1, <2>3
<1>8. CASE GetRateRange(r)
  <2>1. ASSUME req' = [req EXCEPT ![r].pc = "index", ![r].range = rangeKey[req[r].pool]]
        PROVE  To({"index"})
    <3>1. req'[r] = [req[r] EXCEPT !.pc = "index", !.range = rangeKey[req[r].pool]]
          BY <1>1, <2>1
    <3>2. QED BY <1>1, <3>1
  <2>2. To({"index", "failed"}) /\ req[r].pc = "range"
        BY <1>3, <1>8, <2>1 DEF GetRateRange
  <2>3. QED BY <2>2
<1>9. CASE GetStrategyAwardAssemble(r)
  <2>1. ASSUME NEW award, NEW label \in {"tree", "build"},
               req' = [req EXCEPT ![r].pc = label, ![r].award = award, ![r].result = award]
        PROVE  To({"tree", "build"})
    <3>1. req'[r] = [req[r] EXCEPT !.pc = label, !.award = award, !.result = award]
          BY <1>1, <2>1
    <3>2. QED BY <1>1, <3>1
  <2>2. To({"tree", "build", "failed"})
        BY <1>3, <1>9, <2>1 DEF GetStrategyAwardAssemble
  <2>3. QED BY <1>9, <2>2
<1>10. CASE OpenTree(r)
  <2>1. ASSUME req' = [req EXCEPT ![r].pc = "node", ![r].node = Root] PROVE To({"node"})
    <3>1. req'[r] = [req[r] EXCEPT !.pc = "node", !.node = Root]
          BY <1>1, <2>1
    <3>2. QED BY <1>1, <3>1
  <2>2. To({"build", "node", "failed"})
        BY <1>2, <1>3, <1>10, <2>1 DEF OpenTree, Goto
  <2>3. QED BY <1>10, <2>2
<1>11. CASE LockNode(r) \/ LuckAwardNode(r) \/ UnitLocked(r) \/ SendQueue(r)
  <2>1. To({"node", "build", "failed"})
        BY <1>1, <1>3, <1>4, <1>11, ConstantFacts
        DEF LockNode, LuckAwardNode, UnitLocked, SendQueue, InNode, RaffleAt
  <2>2. QED BY <1>11, <2>1 DEF Walks
<1>12. CASE DecrStock(r)
  <2>1. req[r].pc = "node" /\ req[r].award \in Awards
        BY <1>1, <1>12 DEF DecrStock, InNode, RaffleAt
  <2>2. ASSUME NEW v, req' = [req EXCEPT ![r].pc = "lock", ![r].left = v] PROVE To({"lock"})
    <3>1. req'[r] = [req[r] EXCEPT !.pc = "lock", !.left = v]
          BY <1>1, <2>2
    <3>2. QED BY <1>1, <3>1
  <2>3. To({"lock", "node", "build", "failed"})
        BY <1>4, <1>12, <2>1, <2>2 DEF DecrStock
  <2>4. QED BY <1>12, <2>3 DEF Walks
<1>13. CASE LockUnit(r)
  <2>1. req[r].pc = "lock" /\ req[r].award \in Awards
        BY <1>1, <1>13 DEF LockUnit, RaffleAt
  <2>2. ASSUME req' = [req EXCEPT ![r].pc = "send", ![r].unit = req[r].left] PROVE To({"send"})
    <3>1. req'[r] = [req[r] EXCEPT !.pc = "send", !.unit = req[r].left]
          BY <1>1, <2>2
    <3>2. QED BY <1>1, <3>1
  <2>3. To({"send", "node", "build", "failed"})
        BY <1>4, <1>13, <2>1, <2>2 DEF LockUnit
  <2>4. QED BY <1>13, <2>3 DEF Walks
<1>14. CASE BuildRaffleAward(r) \/ RaffleFail(r)
  <2>1. ASSUME BuildRaffleAward(r) PROVE To({"done"})
    <3>1. req'[r] = [req[r] EXCEPT !.pc = "done", !.result = StrategyAward(req[r].result)]
          BY <1>1, <2>1 DEF BuildRaffleAward
    <3>2. QED BY <1>1, <3>1
  <2>2. To({"done", "failed"})
        BY <1>3, <1>14, <2>1 DEF RaffleFail
  <2>3. QED BY <2>2
<1>15. QED BY <1>5, <1>6, <1>7, <1>8, <1>9, <1>10, <1>11, <1>12, <1>13, <1>14 DEF RaffleStep

----------------------------------------------------------------------------
(* The award rows against the locks *)

(* Raffles that hold a unit of award a and have not enqueued its task. *)
Sending(a) == {r \in Requests : req[r].pc = "send" /\ req[r].award = a}

(* Every unit off a row, in the queue or about to be enqueued has a lock of  *)
(* its own.                                                                 *)
RowInv ==
    /\ TypeInv
    /\ \A a \in Awards :
          /\ IsFiniteSet(locks[a]) /\ IsFiniteSet(Sending(a))
          /\ StockOf[a] - row[a] + queue[a] + Cardinality(Sending(a)) <= Cardinality(locks[a])

(* A raffle takes a unit before it sends, and sends once for it. *)
LEMMA RowInvRaffle ==
    ASSUME RowInv, NEW r \in Requests, RaffleStep(r), NEW a \in Awards
    PROVE  /\ IsFiniteSet(locks'[a]) /\ IsFiniteSet(Sending(a)')
           /\ StockOf[a] - row'[a] + queue'[a] + Cardinality(Sending(a)') <= Cardinality(locks'[a])
<1>1. /\ TypeInv /\ req \in [Requests -> RaffleRec] /\ RaffleAt(req[r]) /\ req[r] \in RaffleRec
      /\ locks \in [Awards -> SUBSET Nat] /\ queue \in [Awards -> Nat] /\ row \in [Awards -> Nat]
      /\ IsFiniteSet(locks[a]) /\ IsFiniteSet(Sending(a))
      BY DEF RowInv, TypeInv, TypeOK, StockTypeOK
<1>2. /\ row' = row /\ req' = [req EXCEPT ![r] = req'[r]]
      BY <1>1, RaffleStepFrame, RaffleStepShape
<1>3. /\ StockOf[a] \in Nat /\ row[a] \in Nat /\ queue[a] \in Nat
      /\ Cardinality(Sending(a)) \in Nat /\ Cardinality(locks[a]) \in Nat
      /\ StockOf[a] - row[a] + queue[a] + Cardinality(Sending(a)) <= Cardinality(locks[a])
      BY <1>1, ConstantFacts, FS_CardinalityType DEF RowInv
<1>4. \A q \in Requests : q # r => req'[q] = req[q]
      BY <1>1, <1>2
<1>5. CASE LockUnit(r)
  <2>1. /\ req[r].pc = "lock" /\ req[r].award \in Awards /\ req'[r].award = req[r].award
        /\ req[r].left \notin locks[req[r].award] /\ queue' = queue
        /\ locks' = [locks EXCEPT ![req[r].award] = @ \cup {req[r].left}]
        BY <1>1, <1>5, RaffleKeeps
        DEF LockUnit, Lockable, RaffleAt, GetStrategyAwardAssemble
  <2>2. CASE req[r].award = a
    <3>1. locks'[a] = locks[a] \cup {req[r].left}
          BY <1>1, <2>1, <2>2
    <3>2. IsFiniteSet(locks'[a]) /\ Cardinality(locks'[a]) = Cardinality(locks[a]) + 1
          BY <1>1, <2>1, <2>2, <3>1, FS_AddElement
    <3>3. Sending(a)' \subseteq Sending(a) \cup {r} /\ r \notin Sending(a)
          BY <1>4, <2>1 DEF Sending
    <3>4. /\ IsFiniteSet(Sending(a) \cup {r})
          /\ Cardinality(Sending(a) \cup {r}) = Cardinality(Sending(a)) + 1
          BY <1>1, <3>3, FS_AddElement
    <3>5. /\ IsFiniteSet(Sending(a)') /\ Cardinality(Sending(a)') \in Nat
          /\ Cardinality(Sending(a)') <= Cardinality(Sending(a)) + 1
          BY <3>3, <3>4, FS_Subset, FS_CardinalityType
    <3>6. QED BY <1>2, <1>3, <2>1, <3>2, <3>5
  <2>3. CASE req[r].award # a
    <3>1. locks'[a] = locks[a] /\ Sending(a)' = Sending(a)
          BY <1>1, <1>4, <2>1, <2>3 DEF Sending
    <3>2. QED BY <1>1, <1>2, <1>3, <2>1, <3>1
  <2>4. QED BY <2>2, <2>3
<1>6. CASE SendQueue(r)
  <2>1. /\ req[r].pc = "send" /\ req[r].award \in Awards /\ locks' = locks
        /\ queue' = [queue EXCEPT ![req[r].award] = @ + 1]
        BY <1>1, <1>6 DEF SendQueue, Enqueue, RaffleAt, stockVars
  <2>2. req'[r].pc # "send"
        BY <1>1, <2>1, RaffleGoes DEF LockUnit
  <2>3. CASE req[r].award = a
    <3>1. Sending(a)' = Sending(a) \ {r} /\ r \in Sending(a)
          BY <1>4, <2>1, <2>2, <2>3 DEF Sending
    <3>2. IsFiniteSet(Sending(a)') /\ Cardinality(Sending(a)') = Cardinality(Sending(a)) - 1
          BY <1>1, <3>1, FS_RemoveElement
    <3>3. queue'[a] = queue[a] + 1
          BY <1>1, <2>1, <2>3
    <3>4. QED BY <1>1, <1>2, <1>3, <2>1, <3>2, <3>3
  <2>4. CASE req[r].award # a
    <3>1. queue'[a] = queue[a] /\ Sending(a)' = Sending(a)
          BY <1>1, <1>4, <2>1, <2>2, <2>4 DEF Sending
    <3>2. QED BY <1>1, <1>2, <1>3, <2>1, <3>1
  <2>5. QED BY <2>3, <2>4
<1>7. CASE ~LockUnit(r) /\ ~SendQueue(r)
  <2>1. locks' = locks /\ queue' = queue
        BY <1>7, RaffleStepFrame DEF DecrStock, stockVars
  <2>2. Sending(a)' \subseteq Sending(a)
        BY <1>1, <1>4, <1>7, RaffleGoes DEF Sending
  <2>3. /\ IsFiniteSet(Sending(a)') /\ Cardinality(Sending(a)') \in Nat
        /\ Cardinality(Sending(a)') <= Cardinality(Sending(a))
        BY <1>1, <2>2, FS_Subset, FS_CardinalityType
  <2>4. QED BY <1>1, <1>2, <1>3, <2>1, <2>3
<1>8. QED BY <1>5, <1>6, <1>7

(* The award rows never run ahead of the sales: AwardStockConsumeSendQueue   *)
(* enqueues at most once for each unit SETNX locked and the handler takes    *)
(* off at most what was enqueued, for any number of raffles, whichever fail. *)
(* Not so when asynq runs a task twice or a lock reaches its TTL.           *)
THEOREM RowsFollowSales ==
    ASSUME "redeliver" \notin Faults, "lockExpire" \notin Faults
    PROVE  Spec => []RowNotAhead
<1>1. Init => RowInv
  <2> SUFFICES ASSUME Init PROVE RowInv
      OBVIOUS
  <2>1. \A a \in Awards : locks[a] = {} /\ Sending(a) = {} /\ queue[a] = 0 /\ row[a] = StockOf[a]
        BY DEF Init, Sending, NewRaffle
  <2>2. IsFiniteSet({}) /\ Cardinality({}) = 0 /\ \A a \in Awards : StockOf[a] \in Nat
        BY FS_EmptySet, ConstantFacts
  <2>3. ASSUME NEW a \in Awards
        PROVE  /\ IsFiniteSet(locks[a]) /\ IsFiniteSet(Sending(a))
               /\ StockOf[a] - row[a] + queue[a] + Cardinality(Sending(a)) <= Cardinality(locks[a])
    <3>1. locks[a] = {} /\ Sending(a) = {}
          BY <2>1
    <3>2. /\ IsFiniteSet(locks[a]) /\ Cardinality(locks[a]) = 0
          /\ IsFiniteSet(Sending(a)) /\ Cardinality(Sending(a)) = 0
          BY <2>2, <3>1, Zenon
    <3>3. QED BY <2>1, <2>2, <3>2
  <2>4. QED BY <2>3, InitTypeInv DEF RowInv
<1>2. RowInv /\ TypeInv' /\ [Next]_vars => RowInv'
  <2> SUFFICES ASSUME RowInv, TypeInv', [Next]_vars PROVE RowInv'
      OBVIOUS
  <2>1. ASSUME NEW r \in Requests, RaffleStep(r) PROVE RowInv'
        BY <2>1, RowInvRaffle DEF RowInv
  <2>2. ASSUME NEW a \in Awards, ProcessTask(a) PROVE RowInv'
    <3>1. /\ queue' = [queue EXCEPT ![a] = @ - 1] /\ row' = [row EXCEPT ![a] = @ - 1]
          /\ UNCHANGED <<req, locks>>
          BY <2>2 DEF ProcessTask, stockVars
    <3>2. queue \in [Awards -> Nat] /\ row \in [Awards -> Nat] /\ StockOf \in [Awards -> Nat]
          BY ConstantFacts DEF RowInv, TypeInv, TypeOK, StockTypeOK
    <3>3. ASSUME NEW b \in Awards
          PROVE  /\ IsFiniteSet(locks'[b]) /\ IsFiniteSet(Sending(b)')
                 /\ StockOf[b] - row'[b] + queue'[b] + Cardinality(Sending(b)') <= Cardinality(locks'[b])
      <4>1. Sending(b)' = Sending(b) /\ locks' = locks
            BY <3>1 DEF Sending
      <4>2. /\ IsFiniteSet(locks[b]) /\ IsFiniteSet(Sending(b))
            /\ StockOf[b] - row[b] + queue[b] + Cardinality(Sending(b)) <= Cardinality(locks[b])
            BY DEF RowInv
      <4>3. Cardinality(Sending(b)) \in Nat /\ Cardinality(locks[b]) \in Nat
            BY <4>2, FS_CardinalityType
      <4>4. StockOf[b] - row'[b] + queue'[b] = StockOf[b] - row[b] + queue[b]
            BY <3>1, <3>2
      <4>5. QED BY <4>1, <4>2, <4>4
    <3>4. QED BY <3>3 DEF RowInv
  <2>3. CASE UNCHANGED <<req, locks, queue, row>>
    <3>1. \A a \in Awards : Sending(a)' = Sending(a)
          BY <2>3 DEF Sending
    <3>2. QED BY <2>3, <3>1 DEF RowInv
  <2>4. QED
        BY <2>1, <2>2, <2>3
        DEF Next, Assemble, StartAssembly, StoreRange, StoreTable, AssemblyFail, Environment, Relist,
            PoolExpire, RestoreStock, LockExpire, vars, stockVars
<1>3. RowInv => RowNotAhead
  <2> SUFFICES ASSUME RowInv, NEW a \in Awards
               PROVE  StockOf[a] - row[a] + queue[a] <= Cardinality(locks[a])
      BY DEF RowNotAhead
  <2>1. /\ Cardinality(Sending(a)) \in Nat /\ Cardinality(locks[a]) \in Nat
        /\ StockOf[a] - row[a] + queue[a] + Cardinality(Sending(a)) <= Cardinality(locks[a])
        BY FS_CardinalityType DEF RowInv
  <2>2. StockOf[a] \in Nat /\ row[a] \in Nat /\ queue[a] \in Nat
        BY ConstantFacts DEF RowInv, TypeInv, TypeOK, StockTypeOK
  <2>3. QED BY <2>1, <2>2
<1>4. QED BY <1>1, <1>2, <1>3, TypeInductive, PTL DEF Spec

----------------------------------------------------------------------------
(* The units of an award are sold once *)

(* The unit a raffle holds, is about to lock or has sold. *)
UnitAt(A, q) ==
    /\ q.unit # Nil =>
          /\ q.pc \in {"send", "node", "build", "done", "failed"}
          /\ q.pc = "node" => q.node \in A
          /\ q.award \in Awards /\ q.unit \in Nat /\ q.unit < StockOf[q.award]
    /\ q.pc = "send" => q.unit # Nil
    /\ q.pc = "lock" => q.left < StockOf[q.award]

(* A unit that was sold stays locked. *)
SoldLocked == \A r \in Requests : req[r].unit # Nil => req[r].unit \in locks[req[r].award]

SoldApart ==
    \A r, s \in Requests :
       r # s /\ req[r].unit # Nil /\ req[s].unit # Nil /\ req[r].award = req[s].award
          => req[r].unit # req[s].unit

(* The count key never exceeds what operators put on sale. *)
CountBounded == \A a \in Awards : count[a] = Nil \/ count[a] <= StockOf[a]

UnitInv(A) ==
    /\ TypeInv /\ CountBounded /\ SoldLocked /\ SoldApart
    /\ \A r \in Requests : UnitAt(A, req[r])

(* The raffle's own record. *)
LEMMA RaffleUnit ==
    ASSUME NEW A, SellsOnce(A), UnitInv(A), NEW r \in Requests, RaffleStep(r)
    PROVE  /\ UnitAt(A, req'[r])
           /\ \/ req'[r].unit = req[r].unit
              \/ /\ LockUnit(r) /\ req[r].unit = Nil /\ req'[r].award = req[r].award
                 /\ req'[r].unit = req[r].left /\ req[r].left \in Nat
           /\ req[r].unit # Nil => req'[r].award = req[r].award
<1>1. /\ TypeInv /\ req \in [Requests -> RaffleRec] /\ RaffleAt(req[r]) /\ req[r] \in RaffleRec
      /\ UnitAt(A, req[r]) /\ CountBounded /\ req'[r] \in RaffleRec /\ RaffleAt(req'[r])
      BY RaffleStepShape DEF UnitInv, TypeInv, TypeOK
<1>2. req[r].unit # Nil => req'[r].award = req[r].award
      BY <1>1, RaffleKeeps DEF UnitAt, GetStrategyAwardAssemble
<1>3. ASSUME NEW check \in {"ALLOW", "TAKE_OVER"}, NEW award \in Awards, Advance(r, check, award),
             req[r].pc \in {"node", "lock", "send"},
             req[r].unit # Nil /\ ~Panics(req[r].node, check) =>
                Successor(req[r].node, check) \in A \cup {""}
      PROVE  UnitAt(A, req'[r]) /\ req'[r].unit = req[r].unit
  <2>1. /\ req'[r].unit = req[r].unit /\ req'[r].award = req[r].award
        /\ \/ req'[r].pc = "failed"
           \/ /\ ~Panics(req[r].node, check)
              /\ req'[r].node = Successor(req[r].node, check)
              /\ req'[r].pc = IF req'[r].node = "" THEN "build" ELSE "node"
        BY <1>1, <1>3, AdvanceStep
  <2>2. req'[r].pc \in {"failed", "build", "node"}
        BY <2>1
  <2>3. ASSUME req'[r].unit # Nil PROVE req'[r].pc = "node" => req'[r].node \in A
        BY <1>3, <2>1, <2>3
  <2>4. ASSUME req'[r].unit # Nil
        PROVE  /\ req'[r].award \in Awards /\ req'[r].unit \in Nat
               /\ req'[r].unit < StockOf[req'[r].award]
        BY <1>1, <2>1, <2>4 DEF UnitAt
  <2>5. QED BY <2>1, <2>2, <2>3, <2>4 DEF UnitAt
<1>4. CASE LockUnit(r)
  <2>1. req[r].pc = "lock" /\ req[r].unit = Nil /\ req[r].award \in Awards
        BY <1>1, <1>4 DEF LockUnit, UnitAt, RaffleAt
  <2>2. CASE req' = [req EXCEPT ![r].pc = "send", ![r].unit = req[r].left]
    <3>1. req'[r] = [req[r] EXCEPT !.pc = "send", !.unit = req[r].left]
          BY <1>1, <2>2
    <3>2. req'[r].pc = "send" /\ req'[r].unit = req[r].left /\ req'[r].award = req[r].award
          BY <1>1, <3>1 DEF RaffleRec
    <3>3. req[r].left \in Nat /\ req[r].left < StockOf[req[r].award] /\ req[r].left # Nil
      <4>1. req[r].left \in Nat
            BY <1>1 DEF RaffleRec
      <4>2. req[r].left # Nil
            BY <4>1, ConstantFacts
      <4>3. QED BY <1>1, <2>1, <4>1, <4>2 DEF UnitAt
    <3>4. UnitAt(A, req'[r])
          BY <2>1, <3>2, <3>3 DEF UnitAt
    <3>5. QED BY <1>2, <1>4, <2>1, <3>2, <3>3, <3>4
  <2>3. CASE Advance(r, NoStock, req[r].award)
    <3>1. UnitAt(A, req'[r]) /\ req'[r].unit = req[r].unit
          BY <1>3, <2>1, <2>3 DEF NoStock
    <3>2. QED BY <1>2, <3>1
  <2>4. QED BY <1>4, <2>2, <2>3 DEF LockUnit
<1>5. CASE UnitLocked(r)
  <2>1. req[r].pc = "lock" /\ req[r].unit = Nil /\ req[r].award \in Awards
        BY <1>1, <1>5 DEF UnitLocked, UnitAt, RaffleAt
  <2>2. QED BY <1>2, <1>3, <1>5, <2>1 DEF UnitLocked, NoStock
<1>6. CASE SendQueue(r)
  <2>1. req[r].pc = "send" /\ req[r].award \in Awards /\ req[r].node = "rule_stock" /\ "rule_stock" \in Nodes
        BY <1>1, <1>6 DEF SendQueue, RaffleAt
  <2>2. CASE Advance(r, "ALLOW", req[r].award)
        BY <1>2, <1>3, <2>1, <2>2 DEF SellsOnce
  <2>3. CASE Fail(r)
    <3>1. req'[r] = [req[r] EXCEPT !.pc = "failed"]
          BY <1>1, <2>3, FailStep
    <3>2. req'[r].pc = "failed" /\ req'[r].unit = req[r].unit /\ req'[r].award = req[r].award
          BY <1>1, <3>1 DEF RaffleRec
    <3>3. QED BY <1>1, <1>2, <3>2 DEF UnitAt
  <2>4. QED BY <1>6, <2>2, <2>3 DEF SendQueue
<1>7. CASE LockNode(r) \/ LuckAwardNode(r)
  <2>1. /\ req[r].pc = "node" /\ req[r].award \in Awards
        /\ req[r].unit # Nil => req[r].node \in A
        BY <1>1, <1>7 DEF LockNode, LuckAwardNode, InNode, RaffleAt, UnitAt
  <2>2. \A check \in {"ALLOW", "TAKE_OVER"} :
           req[r].unit # Nil /\ ~Panics(req[r].node, check) => Successor(req[r].node, check) \in A \cup {""}
        BY <2>1 DEF SellsOnce
  <2>3. ASSUME NEW check \in {"ALLOW", "TAKE_OVER"}, NEW award \in Awards, Advance(r, check, award)
        PROVE  UnitAt(A, req'[r]) /\ req'[r].unit = req[r].unit
        BY <1>3, <2>1, <2>2, <2>3
  <2>4. CASE LockNode(r)
    <3>1. Advance(r, IF 10 >= LockCount THEN "ALLOW" ELSE "TAKE_OVER", req[r].award)
          BY <2>4 DEF LockNode
    <3>2. (IF 10 >= LockCount THEN "ALLOW" ELSE "TAKE_OVER") \in {"ALLOW", "TAKE_OVER"}
          OBVIOUS
    <3>3. UnitAt(A, req'[r]) /\ req'[r].unit = req[r].unit
          BY <2>1, <2>3, <3>1, <3>2
    <3>4. QED BY <1>2, <3>3
  <2>5. CASE LuckAwardNode(r)
    <3>1. Advance(r, "TAKE_OVER", LuckAward)
          BY <2>5 DEF LuckAwardNode
    <3>2. UnitAt(A, req'[r]) /\ req'[r].unit = req[r].unit
          BY <2>3, <3>1, ConstantFacts
    <3>3. QED BY <1>2, <3>2
  <2>6. QED BY <1>7, <2>4, <2>5
<1>8. CASE DecrStock(r)
  <2>1. /\ req[r].pc = "node" /\ req[r].award \in Awards /\ req[r].unit = Nil
        BY <1>1, <1>8 DEF DecrStock, InNode, RaffleAt, UnitAt, SellsOnce
  <2>2. PICK v \in Decremented(req[r].award) :
           IF v < 0 THEN Advance(r, NoStock, req[r].award)
           ELSE req' = [req EXCEPT ![r].pc = "lock", ![r].left = v]
        BY <1>8 DEF DecrStock
  <2>3. CASE Advance(r, NoStock, req[r].award)
        BY <1>2, <1>3, <2>1, <2>3 DEF NoStock
  <2>4. CASE ~(v < 0)
    <3>1. req'[r] = [req[r] EXCEPT !.pc = "lock", !.left = v]
          BY <1>1, <2>2, <2>4
    <3>2. /\ req'[r].pc = "lock" /\ req'[r].unit = req[r].unit /\ req'[r].award = req[r].award
          /\ req'[r].left = v
          BY <1>1, <3>1 DEF RaffleRec
    <3>3. v < StockOf[req[r].award]
      <4>1. count[req[r].award] \in Int \cup {Nil} /\ StockOf[req[r].award] \in Nat
            BY <1>1, <2>1, ConstantFacts DEF TypeInv, TypeOK, StockTypeOK
      <4>2. count[req[r].award] = Nil \/ count[req[r].award] <= StockOf[req[r].award]
            BY <1>1, <2>1 DEF CountBounded
      <4>3. QED BY <2>4, <4>1, <4>2 DEF Decremented
    <3>4. QED BY <1>2, <2>1, <3>2, <3>3 DEF UnitAt
  <2>5. QED BY <2>2, <2>3, <2>4
<1>9. CASE ~Walks(r)
  <2>1. /\ req'[r].unit = req[r].unit
        /\ req'[r].pc \notin {"lock", "send"}
        /\ req[r].pc \notin {"tree", "node", "lock", "send"} => req'[r].pc # "node"
        BY <1>1, <1>9, RaffleKeeps, RaffleGoes DEF Walks, OpenTree
  <2>2. ASSUME req[r].unit # Nil PROVE req'[r].pc \in {"build", "done", "failed"}
    <3>1. BuildRaffleAward(r) \/ RaffleFail(r)
          BY <1>1, <1>9, <2>2
          DEF RaffleStep, Walks, BlackListLogic, WeightLogic, DefaultLogic, AtNode, GetRateRange,
              GetStrategyAwardAssemble, OpenTree, UnitAt
    <3>2. CASE RaffleFail(r)
      <4>1. req'[r] = [req[r] EXCEPT !.pc = "failed"]
            BY <1>1, <3>2, FailStep DEF RaffleFail
      <4>2. QED BY <1>1, <4>1 DEF RaffleRec
    <3>3. CASE BuildRaffleAward(r)
      <4>1. req'[r] = [req[r] EXCEPT !.pc = "done", !.result = StrategyAward(req[r].result)]
            BY <1>1, <3>3 DEF BuildRaffleAward
      <4>2. QED BY <1>1, <4>1 DEF RaffleRec
    <3>4. QED BY <3>1, <3>2, <3>3
  <2>3. ASSUME req'[r].unit # Nil
        PROVE  /\ req'[r].pc \in {"build", "done", "failed"}
               /\ req'[r].award \in Awards /\ req'[r].unit \in Nat
               /\ req'[r].unit < StockOf[req'[r].award]
        BY <1>1, <1>2, <2>1, <2>2, <2>3 DEF UnitAt
  <2>4. UnitAt(A, req'[r])
        BY <2>1, <2>3 DEF UnitAt
  <2>5. QED BY <1>2, <2>1, <2>4
<1>10. QED BY <1>4, <1>5, <1>6, <1>7, <1>8, <1>9 DEF Walks

(* Every step keeps the invariant about units, locks and counters. *)
LEMMA UnitsInductive ==
    ASSUME NEW A, SellsOnce(A), "lockExpire" \notin Faults, UnitInv(A), TypeInv', [Next]_vars
    PROVE  UnitInv(A)'
<1>1. /\ TypeInv /\ req \in [Requests -> RaffleRec]
      /\ locks \in [Awards -> SUBSET Nat] /\ count \in [Awards -> Int \cup {Nil}]
      BY DEF UnitInv, TypeInv, TypeOK, StockTypeOK
<1>2. ASSUME NEW r \in Requests, RaffleStep(r) PROVE UnitInv(A)'
  <2>1. /\ UnitAt(A, req'[r])
        /\ \/ req'[r].unit = req[r].unit
           \/ /\ LockUnit(r) /\ req[r].unit = Nil /\ req'[r].award = req[r].award
              /\ req'[r].unit = req[r].left /\ req[r].left \in Nat
        /\ req[r].unit # Nil => req'[r].award = req[r].award
        BY <1>2, RaffleUnit
  <2>2. \A q \in Requests : q # r => req'[q] = req[q]
        BY <1>1, <1>2, RaffleStepShape
  <2>3. \A q \in Requests : UnitAt(A, req'[q])
        BY <2>1, <2>2 DEF UnitInv
  <2>4. /\ \A a \in Awards : locks[a] \subseteq locks'[a]
        /\ LockUnit(r) => /\ req[r].left \notin locks[req[r].award]
                          /\ req[r].award \in Awards => req[r].left \in locks'[req[r].award]
    <3>1. CASE LockUnit(r)
          BY <1>1, <3>1 DEF LockUnit, Lockable
    <3>2. CASE ~LockUnit(r)
          BY <1>2, <3>2, RaffleStepFrame DEF DecrStock, SendQueue, stockVars
    <3>3. QED BY <3>1, <3>2
  <2>5. SoldLocked'
    <3> SUFFICES ASSUME NEW q \in Requests, req'[q].unit # Nil
                 PROVE  req'[q].unit \in locks'[req'[q].award]
        BY DEF SoldLocked
    <3>1. req'[q].award \in Awards
          BY <2>3 DEF UnitAt
    <3>2. CASE req[q].unit # Nil /\ req'[q].unit = req[q].unit /\ req'[q].award = req[q].award
          BY <2>4, <3>1, <3>2 DEF UnitInv, SoldLocked
    <3>3. QED BY <2>1, <2>2, <2>4, <3>1, <3>2
  <2>6. SoldApart'
    <3> SUFFICES ASSUME NEW q \in Requests, NEW s \in Requests, q # s, req'[q].unit # Nil,
                        req'[s].unit # Nil, req'[q].award = req'[s].award
                 PROVE  req'[q].unit # req'[s].unit
        BY DEF SoldApart
    <3>1. CASE \A o \in {q, s} : req'[o].unit = req[o].unit /\ req'[o].award = req[o].award
          BY <3>1 DEF UnitInv, SoldApart
    <3>2. CASE /\ LockUnit(r) /\ r \in {q, s} /\ req'[r].award = req[r].award
               /\ req'[r].unit = req[r].left
      <4>1. PICK o \in {q, s} : o # r
            BY <3>2
      <4>2. req'[o] = req[o] /\ req[o].unit # Nil /\ req[o].award = req[r].award
            BY <2>2, <3>2, <4>1
      <4>3. req[o].unit \in locks[req[r].award]
            BY <4>2 DEF UnitInv, SoldLocked
      <4>4. QED BY <2>4, <3>2, <4>1, <4>2, <4>3
    <3>3. QED BY <2>1, <2>2, <3>1, <3>2
  <2>7. CountBounded'
    <3>1. CASE DecrStock(r)
      <4>1. PICK v \in Decremented(req[r].award) : count' = [count EXCEPT ![req[r].award] = v]
            BY <3>1 DEF DecrStock
      <4>2. req[r].award \in Awards
            BY <1>1, <3>1 DEF DecrStock, InNode, TypeInv, RaffleAt
      <4>3. v <= StockOf[req[r].award]
        <5>1. count[req[r].award] \in Int \cup {Nil} /\ StockOf[req[r].award] \in Nat
              BY <1>1, <4>2, ConstantFacts
        <5>2. count[req[r].award] = Nil \/ count[req[r].award] <= StockOf[req[r].award]
              BY <4>2 DEF UnitInv, CountBounded
        <5>3. QED BY <5>1, <5>2 DEF Decremented
      <4>4. QED BY <1>1, <4>1, <4>2, <4>3 DEF UnitInv, CountBounded
    <3>2. CASE ~DecrStock(r)
      <4>1. count' = count
            BY <1>2, <3>2, RaffleStepFrame DEF LockUnit, SendQueue, stockVars
      <4>2. QED BY <4>1 DEF UnitInv, CountBounded
    <3>3. QED BY <3>1, <3>2
  <2>8. QED BY <2>3, <2>5, <2>6, <2>7 DEF UnitInv
<1>3. ASSUME NEW a \in Awards, NEW n \in 0..StockOf[a], RestoreStock(a, n) PROVE UnitInv(A)'
  <2>1. UNCHANGED <<req, locks>> /\ count' = [count EXCEPT ![a] = n]
        BY <1>3 DEF RestoreStock
  <2>2. n <= StockOf[a]
        BY <1>3, ConstantFacts
  <2>3. CountBounded'
        BY <1>1, <2>1, <2>2 DEF UnitInv, CountBounded
  <2>4. QED BY <2>1, <2>3 DEF UnitInv, SoldLocked, SoldApart
<1>4. CASE UNCHANGED <<req, locks, count>>
      BY <1>4 DEF UnitInv, SoldLocked, SoldApart, CountBounded
<1>5. QED
      BY <1>2, <1>3, <1>4
      DEF Next, Assemble, StartAssembly, StoreRange, StoreTable, AssemblyFail, Environment, Relist,
          PoolExpire, LockExpire, ProcessTask, vars, stockVars

(* Nothing is sold at the start. *)
LEMMA UnitsInit == ASSUME NEW A PROVE Init => UnitInv(A)
<1> SUFFICES ASSUME Init PROVE UnitInv(A)
    OBVIOUS
<1>1. \A r \in Requests : req[r].unit = Nil /\ req[r].pc = "chain"
      BY DEF Init, NewRaffle
<1>2. CountBounded
  <2>1. \A a \in Awards : StockOf[a] <= StockOf[a]
        BY ConstantFacts
  <2>2. QED BY <2>1 DEF Init, CountBounded
<1>3. QED BY <1>1, <1>2, InitTypeInv DEF UnitInv, SoldLocked, SoldApart, UnitAt

(* rule_stock implements StockUnits: DECR, SETNX and the enqueue of any      *)
(* number of raffles hand out each unit an operator put on sale at most      *)
(* once, and no raffle takes two, though operators restore the count key,    *)
(* replies are lost and processes die.  A lock that reaches its TTL breaks   *)
(* it, and so does a tree that comes back to rule_stock.                    *)
THEOREM StockImplemented ==
    ASSUME NEW CONSTANT A, SellsOnce(A), "lockExpire" \notin Faults
    PROVE  Spec => ImplementsStockUnits
<1> DEFINE Sold == {<<r, req[r].award, req[r].unit>> : r \in {q \in Requests : req[q].unit # Nil}}
<1>1. Init => UnitInv(A)
      BY UnitsInit
<1>2. UnitInv(A) /\ TypeInv' /\ [Next]_vars => UnitInv(A)'
      BY UnitsInductive
<1>3. Init => Units!Init
  <2> SUFFICES ASSUME Init PROVE Sold = {}
      BY DEF Units!Init
  <2>1. \A r \in Requests : req[r].unit = Nil
        BY DEF Init, NewRaffle
  <2>2. QED BY <2>1
<1>4. UnitInv(A) /\ [Next]_vars => [Units!Next]_Sold
  <2> SUFFICES ASSUME UnitInv(A), [Next]_vars PROVE [Units!Next]_Sold
      OBVIOUS
  <2>1. ASSUME NEW r \in Requests, RaffleStep(r) PROVE Units!Next \/ Sold' = Sold
    <3>1. /\ UnitAt(A, req'[r])
          /\ \/ req'[r].unit = req[r].unit
             \/ /\ LockUnit(r) /\ req[r].unit = Nil /\ req'[r].award = req[r].award
                /\ req'[r].unit = req[r].left /\ req[r].left \in Nat
          /\ req[r].unit # Nil => req'[r].award = req[r].award
          BY <2>1, RaffleUnit
    <3>2. \A q \in Requests : q # r => req'[q] = req[q]
          BY <2>1, RaffleStepShape DEF UnitInv, TypeInv, TypeOK
    <3>3. CASE req'[r].unit = req[r].unit
          BY <3>1, <3>2, <3>3
    <3>4. CASE /\ LockUnit(r) /\ req[r].unit = Nil /\ req'[r].award = req[r].award
               /\ req'[r].unit = req[r].left /\ req[r].left \in Nat
      <4> DEFINE a == req[r].award
                 u == req[r].left
      <4>1. u # Nil /\ a \in Awards /\ u \in 0..(StockOf[a] - 1)
        <5>1. u # Nil
              BY <3>4, ConstantFacts
        <5>2. a \in Awards /\ u < StockOf[a]
              BY <3>1, <3>4, <5>1 DEF UnitAt
        <5>3. StockOf[a] \in Nat
              BY <5>2, ConstantFacts
        <5>4. QED BY <3>4, <5>1, <5>2, <5>3
      <4>2. Sold' = Sold \cup {<<r, a, u>>}
        <5>1. \A q \in Requests : q # r => /\ req'[q].unit = req[q].unit
                                           /\ req'[q].award = req[q].award
              BY <3>2
        <5>2. QED BY <3>4, <4>1, <5>1
      <4>3. ASSUME NEW t \in Sold PROVE t[1] # r /\ <<t[2], t[3]>> # <<a, u>>
        <5>1. PICK q \in Requests : req[q].unit # Nil /\ t = <<q, req[q].award, req[q].unit>>
              OBVIOUS
        <5>2. q # r
              BY <3>4, <5>1
        <5>3. req[q].unit \in locks[req[q].award]
              BY <5>1 DEF UnitInv, SoldLocked
        <5>4. u \notin locks[a]
              BY <3>4 DEF LockUnit, Lockable
        <5>5. QED BY <5>1, <5>2, <5>3, <5>4
      <4> HIDE DEF Sold, a, u
      <4>4. Units!Next
        <5>1. \E o \in Requests, b \in Awards : \E w \in 0..(StockOf[b] - 1) :
                 /\ w \in 0..(StockOf[b] - 1)
                 /\ \A t \in Sold : t[1] # o /\ <<t[2], t[3]>> # <<b, w>>
                 /\ Sold' = Sold \cup {<<o, b, w>>}
              BY <4>1, <4>2, <4>3, Zenon
        <5>2. QED BY <5>1 DEF Units!Next, Units!Sell, Sold
      <4>5. QED BY <4>4
    <3>5. QED BY <3>1, <3>3, <3>4
  <2>2. CASE UNCHANGED req
        BY <2>2
  <2>3. QED BY <2>1, <2>2, OthersKeepRaffles
<1>5. QED BY <1>1, <1>2, <1>3, <1>4, TypeInductive, PTL DEF Spec, ImplementsStockUnits, Units!Spec

----------------------------------------------------------------------------
(* No award is handed out more often than it has units *)

Guarded == (TreeAwards \cap Rows) \ {LuckAward}

(* The award of a raffle of the default rule: with a guarded award comes a   *)
(* unit of it.                                                              *)
WinAt(q) ==
    /\ q.pc = "chain" => q.pool = Nil
    /\ q.pc = "tree" => q.result = q.award
    /\ q.pc = "done" => q.result \in Rows \cup {Nil}
    /\ q.pc \in {"build", "done"} /\ q.pool = 0 /\ q.result \in Guarded =>
          q.unit # Nil /\ q.award = q.result

WinInv(A) == UnitInv(A) /\ \A r \in Requests : WinAt(req[r])

(* A raffle wins an award of a stock node only with a unit of it. *)
LEMMA RaffleWin ==
    ASSUME NEW A, SellsOnce(A), StockGuards, WinInv(A), NEW r \in Requests, RaffleStep(r)
    PROVE  WinAt(req'[r])
<1>1. /\ TypeInv /\ UnitInv(A) /\ req \in [Requests -> RaffleRec] /\ RaffleAt(req[r])
      /\ req[r] \in RaffleRec /\ UnitAt(A, req[r]) /\ WinAt(req[r])
      BY DEF WinInv, UnitInv, TypeInv, TypeOK
<1>2. ASSUME req'[r].pc \in {"range", "index", "node", "lock", "send", "failed"}
      PROVE  WinAt(req'[r])
      BY <1>2 DEF WinAt
<1>3. ASSUME Fail(r) PROVE WinAt(req'[r])
  <2>1. req'[r] = [req[r] EXCEPT !.pc = "failed"]
        BY <1>1, <1>3, FailStep
  <2>2. req'[r].pc = "failed"
        BY <1>1, <2>1 DEF RaffleRec
  <2>3. QED BY <1>2, <2>2
<1>4. ASSUME NEW check, NEW award \in Awards, Advance(r, check, award),
             req[r].pc \in {"node", "lock", "send"},
             Panics(req[r].node, check) \/ Successor(req[r].node, check) # ""
      PROVE  WinAt(req'[r])
  <2>1. req'[r].pc \in {"failed", "node"}
        BY <1>1, <1>4, AdvanceStep
  <2>2. QED BY <1>2, <2>1
<1>5. CASE BlackListLogic(r)
  <2>1. req[r].pool = Nil /\ req[r].pc = "chain"
        BY <1>1, <1>5 DEF BlackListLogic, AtNode, WinAt
  <2>2. \/ req'[r] = [req[r] EXCEPT !.pc = "build", !.result = BlackAward]
        \/ req'[r] = [req[r] EXCEPT !.step = req[r].step + 1]
        BY <1>1, <1>5 DEF BlackListLogic, NextInChain
  <2>3. req'[r].pool = Nil /\ req'[r].pc \in {"chain", "build"}
        BY <1>1, <2>1, <2>2 DEF RaffleRec
  <2>4. Nil # 0
        BY ConstantFacts
  <2>5. QED BY <2>3, <2>4 DEF WinAt
<1>6. CASE WeightLogic(r)
  <2>1. req[r].pool = Nil /\ req[r].pc = "chain"
        BY <1>1, <1>6 DEF WeightLogic, AtNode, WinAt
  <2>2. \E score \in Scores :
          \/ req'[r] = [req[r] EXCEPT !.score = score, !.step = req[r].step + 1]
          \/ req'[r] = [req[r] EXCEPT !.score = score, !.pc = "range", !.pool = Max(Reached(score))]
        BY <1>1, <1>6 DEF WeightLogic
  <2>3. req'[r].pc = "range" \/ (req'[r].pc = "chain" /\ req'[r].pool = Nil)
        BY <1>1, <2>1, <2>2 DEF RaffleRec
  <2>4. QED BY <1>2, <2>3 DEF WinAt
<1>7. CASE DefaultLogic(r)
  <2>1. req'[r] = [req[r] EXCEPT !.pc = "range", !.pool = 0]
        BY <1>1, <1>7 DEF DefaultLogic
  <2>2. req'[r].pc = "range"
        BY <1>1, <2>1 DEF RaffleRec
  <2>3. QED BY <1>2, <2>2
<1>8. CASE GetRateRange(r)
  <2>1. ASSUME req' = [req EXCEPT ![r].pc = "index", ![r].range = rangeKey[req[r].pool]]
        PROVE  WinAt(req'[r])
    <3>1. req'[r] = [req[r] EXCEPT !.pc = "index", !.range = rangeKey[req[r].pool]]
          BY <1>1, <2>1
    <3>2. req'[r].pc = "index"
          BY <1>1, <3>1 DEF RaffleRec
    <3>3. QED BY <1>2, <3>2
  <2>2. QED BY <1>3, <1>8, <2>1 DEF GetRateRange
<1>9. CASE GetStrategyAwardAssemble(r)
  <2>1. ASSUME NEW award,
               req' = [req EXCEPT ![r].pc = IF req[r].pool = 0 THEN "tree" ELSE "build",
                                  ![r].award = award, ![r].result = award]
        PROVE  WinAt(req'[r])
    <3> DEFINE label == IF req[r].pool = 0 THEN "tree" ELSE "build"
    <3>1. req' = [req EXCEPT ![r].pc = label, ![r].award = award, ![r].result = award]
          BY <2>1
    <3>2. label \in {"tree", "build"} /\ (label = "build" => req[r].pool # 0)
          OBVIOUS
    <3> HIDE DEF label
    <3>3. req'[r] = [req[r] EXCEPT !.pc = label, !.award = award, !.result = award]
          BY <1>1, <3>1
    <3>4. /\ req'[r].pc = label /\ req'[r].award = req'[r].result /\ req'[r].pool = req[r].pool
          BY <1>1, <3>3 DEF RaffleRec
    <3>5. QED BY <3>2, <3>4 DEF WinAt
  <2>2. QED BY <1>3, <1>9, <2>1 DEF GetStrategyAwardAssemble
<1>10. CASE OpenTree(r)
  <2>1. CASE ~HasTree(req[r].award) /\ Goto(r, "build")
    <3>1. req'[r] = [req[r] EXCEPT !.pc = "build"]
          BY <1>1, <2>1 DEF Goto
    <3>2. req'[r].pc = "build" /\ req'[r].result = req[r].result
          BY <1>1, <3>1 DEF RaffleRec
    <3>3. req[r].result = req[r].award
          BY <1>1, <1>10 DEF OpenTree, WinAt
    <3>4. req'[r].result \notin Guarded
          BY <2>1, <3>2, <3>3 DEF HasTree, Guarded
    <3>5. QED BY <3>2, <3>4 DEF WinAt
  <2>2. CASE req' = [req EXCEPT ![r].pc = "node", ![r].node = Root]
    <3>1. req'[r] = [req[r] EXCEPT !.pc = "node", !.node = Root]
          BY <1>1, <2>2
    <3>2. req'[r].pc = "node"
          BY <1>1, <3>1 DEF RaffleRec
    <3>3. QED BY <1>2, <3>2
  <2>3. QED BY <1>3, <1>10, <2>1, <2>2 DEF OpenTree
<1>11. CASE LockNode(r)
  <2>1. /\ req[r].pc = "node" /\ req[r].award \in Awards
        /\ req[r].node = "rule_lock" /\ "rule_lock" \in Nodes
        BY <1>1, <1>11 DEF LockNode, InNode, RaffleAt
  <2>2. Advance(r, IF 10 >= LockCount THEN "ALLOW" ELSE "TAKE_OVER", req[r].award)
        BY <1>11 DEF LockNode
  <2>3. (IF 10 >= LockCount THEN "ALLOW" ELSE "TAKE_OVER") \in {"ALLOW", "TAKE_OVER"}
        OBVIOUS
  <2>4. ASSUME NEW check \in {"ALLOW", "TAKE_OVER"}, Advance(r, check, req[r].award)
        PROVE  WinAt(req'[r])
        BY <1>4, <2>1, <2>4 DEF StockGuards
  <2>5. QED BY <2>2, <2>3, <2>4
<1>12. CASE LuckAwardNode(r)
  <2>1. req[r].pc = "node" /\ Advance(r, "TAKE_OVER", LuckAward)
        BY <1>12 DEF LuckAwardNode, InNode
  <2>2. \/ req'[r].pc = "failed"
        \/ req'[r].pc \in {"node", "build"} /\ req'[r].result = LuckAward
        BY <1>1, <2>1, AdvanceStep, ConstantFacts
  <2>3. QED BY <2>2 DEF WinAt, Guarded
<1>13. ASSUME req[r].pc \in {"node", "lock"}, req[r].node = "rule_stock", req[r].award \in Awards,
              "rule_stock" \in Nodes, Advance(r, NoStock, req[r].award)
       PROVE  WinAt(req'[r])
       BY <1>4, <1>13 DEF StockGuards, NoStock
<1>14. CASE DecrStock(r)
  <2>1. /\ req[r].pc = "node" /\ req[r].award \in Awards
        /\ req[r].node = "rule_stock" /\ "rule_stock" \in Nodes
        BY <1>1, <1>14 DEF DecrStock, InNode, RaffleAt
  <2>2. ASSUME NEW v, req' = [req EXCEPT ![r].pc = "lock", ![r].left = v] PROVE WinAt(req'[r])
    <3>1. req'[r] = [req[r] EXCEPT !.pc = "lock", !.left = v]
          BY <1>1, <2>2
    <3>2. req'[r].pc = "lock"
          BY <1>1, <3>1 DEF RaffleRec
    <3>3. QED BY <1>2, <3>2
  <2>3. QED BY <1>13, <1>14, <2>1, <2>2 DEF DecrStock
<1>15. CASE LockUnit(r) \/ UnitLocked(r)
  <2>1. /\ req[r].pc = "lock" /\ req[r].award \in Awards
        /\ req[r].node = "rule_stock" /\ "rule_stock" \in Nodes
        BY <1>1, <1>15 DEF LockUnit, UnitLocked, RaffleAt
  <2>2. ASSUME req' = [req EXCEPT ![r].pc = "send", ![r].unit = req[r].left] PROVE WinAt(req'[r])
    <3>1. req'[r] = [req[r] EXCEPT !.pc = "send", !.unit = req[r].left]
          BY <1>1, <2>2
    <3>2. req'[r].pc = "send"
          BY <1>1, <3>1 DEF RaffleRec
    <3>3. QED BY <1>2, <3>2
  <2>3. QED BY <1>13, <1>15, <2>1, <2>2 DEF LockUnit, UnitLocked
<1>16. CASE SendQueue(r)
  <2>1. req[r].pc = "send" /\ req[r].award \in Awards /\ req[r].unit # Nil
        BY <1>1, <1>16 DEF SendQueue, RaffleAt, UnitAt
  <2>2. CASE Advance(r, "ALLOW", req[r].award)
    <3>1. /\ req'[r].unit = req[r].unit /\ req'[r].award = req[r].award
          /\ \/ req'[r].pc = "failed"
             \/ req'[r].pc \in {"node", "build"} /\ req'[r].result = req[r].award
          BY <1>1, <2>1, <2>2, AdvanceStep
    <3>2. QED BY <2>1, <3>1 DEF WinAt
  <2>3. QED BY <1>3, <1>16, <2>2 DEF SendQueue
<1>17. CASE BuildRaffleAward(r)
  <2>1. /\ req[r].pc = "build"
        /\ req'[r] = [req[r] EXCEPT !.pc = "done", !.result = StrategyAward(req[r].result)]
        BY <1>1, <1>17 DEF BuildRaffleAward
  <2>2. /\ req'[r].pc = "done" /\ req'[r].result = StrategyAward(req[r].result)
        /\ req'[r].pool = req[r].pool /\ req'[r].unit = req[r].unit /\ req'[r].award = req[r].award
        BY <1>1, <2>1 DEF RaffleRec
  <2>3. \/ req'[r].result = req[r].result /\ req[r].result \in Rows
        \/ req'[r].result = Nil
        BY <2>2 DEF StrategyAward
  <2>4. Nil \notin Guarded
        BY ConfigAssumption DEF Guarded
  <2>5. QED BY <1>1, <2>1, <2>2, <2>3, <2>4 DEF WinAt
<1>18. CASE RaffleFail(r)
       BY <1>3, <1>18 DEF RaffleFail
<1>19. QED
       BY <1>5, <1>6, <1>7, <1>8, <1>9, <1>10, <1>11, <1>12, <1>14, <1>15, <1>16, <1>17, <1>18
       DEF RaffleStep

(* The winners of a guarded award hold different units of it. *)
LEMMA WinnersHoldUnits ==
    ASSUME NEW A, WinInv(A), NEW a \in TreeAwards \ {LuckAward}
    PROVE  Cardinality(Winners(a)) <= StockOf[a]
<1> DEFINE f == [r \in Winners(a) |-> req[r].unit]
           T == 0..(StockOf[a] - 1)
<1>1. a \in Awards /\ StockOf[a] \in Nat /\ a # Nil
      BY ConfigAssumption
<1>2. ASSUME NEW r \in Winners(a)
      PROVE  r \in Requests /\ req[r].unit # Nil /\ req[r].award = a /\ req[r].unit \in T
  <2>1. /\ r \in Requests /\ req[r].pc = "done" /\ req[r].pool = 0 /\ req[r].result = a
        /\ WinAt(req[r]) /\ UnitAt(A, req[r])
        BY DEF Winners, WinInv, UnitInv
  <2>2. req[r].result \in Guarded
        BY <1>1, <2>1 DEF WinAt, Guarded
  <2>3. req[r].unit # Nil /\ req[r].award = a
        BY <2>1, <2>2 DEF WinAt
  <2>4. req[r].unit \in Nat /\ req[r].unit < StockOf[a]
        BY <2>1, <2>3 DEF UnitAt
  <2>5. QED BY <1>1, <2>1, <2>3, <2>4
<1>3. f \in [Winners(a) -> T]
      BY <1>2
<1>4. \A r, s \in Winners(a) : f[r] = f[s] => r = s
      BY <1>2 DEF WinInv, UnitInv, SoldApart
<1>5. f \in Injection(Winners(a), T)
      BY <1>3, <1>4 DEF Injection, IsInjective
<1>6. IsFiniteSet(T) /\ Cardinality(T) = StockOf[a]
  <2>1. PICK n \in Int : n = StockOf[a] - 1
        BY <1>1
  <2>2. 0 \in Int
        OBVIOUS
  <2>3. IsFiniteSet(0..n) /\ Cardinality(0..n) = IF 0 > n THEN 0 ELSE n - 0 + 1
        BY <2>2, FS_Interval, Zenon
  <2>4. QED BY <1>1, <2>1, <2>3
<1> HIDE DEF f, T
<1>7. Cardinality(Winners(a)) <= Cardinality(T)
      BY <1>5, <1>6, FS_Injection
<1>8. QED BY <1>6, <1>7

(* PerformRaffle never hands out more of an award behind rule_stock than     *)
(* its units, for any number of raffles, any rates, rules and trees in       *)
(* which rule_stock guards the award and sells one unit per walk, while      *)
(* operators restore the count key, replies are lost and processes die.     *)
(* A lock that reaches its TTL breaks it.                                   *)
THEOREM NeverOversold ==
    ASSUME NEW CONSTANT A, SellsOnce(A), StockGuards, "lockExpire" \notin Faults
    PROVE  Spec => []NoOversell
<1>1. Init => WinInv(A)
  <2> SUFFICES ASSUME Init PROVE WinInv(A)
      OBVIOUS
  <2>1. \A r \in Requests : WinAt(req[r])
        BY DEF Init, NewRaffle, WinAt
  <2>2. QED BY <2>1, UnitsInit DEF WinInv
<1>2. WinInv(A) /\ TypeInv' /\ [Next]_vars => WinInv(A)'
  <2> SUFFICES ASSUME WinInv(A), TypeInv', [Next]_vars PROVE WinInv(A)'
      OBVIOUS
  <2>1. UnitInv(A)'
        BY UnitsInductive DEF WinInv
  <2>2. \A q \in Requests : WinAt(req'[q])
    <3>1. ASSUME NEW r \in Requests, RaffleStep(r), NEW q \in Requests PROVE WinAt(req'[q])
      <4>1. CASE q = r
            BY <3>1, <4>1, RaffleWin
      <4>2. CASE q # r
        <5>1. req'[q] = req[q]
              BY <3>1, <4>2, RaffleStepShape DEF WinInv, UnitInv, TypeInv, TypeOK
        <5>2. QED BY <5>1 DEF WinInv
      <4>3. QED BY <4>1, <4>2
    <3>2. CASE UNCHANGED req
          BY <3>2 DEF WinInv
    <3>3. QED BY <3>1, <3>2, OthersKeepRaffles
  <2>3. QED BY <2>1, <2>2 DEF WinInv
<1>3. WinInv(A) => NoOversell
      BY WinnersHoldUnits DEF NoOversell
<1>4. QED BY <1>1, <1>2, <1>3, TypeInductive, PTL DEF Spec

=============================================================================
