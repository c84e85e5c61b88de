CONSTANTS
  r1 = r1  r2 = r2  r3 = r3
  m1 = m1
  prize = prize  luck = luck  gift = gift
  Nil = Nil
  BlackAward = luck
  LuckAward = luck
  Root = "rule_lock"
  Nodes <- TreeNames
  Lines <- StockTree
  Requests = {r1}
  Assemblers = {m1}
  Awards = {prize, gift, luck}
  Rows = {prize, gift, luck}
  TreeAwards = {prize}
  Lists <- TwoLists
  MaxEntries = 3
  RuleModels <- BlackThenWeight
  WeightAwards <- TwoWeights
  Scores = {0, 1, 2}
  LockCount = 1
  StockOf <- StockOne
  ServedQueues <- WithCriticalWorker
  Faults <- PoolFaults
SPECIFICATION Spec
INVARIANTS TypeOK PoolMatchesList 
