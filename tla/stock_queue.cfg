CONSTANTS
  r1 = r1  r2 = r2  r3 = r3
  m1 = m1
  prize = prize  luck = luck  gift = gift
  Nil = Nil
  BlackAward = luck
  LuckAward = luck
  Root = "rule_lock"
  Nodes <- TreeNames
  Lines <- StockTree
  Requests = {r1, r2}
  Assemblers = {m1}
  Awards = {prize, luck}
  Rows = {prize, luck}
  TreeAwards = {prize}
  Lists <- OneList
  MaxEntries = 1
  RuleModels <- NoRules
  WeightAwards <- NoWeights
  Scores = {0}
  LockCount = 1
  StockOf <- StockOne
  ServedQueues <- RepositoryQueues
  Faults <- NoFaults
SPECIFICATION FairSpec
PROPERTY EveryUnitPersisted
