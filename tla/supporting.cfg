CONSTANTS
  Tasks = {1, 2, 3}
  Limit = 2
  JobRuns = {1}
  MaxConfig = 4
  BadConfigs = {2}
  DccFaults <- AllDccFaults
  s1 = s1
  s2 = s2
  NoRow = NoRow
  Shards = {s1, s2}
  PrimaryKeys = {1, 2}
  MaxEvents = 3
  WritesPerEvent = 2
  CdcFaults <- AllCdcFaults
  Awards = {a1, a2, a3}
  Rates <- SampleRates
  DefaultClockSkew = 1
SPECIFICATION Spec
INVARIANTS
  OutboxTypeOK DccTypeOK   CdcTypeOK DocumentsMatchRows
  NormalisedIsExact CountIsNearest EveryUserIsRouted NoSecondChance HandlersSeeBoundUsers
PROPERTIES NoTaskStarves  CatchesUp
CHECK_DEADLOCK FALSE
