CONSTANTS
  NoVal = NoVal
  BadVal = BadVal
  CacheCalls = {q1, q2}
  q1 = q1
  q2 = q2
  Homes <- MCHomes
  Clients <- MCClients
  TenDays = 2
  FiveSeconds = 1
  Deadline = 1
  MaxVersion = 2
  CacheFaults <- AllCacheFaults
SPECIFICATION CacheFairSpec
INVARIANTS CacheTypeOK
PROPERTIES  UnreadableOnlyShared  CacheConverges
