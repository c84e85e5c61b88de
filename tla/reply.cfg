CONSTANTS
  r1 = r1  r2 = r2  r3 = r3
  o1 = o1  o2 = o2  o3 = o3
  a1 = a1  a2 = a2
  b1 = b1  b2 = b2
  w1 = w1  w2 = w2
  Nil = Nil
  Requests = {r1, r2}
  Orders = {o1, o2}
  Awards = {a1, a2}
  Workers = {}
  Recharges = {b1}
  DimSeq <- DimSeqTotalDay
  LastDay = 1
  PeriodOf <- Calendar
  Grant <- GrantOne
  Faults <- NoFaults
SPECIFICATION Spec
INVARIANTS ReplyMatchesRecord
CHECK_DEADLOCK FALSE
