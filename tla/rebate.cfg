CONSTANTS
  c1 = c1
  c2 = c2
  k1 = k1
  k2 = k2
  NoMsg = NoMsg
  SignCalls = {c1, c2}
  Instances = {k1, k2}
  SignDays = {1, 2}
  Configs <- SkuIntegral
  SendRebate = "activity_award_send_topic"
  GapLocks = TRUE
  RebateFaults <- AllRebateFaults
SPECIFICATION RebateFairSpec
INVARIANTS RebateTypeOK CreditedOnce  
 
CHECK_DEADLOCK FALSE
