SPECIFICATION Spec
CONSTANTS
  s1 = s1  b1 = b1  sched = sched
  Intent = {s1, b1}
  Buy = {b1}
  SaleOf <- OneSwap
  Process = {sched}
  MaxIntents = 2
  MaxAttempts = 3
  RetryInterval = 1
  CloseAt = 9
  Horizon = 2
  Scene <- Swaps
  MaxLines = 6
INVARIANTS
  SwapBuyFollowsSale
CHECK_DEADLOCK FALSE
