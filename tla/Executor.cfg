SPECIFICATION FairSpec
CONSTANTS
  s1 = s1  b1 = b1  sched = sched
  Intent = {s1, b1}
  Buy = {b1}
  SaleOf <- OneSwap
  Process = {sched}
  MaxIntents = 1
  MaxAttempts = 2
  RetryInterval = 2
  CloseAt = 3
  Horizon = 4
  Scene <- Scenes
  MaxLines = 6
INVARIANTS
  TypeOK UnlessKilled UnrecordedIsLoud RetriesPaced
PROPERTIES
  PairedBuyFollowsSale TickEnds
CHECK_DEADLOCK FALSE
