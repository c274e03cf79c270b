SPECIFICATION Spec
CONSTANTS
  d1 = d1  d2 = d2  d3 = d3  d4 = d4  live = live  old = old  new = new
  Decision = {d1, d2, d3, d4}
  Draft <- SwapDrafts
  Ticker = {old, new}
  Profile = {live}
  Swaps <- OneSwapOrNone
  MaxBuys = 1
  MaxBuysBrake = 2
  MaxSells = 1
  DayLength = 2
  UtcLead = 1
  MaxLag = 1
  Horizon = 2
SYMMETRY Ids
INVARIANTS
  TypeOK RowsAgree QuotaHolds SwapsAreFunded
PROPERTIES
  OutcomeFinal
CHECK_DEADLOCK FALSE
