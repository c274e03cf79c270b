SPECIFICATION Spec
CONSTANTS
  morning = morning  midday = midday  k1 = k1  e1 = e1  e2 = e2
  Plan <- StartOrEnd
  File <- Files
  Session <- FullThenHalf
  ScheduleId = {morning, midday}
  Tick = {k1}
  Editor = {e1, e2}
  DayLength = 2
  Grace = 1
  MaxAge = 1
  Horizon = 2
  MaxRevisions = 2
  Scene <- Scenes
SYMMETRY Operators
INVARIANTS
  TypeOK OncePerOccurrence FirstInWindow PreviewAgrees
PROPERTIES
  NoBlindResume NothingReopened
CHECK_DEADLOCK FALSE
