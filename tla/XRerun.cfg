SPECIFICATION Spec
CONSTANTS
  Nil = Nil
  Account = {"a", "b"}
  Day = {4, 6, 7}
  Holidays = {}
  HalfDays = {4}
  Window = 2
  Floor = 1
  MaxReads = 5
  PageSize = 1
  MaxPosts = 3
  Scene <- MCScenes
INVARIANTS
  FailedRunsResume
CHECK_DEADLOCK FALSE
