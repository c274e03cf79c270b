SPECIFICATION Spec
CONSTANTS
  r1 = r1  r2 = r2
  a1 = a1  a2 = a2  a3 = a3
  live = live  paper = paper
  NoAttempt = NoAttempt
  Scope = {live}
  Run = {r1, r2}
  Live = {r1}
  Attempt <- AttemptIds
  ScopeOf <- OneAccount
  SessionOf <- SameDay
  LeaseSeconds = {1}
  DayLength = 3
  MaxLag = 1
  Horizon = 3
  MaxWrites = 2
  MaxCommands = 1
SYMMETRY AttemptSymmetry
INVARIANTS
  IInv OutcomeMatchesLinks
PROPERTIES
  FencedSpec
CHECK_DEADLOCK FALSE
