SPECIFICATION Spec
CONSTANTS
  Nil = Nil
  NoRange = "none"
  CooldownDays = 3
  MaxEvents = 1
  MaxSales = 1
  Price = {55, 80, 100, 130}
  RangeName = {"tight", "loose"}
  Bounds <- Stated
  Scene <- Scenes
INVARIANTS
  TypeOK Settled Fresh
PROPERTIES
  TriggersAreSpaced
CHECK_DEADLOCK FALSE
