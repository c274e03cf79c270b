SPECIFICATION FairSpec
CONSTANTS
  Nil = Nil
  Kind <- Kinds
  Run = {"r"}
  Occurrence = {"o"}
  Ref = {"f"}
  MaxEvents = 2
  Scene <- Scenes
INVARIANTS
  TypeOK CheckpointIsHonest CountsMatchFeed PagesAreOneSnapshot
PROPERTIES
  RevokedStaysGone CatchesUp
CHECK_DEADLOCK FALSE
