CONSTANTS
  Pointers = {1, 2}
  Tools = {"pen", "line", "polygon", "image", "text", "shape", "pan", "pick"}
  MaxGestures = 2
  MaxClicks = 3
SPECIFICATION FairSpec
INVARIANTS
  OneToolListens
  ActionIsCurrent
  NothingLost
PROPERTIES
  ActionEnds
  CursorsExpire
CHECK_DEADLOCK FALSE
