CONSTANTS
  PartsOf <- SceneParts
  Picks <- ScenePicks
  Links <- SceneLinks
  Latecomers <- SceneLatecomers
  MaxSets = 4
SPECIFICATION Spec
INVARIANTS
  Settled
  Painted
PROPERTIES
  NeverBack
CHECK_DEADLOCK FALSE
