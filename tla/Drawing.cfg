SPECIFICATION FairSpec
CONSTANTS
  Drawer = d
  Watchers = {w1, w2}
  Meddlers = {w2}
  Tasks = 2
  MaxPoints = 3
INVARIANTS
  TypeOK
  NodesAsDrawn
  ListenersFollow
  WatchersSeeItem
PROPERTIES
  LiveLineSpec
  ToolFinishes
  WatchersFinish
CHECK_DEADLOCK FALSE
