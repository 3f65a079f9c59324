SPECIFICATION Spec
CONSTANTS
  Drawer = d
  Watchers = {w1}
  Meddlers = {}
  Tasks = 1
  MaxPoints = 2
INVARIANTS
  WholeGesture
CHECK_DEADLOCK FALSE
