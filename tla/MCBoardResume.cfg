SPECIFICATION Spec
CONSTANTS
  Clients = {c1, c2}
  Workers = {w1, w2}
  Free = Free
  NoOne = NoOne
  NoMsg = NoMsg
  Calls <- CreateCalls
  InitItems = 1
  MaxCalls = 3
  MaxConns = 2
  MaxBoards = 1
SYMMETRY Symmetry
INVARIANT
  OpenSocketIsHandle
