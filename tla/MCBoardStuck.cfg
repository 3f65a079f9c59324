SPECIFICATION FairSpec
CONSTANTS
  Clients = {c1}
  Workers = {w1, w2}
  Free = Free
  NoOne = NoOne
  NoMsg = NoMsg
  Calls <- SelectCalls
  InitItems = 1
  MaxCalls = 3
  MaxConns = 1
  MaxBoards = 1
PROPERTY
  EditsAreShared
