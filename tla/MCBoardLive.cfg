SPECIFICATION FairViewsSpec
CONSTANTS
  Clients = {c1, c2}
  Workers = {w1, w2}
  Free = Free
  NoOne = NoOne
  NoMsg = NoMsg
  Calls <- ViewCalls
  InitItems = 1
  MaxCalls = 2
  MaxConns = 1
  MaxBoards = 1
INVARIANT
  ViewsAgree
PROPERTIES
  HandlersFinish
  QueueDrains
