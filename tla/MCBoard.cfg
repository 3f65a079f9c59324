SPECIFICATION Spec
CONSTANTS
  Clients = {c1, c2}
  Workers = {w1, w2}
  Free = Free
  NoOne = NoOne
  NoMsg = NoMsg
  Calls <- BoardCalls
  InitItems = 1
  MaxCalls = 3
  MaxConns = 1
  MaxBoards = 2
SYMMETRY Symmetry
INVARIANTS
  TypeOK
  SelectionsMatch
  SelectionsDisjoint
  EditsByOwner
  EditTargetExists
  DeletesOnlyOwned
  SelectableExists
  OwnersInv
  ItemsInv
PROPERTIES
  Handover
