SPECIFICATION FairSpec
CONSTANTS
  a = a
  b = b
  Boards = {a, b}
  Contents = {x, y}
  FileOf <- OwnFiles
  Faults = {"create", "write", "close", "rename", "read"}
  MaxFaults = 1
  MaxChanges = 2
  MaxCrashes = 1
  NoBoard = none
INVARIANTS
  TypeOK
  FileWhole
  SaveInv
PROPERTIES
  SavesKeepItems
  StoreSpec
  SavedEventually
