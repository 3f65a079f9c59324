SPECIFICATION Spec
CONSTANTS
  a = a
  b = b
  Boards = {a, b}
  Contents = {x}
  FileOf <- OneFile
  Faults = {}
  MaxFaults = 0
  MaxChanges = 1
  MaxCrashes = 0
  NoBoard = none
PROPERTIES
  SavesKeepItems
