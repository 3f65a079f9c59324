CONSTANTS
  Items = {"s", "l"}
  TypeOf <- MCTypeOf
  Values = {0, 1}
  Default = 0
  Invalid = 9
  Workers = 2
  MaxEdits = 2
  MaxSelects = 2
  MaxUploads = 1
SPECIFICATION Spec
INVARIANTS
  CopiesAgree
  PanelIsBound
  ShownIsStored
CHECK_DEADLOCK FALSE
VIEW AllButTwins
