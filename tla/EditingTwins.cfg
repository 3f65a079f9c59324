CONSTANTS
  Items = {"s", "l"}
  TypeOf <- MCTypeOf
  Values = {0, 1}
  Default = 0
  Invalid = 9
  Workers = 2
  MaxEdits = 2
  MaxSelects = 2
  MaxUploads = 0
SPECIFICATION Spec
INVARIANT TwinsShowStored
PROPERTY TypedIsStored
CHECK_DEADLOCK FALSE
