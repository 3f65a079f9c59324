CONSTANTS
  Pointers = {1}
  Tools = {"text", "pan"}
  MaxGestures = 1
  MaxClicks = 2
SPECIFICATION Spec
PROPERTY ModeStays
CHECK_DEADLOCK FALSE
