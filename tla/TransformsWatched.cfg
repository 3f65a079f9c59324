CONSTANTS
  Items = {"box", "line"}
  Boxed = {"box"}
  Matrix <- MCMatrix
  Identity <- MCIdentity
  Mul <- MCMul
  Inv <- MCInv
  Translations <- MCTranslations
  Linear <- MCLinear
  Workers = 2
  MaxAdds = 2
  MaxPoints = 2
  MaxReloads = 1
  MaxUnderWay = 2
SPECIFICATION Ordered
INVARIANTS
  WatcherSeesAll
CHECK_DEADLOCK FALSE
