CONSTANTS
  Threads = {t1, t2}
  Keys = {private}
  kCtrDrbgReseedInterval = 1
  MaxChunks = 1
  MaxEras = 1
  PredResistance = FALSE
  NoThread = NoThread
  Null = Null
SPECIFICATION Spec
PROPERTIES ExitReturns ClearReturns
CHECK_DEADLOCK FALSE
