CONSTANTS
  Threads = {t1, t2}
  Keys = {private, public}
  kCtrDrbgReseedInterval = 1
  MaxChunks = 1
  MaxEras = 1
  PredResistance = TRUE
  NoThread = NoThread
  Null = Null
SPECIFICATION Spec
SYMMETRY Symm
INVARIANTS ListSound Zeroised NoFreeWhileLocked
PROPERTIES NoOutputAfterClear
CHECK_DEADLOCK FALSE
