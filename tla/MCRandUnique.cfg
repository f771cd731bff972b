CONSTANTS
  Threads = {t1, t2}
  Keys = {private}
  kCtrDrbgReseedInterval = 2
  MaxChunks = 2
  MaxEras = 3
  PredResistance = FALSE
  NoThread = NoThread
  Null = Null
SPECIFICATION Spec
SYMMETRY Symm
PROPERTIES OutputUnique
CHECK_DEADLOCK FALSE
