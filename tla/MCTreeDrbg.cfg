SPECIFICATION Spec
CONSTANTS
  t1 = t1 t2 = t2
  Thread <- Threads
  None = None
  MaxThread = 1
  MaxGlobal = 2
  MaxEra = 3
SYMMETRY Sym
INVARIANT Associated
PROPERTY SeedFresh
