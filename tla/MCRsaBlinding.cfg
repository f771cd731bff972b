SPECIFICATION Spec
CONSTANTS
  t1 = t1 t2 = t2 t3 = t3 b1 = b1 b2 = b2 b3 = b3
  Thread <- Threads3
  Blinding <- Blindings3
  None = None
  MaxBlindings = 2
  Counter = 2
  MaxBase = 2
  MaxGen = 2
  MaxMont = 2
SYMMETRY Sym3
INVARIANTS Exclusive CacheExact Unblinds
PROPERTIES NoFactorReused KeyStable
