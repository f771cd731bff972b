SPECIFICATION UbeSpec
CONSTANTS
  Threads = {t1, t2}
  MaxEvents = 3
  NoThread = NoThread
INVARIANTS Fresh NoRedundantIncrement NeverFailsLate
PROPERTIES CallReturns
