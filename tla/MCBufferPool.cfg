SPECIFICATION Spec
CONSTANTS
  Threads = {t1, t2}
  Bufs = {b1, b2, b3}
  Data = {x, y}
  RefMax = 3
  MaxOwned = 2
  NoBuf = NoBuf
  NoThread = NoThread
  NoData = NoData
SYMMETRY Symm
INVARIANTS RefcountExact NoUseAfterFree OneStaticPerContents NoLeak PoolEmptyWhenFreed
PROPERTIES EntryKept StoreSpec
