SPECIFICATION Spec
CONSTANTS
  c1 = c1 c2 = c2 s1 = s1 s2 = s2 s3 = s3 i1 = i1 i2 = i2 i3 = i3
  Conn <- Conns
  Session <- Sessions
  Id <- Ids3
  Nil = Nil HeadEnd = HeadEnd TailEnd = TailEnd
  Timeout = 1
  MaxTime = 2
  CacheSizes = {1, 3}
  FlushEvery = 2
SYMMETRY Sym3
INVARIANTS RefsExact ListMatchesTable
PROPERTIES BoundedAfterAdd OnlyExpiredRemoved
