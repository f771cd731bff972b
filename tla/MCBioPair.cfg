CONSTANTS
  s1 = s1
  s2 = s2
  Side = {s1, s2}
  b1 = b1
  b2 = b2
  Byte = {b1, b2}
  Size <- MCSize
  Uninit = uninit
  MaxLen = 2

SPECIFICATION Spec
INVARIANT StructComment
PROPERTY PipeSpec
CHECK_DEADLOCK FALSE
SYMMETRY Bytes
