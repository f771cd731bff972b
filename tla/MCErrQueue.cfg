SPECIFICATION Spec
CONSTANTS
  s1 = s1 s2 = s2
  Str <- Strs2
  Null = Null
  NoText = NoText
  Err = {2, 3}
  Text = {"x"}
  N = 3
  MaxDepth = 1
SYMMETRY Sym2
INVARIANTS OneOwner LentValid
PROPERTY LogSteps
