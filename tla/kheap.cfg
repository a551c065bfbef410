SPECIFICATION Spec
CONSTANTS
  t1 = t1
  t2 = t2
  Callers = {t1, t2}
  TwiceFreeing = {t1, t2}
  Bits = 8
  ByteBits = 2
  PageSize = 4
  Sizes = {2, 3}
SYMMETRY Symmetry
INVARIANTS BlocksDisjoint BitsAreBlocks
PROPERTY FirstFit
