SPECIFICATION Spec
CONSTANTS
  Junk = Junk
  Stray = Stray
  W = 2
  SeqMod = 16
  Isns = {4}
  N = 2
  MaxLen = 1
  Ahead = 1
  ReadSize = 2
  Leftover = {}
  Openings = {"listen"}
INVARIANT AckedHasArrived
