SPECIFICATION FairSpec
CONSTANTS
  Junk = Junk
  Stray = Stray
  W = 2
  SeqMod = 8
  Isns = {0, 4}
  N = 3
  MaxLen = 2
  Ahead = 1
  ReadSize = 3
  Leftover = {0}
  Openings = {"listen", "connect"}
INVARIANTS ReadIsPrefix WindowHoldsStream AcksKeepBehind
PROPERTIES FittingByteIsTaken StreamArrives
