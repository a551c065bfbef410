SPECIFICATION NicFairSpec
CONSTANTS
  p1 = p1
  p2 = p2
  f1 = f1
  f2 = f2
  f3 = f3
  f4 = f4
  Junk = Junk
  Producers = {p1, p2}
  Frame = {f1, f2, f3, f4}
  Size = 3
  Descriptors = 2
INVARIANTS NoLostWakeUp WireCarriesFrames
PROPERTIES WorksUntilOvertaken Drains
