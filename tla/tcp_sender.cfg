SPECIFICATION FairSpec
CONSTANTS
  NoSegment = NoSegment
  Junk = Junk
  MaxQueue = 2
  WindowSize = 2
  Resend = 1
  Starts = {1, 5}
  N = 3
  Sizes = {1, 3}
  SeqMod = 8
  TickMod = 4
INVARIANTS SentIsStream InsideWindow
PROPERTIES FreedHasArrived StreamArrives
