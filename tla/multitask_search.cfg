SPECIFICATION Spec
CONSTANTS
  c1 = c1
  c2 = c2
  Idle = Idle
  NoTask = NoTask
  Boot = Boot
  Terminator = Terminator
  Tasks = {Boot, Terminator, c1}
  Sleepers = {Boot,c1}
  Blockers = {}
  Wakers = {}
  Targets = {}
  Mortal = {}
  Durations = {1}
  ReapDelay = 1
  TickMod = 6
  CounterMod = 8
  MaxNested = 1
INVARIANT SearchFindsTask
