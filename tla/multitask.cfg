SPECIFICATION Spec
CONSTANTS
  c1 = c1
  c2 = c2
  Idle = Idle
  NoTask = NoTask
  Boot = Boot
  Terminator = Terminator
  Tasks = {Boot, Terminator, c1}
  Sleepers = {}
  Blockers = {c1}
  Wakers = {Boot}
  Targets = {c1}
  Mortal = {c1}
  Durations = {1}
  ReapDelay = 1
  TickMod = 2
  CounterMod = 4
  MaxNested = 1
INVARIANTS TypeOK IrqLockHandedOver CurrentRuns
PROPERTY CounterDriftsOnlyByRace
