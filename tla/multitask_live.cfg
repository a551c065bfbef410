SPECIFICATION FairSpec
CONSTANTS
  c1 = c1
  c2 = c2
  Idle = Idle
  NoTask = NoTask
  Boot = Boot
  Terminator = Terminator
  Tasks = {Boot, Terminator, c1, c2}
  Sleepers = {c1}
  Blockers = {}
  Wakers = {}
  Targets = {}
  Mortal = {c1}
  Durations = {1}
  ReapDelay = 1
  TickMod = 2
  CounterMod = 5
  MaxNested = 0
PROPERTIES OverdueIsNotPassed ReadyRuns TerminatedIsReaped ListDamagedOnlyByStaleHead
