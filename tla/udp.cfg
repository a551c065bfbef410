SPECIFICATION Spec
CONSTANTS
  t1 = t1
  t2 = t2
  d1 = d1
  d2 = d2
  d3 = d3
  Tasks = {t1, t2}
  Datagrams = {d1, d2, d3}
  Fixed = {1}
  Ephemeral = {2, 3}
  NoTask = NoTask
  Nothing = Nothing
  Junk = Junk
SYMMETRY Symmetry
INVARIANTS PortHasItsBuffer ForwardsToOwner NoLostWakeUp
PROPERTY ReadsOneDatagram
