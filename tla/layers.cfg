SPECIFICATION LayersSpec
CONSTANTS
  Base = 8
  TableSize = 3
  Macs = {m1, m2, m3}
  Ips = {9, 35}
  OwnMac = m0
  Own = 54
  None = None
  Payloads <- MCPayloads
  Rests = {0, 63}
INVARIANTS TableIsLatest AnswersVerify
SYMMETRY Symmetry
