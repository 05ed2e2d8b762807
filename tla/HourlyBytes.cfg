SPECIFICATION Spec
CONSTANTS
  Procs = {w1}
  MaxFaults = 0
  Requests = {r1}
  MaxBegun = 3
  MaxTime = 1
  Hour = 2
  CountLife = 2
  BytesLife = 3
  Signed = {u1}
  Anons = {a1}
  Global = Global
  Sizes = {1, 2}
  Rpm <- LimitPerMinute
  Bph <- LimitPerHour
  NoProc = NoProc
SYMMETRY Symmetry
CHECK_DEADLOCK FALSE
INVARIANTS
  BytesPerHour
