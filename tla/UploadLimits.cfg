SPECIFICATION Spec
CONSTANTS
  Procs = {w1}
  MaxFaults = 1
  Requests = {r1, r2}
  MaxBegun = 3
  MaxTime = 3
  Hour = 2
  CountLife = 2
  BytesLife = 3
  Signed = {}
  Anons = {a1}
  Global = Global
  Sizes = {1, 2}
  Rpm <- LimitPerMinute
  Bph <- LimitPerHour
  NoProc = NoProc
SYMMETRY Symmetry
CHECK_DEADLOCK FALSE
INVARIANTS
  TypeOK
  RpmBounded
  HourBounded
  NoneUncounted
  RefusedSpendsNoneOfGlobal
