SPECIFICATION Spec
CONSTANTS
  Procs = {w1, w2}
  MaxFaults = 1
  Requests = {r1, r2}
  MaxBegun = 4
  MaxMinute = 1
  Tokens = {t1}
  NoToken = NoToken
  NoProc = NoProc
  Ops = {"login", "admin", "logout"}
  Threshold = 2
  Rpm = 1
SYMMETRY Symmetry
CHECK_DEADLOCK FALSE
INVARIANTS
  TypeOK
  GuessesBounded
  AttemptsBounded
  CountersExpire
  EndedStaysEnded
