SPECIFICATION Spec
CONSTANTS
  Media = {m1}
  App = app
  Workers = {w1}
  Tools = {cli}
  NoMedia = NoMedia
  MaxAttempts = 2
  MaxCrashes = 0
  MaxGlitches = 1
  MaxErrors = 1
CHECK_DEADLOCK FALSE
INVARIANTS
  NothingForgotten
