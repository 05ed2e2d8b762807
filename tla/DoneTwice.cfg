SPECIFICATION Spec
CONSTANTS
  Media = {m1}
  App = app
  Workers = {w1}
  Tools = {}
  NoMedia = NoMedia
  MaxAttempts = 2
  MaxCrashes = 0
  MaxGlitches = 1
  MaxErrors = 0
CHECK_DEADLOCK FALSE
PROPERTIES
  DoneIsFinal
