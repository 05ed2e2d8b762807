SPECIFICATION Spec
CONSTANTS
  Media = {m1}
  App = app
  Workers = {w1}
  Tools = {}
  NoMedia = NoMedia
  MaxAttempts = 3
  MaxCrashes = 1
  MaxGlitches = 1
  MaxErrors = 1
CHECK_DEADLOCK FALSE
INVARIANTS
  TypeOK
  DoneHasThumb
  NothingForgotten
  NoLeakedThumb
PROPERTIES
  EverythingSettles
