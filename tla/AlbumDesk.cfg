SPECIFICATION Spec
CONSTANTS
  Requests = {r1, r2}
  Items = {i1, i2, i3, i4, i5}
  Objects = {i1, i2, i3, i4, i5}
  Links = {l1, l2, l3}
  k1 = k1
  k2 = k2
  k3 = k3
  Keys = {k1, k2, k3}
  Locked = {k3}
  Values = {0, 1}
  Album = Album
  Unset = Unset
  Gap = 4
  Chunks = 2
  Cap = 1
  MaxBegun = 2
  MaxFiles = 2
  MaxRaises = 1
  MaxItems = 3
  Begins = 2
  Places = {3, 4}
  Patches <- SomePatches
  Default <- Zeros
SYMMETRY Symmetry
INVARIANTS TypeOK ItemsBounded UploadsSpread EveryListenerTold ArchiveHonest
PROPERTIES SpentOnce SettingsWhole
CHECK_DEADLOCK FALSE
