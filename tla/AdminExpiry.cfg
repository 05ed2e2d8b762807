SPECIFICATION Spec
CONSTANTS
  Albums = {a1}
  Owned = {}
  Media = {m1, m2}
  Requests = {r1, r2}
  NoAlbum = NoAlbum
  NoMedia = NoMedia
  Never = Never
  MaxTime = 1
  Ttl = 1
  MaxItems = 2
  QuotaItems = 2
  MaxFaults = 0
CHECK_DEADLOCK FALSE
PROPERTIES
  AdminExpiryStands
