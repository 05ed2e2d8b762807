SPECIFICATION Spec
CONSTANTS
  Users = {u1, u2}
  Mails = {e1, e2}
  Passwords = {p1}
  NoPw = NoPw
  Identities = {i1}
  NoOne = NoOne
  Keys = {k1, k2}
  NoKey = NoKey
  Jtis = {j1}
  Requests = {r1, r2}
  NoIdentity = NoIdentity
  NoJti = NoJti
  MaxBegun = 5
SYMMETRY Symmetry
CHECK_DEADLOCK FALSE
INVARIANTS
  TypeOK
  LoginMethodRemains
  NonceOnce
  GoneStaysGone
  KeyIsLatest
  SuspensionStands
PROPERTIES
  LinksOnlyByConsent
