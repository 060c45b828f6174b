CONSTANTS
  Users = {u1, u2}
  Tokens = {k1, k2}
  Threads = {th1, th2}
  AccessTtl = 1
  RefreshTtl = 2
  SecondMs = 2
  NoUser = NoUser
  NoToken = NoToken
SPECIFICATION Spec
SYMMETRY Symmetry
CHECK_DEADLOCK FALSE
INVARIANTS
  TypeOK
  Locatable
  OrderlyKick
PROPERTIES
  GoneStaysGone
