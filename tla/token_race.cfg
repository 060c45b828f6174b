CONSTANTS
  Users = {u1}
  Tokens = {k1, k2}
  Threads = {th1, th2}
  AccessTtl = 2
  RefreshTtl = 4
  SecondMs = 2
  NoUser = NoUser
  NoToken = NoToken
SPECIFICATION Spec
SYMMETRY Symmetry
CHECK_DEADLOCK FALSE
INVARIANT KickedStaysOut
