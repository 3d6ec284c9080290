CONSTANTS
  Users = {u1}
  Sessions = {s1, s2}
  Tokens = {t1, t2, t3}
  Requests = {r1, r2}
  NoUser = NoUser
  NoToken = NoToken
  MaxFaults = 1
SPECIFICATION Spec
SYMMETRY Symmetry
INVARIANTS TypeOK ResetEndsSessions OneResetPerToken
