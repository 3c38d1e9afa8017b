SPECIFICATION TokensSpec
CONSTANTS
  u1 = u1  r1 = r1  r2 = r2  r3 = r3  t1 = t1  t2 = t2  t3 = t3  t4 = t4
  Users = {u1}
  Requests = {r1, r2, r3}
  TokenIds = {t1, t2, t3, t4}
  NoToken = NoToken
  NoRequest = NoRequest
  NoUser = NoUser
  MayCrash = TRUE
SYMMETRY MCSymmetry
INVARIANTS TokensTypeOK AtMostOneLive ClosedStaysClosed ReplacementChain
PROPERTIES DeadStaysDead
