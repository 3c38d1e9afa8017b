SPECIFICATION ClientSpec
CONSTANTS
  u1 = u1  r1 = r1  r2 = r2  b1 = b1
  Users = {u1}
  Requests = {r1, r2}
  TokenIds = {1, 2, 3}
  NoToken = NoToken
  NoRequest = NoRequest
  NoUser = NoUser
  MayCrash = FALSE
  Tabs = {b1}
  TabOf <- MCTabOf
  NoAnswer = NoAnswer
  Staying = Staying
INVARIANT LogoutSticks
