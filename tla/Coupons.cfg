SPECIFICATION CouponsSpec
CONSTANTS
  u1 = u1  u2 = u2  u3 = u3  r1 = r1  r2 = r2  r3 = r3  r4 = r4
  single = single  open = open
  Users = {u1, u2, u3}
  Requests = {r1, r2, r3, r4}
  Caller <- MCCaller
  Targets <- MCTargets
  Subjects = {single, open}
  Changes = {1}
  MaxBalance = 2
  MaxEntries = 2
  NoRequest = NoRequest
  NoEntry = NoEntry
  CouponIds = {single, open}
  Reward <- MCReward
  Limit <- MCLimit
  NoLimit = NoLimit
  PoolSize = 2
  NoCoupon = NoCoupon
INVARIANTS OneRewardPerRedemption OverrunBounded
CHECK_DEADLOCK FALSE
