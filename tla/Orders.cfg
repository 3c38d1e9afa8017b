SPECIFICATION OrdersLiveSpec
CONSTANTS
  u1 = u1  u2 = u2  r1 = r1  r2 = r2  r3 = r3  r4 = r4  o1 = o1  o2 = o2
  Users = {u1, u2}
  Requests = {r1, r2, r3, r4}
  Caller <- MCCaller
  Targets <- MCTargets
  Subjects = {o1, o2}
  Changes <- MCChanges
  MaxBalance = 3
  MaxEntries = 2
  NoRequest = NoRequest
  NoEntry = NoEntry
  OrderIds = {o1, o2}
  OrderUser <- MCOrderUser
  PointsGranted <- MCPointsGranted
  AdminRequests = {r3, r4}
  Closed = {"REFUNDED"}
  NoTask = NoTask
INVARIANTS DeadlocksAreApprovals UnpaidGrantsNothing PaidIsGranted
PROPERTIES OwnersChangePendingOnly GrantsFollowStatus AccountsSpec EveryRequestAnswered
