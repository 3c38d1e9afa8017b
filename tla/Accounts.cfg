SPECIFICATION AccountsSpec
CONSTANTS
  u1 = u1  u2 = u2  u3 = u3  r1 = r1  r2 = r2  r3 = r3  bonus = bonus
  Users = {u1, u2, u3}
  Requests = {r1, r2, r3}
  Caller <- MCCaller
  Targets <- MCTargets
  Subjects <- MCSubjects
  Changes <- MCChanges
  MaxBalance = 2
  MaxEntries = 3
  NoRequest = NoRequest
  NoEntry = NoEntry
INVARIANTS AccountsTypeOK BalanceIsLastEntry LockedReadsContinue StartsFromCommittedBalance
PROPERTY BookKept
