SPECIFICATION LoginsLiveSpec
CONSTANTS
  u1 = u1  r1 = r1  r2 = r2  r3 = r3
  Users = {u1}
  Requests = {r1, r2, r3}
  Caller <- MCCaller
  Targets <- MCTargets
  Subjects <- MCSubjects
  Changes = {1, 2}
  MaxBalance = 6
  MaxEntries = 4
  NoRequest = NoRequest
  NoEntry = NoEntry
  MaxDay = 2
  Joined = Joined
  RegistrationBonus = 2
  DailyBonus = 1
INVARIANTS OneBonusPerDay WelcomedOnce
PROPERTIES EveryLoginAnswered
