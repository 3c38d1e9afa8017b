SPECIFICATION AnalysisLiveSpec
CONSTANTS
  u1 = u1  r1 = r1  r2 = r2  r3 = r3  a1 = a1  a2 = a2  other = other
  Users = {u1}
  Requests = {r1, r2, r3}
  Caller <- MCCaller
  Targets <- MCTargets
  Subjects <- MCSubjects
  Changes <- MCChanges
  MaxBalance = 1
  MaxEntries = 4
  NoRequest = NoRequest
  NoEntry = NoEntry
  Analyses = {a1, a2}
  NoAnalysis = NoAnalysis
  Cost = 1
  AnalyzeRequests = {r1, r2}
  ApiRequests = {r1}
  k1 = k1
  ApiKeys = {k1}
  KeyOf <- MCKeyOf
  DbTrouble = {r1}
  Crashing = {r1}
INVARIANTS AnalysisTypeOK ClearedMeansGone
PROPERTIES ChargedWhenItSucceeds FailureIsFree UsageMatchesLedger DeletedStaysFree EveryAnalysisSettles
