SPECIFICATION AdminLiveSpec
CONSTANTS
  u1 = u1  u2 = u2  p1 = p1  p2 = p2  r1 = r1  r2 = r2
  plan = plan  cost = cost
  Processes = {p1, p2}
  Requests = {r1, r2}
  Transactions = {p1, p2, r1, r2}
  Users = {u1, u2}
  Plans = {plan}
  Settings = {cost}
  Rows = {u1, u2, plan, cost}
  Cells <- MCCells
  RowOf <- MCRowOf
  Default <- MCDefault
  Caller <- MCCaller
  Status <- MCStatus
  Role <- MCRole
  Forms <- MCForms
  MaxLines = 2
  Absent = Absent
  Packages = Packages
  Nobody = Nobody
INVARIANTS SeededOnce AuditExplainsState
PROPERTIES EveryTransactionEnds
CHECK_DEADLOCK FALSE
