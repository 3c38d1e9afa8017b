SPECIFICATION LimitSpec
CONSTANTS
  p1 = p1  p2 = p2  k1 = k1
  Processes = {p1, p2}
  Keys = {k1}
  Limit <- MCLimit
  Window = 2
  Patience = 1
  MaxTime = 3
  MaxAsked = 5
  NoKey = NoKey
  Shared = Shared
SYMMETRY MCSymmetry
INVARIANTS LimitIsKept PastIsForgotten
