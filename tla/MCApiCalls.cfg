SPECIFICATION MCSpec
CONSTANTS
  c1 = c1
  c2 = c2
  Calls = {c1, c2}
  Clusters = {"a", "b"}
  k1 = k1
  k2 = k2
  Keys = {k1, k2}
  Lifetime = 2
  Grace = 1
  MaxTime = 3
INVARIANT ReportedAsHappened
PROPERTIES FreshToken EveryCallEnds
