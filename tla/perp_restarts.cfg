CONSTANTS
  k1 = k1  k2 = k2  m1 = m1  m2 = m2  m3 = m3  m4 = m4  m5 = m5  m6 = m6
  Keys = {k1, k2}
  Mints = {m1, m2, m3, m4, m5, m6}
  Absent = Absent
  Torn = Torn
  MaxFaults = 2
  MaxStops = 1
  MaxWipes = 1
  MaxLosses = 1
SPECIFICATION FairSpec
INVARIANTS SameMarketAfterRestart SignerHasTraderKey StrandedAtACost
PROPERTY EventuallyServes
CHECK_DEADLOCK FALSE
