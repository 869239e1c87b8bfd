CONSTANTS
  Threads = {t1, t2, t3}
  Ids = {i1}
  Values = {v1}
  Faults = {"disk"}
  Nobody = Nobody
SPECIFICATION JFairSpec
PROPERTY EveryCallReturns
