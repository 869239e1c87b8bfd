CONSTANTS
  Threads = {t1, t2, t3}
  Ids = {i1, i2}
  Values = {v1, v2}
  Faults = {"crash", "disk"}
  Nobody = Nobody
SPECIFICATION JSpec
SYMMETRY Symmetry
INVARIANT JTypeOK
PROPERTY ImplementsAtomic
