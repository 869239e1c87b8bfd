CONSTANTS
  d1 = d1
  d2 = d2
  d3 = d3
  Deployments = {d1, d2, d3}
  NameOf <- MCNameOf
  Runners = {r1, r2, r3}
  Worlds <- MCWorlds
SPECIFICATION Spec
SYMMETRY Symmetry
INVARIANTS TypeOK SafeToRetry
PROPERTIES KeepsPromise StartedOwn
