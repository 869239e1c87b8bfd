CONSTANTS
  Deployments = {d1, d2}
  Runners = {r1, r2}
  Pids = {p1, p2, p3}
  NoPid = NoPid
  HasURL = TRUE
  NameOf <- OwnNames
  PortOf <- OnePort
  Worlds <- MCWorlds
SPECIFICATION Spec
SYMMETRY Symmetry
INVARIANTS TypeOK StopHitsOwn StopKills Tracked PartialIsDownloading FailedLeavesNothing
PROPERTIES StartedServes KeepsPromise
