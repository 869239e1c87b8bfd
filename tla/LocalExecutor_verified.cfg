CONSTANTS
  Deployments = {d1}
  Runners = {r1}
  Pids = {p1, p2}
  NoPid = NoPid
  HasURL = FALSE
  NameOf <- OwnNames
  PortOf <- OnePort
  Worlds <- CalmWorld
SPECIFICATION Spec
PROPERTY VerifiedRunning
