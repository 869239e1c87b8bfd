CONSTANTS
  Deployments = {d1}
  Handlers = {h1, h2}
  Machines = {m1}
  Models = {l1}
  Scheduler = Scheduler
  None = None
  Conditions = {"closed", "health_ok", "root_ok"}
  Faults = {}
  Names = {n1}
  MachineOf <- MCMachineOf
  ModelOf <- MCModelOf
  NameOf <- MCNameOf
SPECIFICATION FleetFairSpec
INVARIANTS DeployingHasHandler StoppedIsDown
PROPERTIES DeployingResolves DownIsNoticed UpIsNoticed
