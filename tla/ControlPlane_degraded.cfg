CONSTANTS
  Deployments = {d1}
  Handlers = {h1}
  Machines = {m1}
  Models = {l1}
  Scheduler = Scheduler
  None = None
  Conditions = {"erroring", "health_ok"}
  Faults = {}
  MachineOf <- MCMachineOf
  ModelOf <- MCModelOf
SPECIFICATION FairSpec
PROPERTIES DegradedRecovers
