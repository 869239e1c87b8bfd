CONSTANTS
  Deployments = {d1}
  Handlers = {h1, h2, h3}
  Machines = {m1}
  Models = {l1}
  Scheduler = Scheduler
  None = None
  Conditions = {"closed", "health_ok", "models_ok", "root_ok", "erroring"}
  Faults = {"crash", "disk"}
  MachineOf <- MCMachineOf
  ModelOf <- MCModelOf
SPECIFICATION Spec
SYMMETRY Symmetry
INVARIANTS TypeOK StatusEarned
PROPERTIES KeepsPromise LostForGood SettledUntilRequest
