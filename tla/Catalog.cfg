CONSTANTS
  m1 = m1
  m2 = m2
  l1 = l1
  l2 = l2
  l3 = l3
  l4 = l4
  Machines = {m1, m2}
  KindOf <- MCKindOf
  HardwareOf <- MCHardwareOf
  Models = {l1, l2, l3, l4}
  Requirement <- MCRequirement
  Handlers = {h1, h2}
  Fails = {"free", "find nvidia-smi", "run nvidia-smi"}
  Faults = {"disk", "crash"}
SPECIFICATION Spec
SYMMETRY Symmetry
INVARIANTS TypeOK RecommendedFits
PROPERTIES GoneForGood
