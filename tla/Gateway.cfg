CONSTANTS
  d1 = d1
  d2 = d2
  d3 = d3
  Deployments = {d1, d2, d3}
  Contents = {"planned", "running", "absent", "torn"}
  Clients = {q1}
  Names = {"a", "b"}
  NameOf <- MCNameOf
  AddressOf <- MCAddressOf
  BindsAt <- MCBindsAt
  Rank <- MCRank
  Faults = {"disk", "network"}
  Times = {0, 1}
  MaxEvents = 3
  MaxLimit = 2
SPECIFICATION LoggedSpec
INVARIANTS TypeOK ForwardedWasStarted RefusalJustified RecentIsNewest
PROPERTY LoggingKeepsNewer
