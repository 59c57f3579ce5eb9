SPECIFICATION MCSpec
CONSTANTS
  s1 = s1
  s2 = s2
  w1 = w1
  w2 = w2
  p1 = p1
  ip1 = ip1
  c1 = c1
  r1 = r1
  r2 = r2
  Servers = {s1, s2}
  Workers = {w1, w2}
  NoOne = NoOne
  NoRow = NoRow
  NoProfile = NoProfile
  Engines = {"postgresql", "sqlite"}
  Environments = {"development", "production"}
  SeedUsers <- DemoUsers
  Grids <- Regions
  Openings <- Databases
  Hosts <- Machines
  NewGrids = {"state"}
  GoalTypes = {"co2_per_tx"}
  MaxStops = 1
  MaxChanges = 2
  MaxProfiles = 2
  Processes = {p1}
  Clients = {ip1}
  Buckets = {"auth"}
  Connections = {c1}
  Readers = {r1, r2}
  Paths = {"login", "register"}
  BucketOf <- MCBucketOf
  Quota <- MCQuota
  Window = 3
  Second = 2
  MaxTime = 4
  MaxCalls = 3
SYMMETRY Symmetry
INVARIANTS
  SeedIsWhole
  ObservedPowerIsMeasured
  RunsCiteTheirBaseline
  DefaultComesFirst
  WindowBound
  RetryIsEnough
  CountsAreTrue
PROPERTIES
  ActivationsReplace
  SomeFactorActive
