SPECIFICATION Spec
CONSTANTS
  Workers = {w1, w2}
  NoRequest = NoRequest
  w1 = w1
  w2 = w2
  Users <- MCUsers
  Deployments <- MCDeployments
  Seeded <- MCSeeded
  MaxFailures = 2
SYMMETRY Symmetry
INVARIANTS
  TypeOK
  RevocationIsComplete
  LocksAreEarned
  OneBoss
  BossKeepsOffice
PROPERTIES
  SuspensionSticks
  SuperAdminsAreAppointed
