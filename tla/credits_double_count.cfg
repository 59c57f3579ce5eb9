SPECIFICATION Spec
CONSTANTS
  Workers = {w1, w2}
  NoOne = NoOne
  NoRequest = NoRequest
  w1 = w1
  w2 = w2
  Users <- MCUsers
  OpeningBalance <- MCOpeningBalance
  OpeningCredits <- MCOpeningCredits
  Requests <- DoubleClaim
  Engines = {"postgresql"}
  MaxOps = 2
INVARIANT NotCountedTwice
