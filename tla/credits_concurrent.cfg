SPECIFICATION RacingSpec
CONSTANTS
  Workers = {w1, w2}
  NoOne = NoOne
  NoRequest = NoRequest
  w1 = w1
  w2 = w2
  Users <- RacingUsers
  OpeningBalance <- MCOpeningBalance
  OpeningCredits <- MCOpeningCredits
  Requests <- RacingRequests
  Engines = {"postgresql", "sqlite"}
  MaxOps = 2
CHECK_DEADLOCK FALSE
INVARIANTS
  TypeOK
  InventoryFollowsLedger
  AnswersAreTrue
  OneCheckedSpender
PROPERTIES
  EveryRequestAnswered
  StaleListingsAreExplained
