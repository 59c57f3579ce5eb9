SPECIFICATION SerialSpec
CONSTANTS
  Workers = {w1}
  NoOne = NoOne
  NoRequest = NoRequest
  NoKey = NoKey
  w1 = w1
  w2 = w2
  k1 = k1
  Users <- MCUsers
  OpeningBalance <- MCOpeningBalance
  OpeningCredits <- MCOpeningCredits
  Requests <- AllRequests
  Engines = {"postgresql"}
  MaxOps = 3
INVARIANT BooksBalance
PROPERTIES
  AtomicBank
  ImplementsRegistry
