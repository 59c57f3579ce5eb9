SPECIFICATION FairSpec
CONSTANTS
  Workers = {w1, w2}
  NoOne = NoOne
  NoKey = NoKey
  NoRequest = NoRequest
  w1 = w1
  w2 = w2
  k1 = k1
  Users <- MCUsers
  Admins = {"boss"}
  NamesOf <- MCNamesOf
  UserOf <- MCUserOf
  Accounts = {1, 2, 3, 4}
  OwnerOf <- MCOwnerOf
  SeedBalance <- MCSeedBalance
  WalletGrant = 1
  Keys = {k1}
  Requests <- MixedRequests
  RowLocks = TRUE
  SeedStamp = 0
  MaxStamp = 3
INVARIANTS
  TypeOK
  OncePerKey
  AnswersAreCommitted
PROPERTIES
  ImplementsJournal
  EveryRequestAnswered
