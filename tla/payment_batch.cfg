SPECIFICATION MCSpec
CONSTANTS
  Workers = {w1, w2}
  NoOne = NoOne
  NoKey = NoKey
  NoRequest = NoRequest
  w1 = w1
  w2 = w2
  Users = {"alice", "bob", "boss"}
  Admins = {"boss"}
  NamesOf <- MCNamesOf
  UserOf <- MCUserOf
  Accounts = {1, 2, 3, 4}
  OwnerOf <- MCOwnerOf
  SeedBalance <- MCSeedBalance
  WalletGrant = 1
  Keys = {}
  Requests <- MCRequests
  Batches <- MCBatches
  RowLocks = TRUE
  SeedStamp = 0
  MaxStamp = 2
INVARIANTS
  RunningBalanceCurrent
  NoFreeWallet
  BatchReportTrue
  LocksFollowBatches
PROPERTY EveryBatchEnds
