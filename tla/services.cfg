CONSTANTS
  x1 = x1 x2 = x2 x3 = x3 w1 = w1 w2 = w2
  m1 = m1 g1 = g1 g2 = g2 k1 = k1 k2 = k2 k3 = k3
  h1 = h1 h2 = h2
  s1 = s1 s2 = s2 s3 = s3 s4 = s4 n1 = n1 n2 = n2 d1 = d1 d2 = d2
  q1 = q1 q2 = q2
  a = a b = b
  NoNumber = NoNumber
  Tx <- Transactions
  Worker <- Workers
  Refused <- RefusedOnes
  QueueCap = 1
  DevCap = 1
  None = None
  Peer <- Peers
  Caller <- Callers
  Conn <- Conns
  NoConn = NoConn
  Holder <- Holders
  Stranger <- Strangers
  Master = Master
  Bounds <- Periods
  LastEpoch = 2
  Download <- Downloads
  Finished <- FinishedSlots
  Length <- MCLength
  NodeOf <- MCNodeOf
  StoreMethod <- MCStoreMethod
  Address <- Addresses
  Stored <- MCStored
  Signed <- MCSigned
  RowOrders <- MCRowOrders
  Asks <- MCAsks
  DataShards = 1
  CollectCap = 1
  NoDownload = NoDownload
  Handler <- Handlers
  QueryCap = 1
  ForeignRows = TRUE
  Nobody = Nobody
  Word <- Bits
  StemSize = 3
  Suffix <- MCSuffixes
  SecondHalf <- InSecondHalf
  Writes <- MCWrites
  Keys <- MCKeys
  Migrations <- MCMigrations
  ProofKeys <- MCProofKeys
  NewValue = NewValue
  Slots <- SlotKinds
  Epochs <- EpochKinds
  NbNodes = 2
  Told <- MCTold
  Heartbeats <- MCHeartbeats
  Speeds <- MCSpeeds
  Unreadable = NoNumber
  DateEvents <- DateEventKinds
  MaxSlots = 7
SPECIFICATION ServicesSpec
INVARIANTS LostOnlyByFault PoolIsSound ExpiredOnlyIfCached FewestSlotsChosen FileIsWhole QueryIsInOnePlace TreeIsMap ProofIsEnough ReportsAddUp ProofLeadsToRoot
PROPERTIES DeliversAtMostOnce EveryTransactionSettles DownloadEnds EveryQueryIsAnswered
CHECK_DEADLOCK FALSE
