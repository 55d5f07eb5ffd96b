SPECIFICATION Spec
CONSTANTS
  Txs <- FourTxs
  MaxPoolSize = 2
  CoinBatchSize = 4
  InitialBalance = 2
  MinimumBalance = 2
  Charges <- MCCharges
  Wallet <- MCWallet
  Givens <- NoneOrFirst
  Faults <- AllFaults
INVARIANTS
  CoinsExclusive
  CoinRefsCurrent
  BalanceNotOverstated
  RefillFeeds
  CoinsBounded
PROPERTY
  StartedEnds
