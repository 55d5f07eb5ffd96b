SPECIFICATION Spec
CONSTANTS
  t1 = t1
  t2 = t2
  t3 = t3
  t4 = t4
  a = a
  b = b
  Api = Api
  NoLock = NoLock
  NoTx = NoTx
  Txs <- TwoTxs
  Objects <- OneObject
  MaxPoolSize = 2
  Faults <- AllFaults
  ApiCalls <- ResetCall
INVARIANTS
  InFlightDisjoint
  CacheIsCurrent
  SleepersHaveUpdate
PROPERTY
  SubmittedEnds
