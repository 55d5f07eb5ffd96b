SPECIFICATION FairSpec
CONSTANTS
  t1 = t1
  t2 = t2
  t3 = t3
  c1 = c1
  c2 = c2
  o1 = o1
  Txs <- TxSet
  Uses <- SameObject
  BuildOnly <- LastOnly
  Coins <- TwoCoins
  Objects <- OneObject
  Faults <- AllFaults
  MaxElsewhere = 1
  Patient = TRUE
CHECK_DEADLOCK FALSE
INVARIANTS
  TypeOK
  OwnedRefsCurrent
  HealsAfterReset
PROPERTY
  QueueDrains
