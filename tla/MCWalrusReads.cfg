SPECIFICATION FairSpec
CONSTANTS
  a = a
  b = b
  c = c
  d = d
  Node <- Nodes
  Shard <- Shards
  Owner <- Owners
  MaxEpoch = 2
  CertifiedIn <- EarlyOrLate
  Faulty <- FaultyNodes
  ConcurrencyLimit = 2
  MaxReads = 1
  MaxResets = 1
CHECK_DEADLOCK FALSE
INVARIANTS
  TypeOK
  DenialHasWitness
PROPERTY
  ServedByHolders
  OneCommittee
  Settles
