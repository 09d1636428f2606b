CONSTANTS
  alice = alice  bob = bob  minter = minter
  m1 = m1  m2 = m2  b1 = b1  b2 = b2  f1 = f1  f2 = f2  k1 = k1
  Users = {alice}
  Minter = minter
  Managers = {}
  MintCalls = {m1}
  BurnCalls = {b1}
  FinalizeCalls = {f1}
  CollectCalls = {k1}
  CallerOf <- SharedSlots
  Amounts = {10}
  DustLimit = 1
  Fee = 1
  BatchDivisor = 200
  MaxBatch = 2
  ListTake = 3
  KeepHeights = 0
  MinConf = 1
  StartHeight = 2
  Faults = {}
  Values = {20}
  MaxDeposits = 2
  MaxMints = 1
  MaxHeight = 4
  MaxReorgs = 0
SPECIFICATION FairSpec
CHECK_DEADLOCK FALSE
PROPERTIES
   ChangeCollected
