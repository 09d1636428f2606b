CONSTANTS
  alice = alice  bob = bob  minter = minter  receiver = receiver  none = none
  u1 = u1  u2 = u2  u3 = u3
  NoScript = none
  MaxValue = 1073741823
  HashTypes = {}
  Users = {alice, bob}
  Minter = minter
  Receiver = receiver
  Utxos = {u1, u2, u3}
  ValueOf <- SomeValues
  OwnerOf <- SomeOwners
  Amounts = {999999, 1000000, 8000000, 10500000, 12000000, 1073000000}
  FeeRates = {0, 20000, 3000000}
  Modulus = 1073741824
  DustLimit = 1000000
  MinFee = 1000000
  MinFeeRate = 1000
  MaxInputs = 2
SPECIFICATION Spec
CHECK_DEADLOCK FALSE
INVARIANTS
  SignaturesStand  OnlyOwnerSpends FeeIsTrue  
