CONSTANTS
  HashLen = 2
  ShortKey = 2
  LongKey = 4
  P2pkhPrefix = 30
  P2shPrefix = 22
  Addresses <- SomeAddresses
  Scripts <- SomeScripts
  Bytes = {1, 2, 4, 81, 82, 106, 118, 135, 136, 169, 172, 174}
  MaxEdits = 2
SPECIFICATION Spec
CHECK_DEADLOCK FALSE
INVARIANTS
  AddressExact MultiSigExact
