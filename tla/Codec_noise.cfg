CONSTANTS
  Blocks <- SomeBlocks
  Tokens = {0, 1, 2, 5}
  Statuses = {0, 199, 299, 300}
  MaxNoise = 2
  VersionAuxpow = 4
SPECIFICATION Spec
CHECK_DEADLOCK FALSE
INVARIANTS
  RoundTrip  WholeOrNothing
