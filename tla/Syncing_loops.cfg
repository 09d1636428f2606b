CONSTANTS
  l1 = l1  l2 = l2  c1 = c1  c2 = c2  a0 = a0  a1 = a1  a2 = a2
  NoBlock = 0
  Blocks <- WithBad
  TxsOf <- Transactions
  Ins <- Inputs
  OutCount <- Outs
  NoAddress <- Nameless
  Prev <- PrevBlock
  Height <- HeightOf
  StartBlock = 1
  FirstBest = 3
  MinConfs = {1}
  Agents = {a0, a1, a2}
  NameOf <- AgentName
  FirstAgents <- OneAttester
  AgentLists <- NoLists
  Signers = {l1, l2}
  Liars = {a0, a1}
  Loops = {l1, l2}
  ReorgDepth = 2
  Faults = {}
  EarlyResets = TRUE
  MaxRestarts = 2
  MaxUpgrades = 1
SPECIFICATION Spec
CHECK_DEADLOCK FALSE
INVARIANTS
  OnOneChain QueueLinked LiveIsSound ConfirmedIsSound
