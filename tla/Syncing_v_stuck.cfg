CONSTANTS
  l1 = l1  l2 = l2  c1 = c1  c2 = c2  a0 = a0  a1 = a1  a2 = a2
  NoBlock = 0
  Blocks <- WithFork
  TxsOf <- CoinbaseOnly
  Ins <- Inputs
  OutCount <- Outs
  NoAddress <- Nameless
  Prev <- PrevBlock
  Height <- HeightOf
  StartBlock = 1
  FirstBest = 2
  MinConfs = {3}
  Agents = {a0, a1, a2}
  NameOf <- AgentName
  FirstAgents <- OneAttester
  AgentLists <- NoLists
  Signers = {l1}
  Liars = {}
  Loops = {l1}
  ReorgDepth = 2
  Faults = {}
  EarlyResets = TRUE
  MaxRestarts = 1
  MaxUpgrades = 0
SPECIFICATION FairSpec
CHECK_DEADLOCK FALSE
PROPERTIES
  CatchesUp
