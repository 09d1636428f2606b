CONSTANTS
  l1 = l1  l2 = l2  c1 = c1  c2 = c2  a0 = a0  a1 = a1  a2 = a2
  NoBlock = 0
  Blocks <- WithFork
  TxsOf <- Transactions
  Ins <- Inputs
  OutCount <- Outs
  NoAddress <- Nameless
  Prev <- PrevBlock
  Height <- HeightOf
  StartBlock = 1
  FirstBest = 2
  MinConfs = {1}
  Agents = {a0, a1, a2}
  NameOf <- AgentName
  FirstAgents <- NoAgents
  AgentLists <- TwoLists
  Signers <- TwoSigners
  Liars = {a0}
  Loops = {l1}
  ReorgDepth = 0
  Faults = {"rpc", "sign"}
  EarlyResets = FALSE
  MaxRestarts = 3
  MaxUpgrades = 1
SPECIFICATION Spec
CHECK_DEADLOCK FALSE
INVARIANTS
  TypeOK    TokensRefreshed 
