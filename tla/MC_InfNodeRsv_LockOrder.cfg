\* The worker's scan and getResult run concurrently.
CONSTANTS
  a = a
  b = b
  c = c
  prop = prop
  None = None
  Proposals = {prop}
  Voters = {a, b, c}
  ChainVotes <- MCChainVotes
  BeginHeight = 2
  RsvBegin = 2
  MaturedLimit = 1
  ReorgDepth = 1
  MaxTip = 8
  WorkerScans = TRUE
  Nodes = {1, 2, 3, 4}
  NodeTier <- MCNodeTier
  NodeOwner <- MCNodeOwner
  BurnHeight <- MCBurnHeight
  NoResult = NoResult
  RpcCalls = {"result"}

SPECIFICATION Spec
INVARIANT NoLockCycle
