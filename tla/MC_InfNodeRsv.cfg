\* The worker's scans, getResult and rsvScan all run concurrently.  The
\* worker and getResult take infnodeman.cs and infnodersv.cs in opposite
\* orders and can block each other for good (run lock_order shows the
\* cycle), so the system really can stop and deadlock is not checked here.
CONSTANTS
  a = a
  b = b
  c = c
  prop = prop
  None = None
  Proposals = {prop}
  Voters = {a, b, c}
  ChainVotes <- MCChainVotes
  BeginHeight = 2
  RsvBegin = 2
  MaturedLimit = 1
  ReorgDepth = 1
  MaxTip = 8
  WorkerScans = TRUE
  Nodes = {1, 2, 3, 4}
  NodeTier <- MCNodeTier
  NodeOwner <- MCNodeOwner
  BurnHeight <- MCBurnHeight
  NoResult = NoResult
  RpcCalls = {"result", "rsvscan"}

SPECIFICATION Spec
INVARIANT StoreHoldsLatestVotes
INVARIANT ResultIsSpecTally
CHECK_DEADLOCK FALSE
