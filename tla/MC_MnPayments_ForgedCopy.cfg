CONSTANTS
  o1 = o1
  o2 = o2
  o3 = o3
  p1 = p1
  p2 = p2
  Ops = {o1, o2, o3}
  Byzantine = {}
  ForgedOps = {o2}
  Payees = {p1, p2}
  BurnScript = BurnScript
  LocalOp = o1
  NoOp = NoOp
  OpTier <- MCOpTier
  Top = {o1, o2, o3}
  NextInQueue <- MCNextInQueue
  PayeeHash <- MCPayeeHash
  MnPayment <- MCMnPayment
  TierBurn <- MCTierBurn
  SigRequired = 3
  VoteWindow = 1
  FutureOffset = 1
  HashLag = 2
  StorageNum = 1
  StorageDen = 4
  MinBlocksToStore = 0
  MaxTip = 1
  PeerLead = 0
  Transient = {o3}

SPECIFICATION Spec
INVARIANT SignedVoteIsTallied
