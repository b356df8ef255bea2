\* Any block, transaction or hash read of buildInfinitynodeList may fail.
\* The tip stops at MaxTip while CheckAndRemove stays enabled, so no state
\* is a deadlock.
CONSTANTS
  n1 = n1
  n2 = n2
  n3 = n3
  n4 = n4
  n5 = n5
  n6 = n6
  n7 = n7
  Nodes = {n1, n2, n3, n4, n5, n6, n7}
  BurnHeight <- MCBurnHeight
  NodeTier <- MCNodeTier
  ExpireHeight <- MCExpireHeight
  Outpoint <- MCOutpoint
  BeginHeight = 3
  GenesisStatement = 4
  MaturedLimit = 2
  DeltaCap = 100000
  ReadFails = TRUE
  MaxTip = 14
  NoNode = NoNode
  DefaultNode = DefaultNode
  NodeOwner <- MCNodeOwner
  NodeScript <- MCNodeScript
  Scripts = {s0, s1, s2}
  Payments <- MCPayments
  PaidScanDepth = 3
  MetaUpdates <- MCMetaUpdates
  MetadataHeight = 0
  NoMeta = NoMeta
  o0 = o0
  o1 = o1
  o2 = o2
  s0 = s0
  s1 = s1
  s2 = s2
  v1 = v1
  v2 = v2
  v3 = v3
  v4 = v4

SPECIFICATION Spec
INVARIANT TypeOK
INVARIANT StatementSettled
INVARIANT FreshScheduleRoundRobin
INVARIANT LastRewardMatchesWindow
PROPERTY RegistryRefinement
