\* Metadata updates of n1 (at 6 and 8) and n3 (at 4 and 7) on a chain
\* without read failures.
CONSTANTS
  n1 = n1
  n2 = n2
  n3 = n3
  n4 = n4
  n5 = n5
  n6 = n6
  n7 = n7
  Nodes = {n1, n2, n3, n4, n5, n6, n7}
  BurnHeight <- MCBurnHeight
  NodeTier <- MCNodeTier
  ExpireHeight <- MCExpireHeight
  Outpoint <- MCOutpoint
  BeginHeight = 3
  GenesisStatement = 4
  MaturedLimit = 2
  DeltaCap = 100000
  ReadFails = FALSE
  MaxTip = 14
  NoNode = NoNode
  DefaultNode = DefaultNode
  NodeOwner <- MCNodeOwner
  NodeScript <- MCNodeScript
  Scripts = {s0, s1, s2}
  Payments <- MCPayments
  PaidScanDepth = 3
  MetaUpdates <- MCMetaUpdates
  MetadataHeight = 0
  NoMeta = NoMeta
  o0 = o0
  o1 = o1
  o2 = o2
  s0 = s0
  s1 = s1
  s2 = s2
  v1 = v1
  v2 = v2
  v3 = v3
  v4 = v4

SPECIFICATION Spec
INVARIANT MetadataIsLatest
