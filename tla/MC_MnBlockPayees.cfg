CONSTANTS
  o1 = o1  o2 = o2  o3 = o3  o4 = o4
  p1 = p1  p2 = p2  p3 = p3
  Ops = {o1, o2, o3, o4}
  Known = {o1, o2, o3}
  Payees = {p1, p2, p3}
  BurnScript = BurnScript
  OpTier <- MCOpTier
  PayeeHash <- MCPayeeHash
  MnPayment <- MCMnPayment
  TierBurn <- MCTierBurn
  SigRequired = 3
SPECIFICATION Spec
\* every vote of the height may end up stored, after which the tally is final
CHECK_DEADLOCK FALSE
INVARIANT TypeOK
INVARIANT FilledBlockStaysValid
INVARIANT ElectionDependsOnVotesOnly
INVARIANT BudgetExemptionUnreachable
