--------------------------- MODULE MC_MnBlockPayees ---------------------------
(* Model of one height's tally: four operators, o4 unknown to mnodeman,   *)
(* three payee scripts, tier payments that differ so the amount test of   *)
(* IsTransactionValid matters, and 3 votes needed for enforcement.        *)
EXTENDS MnBlockPayees

CONSTANTS o1, o2, o3, o4, p1, p2, p3

MCOpTier    == [o \in Ops |-> IF o = o3 THEN 5 ELSE 1]
MCPayeeHash == [p \in Payees |-> CASE p = p1 -> 1 [] p = p2 -> 2 [] OTHER -> 3]
MCMnPayment == [t \in TierVals |-> IF t = -1 THEN 0 ELSE 3 * t]
MCTierBurn  == [t \in Tiers |-> 100 * t]
=============================================================================
